---------------------------- MODULE UsageObservers ----------------------------
(***************************************************************************)
(* Metering an HTTP exchange by declared rules (service_usage_observers.py *)
(* ServiceUsageObservers): which exchanges a rule is about, which parts of *)
(* them have to be kept for it, and the usage and the provider's own       *)
(* charge it makes of them.                                                *)
(*                                                                         *)
(* A rule names the places of the exchange that it reads.  What is found   *)
(* there is a number, or it is Bad (of another type, negative, not finite) *)
(* or Missing; a name (of a resource or a record) is a number too, and      *)
(* a list is a sequence.                                                   *)
(***************************************************************************)
EXTENDS Integers, Sequences, FiniteSets, SequencesExt

CONSTANTS Numbers,     \* the numbers found in an exchange
          PathDepth    \* bound on the segments of a path

ASSUME ObserversAssumption == Numbers \subseteq Nat /\ PathDepth \in Nat

Bad == -1
Missing == -2
Refused == -3    \* the rule makes no observation
Found == Numbers \union {Bad, Missing}

RequestPlaces == {"request.characters", "request.list", "request.resource", "request.fact"}
ResponsePlaces ==
  {"response.path", "response.items", "response.list", "response.cost", "response.costs",
   "response.fee", "response.currency", "response.factor", "response.record",
   "response.resource", "response.fact"}
ListPlaces == {"request.list", "response.list", "response.items", "response.costs"}
\* A list that is not there is <<Missing>>.
ListsFound == {<<Missing>>, <<>>, <<0>>, <<1, 2>>, <<1, Bad>>}

\* An exchange is what is found at the places that are looked at.
At(exch, place) == IF place \in DOMAIN exch.found THEN exch.found[place] ELSE Missing
AtList(exch, place) ==
  IF place \in DOMAIN exch.lists THEN exch.lists[place] ELSE <<Missing>>
-----------------------------------------------------------------------------
(* The rules *)

PlainRule == [metric |-> "fixed", least |-> FALSE, cost |-> "none", factor |-> "none",
              records |-> {}, resources |-> {}, facts |-> {}, header |-> "none"]

MetricPlaces ==
  [fixed |-> {}, characters |-> {"request.characters", "query.characters"},
   list |-> {"request.list"}, paired |-> {"request.list", "response.list"},
   header |-> {"header.quantity"}, items |-> {"response.items"}, path |-> {"response.path"}]
CostPlaces ==
  [none |-> {}, usd |-> {"response.cost"}, sum |-> {"response.costs"},
   minor |-> {"response.fee", "response.currency"}]
FactorPlaces ==
  [none |-> {}, count |-> {"query.count"}, path |-> {"response.factor"}]

Reads(rule) ==
  MetricPlaces[rule.metric] \union CostPlaces[rule.cost] \union FactorPlaces[rule.factor]
  \union rule.records \union rule.resources \union rule.facts

Rules ==
  (UNION {{[PlainRule EXCEPT !.metric = m, !.cost = c, !.least = (m = "characters")] :
             m \in DOMAIN MetricPlaces} : c \in {"none", "usd"}})
  \union (UNION {{[PlainRule EXCEPT !.cost = c, !.factor = f] :
                    c \in DOMAIN CostPlaces} : f \in DOMAIN FactorPlaces})
  \union {[PlainRule EXCEPT !.resources = r] :
            r \in SUBSET {"response.resource", "request.resource", "query.resource"}}
  \union {[PlainRule EXCEPT !.records = {"response.record", "header.record"}, !.facts = f] :
            f \in {{}, {"request.fact"}, {"response.fact"}}}

HeaderTests == {"none", "present", "absent", "equals", "prefix"}
-----------------------------------------------------------------------------
(* What has to be kept of an exchange *)

\* Mutant: that a charge is read from the response is forgotten.
NeedsResponseFor(rule) ==
  \/ rule.metric \in {"path", "items", "paired"} \/ rule.factor = "path"
  \/ (rule.records \union rule.resources \union rule.facts) \intersect ResponsePlaces # {}

NeedsResponseBody(rule) ==
  \/ rule.metric \in {"path", "items", "paired"} \/ rule.cost # "none" \/ rule.factor = "path"
  \/ (rule.records \union rule.resources \union rule.facts) \intersect ResponsePlaces # {}

NeedsRequestBody(rule) ==
  \/ rule.metric \in {"characters", "list", "paired"}
  \/ (rule.resources \union rule.facts) \intersect RequestPlaces # {}

\* The header that the tests are about: its value is right (1), another one (2), or
\* absent; of a header that is only asked for, a mark is kept (0), and of one that is
\* asked for a prefix, that it has it (3).
Marked == 0
Prefixed == 3
Selects(raw, test) == raw # Missing /\ test # "none" /\ (test = "prefix" => raw = 1)
Selected(raw, test) ==
  CASE test \in {"present", "absent"} -> Marked
    [] test = "prefix" -> Prefixed
    [] test = "equals" -> raw

\* One selection serves all the rules of the endpoint: the last one of them has its way.
SelectRequestHeaders(matched, raw) ==
  LET selecting == {i \in DOMAIN matched : Selects(raw, matched[i].header)}
  IN  IF selecting = {} THEN Missing ELSE Selected(raw, matched[Max(selecting)].header)

HeaderHolds(test, value) ==
  CASE test = "none" -> TRUE
    [] test = "present" -> value # Missing
    [] test = "absent" -> value = Missing
    [] test = "equals" -> value = 1
    [] test = "prefix" -> value \in {1, Prefixed}

Keep(matched, exch) ==
  LET needed(place) ==
        /\ place \in RequestPlaces => \E i \in DOMAIN matched : NeedsRequestBody(matched[i])
        /\ place \in ResponsePlaces => \E i \in DOMAIN matched : NeedsResponseBody(matched[i])
  IN  [found |-> [place \in {p \in DOMAIN exch.found : needed(p)} |->
                    IF place = "header.fact"
                    THEN SelectRequestHeaders(matched, exch.found[place])
                    ELSE exch.found[place]],
       lists |-> [place \in {p \in DOMAIN exch.lists : needed(p)} |-> exch.lists[place]]]
-----------------------------------------------------------------------------
(* observe *)

Summed(list) == FoldLeft(LAMBDA sum, n : sum + n, 0, list)
AllFound(list) == \A i \in DOMAIN list : list[i] >= 0

\* The pairs that have both a request that counts and an answer that does (here: not 0).
Counting(exch, paired) ==
  LET asked == AtList(exch, "request.list")
      answered == AtList(exch, "response.list")
  IN  IF asked = <<Missing>> \/ (paired /\ Len(answered) # Len(asked))
         \/ (paired /\ answered = <<Missing>>) THEN 0
      ELSE Cardinality({i \in DOMAIN asked :
                          asked[i] > 0 /\ (paired => answered[i] > 0)})

Characters(exch, least) ==
  LET body == At(exch, "request.characters")
      text == IF body >= 0 THEN body ELSE At(exch, "query.characters")
  IN  IF text = 0 /\ least THEN 1 ELSE text

Quantity(rule, exch) ==
  CASE rule.metric = "fixed" -> 1
    [] rule.metric = "characters" -> Characters(exch, rule.least)
    [] rule.metric \in {"list", "paired"} -> Counting(exch, rule.metric = "paired")
    [] rule.metric = "header" -> At(exch, "header.quantity")
    [] rule.metric = "path" -> At(exch, "response.path")
    [] rule.metric = "items" -> LET items == AtList(exch, "response.items")
                                IN  IF AllFound(items) THEN Summed(items) ELSE Refused

ProviderCost(rule, exch) ==
  CASE rule.cost = "none" -> 0
    [] rule.cost = "usd" -> At(exch, "response.cost")
    [] rule.cost = "sum" -> LET costs == AtList(exch, "response.costs")
                            IN  IF costs # <<>> /\ AllFound(costs) THEN Summed(costs)
                                ELSE Refused
    [] rule.cost = "minor" -> IF At(exch, "response.currency") >= 0
                              THEN At(exch, "response.fee") ELSE Refused

\* A factor of the response that is not a positive number counts as one.
Multiplied(rule, exch, quantity) ==
  CASE rule.factor = "none" -> quantity
    [] rule.factor = "count" -> quantity * At(exch, "query.count")
    [] rule.factor = "path" -> LET factor == At(exch, "response.factor")
                               IN  IF factor > 0 THEN quantity * factor ELSE quantity

FirstOf(exch, places) ==
  LET named == {i \in DOMAIN places : At(exch, places[i]) > 0}
  IN  IF named = {} THEN Missing ELSE At(exch, places[Min(named)])

RecordId(exch) == FirstOf(exch, <<"response.record", "header.record">>)

\* A resource that the request names twice, differently, is not to be told.
Resource(exch) ==
  LET body == At(exch, "request.resource")
      query == At(exch, "query.resource")
  IN  IF body > 0 /\ query > 0 /\ body # query THEN Refused
      ELSE FirstOf(exch, <<"response.resource", "request.resource", "query.resource">>)

Eligible(rule, exch) ==
  /\ \A fact \in rule.facts : At(exch, fact) = 1
  /\ HeaderHolds(rule.header, At(exch, "header.fact"))

Observe(rule, exch) ==
  LET quantity == Quantity(rule, exch)
      cost     == ProviderCost(rule, exch)
      times    == Multiplied(rule, exch, quantity)
      resource == Resource(exch)
  IN  IF Eligible(rule, exch) /\ quantity > 0 /\ cost >= 0 /\ times > 0 /\ resource # Refused
      THEN {[quantity |-> times, cost |-> cost, record |-> RecordId(exch),
             resource |-> resource]}
      ELSE {}
-----------------------------------------------------------------------------
(* Which exchanges a rule is about *)

\* A path is its segments; "{id}" in an endpoint stands for any one of them.
Segments == {"files", "jobs", "{id}"}
Endpoints == UNION {[1 .. n -> Segments] : n \in 0 .. PathDepth}
Paths == UNION {[1 .. n -> Segments \ {"{id}"}] : n \in 0 .. PathDepth}
Modes == {"exact", "prefix", "path_template"}

\* The path has that segment of the endpoint.
SameSegment(path, endpoint, i) == i \in DOMAIN path /\ path[i] = endpoint[i]

EndpointMatches(path, endpoint, mode) ==
  CASE mode = "exact" -> path = endpoint
    [] mode = "prefix" -> \A i \in DOMAIN endpoint : SameSegment(path, endpoint, i)
    [] mode = "path_template" -> /\ Len(path) = Len(endpoint)
                                 /\ \A i \in DOMAIN path : endpoint[i] \in {path[i], "{id}"}

\* The endpoint with all below it, up to the first parameter of a template.
EndpointBoundaryMatches(path, endpoint, mode) ==
  LET fixed == {i \in DOMAIN endpoint :
                  mode = "path_template" => \A j \in 1 .. i : endpoint[j] # "{id}"}
  IN  \A i \in fixed : SameSegment(path, endpoint, i)

Routes == [path : Paths, endpoint : Endpoints, mode : Modes]
Home == [path |-> <<>>, endpoint |-> <<>>, mode |-> "exact"]
-----------------------------------------------------------------------------
VARIABLES
  rules,        \* the rules that match the URL of the exchange
  exchange,     \* what there is at the places they read
  route,        \* its path, and an endpoint of theirs with its mode
  kept,         \* what the adapter keeps of it
  observations, \* for each rule, what it makes of that
  stage

observerVars == <<rules, exchange, route, kept, observations, stage>>

\* The rules of one endpoint ask the header the same question, as the bundled ones do.
ObserversInit ==
  /\ \E rule \in Rules, test \in HeaderTests, more \in BOOLEAN :
       /\ test # "none" => rule = PlainRule
       /\ rules = IF more THEN <<[PlainRule EXCEPT !.header = test], [rule EXCEPT !.header = test]>>
                  ELSE <<[rule EXCEPT !.header = test]>>
       /\ exchange \in
            [found : [Reads(rule) \ ListPlaces -> Found],
             lists : [Reads(rule) \intersect ListPlaces -> ListsFound]]
            \union [found : [{"header.fact"} -> {Missing, 1, 2}], lists : {<<>>}]
       /\ test # "none" <=> "header.fact" \in DOMAIN exchange.found
       /\ route \in IF rule = PlainRule /\ test = "none" THEN Routes ELSE {Home}
  /\ kept = <<>> /\ observations = <<>> /\ stage = "sent"

KeepFacts ==
  /\ stage = "sent" /\ stage' = "kept"
  /\ kept' = Keep(rules, exchange)
  /\ UNCHANGED <<rules, exchange, route, observations>>

ObserveKept ==
  /\ stage = "kept" /\ stage' = "observed"
  /\ observations' = [i \in DOMAIN rules |-> Observe(rules[i], kept)]
  /\ UNCHANGED <<rules, exchange, route, kept>>

ObserversNext == KeepFacts \/ ObserveKept
ObserversSpec == ObserversInit /\ [][ObserversNext]_observerVars
-----------------------------------------------------------------------------
\* The exchange with one value that can not be read.
Damages(exch) ==
  {[exch EXCEPT !.found[place] = Bad] : place \in DOMAIN exch.found}
  \union (UNION {{[exch EXCEPT !.lists[place] = list] : place \in DOMAIN exch.lists} :
                    list \in {<<Missing>>, <<>>, <<1, Bad>>}})

\* What is left out before the rules are applied makes no difference to them: neither
\* the bodies that are not read nor the headers of which only a mark is kept
\* (needs_request_body, needs_response_body, select_request_headers).
WhatIsKeptIsEnough ==
  stage = "observed" => \A i \in DOMAIN rules : observations[i] = Observe(rules[i], exchange)

\* A provider's charge is whole or it is not reported: whatever single value can not be
\* read, no observation with another charge comes of it (observe).
ChargeIsWholeOrAbsent ==
  stage = "observed" =>
    \A i \in DOMAIN rules, damaged \in Damages(exchange) :
      \A o \in observations[i], p \in Observe(rules[i], damaged) : o.cost = p.cost

\* An exchange that a rule is about is never left to the prices of the bundled catalog:
\* the boundary that keeps those away holds whatever the endpoint matches
\* (owns_endpoint_boundary).
MatchedRouteIsOwned ==
  EndpointMatches(route.path, route.endpoint, route.mode)
    => EndpointBoundaryMatches(route.path, route.endpoint, route.mode)

\* The rules judge what was kept as they would the whole exchange, on every route they
\* own, and report a whole charge or none.
ObservationsAreSound == WhatIsKeptIsEnough /\ ChargeIsWholeOrAbsent /\ MatchedRouteIsOwned
=============================================================================
