------------------------------- MODULE EventProofs -------------------------------
(***************************************************************************)
(* Theorems about EventIdentity and HttpCapture: that an event keeps the   *)
(* identity of what it records and is linked to what it retries, and that  *)
(* an exchange is recorded once.                                           *)
(*                                                                         *)
(* Each part begins with its inductive invariant and ends with its theorem. *)
(***************************************************************************)
EXTENDS EventIdentity, HttpCapture, SequenceTheorems, TLAPS
-----------------------------------------------------------------------------
(***************************************************************************)
(* EventIdentity: any plan, with any number of operations at once and of   *)
(* runs, each of which may break off anywhere.                             *)
(***************************************************************************)
\* An operation takes its occurrence as it begins, and they begin in the order of the plan.
Numbered == setup.early /\ setup.inOrder

Id(o) == <<o - 1, plan[o].model>>
Measured == Latencies \union {0}
LogEvent == [id : Nat \X LlmModels, model : LlmModels, fails : BOOLEAN, time : Nat,
             latency : Measured, retryOf : {<<>>}, by : Plan, read : {TRUE},
             operation : Nat \X LlmModels, attempt : {1}]
Doing == [at : {"unstarted", "called", "answered", "detected", "stored", "done"},
          occurrence : Nat, time : Nat, latency : Measured, retryOf : Seq(Nat \X LlmModels)]

\* The event of an operation, but for its time and latency.
IsOf(event, o) ==
  /\ event \in LogEvent /\ event.by = o
  /\ event.id = Id(o) /\ event.operation = Id(o)
  /\ event.model = plan[o].model /\ event.fails = plan[o].fails

IdentityStateOK ==
  /\ plan \in [Plan -> [model : LlmModels, fails : BOOLEAN]]
  /\ setup.keyed /\ setup.detector = "off"
  /\ nextOccurrence \in 0 .. Operations /\ eventClock \in Nat
  /\ doing \in [Plan -> Doing]
  /\ log \in Seq(LogEvent)

\* The operations that have begun are the first ones of the plan, each with its number.
BegunInOrder ==
  \A o \in Plan :
    /\ doing[o].at # "unstarted" <=> o <= nextOccurrence
    /\ doing[o].at # "unstarted" => doing[o].occurrence = o - 1
    /\ doing[o].at \notin {"stored", "done"} => doing[o].retryOf = <<>>

\* The log has one event of an operation at most, and it is that of every run of it.
LogIsOfThePlan ==
  /\ \A i \in DOMAIN log : IsOf(log[i], log[i].by)
  /\ \A i, j \in DOMAIN log : log[i].by = log[j].by => i = j
  /\ \A met \in absorbed \union conflicts : met.operation = met.stored
  /\ \A c \in conflicts :
       \E i \in DOMAIN log : log[i].by = c.operation /\ log[i].latency # c.latency

IdentityInv == Numbered => IdentityStateOK /\ BegunInOrder /\ LogIsOfThePlan

-----------------------------------------------------------------------------
\* Operations of one plan have ids of their own, and its event has all its facts.
LEMMA IdsAreApart ==
  ASSUME NEW o \in Plan, NEW p \in Plan, Id(o) = Id(p)
  PROVE  o = p
<1>1. o \in Nat /\ p \in Nat /\ o - 1 = p - 1
  BY IdentityAssumption DEF Id, Plan
<1> QED BY <1>1

LEMMA EventsAreTheSame ==
  ASSUME NEW o, NEW e, NEW f, IsOf(e, o), IsOf(f, o), e.latency = f.latency
  PROVE  SameFacts(e, f)
<1>1. /\ e \in LogEvent /\ f \in LogEvent /\ e.id = f.id /\ e.operation = f.operation
      /\ e.model = f.model /\ e.fails = f.fails /\ e.attempt = f.attempt
      /\ e.retryOf = f.retryOf /\ e.latency = f.latency
  BY DEF IsOf, LogEvent
<1> QED BY <1>1 DEF SameFacts, Facts

\* The event that an operation stores is its own.
LEMMA EventForIsOf ==
  ASSUME Numbered, IdentityStateOK, BegunInOrder, NEW o \in Plan, doing[o].at = "detected"
  PROVE  IsOf(EventFor(o, TRUE), o) /\ EventFor(o, TRUE).id = Id(o)
<1> DEFINE event == EventFor(o, TRUE)
<1>1. /\ doing[o].retryOf = <<>> /\ doing[o].occurrence = o - 1 /\ doing[o].time \in Nat
      /\ doing[o].latency \in Measured
      /\ plan[o].model \in LlmModels /\ plan[o].fails \in BOOLEAN
  BY DEF BegunInOrder, IdentityStateOK, Doing
<1>2. IdOf(o) = Id(o)
  BY <1>1 DEF IdOf, Id, Numbered, IdentityStateOK
<1> DEFINE lineage == Lineage(IdOf(o), doing[o].retryOf, TRUE)
<1>3. lineage.operation = Id(o) /\ lineage.attempt = 1
  BY <1>1, <1>2 DEF Lineage
<1>4. Id(o) \in Nat \X LlmModels
  BY <1>1, IdentityAssumption DEF Id, Plan
<1>5. event = [id |-> Id(o), model |-> plan[o].model, fails |-> plan[o].fails,
               time |-> doing[o].time, latency |-> doing[o].latency, retryOf |-> <<>>,
               by |-> o, read |-> TRUE, operation |-> Id(o), attempt |-> 1]
  <2>1. event = [id |-> IdOf(o), model |-> plan[o].model, fails |-> plan[o].fails,
                 time |-> doing[o].time, latency |-> doing[o].latency,
                 retryOf |-> doing[o].retryOf, by |-> o, read |-> TRUE,
                 operation |-> lineage.operation, attempt |-> lineage.attempt]
    BY Zenon DEF EventFor
  <2> HIDE DEF event, lineage
  <2> QED BY <1>1, <1>2, <1>3, <2>1
<1> HIDE DEF Id, event
<1>6. event \in LogEvent
  BY <1>1, <1>4, <1>5 DEF LogEvent
<1>7. IsOf(event, o) /\ event.id = Id(o)
  BY <1>5, <1>6 DEF IsOf
<1> QED BY <1>7 DEF event

\* What is stored under the id of an operation is its event.
LEMMA StoredIsOf ==
  ASSUME LogIsOfThePlan, IdentityStateOK, NEW o \in Plan
  PROVE  /\ StoredAs(Id(o)) = {i \in DOMAIN log : log[i].by = o}
         /\ StoredAs(Id(o)) # {} => IsOf(EventOf(Id(o)), o)
<1>1. ASSUME NEW i \in DOMAIN log
      PROVE  log[i].by \in Plan /\ IsOf(log[i], log[i].by) /\ log[i].id = Id(log[i].by)
  BY DEF LogIsOfThePlan, IdentityStateOK, IsOf, LogEvent
<1>2. StoredAs(Id(o)) = {i \in DOMAIN log : log[i].by = o}
  BY <1>1, IdsAreApart DEF StoredAs
<1> DEFINE k == CHOOSE i \in StoredAs(Id(o)) : TRUE
<1>3. StoredAs(Id(o)) # {} => k \in DOMAIN log /\ log[k].by = o
  BY <1>2
<1> QED BY <1>1, <1>2, <1>3 DEF EventOf
-----------------------------------------------------------------------------
\* One operation moves on: its own place is as it should be, the log stays.
LEMMA OperationMoves ==
  ASSUME Numbered, IdentityStateOK, BegunInOrder, LogIsOfThePlan,
         NEW o \in Plan, NEW d \in Doing, doing' = [doing EXCEPT ![o] = d],
         doing[o].at # "unstarted", d.at # "unstarted", d.occurrence = doing[o].occurrence,
         d.at \notin {"stored", "done"} => d.retryOf = <<>>,
         eventClock' \in Nat,
         UNCHANGED <<plan, setup, nextOccurrence, log, absorbed, conflicts>>
  PROVE  IdentityStateOK' /\ BegunInOrder' /\ LogIsOfThePlan'
<1>1. IdentityStateOK'
  BY DEF IdentityStateOK
<1>2. BegunInOrder'
  BY DEF BegunInOrder, IdentityStateOK
<1>3. LogIsOfThePlan'
  BY DEF LogIsOfThePlan, IsOf, Id
<1> QED BY <1>1, <1>2, <1>3

LEMMA BeginKeeps ==
  ASSUME Numbered, IdentityStateOK, BegunInOrder, LogIsOfThePlan,
         NEW o \in Plan, BeginOperation(o)
  PROVE  IdentityStateOK' /\ BegunInOrder' /\ LogIsOfThePlan'
<1> DEFINE d == [doing[o] EXCEPT !.at = "called", !.occurrence = nextOccurrence]
<1>1. /\ doing[o].at = "unstarted" /\ nextOccurrence' = nextOccurrence + 1
      /\ \A p \in Plan : p < o => doing[p].at # "unstarted"
      /\ UNCHANGED <<plan, setup, eventClock, log, absorbed, conflicts>>
      /\ doing[o] \in Doing /\ doing[o].retryOf = <<>>
  BY DEF BeginOperation, Capture, Numbered, logVars, IdentityStateOK, BegunInOrder
<1>2. nextOccurrence = o - 1
  <2>1. nextOccurrence \in 0 .. Operations /\ o \in 1 .. Operations /\ Operations \in Nat
    BY IdentityAssumption DEF IdentityStateOK, Plan
  <2>2. o > nextOccurrence
    BY <1>1, <2>1 DEF BegunInOrder
  <2>3. o # 1 => o - 1 \in Plan /\ o - 1 < o
    BY <2>1 DEF Plan
  <2>4. o # 1 => o - 1 <= nextOccurrence
    BY <1>1, <2>3 DEF BegunInOrder
  <2> QED BY <2>1, <2>2, <2>4
<1>3. nextOccurrence' = o /\ nextOccurrence' \in 0 .. Operations /\ nextOccurrence \in Nat
  BY <1>1, <1>2, IdentityAssumption DEF Plan
<1>4. doing' = [doing EXCEPT ![o] = d]
  BY DEF BeginOperation, IdentityStateOK
<1>5. d \in Doing
  BY <1>1, <1>3 DEF Doing
<1>6. d.at = "called" /\ d.occurrence = o - 1 /\ d.retryOf = <<>>
  BY <1>1, <1>2 DEF Doing
<1> HIDE DEF d
<1>7. IdentityStateOK'
  BY <1>1, <1>3, <1>4, <1>5 DEF IdentityStateOK
<1>8. BegunInOrder'
  <2> SUFFICES ASSUME NEW p \in Plan
               PROVE  /\ doing'[p].at # "unstarted" <=> p <= o
                      /\ doing'[p].at # "unstarted" => doing'[p].occurrence = p - 1
                      /\ doing'[p].at \notin {"stored", "done"} => doing'[p].retryOf = <<>>
    BY <1>3 DEF BegunInOrder
  <2>1. CASE p = o
    BY <1>4, <1>6, <2>1 DEF IdentityStateOK, Plan
  <2>2. CASE p # o
    <3>1. doing'[p] = doing[p]
      BY <1>4, <2>2 DEF IdentityStateOK
    <3>2. p <= nextOccurrence <=> p <= o
      BY <1>2, <2>2, IdentityAssumption DEF Plan
    <3> QED BY <3>1, <3>2 DEF BegunInOrder
  <2> QED BY <2>1, <2>2
<1>9. LogIsOfThePlan'
  BY <1>1 DEF LogIsOfThePlan, IsOf, Id
<1> QED BY <1>7, <1>8, <1>9

LEMMA AnswerComesKeeps ==
  ASSUME Numbered, IdentityStateOK, BegunInOrder, LogIsOfThePlan,
         NEW o \in Plan, AnswerArrives(o)
  PROVE  IdentityStateOK' /\ BegunInOrder' /\ LogIsOfThePlan'
<1>0. PICK latency \in Latencies :
        doing' = [doing EXCEPT ![o].at = "answered", ![o].time = eventClock + 1,
                               ![o].latency = latency]
  BY DEF AnswerArrives
<1> DEFINE d == [doing[o] EXCEPT !.at = "answered", !.time = eventClock + 1,
                                 !.latency = latency]
<1>1. /\ doing[o].at = "called" /\ doing[o] \in Doing /\ eventClock + 1 \in Nat
      /\ eventClock' = eventClock + 1 /\ doing[o].retryOf = <<>>
      /\ UNCHANGED <<plan, setup, nextOccurrence, log, absorbed, conflicts>>
  BY DEF AnswerArrives, IdentityStateOK, BegunInOrder, logVars
<1>2. doing' = [doing EXCEPT ![o] = d]
  BY <1>0 DEF IdentityStateOK
<1>3. d \in Doing
  BY <1>1 DEF Doing, Measured
<1>4. d.at = "answered" /\ d.occurrence = doing[o].occurrence /\ d.retryOf = <<>>
  BY <1>1 DEF Doing
<1> HIDE DEF d
<1> QED BY <1>1, <1>2, <1>3, <1>4, OperationMoves

LEMMA DetectKeeps ==
  ASSUME Numbered, IdentityStateOK, BegunInOrder, LogIsOfThePlan,
         NEW o \in Plan, DetectRetry(o)
  PROVE  IdentityStateOK' /\ BegunInOrder' /\ LogIsOfThePlan'
<1> DEFINE d == [doing[o] EXCEPT !.at = "detected", !.retryOf = <<>>]
<1>1. /\ doing[o].at = "answered" /\ doing[o] \in Doing /\ eventClock' \in Nat
      /\ setup.detector = "off"
      /\ UNCHANGED <<plan, setup, nextOccurrence, log, absorbed, conflicts>>
  BY DEF DetectRetry, IdentityStateOK, logVars
<1>2. doing' = [doing EXCEPT ![o] = d]
  BY <1>1 DEF DetectRetry, IdentityStateOK
<1>3. d \in Doing
  <2>1. <<>> \in Seq(Nat \X LlmModels)
    OBVIOUS
  <2> QED BY <1>1, <2>1 DEF Doing
<1>4. d.at = "detected" /\ d.occurrence = doing[o].occurrence /\ d.retryOf = <<>>
  BY <1>1 DEF Doing
<1> HIDE DEF d
<1> QED BY <1>1, <1>2, <1>3, <1>4, OperationMoves

LEMMA TellKeeps ==
  ASSUME Numbered, IdentityStateOK, BegunInOrder, LogIsOfThePlan,
         NEW o \in Plan, TellEngine(o)
  PROVE  IdentityStateOK' /\ BegunInOrder' /\ LogIsOfThePlan'
<1> DEFINE d == [doing[o] EXCEPT !.at = "done"]
<1>1. /\ doing[o].at = "stored" /\ doing[o] \in Doing /\ eventClock' \in Nat
      /\ UNCHANGED <<plan, setup, nextOccurrence, log, absorbed, conflicts>>
  BY DEF TellEngine, IdentityStateOK, logVars
<1>2. doing' = [doing EXCEPT ![o] = d]
  BY DEF TellEngine, IdentityStateOK
<1>3. d \in Doing
  BY <1>1 DEF Doing
<1>4. d.at = "done" /\ d.occurrence = doing[o].occurrence
  BY <1>1 DEF Doing
<1> HIDE DEF d
<1> QED BY <1>1, <1>2, <1>3, <1>4, OperationMoves

LEMMA StoreKeeps ==
  ASSUME Numbered, IdentityStateOK, BegunInOrder, LogIsOfThePlan,
         NEW o \in Plan, NEW read \in BOOLEAN, StoreEvent(o, read)
  PROVE  IdentityStateOK' /\ BegunInOrder' /\ LogIsOfThePlan'
<1>0. read = TRUE
  BY DEF StoreEvent, BegunInOrder
<1> DEFINE event == EventFor(o, TRUE)
           refused == StoredAs(event.id) # {} /\ ~SameFacts(EventOf(event.id), event)
           to == IF refused THEN "done" ELSE "stored"
           d == [doing[o] EXCEPT !.at = to, !.retryOf = <<event.id>>]
<1>1. /\ doing[o].at = "detected" /\ doing[o] \in Doing /\ nextOccurrence' = nextOccurrence
      /\ InsertEvent(o, event)
      /\ UNCHANGED <<plan, setup, eventClock>>
  BY <1>0 DEF StoreEvent, NoCapture, Numbered, IdentityStateOK
<1>2. IsOf(event, o) /\ event.id = Id(o) /\ event \in LogEvent /\ event.by = o
  BY <1>1, EventForIsOf DEF IsOf
<1>3. doing' = [doing EXCEPT ![o] = d]
  BY <1>0 DEF StoreEvent, IdentityStateOK
<1>4. to \in {"done", "stored"}
  OBVIOUS
<1> HIDE DEF event, refused, to
<1>5. <<event.id>> \in Seq(Nat \X LlmModels)
  BY <1>2 DEF LogEvent
<1>6. d \in Doing
  BY <1>1, <1>4, <1>5 DEF Doing
<1>7. d.at = to /\ d.occurrence = doing[o].occurrence
  BY <1>1 DEF Doing
<1> HIDE DEF d
<1>8. BegunInOrder'
  BY <1>1, <1>3, <1>4, <1>7 DEF BegunInOrder, IdentityStateOK
<1>10. CASE StoredAs(event.id) = {}
  <2>1. log' = Append(log, event) /\ UNCHANGED <<absorbed, conflicts>>
    BY <1>1, <1>10 DEF InsertEvent
  <2>2. \A i \in DOMAIN log : log[i].by # o
    BY <1>2, <1>10, StoredIsOf
  <2>3. /\ log \in Seq(LogEvent) /\ log' \in Seq(LogEvent)
        /\ DOMAIN log' = DOMAIN log \union {Len(log) + 1}
        /\ \A i \in DOMAIN log : log'[i] = log[i]
        /\ log'[Len(log) + 1] = event
    BY <1>2, <2>1 DEF IdentityStateOK
  <2>4. IdentityStateOK'
    BY <1>1, <1>3, <1>6, <2>3 DEF IdentityStateOK
  <2>5. \A i \in DOMAIN log' : IsOf(log'[i], log'[i].by)
    BY <1>2, <2>3 DEF LogIsOfThePlan
  <2>6. \A i, j \in DOMAIN log' : log'[i].by = log'[j].by => i = j
    BY <1>2, <2>2, <2>3 DEF LogIsOfThePlan
  <2>7. \A c \in conflicts :
          \E i \in DOMAIN log' : log'[i].by = c.operation /\ log'[i].latency # c.latency
    BY <2>3 DEF LogIsOfThePlan
  <2>8. LogIsOfThePlan'
    BY <1>1, <2>1, <2>5, <2>6, <2>7 DEF LogIsOfThePlan, IsOf, Id
  <2> QED BY <1>8, <2>4, <2>8
<1>11. CASE StoredAs(event.id) # {}
  <2>1. /\ IsOf(EventOf(event.id), o) /\ EventOf(event.id).by = o
        /\ \E i \in DOMAIN log : log[i] = EventOf(event.id)
    <3>1. IsOf(EventOf(event.id), o)
      BY <1>2, <1>11, StoredIsOf
    <3>2. (CHOOSE i \in StoredAs(event.id) : TRUE) \in DOMAIN log
      BY <1>11 DEF StoredAs
    <3> QED BY <3>1, <3>2 DEF EventOf, IsOf
  <2>2. log' = log
    BY <1>1, <1>11 DEF InsertEvent
  <2>3. IdentityStateOK'
    BY <1>1, <1>3, <1>6, <2>2 DEF IdentityStateOK
  <2>4. CASE SameFacts(EventOf(event.id), event)
    <3>1. /\ absorbed' = absorbed \union {[operation |-> o, stored |-> o]}
          /\ conflicts' = conflicts
      BY <1>1, <1>11, <2>1, <2>4 DEF InsertEvent
    <3> QED BY <1>1, <1>8, <2>2, <2>3, <3>1 DEF LogIsOfThePlan, IsOf, Id
  <2>5. CASE ~SameFacts(EventOf(event.id), event)
    <3> DEFINE c == [operation |-> o, stored |-> o, latency |-> event.latency]
    <3>1. conflicts' = conflicts \union {c} /\ absorbed' = absorbed
      BY <1>1, <1>11, <2>1, <2>5 DEF InsertEvent
    <3>2. EventOf(event.id).latency # event.latency
      BY <1>2, <2>1, <2>5, EventsAreTheSame
    <3>3. c.operation = o /\ c.stored = o /\ c.latency = event.latency
      OBVIOUS
    <3> HIDE DEF c
    <3>4. \E i \in DOMAIN log : log[i].by = c.operation /\ log[i].latency # c.latency
      BY <2>1, <3>2, <3>3
    <3>5. \A k \in conflicts' :
            \E i \in DOMAIN log : log[i].by = k.operation /\ log[i].latency # k.latency
      BY <3>1, <3>4 DEF LogIsOfThePlan
    <3>6. \A met \in absorbed' \union conflicts' : met.operation = met.stored
      BY <3>1, <3>3 DEF LogIsOfThePlan
    <3> QED BY <1>1, <1>8, <2>2, <2>3, <3>5, <3>6 DEF LogIsOfThePlan, IsOf, Id
  <2> QED BY <2>4, <2>5
<1> QED BY <1>10, <1>11

LEMMA RunAgainKeeps ==
  ASSUME Numbered, IdentityStateOK, BegunInOrder, LogIsOfThePlan, RunAgain
  PROVE  IdentityStateOK' /\ BegunInOrder' /\ LogIsOfThePlan'
<1>1. /\ nextOccurrence' = 0 /\ doing' = [o \in Plan |-> Unstarted]
      /\ UNCHANGED <<plan, setup, eventClock, log, absorbed, conflicts>>
  BY DEF RunAgain, logVars
<1>2. Unstarted \in Doing /\ Unstarted.at = "unstarted" /\ Unstarted.retryOf = <<>>
  BY DEF Unstarted, Doing, Measured
<1>3. IdentityStateOK'
  BY <1>1, <1>2, IdentityAssumption DEF IdentityStateOK
<1>4. BegunInOrder'
  BY <1>1, <1>2, IdentityAssumption DEF BegunInOrder, Plan
<1>5. LogIsOfThePlan'
  BY <1>1 DEF LogIsOfThePlan, IsOf, Id
<1> QED BY <1>3, <1>4, <1>5
-----------------------------------------------------------------------------
LEMMA IdentityStarts ==
  ASSUME IdentityInit
  PROVE  IdentityInv
<1> SUFFICES ASSUME Numbered PROVE IdentityStateOK /\ BegunInOrder /\ LogIsOfThePlan
  BY DEF IdentityInv
<1>1. Unstarted \in Doing /\ Unstarted.at = "unstarted" /\ Unstarted.retryOf = <<>>
  BY DEF Unstarted, Doing, Measured
<1>2. IdentityStateOK
  BY <1>1, IdentityAssumption DEF IdentityInit, IdentityStateOK, Numbered
<1>3. BegunInOrder
  BY <1>1, IdentityAssumption DEF IdentityInit, BegunInOrder, Plan
<1>4. LogIsOfThePlan
  BY DEF IdentityInit, LogIsOfThePlan
<1> QED BY <1>2, <1>3, <1>4

LEMMA IdentityHolds == IdentitySpec => []IdentityInv
<1>1. ASSUME IdentityInv, IdentityNext PROVE IdentityInv'
  <2>1. setup' = setup
    BY <1>1 DEF IdentityNext, RunAgain, MarkNotRetry, BeginOperation, AnswerArrives,
                DetectRetry, StoreEvent, TellEngine
  <2>2. CASE Numbered
    <3>1. IdentityStateOK /\ BegunInOrder /\ LogIsOfThePlan
      BY <1>1, <2>2 DEF IdentityInv
    <3>2. ~MarkNotRetry
      <4>1. \A i \in DOMAIN log : log[i].retryOf = <<>>
        <5> SUFFICES ASSUME NEW i \in DOMAIN log PROVE log[i].retryOf = <<>>
          OBVIOUS
        <5>1. log[i] \in LogEvent
          BY <3>1 DEF IdentityStateOK
        <5> QED BY <5>1 DEF LogEvent
      <4> QED BY <4>1 DEF MarkNotRetry
    <3>3. IdentityStateOK' /\ BegunInOrder' /\ LogIsOfThePlan'
      BY <1>1, <2>2, <3>1, <3>2, RunAgainKeeps, BeginKeeps, AnswerComesKeeps, DetectKeeps,
         StoreKeeps, TellKeeps DEF IdentityNext
    <3> QED BY <3>3 DEF IdentityInv
  <2>3. CASE ~Numbered
    BY <2>1, <2>3 DEF IdentityInv, Numbered
  <2> QED BY <2>2, <2>3
<1>2. IdentityInv /\ UNCHANGED identityVars => IdentityInv'
  BY DEF identityVars, IdentityInv, Numbered, IdentityStateOK, BegunInOrder, LogIsOfThePlan,
         IsOf, Id
<1> QED BY <1>1, <1>2, IdentityStarts, PTL DEF IdentitySpec

(* However often a plan is run, broken off and run again under its key,    *)
(* with however many operations at once, and in whatever order they end:   *)
(* each operation that took its occurrence as it began is stored once at   *)
(* most; what is absorbed or refused meets an earlier run of the same      *)
(* operation, and it is refused only if its latency was measured otherwise *)
(* (idempotency.py capture_idempotency_key, equivalent_idempotent_event,   *)
(* sqlite.py insert_event).                                                *)
THEOREM OperationsStayThemselves == IdentitySpec => []OperationsKeepTheirIdentity
<1>1. ASSUME IdentityInv PROVE OperationsKeepTheirIdentity
  BY <1>1 DEF IdentityInv, Numbered, LogIsOfThePlan, OperationsKeepTheirIdentity,
              OperationIsStoredOnce, OperationsStayApart
<1> QED BY <1>1, IdentityHolds, PTL
-----------------------------------------------------------------------------
(***************************************************************************)
(* EventIdentity: the retries of any plan, with and without a key, under   *)
(* either detector, over any number of runs.                               *)
(***************************************************************************)
EventIds == ({"fresh"} \X Nat \X Plan) \union (Nat \X LlmModels)
Links == {<<>>} \union {<<id>> : id \in EventIds}
Stages == {"unstarted", "called", "answered", "detected", "stored", "done"}
LinkedCall == [at : Stages, occurrence : Nat, time : Nat, latency : Measured, retryOf : Links]
LinkedEvent == [id : EventIds, model : LlmModels, fails : BOOLEAN, time : Nat,
                latency : Measured, retryOf : Links, by : Plan, read : BOOLEAN,
                operation : EventIds, attempt : Nat]

LinkTypes ==
  /\ plan \in [Plan -> [model : LlmModels, fails : BOOLEAN]]
  /\ run \in Nat /\ nextOccurrence \in Nat /\ eventClock \in Nat
  /\ setup.detector \in {"off", "engine", "storage"}
  /\ doing \in [Plan -> LinkedCall]
  /\ log \in Seq(LinkedEvent)

\* There is an event of that id in the log, and a call has its time but is not stored yet.
Known(id) == \E i \in DOMAIN log : log[i].id = id
Waits(o) == doing[o].at \in {"answered", "detected"}

\* An id is that of one event, every link leads to one, and the links are what they say.
LogIsLinked ==
  /\ \A i, j \in DOMAIN log : log[i].id = log[j].id => i = j
  /\ \A i \in DOMAIN log : log[i].retryOf # <<>> => Known(log[i].retryOf[1])
  /\ RetryFollowsAFailure /\ AttemptsCountUp

\* No call that waits has the time of another one, or of an event.
TimesAreApart ==
  /\ \A o \in Plan : doing[o].time <= eventClock
  /\ \A i \in DOMAIN log : log[i].time <= eventClock
  /\ \A o, p \in Plan : Waits(o) /\ Waits(p) /\ o # p => doing[o].time # doing[p].time
  /\ \A o \in Plan, i \in DOMAIN log : Waits(o) => doing[o].time # log[i].time

\* The failure that a call is taken to be a retry of.
IsFailureOf(j, o, link) ==
  /\ log[j].id = link[1] /\ log[j].fails /\ log[j].model = plan[o].model
  /\ doing[o].time - log[j].time \in 1 .. RetryWindow
ByEngine == setup.detector = "engine" /\ ~setup.keyed

\* What a call is linked to is stored, and what the engine links is a failure before it.
CallIsLinked(o) ==
  /\ doing[o].at \in {"detected", "stored"} /\ doing[o].retryOf # <<>>
       => Known(doing[o].retryOf[1])
  /\ doing[o].at = "stored" => doing[o].retryOf # <<>>
  /\ doing[o].at = "detected" /\ ByEngine /\ doing[o].retryOf # <<>>
       => \E j \in DOMAIN log : IsFailureOf(j, o, doing[o].retryOf)

EngineKnows == \A id \in DOMAIN recent : Known(id)
CallsAreLinked == \A o \in Plan : CallIsLinked(o)

LinkInv == LinkTypes /\ LogIsLinked /\ TimesAreApart /\ CallsAreLinked /\ EngineKnows
-----------------------------------------------------------------------------
LEMMA LinkOf ==
  ASSUME NEW id \in EventIds
  PROVE  <<id>> \in Links /\ <<id>> # <<>> /\ <<id>>[1] = id
BY DEF Links

\* As long as the log stays, so do its links and what is known.
LEMMA LogStays ==
  ASSUME LinkInv, UNCHANGED <<plan, setup, log, unmarked>>
  PROVE  LogIsLinked' /\ \A id : Known(id) <=> Known(id)'
<1>1. LogIsLinked
  BY DEF LinkInv
<1>2. \A id : Known(id) <=> Known(id)'
  BY DEF Known
<1>3. AttemptsCountUp'
  BY <1>1 DEF LogIsLinked, AttemptsCountUp, StoredAs
<1>4. RetryFollowsAFailure'
  BY <1>1 DEF LogIsLinked, RetryFollowsAFailure
<1>5. (\A i, j \in DOMAIN log : log[i].id = log[j].id => i = j)'
  BY <1>1 DEF LogIsLinked
<1>6. (\A i \in DOMAIN log : log[i].retryOf # <<>> => Known(log[i].retryOf[1]))'
  BY <1>1 DEF LogIsLinked, Known
<1> QED BY <1>2, <1>3, <1>4, <1>5, <1>6 DEF LogIsLinked

\* The event of a known id, of which there is one.
LEMMA EventOfIs ==
  ASSUME NEW id, Known(id)
  PROVE  \E i \in DOMAIN log : log[i].id = id /\ EventOf(id) = log[i]
<1>1. \E i : i \in StoredAs(id)
  BY DEF Known, StoredAs
<1>2. (CHOOSE i \in StoredAs(id) : TRUE) \in StoredAs(id)
  BY <1>1
<1> QED BY <1>2 DEF EventOf, StoredAs

LEMMA StoredAsKnown ==
  ASSUME NEW id
  PROVE  StoredAs(id) # {} <=> Known(id)
BY DEF StoredAs, Known

\* What is found among stored events is the id of a failure.
LEMMA RetryOfIs ==
  ASSUME NEW events, RetryOf(events) # <<>>
  PROVE  \E e \in events : e.fails /\ RetryOf(events) = <<e.id>>
<1>1. \E e \in events : e.fails
  BY DEF RetryOf
<1>2. LET c == CHOOSE e \in events : e.fails IN c \in events /\ c.fails
  BY <1>1
<1> QED BY <1>1, <1>2 DEF RetryOf
-----------------------------------------------------------------------------
\* The engine finds a stored failure of the model within the window, not later than the
\* call; so does the look into the storage, but for the order of the times.
LEMMA EngineFindsAFailure ==
  ASSUME LinkInv, NEW o \in Plan, EngineFinds(o) # <<>>
  PROVE  \E j \in DOMAIN log :
           /\ EngineFinds(o) = <<log[j].id>> /\ log[j].fails /\ log[j].model = plan[o].model
           /\ doing[o].time - log[j].time \in 0 .. RetryWindow
<1> DEFINE near == {e \in LastRecent(o) : doing[o].time - e.time \in 0 .. RetryWindow}
<1>1. EngineFinds(o) = RetryOf(near)
  BY DEF EngineFinds
<1>2. PICK e \in near : e.fails /\ RetryOf(near) = <<e.id>>
  <2> HIDE DEF near
  <2> QED BY <1>1, RetryOfIs
<1>3. e \in LastRecent(o) /\ doing[o].time - e.time \in 0 .. RetryWindow
  BY <1>2
<1>4. PICK id \in DOMAIN recent : SameModel(EventOf(id), o) /\ e = EventOf(id)
  BY <1>3 DEF LastRecent
<1>5. Known(id)
  BY <1>4 DEF LinkInv, EngineKnows
<1>6. PICK j \in DOMAIN log : EventOf(id) = log[j]
  BY <1>5, EventOfIs
<1> QED BY <1>1, <1>2, <1>3, <1>4, <1>6 DEF SameModel

LEMMA StorageFindsAnEvent ==
  ASSUME NEW o \in Plan, StorageFinds(o) # <<>>
  PROVE  \E j \in DOMAIN log : StorageFinds(o) = <<log[j].id>>
<1> DEFINE mine == {e \in {log[i] : i \in DOMAIN log} :
                      SameModel(e, o) /\ e.time >= doing[o].time - RetryWindow}
           last == {e \in mine : \A f \in mine : f.time <= e.time}
<1>1. StorageFinds(o) = RetryOf(last)
  BY DEF StorageFinds
<1>2. PICK e \in last : RetryOf(last) = <<e.id>>
  <2> HIDE DEF last
  <2> QED BY <1>1, RetryOfIs
<1>3. \E j \in DOMAIN log : e = log[j]
  BY <1>2
<1> QED BY <1>1, <1>2, <1>3

LEMMA EntryIs ==
  ASSUME LinkTypes, NEW i \in DOMAIN log
  PROVE  log[i] \in LinkedEvent /\ i \in 1 .. Len(log) /\ i \in Nat
BY DEF LinkTypes

\* A call moves one step: the log stays as it is, and the times are apart.
LEMMA CallMoves ==
  ASSUME LinkInv, NEW o \in Plan, NEW d \in LinkedCall, doing' = [doing EXCEPT ![o] = d],
         UNCHANGED <<plan, setup, run, log, recent, unmarked>>,
         nextOccurrence' \in Nat, eventClock' \in Nat, eventClock <= eventClock',
         d.time <= eventClock',
         d.at \in {"answered", "detected"} =>
           \/ d.time = doing[o].time /\ Waits(o)
           \/ d.time > eventClock,
         CallIsLinked(o)'
  PROVE  LinkInv'
<1>1. LogIsLinked' /\ \A id : Known(id) <=> Known(id)'
  BY LogStays
<1>2. LinkTypes /\ TimesAreApart /\ CallsAreLinked /\ EngineKnows
  BY DEF LinkInv
<1>3. /\ doing'[o] = d
      /\ \A p \in Plan : p # o => doing'[p] = doing[p]
  BY <1>2 DEF LinkTypes
<1>4. LinkTypes'
  BY <1>2 DEF LinkTypes
<1>5. EngineKnows'
  BY <1>1, <1>2 DEF EngineKnows
<1>6. CallsAreLinked'
  <2> SUFFICES ASSUME NEW p \in Plan PROVE CallIsLinked(p)'
    BY DEF CallsAreLinked
  <2>1. CASE p = o
    BY <2>1
  <2>2. CASE p # o
    BY <1>2, <1>3, <2>2 DEF CallsAreLinked, CallIsLinked, ByEngine, IsFailureOf, Known
  <2> QED BY <2>1, <2>2
<1>7. TimesAreApart'
  <2>1. \A p \in Plan : doing[p].time \in Nat /\ doing[p].time <= eventClock
    BY <1>2 DEF LinkTypes, LinkedCall, TimesAreApart
  <2>2. \A i \in DOMAIN log : log[i].time \in Nat /\ log[i].time <= eventClock
    BY <1>2, EntryIs DEF LinkedEvent, TimesAreApart
  <2>3. eventClock \in Nat /\ d.time \in Nat
    BY <1>2 DEF LinkTypes, LinkedCall
  <2>4. (\A p \in Plan : doing[p].time <= eventClock)'
    BY <1>3, <2>1, <2>3
  <2>5. (\A i \in DOMAIN log : log[i].time <= eventClock)'
    BY <2>2, <2>3
  <2>6. \A p \in Plan : p # o /\ Waits(p) /\ Waits(o)' => d.time # doing[p].time
    BY <1>2, <1>3, <2>1, <2>3 DEF TimesAreApart, Waits
  <2>7. \A i \in DOMAIN log : Waits(o)' => d.time # log[i].time
    BY <1>2, <1>3, <2>2, <2>3 DEF TimesAreApart, Waits
  <2>8. \A p \in Plan : p # o => (Waits(p)' <=> Waits(p))
    BY <1>3 DEF Waits
  <2>9. (\A p, q \in Plan : Waits(p) /\ Waits(q) /\ p # q => doing[p].time # doing[q].time)'
    <3> SUFFICES ASSUME NEW p \in Plan, NEW q \in Plan, Waits(p)', Waits(q)', p # q
                 PROVE  doing'[p].time # doing'[q].time
      OBVIOUS
    <3>1. CASE p = o
      BY <1>3, <2>6, <2>8, <3>1
    <3>2. CASE q = o
      BY <1>3, <2>6, <2>8, <3>2
    <3>3. CASE p # o /\ q # o
      BY <1>2, <1>3, <2>8, <3>3 DEF TimesAreApart
    <3> QED BY <3>1, <3>2, <3>3
  <2>10. (\A p \in Plan, i \in DOMAIN log : Waits(p) => doing[p].time # log[i].time)'
    <3> SUFFICES ASSUME NEW p \in Plan, NEW i \in DOMAIN log, Waits(p)'
                 PROVE  doing'[p].time # log[i].time
      OBVIOUS
    <3>1. CASE p = o
      BY <1>3, <2>7, <3>1
    <3>2. CASE p # o
      BY <1>2, <1>3, <2>8, <3>2 DEF TimesAreApart
    <3> QED BY <3>1, <3>2
  <2> QED BY <2>4, <2>5, <2>9, <2>10 DEF TimesAreApart
<1> QED BY <1>1, <1>4, <1>5, <1>6, <1>7 DEF LinkInv
-----------------------------------------------------------------------------
LEMMA BeginLinks ==
  ASSUME LinkInv, NEW o \in Plan, BeginOperation(o)
  PROVE  LinkInv'
<1> DEFINE d == [doing[o] EXCEPT !.at = "called", !.occurrence = nextOccurrence]
<1>1. /\ doing[o] \in LinkedCall /\ nextOccurrence \in Nat /\ eventClock \in Nat
      /\ doing[o].time <= eventClock
  BY DEF LinkInv, LinkTypes, TimesAreApart
<1>2. UNCHANGED <<plan, setup, run, eventClock, log, recent, unmarked>>
  BY DEF BeginOperation, logVars
<1>3. nextOccurrence' \in Nat
  BY <1>1 DEF BeginOperation, Capture, NoCapture
<1>4. doing' = [doing EXCEPT ![o] = d]
  BY DEF BeginOperation, LinkInv, LinkTypes
<1>5. d \in LinkedCall /\ d.at = "called" /\ d.time = doing[o].time
  BY <1>1 DEF LinkedCall, Stages
<1> HIDE DEF d
<1>6. doing'[o] = d
  BY <1>4 DEF LinkInv, LinkTypes
<1>7. CallIsLinked(o)'
  BY <1>5, <1>6 DEF CallIsLinked
<1>8. eventClock' \in Nat /\ eventClock <= eventClock' /\ d.time <= eventClock'
  BY <1>1, <1>2, <1>5
<1> QED BY <1>2, <1>3, <1>4, <1>5, <1>7, <1>8, CallMoves

LEMMA AnswerLinks ==
  ASSUME LinkInv, NEW o \in Plan, AnswerArrives(o)
  PROVE  LinkInv'
<1>0. PICK latency \in Latencies :
        doing' = [doing EXCEPT ![o].at = "answered", ![o].time = eventClock + 1,
                               ![o].latency = latency]
  BY DEF AnswerArrives
<1> DEFINE d == [doing[o] EXCEPT !.at = "answered", !.time = eventClock + 1,
                                 !.latency = latency]
<1>1. doing[o] \in LinkedCall /\ nextOccurrence \in Nat /\ eventClock \in Nat
  BY DEF LinkInv, LinkTypes
<1>2. UNCHANGED <<plan, setup, run, nextOccurrence, log, recent, unmarked>>
  BY DEF AnswerArrives, logVars
<1>3. eventClock' = eventClock + 1
  BY DEF AnswerArrives
<1>4. doing' = [doing EXCEPT ![o] = d]
  BY <1>0 DEF LinkInv, LinkTypes
<1>5. d \in LinkedCall /\ d.at = "answered" /\ d.time = eventClock + 1
  <2>1. eventClock + 1 \in Nat
    BY <1>1
  <2> QED BY <1>1, <2>1 DEF LinkedCall, Stages, Measured
<1> HIDE DEF d
<1>6. doing'[o] = d
  BY <1>4 DEF LinkInv, LinkTypes
<1>7. CallIsLinked(o)'
  BY <1>5, <1>6 DEF CallIsLinked
<1>8. eventClock' \in Nat /\ eventClock <= eventClock' /\ d.time <= eventClock'
      /\ d.time > eventClock
  BY <1>1, <1>3, <1>5
<1> QED BY <1>1, <1>2, <1>4, <1>5, <1>7, <1>8, CallMoves

LEMMA DetectLinks ==
  ASSUME LinkInv, NEW o \in Plan, DetectRetry(o)
  PROVE  LinkInv'
<1> DEFINE link == CASE setup.detector = "off" -> <<>>
                     [] setup.detector = "engine" -> EngineFinds(o)
                     [] setup.detector = "storage" -> StorageFinds(o)
           d == [doing[o] EXCEPT !.at = "detected", !.retryOf = link]
<1>1. /\ LinkTypes /\ doing[o] \in LinkedCall /\ nextOccurrence \in Nat /\ eventClock \in Nat
      /\ doing[o].time <= eventClock /\ setup.detector \in {"off", "engine", "storage"}
  BY DEF LinkInv, LinkTypes, TimesAreApart
<1>2. UNCHANGED <<plan, setup, run, nextOccurrence, eventClock, log, recent, unmarked>>
  BY DEF DetectRetry, logVars
<1>3. doing' = [doing EXCEPT ![o] = d] /\ doing[o].at = "answered"
  BY DEF DetectRetry, LinkInv, LinkTypes
<1>4. link # <<>> => \E j \in DOMAIN log : link = <<log[j].id>>
  <2>1. CASE setup.detector = "off"
    BY <2>1
  <2>2. CASE setup.detector = "engine"
    BY <2>2, EngineFindsAFailure
  <2>3. CASE setup.detector = "storage"
    BY <2>3, StorageFindsAnEvent
  <2> QED BY <1>1, <2>1, <2>2, <2>3
<1>5. ByEngine /\ link # <<>> =>
        \E j \in DOMAIN log :
           /\ link = <<log[j].id>> /\ log[j].fails /\ log[j].model = plan[o].model
           /\ doing[o].time - log[j].time \in 0 .. RetryWindow
  BY EngineFindsAFailure DEF ByEngine
<1> HIDE DEF link
<1>6. link \in Links
  <2>1. CASE link = <<>>
    BY <2>1 DEF Links
  <2>2. CASE link # <<>>
    <3>1. PICK j \in DOMAIN log : link = <<log[j].id>>
      BY <1>4, <2>2
    <3>2. log[j].id \in EventIds
      BY <1>1, EntryIs DEF LinkedEvent
    <3> QED BY <3>1, <3>2, LinkOf
  <2> QED BY <2>1, <2>2
<1>7. /\ d \in LinkedCall /\ d.at = "detected" /\ d.time = doing[o].time /\ d.retryOf = link
  BY <1>1, <1>6 DEF LinkedCall, Stages
<1> HIDE DEF d
<1>8. doing'[o] = d
  BY <1>1, <1>3 DEF LinkTypes
<1>9. CallIsLinked(o)'
  <2>1. link # <<>> => Known(link[1])
    BY <1>4 DEF Known
  <2>2. ByEngine /\ link # <<>> => \E j \in DOMAIN log : IsFailureOf(j, o, link)
    <3> SUFFICES ASSUME ByEngine, link # <<>>
                 PROVE  \E j \in DOMAIN log : IsFailureOf(j, o, link)
      OBVIOUS
    <3>1. PICK j \in DOMAIN log :
            /\ link = <<log[j].id>> /\ log[j].fails /\ log[j].model = plan[o].model
            /\ doing[o].time - log[j].time \in 0 .. RetryWindow
      BY <1>5
    <3>2. doing[o].time # log[j].time
      BY <1>3 DEF LinkInv, TimesAreApart, Waits
    <3>3. doing[o].time \in Nat /\ log[j].time \in Nat
      BY <1>1, EntryIs DEF LinkedCall, LinkedEvent
    <3>4. doing[o].time - log[j].time \in 1 .. RetryWindow
      BY <3>1, <3>2, <3>3, IdentityAssumption
    <3>5. log[j].id = link[1]
      BY <3>1
    <3> QED BY <3>1, <3>4, <3>5 DEF IsFailureOf
  <2>3. CallIsLinked(o)' <=>
          /\ d.retryOf # <<>> => Known(d.retryOf[1])
          /\ ByEngine /\ d.retryOf # <<>> => \E j \in DOMAIN log :
               /\ log[j].id = d.retryOf[1] /\ log[j].fails /\ log[j].model = plan[o].model
               /\ d.time - log[j].time \in 1 .. RetryWindow
    BY <1>2, <1>7, <1>8 DEF CallIsLinked, ByEngine, IsFailureOf, Known
  <2> QED BY <1>7, <2>1, <2>2, <2>3 DEF IsFailureOf
<1>10. Waits(o)
  BY <1>3 DEF Waits
<1>11. eventClock' = eventClock /\ nextOccurrence' = nextOccurrence
  BY <1>2
<1>12. eventClock <= eventClock
  BY <1>1
<1> QED BY <1>1, <1>2, <1>3, <1>7, <1>9, <1>10, <1>11, <1>12, CallMoves

LEMMA TellLinks ==
  ASSUME LinkInv, NEW o \in Plan, TellEngine(o)
  PROVE  LinkInv'
<1> DEFINE d == [doing[o] EXCEPT !.at = "done"]
<1>1. /\ LinkTypes /\ doing[o] \in LinkedCall /\ LogIsLinked /\ TimesAreApart
      /\ CallsAreLinked /\ EngineKnows
  BY DEF LinkInv, LinkTypes
<1>2. UNCHANGED <<plan, setup, run, nextOccurrence, eventClock, log, unmarked>>
  BY DEF TellEngine, logVars
<1>3. doing' = [doing EXCEPT ![o] = d] /\ doing[o].at = "stored"
  BY <1>1 DEF TellEngine, LinkTypes
<1>4. d \in LinkedCall /\ d.at = "done" /\ d.time = doing[o].time
  BY <1>1 DEF LinkedCall, Stages
<1>5. Known(doing[o].retryOf[1])
  BY <1>1, <1>3 DEF CallsAreLinked, CallIsLinked
<1>6. \A id \in DOMAIN recent' : id \in DOMAIN recent \/ id = doing[o].retryOf[1]
  <2>1. CASE setup.detector = "engine"
    BY <2>1 DEF TellEngine
  <2>2. CASE setup.detector # "engine"
    BY <2>2 DEF TellEngine
  <2> QED BY <2>1, <2>2
<1> HIDE DEF d
<1>7. LogIsLinked' /\ \A id : Known(id) <=> Known(id)'
  BY <1>2, LogStays
<1>8. EngineKnows'
  <2> SUFFICES ASSUME NEW id \in DOMAIN recent' PROVE Known(id)'
    BY DEF EngineKnows
  <2>1. Known(id)
    BY <1>1, <1>5, <1>6 DEF EngineKnows
  <2> QED BY <1>7, <2>1
<1>9. doing'[o] = d /\ \A p \in Plan : p # o => doing'[p] = doing[p]
  BY <1>1, <1>3 DEF LinkTypes
<1>10. LinkTypes'
  BY <1>1, <1>2, <1>3, <1>4 DEF LinkTypes
<1>11. CallsAreLinked'
  BY <1>1, <1>2, <1>4, <1>9 DEF CallsAreLinked, CallIsLinked, ByEngine, IsFailureOf, Known
<1>12. TimesAreApart'
  BY <1>1, <1>2, <1>4, <1>9 DEF TimesAreApart, Waits
<1> QED BY <1>7, <1>8, <1>10, <1>11, <1>12 DEF LinkInv

LEMMA RunAgainLinks ==
  ASSUME LinkInv, RunAgain
  PROVE  LinkInv'
<1>1. LinkTypes /\ TimesAreApart /\ EngineKnows
  BY DEF LinkInv
<1>2. /\ run' = run + 1 /\ nextOccurrence' = 0 /\ doing' = [o \in Plan |-> Unstarted]
      /\ recent' \in {recent, <<>>} /\ UNCHANGED <<plan, setup, eventClock, log, unmarked>>
  BY DEF RunAgain, logVars
<1>3. /\ Unstarted \in LinkedCall /\ Unstarted.at = "unstarted" /\ Unstarted.time = 0
  BY DEF Unstarted, LinkedCall, Stages, Links, Measured
<1>4. LogIsLinked' /\ \A id : Known(id) <=> Known(id)'
  BY <1>2, LogStays
<1>5. EngineKnows'
  <2> SUFFICES ASSUME NEW id \in DOMAIN recent' PROVE Known(id)'
    BY DEF EngineKnows
  <2>1. id \in DOMAIN recent
    BY <1>2
  <2>2. Known(id)
    BY <1>1, <2>1 DEF EngineKnows
  <2> QED BY <1>4, <2>2
<1>6. LinkTypes'
  BY <1>1, <1>2, <1>3 DEF LinkTypes
<1>7. \A o \in Plan : doing'[o] = Unstarted
  BY <1>2
<1>8. CallsAreLinked'
  BY <1>3, <1>7 DEF CallsAreLinked, CallIsLinked
<1>9. TimesAreApart'
  BY <1>1, <1>2, <1>3, <1>7 DEF TimesAreApart, Waits, LinkTypes
<1> QED BY <1>4, <1>5, <1>6, <1>8, <1>9 DEF LinkInv
-----------------------------------------------------------------------------
\* The event of a call that is linked: the attempt after that of what it leads to.
LEMMA EventForIsLinked ==
  ASSUME LinkInv, NEW o \in Plan, NEW read \in BOOLEAN, doing[o].at = "detected"
  PROVE  /\ EventFor(o, read) \in LinkedEvent /\ EventFor(o, read).id = IdOf(o)
         /\ EventFor(o, read).model = plan[o].model /\ EventFor(o, read).time = doing[o].time
         /\ EventFor(o, read).retryOf = doing[o].retryOf
         /\ EventFor(o, read).read = read
         /\ doing[o].retryOf # <<>> /\ ~read =>
              /\ EventFor(o, read).attempt = 2
              /\ EventFor(o, read).operation = doing[o].retryOf[1]
         /\ doing[o].retryOf # <<>> /\ read =>
              \A j \in DOMAIN log : log[j].id = doing[o].retryOf[1] =>
                /\ EventFor(o, read).attempt = log[j].attempt + 1
                /\ EventFor(o, read).operation = log[j].operation
<1> DEFINE link == doing[o].retryOf
           lineage == Lineage(IdOf(o), link, read)
<1>1. /\ LinkTypes /\ LogIsLinked /\ CallIsLinked(o) /\ doing[o] \in LinkedCall
      /\ run \in Nat /\ nextOccurrence \in Nat /\ plan[o] \in [model : LlmModels, fails : BOOLEAN]
  BY DEF LinkInv, LinkTypes, CallsAreLinked
<1>2. IdOf(o) \in EventIds
  <2>1. doing[o].occurrence \in Nat /\ plan[o].model \in LlmModels
    BY <1>1 DEF LinkedCall
  <2> QED BY <1>1, <2>1 DEF IdOf, EventIds
<1>3. link \in Links /\ doing[o].time \in Nat /\ doing[o].latency \in Measured
  BY <1>1 DEF LinkedCall
<1>4. link # <<>> /\ read => \A j \in DOMAIN log : log[j].id = link[1] =>
        lineage.attempt = log[j].attempt + 1 /\ lineage.operation = log[j].operation
  <2> SUFFICES ASSUME link # <<>>, read, NEW j \in DOMAIN log, log[j].id = link[1]
               PROVE  lineage.attempt = log[j].attempt + 1
                      /\ lineage.operation = log[j].operation
    OBVIOUS
  <2>1. Known(link[1])
    BY DEF Known
  <2>2. PICK i \in DOMAIN log : log[i].id = link[1] /\ EventOf(link[1]) = log[i]
    BY <2>1, EventOfIs
  <2>3. i = j
    BY <1>1, <2>2 DEF LogIsLinked
  <2>4. StoredAs(link[1]) # {}
    BY <2>1, StoredAsKnown
  <2> QED BY <2>2, <2>3, <2>4 DEF Lineage
<1>9. link # <<>> /\ ~read => lineage.attempt = 2 /\ lineage.operation = link[1]
  BY DEF Lineage
<1>5. lineage.operation \in EventIds /\ lineage.attempt \in Nat
  <2>1. CASE link = <<>>
    BY <1>2, <2>1 DEF Lineage
  <2>2. CASE link # <<>> /\ ~read
    <3>1. link[1] \in EventIds
      BY <1>3, <2>2, LinkOf DEF Links
    <3> HIDE DEF lineage, link
    <3> QED BY <1>9, <2>2, <3>1
  <2>3. CASE link # <<>> /\ read
    <3>1. PICK j \in DOMAIN log : log[j].id = link[1]
      BY <1>1, <2>3 DEF CallIsLinked, Known
    <3>2. log[j].operation \in EventIds /\ log[j].attempt \in Nat
      BY <1>1, EntryIs DEF LinkedEvent
    <3>3. lineage.attempt = log[j].attempt + 1 /\ lineage.operation = log[j].operation
      BY <1>4, <2>3, <3>1
    <3> HIDE DEF lineage, link
    <3> QED BY <3>2, <3>3
  <2> QED BY <2>1, <2>2, <2>3
<1>6. EventFor(o, read) = [id |-> IdOf(o), model |-> plan[o].model, fails |-> plan[o].fails,
                     time |-> doing[o].time, latency |-> doing[o].latency,
                     retryOf |-> link, by |-> o, read |-> read,
                     operation |-> lineage.operation, attempt |-> lineage.attempt]
  BY DEF EventFor
<1> HIDE DEF lineage, link
<1>7. EventFor(o, read) \in LinkedEvent
  BY <1>1, <1>2, <1>3, <1>5, <1>6 DEF LinkedEvent
<1>8. EventFor(o, read).attempt = lineage.attempt /\ EventFor(o, read).operation = lineage.operation
  BY <1>6
<1> QED BY <1>4, <1>6, <1>7, <1>8, <1>9 DEF link

\* An event with a new id is stored: it follows those that are there.
LEMMA AppendLinks ==
  ASSUME LinkInv, NEW o \in Plan, NEW read \in BOOLEAN, doing[o].at = "detected", ~Known(IdOf(o)),
         log' = Append(log, EventFor(o, read)), UNCHANGED <<plan, setup, unmarked>>
  PROVE  /\ log' \in Seq(LinkedEvent) /\ LogIsLinked'
         /\ \A id : Known(id)' <=> Known(id) \/ id = IdOf(o)
         /\ \A i \in DOMAIN log' : \/ i \in DOMAIN log /\ log'[i] = log[i]
                                   \/ log'[i].time = doing[o].time
         /\ \A i \in DOMAIN log : i \in DOMAIN log' /\ log'[i] = log[i]
<1> DEFINE e == EventFor(o, read)
           n == Len(log) + 1
<1>1. /\ LinkTypes /\ LogIsLinked /\ CallIsLinked(o) /\ log \in Seq(LinkedEvent)
      /\ doing[o] \in LinkedCall /\ Len(log) \in Nat /\ DOMAIN log = 1 .. Len(log)
  BY DEF LinkInv, LinkTypes, CallsAreLinked
<1>2. /\ e \in LinkedEvent /\ e.id = IdOf(o) /\ e.model = plan[o].model
      /\ e.time = doing[o].time /\ e.retryOf = doing[o].retryOf
      /\ e.retryOf # <<>> /\ ~e.read => e.attempt = 2 /\ e.operation = e.retryOf[1]
      /\ e.retryOf # <<>> /\ e.read =>
           \A j \in DOMAIN log : log[j].id = e.retryOf[1] =>
             e.attempt = log[j].attempt + 1 /\ e.operation = log[j].operation
  BY EventForIsLinked
<1> HIDE DEF e
<1>3. log' = Append(log, e)
  BY DEF e
<1>4. /\ log' \in Seq(LinkedEvent) /\ DOMAIN log' = 1 .. n /\ log'[n] = e
      /\ \A i \in DOMAIN log : log'[i] = log[i] /\ i \in DOMAIN log' /\ i # n /\ i < n
      /\ n \in DOMAIN log'
      /\ \A i \in DOMAIN log' : i \in DOMAIN log \/ i = n
  BY <1>1, <1>2, <1>3, AppendProperties
<1> HIDE DEF n
<1>5. \A id : Known(id)' <=> Known(id) \/ id = IdOf(o)
  BY <1>2, <1>4 DEF Known
<1>6. \A i \in DOMAIN log : log[i].id # IdOf(o)
  BY DEF Known
<1>7. (\A i, j \in DOMAIN log : log[i].id = log[j].id => i = j)'
  <2> SUFFICES ASSUME NEW i \in DOMAIN log', NEW j \in DOMAIN log', log'[i].id = log'[j].id
               PROVE  i = j
    OBVIOUS
  <2>1. CASE i \in DOMAIN log /\ j \in DOMAIN log
    BY <1>1, <1>4, <2>1 DEF LogIsLinked
  <2>2. CASE i = n /\ j \in DOMAIN log
    BY <1>2, <1>4, <1>6, <2>2
  <2>3. CASE i \in DOMAIN log /\ j = n
    BY <1>2, <1>4, <1>6, <2>3
  <2> QED BY <1>4, <2>1, <2>2, <2>3
<1>8. e.retryOf # <<>> => Known(e.retryOf[1])
  BY <1>1, <1>2 DEF CallIsLinked
<1>9. (\A i \in DOMAIN log : log[i].retryOf # <<>> => Known(log[i].retryOf[1]))'
  <2> SUFFICES ASSUME NEW i \in DOMAIN log', log'[i].retryOf # <<>>
               PROVE  \E j \in DOMAIN log' : log'[j].id = log'[i].retryOf[1]
    BY DEF Known
  <2>1. \E j \in DOMAIN log : log[j].id = log'[i].retryOf[1]
    BY <1>1, <1>4, <1>8 DEF LogIsLinked, Known
  <2> QED BY <1>4, <2>1
<1>10. RetryFollowsAFailure'
  <2> SUFFICES ASSUME ByEngine, NEW i \in DOMAIN log', log'[i].retryOf # <<>>
               PROVE  \E j \in 1 .. i - 1 :
                        /\ log'[j].id = log'[i].retryOf[1] /\ log'[j].fails
                        /\ log'[j].model = log'[i].model
                        /\ log'[i].time - log'[j].time \in 1 .. RetryWindow
    BY DEF RetryFollowsAFailure, ByEngine
  <2>1. CASE i \in DOMAIN log
    <3>1. PICK j \in 1 .. i - 1 :
            /\ log[j].id = log[i].retryOf[1] /\ log[j].fails /\ log[j].model = log[i].model
            /\ log[i].time - log[j].time \in 1 .. RetryWindow
      BY <1>1, <1>4, <2>1 DEF LogIsLinked, RetryFollowsAFailure, ByEngine
    <3>2. j \in DOMAIN log
      BY <1>1, <2>1
    <3> QED BY <1>4, <2>1, <3>1, <3>2
  <2>2. CASE i = n
    <3>1. PICK j \in DOMAIN log : IsFailureOf(j, o, doing[o].retryOf)
      BY <1>1, <1>2, <1>4, <2>2 DEF CallIsLinked
    <3>2. j \in 1 .. i - 1
      BY <1>1, <2>2 DEF n
    <3>3. /\ log'[j].id = log'[i].retryOf[1] /\ log'[j].fails
          /\ log'[j].model = log'[i].model /\ log'[i].time - log'[j].time \in 1 .. RetryWindow
      BY <1>2, <1>4, <2>2, <3>1 DEF IsFailureOf
    <3> QED BY <3>2, <3>3
  <2> QED BY <1>4, <2>1, <2>2
<1>11. AttemptsCountUp'
  <2>0. \A i \in DOMAIN log' : log'[i].retryOf # <<>> /\ ~log'[i].read =>
          log'[i].attempt = 2 /\ log'[i].operation = log'[i].retryOf[1]
    BY <1>1, <1>2, <1>4 DEF LogIsLinked, AttemptsCountUp
  <2> SUFFICES ASSUME NEW i \in DOMAIN log', log'[i].retryOf # <<>>, log'[i].read,
                      log'[i].retryOf[1] \notin unmarked, NEW j \in DOMAIN log',
                      log'[j].id = log'[i].retryOf[1]
               PROVE  log'[i].attempt = log'[j].attempt + 1
                      /\ log'[i].operation = log'[j].operation
    BY <2>0 DEF AttemptsCountUp, StoredAs
  <2>1. \E k \in DOMAIN log : log[k].id = log'[i].retryOf[1]
    BY <1>1, <1>4, <1>8 DEF LogIsLinked, Known
  <2>2. j \in DOMAIN log
    BY <1>2, <1>4, <1>6, <2>1
  <2>3. CASE i \in DOMAIN log
    BY <1>1, <1>4, <2>2, <2>3 DEF LogIsLinked, AttemptsCountUp, StoredAs
  <2>4. CASE i = n
    BY <1>2, <1>4, <2>2, <2>4
  <2> QED BY <1>4, <2>3, <2>4
<1>12. \A i \in DOMAIN log' : \/ i \in DOMAIN log /\ log'[i] = log[i]
                              \/ log'[i].time = doing[o].time
  BY <1>2, <1>4
<1> QED BY <1>4, <1>5, <1>7, <1>9, <1>10, <1>11, <1>12 DEF LogIsLinked

LEMMA StoreLinks ==
  ASSUME LinkInv, NEW o \in Plan, NEW read \in BOOLEAN, StoreEvent(o, read)
  PROVE  LinkInv'
<1> DEFINE e == EventFor(o, read)
           refused == StoredAs(e.id) # {} /\ ~SameFacts(EventOf(e.id), e)
           d == [doing[o] EXCEPT !.at = IF refused THEN "done" ELSE "stored",
                                 !.retryOf = <<e.id>>]
<1>1. /\ LinkTypes /\ doing[o] \in LinkedCall /\ doing[o].at = "detected"
      /\ nextOccurrence \in Nat /\ eventClock \in Nat /\ doing[o].time <= eventClock
      /\ CallsAreLinked /\ TimesAreApart /\ EngineKnows
  BY DEF LinkInv, LinkTypes, TimesAreApart, StoreEvent
<1>2. UNCHANGED <<plan, setup, run, eventClock, recent, unmarked>>
  BY DEF StoreEvent
<1>3. e \in LinkedEvent /\ e.id = IdOf(o) /\ e.id \in EventIds
  <2>1. e \in LinkedEvent /\ e.id = IdOf(o)
    BY <1>1, EventForIsLinked
  <2> HIDE DEF e
  <2> QED BY <2>1 DEF LinkedEvent
<1>4. doing' = [doing EXCEPT ![o] = d]
  BY <1>1 DEF StoreEvent, LinkTypes
<1>5. InsertEvent(o, e)
  BY DEF StoreEvent
<1>6. nextOccurrence' \in Nat
  BY <1>1 DEF StoreEvent, Capture, NoCapture
<1>7. eventClock' \in Nat /\ eventClock <= eventClock'
  BY <1>1, <1>2
<1> HIDE DEF e
<1>8. refused <=> Known(e.id) /\ ~SameFacts(EventOf(e.id), e)
  BY StoredAsKnown
<1> HIDE DEF refused
<1>9. /\ d \in LinkedCall /\ d.at = (IF refused THEN "done" ELSE "stored")
      /\ d.time = doing[o].time /\ d.retryOf = <<e.id>> /\ d.retryOf # <<>>
      /\ d.retryOf[1] = e.id
  BY <1>1, <1>3, LinkOf DEF LinkedCall, Stages
<1> HIDE DEF d
<1>10. doing'[o] = d /\ \A p \in Plan : p # o => doing'[p] = doing[p]
  BY <1>1, <1>4 DEF LinkTypes
<1>11. CASE Known(e.id)
  <2>1. log' = log
    BY <1>5, <1>11, StoredAsKnown DEF InsertEvent
  <2>2. CallIsLinked(o)'
    <3>1. \E i \in DOMAIN log' : log'[i].id = d.retryOf[1]
      BY <1>9, <1>11, <2>1 DEF Known
    <3>2. d.at # "detected" /\ d.retryOf # <<>>
      BY <1>9
    <3> QED BY <1>10, <3>1, <3>2 DEF CallIsLinked, Known
  <2>3. d.time <= eventClock' /\ d.at \notin {"answered", "detected"}
    BY <1>1, <1>2, <1>9
  <2> QED BY <1>2, <1>4, <1>6, <1>7, <1>9, <2>1, <2>2, <2>3, CallMoves
<1>12. CASE ~Known(e.id)
  <2>1. log' = Append(log, e)
    BY <1>5, <1>12, StoredAsKnown DEF InsertEvent
  <2>2. ~Known(IdOf(o)) /\ log' = Append(log, EventFor(o, read))
    BY <1>3, <1>12, <2>1 DEF e
  <2>3. /\ log' \in Seq(LinkedEvent) /\ LogIsLinked'
        /\ \A id : Known(id)' <=> Known(id) \/ id = IdOf(o)
        /\ \A i \in DOMAIN log' : \/ i \in DOMAIN log /\ log'[i] = log[i]
                                  \/ log'[i].time = doing[o].time
        /\ \A i \in DOMAIN log : i \in DOMAIN log' /\ log'[i] = log[i]
    BY <1>1, <1>2, <2>2, AppendLinks
  <2>4. LinkTypes'
    BY <1>1, <1>2, <1>4, <1>6, <1>9, <2>3 DEF LinkTypes
  <2>5. EngineKnows'
    <3> SUFFICES ASSUME NEW id \in DOMAIN recent' PROVE Known(id)'
      BY DEF EngineKnows
    <3>1. Known(id)
      BY <1>1, <1>2 DEF EngineKnows
    <3> QED BY <2>3, <3>1
  <2>6. CallsAreLinked'
    <3> SUFFICES ASSUME NEW p \in Plan PROVE CallIsLinked(p)'
      BY DEF CallsAreLinked
    <3>1. CASE p = o
      <4>1. d.at = "stored"
        BY <1>8, <1>9, <1>12
      <4>2. \E i \in DOMAIN log' : log'[i].id = d.retryOf[1]
        <5>1. \E i \in DOMAIN log' : log'[i].id = IdOf(o)
          BY <2>3 DEF Known
        <5> QED BY <1>3, <1>9, <5>1
      <4> QED BY <1>9, <1>10, <3>1, <4>1, <4>2 DEF CallIsLinked, Known
    <3>2. CASE p # o
      BY <1>1, <1>2, <1>10, <2>3, <3>2
         DEF CallsAreLinked, CallIsLinked, ByEngine, IsFailureOf, Known
    <3> QED BY <3>1, <3>2
  <2>7. TimesAreApart'
    <3>1. ~Waits(o)'
      BY <1>9, <1>10 DEF Waits
    <3>2. \A p \in Plan : p # o => (Waits(p)' <=> Waits(p))
      BY <1>10 DEF Waits
    <3>3. Waits(o)
      BY <1>1 DEF Waits
    <3>4. (\A p \in Plan : doing[p].time <= eventClock)'
      BY <1>1, <1>2, <1>9, <1>10 DEF TimesAreApart
    <3>5. (\A i \in DOMAIN log : log[i].time <= eventClock)'
      BY <1>1, <1>2, <2>3 DEF TimesAreApart
    <3>6. (\A p, q \in Plan : Waits(p) /\ Waits(q) /\ p # q => doing[p].time # doing[q].time)'
      BY <1>1, <1>10, <3>1, <3>2 DEF TimesAreApart
    <3>7. (\A p \in Plan, i \in DOMAIN log : Waits(p) => doing[p].time # log[i].time)'
      <4> SUFFICES ASSUME NEW p \in Plan, NEW i \in DOMAIN log', Waits(p)'
                   PROVE  doing'[p].time # log'[i].time
        OBVIOUS
      <4>1. p # o /\ Waits(p) /\ doing'[p] = doing[p]
        BY <1>10, <3>1, <3>2
      <4> QED BY <1>1, <2>3, <3>3, <4>1 DEF TimesAreApart
    <3> QED BY <3>4, <3>5, <3>6, <3>7 DEF TimesAreApart
  <2> QED BY <2>3, <2>4, <2>5, <2>6, <2>7 DEF LinkInv
<1> QED BY <1>11, <1>12

\* An attempt is declared to be none: its link is gone, and those to it are not counted.
LEMMA MarkLinks ==
  ASSUME LinkInv, MarkNotRetry
  PROVE  LinkInv'
<1>1. /\ LinkTypes /\ LogIsLinked /\ TimesAreApart /\ CallsAreLinked /\ EngineKnows
      /\ log \in Seq(LinkedEvent)
  BY DEF LinkInv, LinkTypes
<1>2. PICK i \in DOMAIN log :
        /\ log' = [log EXCEPT ![i].retryOf = <<>>, ![i].operation = log[i].id,
                              ![i].attempt = 1]
        /\ unmarked' = unmarked \union {log[i].id}
        /\ UNCHANGED <<plan, setup, run, nextOccurrence, doing, eventClock, recent>>
  BY DEF MarkNotRetry
<1> DEFINE e == [log[i] EXCEPT !.retryOf = <<>>, !.operation = log[i].id, !.attempt = 1]
<1>3. log[i] \in LinkedEvent
  BY <1>1, EntryIs
<1>4. /\ e \in LinkedEvent /\ e.id = log[i].id /\ e.model = log[i].model
      /\ e.fails = log[i].fails /\ e.time = log[i].time /\ e.retryOf = <<>>
  BY <1>3 DEF LinkedEvent, Links
<1>5. log' = [log EXCEPT ![i] = e]
  BY <1>1, <1>2
<1> HIDE DEF e
<1>6. /\ log' \in Seq(LinkedEvent) /\ DOMAIN log' = DOMAIN log /\ log'[i] = e
      /\ \A j \in DOMAIN log : j # i => log'[j] = log[j]
  BY <1>1, <1>4, <1>5, ExceptSeq
<1>7. \A j \in DOMAIN log :
        /\ log'[j].id = log[j].id /\ log'[j].model = log[j].model
        /\ log'[j].fails = log[j].fails /\ log'[j].time = log[j].time
  BY <1>4, <1>6
<1>8. \A id : Known(id)' <=> Known(id)
  BY <1>6, <1>7 DEF Known
<1>9. LinkTypes'
  BY <1>1, <1>2, <1>6 DEF LinkTypes
<1>10. EngineKnows'
  <2> SUFFICES ASSUME NEW id \in DOMAIN recent' PROVE Known(id)'
    BY DEF EngineKnows
  <2>1. Known(id)
    BY <1>1, <1>2 DEF EngineKnows
  <2> QED BY <1>8, <2>1
<1>11. CallsAreLinked'
  BY <1>1, <1>2, <1>6, <1>7
     DEF CallsAreLinked, CallIsLinked, ByEngine, IsFailureOf, Known
<1>12. TimesAreApart'
  BY <1>1, <1>2, <1>6, <1>7 DEF TimesAreApart, Waits
<1>13. LogIsLinked'
  <2>1. (\A j, k \in DOMAIN log : log[j].id = log[k].id => j = k)'
    BY <1>1, <1>6, <1>7 DEF LogIsLinked
  <2>2. \A j \in DOMAIN log : log'[j].retryOf # <<>> => log'[j] = log[j]
    BY <1>4, <1>6
  <2>3. (\A j \in DOMAIN log : log[j].retryOf # <<>> => Known(log[j].retryOf[1]))'
    BY <1>1, <1>6, <1>7, <2>2 DEF LogIsLinked, Known
  <2>4. RetryFollowsAFailure'
    <3> SUFFICES ASSUME ByEngine, NEW j \in DOMAIN log, log'[j].retryOf # <<>>
                 PROVE  \E k \in 1 .. j - 1 :
                          /\ log'[k].id = log'[j].retryOf[1] /\ log'[k].fails
                          /\ log'[k].model = log'[j].model
                          /\ log'[j].time - log'[k].time \in 1 .. RetryWindow
      BY <1>2, <1>6 DEF RetryFollowsAFailure, ByEngine
    <3>1. PICK k \in 1 .. j - 1 :
            /\ log[k].id = log[j].retryOf[1] /\ log[k].fails /\ log[k].model = log[j].model
            /\ log[j].time - log[k].time \in 1 .. RetryWindow
      BY <1>1, <2>2 DEF LogIsLinked, RetryFollowsAFailure, ByEngine
    <3>2. k \in DOMAIN log
      BY <1>1, <3>1
    <3> QED BY <1>7, <2>2, <3>1, <3>2
  <2>5. AttemptsCountUp'
    <3>0. \A j \in DOMAIN log' : log'[j].retryOf # <<>> /\ ~log'[j].read =>
            log'[j].attempt = 2 /\ log'[j].operation = log'[j].retryOf[1]
      BY <1>1, <1>6, <2>2 DEF LogIsLinked, AttemptsCountUp
    <3> SUFFICES ASSUME NEW j \in DOMAIN log, log'[j].retryOf # <<>>, log'[j].read,
                        log'[j].retryOf[1] \notin unmarked', NEW k \in DOMAIN log,
                        log'[k].id = log'[j].retryOf[1]
                 PROVE  log'[j].attempt = log'[k].attempt + 1
                        /\ log'[j].operation = log'[k].operation
      BY <1>6, <3>0 DEF AttemptsCountUp, StoredAs
    <3>1. log'[j] = log[j] /\ log[k].id = log[j].retryOf[1]
      BY <1>7, <2>2
    <3>2. k # i /\ log[j].retryOf[1] \notin unmarked
      BY <1>2, <3>1
    <3>3. log'[k] = log[k]
      BY <1>6, <3>2
    <3> QED BY <1>1, <3>1, <3>2, <3>3 DEF LogIsLinked, AttemptsCountUp, StoredAs
  <2> QED BY <2>1, <2>3, <2>4, <2>5 DEF LogIsLinked
<1> QED BY <1>9, <1>10, <1>11, <1>12, <1>13 DEF LinkInv

LEMMA LinksStart ==
  ASSUME IdentityInit
  PROVE  LinkInv
<1>1. Unstarted \in LinkedCall /\ Unstarted.at = "unstarted" /\ Unstarted.time = 0
  BY DEF Unstarted, LinkedCall, Stages, Links, Measured
<1>2. /\ doing = [o \in Plan |-> Unstarted] /\ log = <<>> /\ recent = <<>>
      /\ run = 1 /\ nextOccurrence = 0 /\ eventClock = 0
      /\ setup.detector \in {"off", "engine", "storage"}
  BY DEF IdentityInit
<1>3. LinkTypes
  BY <1>1, <1>2 DEF LinkTypes, IdentityInit
<1>4. LogIsLinked
  BY <1>2 DEF LogIsLinked, RetryFollowsAFailure, AttemptsCountUp
<1>5. TimesAreApart
  BY <1>1, <1>2 DEF TimesAreApart, Waits
<1>6. CallsAreLinked /\ EngineKnows
  BY <1>1, <1>2 DEF CallsAreLinked, CallIsLinked, EngineKnows
<1> QED BY <1>3, <1>4, <1>5, <1>6 DEF LinkInv

(* Whatever the plan, with and without a key, over any number of runs and  *)
(* in whatever order the calls are answered, looked up and recorded: what  *)
(* the engine takes for a retry follows a failure of its model within the  *)
(* window, which was stored before it, and every attempt has the number    *)
(* after that of the one it retries, in its operation, unless that one was *)
(* declared to be none (heuristics.py check, record; tracker.py            *)
(* _detect_retry, _stamp_retry_lineage, mark_not_retry).                   *)
THEOREM RetriesStayLinked == IdentitySpec => []RetriesAreLinked
<1>1. ASSUME LinkInv, IdentityNext PROVE LinkInv'
  BY <1>1, RunAgainLinks, MarkLinks, BeginLinks, AnswerLinks, DetectLinks, StoreLinks,
     TellLinks DEF IdentityNext
<1>2. LinkInv /\ UNCHANGED identityVars => LinkInv'
  <2> SUFFICES ASSUME LinkInv, UNCHANGED identityVars PROVE LinkInv'
    OBVIOUS
  <2>1. LogIsLinked'
    BY LogStays DEF identityVars, logVars
  <2>2. LinkTypes' /\ TimesAreApart' /\ CallsAreLinked' /\ EngineKnows'
    BY DEF identityVars, LinkInv, LinkTypes, TimesAreApart, Waits, CallsAreLinked,
           CallIsLinked, ByEngine, IsFailureOf, EngineKnows, Known
  <2> QED BY <2>1, <2>2 DEF LinkInv
<1>3. LinkInv => RetriesAreLinked
  BY DEF LinkInv, LogIsLinked, RetriesAreLinked
<1> QED BY <1>1, <1>2, <1>3, LinksStart, PTL DEF IdentitySpec

-----------------------------------------------------------------------------
(***************************************************************************)
(* HttpCapture: any number of threads, exchanges, nested calls and faults. *)
(***************************************************************************)
Contexts3 == {"none", "task", "session"}
Ids == [record : {"none", "job"}, exchange : Nat, nth : Nat]
Accounts == Contexts3 \union Threads
Frame == [layer : {"provider", "client", "pool", "aio"}, exchange : Nat, skip : BOOLEAN]
Job == [exchange : Exchanges, stage : {"count", "charge"}, network : BOOLEAN, only : BOOLEAN,
        context : Contexts3, account : Accounts]
Fact == [kind : Kinds, record : {"none", "job"}, context : Contexts3, owned : BOOLEAN]

HttpStateOK ==
  /\ callStack \in [Threads -> Seq(Frame)] /\ mark \in [Threads -> BOOLEAN]
  /\ current \in [Threads -> Contexts3] /\ taskOpen \in BOOLEAN
  /\ begun \in 0 .. MaxExchanges
  /\ facts \in [Exchanges -> Fact]
  /\ work \in [Threads -> Seq(Job)]
  /\ unread \subseteq 1 .. begun /\ returned \subseteq 1 .. begun /\ exposed \subseteq 1 .. begun
  /\ accounted \in [Exchanges -> Seq(Accounts)] /\ charged \in [Exchanges -> Seq(Accounts)]
  /\ httpFaults \in Nat

OfOpenTask(e) == taskOpen /\ facts[e].context = "task"

\* A frame of a thread: a provider is the outermost; a call is of an exchange that began
\* under the same provider, and in the task the thread is still in; a pool that does not
\* count is inside a wrapper of the same exchange that does.
FrameOK(t, i) ==
  LET f == callStack[t][i] IN
  /\ f.layer = "provider" => i = 1 /\ f.exchange = 0
  /\ f.layer # "provider" => /\ f.exchange \in 1 .. begun
                             /\ facts[f.exchange].owned = Owned(t)
                             /\ OfOpenTask(f.exchange) => current[t] = "task"
  /\ f.skip => /\ f.layer = "pool"
               /\ \E j \in 1 .. i - 1 : /\ callStack[t][j].exchange = f.exchange
                                       /\ ~callStack[t][j].skip

InClient(t) == \E i \in DOMAIN callStack[t] : callStack[t][i].layer = "client"
StackOK(t) == /\ \A i \in DOMAIN callStack[t] : FrameOK(t, i)
              /\ mark[t] => InClient(t)

\* What a thread has to record.
WorkOK(t) ==
  LET w == work[t][1] IN
  work[t] # <<>> =>
    /\ Len(work[t]) = 1 /\ w.exchange \in 1 .. begun
    /\ w.network => facts[w.exchange].owned = Owned(t)
    /\ w.stage = "charge" => ~facts[w.exchange].owned /\ ~w.only
    /\ ~w.network => ~w.only
    /\ w.network /\ ~w.only /\ w.stage = "count" => w.context = current[t]
    /\ OfOpenTask(w.exchange) => /\ w.context = "task"
                                 /\ w.stage = "charge" => w.account = "task"

\* Who may still count an exchange or charge it: a call it is in, a thread that has it to
\* record, or the reader of its answer; and there is one of them at most.
InCall(t, i, e) == /\ i \in DOMAIN callStack[t]
                   /\ callStack[t][i].exchange = e /\ ~callStack[t][i].skip
ToCount(t, e) == work[t] # <<>> /\ work[t][1].exchange = e /\ work[t][1].network
ToCharge(t, e) == work[t] # <<>> /\ work[t][1].exchange = e /\ ~work[t][1].only

OneCounts(e) ==
  /\ \A t, u \in Threads : \A i, j \in Nat : InCall(t, i, e) /\ InCall(u, j, e) => t = u /\ i = j
  /\ \A t, u \in Threads : ToCount(t, e) /\ ToCount(u, e) => t = u
  /\ \A t, u \in Threads : ToCharge(t, e) /\ ToCharge(u, e) => t = u
  /\ \A t \in Threads, i \in Nat : InCall(t, i, e) =>
       /\ accounted[e] = <<>> /\ charged[e] = <<>> /\ e \notin unread
       /\ \A u \in Threads : ~ToCount(u, e) /\ ~ToCharge(u, e)
  /\ \A t \in Threads : ToCount(t, e) /\ work[t][1].stage = "count" => accounted[e] = <<>>
  /\ \A t \in Threads : ToCharge(t, e) => charged[e] = <<>> /\ e \notin unread
  /\ e \in unread => charged[e] = <<>>
  /\ Len(accounted[e]) <= 1 /\ Len(charged[e]) <= 1

\* What has been counted and charged of an exchange.
AccountsOK(e) ==
  /\ e > begun => accounted[e] = <<>> /\ charged[e] = <<>>
  /\ facts[e].owned => charged[e] = <<>>
  /\ OfOpenTask(e) => \A i \in DOMAIN charged[e] : charged[e][i] = "task"
  /\ facts[e].record # "none" => Len(charged[e]) <= 1
  /\ charged[e] # <<>> /\ facts[e].record # "none" =>
       [record |-> facts[e].record, exchange |-> 0, nth |-> 0] \in recordedIds

\* Where nothing failed, an answered exchange of an open task is counted or will be.
WillBeCounted(e) == \E t \in Threads : ToCount(t, e) /\ work[t][1].stage = "count"
ACallIsIn(e) == \E t \in Threads : \E i \in DOMAIN callStack[t] :
                  callStack[t][i].exchange = e /\ ~callStack[t][i].skip
StillCounted(e) ==
  httpFaults = 0 /\ OfOpenTask(e) /\ e \in returned =>
    accounted[e] # <<>> \/ WillBeCounted(e) \/ ACallIsIn(e)

HttpInv ==
  /\ HttpStateOK
  /\ \A t \in Threads : StackOK(t) /\ WorkOK(t)
  /\ \A e \in Exchanges : /\ e \notin exposed => OneCounts(e)
                          /\ AccountsOK(e) /\ StillCounted(e)
  /\ RecordIsChargedOnce

-----------------------------------------------------------------------------
(* The stacks. *)
LEMMA PushIs ==
  ASSUME HttpStateOK, NEW t \in Threads, NEW layer \in {"provider", "client", "pool", "aio"},
         NEW e \in Nat, NEW skip \in BOOLEAN, Push(t, layer, e, skip)
  PROVE  LET n == Len(callStack[t]) + 1 IN
         /\ callStack' \in [Threads -> Seq(Frame)]
         /\ \A u \in Threads \ {t} : callStack'[u] = callStack[u]
         /\ n \in Nat \ {0} /\ n \notin DOMAIN callStack[t]
         /\ DOMAIN callStack[t] = 1 .. n - 1 /\ DOMAIN callStack'[t] = 1 .. n
         /\ Len(callStack'[t]) = n
         /\ \A i \in DOMAIN callStack[t] : callStack'[t][i] = callStack[t][i]
         /\ callStack'[t][n] = [layer |-> layer, exchange |-> e, skip |-> skip]
<1> DEFINE f == [layer |-> layer, exchange |-> e, skip |-> skip]
<1>1. f \in Frame /\ callStack[t] \in Seq(Frame)
  BY DEF Frame, HttpStateOK
<1>2. /\ callStack'[t] = Append(callStack[t], f)
      /\ \A u \in Threads \ {t} : callStack'[u] = callStack[u]
      /\ callStack' = [u \in Threads |-> callStack'[u]]
  BY DEF Push, HttpStateOK
<1> HIDE DEF f
<1>3. Append(callStack[t], f) \in Seq(Frame)
  BY <1>1
<1>4. callStack' \in [Threads -> Seq(Frame)]
  BY <1>2, <1>3 DEF HttpStateOK
<1>5. LET n == Len(callStack[t]) + 1 IN
        /\ n \in Nat \ {0} /\ n \notin DOMAIN callStack[t]
        /\ DOMAIN callStack[t] = 1 .. n - 1 /\ DOMAIN callStack'[t] = 1 .. n
        /\ Len(callStack'[t]) = n
        /\ \A i \in DOMAIN callStack[t] : callStack'[t][i] = callStack[t][i]
        /\ callStack'[t][n] = f
  BY <1>1, <1>2
<1> QED BY <1>2, <1>4, <1>5 DEF f

LEMMA PopIs ==
  ASSUME HttpStateOK, NEW t \in Threads, callStack[t] # <<>>, Pop(t)
  PROVE  LET n == Len(callStack[t]) IN
         /\ callStack' \in [Threads -> Seq(Frame)]
         /\ \A u \in Threads \ {t} : callStack'[u] = callStack[u]
         /\ n \in Nat \ {0} /\ DOMAIN callStack[t] = 1 .. n /\ DOMAIN callStack'[t] = 1 .. n - 1
         /\ Len(callStack'[t]) = n - 1
         /\ \A i \in 1 .. n - 1 : callStack'[t][i] = callStack[t][i]
         /\ Top(t) = callStack[t][n] /\ Top(t) \in Frame
<1>1. callStack[t] \in Seq(Frame) /\ Len(callStack[t]) \in Nat \ {0}
  BY DEF HttpStateOK
<1>2. /\ callStack'[t] = SubSeq(callStack[t], 1, Len(callStack[t]) - 1)
      /\ \A u \in Threads \ {t} : callStack'[u] = callStack[u]
      /\ callStack' = [u \in Threads |-> callStack'[u]]
  BY DEF Pop, HttpStateOK
<1>3. callStack'[t] \in Seq(Frame)
  BY <1>1, <1>2
<1>4. callStack' \in [Threads -> Seq(Frame)]
  BY <1>2, <1>3 DEF HttpStateOK
<1>5. Top(t) = callStack[t][Len(callStack[t])]
  BY DEF Top
<1> QED BY <1>1, <1>2, <1>4, <1>5

\* What another thread does leaves the calls of a thread, and its work, alone.
LEMMA StackStays ==
  ASSUME HttpStateOK, NEW u \in Threads, StackOK(u), callStack'[u] = callStack[u],
         mark'[u] => mark[u], taskOpen' => taskOpen,
         taskOpen /\ current[u] = "task" => current'[u] = "task",
         begun' \in Nat, begun <= begun', \A e \in 1 .. begun : facts'[e] = facts[e]
  PROVE  StackOK(u)' /\ Owned(u)' = Owned(u)
<1>1. Owned(u)' = Owned(u)
  BY DEF Owned
<1>2. ASSUME NEW i \in DOMAIN callStack[u] PROVE FrameOK(u, i)'
  <2>1. FrameOK(u, i)
    BY DEF StackOK
  <2> QED BY <1>1, <2>1 DEF FrameOK, HttpStateOK, OfOpenTask
<1>3. mark'[u] => InClient(u)'
  BY DEF StackOK, InClient
<1> QED BY <1>1, <1>2, <1>3 DEF StackOK

LEMMA WorkStays ==
  ASSUME HttpStateOK, NEW u \in Threads, WorkOK(u), work'[u] = work[u],
         Owned(u)' = Owned(u), taskOpen' => taskOpen, current'[u] = current[u],
         begun' \in Nat, begun <= begun', \A e \in 1 .. begun : facts'[e] = facts[e]
  PROVE  WorkOK(u)'
BY DEF WorkOK, HttpStateOK, OfOpenTask

LEMMA NoWork ==
  ASSUME NEW u \in Threads, work'[u] = <<>>
  PROVE  WorkOK(u)'
BY DEF WorkOK

\* A call that is no provider's is put on a stack that is in order, or taken off it.
LEMMA StackPushed ==
  ASSUME HttpStateOK, NEW t \in Threads, StackOK(t), NEW layer \in {"client", "pool", "aio"},
         NEW e \in Nat, NEW skip \in BOOLEAN, Push(t, layer, e, skip),
         begun' \in Nat, begun <= begun', \A f \in 1 .. begun : facts'[f] = facts[f],
         e \in 1 .. begun', facts'[e].owned = Owned(t), OfOpenTask(e)' => current[t] = "task",
         skip => /\ layer = "pool"
                 /\ \E j \in DOMAIN callStack[t] : /\ callStack[t][j].exchange = e
                                                  /\ ~callStack[t][j].skip,
         mark'[t] => mark[t] \/ layer = "client",
         taskOpen' = taskOpen, current' = current
  PROVE  StackOK(t)' /\ Owned(t)' = Owned(t)
<1> PICK n \in Nat : n = Len(callStack[t]) + 1
  BY PushIs DEF HttpStateOK
<1>1. /\ n \in Nat \ {0} /\ DOMAIN callStack[t] = 1 .. n - 1 /\ DOMAIN callStack'[t] = 1 .. n
      /\ Len(callStack[t]) = n - 1 /\ Len(callStack'[t]) = n
      /\ \A i \in 1 .. n - 1 : callStack'[t][i] = callStack[t][i]
      /\ callStack'[t][n] = [layer |-> layer, exchange |-> e, skip |-> skip]
  BY PushIs DEF HttpStateOK
<1>n. /\ \A i \in 1 .. n : i \in 1 .. n - 1 \/ i = n
      /\ n \in 1 .. n /\ 1 .. n - 1 \subseteq 1 .. n
      /\ callStack'[t][n].layer = layer /\ layer # "provider"
      /\ callStack'[t][n].exchange = e /\ callStack'[t][n].skip = skip
  BY <1>1
<1>3. Owned(t)' = Owned(t)
  <2>1. Owned(t) <=> \E i \in 1 .. n - 1 : callStack[t][i].layer = "provider"
    BY <1>1 DEF Owned
  <2>2. Owned(t)' <=> \E i \in 1 .. n : callStack'[t][i].layer = "provider"
    BY <1>1 DEF Owned
  <2> QED BY <1>1, <1>n, <2>1, <2>2 DEF Owned
<1>4. ASSUME NEW i \in 1 .. n - 1 PROVE FrameOK(t, i)'
  <2>1. FrameOK(t, i)
    BY <1>1 DEF StackOK
  <2>2. callStack'[t][i] = callStack[t][i] /\ i \in Nat /\ i <= n - 1
    BY <1>1
  <2>3. \A j \in 1 .. i - 1 : callStack'[t][j] = callStack[t][j]
    BY <1>1, <2>2
  <2>0. PICK x : x = callStack[t][i]
    OBVIOUS
  <2>4. /\ x.layer = "provider" => i = 1 /\ x.exchange = 0
        /\ x.layer # "provider" => /\ x.exchange \in 1 .. begun
                                   /\ facts[x.exchange].owned = Owned(t)
                                   /\ OfOpenTask(x.exchange) => current[t] = "task"
        /\ x.skip => x.layer = "pool" /\ \E j \in 1 .. i - 1 :
                       callStack[t][j].exchange = x.exchange /\ ~callStack[t][j].skip
    BY <2>0, <2>1 DEF FrameOK
  <2>5. x.layer # "provider" =>
          /\ x.exchange \in 1 .. begun'
          /\ facts'[x.exchange].owned = Owned(t)'
          /\ taskOpen' /\ facts'[x.exchange].context = "task" => current'[t] = "task"
    <3> SUFFICES ASSUME x.layer # "provider"
                 PROVE  /\ x.exchange \in 1 .. begun'
                        /\ facts'[x.exchange].owned = Owned(t)'
                        /\ taskOpen' /\ facts'[x.exchange].context = "task"
                             => current'[t] = "task"
      OBVIOUS
    <3>1. x.exchange \in 1 .. begun /\ facts'[x.exchange] = facts[x.exchange]
      BY <2>4
    <3>2. x.exchange \in 1 .. begun'
      BY <3>1 DEF HttpStateOK
    <3> QED BY <1>3, <2>4, <3>1, <3>2 DEF OfOpenTask
  <2>6. x.skip => \E j \in 1 .. i - 1 :
                    callStack'[t][j].exchange = x.exchange /\ ~callStack'[t][j].skip
    BY <2>3, <2>4
  <2>7. callStack'[t][i] = x
    BY <2>0, <2>2
  <2>8. FrameOK(t, i)' <=>
          LET f == callStack'[t][i] IN
          /\ f.layer = "provider" => i = 1 /\ f.exchange = 0
          /\ f.layer # "provider" => /\ f.exchange \in 1 .. begun'
                                     /\ facts'[f.exchange].owned = Owned(t)'
                                     /\ taskOpen' /\ facts'[f.exchange].context = "task"
                                          => current'[t] = "task"
          /\ f.skip => /\ f.layer = "pool"
                       /\ \E j \in 1 .. i - 1 : /\ callStack'[t][j].exchange = f.exchange
                                               /\ ~callStack'[t][j].skip
    BY DEF FrameOK, OfOpenTask
  <2> QED BY <2>4, <2>5, <2>6, <2>7, <2>8
<1>5. FrameOK(t, n)'
  <2>1. /\ callStack'[t][n].layer = layer /\ callStack'[t][n].exchange = e
        /\ callStack'[t][n].skip = skip /\ layer # "provider"
    BY <1>n
  <2>3. facts'[e].owned = Owned(t)' /\ (OfOpenTask(e)' => current'[t] = "task")
    BY <1>3
  <2>2. skip => \E j \in 1 .. n - 1 : callStack'[t][j].exchange = e /\ ~callStack'[t][j].skip
    BY <1>1
  <2> QED BY <2>1, <2>2, <2>3 DEF FrameOK
<1>6. mark'[t] => InClient(t)'
  <2>1. layer = "client" => InClient(t)'
    BY <1>1 DEF InClient
  <2>2. mark[t] => InClient(t)'
    BY <1>1 DEF StackOK, InClient
  <2> QED BY <2>1, <2>2
<1>7. \A i \in DOMAIN callStack'[t] : FrameOK(t, i)'
  BY <1>1, <1>n, <1>4, <1>5
<1> QED BY <1>3, <1>6, <1>7 DEF StackOK

LEMMA StackPopped ==
  ASSUME HttpStateOK, NEW t \in Threads, StackOK(t), callStack[t] # <<>>, Pop(t),
         Top(t).layer # "provider", mark'[t] => mark[t] /\ Top(t).layer # "client",
         UNCHANGED <<taskOpen, current, begun, facts>>
  PROVE  StackOK(t)' /\ Owned(t)' = Owned(t)
<1> DEFINE n == Len(callStack[t])
<1>1. /\ n \in Nat \ {0} /\ DOMAIN callStack[t] = 1 .. n /\ DOMAIN callStack'[t] = 1 .. n - 1
      /\ Len(callStack'[t]) = n - 1 /\ Len(callStack[t]) = n
      /\ \A i \in 1 .. n - 1 : callStack'[t][i] = callStack[t][i]
      /\ Top(t) = callStack[t][n]
  BY PopIs
<1> HIDE DEF n
<1>2. Owned(t)' = Owned(t)
  BY <1>1 DEF Owned
<1>3. ASSUME NEW i \in DOMAIN callStack'[t] PROVE FrameOK(t, i)'
  <2>1. FrameOK(t, i) /\ callStack'[t][i] = callStack[t][i] /\ i \in Nat /\ i <= n - 1
    BY <1>1 DEF StackOK
  <2>2. \A j \in 1 .. i - 1 : callStack'[t][j] = callStack[t][j]
    BY <1>1, <2>1
  <2> QED BY <1>2, <2>1, <2>2 DEF FrameOK, OfOpenTask
<1>4. mark'[t] => InClient(t)'
  <2> SUFFICES ASSUME mark'[t] PROVE InClient(t)'
    OBVIOUS
  <2>1. PICK i \in DOMAIN callStack[t] : callStack[t][i].layer = "client"
    BY DEF StackOK, InClient
  <2>2. i # n /\ i \in 1 .. n - 1
    BY <1>1, <2>1
  <2> QED BY <1>1, <2>1, <2>2 DEF InClient
<1> QED BY <1>2, <1>3, <1>4 DEF StackOK
-----------------------------------------------------------------------------
(* The exchanges. *)

\* Nobody more may count it or charge it than before.
LEMMA OneMoves ==
  ASSUME NEW e \in Exchanges, OneCounts(e),
         \A u \in Threads, i \in Nat : InCall(u, i, e)' => InCall(u, i, e),
         \A u \in Threads : ToCount(u, e)' =>
           ToCount(u, e) /\ (work'[u][1].stage = "count" => work[u][1].stage = "count"),
         \A u \in Threads : ToCharge(u, e)' => ToCharge(u, e),
         accounted'[e] = accounted[e], charged'[e] = charged[e], e \in unread' => e \in unread
  PROVE  OneCounts(e)'
<1> DEFINE IC(u, i) == InCall(u, i, e)
           ICN(u, i) == InCall(u, i, e)'
           TC(u) == ToCount(u, e)
           TCN(u) == ToCount(u, e)'
           TG(u) == ToCharge(u, e)
           TGN(u) == ToCharge(u, e)'
<1>1. /\ \A t, u \in Threads : \A i, j \in Nat : IC(t, i) /\ IC(u, j) => t = u /\ i = j
      /\ \A t, u \in Threads : TC(t) /\ TC(u) => t = u
      /\ \A t, u \in Threads : TG(t) /\ TG(u) => t = u
      /\ \A t \in Threads, i \in Nat : IC(t, i) =>
           /\ accounted[e] = <<>> /\ charged[e] = <<>> /\ e \notin unread
           /\ \A u \in Threads : ~TC(u) /\ ~TG(u)
      /\ \A t \in Threads : TC(t) /\ work[t][1].stage = "count" => accounted[e] = <<>>
      /\ \A t \in Threads : TG(t) => charged[e] = <<>> /\ e \notin unread
      /\ e \in unread => charged[e] = <<>>
      /\ Len(accounted[e]) <= 1 /\ Len(charged[e]) <= 1
  BY DEF OneCounts
<1>2. /\ \A u \in Threads, i \in Nat : ICN(u, i) => IC(u, i)
      /\ \A u \in Threads : TCN(u) =>
           TC(u) /\ (work'[u][1].stage = "count" => work[u][1].stage = "count")
      /\ \A u \in Threads : TGN(u) => TG(u)
  OBVIOUS
<1>3. OneCounts(e)' <=>
      /\ \A t, u \in Threads : \A i, j \in Nat : ICN(t, i) /\ ICN(u, j) => t = u /\ i = j
      /\ \A t, u \in Threads : TCN(t) /\ TCN(u) => t = u
      /\ \A t, u \in Threads : TGN(t) /\ TGN(u) => t = u
      /\ \A t \in Threads, i \in Nat : ICN(t, i) =>
           /\ accounted'[e] = <<>> /\ charged'[e] = <<>> /\ e \notin unread'
           /\ \A u \in Threads : ~TCN(u) /\ ~TGN(u)
      /\ \A t \in Threads : TCN(t) /\ work'[t][1].stage = "count" => accounted'[e] = <<>>
      /\ \A t \in Threads : TGN(t) => charged'[e] = <<>> /\ e \notin unread'
      /\ e \in unread' => charged'[e] = <<>>
      /\ Len(accounted'[e]) <= 1 /\ Len(charged'[e]) <= 1
  BY DEF OneCounts
<1> HIDE DEF IC, ICN, TC, TCN, TG, TGN
<1> QED BY <1>1, <1>2, <1>3

LEMMA AccountsStay ==
  ASSUME HttpInv, UNCHANGED <<accounted, charged, recordedIds>>, taskOpen' => taskOpen,
         begun' \in Nat, begun <= begun', \A e \in 1 .. begun : facts'[e] = facts[e],
         facts' \in [Exchanges -> Fact]
  PROVE  (\A e \in Exchanges : AccountsOK(e)') /\ RecordIsChargedOnce'
<1>1. \A e \in Exchanges : e \in Nat /\ (e \in 1 .. begun \/ e > begun)
  BY HttpAssumption DEF Exchanges, HttpInv, HttpStateOK
<1>2. ASSUME NEW e \in Exchanges PROVE AccountsOK(e)'
  <2>1. AccountsOK(e)
    BY DEF HttpInv
  <2>2. CASE e \in 1 .. begun
    BY <2>1, <2>2 DEF AccountsOK, OfOpenTask, HttpInv, HttpStateOK
  <2>3. CASE e > begun
    <3>1. charged[e] = <<>> /\ accounted[e] = <<>>
      BY <2>1, <2>3 DEF AccountsOK
    <3> QED BY <3>1 DEF AccountsOK
  <2> QED BY <1>1, <2>2, <2>3
<1>3. \A e \in Exchanges : charged[e] # <<>> => facts'[e] = facts[e]
  BY <1>1 DEF HttpInv, AccountsOK
<1>4. RecordIsChargedOnce'
  BY <1>3 DEF HttpInv, RecordIsChargedOnce
<1> QED BY <1>2, <1>4

\* It is counted already, or it is still on its way to be.
LEMMA StillMoves ==
  ASSUME NEW e \in Exchanges, StillCounted(e), httpFaults' = 0 => httpFaults = 0,
         OfOpenTask(e)' => OfOpenTask(e), e \in returned' => e \in returned,
         accounted[e] # <<>> => accounted'[e] # <<>>,
         OfOpenTask(e) /\ WillBeCounted(e) =>
           httpFaults' # 0 \/ accounted'[e] # <<>> \/ WillBeCounted(e)',
         ACallIsIn(e) => httpFaults' # 0 \/ WillBeCounted(e)' \/ ACallIsIn(e)'
  PROVE  StillCounted(e)'
BY DEF StillCounted

-----------------------------------------------------------------------------
(* The calls. *)

\* An exchange begins, in a frame that counts.
LEMMA BeginsKeeps ==
  ASSUME HttpInv, NEW t \in Threads, NEW layer \in {"client", "pool", "aio"},
         work[t] = <<>>, Begin(t), Push(t, layer, begun + 1, FALSE),
         mark' \in [Threads -> BOOLEAN], \A u \in Threads \ {t} : mark'[u] = mark[u],
         mark'[t] => mark[t] \/ layer = "client",
         UNCHANGED <<current, work, unread, returned, exposed, accounts, httpFaults>>
  PROVE  HttpInv'
<1>1. PICK k \in Exchanges : k = begun + 1 /\ begun' = k
  BY HttpAssumption DEF Begin, HttpInv, HttpStateOK, Exchanges
<1>2. /\ HttpStateOK /\ begun \in Nat /\ k \in Nat /\ k > begun /\ k \in 1 .. begun'
      /\ \A e \in 1 .. begun : e # k /\ e \in 1 .. begun' /\ e \in Exchanges
      /\ k \notin unread /\ k \notin returned /\ k \notin exposed
      /\ 1 .. begun \subseteq 1 .. begun' /\ begun' \in 0 .. MaxExchanges
  <2>1. HttpStateOK /\ begun \in Nat /\ begun <= MaxExchanges /\ MaxExchanges \in Nat
    BY HttpAssumption DEF HttpInv, HttpStateOK
  <2>2. /\ k \in 1 .. MaxExchanges /\ k > begun /\ k \in 1 .. begun' /\ k \notin 1 .. begun
        /\ \A e \in 1 .. begun : e # k /\ e \in 1 .. begun' /\ e \in Exchanges
        /\ 1 .. begun \subseteq 1 .. begun' /\ begun' \in 0 .. MaxExchanges
    BY <1>1, <2>1 DEF Exchanges
  <2>3. unread \subseteq 1 .. begun /\ returned \subseteq 1 .. begun /\ exposed \subseteq 1 .. begun
    BY <2>1 DEF HttpStateOK
  <2> QED BY <2>1, <2>2, <2>3
<1>3. PICK fact \in Fact : /\ facts' = [facts EXCEPT ![k] = fact]
                           /\ fact.context = current[t] /\ fact.owned = Owned(t)
  <2>1. PICK kind \in Kinds, record \in {"none", "job"} :
          facts' = [facts EXCEPT ![begun + 1] =
            [kind |-> kind, record |-> record, context |-> current[t], owned |-> Owned(t)]]
    BY DEF Begin
  <2>2. Owned(t) \in BOOLEAN /\ current[t] \in Contexts3
    BY <1>2 DEF Owned, HttpStateOK
  <2> DEFINE f == [kind |-> kind, record |-> record, context |-> current[t],
                   owned |-> Owned(t)]
  <2>3. f \in Fact /\ f.context = current[t] /\ f.owned = Owned(t)
    BY <2>2 DEF Fact
  <2> HIDE DEF f
  <2>4. facts' = [facts EXCEPT ![k] = f]
    BY <1>1, <2>1 DEF f
  <2> QED BY <2>3, <2>4
<1>4. /\ facts' \in [Exchanges -> Fact] /\ facts'[k] = fact
      /\ \A e \in 1 .. begun : facts'[e] = facts[e]
  BY <1>2, <1>3 DEF HttpStateOK
<1>5. PICK n \in Nat : n = Len(callStack[t]) + 1
  BY <1>2 DEF HttpStateOK
<1>6. /\ callStack' \in [Threads -> Seq(Frame)]
      /\ \A u \in Threads \ {t} : callStack'[u] = callStack[u]
      /\ DOMAIN callStack[t] = 1 .. n - 1 /\ DOMAIN callStack'[t] = 1 .. n
      /\ 1 .. n - 1 \subseteq 1 .. n
      /\ \A i \in 1 .. n - 1 : callStack'[t][i] = callStack[t][i]
      /\ callStack'[t][n] = [layer |-> layer, exchange |-> k, skip |-> FALSE]
  <2>1. Push(t, layer, k, FALSE) /\ layer \in {"provider", "client", "pool", "aio"}
    BY <1>1
  <2>2. n - 1 \in Nat /\ 1 .. n - 1 \subseteq 1 .. n
    BY <1>2, <1>5 DEF HttpStateOK
  <2>3. LET m == Len(callStack[t]) + 1 IN
         /\ callStack' \in [Threads -> Seq(Frame)]
         /\ \A u \in Threads \ {t} : callStack'[u] = callStack[u]
         /\ DOMAIN callStack[t] = 1 .. m - 1 /\ DOMAIN callStack'[t] = 1 .. m
         /\ \A i \in DOMAIN callStack[t] : callStack'[t][i] = callStack[t][i]
         /\ callStack'[t][m] = [layer |-> layer, exchange |-> k, skip |-> FALSE]
    BY <1>2, <2>1, PushIs
  <2> QED BY <1>5, <2>2, <2>3
<1>7. UNCHANGED <<current, work, unread, returned, exposed, taskOpen, accounted, charged,
                  recordedIds, lost, httpFaults>>
  BY DEF accounts
<1>8. HttpStateOK'
  <2>1. /\ unread' \subseteq 1 .. begun' /\ returned' \subseteq 1 .. begun'
        /\ exposed' \subseteq 1 .. begun'
    BY <1>2, <1>7 DEF HttpStateOK
  <2> QED BY <1>2, <1>4, <1>6, <1>7, <2>1 DEF HttpStateOK
<1>9. \A u \in Threads : StackOK(u)' /\ Owned(u)' = Owned(u)
  <2>1. ASSUME NEW u \in Threads \ {t} PROVE StackOK(u)' /\ Owned(u)' = Owned(u)
    BY <1>1, <1>2, <1>4, <1>6, <1>7, StackStays DEF HttpInv
  <2>2. facts'[k].owned = Owned(t) /\ (OfOpenTask(k)' => current[t] = "task")
    BY <1>3, <1>4 DEF OfOpenTask
  <2>3. StackOK(t)' /\ Owned(t)' = Owned(t)
    <3>1. StackOK(t) /\ Push(t, layer, k, FALSE)
      BY <1>1 DEF HttpInv
    <3>2. begun' \in Nat /\ begun <= begun'
      BY <1>1, <1>2
    <3> QED BY <1>2, <1>4, <1>7, <2>2, <3>1, <3>2, StackPushed
  <2> QED BY <2>1, <2>3
<1>10. \A u \in Threads : WorkOK(u)'
  BY <1>1, <1>2, <1>4, <1>7, <1>9, WorkStays DEF HttpInv
<1>11. ASSUME NEW u \in Threads, NEW e \in Exchanges
       PROVE  /\ ToCount(u, e)' = ToCount(u, e) /\ ToCharge(u, e)' = ToCharge(u, e)
              /\ e = k => ~ToCount(u, e) /\ ~ToCharge(u, e)
  BY <1>1, <1>2, <1>7 DEF ToCount, ToCharge, HttpInv, WorkOK
<1>12. ASSUME NEW u \in Threads, NEW i \in Nat
       PROVE  /\ ~InCall(u, i, k)
              /\ \A e \in Exchanges \ {k} : InCall(u, i, e)' => InCall(u, i, e)
              /\ InCall(u, i, k)' => u = t /\ i = n
  <2>1. ~InCall(u, i, k)
    <3>1. InCall(u, i, k) => FrameOK(u, i)
      BY DEF InCall, HttpInv, StackOK
    <3> QED BY <1>1, <1>2, <3>1 DEF InCall, FrameOK
  <2>2. CASE u # t
    BY <1>6, <2>1, <2>2 DEF InCall
  <2>3. CASE u = t /\ i \in 1 .. n - 1
    BY <1>5, <1>6, <2>1, <2>3 DEF InCall
  <2>4. CASE u = t /\ i \notin 1 .. n - 1
    <3>1. i \in DOMAIN callStack'[t] => i = n
      BY <1>5, <1>6, <2>4
    <3> QED BY <1>6, <2>1, <2>4, <3>1 DEF InCall
  <2> QED BY <2>2, <2>3, <2>4
<1>13. ASSUME NEW e \in Exchanges, e \notin exposed'
       PROVE  OneCounts(e)'
  <2>1. OneCounts(e)
    BY <1>7, <1>13 DEF HttpInv
  <2>2. CASE e # k
    BY <1>7, <1>11, <1>12, <2>1, <2>2, OneMoves
  <2>3. CASE e = k
    <3>1. accounted'[k] = <<>> /\ charged'[k] = <<>> /\ k \notin unread'
      BY <1>2, <1>7 DEF HttpInv, AccountsOK
    <3>2. /\ \A u \in Threads, i \in Nat : InCall(u, i, k)' => u = t /\ i = n
          /\ \A u \in Threads : ~ToCount(u, k)' /\ ~ToCharge(u, k)'
      BY <1>11, <1>12
    <3>3. OneCounts(k)'
      BY <3>1, <3>2 DEF OneCounts
    <3> QED BY <2>3, <3>3
  <2> QED BY <2>2, <2>3
<1>14. (\A e \in Exchanges : AccountsOK(e)') /\ RecordIsChargedOnce'
  BY <1>1, <1>2, <1>4, <1>7, AccountsStay
<1>15. ASSUME NEW e \in Exchanges PROVE StillCounted(e)'
  <2>1. CASE e = k
    BY <1>2, <1>7, <2>1 DEF StillCounted
  <2>2. CASE e # k
    <3>1. OfOpenTask(e)' => OfOpenTask(e)
      BY <1>3, <1>7, <2>2, <1>2 DEF OfOpenTask, HttpStateOK
    <3>2. WillBeCounted(e) => WillBeCounted(e)'
      BY <1>7, <1>11 DEF WillBeCounted
    <3>3. ACallIsIn(e) => ACallIsIn(e)'
      <4> SUFFICES ASSUME NEW u \in Threads, NEW i \in DOMAIN callStack[u],
                          callStack[u][i].exchange = e /\ ~callStack[u][i].skip
                   PROVE  i \in DOMAIN callStack'[u] /\ callStack'[u][i] = callStack[u][i]
        BY DEF ACallIsIn
      <4>1. CASE u = t
        BY <1>6, <4>1
      <4>2. CASE u # t
        BY <1>6, <4>2
      <4> QED BY <4>1, <4>2
    <3> QED BY <1>7, <3>1, <3>2, <3>3, StillMoves DEF HttpInv
  <2> QED BY <2>1, <2>2
<1> QED BY <1>8, <1>9, <1>10, <1>13, <1>14, <1>15 DEF HttpInv

\* The pool serves the exchange of the wrapper around it: it is left to that, or exposed.
LEMMA PoolInsideKeeps ==
  ASSUME HttpInv, NEW t \in Threads, work[t] = <<>>, Top(t).layer \in {"client", "pool"},
         Push(t, "pool", Top(t).exchange, mark[t]),
         exposed' = IF mark[t] THEN exposed ELSE exposed \union {Top(t).exchange},
         UNCHANGED <<begun, facts, mark, current, work, unread, returned, accounts, httpFaults>>
  PROVE  HttpInv'
<1>1. PICK n \in Nat, k \in Nat :
        /\ n = Len(callStack[t]) + 1 /\ k = Top(t).exchange
        /\ callStack[t] # <<>> /\ Top(t) = callStack[t][n - 1] /\ n - 1 \in DOMAIN callStack[t]
  <2>1. callStack[t] # <<>> /\ callStack[t] \in Seq(Frame)
    BY DEF Top, HttpInv, HttpStateOK
  <2>2. /\ Len(callStack[t]) \in Nat /\ Len(callStack[t]) \in DOMAIN callStack[t]
        /\ Top(t) = callStack[t][Len(callStack[t])] /\ Top(t) \in Frame
    BY <2>1 DEF Top
  <2> QED BY <2>1, <2>2 DEF Frame
<1>2. HttpStateOK /\ mark[t] \in BOOLEAN
  BY DEF HttpInv, HttpStateOK
<1>3. /\ k \in 1 .. begun /\ k \in Exchanges /\ facts[k].owned = Owned(t)
      /\ OfOpenTask(k) => current[t] = "task"
      /\ \E j \in DOMAIN callStack[t] : callStack[t][j].exchange = k /\ ~callStack[t][j].skip
  <2>1. FrameOK(t, n - 1)
    BY <1>1 DEF HttpInv, StackOK
  <2>2. /\ k \in 1 .. begun /\ facts[k].owned = Owned(t)
        /\ OfOpenTask(k) => current[t] = "task"
    BY <1>1, <2>1 DEF FrameOK
  <2>3. 1 .. begun \subseteq Exchanges
    BY <1>2, HttpAssumption DEF Exchanges, HttpStateOK
  <2>4. \E j \in DOMAIN callStack[t] : callStack[t][j].exchange = k /\ ~callStack[t][j].skip
    <3>1. CASE Top(t).skip
      <4>1. PICK j \in 1 .. n - 2 : callStack[t][j].exchange = k /\ ~callStack[t][j].skip
        BY <1>1, <2>1, <3>1 DEF FrameOK
      <4>2. DOMAIN callStack[t] = 1 .. n - 1
        BY <1>1, <1>2 DEF HttpStateOK
      <4> QED BY <4>1, <4>2
    <3>2. CASE ~Top(t).skip
      BY <1>1, <3>2
    <3> QED BY <3>1, <3>2
  <2> QED BY <1>1, <2>2, <2>3, <2>4
<1>4. /\ callStack' \in [Threads -> Seq(Frame)]
      /\ \A u \in Threads \ {t} : callStack'[u] = callStack[u]
      /\ DOMAIN callStack[t] = 1 .. n - 1 /\ DOMAIN callStack'[t] = 1 .. n
      /\ 1 .. n - 1 \subseteq 1 .. n
      /\ \A i \in 1 .. n - 1 : callStack'[t][i] = callStack[t][i]
      /\ callStack'[t][n] = [layer |-> "pool", exchange |-> k, skip |-> mark[t]]
  BY <1>1, <1>2, PushIs
<1>5. UNCHANGED <<begun, facts, mark, current, work, unread, returned, taskOpen, accounted,
                  charged, recordedIds, lost, httpFaults>>
  BY DEF accounts
<1>6. exposed \subseteq exposed' /\ exposed' \subseteq 1 .. begun'
  BY <1>1, <1>2, <1>3, <1>5 DEF HttpStateOK
<1>7. HttpStateOK'
  BY <1>2, <1>4, <1>5, <1>6 DEF HttpStateOK
<1>8. \A u \in Threads : StackOK(u)' /\ Owned(u)' = Owned(u)
  <2>1. begun \in Nat
    BY <1>2 DEF HttpStateOK
  <2>2. ASSUME NEW u \in Threads \ {t} PROVE StackOK(u)' /\ Owned(u)' = Owned(u)
    BY <1>2, <1>4, <1>5, <2>1, <2>2, StackStays DEF HttpInv
  <2>3. StackOK(t)' /\ Owned(t)' = Owned(t)
    <3>1. StackOK(t) /\ Push(t, "pool", k, mark[t]) /\ (OfOpenTask(k)' => OfOpenTask(k))
      BY <1>1, <1>5 DEF HttpInv, OfOpenTask
    <3> QED BY <1>2, <1>3, <1>5, <2>1, <3>1, StackPushed
  <2> QED BY <2>2, <2>3
<1>9. \A u \in Threads : WorkOK(u)'
  <2>1. begun \in Nat
    BY <1>2 DEF HttpStateOK
  <2> QED BY <1>2, <1>5, <1>8, <2>1, WorkStays DEF HttpInv
<1>10. ASSUME NEW e \in Exchanges, e \notin exposed' PROVE OneCounts(e)'
  <2>1. OneCounts(e) /\ (mark[t] \/ e # k)
    BY <1>1, <1>6, <1>10 DEF HttpInv
  <2>2. ASSUME NEW u \in Threads, NEW i \in Nat, InCall(u, i, e)' PROVE InCall(u, i, e)
    <3>1. CASE u # t
      BY <1>4, <2>2, <3>1 DEF InCall
    <3>2. CASE u = t /\ i \in 1 .. n - 1
      BY <1>4, <2>2, <3>2 DEF InCall
    <3>3. CASE u = t /\ i \notin 1 .. n - 1
      <4>1. i = n
        BY <1>1, <1>4, <2>2, <3>3 DEF InCall
      <4> QED BY <1>4, <2>1, <2>2, <3>3, <4>1 DEF InCall
    <3> QED BY <3>1, <3>2, <3>3
  <2>3. \A u \in Threads : ToCount(u, e)' = ToCount(u, e) /\ ToCharge(u, e)' = ToCharge(u, e)
    BY <1>5 DEF ToCount, ToCharge
  <2> QED BY <1>5, <2>1, <2>2, <2>3, OneMoves
<1>11. (\A e \in Exchanges : AccountsOK(e)') /\ RecordIsChargedOnce'
  <2>1. begun \in Nat /\ facts \in [Exchanges -> Fact]
    BY <1>2 DEF HttpStateOK
  <2> QED BY <1>2, <1>5, <2>1, AccountsStay
<1>12. ASSUME NEW e \in Exchanges PROVE StillCounted(e)'
  <2>1. OfOpenTask(e)' => OfOpenTask(e)
    BY <1>5 DEF OfOpenTask
  <2>2. WillBeCounted(e) => WillBeCounted(e)'
    BY <1>5 DEF WillBeCounted, ToCount
  <2>3. ACallIsIn(e) => ACallIsIn(e)'
    <3> SUFFICES ASSUME NEW u \in Threads, NEW i \in DOMAIN callStack[u],
                        callStack[u][i].exchange = e /\ ~callStack[u][i].skip
                 PROVE  i \in DOMAIN callStack'[u] /\ callStack'[u][i] = callStack[u][i]
      BY DEF ACallIsIn
    <3>1. CASE u = t
      BY <1>4, <3>1
    <3>2. CASE u # t
      BY <1>4, <3>2
    <3> QED BY <3>1, <3>2
  <2> QED BY <1>5, <2>1, <2>2, <2>3, StillMoves DEF HttpInv
<1> QED BY <1>7, <1>8, <1>9, <1>10, <1>11, <1>12 DEF HttpInv

\* A thread leaves the frame of an exchange, and records it if it is the frame that counts.
\* A job that is not of an answer counts, in the context of its thread or of the exchange.
NewJob(t, k, j) ==
  /\ j \in Job /\ j.exchange = k /\ j.stage = "count" /\ j.network
  /\ j.only \/ j.context = current[t]
  /\ OfOpenTask(k) => j.context = "task"

LEMMA PopKeeps ==
  ASSUME HttpInv, NEW t \in Threads, work[t] = <<>>, NEW k, k = Top(t).exchange,
         Top(t).layer \in {"client", "pool", "aio"}, Pop(t),
         mark' \in [Threads -> BOOLEAN], \A u \in Threads \ {t} : mark'[u] = mark[u],
         mark'[t] => mark[t] /\ Top(t).layer # "client",
         NEW jobs, work' = [work EXCEPT ![t] = jobs],
         jobs = <<>> \/ \E j \in Job : jobs = <<j>> /\ NewJob(t, k, j) /\ ~Top(t).skip,
         unread' \subseteq unread \union {k},
         k \in unread' /\ k \notin unread => jobs # <<>> /\ jobs[1].only,
         returned' \subseteq returned \union {k},
         httpFaults' \in Nat, httpFaults' = 0 => httpFaults = 0 /\ (jobs # <<>> \/ Top(t).skip),
         UNCHANGED <<current, begun, facts, exposed, accounts>>
  PROVE  HttpInv'
<1>1. HttpStateOK /\ callStack[t] # <<>> /\ begun \in Nat /\ facts \in [Exchanges -> Fact]
  BY DEF HttpInv, HttpStateOK, Top
<1>2. PICK n \in Nat : /\ n = Len(callStack[t]) /\ n # 0
                       /\ callStack' \in [Threads -> Seq(Frame)]
                       /\ \A u \in Threads \ {t} : callStack'[u] = callStack[u]
                       /\ DOMAIN callStack[t] = 1 .. n /\ DOMAIN callStack'[t] = 1 .. n - 1
                       /\ \A i \in 1 .. n - 1 : callStack'[t][i] = callStack[t][i]
                       /\ Top(t) = callStack[t][n] /\ Top(t) \in Frame
  BY <1>1, PopIs
<1>3. /\ n \in DOMAIN callStack[t] /\ 1 .. n - 1 \subseteq 1 .. n /\ n \notin 1 .. n - 1
      /\ \A i \in 1 .. n : i = n \/ i \in 1 .. n - 1
  BY <1>2
<1>4. k \in 1 .. begun /\ k \in Exchanges /\ facts[k].owned = Owned(t)
  <2>1. FrameOK(t, n)
    BY <1>3 DEF HttpInv, StackOK
  <2>2. k \in 1 .. begun /\ facts[k].owned = Owned(t)
    BY <1>2, <2>1 DEF FrameOK
  <2>3. 1 .. begun \subseteq Exchanges
    BY <1>1, HttpAssumption DEF Exchanges, HttpStateOK
  <2> QED BY <2>2, <2>3
<1>5. UNCHANGED <<taskOpen, accounted, charged, recordedIds, lost>>
  BY DEF accounts
<1>6. /\ work'[t] = jobs /\ \A u \in Threads \ {t} : work'[u] = work[u]
      /\ work' \in [Threads -> Seq(Job)]
  <2>1. jobs \in Seq(Job)
    <3>1. CASE jobs = <<>>
      BY <3>1
    <3>2. ASSUME NEW j \in Job, jobs = <<j>> PROVE jobs \in Seq(Job)
      BY <3>2
    <3> QED BY <3>1, <3>2
  <2> QED BY <1>1, <2>1 DEF HttpStateOK
<1>7. HttpStateOK'
  <2>1. unread' \subseteq 1 .. begun /\ returned' \subseteq 1 .. begun
    BY <1>1, <1>4 DEF HttpStateOK
  <2> QED BY <1>1, <1>2, <1>5, <1>6, <2>1 DEF HttpStateOK
<1>8. \A u \in Threads : StackOK(u)' /\ Owned(u)' = Owned(u)
  <2>1. ASSUME NEW u \in Threads \ {t} PROVE StackOK(u)' /\ Owned(u)' = Owned(u)
    BY <1>1, <1>2, <1>5, StackStays DEF HttpInv
  <2>2. StackOK(t)' /\ Owned(t)' = Owned(t)
    <3>1. StackOK(t) /\ Top(t).layer # "provider"
      BY DEF HttpInv
    <3> QED BY <1>1, <1>5, <3>1, StackPopped
  <2> QED BY <2>1, <2>2
<1>9. \A u \in Threads : WorkOK(u)'
  <2>1. ASSUME NEW u \in Threads \ {t} PROVE WorkOK(u)'
    BY <1>1, <1>5, <1>6, <1>8, WorkStays DEF HttpInv
  <2>2. CASE jobs = <<>>
    BY <1>6, <2>1, <2>2, NoWork
  <2>3. CASE jobs # <<>>
    <3>1. PICK j \in Job : jobs = <<j>> /\ NewJob(t, k, j)
      BY <2>3
    <3>2. work'[t] # <<>> /\ Len(work'[t]) = 1 /\ work'[t][1] = j
      BY <1>6, <3>1
    <3>3. WorkOK(t)'
      BY <1>4, <1>5, <1>8, <3>1, <3>2 DEF WorkOK, NewJob, OfOpenTask
    <3> QED BY <2>1, <3>3
  <2> QED BY <2>2, <2>3
<1>10. ASSUME NEW u \in Threads, NEW i \in Nat, NEW e \in Exchanges, InCall(u, i, e)'
       PROVE  InCall(u, i, e) /\ (u = t => i # n)
  <2>1. CASE u # t
    BY <1>2, <1>10, <2>1 DEF InCall
  <2>2. CASE u = t
    BY <1>2, <1>3, <1>10, <2>2 DEF InCall
  <2> QED BY <2>1, <2>2
<1>11. ASSUME NEW u \in Threads, NEW e \in Exchanges
       PROVE  /\ u # t => /\ ToCount(u, e)' = ToCount(u, e) /\ ToCharge(u, e)' = ToCharge(u, e)
                          /\ work'[u] = work[u]
              /\ ToCount(t, e)' \/ ToCharge(t, e)' => e = k /\ jobs # <<>>
              /\ ToCharge(t, e)' => ~jobs[1].only
  <2>1. u # t => /\ ToCount(u, e)' = ToCount(u, e) /\ ToCharge(u, e)' = ToCharge(u, e)
                 /\ work'[u] = work[u]
    BY <1>6 DEF ToCount, ToCharge
  <2>2. ToCount(t, e)' \/ ToCharge(t, e)' => e = k /\ jobs # <<>>
    BY <1>6 DEF ToCount, ToCharge, NewJob
  <2>3. ToCharge(t, e)' => ~jobs[1].only
    BY <1>6 DEF ToCharge
  <2> QED BY <2>1, <2>2, <2>3
<1>12. ASSUME NEW e \in Exchanges, e \notin exposed' PROVE OneCounts(e)'
  <2>1. OneCounts(e) /\ accounted'[e] = accounted[e] /\ charged'[e] = charged[e]
    BY <1>5, <1>12 DEF HttpInv
  <2>2. CASE e # k \/ jobs = <<>>
    <3>1. e \in unread' => e \in unread
      BY <2>2
    <3>2. \A u \in Threads : ToCount(u, e)' =>
            ToCount(u, e) /\ (work'[u][1].stage = "count" => work[u][1].stage = "count")
      BY <1>11, <2>2
    <3>3. \A u \in Threads : ToCharge(u, e)' => ToCharge(u, e)
      BY <1>11, <2>2
    <3> QED BY <1>10, <2>1, <3>1, <3>2, <3>3, OneMoves
  <2>3. CASE e = k /\ jobs # <<>>
    <3>1. InCall(t, n, k) /\ ~Top(t).skip
      BY <1>2, <1>3, <2>3 DEF InCall
    <3>2. /\ accounted'[k] = <<>> /\ charged'[k] = <<>> /\ k \notin unread
          /\ \A u \in Threads : ~ToCount(u, k) /\ ~ToCharge(u, k)
          /\ \A u \in Threads, i \in Nat : InCall(u, i, k) => u = t /\ i = n
      BY <2>1, <2>3, <3>1 DEF OneCounts
    <3>3. /\ \A u \in Threads, i \in Nat : ~InCall(u, i, k)'
          /\ \A u \in Threads : ToCount(u, k)' => u = t
          /\ \A u \in Threads : ToCharge(u, k)' => u = t /\ k \notin unread'
      BY <1>4, <1>10, <1>11, <3>2
    <3>4. OneCounts(k)'
      BY <3>2, <3>3 DEF OneCounts
    <3> QED BY <2>3, <3>4
  <2> QED BY <2>2, <2>3
<1>13. (\A e \in Exchanges : AccountsOK(e)') /\ RecordIsChargedOnce'
  BY <1>1, <1>5, AccountsStay
<1>14. ASSUME NEW e \in Exchanges PROVE StillCounted(e)'
  <2>1. OfOpenTask(e)' = OfOpenTask(e) /\ accounted' = accounted
    BY <1>5 DEF OfOpenTask
  <2>2. WillBeCounted(e) => WillBeCounted(e)'
    <3> SUFFICES ASSUME NEW u \in Threads, ToCount(u, e), work[u][1].stage = "count"
                 PROVE  ToCount(u, e)' /\ work'[u][1].stage = "count"
      BY DEF WillBeCounted
    <3>1. u # t
      BY DEF ToCount
    <3> QED BY <1>11, <3>1
  <2>3. CASE e # k
    <3>1. ACallIsIn(e) => ACallIsIn(e)'
      <4> SUFFICES ASSUME NEW u \in Threads, NEW i \in DOMAIN callStack[u],
                          callStack[u][i].exchange = e /\ ~callStack[u][i].skip
                   PROVE  i \in DOMAIN callStack'[u] /\ callStack'[u][i] = callStack[u][i]
        BY DEF ACallIsIn
      <4>1. CASE u = t
        BY <1>2, <1>3, <2>3, <4>1
      <4>2. CASE u # t
        BY <1>2, <4>2
      <4> QED BY <4>1, <4>2
    <3>2. StillCounted(e) /\ (e \in returned' => e \in returned)
      BY <2>3 DEF HttpInv
    <3> QED BY <2>1, <2>2, <3>1, <3>2, StillMoves
  <2>4. CASE e = k
    <3>1. httpFaults' # 0 \/ jobs # <<>> \/ Top(t).skip
      OBVIOUS
    <3>2. jobs # <<>> => WillBeCounted(k)'
      <4>1. jobs # <<>> => ToCount(t, k)' /\ work'[t][1].stage = "count"
        BY <1>6 DEF ToCount, NewJob
      <4> QED BY <4>1 DEF WillBeCounted
    <3>3. Top(t).skip => ACallIsIn(k)'
      <4> SUFFICES ASSUME Top(t).skip PROVE ACallIsIn(k)'
        OBVIOUS
      <4>1. FrameOK(t, n)
        BY <1>3 DEF HttpInv, StackOK
      <4>2. PICK j \in 1 .. n - 1 : callStack[t][j].exchange = k /\ ~callStack[t][j].skip
        BY <1>2, <4>1 DEF FrameOK
      <4>3. j \in DOMAIN callStack'[t] /\ callStack'[t][j] = callStack[t][j]
        BY <1>2, <4>2
      <4> QED BY <4>2, <4>3 DEF ACallIsIn
    <3> QED BY <2>4, <3>1, <3>2, <3>3 DEF StillCounted
  <2> QED BY <2>3, <2>4
<1> QED BY <1>7, <1>8, <1>9, <1>12, <1>13, <1>14 DEF HttpInv

LEMMA JobIs ==
  ASSUME HttpInv, NEW t \in Threads, work[t] # <<>>
  PROVE  work[t][1] \in Job /\ work[t][1].exchange \in Exchanges
<1>1. work[t] \in Seq(Job)
  BY DEF HttpInv, HttpStateOK
<1>2. work[t][1] \in Job
  BY <1>1
<1> QED BY <1>2 DEF Job

LEMMA AppendIs ==
  ASSUME NEW S, NEW s \in Seq(S), NEW a \in S
  PROVE  /\ Append(s, a) \in Seq(S) /\ Append(s, a) # <<>>
         /\ s = <<>> => Len(Append(s, a)) = 1
         /\ DOMAIN Append(s, a) = 1 .. Len(s) + 1
         /\ \A i \in DOMAIN Append(s, a) :
              Append(s, a)[i] = a \/ (i \in DOMAIN s /\ Append(s, a)[i] = s[i])
<1>1. Append(s, a) \in Seq(S) /\ Append(s, a) # <<>> /\ Len(s) \in Nat
  OBVIOUS
<1>2. Len(Append(s, a)) = Len(s) + 1
  OBVIOUS
<1>3. s = <<>> => Len(s) = 0
  OBVIOUS
<1>4. DOMAIN Append(s, a) = 1 .. Len(s) + 1 /\ DOMAIN s = 1 .. Len(s)
  OBVIOUS
<1>5. \A i \in 1 .. Len(s) + 1 : i \in 1 .. Len(s) \/ i = Len(s) + 1
  BY <1>1
<1>6. (\A i \in 1 .. Len(s) : Append(s, a)[i] = s[i]) /\ Append(s, a)[Len(s) + 1] = a
  OBVIOUS
<1> QED BY <1>1, <1>2, <1>3, <1>4, <1>5, <1>6


\* A step of one thread with what it has to record: it drops it, or keeps it in the same
\* places with another stage.
LEMMA WorkMoves ==
  ASSUME HttpInv, NEW t \in Threads, NEW jobs \in Seq(Job), work' = [work EXCEPT ![t] = jobs],
         jobs # <<>> => /\ work[t] # <<>> /\ jobs[1].exchange = work[t][1].exchange
                        /\ jobs[1].network = work[t][1].network
                        /\ jobs[1].only = work[t][1].only /\ jobs[1].stage = "charge",
         UNCHANGED callStack
  PROVE  /\ work' \in [Threads -> Seq(Job)] /\ \A u \in Threads : Owned(u)' = Owned(u)
         /\ \A u \in Threads : u # t => work'[u] = work[u]
         /\ \A e \in Exchanges : \A u \in Threads :
              /\ \A i \in Nat : InCall(u, i, e)' = InCall(u, i, e)
              /\ ToCount(u, e)' => ToCount(u, e)
              /\ ToCharge(u, e)' => ToCharge(u, e)
              /\ ToCount(u, e)' /\ work'[u][1].stage = "count" => u # t
              /\ u # t => /\ ToCount(u, e)' = ToCount(u, e)
                          /\ ToCharge(u, e)' = ToCharge(u, e)
<1>1. /\ work' \in [Threads -> Seq(Job)] /\ work'[t] = jobs
      /\ \A u \in Threads : u # t => work'[u] = work[u]
  BY DEF HttpInv, HttpStateOK
<1>2. \A u \in Threads : Owned(u)' = Owned(u)
  BY DEF Owned
<1>3. ASSUME NEW e \in Exchanges, NEW u \in Threads
      PROVE  /\ \A i \in Nat : InCall(u, i, e)' = InCall(u, i, e)
             /\ ToCount(u, e)' => ToCount(u, e)
             /\ ToCharge(u, e)' => ToCharge(u, e)
             /\ ToCount(u, e)' /\ work'[u][1].stage = "count" => u # t
             /\ u # t => /\ ToCount(u, e)' = ToCount(u, e)
                         /\ ToCharge(u, e)' = ToCharge(u, e)
  <2>1. \A i \in Nat : InCall(u, i, e)' = InCall(u, i, e)
    BY DEF InCall
  <2>2. CASE u # t
    BY <1>1, <2>1, <2>2 DEF ToCount, ToCharge
  <2>3. CASE u = t
    BY <1>1, <2>1, <2>3 DEF ToCount, ToCharge
  <2> QED BY <2>2, <2>3
<1> QED BY <1>1, <1>2, <1>3

LEMMA HandleCountsKeeps ==
  ASSUME HttpInv, NEW t \in Threads, HandleCounts(t)
  PROVE  HttpInv'
<1>1. PICK w \in Job, k \in Exchanges :
        /\ work[t] # <<>> /\ w = work[t][1] /\ k = w.exchange /\ w.stage = "count"
  <2>1. work[t] # <<>> /\ work[t][1].stage = "count"
    BY DEF HandleCounts
  <2>2. work[t][1] \in Job /\ work[t][1].exchange \in Exchanges
    BY <2>1, JobIs
  <2> QED BY <2>1, <2>2
<1>2. /\ HttpStateOK /\ StackOK(t) /\ begun \in Nat /\ facts \in [Exchanges -> Fact]
      /\ UNCHANGED <<callStack, mark, begun, facts, unread, returned, exposed, taskOpen, charged,
                     recordedIds, lost, httpFaults>>
  BY DEF HttpInv, HttpStateOK, HandleCounts, calls
<1>3. /\ k \in 1 .. begun
      /\ w.network => facts[k].owned = Owned(t)
      /\ ~w.network => ~w.only
      /\ w.network /\ ~w.only => w.context = current[t]
      /\ OfOpenTask(k) => w.context = "task"
  BY <1>1 DEF HttpInv, WorkOK
<1>4. t \notin {"none", "task", "session"}
  BY HttpAssumption
<1>5. PICK a \in Accounts : a = Account(t)
  BY <1>1, <1>2, <1>4 DEF Account, Resolve, Accounts, Contexts3, Job
<1>6. /\ OfOpenTask(k) => a = "task"
      /\ w.context = "task" /\ taskOpen => a = "task"
  BY <1>1, <1>3, <1>4, <1>5 DEF Account, Resolve, OfOpenTask
<1>7. Charges(t) => ~facts[k].owned /\ ~w.only
  BY <1>1, <1>3 DEF Charges, IsProviders, Deferred
<1>8. PICK jobs \in Seq(Job) :
        /\ work' = [work EXCEPT ![t] = jobs]
        /\ \/ jobs = <<>>
           \/ /\ jobs # <<>> /\ Len(jobs) = 1 /\ jobs[1].exchange = k
              /\ jobs[1].network = w.network /\ jobs[1].only = w.only
              /\ jobs[1].stage = "charge" /\ jobs[1].context = w.context
              /\ jobs[1].account = a /\ Charges(t)
  <2>1. CASE Charges(t)
    <3> DEFINE j == [w EXCEPT !.stage = "charge", !.account = a]
    <3>1. j \in Job
      BY <1>1 DEF Job
    <3>2. /\ j.exchange = k /\ j.network = w.network /\ j.only = w.only /\ j.stage = "charge"
          /\ j.context = w.context /\ j.account = a
      BY <1>1 DEF Job
    <3>3. work' = [work EXCEPT ![t] = <<j>>]
      BY <1>1, <1>5, <2>1 DEF HandleCounts
    <3> HIDE DEF j
    <3>4. <<j>> \in Seq(Job) /\ <<j>> # <<>> /\ Len(<<j>>) = 1 /\ <<j>>[1] = j
      BY <3>1
    <3> QED BY <2>1, <3>2, <3>3, <3>4
  <2>2. CASE ~Charges(t)
    <3>1. work' = [work EXCEPT ![t] = <<>>] /\ <<>> \in Seq(Job)
      BY <2>2 DEF HandleCounts
    <3> QED BY <3>1
  <2> QED BY <2>1, <2>2
<1>9. /\ work' \in [Threads -> Seq(Job)] /\ \A u \in Threads : Owned(u)' = Owned(u)
      /\ work'[t] = jobs /\ \A u \in Threads : u # t => work'[u] = work[u]
      /\ \A e \in Exchanges : \A u \in Threads :
           /\ \A i \in Nat : InCall(u, i, e)' = InCall(u, i, e)
           /\ ToCount(u, e)' => ToCount(u, e)
           /\ ToCharge(u, e)' => ToCharge(u, e)
           /\ ToCount(u, e)' /\ work'[u][1].stage = "count" => u # t
           /\ u # t => /\ ToCount(u, e)' = ToCount(u, e)
                       /\ ToCharge(u, e)' = ToCharge(u, e)
  <2>1. work'[t] = jobs
    BY <1>2, <1>8 DEF HttpStateOK
  <2> QED BY <1>1, <1>2, <1>8, <2>1, WorkMoves
<1>10. /\ current' \in [Threads -> Contexts3]
       /\ \A u \in Threads : u # t => current'[u] = current[u]
       /\ taskOpen /\ current[t] = "task" => current'[t] = "task"
  <2>1. CASE Charges(t) /\ a = t /\ w.network
    <3>1. current' = [current EXCEPT ![t] = "session"]
      BY <1>1, <1>5, <2>1 DEF HandleCounts
    <3>2. ~(taskOpen /\ current[t] = "task")
      BY <1>3, <1>4, <1>6, <1>7, <2>1
    <3> QED BY <1>2, <3>1, <3>2 DEF HttpStateOK, Contexts3
  <2>2. CASE ~(Charges(t) /\ a = t /\ w.network)
    <3>1. current' = current
      BY <1>1, <1>5, <2>2 DEF HandleCounts
    <3> QED BY <1>2, <3>1 DEF HttpStateOK
  <2> QED BY <2>1, <2>2
<1>11. /\ accounted' \in [Exchanges -> Seq(Accounts)]
       /\ \A e \in Exchanges : accounted[e] # <<>> => accounted'[e] # <<>>
       /\ \A e \in Exchanges : accounted'[e] # accounted[e] =>
            /\ e = k /\ w.network
            /\ accounted[e] = <<>> => Len(accounted'[e]) <= 1
       /\ OfOpenTask(k) /\ w.network => accounted'[k] # <<>>
  <2>1. CASE w.network /\ a # "none" /\ (a = "task" => taskOpen)
    <3>1. accounted' = [accounted EXCEPT ![k] = Append(accounted[k], a)]
      BY <1>1, <1>2, <1>5, <2>1 DEF HandleCounts, HttpStateOK
    <3>2. /\ Append(accounted[k], a) \in Seq(Accounts) /\ Append(accounted[k], a) # <<>>
          /\ accounted[k] = <<>> => Len(Append(accounted[k], a)) <= 1
      <4>1. accounted[k] \in Seq(Accounts)
        BY <1>2 DEF HttpStateOK
      <4> QED BY <4>1, AppendIs
    <3> QED BY <1>2, <2>1, <3>1, <3>2 DEF HttpStateOK
  <2>2. CASE ~(w.network /\ a # "none" /\ (a = "task" => taskOpen))
    <3>1. accounted' = accounted
      BY <1>1, <1>5, <2>2 DEF HandleCounts
    <3> QED BY <1>2, <1>6, <2>2, <3>1 DEF HttpStateOK, OfOpenTask
  <2> QED BY <2>1, <2>2
<1>12. HttpStateOK'
  BY <1>2, <1>9, <1>10, <1>11 DEF HttpStateOK
<1>13. \A u \in Threads : StackOK(u)'
  BY <1>2, <1>10, StackStays DEF HttpInv
<1>14. \A u \in Threads : WorkOK(u)'
  <2>1. ASSUME NEW u \in Threads \ {t} PROVE WorkOK(u)'
    BY <1>2, <1>9, <1>10, WorkStays DEF HttpInv
  <2>2. WorkOK(t)'
    BY <1>2, <1>3, <1>6, <1>7, <1>8, <1>9 DEF WorkOK, OfOpenTask
  <2> QED BY <2>1, <2>2
<1>15. ASSUME NEW e \in Exchanges, e \notin exposed' PROVE OneCounts(e)'
  <2>1. OneCounts(e) /\ charged'[e] = charged[e]
    BY <1>2, <1>15 DEF HttpInv
  <2>2. CASE accounted'[e] = accounted[e]
    <3>1. \A u \in Threads : ToCount(u, e)' =>
            ToCount(u, e) /\ (work'[u][1].stage = "count" => work[u][1].stage = "count")
      BY <1>9
    <3> QED BY <1>2, <1>9, <2>1, <2>2, <3>1, OneMoves
  <2>3. CASE accounted'[e] # accounted[e]
    <3>1. e = k /\ w.network /\ ToCount(t, e)
      BY <1>1, <1>11, <2>3 DEF ToCount
    <3>2. /\ \A u \in Threads, i \in Nat : ~InCall(u, i, e)
          /\ \A u \in Threads : ToCount(u, e) => u = t
          /\ accounted[e] = <<>>
      BY <1>1, <2>1, <3>1 DEF OneCounts
    <3>3. Len(accounted'[e]) <= 1
      BY <1>11, <2>3, <3>2
    <3>4. /\ \A u \in Threads, i \in Nat : ~InCall(u, i, e)'
          /\ \A u \in Threads : ToCount(u, e)' => u = t
          /\ \A u \in Threads : ~(ToCount(u, e)' /\ work'[u][1].stage = "count")
          /\ \A u \in Threads : ToCharge(u, e)' => ToCharge(u, e)
      BY <1>9, <3>2
    <3>5. /\ \A u, v \in Threads : ToCharge(u, e) /\ ToCharge(v, e) => u = v
          /\ \A u \in Threads : ToCharge(u, e) => charged[e] = <<>> /\ e \notin unread
          /\ e \in unread => charged[e] = <<>>
          /\ Len(charged[e]) <= 1
      BY <2>1 DEF OneCounts
    <3> QED BY <1>2, <2>1, <3>3, <3>4, <3>5 DEF OneCounts
  <2> QED BY <2>2, <2>3
<1>16. \A e \in Exchanges : AccountsOK(e)'
  <2>1. k \in Nat /\ ~(k > begun)
    BY <1>2, <1>3
  <2> QED BY <1>2, <1>11, <2>1 DEF HttpInv, AccountsOK, OfOpenTask
<1>17. RecordIsChargedOnce'
  BY <1>2 DEF HttpInv, RecordIsChargedOnce
<1>18. ASSUME NEW e \in Exchanges PROVE StillCounted(e)'
  <2>1. OfOpenTask(e)' = OfOpenTask(e)
    BY <1>2 DEF OfOpenTask
  <2>2. OfOpenTask(e) /\ WillBeCounted(e) => accounted'[e] # <<>> \/ WillBeCounted(e)'
    <3> SUFFICES ASSUME OfOpenTask(e), NEW u \in Threads, ToCount(u, e),
                        work[u][1].stage = "count", accounted'[e] = <<>>
                 PROVE  WillBeCounted(e)'
      BY DEF WillBeCounted
    <3>1. u # t
      <4>1. u = t => e = k /\ w.network
        BY <1>1 DEF ToCount
      <4> QED BY <1>11, <4>1
    <3> QED BY <1>9, <3>1 DEF WillBeCounted
  <2>3. ACallIsIn(e)' = ACallIsIn(e)
    BY <1>2 DEF ACallIsIn
  <2> QED BY <1>2, <1>11, <2>1, <2>2, <2>3, StillMoves DEF HttpInv
<1> QED BY <1>12, <1>13, <1>14, <1>15, <1>16, <1>17, <1>18 DEF HttpInv

LEMMA ChargeKeeps ==
  ASSUME HttpInv, NEW t \in Threads, NEW keep \in BOOLEAN, ChargeHeld(t, keep)
  PROVE  HttpInv'
<1>1. PICK w \in Job, k \in Exchanges :
        /\ work[t] # <<>> /\ w = work[t][1] /\ k = w.exchange /\ w.stage = "charge"
  <2>1. work[t] # <<>> /\ work[t][1].stage = "charge"
    BY DEF ChargeHeld
  <2>2. work[t][1] \in Job /\ work[t][1].exchange \in Exchanges
    BY <2>1, JobIs
  <2> QED BY <2>1, <2>2
<1>2. /\ HttpStateOK /\ begun \in Nat /\ facts \in [Exchanges -> Fact]
      /\ UNCHANGED <<callStack, mark, begun, facts, unread, returned, exposed, taskOpen,
                     current, accounted>>
      /\ work' = [work EXCEPT ![t] = <<>>]
  BY DEF HttpInv, HttpStateOK, ChargeHeld, calls
<1>3. /\ k \in 1 .. begun /\ k \in Nat /\ ~(k > begun)
      /\ ~facts[k].owned /\ ToCharge(t, k)
      /\ OfOpenTask(k) => w.account = "task"
  <2>1. k \in 1 .. begun /\ ~facts[k].owned /\ ~w.only /\ (OfOpenTask(k) => w.account = "task")
    BY <1>1 DEF HttpInv, WorkOK
  <2> QED BY <1>1, <1>2, <2>1 DEF ToCharge
<1>4. PICK id : id = EventId(k) /\ recordedIds' = recordedIds \union {id}
  BY <1>1 DEF ChargeHeld
<1>5. PICK a \in Accounts : a = w.account
  BY DEF Job
<1>6. /\ httpFaults' \in Nat /\ (httpFaults' = 0 => httpFaults = 0)
      /\ \/ charged' = charged
         \/ id \notin recordedIds /\ charged' = [charged EXCEPT ![k] = Append(charged[k], a)]
  <2>1. httpFaults \in Nat
    BY DEF HttpInv, HttpStateOK
  <2> QED BY <1>1, <1>2, <1>4, <1>5, <2>1 DEF ChargeHeld, Fault, HttpStateOK
<1>7. /\ charged[k] \in Seq(Accounts) /\ Append(charged[k], a) \in Seq(Accounts)
      /\ Append(charged[k], a) # <<>>
      /\ charged[k] = <<>> => Len(Append(charged[k], a)) = 1
      /\ \A i \in DOMAIN Append(charged[k], a) :
           \/ Append(charged[k], a)[i] = a
           \/ i \in DOMAIN charged[k] /\ Append(charged[k], a)[i] = charged[k][i]
  <2>1. charged[k] \in Seq(Accounts)
    BY <1>2 DEF HttpStateOK
  <2> QED BY <2>1, AppendIs
<1>8. /\ charged' \in [Exchanges -> Seq(Accounts)]
      /\ \A e \in Exchanges : e # k => charged'[e] = charged[e]
      /\ \/ charged'[k] = charged[k]
         \/ id \notin recordedIds /\ charged'[k] = Append(charged[k], a)
  BY <1>2, <1>6, <1>7 DEF HttpStateOK
<1>9. /\ work' \in [Threads -> Seq(Job)] /\ \A u \in Threads : Owned(u)' = Owned(u)
      /\ work'[t] = <<>> /\ \A u \in Threads : u # t => work'[u] = work[u]
      /\ \A e \in Exchanges : \A u \in Threads :
           /\ \A i \in Nat : InCall(u, i, e)' = InCall(u, i, e)
           /\ ToCount(u, e)' => ToCount(u, e) /\ u # t
           /\ ToCharge(u, e)' => ToCharge(u, e) /\ u # t
           /\ u # t => ToCount(u, e)' = ToCount(u, e)
  <2>1. work'[t] = <<>>
    BY <1>2 DEF HttpStateOK
  <2>2. \A e \in Exchanges : ~ToCount(t, e)' /\ ~ToCharge(t, e)'
    BY <2>1 DEF ToCount, ToCharge
  <2>3. <<>> \in Seq(Job) /\ callStack' = callStack
    BY <1>2
  <2> QED BY <1>2, <2>1, <2>2, <2>3, WorkMoves
<1>10. HttpStateOK'
  BY <1>2, <1>6, <1>8, <1>9 DEF HttpStateOK
<1>11. \A u \in Threads : StackOK(u)'
  BY <1>2, StackStays DEF HttpInv
<1>12. \A u \in Threads : WorkOK(u)'
  <2>1. ASSUME NEW u \in Threads \ {t} PROVE WorkOK(u)'
    BY <1>2, <1>9, WorkStays DEF HttpInv
  <2> QED BY <1>9, <2>1, NoWork
<1>13. ASSUME NEW e \in Exchanges, e \notin exposed' PROVE OneCounts(e)'
  <2>1. OneCounts(e)
    BY <1>2, <1>13 DEF HttpInv
  <2>2. CASE charged'[e] = charged[e]
    <3>1. \A u \in Threads : ToCount(u, e)' =>
            ToCount(u, e) /\ (work'[u][1].stage = "count" => work[u][1].stage = "count")
      BY <1>9
    <3> QED BY <1>2, <1>9, <2>1, <2>2, <3>1, OneMoves
  <2>3. CASE charged'[e] # charged[e]
    <3>1. e = k /\ charged'[e] = Append(charged[e], a)
      BY <1>8, <2>3
    <3>2. /\ \A u \in Threads, i \in Nat : ~InCall(u, i, e)
          /\ \A u \in Threads : ToCharge(u, e) => u = t
          /\ charged[e] = <<>> /\ e \notin unread
      BY <1>3, <2>1, <3>1 DEF OneCounts
    <3>3. Len(charged'[e]) <= 1
      BY <1>7, <3>1, <3>2
    <3>4. /\ \A u \in Threads, i \in Nat : ~InCall(u, i, e)'
          /\ \A u \in Threads : ~ToCharge(u, e)'
          /\ \A u \in Threads : ToCount(u, e)' =>
               ToCount(u, e) /\ (work'[u][1].stage = "count" => work[u][1].stage = "count")
      BY <1>9, <3>2
    <3>5. /\ \A u, v \in Threads : ToCount(u, e) /\ ToCount(v, e) => u = v
          /\ \A u \in Threads : ToCount(u, e) /\ work[u][1].stage = "count" =>
               accounted[e] = <<>>
          /\ Len(accounted[e]) <= 1
      BY <2>1 DEF OneCounts
    <3> QED BY <1>2, <3>2, <3>3, <3>4, <3>5 DEF OneCounts
  <2> QED BY <2>2, <2>3
<1>14. ASSUME NEW e \in Exchanges PROVE AccountsOK(e)'
  <2>1. AccountsOK(e) /\ OfOpenTask(e)' = OfOpenTask(e)
    BY <1>2 DEF HttpInv, OfOpenTask
  <2>2. CASE charged'[e] = charged[e]
    BY <1>2, <1>4, <2>1, <2>2 DEF AccountsOK
  <2>3. CASE charged'[e] # charged[e]
    <3>1. e = k /\ charged'[k] = Append(charged[k], a)
      BY <1>8, <2>3
    <3>2. OfOpenTask(k) => \A i \in DOMAIN charged'[k] : charged'[k][i] = "task"
      BY <1>3, <1>5, <1>7, <2>1, <3>1 DEF AccountsOK
    <3>3. facts[k].record # "none" =>
            [record |-> facts[k].record, exchange |-> 0, nth |-> 0] \in recordedIds'
      BY <1>4 DEF EventId
    <3>4. facts[k].record # "none" => Len(charged'[k]) <= 1
      <4> SUFFICES ASSUME facts[k].record # "none" PROVE Len(charged'[k]) <= 1
        OBVIOUS
      <4>1. id = [record |-> facts[k].record, exchange |-> 0, nth |-> 0] /\ id \notin recordedIds
        BY <1>4, <1>8, <2>3, <3>1 DEF EventId
      <4>2. charged[k] = <<>>
        BY <2>1, <3>1, <4>1 DEF AccountsOK
      <4> QED BY <1>7, <3>1, <4>2
    <3> QED BY <1>2, <1>3, <2>1, <3>1, <3>2, <3>3, <3>4 DEF AccountsOK
  <2> QED BY <2>2, <2>3
<1>15. RecordIsChargedOnce'
  <2>0. \A e \in Exchanges : facts'[e].record # "none" => Len(charged'[e]) <= 1
    BY <1>14 DEF AccountsOK
  <2> SUFFICES ASSUME NEW e \in Exchanges, NEW f \in Exchanges, e # f,
                      facts[e].record # "none", facts[f].record = facts[e].record,
                      charged'[e] # <<>>, charged'[f] # <<>>
               PROVE  FALSE
    BY <1>2, <2>0 DEF RecordIsChargedOnce
  <2>1. charged[e] = <<>> \/ charged[f] = <<>>
    BY DEF HttpInv, RecordIsChargedOnce
  <2>2. PICK g \in {e, f} : g # k /\ charged'[g] = charged[g] /\ facts[g].record = facts[k].record
    BY <1>8, <2>1
  <2>3. charged[g] # <<>> /\ facts[g].record # "none"
    BY <2>2
  <2>4. [record |-> facts[g].record, exchange |-> 0, nth |-> 0] \in recordedIds
    BY <2>3 DEF HttpInv, AccountsOK
  <2>5. id \in recordedIds
    BY <1>4, <2>2, <2>3, <2>4 DEF EventId
  <2> QED BY <1>8, <2>1, <2>5
<1>16. ASSUME NEW e \in Exchanges PROVE StillCounted(e)'
  <2>1. OfOpenTask(e)' = OfOpenTask(e) /\ ACallIsIn(e)' = ACallIsIn(e)
    BY <1>2 DEF OfOpenTask, ACallIsIn
  <2>2. WillBeCounted(e) => WillBeCounted(e)'
    <3> SUFFICES ASSUME NEW u \in Threads, ToCount(u, e), work[u][1].stage = "count"
                 PROVE  ToCount(u, e)' /\ work'[u][1].stage = "count"
      BY DEF WillBeCounted
    <3>1. u # t
      BY <1>1
    <3> QED BY <1>9, <3>1
  <2> QED BY <1>2, <1>6, <2>1, <2>2, StillMoves DEF HttpInv
<1> QED BY <1>10, <1>11, <1>12, <1>13, <1>14, <1>15, <1>16 DEF HttpInv

LEMMA FailKeeps ==
  ASSUME HttpInv, NEW t \in Threads, HandleFails(t)
  PROVE  HttpInv'
<1>1. /\ HttpStateOK /\ begun \in Nat /\ facts \in [Exchanges -> Fact]
      /\ UNCHANGED <<callStack, mark, begun, facts, unread, returned, exposed, taskOpen,
                     current, accounted, charged, recordedIds>>
      /\ work' = [work EXCEPT ![t] = <<>>]
      /\ httpFaults' \in Nat /\ httpFaults' # 0
  <2>1. HttpStateOK /\ httpFaults \in Nat /\ begun \in Nat
    BY DEF HttpInv, HttpStateOK
  <2> QED BY <2>1 DEF HandleFails, calls, accounts, Fault, HttpStateOK
<1>2. /\ work' \in [Threads -> Seq(Job)] /\ \A u \in Threads : Owned(u)' = Owned(u)
      /\ work'[t] = <<>> /\ \A u \in Threads : u # t => work'[u] = work[u]
      /\ \A e \in Exchanges : \A u \in Threads :
           /\ \A i \in Nat : InCall(u, i, e)' = InCall(u, i, e)
           /\ ToCount(u, e)' => ToCount(u, e) /\ u # t
           /\ ToCharge(u, e)' => ToCharge(u, e)
  <2>1. work'[t] = <<>>
    BY <1>1 DEF HttpStateOK
  <2>2. \A e \in Exchanges : ~ToCount(t, e)'
    BY <2>1 DEF ToCount
  <2>3. <<>> \in Seq(Job) /\ callStack' = callStack
    BY <1>1
  <2> QED BY <1>1, <2>1, <2>2, <2>3, WorkMoves
<1>3. HttpStateOK'
  BY <1>1, <1>2 DEF HttpStateOK
<1>4. \A u \in Threads : StackOK(u)'
  BY <1>1, StackStays DEF HttpInv
<1>5. \A u \in Threads : WorkOK(u)'
  <2>1. ASSUME NEW u \in Threads \ {t} PROVE WorkOK(u)'
    BY <1>1, <1>2, WorkStays DEF HttpInv
  <2> QED BY <1>2, <2>1, NoWork
<1>6. ASSUME NEW e \in Exchanges, e \notin exposed' PROVE OneCounts(e)'
  <2>1. OneCounts(e)
    BY <1>1, <1>6 DEF HttpInv
  <2>2. \A u \in Threads : ToCount(u, e)' =>
          ToCount(u, e) /\ (work'[u][1].stage = "count" => work[u][1].stage = "count")
    BY <1>2
  <2> QED BY <1>1, <1>2, <2>1, <2>2, OneMoves
<1>7. (\A e \in Exchanges : AccountsOK(e)') /\ RecordIsChargedOnce'
  BY <1>1, AccountsStay
<1>8. \A e \in Exchanges : StillCounted(e)'
  BY <1>1 DEF StillCounted
<1> QED BY <1>3, <1>4, <1>5, <1>6, <1>7, <1>8 DEF HttpInv

\* The answer of an aiohttp call is read, maybe after its task and in another thread.
LEMMA ReadKeeps ==
  ASSUME HttpInv, NEW t \in Threads, JsonIsRead(t)
  PROVE  HttpInv'
<1>1. PICK k \in unread : /\ work[t] = <<>> /\ unread' = unread \ {k}
                          /\ work' = [work EXCEPT ![t] =
                                        ToRecord(k, FALSE, FALSE, facts[k].context)]
  BY DEF JsonIsRead
<1>2. /\ HttpStateOK /\ begun \in Nat /\ facts \in [Exchanges -> Fact]
      /\ UNCHANGED <<callStack, mark, begun, facts, returned, exposed, taskOpen, current,
                     accounted, charged, recordedIds, httpFaults>>
  BY DEF HttpInv, HttpStateOK, JsonIsRead, accounts
<1>3. k \in 1 .. begun /\ k \in Exchanges /\ facts[k].context \in Contexts3
  <2>1. 1 .. begun \subseteq Exchanges /\ k \in 1 .. begun
    BY <1>2, HttpAssumption DEF Exchanges, HttpStateOK
  <2> QED BY <1>2, <2>1 DEF Fact
<1>4. PICK j \in Job : /\ work' = [work EXCEPT ![t] = <<j>>]
                       /\ j.exchange = k /\ j.stage = "count" /\ ~j.network /\ ~j.only
                       /\ j.context = facts[k].context
  <2> DEFINE j == [exchange |-> k, stage |-> "count", network |-> FALSE, only |-> FALSE,
                   context |-> facts[k].context, account |-> "none"]
  <2>1. j \in Job
    BY <1>3 DEF Job, Accounts, Contexts3
  <2>2. /\ j.exchange = k /\ j.stage = "count" /\ ~j.network /\ ~j.only
        /\ j.context = facts[k].context
    OBVIOUS
  <2>3. work' = [work EXCEPT ![t] = <<j>>]
    BY <1>1 DEF ToRecord
  <2> HIDE DEF j
  <2> QED BY <2>1, <2>2, <2>3
<1>5. /\ work' \in [Threads -> Seq(Job)] /\ work'[t] = <<j>>
      /\ \A u \in Threads : u # t => work'[u] = work[u]
  <2>1. <<j>> \in Seq(Job)
    OBVIOUS
  <2> QED BY <1>2, <1>4, <2>1 DEF HttpStateOK
<1>6. work'[t] # <<>> /\ Len(work'[t]) = 1 /\ work'[t][1] = j
  BY <1>5
<1>7. \A u \in Threads : Owned(u)' = Owned(u)
  BY <1>2 DEF Owned
<1>8. HttpStateOK'
  BY <1>1, <1>2, <1>5 DEF HttpStateOK
<1>9. \A u \in Threads : StackOK(u)'
  BY <1>2, StackStays DEF HttpInv
<1>10. \A u \in Threads : WorkOK(u)'
  <2>1. ASSUME NEW u \in Threads \ {t} PROVE WorkOK(u)'
    BY <1>2, <1>5, <1>7, WorkStays DEF HttpInv
  <2>2. WorkOK(t)'
    BY <1>2, <1>3, <1>4, <1>6 DEF WorkOK, OfOpenTask
  <2> QED BY <2>1, <2>2
<1>11. ASSUME NEW e \in Exchanges, NEW u \in Threads
       PROVE  /\ \A i \in Nat : InCall(u, i, e)' => InCall(u, i, e)
              /\ ToCount(u, e)' => ToCount(u, e) /\ u # t
              /\ ToCharge(u, e)' => ToCharge(u, e) \/ (u = t /\ e = k)
              /\ u # t => ToCount(u, e)' = ToCount(u, e) /\ work'[u] = work[u]
              /\ ~ToCount(t, e) /\ ~ToCharge(t, e)
  <2>1. \A i \in Nat : InCall(u, i, e)' => InCall(u, i, e)
    BY <1>2 DEF InCall
  <2>2. CASE u # t
    BY <1>1, <1>5, <2>1, <2>2 DEF ToCount, ToCharge
  <2>3. CASE u = t
    BY <1>1, <1>4, <1>6, <2>1, <2>3 DEF ToCount, ToCharge
  <2> QED BY <2>2, <2>3
<1>12. ASSUME NEW e \in Exchanges, e \notin exposed' PROVE OneCounts(e)'
  <2>1. OneCounts(e)
    BY <1>2, <1>12 DEF HttpInv
  <2>2. \A u \in Threads : ToCount(u, e)' =>
          ToCount(u, e) /\ (work'[u][1].stage = "count" => work[u][1].stage = "count")
    BY <1>11
  <2>3. CASE e # k
    BY <1>1, <1>2, <1>11, <2>1, <2>2, <2>3, OneMoves
  <2>4. CASE e = k
    <3>1. /\ \A u \in Threads, i \in Nat : ~InCall(u, i, e)
          /\ \A u \in Threads : ~ToCharge(u, e)
          /\ charged[e] = <<>> /\ Len(charged[e]) <= 1 /\ Len(accounted[e]) <= 1
          /\ \A u, v \in Threads : ToCount(u, e) /\ ToCount(v, e) => u = v
          /\ \A u \in Threads : ToCount(u, e) /\ work[u][1].stage = "count" =>
               accounted[e] = <<>>
      BY <2>1, <2>4 DEF OneCounts
    <3>2. /\ \A u \in Threads, i \in Nat : ~InCall(u, i, e)'
          /\ \A u \in Threads : ToCharge(u, e)' => u = t
          /\ e \notin unread'
      BY <1>1, <1>11, <2>4, <3>1
    <3> QED BY <1>2, <2>2, <3>1, <3>2 DEF OneCounts
  <2> QED BY <2>3, <2>4
<1>13. (\A e \in Exchanges : AccountsOK(e)') /\ RecordIsChargedOnce'
  BY <1>2, AccountsStay
<1>14. ASSUME NEW e \in Exchanges PROVE StillCounted(e)'
  <2>1. OfOpenTask(e)' = OfOpenTask(e) /\ ACallIsIn(e)' = ACallIsIn(e)
    BY <1>2 DEF OfOpenTask, ACallIsIn
  <2>2. WillBeCounted(e) => WillBeCounted(e)'
    <3> SUFFICES ASSUME NEW u \in Threads, ToCount(u, e), work[u][1].stage = "count"
                 PROVE  ToCount(u, e)' /\ work'[u][1].stage = "count"
      BY DEF WillBeCounted
    <3>1. u # t
      BY <1>11
    <3> QED BY <1>11, <3>1
  <2> QED BY <1>2, <2>1, <2>2, StillMoves DEF HttpInv
<1> QED BY <1>8, <1>9, <1>10, <1>12, <1>13, <1>14 DEF HttpInv

\* The call of a provider's instrument: it begins on an empty stack and ends there.
LEMMA ProviderKeeps ==
  ASSUME HttpInv, NEW t \in Threads, work[t] = <<>>, callStack' \in [Threads -> Seq(Frame)],
         \A u \in Threads \ {t} : callStack'[u] = callStack[u],
         \A i \in DOMAIN callStack[t] : callStack[t][i].layer = "provider",
         \A i \in DOMAIN callStack'[t] : /\ i = 1 /\ callStack'[t][i].layer = "provider"
                                         /\ callStack'[t][i].exchange = 0
                                         /\ ~callStack'[t][i].skip,
         UNCHANGED <<mark, current, begun, facts, work, unread, returned, exposed, accounts,
                     httpFaults>>
  PROVE  HttpInv'
<1>1. /\ HttpStateOK /\ begun \in Nat /\ facts \in [Exchanges -> Fact]
      /\ UNCHANGED <<taskOpen, accounted, charged, recordedIds, lost>>
      /\ 0 \notin Exchanges /\ 0 \notin 1 .. begun
  <2>1. HttpStateOK /\ begun \in Nat /\ facts \in [Exchanges -> Fact]
    BY DEF HttpInv, HttpStateOK
  <2>2. UNCHANGED <<taskOpen, accounted, charged, recordedIds, lost>>
    BY DEF accounts
  <2> QED BY <2>1, <2>2, HttpAssumption DEF Exchanges
<1>2. HttpStateOK'
  BY <1>1 DEF HttpStateOK
<1>3. /\ \A u \in Threads \ {t} : StackOK(u)' /\ Owned(u)' = Owned(u)
      /\ StackOK(t)'
  <2>1. \A u \in Threads \ {t} : StackOK(u)' /\ Owned(u)' = Owned(u)
    BY <1>1, StackStays DEF HttpInv
  <2>2. ~mark[t]
    BY DEF HttpInv, StackOK, InClient
  <2>3. \A i \in DOMAIN callStack'[t] : FrameOK(t, i)'
    BY DEF FrameOK
  <2> QED BY <2>1, <2>2, <2>3 DEF StackOK
<1>4. \A u \in Threads : WorkOK(u)'
  <2>1. \A u \in Threads \ {t} : WorkOK(u)'
    BY <1>1, <1>3, WorkStays DEF HttpInv
  <2> QED BY <2>1, NoWork
<1>5. ASSUME NEW e \in Exchanges, NEW u \in Threads
      PROVE  /\ \A i \in Nat : InCall(u, i, e)' => InCall(u, i, e)
             /\ ToCount(u, e)' = ToCount(u, e) /\ ToCharge(u, e)' = ToCharge(u, e)
  <2>1. ToCount(u, e)' = ToCount(u, e) /\ ToCharge(u, e)' = ToCharge(u, e)
    BY DEF ToCount, ToCharge
  <2>2. u = t => \A i \in Nat : ~InCall(u, i, e)'
    <3> SUFFICES ASSUME u = t, NEW i \in Nat, InCall(u, i, e)' PROVE FALSE
      OBVIOUS
    <3>1. i \in DOMAIN callStack'[t] /\ callStack'[t][i].exchange = e
      BY DEF InCall
    <3> QED BY <1>1, <3>1
  <2>3. u # t => \A i \in Nat : InCall(u, i, e)' => InCall(u, i, e)
    BY DEF InCall
  <2> QED BY <2>1, <2>2, <2>3
<1>6. \A e \in Exchanges : e \notin exposed' => OneCounts(e)'
  BY <1>1, <1>5, OneMoves DEF HttpInv
<1>7. (\A e \in Exchanges : AccountsOK(e)') /\ RecordIsChargedOnce'
  BY <1>1, AccountsStay
<1>8. ASSUME NEW e \in Exchanges PROVE StillCounted(e)'
  <2>1. OfOpenTask(e)' = OfOpenTask(e) /\ WillBeCounted(e)' = WillBeCounted(e)
    BY <1>1 DEF OfOpenTask, WillBeCounted, ToCount
  <2>2. ACallIsIn(e) => ACallIsIn(e)'
    <3> SUFFICES ASSUME NEW u \in Threads, NEW i \in DOMAIN callStack[u],
                        callStack[u][i].exchange = e /\ ~callStack[u][i].skip
                 PROVE  callStack'[u] = callStack[u]
      BY DEF ACallIsIn
    <3>1. u # t
      <4>1. u = t => FrameOK(t, i) /\ callStack[t][i].layer = "provider"
        BY DEF HttpInv, StackOK
      <4> QED BY <1>1, <4>1 DEF FrameOK
    <3> QED BY <3>1
  <2> QED BY <1>1, <2>1, <2>2, StillMoves DEF HttpInv
<1> QED BY <1>2, <1>3, <1>4, <1>6, <1>7, <1>8 DEF HttpInv

\* Above the call of a provider, or above nothing, no client is in and none marked it.
LEMMA NoClientIsIn ==
  ASSUME HttpInv, NEW t \in Threads, Top(t).layer \in {"none", "provider"}
  PROVE  /\ ~mark[t] /\ \A i \in DOMAIN callStack[t] : callStack[t][i].layer = "provider"
         /\ callStack[t] = <<>> \/ Len(callStack[t]) = 1
<1>1. callStack[t] \in Seq(Frame) /\ (mark[t] => InClient(t))
  BY DEF HttpInv, HttpStateOK, StackOK
<1>2. CASE callStack[t] = <<>>
  BY <1>1, <1>2 DEF InClient
<1>3. CASE callStack[t] # <<>>
  <2> DEFINE n == Len(callStack[t])
  <2>1. n \in DOMAIN callStack[t] /\ Top(t) = callStack[t][n] /\ Top(t) \in Frame
    BY <1>1, <1>3 DEF Top
  <2>2. callStack[t][n].layer = "provider"
    BY <2>1 DEF Frame
  <2>3. FrameOK(t, n)
    BY <2>1 DEF HttpInv, StackOK
  <2>4. n = 1
    BY <2>2, <2>3 DEF FrameOK
  <2>5. DOMAIN callStack[t] = 1 .. 1
    BY <1>1, <2>4
  <2> QED BY <1>1, <2>2, <2>4, <2>5 DEF InClient
<1> QED BY <1>2, <1>3

\* What the wrapper of a call that answered has to record.
LEMMA AnswerIsAJob ==
  ASSUME HttpInv, NEW t \in Threads, NEW k, k = Top(t).exchange,
         Top(t).layer \in {"client", "pool", "aio"}, NEW only \in BOOLEAN, NEW context,
         context = IF only THEN facts[k].context ELSE current[t]
  PROVE  \E j \in Job : /\ ToRecord(k, TRUE, only, context) = <<j>> /\ NewJob(t, k, j)
                        /\ j.only = only
<1>1. callStack[t] \in Seq(Frame) /\ callStack[t] # <<>>
  BY DEF HttpInv, HttpStateOK, Top
<1> DEFINE n == Len(callStack[t])
<1>2. n \in DOMAIN callStack[t] /\ Top(t) = callStack[t][n]
  BY <1>1 DEF Top
<1>3. FrameOK(t, n)
  BY <1>2 DEF HttpInv, StackOK
<1>4. k \in 1 .. begun /\ (OfOpenTask(k) => current[t] = "task")
  BY <1>2, <1>3 DEF FrameOK
<1>5. k \in Exchanges
  BY <1>4, HttpAssumption DEF Exchanges, HttpInv, HttpStateOK
<1>6. context \in Contexts3 /\ (OfOpenTask(k) => context = "task")
  <2>1. facts[k] \in Fact /\ current[t] \in Contexts3
    BY <1>5 DEF HttpInv, HttpStateOK
  <2>2. facts[k].context \in Contexts3
    BY <2>1 DEF Fact
  <2> QED BY <1>4, <2>1, <2>2 DEF OfOpenTask
<1> DEFINE j == [exchange |-> k, stage |-> "count", network |-> TRUE, only |-> only,
                 context |-> context, account |-> "none"]
<1>7. j \in Job
  BY <1>5, <1>6 DEF Job, Accounts, Contexts3
<1>8. /\ j.exchange = k /\ j.stage = "count" /\ j.network /\ j.only = only
      /\ j.context = context
  OBVIOUS
<1>9. ToRecord(k, TRUE, only, context) = <<j>>
  BY DEF ToRecord
<1> HIDE DEF j
<1>10. NewJob(t, k, j)
  BY <1>6, <1>7, <1>8 DEF NewJob
<1> QED BY <1>7, <1>8, <1>9, <1>10

LEMMA TopMayRecord ==
  ASSUME HttpInv, NEW t \in Threads, Top(t).layer \in {"client", "aio"}
  PROVE  ~Top(t).skip
<1>1. callStack[t] \in Seq(Frame) /\ callStack[t] # <<>>
  BY DEF HttpInv, HttpStateOK, Top
<1> DEFINE n == Len(callStack[t])
<1>2. n \in DOMAIN callStack[t] /\ Top(t) = callStack[t][n]
  BY <1>1 DEF Top
<1>3. FrameOK(t, n)
  BY <1>2 DEF HttpInv, StackOK
<1> QED BY <1>2, <1>3 DEF FrameOK
-----------------------------------------------------------------------------
LEMMA HttpStarts == HttpInit => HttpInv
<1> SUFFICES ASSUME HttpInit PROVE HttpInv
  OBVIOUS
<1>1. \A t \in Threads : /\ callStack[t] = <<>> /\ mark[t] = FALSE /\ work[t] = <<>>
                         /\ DOMAIN callStack[t] = {}
  <2>1. \A t \in Threads : callStack[t] = <<>> /\ mark[t] = FALSE /\ work[t] = <<>>
    BY DEF HttpInit
  <2>2. DOMAIN <<>> = {}
    OBVIOUS
  <2> QED BY <2>1, <2>2
<1>2. \A e \in Exchanges : /\ accounted[e] = <<>> /\ charged[e] = <<>>
                           /\ facts[e].record = "none" /\ ~facts[e].owned /\ facts[e] \in Fact
  <2> DEFINE f == [kind |-> "plain", record |-> "none", context |-> "none", owned |-> FALSE]
  <2>1. f \in Fact /\ f.record = "none" /\ ~f.owned
    BY DEF Fact, Kinds, Contexts3
  <2>2. \A e \in Exchanges : facts[e] = f
    BY DEF HttpInit
  <2> QED BY <2>1, <2>2 DEF HttpInit
<1>3. HttpStateOK
  <2>1. /\ callStack \in [Threads -> Seq(Frame)] /\ work \in [Threads -> Seq(Job)]
        /\ accounted \in [Exchanges -> Seq(Accounts)] /\ charged \in [Exchanges -> Seq(Accounts)]
        /\ mark \in [Threads -> BOOLEAN]
    BY DEF HttpInit
  <2>2. facts \in [Exchanges -> Fact]
    BY <1>2 DEF HttpInit
  <2>3. current \in [Threads -> Contexts3]
    BY DEF HttpInit, Contexts3
  <2>4. /\ taskOpen \in BOOLEAN /\ begun \in 0 .. MaxExchanges /\ httpFaults \in Nat
        /\ unread = {} /\ returned = {} /\ exposed = {}
    BY HttpAssumption DEF HttpInit
  <2> QED BY <2>1, <2>2, <2>3, <2>4 DEF HttpStateOK
<1>4. \A t \in Threads : StackOK(t) /\ WorkOK(t)
  BY <1>1 DEF StackOK, WorkOK
<1>5. \A e \in Exchanges : OneCounts(e)
  <2>1. \A t \in Threads, e \in Exchanges : ~ToCount(t, e) /\ ~ToCharge(t, e)
    BY <1>1 DEF ToCount, ToCharge
  <2>2. \A t \in Threads, i \in Nat, e \in Exchanges : ~InCall(t, i, e)
    BY <1>1 DEF InCall
  <2>3. \A e \in Exchanges : accounted[e] = <<>> /\ charged[e] = <<>> /\ e \notin unread
    BY <1>2 DEF HttpInit
  <2> QED BY <2>1, <2>2, <2>3 DEF OneCounts
<1>6. \A e \in Exchanges : AccountsOK(e) /\ StillCounted(e)
  BY <1>2 DEF AccountsOK, StillCounted, HttpInit
<1>7. RecordIsChargedOnce
  BY <1>2 DEF RecordIsChargedOnce
<1> QED BY <1>3, <1>4, <1>5, <1>6, <1>7 DEF HttpInv

LEMMA HttpHolds == HttpInv /\ [HttpNext]_httpVars => HttpInv'
<1> SUFFICES ASSUME HttpInv, [HttpNext]_httpVars PROVE HttpInv'
  OBVIOUS
<1>s. /\ HttpStateOK /\ mark \in [Threads -> BOOLEAN] /\ httpFaults \in Nat
      /\ work \in [Threads -> Seq(Job)] /\ begun \in Nat /\ facts \in [Exchanges -> Fact]
  BY DEF HttpInv, HttpStateOK
<1>1. CASE TaskEnds
  <2>1. /\ UNCHANGED <<callStack, mark, begun, facts, unread, returned, exposed, current, work,
                       accounted, charged, recordedIds, httpFaults>>
        /\ taskOpen' = FALSE
    BY <1>1 DEF TaskEnds, calls
  <2>2. HttpStateOK'
    BY <1>s, <2>1 DEF HttpStateOK
  <2>3. \A u \in Threads : StackOK(u)' /\ Owned(u)' = Owned(u)
    BY <1>s, <2>1, StackStays DEF HttpInv
  <2>4. \A u \in Threads : WorkOK(u)'
    BY <1>s, <2>1, <2>3, WorkStays DEF HttpInv
  <2>5. \A e \in Exchanges : e \notin exposed' => OneCounts(e)'
    BY <2>1 DEF HttpInv, OneCounts, InCall, ToCount, ToCharge
  <2>6. (\A e \in Exchanges : AccountsOK(e)') /\ RecordIsChargedOnce'
    BY <1>s, <2>1, AccountsStay
  <2>7. \A e \in Exchanges : StillCounted(e)'
    BY <2>1 DEF StillCounted, OfOpenTask
  <2> QED BY <2>2, <2>3, <2>4, <2>5, <2>6, <2>7 DEF HttpInv
<1>2. ASSUME NEW t \in Threads, ProviderBegins(t) PROVE HttpInv'
  <2>1. /\ callStack[t] = <<>> /\ work[t] = <<>> /\ Push(t, "provider", 0, FALSE)
    BY <1>2 DEF ProviderBegins, Free
  <2>2. PICK n \in Nat : n = Len(callStack[t]) + 1
    BY <2>1
  <2>d. DOMAIN callStack[t] = {}
    BY <2>1
  <2>3. /\ callStack' \in [Threads -> Seq(Frame)]
        /\ \A u \in Threads \ {t} : callStack'[u] = callStack[u]
        /\ DOMAIN callStack'[t] = 1 .. n
        /\ callStack'[t][n] = [layer |-> "provider", exchange |-> 0, skip |-> FALSE]
    BY <1>s, <2>1, <2>2, PushIs
  <2>4. n = 1
    BY <2>1, <2>2
  <2>5. \A i \in DOMAIN callStack'[t] : /\ i = 1 /\ callStack'[t][i].layer = "provider"
                                        /\ callStack'[t][i].exchange = 0
                                        /\ ~callStack'[t][i].skip
    BY <2>3, <2>4
  <2> QED BY <1>2, <2>1, <2>d, <2>3, <2>5, ProviderKeeps DEF ProviderBegins
<1>3. ASSUME NEW t \in Threads, ProviderEnds(t) PROVE HttpInv'
  <2>1. Top(t).layer = "provider" /\ work[t] = <<>> /\ Pop(t) /\ callStack[t] # <<>>
    BY <1>3 DEF ProviderEnds, Top
  <2>2. /\ \A i \in DOMAIN callStack[t] : callStack[t][i].layer = "provider"
        /\ Len(callStack[t]) = 1
    BY <2>1, NoClientIsIn
  <2>3. /\ callStack' \in [Threads -> Seq(Frame)]
        /\ \A u \in Threads \ {t} : callStack'[u] = callStack[u]
        /\ DOMAIN callStack'[t] = {}
    <3>1. PICK n \in Nat : n = Len(callStack[t]) /\ n = 1
      BY <2>2
    <3>2. /\ callStack' \in [Threads -> Seq(Frame)]
          /\ \A u \in Threads \ {t} : callStack'[u] = callStack[u]
          /\ DOMAIN callStack'[t] = 1 .. n - 1
      BY <1>s, <2>1, <3>1, PopIs
    <3> QED BY <3>1, <3>2
  <2> QED BY <1>3, <2>1, <2>2, <2>3, ProviderKeeps DEF ProviderEnds
<1>4. ASSUME NEW t \in Threads, ClientBegins(t) PROVE HttpInv'
  <2>1. /\ work[t] = <<>> /\ Begin(t) /\ Push(t, "client", begun + 1, FALSE)
        /\ mark' \in [Threads -> BOOLEAN] /\ \A u \in Threads \ {t} : mark'[u] = mark[u]
    BY <1>s, <1>4 DEF ClientBegins, Free
  <2> QED BY <1>4, <2>1, BeginsKeeps DEF ClientBegins
<1>5. ASSUME NEW t \in Threads, AioBegins(t) PROVE HttpInv'
  <2>1. work[t] = <<>> /\ Begin(t) /\ Push(t, "aio", begun + 1, FALSE) /\ mark' = mark
    BY <1>5 DEF AioBegins, Free
  <2> QED BY <1>s, <1>5, <2>1, BeginsKeeps DEF AioBegins
<1>6. ASSUME NEW t \in Threads, PoolBegins(t) PROVE HttpInv'
  <2>1. work[t] = <<>> /\ mark' = mark
    BY <1>6 DEF PoolBegins, Free
  <2>2. CASE Top(t).layer \in {"client", "pool"}
    BY <1>6, <2>1, <2>2, PoolInsideKeeps DEF PoolBegins, PoolSkips
  <2>3. CASE Top(t).layer \notin {"client", "pool"}
    <3>1. ~mark[t]
      BY <1>6, <2>3, NoClientIsIn DEF PoolBegins
    <3>2. Begin(t) /\ Push(t, "pool", begun + 1, mark[t])
      BY <1>6, <2>3 DEF PoolBegins, PoolSkips
    <3>3. mark[t] = FALSE
      BY <1>s, <3>1
    <3>4. Push(t, "pool", begun + 1, FALSE)
      BY <3>2, <3>3
    <3>5. UNCHANGED <<current, work, unread, returned, exposed, accounts, httpFaults>>
      BY <1>6, <2>3 DEF PoolBegins
    <3> QED BY <1>s, <2>1, <3>2, <3>4, <3>5, BeginsKeeps
  <2> QED BY <2>2, <2>3
<1>7. ASSUME NEW t \in Threads, PoolEnds(t) PROVE HttpInv'
  <2> DEFINE k == Top(t).exchange
             jobs == IF Top(t).skip THEN <<>> ELSE ToRecord(k, TRUE, FALSE, current[t])
  <2>1. /\ Top(t).layer = "pool" /\ work[t] = <<>> /\ Pop(t) /\ mark' = mark
        /\ work' = [work EXCEPT ![t] = jobs]
        /\ unread' = unread /\ returned' = returned \union {k} /\ httpFaults' = httpFaults
        /\ UNCHANGED <<current, begun, facts, exposed, accounts>>
    BY <1>7 DEF PoolEnds
  <2>2. \E j \in Job : ToRecord(k, TRUE, FALSE, current[t]) = <<j>> /\ NewJob(t, k, j)
    BY <2>1, AnswerIsAJob
  <2>3. jobs = <<>> \/ \E j \in Job : jobs = <<j>> /\ NewJob(t, k, j) /\ ~Top(t).skip
    BY <2>2
  <2>4. jobs # <<>> \/ Top(t).skip
    <3>1. ToRecord(k, TRUE, FALSE, current[t]) # <<>>
      BY DEF ToRecord
    <3> QED BY <3>1
  <2> HIDE DEF jobs, k
  <2>5. k = Top(t).exchange
    BY DEF k
  <2> QED BY <1>s, <2>1, <2>3, <2>4, <2>5, PopKeeps
<1>8. ASSUME NEW t \in Threads, ClientEnds(t) PROVE HttpInv'
  <2> DEFINE k == Top(t).exchange
             jobs == ToRecord(k, TRUE, FALSE, current[t])
  <2>1. /\ Top(t).layer = "client" /\ work[t] = <<>> /\ Pop(t)
        /\ mark' = [mark EXCEPT ![t] = FALSE] /\ work' = [work EXCEPT ![t] = jobs]
        /\ unread' = unread /\ returned' = returned /\ httpFaults' = httpFaults
        /\ UNCHANGED <<current, begun, facts, exposed, accounts>>
    BY <1>8 DEF ClientEnds
  <2>2. \E j \in Job : jobs = <<j>> /\ NewJob(t, k, j)
    BY <2>1, AnswerIsAJob
  <2>3. ~Top(t).skip /\ jobs # <<>>
    <3>1. jobs # <<>>
      BY DEF ToRecord
    <3> QED BY <2>1, <3>1, TopMayRecord
  <2>4. /\ mark' \in [Threads -> BOOLEAN] /\ ~mark'[t]
        /\ \A u \in Threads \ {t} : mark'[u] = mark[u]
    BY <1>s, <2>1
  <2> HIDE DEF jobs, k
  <2>5. k = Top(t).exchange
    BY DEF k
  <2> QED BY <1>s, <2>1, <2>2, <2>3, <2>4, <2>5, PopKeeps
<1>9. ASSUME NEW t \in Threads, CallRaises(t) PROVE HttpInv'
  <2> DEFINE k == Top(t).exchange
  <2>1. /\ Top(t).layer \in {"client", "pool", "aio"} /\ work[t] = <<>> /\ Pop(t)
        /\ mark' = [mark EXCEPT ![t] = @ /\ Top(t).layer # "client"]
        /\ httpFaults' = httpFaults + 1 /\ returned' = returned \ {k} /\ unread' = unread
        /\ UNCHANGED <<current, begun, facts, work, exposed, accounts>>
    BY <1>9 DEF CallRaises, Fault
  <2>2. work' = [work EXCEPT ![t] = <<>>]
    BY <1>s, <2>1
  <2>3. /\ mark' \in [Threads -> BOOLEAN] /\ (mark'[t] => mark[t] /\ Top(t).layer # "client")
        /\ \A u \in Threads \ {t} : mark'[u] = mark[u]
    BY <1>s, <2>1
  <2>4. httpFaults' \in Nat /\ httpFaults' # 0
    BY <1>s, <2>1
  <2> HIDE DEF k
  <2>5. k = Top(t).exchange
    BY DEF k
  <2> QED BY <2>1, <2>2, <2>3, <2>4, <2>5, PopKeeps
<1>10. ASSUME NEW t \in Threads, AioAnswers(t) PROVE HttpInv'
  <2> DEFINE k == Top(t).exchange
  <2>1. /\ Top(t).layer = "aio" /\ work[t] = <<>> /\ Pop(t) /\ mark' = mark
        /\ returned' = returned \union {k} /\ httpFaults' = httpFaults
        /\ UNCHANGED <<current, begun, facts, exposed, accounts>>
    BY <1>10 DEF AioAnswers
  <2>2. PICK deferred \in BOOLEAN :
          /\ unread' = IF deferred THEN unread \union {k} ELSE unread
          /\ work' = [work EXCEPT ![t] = AtAnswer(k, deferred, current[t])]
    <3>1. PICK bounded \in BOOLEAN :
            LET deferred == bounded /\ facts[k].kind = "observed"
            IN  /\ unread' = IF deferred THEN unread \union {k} ELSE unread
                /\ work' = [work EXCEPT ![t] = AtAnswer(k, deferred, current[t])]
      BY <1>10 DEF AioAnswers
    <3> QED BY <3>1
  <2> DEFINE jobs == AtAnswer(k, deferred, current[t])
  <2>3. \E j \in Job : jobs = <<j>> /\ NewJob(t, k, j) /\ j.only = deferred
    <3>1. Top(t).layer \in {"client", "pool", "aio"}
      BY <2>1
    <3>2. CASE deferred = TRUE
      <4>1. AtAnswer(k, deferred, current[t]) = ToRecord(k, TRUE, TRUE, facts[k].context)
        BY <3>2 DEF AtAnswer
      <4>2. \E j \in Job : /\ ToRecord(k, TRUE, TRUE, facts[k].context) = <<j>>
                          /\ NewJob(t, k, j) /\ j.only = TRUE
        BY <3>1, AnswerIsAJob
      <4> QED BY <3>2, <4>1, <4>2
    <3>3. CASE deferred = FALSE
      <4>1. AtAnswer(k, deferred, current[t]) = ToRecord(k, TRUE, FALSE, current[t])
        BY <3>3 DEF AtAnswer
      <4>2. \E j \in Job : /\ ToRecord(k, TRUE, FALSE, current[t]) = <<j>>
                          /\ NewJob(t, k, j) /\ j.only = FALSE
        BY <3>1, AnswerIsAJob
      <4> QED BY <3>3, <4>1, <4>2
    <3> QED BY <2>2, <3>2, <3>3
  <2>4. ~Top(t).skip /\ jobs # <<>> /\ (deferred => jobs[1].only)
    BY <2>1, <2>3, TopMayRecord
  <2>5. work' = [work EXCEPT ![t] = jobs]
    BY <2>2
  <2> HIDE DEF jobs, k
  <2>6. k = Top(t).exchange
    BY DEF k
  <2>7. unread' \subseteq unread \union {k} /\ (k \in unread' /\ k \notin unread => deferred)
    BY <2>2
  <2> QED BY <1>s, <2>1, <2>3, <2>4, <2>5, <2>6, <2>7, PopKeeps
<1>11. CASE UNCHANGED httpVars
  <2>1. /\ UNCHANGED <<callStack, mark, begun, facts, unread, returned, exposed, current, work,
                       accounted, charged, recordedIds, httpFaults, taskOpen>>
    BY <1>11 DEF httpVars
  <2>2. HttpStateOK'
    BY <1>s, <2>1 DEF HttpStateOK
  <2>3. \A u \in Threads : StackOK(u)' /\ Owned(u)' = Owned(u)
    BY <1>s, <2>1, StackStays DEF HttpInv
  <2>4. \A u \in Threads : WorkOK(u)'
    BY <1>s, <2>1, <2>3, WorkStays DEF HttpInv
  <2>5. \A e \in Exchanges : e \notin exposed' => OneCounts(e)'
    BY <2>1 DEF HttpInv, OneCounts, InCall, ToCount, ToCharge
  <2>6. (\A e \in Exchanges : AccountsOK(e)') /\ RecordIsChargedOnce'
    BY <1>s, <2>1, AccountsStay
  <2>7. \A e \in Exchanges : StillCounted(e)'
    BY <2>1 DEF HttpInv, StillCounted, OfOpenTask, WillBeCounted, ToCount, ACallIsIn
  <2> QED BY <2>2, <2>3, <2>4, <2>5, <2>6, <2>7 DEF HttpInv
<1> QED BY <1>1, <1>2, <1>3, <1>4, <1>5, <1>6, <1>7, <1>8, <1>9, <1>10, <1>11, ReadKeeps,
           HandleCountsKeeps, ChargeKeeps, FailKeeps DEF HttpNext, HandleCharges, StorageRefuses

LEMMA HttpInvIsEnough == HttpInv => ExchangesAreChargedOnce
<1> SUFFICES ASSUME HttpInv PROVE ExchangesAreChargedOnce
  OBVIOUS
<1>1. \A e \in Exchanges : charged[e] \in Seq(Accounts)
  BY DEF HttpInv, HttpStateOK
<1>2. ExchangeCountsOnce
  BY DEF HttpInv, ExchangeCountsOnce, OneCounts
<1>3. ProviderIsPaidOnce
  BY DEF HttpInv, ProviderIsPaidOnce, AccountsOK
<1>4. ChargedWhereItBegan
  <2>1. \A e \in Exchanges : DOMAIN charged[e] = 1 .. Len(charged[e])
    BY <1>1
  <2> QED BY <2>1 DEF HttpInv, ChargedWhereItBegan, AccountsOK, OfOpenTask
<1>5. NoExchangeIsMissed
  <2> SUFFICES ASSUME httpFaults = 0, taskOpen, NEW e \in returned, facts[e].context = "task",
                      \A t \in Threads : work[t] = <<>> /\ callStack[t] = <<>>
               PROVE  Len(accounted[e]) >= 1
    BY DEF NoExchangeIsMissed
  <2>1. e \in Exchanges
    BY HttpAssumption DEF HttpInv, HttpStateOK, Exchanges
  <2>2. accounted[e] # <<>>
    <3>1. StillCounted(e)
      BY <2>1 DEF HttpInv
    <3> QED BY <3>1 DEF StillCounted, OfOpenTask, WillBeCounted, ToCount, ACallIsIn
  <2>3. accounted[e] \in Seq(Accounts)
    BY <2>1 DEF HttpInv, HttpStateOK
  <2> QED BY <2>2, <2>3
<1> QED BY <1>2, <1>3, <1>4, <1>5 DEF HttpInv, ExchangesAreChargedOnce

\* Every variable of the adapter holds a value of its kind (adapters/http.py).
THEOREM HttpTypeCorrect == HttpSpec => []HttpTypeOK
<1>1. HttpInv => HttpTypeOK
  BY DEF HttpInv, HttpStateOK, HttpTypeOK, Contexts3
<1>2. HttpSpec => []HttpInv
  BY HttpStarts, HttpHolds, PTL DEF HttpSpec
<1> QED BY <1>1, <1>2, PTL

\* Whichever wrappers, instruments, threads and readers it passes, an exchange is counted
\* and charged once, to the task that asked for it, and an answered one is not missed.
THEOREM ExchangesStayChargedOnce == HttpSpec => []ExchangesAreChargedOnce
<1>1. HttpSpec => []HttpInv
  BY HttpStarts, HttpHolds, PTL DEF HttpSpec
<1> QED BY <1>1, HttpInvIsEnough, PTL
=============================================================================
