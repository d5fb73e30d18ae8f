----------------------------- MODULE UsagePricing -----------------------------
(***************************************************************************)
(* From the token counts of a provider's answer to a charge: the functions *)
(* of the instruments that split a reported usage into billing buckets     *)
(* (openai_usage.py, openai.py, gemini.py, anthropic.py, bedrock.py,       *)
(* litellm.py, perplexity.py), the meters that follow a stream, and the    *)
(* two functions of pricing.py that price the buckets.                     *)
(*                                                                         *)
(* A field a provider leaves out is Absent.  Counts go up to MaxTokens,    *)
(* which is enough for every comparison of the code to go both ways.       *)
(***************************************************************************)
EXTENDS Integers, FiniteSets, Functions

CONSTANT MaxTokens

Absent == -1
Counts == 0..MaxTokens
Optional == Counts \union {Absent}
OrZero(x) == IF x = Absent THEN 0 ELSE x
Clamp(x) == IF x < 0 THEN 0 ELSE x
Smaller(x, y) == IF x < y THEN x ELSE y
Total(buckets, metrics) == SumFunctionOnSet(buckets, metrics)
-----------------------------------------------------------------------------
(* Chat Completions and Responses usage: caches inside the input, the      *)
(* reasoning inside the output; a report that contradicts itself is        *)
(* refused and nothing of it is priced.                                    *)
OpenAIReports == [input : Optional, output : Optional, cached : Optional,
                  write : Optional, reasoning : Optional]

OpenAIRefuses(r) ==
  \/ r.input = Absent
  \/ r.output = Absent
  \/ OrZero(r.cached) + OrZero(r.write) > r.input
  \/ OrZero(r.reasoning) > r.output

NormalizeOpenAI(r) ==
  [input_tokens |-> r.input - OrZero(r.cached) - OrZero(r.write),
   cache_read_input_tokens |-> OrZero(r.cached),
   cache_write_input_tokens |-> OrZero(r.write),
   output_tokens |-> r.output - OrZero(r.reasoning),
   reasoning_output_tokens |-> OrZero(r.reasoning)]

InputMetrics == {"input_tokens", "cache_read_input_tokens", "cache_write_input_tokens"}
OutputMetrics == {"output_tokens", "reasoning_output_tokens"}

(* Perplexity keeps the input and drops caches that do not fit into it.    *)
PerplexityBuckets(r) ==
  LET fits == r.input # Absent /\ OrZero(r.cached) + OrZero(r.write) <= r.input
  IN [input_tokens |-> IF fits THEN r.input - OrZero(r.cached) - OrZero(r.write)
                       ELSE OrZero(r.input),
      cache_read_input_tokens |-> IF fits THEN OrZero(r.cached) ELSE 0,
      cache_write_input_tokens |-> IF fits THEN OrZero(r.write) ELSE 0]

(* A batch: the reasoning is evidence only, its tokens are in the output.  *)
OpenAIBatchBuckets(r) ==
  [batch_input_tokens |-> IF r.input = Absent THEN 0 ELSE Clamp(r.input - OrZero(r.cached)),
   batch_cache_read_input_tokens |-> IF r.input = Absent THEN 0 ELSE OrZero(r.cached),
   batch_output_tokens |-> OrZero(r.output)]
-----------------------------------------------------------------------------
(* Realtime: per modality totals and, perhaps, their cached parts.         *)
Modalities == {"text", "audio"}
RealtimeReports == [input : Optional, cached : Optional,
                    parts : [Modalities -> Optional], cachedParts : [Modalities -> Optional]]

RealtimeSplitIsComplete(r) ==
  OrZero(r.cached) > 0 =>
    \A k \in Modalities : r.parts[k] # Absent => r.cachedParts[k] # Absent

RealtimeIsSplit(r, k) ==
  /\ r.parts[k] # Absent
  /\ RealtimeSplitIsComplete(r)
  /\ OrZero(r.cachedParts[k]) <= r.parts[k]

Classified(r) == OrZero(r.parts["text"]) + OrZero(r.parts["audio"])

RealtimeBuckets(r) ==
  [full |-> [k \in Modalities |->
      IF RealtimeIsSplit(r, k) THEN r.parts[k] - OrZero(r.cachedParts[k]) ELSE 0],
   discounted |-> [k \in Modalities |->
      IF RealtimeIsSplit(r, k) THEN OrZero(r.cachedParts[k]) ELSE 0],
   gross |-> [k \in Modalities |->
      IF r.parts[k] # Absent /\ ~RealtimeIsSplit(r, k) THEN r.parts[k] ELSE 0],
   unclassified |-> IF r.input = Absent THEN 0
                    ELSE IF Classified(r) = 0 THEN r.input
                    ELSE Clamp(r.input - Classified(r)),
   inconsistent |-> r.input # Absent /\ Classified(r) > r.input]
-----------------------------------------------------------------------------
(* Images and audio: whatever the details do not allocate stays unpriced.  *)
ImageBuckets(r, detailed) ==
  LET allocated == Classified(r) IN
  [text |-> IF detailed THEN OrZero(r.parts["text"]) ELSE OrZero(r.input),
   image |-> IF detailed THEN OrZero(r.parts["audio"]) ELSE 0,
   unallocated |-> IF detailed /\ r.input # Absent THEN Clamp(r.input - allocated) ELSE 0]
-----------------------------------------------------------------------------
(* Gemini: counts by modality for the prompt and for the part of it that   *)
(* came from the cache; what the details leave out is UNSPECIFIED.         *)
GeminiReports == [prompt : Counts, cache : Counts,
                  promptParts : [Modalities -> Counts], cacheParts : [Modalities -> Counts]]
GeminiModalities == Modalities \union {"unspecified"}

DetailCounts(parts, total) ==
  [k \in GeminiModalities |->
     IF k = "unspecified" THEN Clamp(total - parts["text"] - parts["audio"]) ELSE parts[k]]

GeminiSplit(r) ==
  LET prompt == DetailCounts(r.promptParts, r.prompt)
      cached == [k \in GeminiModalities |-> IF k = "unspecified" THEN 0 ELSE r.cacheParts[k]]
      allocated == Total(cached, GeminiModalities)
      named == {k \in GeminiModalities : prompt[k] > 0}
      none == [k \in GeminiModalities |-> 0]
  IN CASE r.cache = 0 -> [input |-> prompt, cache |-> none, unallocated |-> 0]
       [] r.cache > 0 /\ allocated > 0 ->
            [input |-> [k \in GeminiModalities |-> Clamp(prompt[k] - cached[k])],
             cache |-> cached,
             unallocated |-> Clamp(r.cache - allocated)
               + Total([k \in GeminiModalities |-> Clamp(cached[k] - prompt[k])], GeminiModalities)]
       [] r.cache > 0 /\ allocated = 0 /\ Cardinality(named) = 1 ->
            [input |-> [k \in GeminiModalities |->
                          IF k \in named THEN Clamp(prompt[k] - r.cache) ELSE 0],
             cache |-> [k \in GeminiModalities |-> IF k \in named THEN r.cache ELSE 0],
             unallocated |-> 0]
       [] OTHER -> [input |-> none, cache |-> none,
                    unallocated |-> Clamp(r.prompt - r.cache) + r.cache]

GeminiTotal(b) ==
  Total(b.input, GeminiModalities) + Total(b.cache, GeminiModalities) + b.unallocated

(* What a provider that does not contradict itself may report.             *)
GeminiConsistent(r) ==
  /\ r.cache <= r.prompt
  /\ r.promptParts["text"] + r.promptParts["audio"] <= r.prompt
  /\ \A k \in Modalities : r.cacheParts[k] <= r.promptParts[k]
  /\ r.cacheParts["text"] + r.cacheParts["audio"] \in {0, r.cache}
-----------------------------------------------------------------------------
(* Anthropic: input, cache reads and cache writes are disjoint; writes are *)
(* split by time to live.  A delta repeats totals without the split.       *)
NoSnapshot == [input |-> 0, output |-> 0, write |-> 0, hour |-> 0, doubtful |-> FALSE]

CacheUsage(r) ==
  LET parts == OrZero(r.five) + OrZero(r.hour) IN
  CASE r.five = Absent /\ r.hour = Absent ->
         [write |-> OrZero(r.write), hour |-> 0, doubtful |-> FALSE]
    [] r.write = Absent /\ (r.five # Absent \/ r.hour # Absent) ->
         [write |-> parts, hour |-> OrZero(r.hour), doubtful |-> FALSE]
    [] r.write # Absent /\ (r.five # Absent \/ r.hour # Absent) /\ r.write # parts ->
         [write |-> r.write, hour |-> 0, doubtful |-> TRUE]
    [] OTHER -> [write |-> r.write, hour |-> OrZero(r.hour), doubtful |-> FALSE]

ExtractUsage(r, prior) ==
  LET split == r.five # Absent \/ r.hour # Absent
      cache == IF r.write = Absent /\ ~split
               THEN prior
               ELSE IF ~split /\ OrZero(r.write) = prior.write THEN prior ELSE CacheUsage(r)
  IN [input |-> IF r.input = Absent THEN prior.input ELSE r.input,
      output |-> IF r.output = Absent THEN prior.output ELSE r.output,
      write |-> cache.write, hour |-> cache.hour, doubtful |-> cache.doubtful]

(* Iterations: a refusal before any output is reported and not billed.     *)
Billed(iteration) == ~(iteration.kind = "message" /\ iteration.output = 0)
BillableInput(iterations) ==
  SumFunction([k \in DOMAIN iterations |->
                 IF Billed(iterations[k]) THEN iterations[k].input ELSE 0])
UnbilledInput(iterations) ==
  SumFunction([k \in DOMAIN iterations |->
                 IF Billed(iterations[k]) THEN 0 ELSE iterations[k].input])
-----------------------------------------------------------------------------
(* Mutant: the totals of the last chunk are added too.                     *)
ProcessChunkAdding(m, chunk) ==
  [input |-> m.input + chunk.input, output |-> m.output + chunk.output]

(* Bedrock: invocation metrics and Converse metadata are totals and        *)
(* replace what was counted, other chunks are added to it.                 *)
ProcessChunk(meter, chunk) ==
  IF chunk.final
  THEN [input |-> chunk.input, output |-> chunk.output]
  ELSE [input |-> meter.input + chunk.input, output |-> meter.output + chunk.output]
-----------------------------------------------------------------------------
(* The catalog entry of a model: what it lists, and whether its family     *)
(* reports caches outside the input.  The rates are distinct primes.       *)
Catalogs == [disjoint : BOOLEAN, cached : BOOLEAN, write : BOOLEAN, hour : BOOLEAN]
InputRate == 7
OutputRate == 11
CachedRate(c) == IF c.cached THEN 2 ELSE InputRate
WriteRate(c) == IF c.write THEN 13 ELSE InputRate
HourRate(c) == IF c.hour THEN 17 ELSE InputRate

Charge(c, plain, cached, write, hour, output) ==
  InputRate * plain + CachedRate(c) * cached + WriteRate(c) * write
    + HourRate(c) * hour + OutputRate * output

(* PricingEngine.get_cost                                                  *)
GetCost(c, input, output, cached, write, hour) ==
  IF c.disjoint
  THEN [cost |-> Charge(c, input, cached, write, hour, output),
        known |-> /\ cached > 0 => c.cached
                  /\ write > 0 => c.write
                  /\ hour > 0 => c.hour]
  ELSE LET reads == IF c.cached THEN Smaller(cached, input) ELSE 0
           writes == IF c.write THEN Smaller(write, input - reads) ELSE 0
           hours == IF c.hour THEN Smaller(hour, input - reads - writes) ELSE 0
       IN [cost |-> Charge(c, input - reads - writes - hours, reads, writes, hours, output),
           known |-> TRUE]

(* PricingEngine.get_metered_cost: a bucket without a rate is not priced.  *)
GetMeteredCost(c, b) ==
  LET priced == {m \in DOMAIN b : /\ b[m] > 0
                                  /\ m = "cache_read_input_tokens" => c.cached
                                  /\ m = "cache_write_input_tokens" => c.write}
      rate == [m \in DOMAIN b |->
                 CASE m = "cache_read_input_tokens" -> CachedRate(c)
                   [] m = "cache_write_input_tokens" -> WriteRate(c)
                   [] m \in OutputMetrics -> OutputRate
                   [] OTHER -> InputRate]
  IN [cost |-> SumFunction([m \in DOMAIN b |-> IF m \in priced THEN rate[m] * b[m] ELSE 0]),
      known |-> priced # {} /\ priced = {m \in DOMAIN b : b[m] > 0}]
-----------------------------------------------------------------------------
(* The instrument of a client reports a truth t as the client's protocol   *)
(* does: OpenAI's clients price with get_cost, whatever model answers,     *)
(* LiteLLM's by buckets, Anthropic's and Bedrock's with disjoint caches.   *)
Truths == [plain : Counts, cached : Counts, write : Counts, hour : Counts, output : Counts]

AsOpenAIReports(t) ==
  [input |-> t.plain + t.cached + t.write, output |-> t.output,
   cached |-> t.cached, write |-> t.write, reasoning |-> Absent]

ChatCharge(c, t) ==
  GetCost(c, AsOpenAIReports(t).input, t.output, t.cached, t.write, 0)
LiteLLMCharge(c, t) == GetMeteredCost(c, NormalizeOpenAI(AsOpenAIReports(t)))
MessagesCharge(c, t) == GetCost(c, t.plain, t.output, t.cached, t.write, t.hour)
-----------------------------------------------------------------------------
(* One answer is measured or priced at a time, or one stream followed.     *)
VARIABLES
  source,    \* what is measured, or "idle"
  report,    \* the report, or the truth and the catalog, it started from
  result,    \* the buckets or the charge that came out
  meter,     \* the running totals of a stream
  spent      \* what the provider has counted on that stream

usageVars == <<source, report, result, meter, spent>>

Nothing0 == [refused |-> TRUE]
NoSpend == [input |-> 0, output |-> 0, write |-> 0, hour |-> 0]

UsageInit ==
  /\ source = "idle"
  /\ report = Nothing0
  /\ result = Nothing0
  /\ meter = NoSnapshot
  /\ spent = NoSpend

Measure(kind, r, outcome) ==
  /\ source = "idle"
  /\ source' = kind
  /\ report' = r
  /\ result' = outcome
  /\ UNCHANGED <<meter, spent>>

MeasureOpenAI(r) ==
  \/ Measure("openai", r, IF OpenAIRefuses(r) THEN Nothing0 ELSE NormalizeOpenAI(r))
  \/ Measure("perplexity", r, PerplexityBuckets(r))
  \/ Measure("batch", r, OpenAIBatchBuckets(r))

MeasureRealtime(r) ==
  \/ Measure("realtime", r, RealtimeBuckets(r))
  \/ \E detailed \in BOOLEAN : Measure("image", r, ImageBuckets(r, detailed))

MeasureGemini(r) ==
  GeminiConsistent(r) /\ Measure("gemini", r, GeminiSplit(r))

MeasureIterations(iterations) ==
  Measure("iterations", iterations,
          [billed |-> BillableInput(iterations), unbilled |-> UnbilledInput(iterations)])

PriceAnswer(c, t) ==
  \/ t.hour = 0 /\ Measure("chat", [truth |-> t, catalog |-> c], ChatCharge(c, t))
  \/ t.hour = 0 /\ Measure("litellm", [truth |-> t, catalog |-> c], LiteLLMCharge(c, t))
  \/ c.disjoint /\ Measure("messages", [truth |-> t, catalog |-> c], MessagesCharge(c, t))

(* message_start carries the input and the split of the cache writes.      *)
MessageStart(input, five, hour) ==
  /\ source = "idle"
  /\ source' = "messages-stream"
  /\ spent' = [input |-> input, output |-> 1, write |-> five + hour, hour |-> hour]
  /\ meter' = ExtractUsage([input |-> input, output |-> 1, write |-> five + hour,
                            five |-> five, hour |-> hour], NoSnapshot)
  /\ UNCHANGED <<report, result>>

(* message_delta repeats cumulative totals, any of them or none; there are *)
(* MaxTokens of them.                                                      *)
MessageDelta(told) ==
  /\ source = "messages-stream"
  /\ spent.output <= MaxTokens
  /\ spent' = [spent EXCEPT !.output = @ + 1]
  /\ meter' = ExtractUsage([input |-> IF "input" \in told THEN spent.input ELSE Absent,
                            output |-> spent.output + 1,
                            write |-> IF "write" \in told THEN spent.write ELSE Absent,
                            five |-> Absent, hour |-> Absent], meter)
  /\ UNCHANGED <<source, report, result>>

(* Bedrock: the opening chunk has the input, deltas have the output so     *)
(* far, the last chunk the totals.                                         *)
BedrockStart(input) ==
  /\ source = "idle"
  /\ source' = "bedrock-stream"
  /\ spent' = [NoSpend EXCEPT !.input = input]
  /\ meter' = ProcessChunk([input |-> 0, output |-> 0],
                           [final |-> FALSE, input |-> input, output |-> 0])
  /\ UNCHANGED <<report, result>>

BedrockDelta ==
  /\ source = "bedrock-stream"
  /\ spent.output < MaxTokens
  /\ spent' = [spent EXCEPT !.output = @ + 1]
  /\ meter' = ProcessChunk(meter, [final |-> FALSE, input |-> 0, output |-> spent.output + 1])
  /\ UNCHANGED <<source, report, result>>

BedrockEnd ==
  /\ source = "bedrock-stream"
  /\ source' = "bedrock-ended"
  /\ meter' = ProcessChunk(meter, [final |-> TRUE, input |-> spent.input, output |-> spent.output])
  /\ UNCHANGED <<report, result, spent>>

Iterations == [1..2 -> [kind : {"message", "compaction"}, input : Counts, output : Counts]]

UsageNext ==
  \/ \E r \in OpenAIReports : MeasureOpenAI(r)
  \/ \E r \in RealtimeReports : MeasureRealtime(r)
  \/ \E r \in GeminiReports : MeasureGemini(r)
  \/ \E iterations \in Iterations : MeasureIterations(iterations)
  \/ \E c \in Catalogs, t \in Truths : PriceAnswer(c, t)
  \/ \E input, five, hour \in Counts : MessageStart(input, five, hour)
  \/ \E told \in SUBSET {"input", "write"} : MessageDelta(told)
  \/ \E input \in Counts : BedrockStart(input)
  \/ BedrockDelta
  \/ BedrockEnd

UsageSpec == UsageInit /\ [][UsageNext]_usageVars
-----------------------------------------------------------------------------
(* Whatever details a provider gives or leaves out, each token of its      *)
(* total lands in one bucket: none is dropped, none is in two, unless the  *)
(* report is refused or marked as contradicting itself                     *)
(* (normalize_openai_usage, _realtime_usage_measurement,                   *)
(* _image_measurement_values, _split_prompt_and_cache, _billable_usage).   *)
EachTokenInOneBucket ==
  CASE source = "openai" /\ result # Nothing0 ->
         /\ Total(result, InputMetrics) = report.input
         /\ Total(result, OutputMetrics) = report.output
         /\ \A m \in DOMAIN result : result[m] >= 0
    [] source = "perplexity" /\ report.input # Absent ->
         Total(result, InputMetrics) = report.input
    [] source = "batch" /\ report.input >= OrZero(report.cached) ->
         result.batch_input_tokens + result.batch_cache_read_input_tokens = report.input
    [] source = "realtime" /\ report.input # Absent /\ ~result.inconsistent ->
         Total(result.full, Modalities) + Total(result.discounted, Modalities)
           + Total(result.gross, Modalities) + result.unclassified = report.input
    [] source = "image" /\ report.input >= Classified(report) ->
         result.text + result.image + result.unallocated = report.input
    [] source = "gemini" -> GeminiTotal(result) = report.prompt
    [] source = "iterations" ->
         result.billed + result.unbilled =
           SumFunction([k \in DOMAIN report |-> report[k].input])
    [] OTHER -> TRUE

(* A realtime token that came from the cache is never charged in full: as  *)
(* long as its modality is not known it stays without a price              *)
(* (_realtime_usage_measurement).                                          *)
FullPriceLeavesOutTheCache ==
  LET told == {k \in Modalities : report.parts[k] # Absent}
      known == SumFunction([k \in Modalities |->
                              IF k \in told THEN OrZero(report.cachedParts[k]) ELSE 0])
      honest == /\ \A k \in told : OrZero(report.cachedParts[k]) <= report.parts[k]
                /\ RealtimeSplitIsComplete(report) => known = OrZero(report.cached)
  IN source = "realtime" /\ honest =>
       Total(result.full, Modalities) <= Clamp(Classified(report) - OrZero(report.cached))

(* From the provider's count to the charge every token is charged once, at *)
(* the rate of its own kind or, where the catalog lists none, at the input *)
(* rate; a charge that leaves a kind out does not pass for a known one.    *)
(* (Left out: OpenAI's clients with a model that reports caches apart.)    *)
ChargedAtItsRate ==
  source \in {"chat", "litellm", "messages"} /\ ~(source = "chat" /\ report.catalog.disjoint) =>
    LET t == report.truth
        due == Charge(report.catalog, t.plain, t.cached, t.write, t.hour, t.output)
    IN /\ result.known => result.cost = due
       /\ result.cost <= due

(* A stream ends with the totals the provider counted, whichever of them   *)
(* its chunks repeat (anthropic.py _extract_usage, bedrock.py              *)
(* _process_event).                                                        *)
StreamEndsWithWhatWasSpent ==
  source \in {"messages-stream", "bedrock-ended"} =>
    \A k \in DOMAIN meter \intersect DOMAIN spent : meter[k] = spent[k]

(* Each token a provider reports, at once or in the chunks of a stream, is *)
(* charged once and at its rate.                                           *)
TokensAreChargedOnce ==
  /\ EachTokenInOneBucket /\ FullPriceLeavesOutTheCache
  /\ ChargedAtItsRate /\ StreamEndsWithWhatWasSpent
=============================================================================
