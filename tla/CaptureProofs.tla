---------------------------- MODULE CaptureProofs ---------------------------
(***************************************************************************)
(* Theorems about what the SDK captures: provider calls and streams        *)
(* (ProviderCalls), however many they are and however they nest and        *)
(* overlap; the executions of frameworks (FrameworkRuntime); metered       *)
(* services (ServiceCaptures); and the patching of SDKs (Instrumentation). *)
(***************************************************************************)
EXTENDS ProviderCalls, FrameworkRuntime, ServiceCaptures, Instrumentation,
        FiniteSetTheorems, TLAPS

Tasks == Calls \union {Nobody, AppTask}
Endings == {"no", "succeeded", "failed", "unknown", "error", "cancel", "closed", "dropped",
            "close raised error", "close raised cancel"}
Statuses == {"succeeded", "failed", "unknown", "cancelled"}

CallRecord ==
  [at : {"new", "wire", "stream", "over"}, wrapper : Wrappers \union {NoWrapper},
   claimed : BOOLEAN, task : Tasks, before : Tasks, parent : Calls \union {Nobody},
   ended : Endings, settled : BOOLEAN]

Event == [status : Statuses, task : Tasks]

RecordsOK == /\ recorded \in [Calls -> Seq(Event)]
             /\ taskRow \in [Calls -> {"none", "success", "failed"}]
             /\ faults \in 0 .. MaxFaults

StateOK ==
  /\ op \in [Calls -> CallRecord]
  /\ inside \in Calls \union {Nobody} /\ owner \in Calls \union {Nobody}
  /\ context \in Tasks
  /\ RecordsOK

\* The capture has an owner exactly while a call is on the wire, and the outermost call
\* on the wire is the one that owns it.
OwnerIsOutermost ==
  /\ owner = Nobody <=> inside = Nobody
  /\ inside = Nobody => context \in {Nobody, AppTask}
  /\ \A c \in Calls : op[c].at = "wire" => (op[c].claimed <=> op[c].parent = Nobody)

\* What a wrapper keeps of its call: the task it was made in, and whether it has been told.
KeptOf(c) ==
  /\ op[c].at = "new" => op[c].ended = "no" /\ ~op[c].claimed
  /\ op[c].at = "wire" => op[c].ended = "no"
  /\ op[c].at # "new" => op[c].wrapper \in Wrappers
  /\ op[c].at = "stream" => op[c].ended # "dropped"
  /\ op[c].ended = "no" => ~op[c].settled
  /\ op[c].ended \in Reported => op[c].settled
  /\ op[c].claimed => /\ op[c].before \in {Nobody, AppTask}
                      /\ op[c].task = IF op[c].before = Nobody THEN c ELSE op[c].before
  /\ ~op[c].claimed => op[c].task = Nobody

\* The status an ending may be told with.
Tells(ended, status) ==
  /\ ended \in {"succeeded", "failed", "unknown"} => status = ended
  /\ ended = "error" => status = "failed"
  /\ ended \in {"closed", "dropped"} => status = "cancelled"
  /\ ended \in {"no", "cancel", "close raised error", "close raised cancel"} =>
       status \in {"failed", "cancelled"}

\* What is stored of a call: nothing before it is told, and one event of its own after.
StoredOf(c) ==
  /\ Len(recorded[c]) <= 1
  /\ ~op[c].claimed \/ ~op[c].settled => recorded[c] = << >>
  /\ op[c].claimed /\ op[c].settled /\ faults = 0 => Len(recorded[c]) = 1
  /\ recorded[c] # << >> => /\ recorded[c][1].task = op[c].task
                            /\ Tells(op[c].ended, recorded[c][1].status)
  /\ taskRow[c] # "none" => /\ recorded[c] # << >>
                            /\ taskRow[c] = "success" <=> recorded[c][1].status = "succeeded"

CallsInv == /\ StateOK /\ OwnerIsOutermost
            /\ \A c \in Calls : KeptOf(c) /\ StoredOf(c)

-----------------------------------------------------------------------------
\* Whatever SDK it wraps, a wrapper records a call that raises an error, and a stream
\* that breaks or whose close raises an error.
SoundHandler(h) == "error" \in h.catches /\ h.cancelled \in {"failed", "cancelled"}
SoundStream(s) == /\ "error" \in s.consume /\ "error" \in s.close
                  /\ s.broken \in {"failed", "cancelled"}

LEMMA HandlersAreSound == SoundHandler(Exceptions) /\ SoundHandler(Everything)
                          /\ SoundHandler(LiteLLMOperation)
BY DEF SoundHandler, Exceptions, Everything, LiteLLMOperation

LEMMA StreamsAreSound ==
  /\ SoundStream(PlainStream) /\ SoundStream(AnthropicStream) /\ SoundStream(CohereStream)
  /\ SoundStream(BedrockStream) /\ SoundStream(SmithyReceiver)
  /\ SoundStream(SyncProviderStream)
BY DEF SoundStream, PlainStream, AnthropicStream, CohereStream, BedrockStream, SmithyReceiver,
       SyncProviderStream

LEMMA WrappersAreSound ==
  ASSUME NEW w \in Wrappers
  PROVE  SoundHandler(w.call) /\ SoundStream(w.stream)
<1>1. \/ w \in Wrapper({OpenAICreate, OpenAIAsyncCreate, OpenAIAsyncStreamCreate},
                     {OpenAIStream, OpenAIAsyncStream}, FALSE)
      \/ w \in Wrapper({OpenAIProviderCall, OpenAIAsyncProviderCall, GeminiCall, GeminiAsyncCall,
                      GeminiStreamCall, GeminiAsyncStreamCall, McpToolCall},
                     {SyncProviderStream, AsyncProviderStream}, FALSE)
      \/ w \in Wrapper({AnthropicCreate, AnthropicAsyncCreate, AnthropicAsyncStreamCreate},
                     {AnthropicStream, AnthropicAsyncStream}, FALSE)
      \/ w \in Wrapper({LiteLLMCompletion, LiteLLMAsyncCompletion, LiteLLMAsyncStreamCompletion},
                     {LiteLLMStream, LiteLLMAsyncStream}, TRUE)
      \/ w \in Wrapper({LiteLLMOperation, LiteLLMAsyncOperation},
                     {SyncProviderStream, AsyncProviderStream}, TRUE)
      \/ w \in Wrapper({BedrockInvoke}, {BedrockStream}, FALSE)
      \/ w \in Wrapper({BedrockBidirectional, BedrockGuardrail}, {SmithyReceiver, SmithyDuplex}, FALSE)
      \/ w \in Wrapper({CohereChat, CohereAsyncChat, CohereChatStream, CohereAsyncChatStream},
                     {CohereStream, CohereAsyncStream}, FALSE)
      \/ w \in Wrapper({BedrockConverse, CohereMetered, CohereAsyncMetered, OpenRouterCall,
                      OpenRouterAsyncCall, PerplexityCall, PerplexityAsyncCall, GroqCall, GroqAsyncCall,
                      OllamaCall, OllamaAsyncCall, FalOperation, FalAsyncOperation, FalAsyncStream},
                     {SyncProviderStream, AsyncProviderStream}, FALSE)
  BY DEF Wrappers
<1>2. w.call \in {Exceptions, Everything, LiteLLMOperation}
  BY <1>1 DEF Wrapper, OpenAICreate, OpenAIAsyncCreate, OpenAIAsyncStreamCreate,
       OpenAIProviderCall, OpenAIAsyncProviderCall, GeminiCall, GeminiAsyncCall,
       GeminiStreamCall, GeminiAsyncStreamCall, McpToolCall, AnthropicCreate,
       AnthropicAsyncCreate, AnthropicAsyncStreamCreate, LiteLLMCompletion,
       LiteLLMAsyncCompletion, LiteLLMAsyncStreamCompletion, LiteLLMOperation,
       LiteLLMAsyncOperation, BedrockInvoke, CohereChat, CohereAsyncChat, CohereChatStream,
       CohereAsyncChatStream, BedrockBidirectional, BedrockGuardrail, BedrockConverse,
       CohereMetered, CohereAsyncMetered, OpenRouterCall, OpenRouterAsyncCall, PerplexityCall,
       PerplexityAsyncCall, GroqCall, GroqAsyncCall, OllamaCall, OllamaAsyncCall,
       FalOperation, FalAsyncOperation, FalAsyncStream
<1>3. w.stream \in {PlainStream, AnthropicStream, CohereStream, BedrockStream, SmithyReceiver,
                    SyncProviderStream}
  BY <1>1 DEF Wrapper, OpenAIStream, OpenAIAsyncStream, LiteLLMStream, LiteLLMAsyncStream,
       AnthropicStream, AnthropicAsyncStream, CohereStream, CohereAsyncStream, BedrockStream,
       SmithyDuplex, SyncProviderStream, AsyncProviderStream
<1> QED BY <1>2, <1>3, HandlersAreSound, StreamsAreSound

-----------------------------------------------------------------------------
\* A step of an open call changes where it is, how it ended and whether it was told.
LEMMA EndsAsFields ==
  ASSUME StateOK, NEW c \in Calls, NEW at \in {"stream", "over"}, NEW how \in Endings,
         NEW told \in BOOLEAN, EndsAs(c, at, how, told)
  PROVE  /\ op' \in [Calls -> CallRecord]
         /\ \A d \in Calls \ {c} : op'[d] = op[d]
         /\ op'[c].at = at /\ op'[c].ended = how
         /\ op'[c].settled <=> op[c].settled \/ told
         /\ op'[c].claimed <=> op[c].claimed
         /\ op'[c].wrapper = op[c].wrapper /\ op'[c].task = op[c].task
         /\ op'[c].before = op[c].before /\ op'[c].parent = op[c].parent
<1> DEFINE r == [op[c] EXCEPT !.at = at, !.ended = how, !.settled = @ \/ told]
<1>1. op \in [Calls -> CallRecord] /\ op[c] \in CallRecord
  BY DEF StateOK
<1>2. op' = [op EXCEPT ![c] = r]
  BY <1>1 DEF EndsAs
<1>3. /\ r \in CallRecord /\ r.at = at /\ r.ended = how /\ r.wrapper = op[c].wrapper
      /\ r.task = op[c].task /\ r.before = op[c].before /\ r.parent = op[c].parent
  BY <1>1 DEF CallRecord
<1>4. (r.settled <=> op[c].settled \/ told) /\ (r.claimed <=> op[c].claimed)
  BY <1>1 DEF CallRecord
<1> HIDE DEF r
<1> QED BY <1>1, <1>2, <1>3, <1>4

\* A call that has not been told before is stored with the status given, and one that
\* has been told is left as it is.
LEMMA SettleStores ==
  ASSUME CallsInv, NEW c \in Calls, NEW status \in Statuses, Settle(c, status)
  PROVE  /\ RecordsOK' /\ faults' >= faults
         /\ \A d \in Calls \ {c} : recorded'[d] = recorded[d] /\ taskRow'[d] = taskRow[d]
         /\ ~op[c].claimed \/ op[c].settled =>
              recorded'[c] = recorded[c] /\ taskRow'[c] = taskRow[c]
         /\ op[c].claimed /\ ~op[c].settled =>
              /\ \/ recorded'[c] = << >> /\ faults' > 0
                 \/ Len(recorded'[c]) = 1 /\ recorded'[c][1].status = status
                                         /\ recorded'[c][1].task = op[c].task
              /\ taskRow'[c] # "none" => /\ recorded'[c] # << >>
                                         /\ taskRow'[c] = "success" <=> status = "succeeded"
<1> DEFINE event == [status |-> status, task |-> op[c].task]
           row == IF ~InAutoTask(c) THEN "none"
                  ELSE IF status = "succeeded" THEN "success" ELSE "failed"
<1>0. /\ RecordsOK /\ op[c] \in CallRecord /\ StoredOf(c)
      /\ MaxFaults \in Nat /\ faults \in 0 .. MaxFaults
  BY CallsAssumption DEF CallsInv, StateOK, RecordsOK
<1>1. CASE ~op[c].claimed \/ op[c].settled
  BY <1>0, <1>1 DEF Settle, RecordsOK
<1>2. CASE op[c].claimed /\ ~op[c].settled
  <2>1. recorded[c] = << >> /\ taskRow[c] = "none"
    BY <1>0, <1>2 DEF StoredOf
  <2>2. event \in Event /\ event.status = status /\ event.task = op[c].task
    BY <1>0 DEF CallRecord, Event
  <2>3. /\ row \in {"none", "success", "failed"}
        /\ row # "none" => (row = "success" <=> status = "succeeded")
    OBVIOUS
  <2>4. \/ /\ recorded' = [recorded EXCEPT ![c] = Append(@, event)]
           /\ taskRow' = [taskRow EXCEPT ![c] = row]
           /\ UNCHANGED faults
        \/ /\ faults < MaxFaults /\ faults' = faults + 1
           /\ \/ UNCHANGED recorded
              \/ recorded' = [recorded EXCEPT ![c] = Append(@, event)]
           /\ UNCHANGED taskRow
    BY <1>0, <1>2, <2>1 DEF Settle, InAutoTask, RecordsOK
  <2> HIDE DEF event, row
  <2>5. Append(recorded[c], event) = <<event>> /\ <<event>> \in Seq(Event)
        /\ Len(<<event>>) = 1 /\ <<event>> # << >> /\ <<event>>[1] = event
    BY <2>1, <2>2
  <2>6. /\ recorded \in [Calls -> Seq(Event)]
        /\ taskRow \in [Calls -> {"none", "success", "failed"}]
    BY <1>0 DEF RecordsOK
  <2>7. ASSUME recorded' = [recorded EXCEPT ![c] = Append(@, event)]
        PROVE  /\ recorded' \in [Calls -> Seq(Event)]
               /\ \A d \in Calls \ {c} : recorded'[d] = recorded[d]
               /\ recorded'[c] = <<event>>
    BY <2>5, <2>6, <2>7
  <2>8. CASE /\ recorded' = [recorded EXCEPT ![c] = Append(@, event)]
             /\ taskRow' = [taskRow EXCEPT ![c] = row]
             /\ UNCHANGED faults
    BY <1>0, <1>2, <2>2, <2>3, <2>5, <2>6, <2>7, <2>8 DEF RecordsOK
  <2>9. CASE /\ faults < MaxFaults /\ faults' = faults + 1
             /\ \/ UNCHANGED recorded
                \/ recorded' = [recorded EXCEPT ![c] = Append(@, event)]
             /\ UNCHANGED taskRow
    BY <1>0, <1>2, <2>1, <2>2, <2>5, <2>6, <2>7, <2>9 DEF RecordsOK
  <2> QED BY <2>4, <2>8, <2>9
<1> QED BY <1>1, <1>2

LEMMA ToldCallIsStored ==
  ASSUME CallsInv, NEW c \in Calls, NEW at \in {"stream", "over"}, NEW how \in Endings \ {"no"},
         NEW status \in Statuses, op[c].at # "new", op[c].settled => how = op[c].ended,
         ~op[c].settled => Tells(how, status), at = "stream" => how # "dropped",
         EndsAs(c, at, how, TRUE), Settle(c, status)
  PROVE  RecordsOK' /\ \A d \in Calls : KeptOf(d)' /\ StoredOf(d)'
<1>1. StateOK /\ op[c] \in CallRecord /\ KeptOf(c) /\ StoredOf(c)
      /\ faults \in Nat
  BY CallsAssumption DEF CallsInv, StateOK, RecordsOK
<1>2. /\ \A d \in Calls \ {c} : op'[d] = op[d]
      /\ op'[c].at = at /\ op'[c].ended = how
      /\ op'[c].settled <=> op[c].settled \/ TRUE
      /\ op'[c].claimed <=> op[c].claimed
      /\ op'[c].wrapper = op[c].wrapper /\ op'[c].task = op[c].task
      /\ op'[c].before = op[c].before
  BY <1>1, EndsAsFields, Zenon
<1>3. /\ RecordsOK' /\ faults' >= faults
      /\ \A d \in Calls \ {c} : recorded'[d] = recorded[d] /\ taskRow'[d] = taskRow[d]
  BY SettleStores
<1>4. faults' = 0 => faults = 0
  BY <1>1, <1>3, CallsAssumption DEF RecordsOK
<1>5. ASSUME NEW d \in Calls \ {c} PROVE KeptOf(d)' /\ StoredOf(d)'
  BY <1>2, <1>3, <1>4, <1>5 DEF CallsInv, KeptOf, StoredOf
<1>6. KeptOf(c)'
  BY <1>1, <1>2 DEF KeptOf
<1>7. StoredOf(c)'
  <2>1. CASE ~op[c].claimed \/ op[c].settled
    <3>1. recorded'[c] = recorded[c] /\ taskRow'[c] = taskRow[c]
      BY <2>1, SettleStores
    <3> QED BY <1>1, <1>2, <1>4, <2>1, <3>1 DEF KeptOf, StoredOf
  <2>2. CASE op[c].claimed /\ ~op[c].settled
    <3>1. /\ \/ recorded'[c] = << >> /\ faults' > 0
             \/ Len(recorded'[c]) = 1 /\ recorded'[c][1].status = status
                                     /\ recorded'[c][1].task = op[c].task
          /\ taskRow'[c] # "none" => /\ recorded'[c] # << >>
                                     /\ taskRow'[c] = "success" <=> status = "succeeded"
      BY <2>2, SettleStores
    <3>2. CASE recorded'[c] = << >> /\ faults' > 0
      BY <1>2, <2>2, <3>1, <3>2 DEF StoredOf
    <3>3. CASE /\ Len(recorded'[c]) = 1 /\ recorded'[c][1].status = status
               /\ recorded'[c][1].task = op[c].task
      BY <1>2, <2>2, <3>1, <3>3 DEF StoredOf
    <3> QED BY <3>1, <3>2, <3>3
  <2> QED BY <2>1, <2>2
<1> QED BY <1>3, <1>5, <1>6, <1>7

\* A step that tells nothing leaves the call open for the next one that would.
LEMMA UntoldCallIsKept ==
  ASSUME CallsInv, NEW c \in Calls, NEW at \in {"stream", "over"}, NEW how \in Endings,
         op[c].at # "new", op[c].settled => how = op[c].ended,
         ~op[c].settled => how \notin Reported, at = "stream" => how # "dropped",
         EndsAs(c, at, how, FALSE), UNCHANGED <<recorded, taskRow, faults>>
  PROVE  RecordsOK' /\ \A d \in Calls : KeptOf(d)' /\ StoredOf(d)'
<1>1. StateOK /\ FALSE \in BOOLEAN /\ op[c] \in CallRecord
  BY DEF CallsInv, StateOK
<1>2. /\ \A d \in Calls \ {c} : op'[d] = op[d]
      /\ op'[c].at = at /\ op'[c].ended = how
      /\ op'[c].settled <=> op[c].settled
      /\ op'[c].claimed <=> op[c].claimed
      /\ op'[c].wrapper = op[c].wrapper /\ op'[c].task = op[c].task
      /\ op'[c].before = op[c].before
  BY <1>1, EndsAsFields
<1>3. ASSUME NEW d \in Calls \ {c} PROVE KeptOf(d)' /\ StoredOf(d)'
  BY <1>2, <1>3 DEF CallsInv, KeptOf, StoredOf
<1>4. KeptOf(c)' /\ StoredOf(c)'
  BY <1>1, <1>2 DEF CallsInv, KeptOf, StoredOf
<1>5. RecordsOK'
  BY <1>1 DEF StateOK, RecordsOK
<1> QED BY <1>3, <1>4, <1>5
-----------------------------------------------------------------------------
LEMMA CallsInitInv == CallsInit => CallsInv
<1> SUFFICES ASSUME CallsInit PROVE CallsInv
  OBVIOUS
<1>1. NewCall \in CallRecord
  BY DEF NewCall, CallRecord, Endings, Tasks
<1>2. /\ NewCall.at = "new" /\ NewCall.ended = "no" /\ NewCall.task = Nobody
      /\ ~NewCall.claimed /\ ~NewCall.settled
  BY DEF NewCall
<1>3. RecordsOK
  BY CallsAssumption DEF CallsInit, RecordsOK
<1>4. StateOK
  BY <1>1, <1>3 DEF CallsInit, StateOK, Tasks
<1>5. \A c \in Calls : op[c] = NewCall /\ recorded[c] = << >> /\ taskRow[c] = "none"
  BY DEF CallsInit
<1>6. OwnerIsOutermost
  BY <1>2, <1>5 DEF CallsInit, OwnerIsOutermost
<1>7. ASSUME NEW c \in Calls PROVE KeptOf(c) /\ StoredOf(c)
  <2>1. KeptOf(c)
    BY <1>2, <1>5 DEF KeptOf, Reported
  <2>2. StoredOf(c)
    BY <1>2, <1>5 DEF StoredOf
  <2> QED BY <2>1, <2>2
<1> QED BY <1>4, <1>6, <1>7 DEF CallsInv

LEMMA EnterKeeps ==
  ASSUME CallsInv, NEW c \in Calls, NEW w \in Wrappers, Enter(c, w)
  PROVE  CallsInv'
<1> DEFINE takes == owner = Nobody
           own == IF context = Nobody THEN c ELSE context
           r == [NewCall EXCEPT !.at = "wire", !.wrapper = w, !.claimed = takes,
                   !.parent = inside, !.task = IF takes THEN own ELSE Nobody,
                   !.before = context]
<1>1. /\ StateOK /\ OwnerIsOutermost /\ \A d \in Calls : KeptOf(d) /\ StoredOf(d)
      /\ op \in [Calls -> CallRecord] /\ inside \in Calls \union {Nobody} /\ context \in Tasks
  BY DEF CallsInv, StateOK
<1>2. /\ op' = [op EXCEPT ![c] = r]
      /\ owner' = IF takes THEN c ELSE owner
      /\ context' = IF takes THEN own ELSE context
      /\ inside' = c
      /\ UNCHANGED <<recorded, taskRow, faults>>
      /\ op[c].at = "new"
  BY DEF Enter
<1>3. r \in CallRecord
  BY <1>1 DEF CallRecord, NewCall, Tasks, Endings
<1>4. /\ r.at = "wire" /\ r.wrapper = w /\ r.ended = "no" /\ r.parent = inside
      /\ r.before = context /\ r.task = IF takes THEN own ELSE Nobody
      /\ r.claimed <=> takes
      /\ ~r.settled
  BY DEF NewCall
<1> HIDE DEF r
<1>5. op' \in [Calls -> CallRecord] /\ op'[c] = r /\ \A d \in Calls \ {c} : op'[d] = op[d]
  BY <1>1, <1>2, <1>3
<1>6. StateOK'
  BY <1>1, <1>2, <1>5 DEF StateOK, RecordsOK, Tasks
<1>7. OwnerIsOutermost'
  BY <1>1, <1>2, <1>4, <1>5, CallsAssumption DEF OwnerIsOutermost
<1>8. ASSUME NEW d \in Calls PROVE KeptOf(d)' /\ StoredOf(d)'
  <2>1. CASE d # c
    BY <1>1, <1>2, <1>5, <2>1 DEF KeptOf, StoredOf
  <2>2. CASE d = c
    <3>1. takes => context \in {Nobody, AppTask}
      BY <1>1 DEF OwnerIsOutermost
    <3>2. recorded[c] = << >> /\ taskRow[c] = "none"
      BY <1>1, <1>2 DEF KeptOf, StoredOf
    <3> QED BY <1>1, <1>2, <1>4, <1>5, <2>2, <3>1, <3>2 DEF KeptOf, StoredOf, Reported
  <2> QED BY <2>1, <2>2
<1> QED BY <1>6, <1>7, <1>8 DEF CallsInv

\* Leaving the outermost wrapper puts back the task the call was made in, leaving a
\* nested one changes nothing for the wrapper around it.
LEMMA LeaveRestores ==
  ASSUME CallsInv, NEW c \in Calls, op[c].at = "wire", inside = c, Leave(c),
         op'[c].at # "wire", \A d \in Calls \ {c} : op'[d] = op[d]
  PROVE  /\ OwnerIsOutermost'
         /\ inside' \in Calls \union {Nobody} /\ owner' \in Calls \union {Nobody}
         /\ context' \in Tasks
<1>1. /\ StateOK /\ OwnerIsOutermost /\ KeptOf(c) /\ op[c] \in CallRecord
  BY DEF CallsInv, StateOK
<1>2. op[c].parent \in Calls \union {Nobody} /\ op[c].before \in Tasks
  BY <1>1 DEF CallRecord
<1>3. op[c].claimed <=> op[c].parent = Nobody
  BY <1>1 DEF OwnerIsOutermost
<1>4. owner # Nobody
  BY <1>1, CallsAssumption DEF OwnerIsOutermost
<1>5. \A d \in Calls : op'[d].at = "wire" => (op'[d].claimed <=> op'[d].parent = Nobody)
  BY <1>1 DEF OwnerIsOutermost
<1>6. CASE op[c].claimed
  BY <1>1, <1>2, <1>3, <1>5, <1>6 DEF Leave, OwnerIsOutermost, KeptOf, StateOK
<1>7. CASE ~op[c].claimed
  BY <1>1, <1>2, <1>3, <1>4, <1>5, <1>7 DEF Leave, OwnerIsOutermost, StateOK
<1> QED BY <1>6, <1>7

LEMMA AnswerKeeps ==
  ASSUME CallsInv, NEW c \in Calls, Answer(c, "succeeded")
  PROVE  CallsInv'
<1>1. /\ op[c].at = "wire" /\ inside = c /\ EndsAs(c, "over", "succeeded", TRUE)
      /\ Settle(c, "succeeded") /\ Leave(c)
  BY DEF Answer
<1>2. StateOK /\ KeptOf(c)
  BY DEF CallsInv
<1>3. ~op[c].settled
  BY <1>1, <1>2 DEF KeptOf
<1>4. /\ op' \in [Calls -> CallRecord] /\ op'[c].at = "over"
      /\ \A d \in Calls \ {c} : op'[d] = op[d]
  BY <1>1, <1>2, EndsAsFields DEF Endings
<1>5. RecordsOK' /\ \A d \in Calls : KeptOf(d)' /\ StoredOf(d)'
  <2>1. "succeeded" \in Endings \ {"no"} /\ "succeeded" \in Statuses
        /\ Tells("succeeded", "succeeded")
    BY DEF Endings, Statuses, Tells
  <2> QED BY <1>1, <1>3, <2>1, ToldCallIsStored
<1>6. OwnerIsOutermost' /\ inside' \in Calls \union {Nobody}
      /\ owner' \in Calls \union {Nobody} /\ context' \in Tasks
  BY <1>1, <1>4, LeaveRestores
<1> QED BY <1>4, <1>5, <1>6 DEF CallsInv, StateOK

LEMMA ReturnStreamKeeps ==
  ASSUME CallsInv, NEW c \in Calls, ReturnStream(c)
  PROVE  CallsInv'
<1>1. /\ op[c].at = "wire" /\ inside = c /\ EndsAs(c, "stream", "no", FALSE) /\ Leave(c)
      /\ UNCHANGED <<recorded, taskRow, faults>>
  BY DEF ReturnStream
<1>2. StateOK /\ KeptOf(c)
  BY DEF CallsInv
<1>3. ~op[c].settled
  BY <1>1, <1>2 DEF KeptOf
<1>4. "no" \in Endings \ Reported
  BY DEF Endings, Reported
<1>5. /\ op' \in [Calls -> CallRecord] /\ op'[c].at = "stream"
      /\ \A d \in Calls \ {c} : op'[d] = op[d]
  BY <1>1, <1>2, <1>4, EndsAsFields
<1>6. RecordsOK' /\ \A d \in Calls : KeptOf(d)' /\ StoredOf(d)'
  BY <1>1, <1>3, <1>4, UntoldCallIsKept
<1>7. OwnerIsOutermost' /\ inside' \in Calls \union {Nobody}
      /\ owner' \in Calls \union {Nobody} /\ context' \in Tasks
  BY <1>1, <1>5, LeaveRestores
<1> QED BY <1>5, <1>6, <1>7 DEF CallsInv, StateOK

LEMMA RaiseKeeps ==
  ASSUME CallsInv, NEW c \in Calls, NEW how \in {"error", "cancel"}, Raise(c, how)
  PROVE  CallsInv'
<1> DEFINE handler == op[c].wrapper.call
           caught == how \in handler.catches
           status == IF how = "cancel" THEN handler.cancelled ELSE "failed"
<1>1. /\ op[c].at = "wire" /\ inside = c /\ EndsAs(c, "over", how, caught)
      /\ IF caught THEN Settle(c, status) ELSE UNCHANGED <<recorded, taskRow, faults>>
      /\ Leave(c)
  BY DEF Raise
<1>2. StateOK /\ KeptOf(c)
  BY DEF CallsInv
<1>3. ~op[c].settled /\ op[c].wrapper \in Wrappers
  BY <1>1, <1>2 DEF KeptOf
<1>4. how \in Endings \ {"no"} /\ SoundHandler(handler)
  BY <1>3, WrappersAreSound DEF Endings
<1> HIDE DEF handler
<1>5. caught \in BOOLEAN
  OBVIOUS
<1> HIDE DEF caught
<1>6. /\ op' \in [Calls -> CallRecord] /\ op'[c].at = "over"
      /\ \A d \in Calls \ {c} : op'[d] = op[d]
  BY <1>1, <1>2, <1>4, <1>5, EndsAsFields
<1>7. RecordsOK' /\ \A d \in Calls : KeptOf(d)' /\ StoredOf(d)'
  <2>1. CASE caught
    <3>1. EndsAs(c, "over", how, TRUE)
      BY <1>1, <1>5, <2>1 DEF EndsAs
    <3>2. status \in Statuses /\ Tells(how, status)
      BY <1>4 DEF SoundHandler, Statuses, Tells
    <3> HIDE DEF status
    <3> QED BY <1>1, <1>3, <1>4, <2>1, <3>1, <3>2, ToldCallIsStored
  <2>2. CASE ~caught
    <3>1. EndsAs(c, "over", how, FALSE)
      BY <1>1, <1>5, <2>2 DEF EndsAs
    <3>2. how \notin Reported
      BY <1>4, <2>2 DEF SoundHandler, Reported, caught
    <3> QED BY <1>1, <1>3, <1>4, <2>2, <3>1, <3>2, UntoldCallIsKept
  <2> QED BY <2>1, <2>2
<1>8. OwnerIsOutermost' /\ inside' \in Calls \union {Nobody}
      /\ owner' \in Calls \union {Nobody} /\ context' \in Tasks
  BY <1>1, <1>6, LeaveRestores
<1> QED BY <1>6, <1>7, <1>8 DEF CallsInv, StateOK

\* A step on an open stream, told or not, touches neither the context nor the owner.
LEMMA StreamStepKeeps ==
  ASSUME CallsInv, NEW c \in Calls, OpenStream(c), OutOfCall,
         NEW at \in {"stream", "over"}, NEW how \in Endings, NEW told \in BOOLEAN,
         EndsAs(c, at, how, told), RecordsOK',
         \A d \in Calls : KeptOf(d)' /\ StoredOf(d)'
  PROVE  CallsInv'
<1>1. StateOK /\ OwnerIsOutermost /\ UNCHANGED <<inside, context, owner>>
  BY DEF CallsInv, OutOfCall
<1>2. /\ op' \in [Calls -> CallRecord] /\ op'[c].at = at
      /\ \A d \in Calls \ {c} : op'[d] = op[d]
  BY <1>1, EndsAsFields
<1>3. OwnerIsOutermost'
  BY <1>1, <1>2 DEF OwnerIsOutermost
<1>4. StateOK'
  BY <1>1, <1>2 DEF StateOK
<1> QED BY <1>3, <1>4 DEF CallsInv

\* What an open stream has kept, and what its wrapper does.
LEMMA StreamFacts ==
  ASSUME CallsInv, NEW c \in Calls, OpenStream(c)
  PROVE  /\ op[c].at # "new" /\ op[c].ended \in Endings
         /\ op[c].ended = "no" => ~op[c].settled
         /\ op[c].ended # "dropped"
         /\ op[c].ended \in Reported => op[c].settled
         /\ SoundStream(op[c].wrapper.stream)
<1>1. op[c].at = "stream" /\ KeptOf(c) /\ op[c] \in CallRecord
  BY DEF CallsInv, StateOK, OpenStream
<1>2. op[c].wrapper \in Wrappers
  BY <1>1 DEF KeptOf
<1> QED BY <1>1, <1>2, WrappersAreSound DEF KeptOf, CallRecord

LEMMA ExhaustKeeps ==
  ASSUME CallsInv, NEW c \in Calls, NEW status \in {"succeeded", "failed", "unknown"},
         Exhaust(c, status)
  PROVE  CallsInv'
<1>1. /\ OpenStream(c) /\ op[c].ended = "no" /\ EndsAs(c, "stream", status, TRUE)
      /\ Settle(c, status) /\ OutOfCall
  BY DEF Exhaust
<1>2. /\ status \in Endings \ {"no"} /\ status \in Statuses /\ Tells(status, status)
  BY DEF Endings, Statuses, Tells
<1>3. op[c].at # "new" /\ ~op[c].settled
  BY <1>1, StreamFacts
<1>4. RecordsOK' /\ \A d \in Calls : KeptOf(d)' /\ StoredOf(d)'
  BY <1>1, <1>2, <1>3, ToldCallIsStored
<1> QED BY <1>1, <1>2, <1>4, StreamStepKeeps, Zenon

LEMMA BreakKeeps ==
  ASSUME CallsInv, NEW c \in Calls, NEW how \in {"error", "cancel"}, Break(c, how)
  PROVE  CallsInv'
<1> DEFINE stream == op[c].wrapper.stream
           told == how \in stream.consume
<1>1. /\ OpenStream(c) /\ op[c].ended = "no" /\ EndsAs(c, "stream", how, told)
      /\ IF told THEN Settle(c, "failed") ELSE UNCHANGED <<recorded, taskRow, faults>>
      /\ OutOfCall
  BY DEF Break
<1>2. op[c].at # "new" /\ ~op[c].settled /\ SoundStream(stream)
  BY <1>1, StreamFacts
<1>3. how \in Endings \ {"no"}
  BY DEF Endings
<1> HIDE DEF stream
<1>4. told \in BOOLEAN
  OBVIOUS
<1> HIDE DEF told
<1>5. CASE told
  <2>1. EndsAs(c, "stream", how, TRUE)
    BY <1>1, <1>4, <1>5 DEF EndsAs
  <2>2. "failed" \in Statuses /\ Tells(how, "failed")
    BY DEF Statuses, Tells
  <2>3. RecordsOK' /\ \A d \in Calls : KeptOf(d)' /\ StoredOf(d)'
    BY <1>1, <1>2, <1>3, <1>5, <2>1, <2>2, ToldCallIsStored
  <2> QED BY <1>1, <1>3, <1>4, <2>3, StreamStepKeeps
<1>6. CASE ~told
  <2>1. EndsAs(c, "stream", how, FALSE)
    BY <1>1, <1>4, <1>6 DEF EndsAs
  <2>2. how \notin Reported
    BY <1>2, <1>6 DEF SoundStream, Reported, told
  <2>3. RecordsOK' /\ \A d \in Calls : KeptOf(d)' /\ StoredOf(d)'
    BY <1>1, <1>2, <1>3, <1>6, <2>1, <2>2, UntoldCallIsKept
  <2> QED BY <1>1, <1>3, <1>4, <2>3, StreamStepKeeps
<1> QED BY <1>5, <1>6

LEMMA CloseKeeps ==
  ASSUME CallsInv, NEW c \in Calls, Close(c)
  PROVE  CallsInv'
<1> DEFINE how == First(c, "closed")
<1>1. /\ OpenStream(c) /\ EndsAs(c, "over", how, TRUE) /\ Settle(c, "cancelled") /\ OutOfCall
  BY DEF Close
<1>2. how \in Endings \ {"no"} /\ (op[c].settled => how = op[c].ended) /\ op[c].at # "new"
  BY <1>1, StreamFacts DEF First, Endings
<1>3. "cancelled" \in Statuses
  BY DEF Statuses
<1>4. ~op[c].settled => Tells(how, "cancelled")
  BY <1>1, <1>2, StreamFacts DEF First, Tells, Reported
<1> HIDE DEF how
<1>5. RecordsOK' /\ \A d \in Calls : KeptOf(d)' /\ StoredOf(d)'
  BY <1>1, <1>2, <1>3, <1>4, ToldCallIsStored
<1> QED BY <1>1, <1>2, <1>5, StreamStepKeeps, Zenon

LEMMA CloseRaisesKeeps ==
  ASSUME CallsInv, NEW c \in Calls, NEW raised \in {"error", "cancel"}, CloseRaises(c, raised)
  PROVE  CallsInv'
<1> DEFINE stream == op[c].wrapper.stream
           how == First(c, CloseRaised[raised])
           told == stream.broken = "cancelled" \/ raised \in stream.close
<1>1. /\ OpenStream(c) /\ EndsAs(c, "over", how, told)
      /\ IF told THEN Settle(c, stream.broken) ELSE UNCHANGED <<recorded, taskRow, faults>>
      /\ OutOfCall
  BY DEF CloseRaises
<1>2. /\ CloseRaised[raised] \in {"close raised error", "close raised cancel"}
      /\ raised = "cancel" => CloseRaised[raised] = "close raised cancel"
  <2>1. CloseRaised["error"] = "close raised error" /\ CloseRaised["cancel"] = "close raised cancel"
    BY DEF CloseRaised
  <2> QED BY <2>1
<1>3. how \in Endings \ {"no"} /\ (op[c].settled => how = op[c].ended) /\ op[c].at # "new"
  BY <1>1, <1>2, StreamFacts DEF First, Endings
<1>4. SoundStream(stream)
  BY <1>1, StreamFacts
<1>5. ~op[c].settled => how \in {"cancel", "close raised error", "close raised cancel"}
  BY <1>1, <1>2, StreamFacts DEF First, Reported, Endings
<1>6. how = "close raised error" /\ ~op[c].settled => raised = "error"
  BY <1>1, <1>2, StreamFacts DEF First, Reported
<1> HIDE DEF how, stream
<1>7. told \in BOOLEAN
  OBVIOUS
<1> HIDE DEF told
<1>8. CASE told
  <2>1. EndsAs(c, "over", how, TRUE)
    BY <1>1, <1>7, <1>8 DEF EndsAs
  <2>2. stream.broken \in Statuses /\ (~op[c].settled => Tells(how, stream.broken))
    BY <1>4, <1>5 DEF SoundStream, Statuses, Tells
  <2>3. RecordsOK' /\ \A d \in Calls : KeptOf(d)' /\ StoredOf(d)'
    BY <1>1, <1>3, <1>8, <2>1, <2>2, ToldCallIsStored
  <2> QED BY <1>1, <1>3, <1>7, <2>3, StreamStepKeeps
<1>9. CASE ~told
  <2>1. EndsAs(c, "over", how, FALSE)
    BY <1>1, <1>7, <1>9 DEF EndsAs
  <2>2. ~op[c].settled => how \notin Reported
    BY <1>4, <1>5, <1>6, <1>9 DEF SoundStream, Reported, told
  <2>3. RecordsOK' /\ \A d \in Calls : KeptOf(d)' /\ StoredOf(d)'
    BY <1>1, <1>3, <1>9, <2>1, <2>2, UntoldCallIsKept
  <2> QED BY <1>1, <1>3, <1>7, <2>3, StreamStepKeeps
<1> QED BY <1>8, <1>9

LEMMA DropKeeps ==
  ASSUME CallsInv, NEW c \in Calls, Drop(c)
  PROVE  CallsInv'
<1> DEFINE how == First(c, "dropped")
           told == op[c].wrapper.stream.drop
<1>1. /\ OpenStream(c) /\ EndsAs(c, "over", how, told)
      /\ IF told THEN Settle(c, "cancelled") ELSE UNCHANGED <<recorded, taskRow, faults>>
      /\ OutOfCall
  BY DEF Drop
<1>2. how \in Endings \ {"no"} /\ (op[c].settled => how = op[c].ended) /\ op[c].at # "new"
  BY <1>1, StreamFacts DEF First, Endings
<1>3. ~op[c].settled => how \notin Reported
  BY <1>1, StreamFacts DEF First, Reported
<1>4. "cancelled" \in Statuses /\ (~op[c].settled => Tells(how, "cancelled"))
  BY <1>1, <1>2, StreamFacts DEF First, Statuses, Tells, Reported
<1> HIDE DEF how, told
<1>5. CASE told
  <2>1. EndsAs(c, "over", how, TRUE)
    BY <1>1, <1>5 DEF EndsAs
  <2>2. RecordsOK' /\ \A d \in Calls : KeptOf(d)' /\ StoredOf(d)'
    BY <1>1, <1>2, <1>4, <1>5, <2>1, ToldCallIsStored
  <2> QED BY <1>1, <1>2, <2>1, <2>2, StreamStepKeeps, Zenon
<1>6. CASE ~told
  <2>1. EndsAs(c, "over", how, FALSE)
    BY <1>1, <1>6 DEF EndsAs
  <2>2. RecordsOK' /\ \A d \in Calls : KeptOf(d)' /\ StoredOf(d)'
    BY <1>1, <1>2, <1>3, <1>6, <2>1, UntoldCallIsKept
  <2> QED BY <1>1, <1>2, <2>1, <2>2, StreamStepKeeps, Zenon
<1> QED BY <1>5, <1>6

LEMMA SwitchTaskKeeps == CallsInv /\ SwitchTask => CallsInv'
<1> SUFFICES ASSUME CallsInv, SwitchTask PROVE CallsInv'
  OBVIOUS
<1>1. /\ UNCHANGED <<op, inside, owner, recorded, taskRow, faults>>
      /\ context' \in {Nobody, AppTask}
  BY DEF SwitchTask
<1>2. StateOK' /\ OwnerIsOutermost'
  BY <1>1 DEF CallsInv, StateOK, RecordsOK, OwnerIsOutermost, Tasks
<1>3. \A c \in Calls : KeptOf(c)' /\ StoredOf(c)'
  BY <1>1 DEF CallsInv, KeptOf, StoredOf
<1> QED BY <1>2, <1>3 DEF CallsInv

LEMMA CallsInvIsInductive == CallsSpec => []CallsInv
<1>1. ASSUME CallsInv, [CallsNext]_callVars PROVE CallsInv'
  <2>1. ASSUME NEW c \in Calls, NEW w \in Wrappers, Enter(c, w) PROVE CallsInv'
    BY <1>1, <2>1, EnterKeeps
  <2>2. ASSUME NEW c \in Calls, Answer(c, "succeeded") \/ ReturnStream(c) PROVE CallsInv'
    BY <1>1, <2>2, AnswerKeeps, ReturnStreamKeeps
  <2>3. ASSUME NEW c \in Calls, NEW how \in {"error", "cancel"},
               Raise(c, how) \/ Break(c, how) \/ CloseRaises(c, how)
        PROVE  CallsInv'
    BY <1>1, <2>3, RaiseKeeps, BreakKeeps, CloseRaisesKeeps
  <2>4. ASSUME NEW c \in Calls, NEW status \in {"succeeded", "failed", "unknown"},
               Exhaust(c, status)
        PROVE  CallsInv'
    BY <1>1, <2>4, ExhaustKeeps
  <2>5. ASSUME NEW c \in Calls, Close(c) \/ Drop(c) PROVE CallsInv'
    BY <1>1, <2>5, CloseKeeps, DropKeeps
  <2>6. CASE SwitchTask
    BY <1>1, <2>6, SwitchTaskKeeps
  <2>7. CASE UNCHANGED callVars
    BY <1>1, <2>7 DEF CallsInv, StateOK, RecordsOK, OwnerIsOutermost, KeptOf, StoredOf, callVars
  <2> QED BY <1>1, <2>1, <2>2, <2>3, <2>4, <2>5, <2>6, <2>7 DEF CallsNext
<1> QED BY <1>1, CallsInitInv, PTL DEF CallsSpec

\* Every variable of the wrappers holds a value of its kind, however calls nest
\* (instruments/_capture.py, auto_task.py).
THEOREM CallsTypeCorrect == CallsSpec => []CallsTypeOK
<1>1. CallsInv => CallsTypeOK
  <2> SUFFICES ASSUME CallsInv PROVE CallsTypeOK
    OBVIOUS
  <2>1. StateOK
    BY DEF CallsInv
  <2>2. ASSUME NEW c \in Calls
        PROVE  /\ op[c].at \in {"new", "wire", "stream", "over"}
               /\ op[c].wrapper \in Wrappers \cup {NoWrapper}
               /\ op[c].claimed \in BOOLEAN /\ op[c].settled \in BOOLEAN
               /\ op[c].parent \in Calls \cup {Nobody}
               /\ op[c].task \in Tasks /\ op[c].before \in Tasks
               /\ taskRow[c] \in {"none", "success", "failed"}
    <3>1. op[c] \in CallRecord
      BY <2>1 DEF StateOK
    <3> QED BY <2>1, <3>1 DEF CallRecord, StateOK, RecordsOK
  <2> QED BY <2>1, <2>2 DEF StateOK, RecordsOK, Tasks, CallsTypeOK
<1> QED BY <1>1, CallsInvIsInductive, PTL

\* One call of the application is never two events, whichever of its endings come
\* together and however gateways and SDKs nest, and it is not lost either, unless the
\* storage refused it (instruments/_capture.py provider_capture_scope).
THEOREM OneCallOneEvent == CallsSpec => []RecordedExactlyOnce
<1>1. CallsInv => RecordedExactlyOnce
  BY DEF CallsInv, KeptOf, StoredOf, RecordedExactlyOnce
<1> QED BY <1>1, CallsInvIsInductive, PTL

\* The first ending of a call is the one its event tells.
THEOREM FirstEndingIsTold == CallsSpec => []RecordedAsItEnded
<1>1. CallsInv => RecordedAsItEnded
  <2> SUFFICES ASSUME CallsInv, NEW c \in Calls, recorded[c] # << >>
               PROVE  CASE op[c].ended \in {"succeeded", "failed", "unknown"} ->
                             recorded[c][1].status = op[c].ended
                        [] op[c].ended = "error" -> recorded[c][1].status = "failed"
                        [] op[c].ended \in {"closed", "dropped"} ->
                             recorded[c][1].status = "cancelled"
                        [] OTHER -> recorded[c][1].status \in {"failed", "cancelled"}
    BY DEF RecordedAsItEnded
  <2>1. op[c].ended \in Endings
    BY DEF CallsInv, StateOK, CallRecord
  <2>2. Tells(op[c].ended, recorded[c][1].status)
    BY DEF CallsInv, StoredOf
  <2> QED BY <2>1, <2>2 DEF Tells, Endings
<1> QED BY <1>1, CallsInvIsInductive, PTL

\* An event is charged to the task its call was made in, whatever runs when it ends.
THEOREM EventsStayWithTheirTask == CallsSpec => []AttributedWhereItBegan
<1>1. CallsInv => AttributedWhereItBegan
  <2> SUFFICES ASSUME CallsInv, NEW c \in Calls, NEW i \in DOMAIN recorded[c]
               PROVE  recorded[c][i].task = IF op[c].before = Nobody THEN c ELSE op[c].before
    BY DEF AttributedWhereItBegan
  <2>1. recorded[c] \in Seq(Event) /\ Len(recorded[c]) <= 1 /\ KeptOf(c) /\ StoredOf(c)
    BY DEF CallsInv, StateOK, RecordsOK, StoredOf
  <2>2. i = 1 /\ recorded[c] # << >>
    BY <2>1
  <2> QED BY <2>1, <2>2 DEF KeptOf, StoredOf
<1> QED BY <1>1, CallsInvIsInductive, PTL

\* Between two calls the context holds a task of the application or none.
THEOREM NothingIsLeftBehind == CallsSpec => []ContextIsRestored
<1>1. CallsInv => ContextIsRestored
  BY DEF CallsInv, OwnerIsOutermost, KeptOf, ContextIsRestored
<1> QED BY <1>1, CallsInvIsInductive, PTL

\* The row of an automatic task says what the event of its call says.
THEOREM TaskRowsMatch == CallsSpec => []TaskRowMatchesEvent
<1>1. CallsInv => TaskRowMatchesEvent
  BY DEF CallsInv, StoredOf, TaskRowMatchesEvent
<1> QED BY <1>1, CallsInvIsInductive, PTL

\* One call, one event, and the event tells the first ending (provider_capture_scope and
\* the settled flags of the stream wrappers).
THEOREM CallsAreToldOnce == CallsSpec => []CallIsToldOnce
BY OneCallOneEvent, FirstEndingIsTold, PTL DEF CallIsToldOnce

\* Event, context and task row all stay with the task the call began in.
THEOREM CallsStayWithTheirTask == CallsSpec => []CallStaysWithItsTask
BY EventsStayWithTheirTask, NothingIsLeftBehind, TaskRowsMatch, PTL DEF CallStaysWithItsTask
-----------------------------------------------------------------------------
(***************************************************************************)
(* FrameworkRuntime: any number of streams, listeners and events.          *)
(***************************************************************************)
RuntimeStateOK ==
  /\ RuntimeTypeOK
  /\ ownsTask \in BOOLEAN /\ flushes \in BOOLEAN /\ latched \in BOOLEAN
  /\ lateFlush \in BOOLEAN /\ flaws \in BOOLEAN
  /\ endings \in [Outcomes3 -> {0, 1}]

\* While the verdict is open, what has failed is latched, or about to be reported; then the
\* verdict stands, and the task is ended with nothing else.
VerdictStands ==
  /\ \A s \in Streams : terminals[s] = "failed" => flaws
  /\ phase \in {"idle", "running", "streaming"} =>
       /\ latched => flaws \/ news = "heard"
       /\ flaws => latched \/ \E s \in Streams : terminals[s] = "failed"
       /\ news = "heard" => latched
  /\ phase = "idle" => ~latched
  /\ phase \in {"flushing", "flushed", "closed", "ended"} =>
       verdict = (IF flaws \/ news = "heard" THEN "failed" ELSE "success")
  /\ \A o \in Outcomes3 : endings[o] = 1 => phase = "ended" /\ verdict = o

\* The streams whose end has not been reported.
OpenStreams == {s \in Streams : terminals[s] \in Outcomes3 \union {"live"}}

\* They are counted exactly while the execution streams.
RootsAreOpenStreams ==
  /\ roots = Cardinality(OpenStreams)
  /\ phase = "streaming" <=> OpenStreams # {}

Holding == {"claimed", "recorded"}

\* A claim is held by one listener, and whoever was turned away was so because of it.
ClaimsAreHeld ==
  /\ \A e \in ToolEvents : \A k, l \in Listeners :
       handling[<<k, e>>] \in Holding /\ handling[<<l, e>>] \in Holding => k = l
  /\ \A e \in ToolEvents :
       e \in claims <=> \E l \in Listeners : handling[<<l, e>>] \in Holding
  /\ phase \in {"closed", "ended"} => (flushes /\ ~lateFlush =>
       \A d \in Deliveries : handling[d] = "ignored" => d[2] \in claims)
  /\ phase \notin {"closed", "ended"} =>
       \A d \in Deliveries : handling[d] = "ignored" => d[2] \in claims

\* A flush that was in time left nothing to handle, and the end counted what was stored.
FlushedIsHandled ==
  (phase \in {"flushed", "closed", "ended"} /\ flushes /\ ~lateFlush) =>
    /\ Handled
    /\ \A o \in Outcomes3 : endings[o] = 1 => addedUp = Stored

\* No event comes before the call.
NothingYet == phase = "idle" => /\ \A d \in Deliveries : handling[d] = "none"
                                /\ news = "none"

RuntimeInv == /\ RuntimeStateOK /\ NothingYet /\ VerdictStands /\ RootsAreOpenStreams
              /\ ClaimsAreHeld /\ FlushedIsHandled
-----------------------------------------------------------------------------
LEMMA RuntimeStateStays ==
  ASSUME RuntimeInv, RuntimeNext
  PROVE  RuntimeStateOK'
<1> USE DEF RuntimeStateOK, RuntimeTypeOK, Outcomes3
<1>1. RuntimeStateOK
  BY DEF RuntimeInv
<1>2. ASSUME NEW owned \in BOOLEAN, NEW hook \in BOOLEAN, Invoke(owned, hook)
      PROVE  RuntimeStateOK'
  BY <1>1, <1>2 DEF Invoke
<1>3. ASSUME NEW status \in Outcomes3, FinishInvocation(status)
      PROVE  RuntimeStateOK'
  BY <1>1, <1>3 DEF FinishInvocation, Decide
<1>4. ASSUME NEW some \in SUBSET Streams, AddStreams(some)
      PROVE  RuntimeStateOK'
  <2>1. Cardinality(some) \in Nat
    BY RuntimeAssumption, FS_Subset, FS_CardinalityType
  <2>2. terminals' \in [Streams -> Outcomes3 \union {"none", "live", "done"}]
    BY <1>4 DEF AddStreams
  <2>3. roots' \in Nat
    BY <1>1, <1>4, <2>1 DEF AddStreams
  <2> QED BY <1>1, <1>4, <2>2, <2>3 DEF AddStreams
<1>5. ASSUME NEW s \in Streams, NEW status \in Outcomes3, Terminate(s, status)
      PROVE  RuntimeStateOK'
  <2>1. terminals' \in [Streams -> Outcomes3 \union {"none", "live", "done"}]
    BY <1>1, <1>5 DEF Terminate
  <2> QED BY <1>1, <1>5, <2>1 DEF Terminate
<1>6. ASSUME NEW s \in Streams, StreamFinished(s)
      PROVE  RuntimeStateOK'
  <2>1. terminals' \in [Streams -> Outcomes3 \union {"none", "live", "done"}]
    BY <1>1, <1>6 DEF StreamFinished
  <2>2. roots' \in Nat
    BY <1>1, <1>6 DEF StreamFinished
  <2>3. /\ phase' \in {phase, "flushing"}
        /\ verdict' \in {verdict, "failed", "success"}
        /\ latched' \in BOOLEAN /\ flaws' \in BOOLEAN
    BY <1>1, <1>6 DEF StreamFinished, Decide
  <2> QED BY <1>1, <1>6, <2>1, <2>2, <2>3 DEF StreamFinished
<1>7. CASE ReportFailure \/ MarkFailed
  <2>1. latched' \in BOOLEAN /\ news' \in {"none", "queued", "heard", "late"}
    BY <1>1, <1>7 DEF ReportFailure, MarkFailed
  <2> QED BY <1>1, <1>7, <2>1 DEF ReportFailure, MarkFailed
<1>8. ASSUME NEW e \in ToolEvents, Emit(e)
      PROVE  RuntimeStateOK'
  <2>1. handling' \in [Deliveries -> {"none", "queued", "claimed", "recorded", "ignored"}]
    BY <1>1, <1>8 DEF Emit
  <2> QED BY <1>1, <1>8, <2>1 DEF Emit
<1>9. ASSUME NEW d \in Deliveries, ClaimEvent(d) \/ StoreRuntimeEvent(d)
      PROVE  RuntimeStateOK'
  <2>1. handling' \in [Deliveries -> {"none", "queued", "claimed", "recorded", "ignored"}]
    BY <1>1, <1>9 DEF ClaimEvent, StoreRuntimeEvent
  <2>2. d[2] \in ToolEvents
    BY DEF Deliveries
  <2>3. claims' \subseteq ToolEvents
    BY <1>1, <1>9, <2>2 DEF ClaimEvent, StoreRuntimeEvent
  <2> QED BY <1>1, <1>9, <2>1, <2>3 DEF ClaimEvent, StoreRuntimeEvent
<1>10. CASE Flush \/ CloseInvocation
  BY <1>1, <1>10 DEF Flush, CloseInvocation, Handled
<1>11. ASSUME NEW written \in BOOLEAN, EndTask(written)
       PROVE  RuntimeStateOK'
  <2>1. \A o \in Outcomes3 : endings[o] = 0
    BY <1>1, <1>11 DEF EndTask, RuntimeInv, VerdictStands
  <2>2. endings' \in [Outcomes3 -> {0, 1}] /\ addedUp' \subseteq ToolEvents
    BY <1>1, <1>11, <2>1 DEF EndTask, Stored
  <2> QED BY <1>1, <1>11, <2>2 DEF EndTask
<1> QED BY <1>2, <1>3, <1>4, <1>5, <1>6, <1>7, <1>8, <1>9, <1>10, <1>11 DEF RuntimeNext

LEMMA RootsStay ==
  ASSUME RuntimeInv, RuntimeNext
  PROVE  RootsAreOpenStreams'
<1>1. /\ RuntimeTypeOK /\ RootsAreOpenStreams
      /\ terminals \in [Streams -> Outcomes3 \union {"none", "live", "done"}]
      /\ IsFiniteSet(OpenStreams) /\ roots \in Nat
  BY RuntimeAssumption, FS_Subset DEF RuntimeInv, RuntimeStateOK, RuntimeTypeOK, OpenStreams
<1>2. ASSUME UNCHANGED <<terminals, roots>>, phase' = "streaming" <=> phase = "streaming"
      PROVE  RootsAreOpenStreams'
  BY <1>1, <1>2 DEF RootsAreOpenStreams, OpenStreams
<1>3. ASSUME NEW some \in SUBSET Streams, AddStreams(some)
      PROVE  RootsAreOpenStreams'
  <2>1. OpenStreams = {} /\ roots = 0
    BY <1>1, <1>3, FS_EmptySet DEF AddStreams, RootsAreOpenStreams
  <2>2. OpenStreams' = some
    BY <1>3 DEF AddStreams, OpenStreams, Outcomes3
  <2>3. Cardinality(some) \in Nat
    BY RuntimeAssumption, FS_Subset, FS_CardinalityType
  <2> QED BY <1>3, <2>1, <2>2, <2>3 DEF AddStreams, RootsAreOpenStreams
<1>4. ASSUME NEW s \in Streams, NEW status \in Outcomes3, Terminate(s, status)
      PROVE  RootsAreOpenStreams'
  <2>1. OpenStreams' = OpenStreams
    BY <1>1, <1>4 DEF Terminate, OpenStreams
  <2> QED BY <1>1, <1>4, <2>1 DEF Terminate, RootsAreOpenStreams
<1>5. ASSUME NEW s \in Streams, StreamFinished(s)
      PROVE  RootsAreOpenStreams'
  <2>1. s \in OpenStreams /\ OpenStreams' = OpenStreams \ {s}
    BY <1>1, <1>5 DEF StreamFinished, OpenStreams, Outcomes3
  <2>2. Cardinality(OpenStreams') = roots - 1
    BY <1>1, <2>1, FS_RemoveElement DEF RootsAreOpenStreams
  <2>3. roots = 1 <=> OpenStreams' = {}
    BY <1>1, <2>1, <2>2, FS_EmptySet, FS_Subset
  <2>4. phase = "streaming"
    BY <1>1, <2>1 DEF RootsAreOpenStreams
  <2>5. \/ roots = 1 /\ phase' = "flushing"
        \/ roots > 1 /\ phase' = phase
    BY <1>1, <1>5 DEF StreamFinished, Decide
  <2> QED BY <1>1, <1>5, <2>2, <2>3, <2>4, <2>5 DEF StreamFinished, RootsAreOpenStreams
<1>6. ASSUME NEW owned \in BOOLEAN, NEW hook \in BOOLEAN, Invoke(owned, hook)
      PROVE  RootsAreOpenStreams'
  BY <1>2, <1>6 DEF Invoke
<1>7. ASSUME NEW status \in Outcomes3, FinishInvocation(status)
      PROVE  RootsAreOpenStreams'
  BY <1>2, <1>7 DEF FinishInvocation, Decide
<1>8. ASSUME NEW e \in ToolEvents, Emit(e)
      PROVE  RootsAreOpenStreams'
  BY <1>2, <1>8 DEF Emit
<1>9. ASSUME NEW d \in Deliveries, ClaimEvent(d) \/ StoreRuntimeEvent(d)
      PROVE  RootsAreOpenStreams'
  BY <1>2, <1>9 DEF ClaimEvent, StoreRuntimeEvent
<1>10. CASE \/ ReportFailure \/ MarkFailed \/ Flush \/ CloseInvocation
            \/ \E written \in BOOLEAN : EndTask(written)
  BY <1>2, <1>10 DEF ReportFailure, MarkFailed, Open, Flush, CloseInvocation, EndTask
<1> QED BY <1>3, <1>4, <1>5, <1>6, <1>7, <1>8, <1>9, <1>10 DEF RuntimeNext

\* Nobody has reported a stream that is not open.
LEMMA OnlyOpenStreamsFail ==
  ASSUME RuntimeInv, phase # "streaming"
  PROVE  \A s \in Streams : terminals[s] \notin Outcomes3 \union {"live"}
BY DEF RuntimeInv, RootsAreOpenStreams, OpenStreams

LEMMA VerdictStays ==
  ASSUME RuntimeInv, RuntimeNext
  PROVE  VerdictStands'
<1>1. /\ RuntimeTypeOK /\ latched \in BOOLEAN /\ flaws \in BOOLEAN
      /\ endings \in [Outcomes3 -> {0, 1}] /\ VerdictStands
      /\ terminals \in [Streams -> Outcomes3 \union {"none", "live", "done"}]
  BY DEF RuntimeInv, RuntimeStateOK, RuntimeTypeOK
<1>13. phase # "streaming" => \A s \in Streams : terminals[s] # "failed" /\ terminals[s] # "live"
  BY OnlyOpenStreamsFail DEF Outcomes3
<1> USE DEF VerdictStands
<1>2. ASSUME NEW owned \in BOOLEAN, NEW hook \in BOOLEAN, Invoke(owned, hook)
      PROVE  VerdictStands'
  BY <1>1, <1>2 DEF Invoke
<1>3. ASSUME NEW status \in Outcomes3, FinishInvocation(status)
      PROVE  VerdictStands'
  BY <1>1, <1>3, <1>13 DEF FinishInvocation, Decide
<1>4. ASSUME NEW some \in SUBSET Streams, AddStreams(some)
      PROVE  VerdictStands'
  BY <1>1, <1>4, <1>13 DEF AddStreams
<1>5. ASSUME NEW s \in Streams, NEW status \in Outcomes3, Terminate(s, status)
      PROVE  VerdictStands'
  <2>1. phase = "streaming" /\ phase' = phase
    BY <1>5, <1>13 DEF Terminate
  <2>2. \A r \in Streams : terminals'[r] = IF r = s THEN status ELSE terminals[r]
    BY <1>1, <1>5 DEF Terminate
  <2>3. /\ latched' = latched /\ news' = news /\ endings' = endings
        /\ flaws' = (flaws \/ status = "failed") /\ terminals[s] = "live"
    BY <1>5 DEF Terminate
  <2>4. flaws' => latched \/ \E r \in Streams : terminals'[r] = "failed"
    <3>1. CASE status = "failed"
      BY <2>2, <3>1
    <3>2. CASE status # "failed"
      BY <1>1, <2>1, <2>2, <2>3, <3>2
    <3> QED BY <3>1, <3>2
  <2>5. \A r \in Streams : terminals'[r] = "failed" => flaws'
    BY <1>1, <2>2, <2>3
  <2>6. verdict' = verdict
    BY <1>5 DEF Terminate
  <2> QED BY <1>1, <2>1, <2>3, <2>4, <2>5, <2>6
<1>6. ASSUME NEW s \in Streams, StreamFinished(s)
      PROVE  VerdictStands'
  <2>1. phase = "streaming" /\ terminals[s] \in Outcomes3
    BY <1>6, <1>13, OnlyOpenStreamsFail DEF StreamFinished
  <2>2. \A r \in Streams : terminals'[r] = IF r = s THEN "done" ELSE terminals[r]
    BY <1>1, <1>6 DEF StreamFinished
  <2>3. /\ flaws' = flaws /\ news' = news /\ endings' = endings
        /\ latched' = (latched \/ terminals[s] = "failed")
    BY <1>6 DEF StreamFinished, Decide
  <2>4. terminals[s] = "failed" => flaws
    BY <1>1
  <2>5. flaws => latched' \/ \E r \in Streams : terminals'[r] = "failed"
    BY <1>1, <2>1, <2>2, <2>3
  <2>8. \A r \in Streams : terminals'[r] = "failed" => flaws'
    BY <1>1, <2>2, <2>3
  <2>6. CASE roots > 1
    <3>1. phase' = phase /\ verdict' = verdict
      BY <1>1, <1>6, <2>6 DEF StreamFinished, RuntimeTypeOK
    <3> QED BY <1>1, <2>1, <2>3, <2>4, <2>5, <2>8, <3>1
  <2>7. CASE roots = 1
    <3>1. phase' = "flushing" /\ verdict' = IF latched' THEN "failed" ELSE "success"
      BY <1>6, <2>7 DEF StreamFinished, Decide
    <3>2. \A r \in Streams : terminals'[r] # "failed"
      <4>1. RootsAreOpenStreams'
        BY <1>6, RootsStay DEF RuntimeNext
      <4>2. OpenStreams' = {}
        BY <3>1, <4>1 DEF RootsAreOpenStreams
      <4> QED BY <4>2 DEF OpenStreams, Outcomes3
    <3>3. latched' <=> flaws \/ news = "heard"
      BY <1>1, <2>1, <2>3, <2>4, <2>5, <3>2
    <3>4. latched' => flaws' \/ news' = "heard"
      BY <2>3, <3>3
    <3>5. flaws' => latched'
      BY <2>3, <3>3
    <3> QED BY <1>1, <2>1, <2>3, <2>8, <3>1, <3>3, <3>4, <3>5
  <2> QED BY <1>1, <1>6, <2>6, <2>7 DEF StreamFinished
<1>7. CASE ReportFailure
  BY <1>1, <1>7 DEF ReportFailure, Open
<1>12. CASE MarkFailed
  BY <1>1, <1>12 DEF MarkFailed, Open, NotClosed, RuntimeTypeOK
<1>8. ASSUME NEW e \in ToolEvents, Emit(e)
      PROVE  VerdictStands'
  BY <1>1, <1>8 DEF Emit
<1>9. ASSUME NEW d \in Deliveries, ClaimEvent(d) \/ StoreRuntimeEvent(d)
      PROVE  VerdictStands'
  BY <1>1, <1>9 DEF ClaimEvent, StoreRuntimeEvent
<1>10. CASE Flush \/ CloseInvocation
  BY <1>1, <1>10 DEF Flush, CloseInvocation
<1>11. ASSUME NEW written \in BOOLEAN, EndTask(written)
       PROVE  VerdictStands'
  <2>1. \A o \in Outcomes3 : endings[o] = 0
    BY <1>1, <1>11 DEF EndTask
  <2>2. \A o \in Outcomes3 : endings'[o] = 1 => verdict = o
    BY <1>1, <1>11, <2>1 DEF EndTask
  <2> QED BY <1>1, <1>11, <2>2 DEF EndTask
<1> QED BY <1>2, <1>3, <1>4, <1>5, <1>6, <1>7, <1>8, <1>9, <1>10, <1>11, <1>12 DEF RuntimeNext

LEMMA ClaimsStay ==
  ASSUME RuntimeInv, RuntimeNext
  PROVE  ClaimsAreHeld' /\ FlushedIsHandled'
<1>1. /\ phase \in {"idle", "running", "streaming", "flushing", "flushed", "closed", "ended"}
      /\ handling \in [Deliveries -> {"none", "queued", "claimed", "recorded", "ignored"}]
      /\ claims \subseteq ToolEvents
      /\ endings \in [Outcomes3 -> {0, 1}] /\ ClaimsAreHeld /\ FlushedIsHandled
      /\ \A o \in Outcomes3 : endings[o] = 1 => phase = "ended"
  BY DEF RuntimeInv, RuntimeStateOK, RuntimeTypeOK, VerdictStands
<1>2. ASSUME UNCHANGED <<handling, claims, endings, addedUp, flushes, lateFlush>>,
             \/ phase' \notin {"flushed", "closed", "ended"}
             \/ phase' = phase
             \/ phase = "flushed" /\ phase' = "closed"
             \/ phase = "closed" /\ phase' = "ended",
             phase \in {"flushed", "closed", "ended"} =>
               phase' \in {"flushed", "closed", "ended"},
             phase \in {"closed", "ended"} => phase' \in {"closed", "ended"},
             news' = "queued" => news = "queued"
      PROVE  ClaimsAreHeld' /\ FlushedIsHandled'
  <2>1. ClaimsAreHeld'
    BY <1>1, <1>2 DEF ClaimsAreHeld
  <2>2. FlushedIsHandled'
    BY <1>1, <1>2 DEF FlushedIsHandled, Handled, Stored
  <2> QED BY <2>1, <2>2
<1>3. ASSUME NEW e \in ToolEvents, Emit(e)
      PROVE  ClaimsAreHeld' /\ FlushedIsHandled'
  <2>1. phase' \in {"running", "streaming"} /\ phase' = phase
    BY <1>3 DEF Emit, Open
  <2>2. \A l \in Listeners, f \in ToolEvents :
          /\ handling'[<<l, f>>] = IF f = e THEN "queued" ELSE handling[<<l, f>>]
          /\ f = e => handling[<<l, f>>] = "none"
    BY <1>1, <1>3 DEF Emit, Deliveries
  <2>3. \A d \in Deliveries : handling'[d] \in {handling[d], "queued"}
    BY <1>1, <1>3 DEF Emit
  <2>4. \A l \in Listeners, f \in ToolEvents :
          handling'[<<l, f>>] \in Holding <=> handling[<<l, f>>] \in Holding
    BY <2>2 DEF Holding
  <2>5. UNCHANGED claims
    BY <1>3 DEF Emit
  <2>6. ClaimsAreHeld'
    BY <1>1, <2>1, <2>3, <2>4, <2>5 DEF ClaimsAreHeld
  <2> QED BY <2>1, <2>6 DEF FlushedIsHandled
<1>4. ASSUME NEW d \in Deliveries, ClaimEvent(d)
      PROVE  ClaimsAreHeld' /\ FlushedIsHandled'
  <2> PICK l \in Listeners, e \in ToolEvents : d = <<l, e>>
    BY DEF Deliveries
  <2>1. handling[d] = "queued" /\ ~Handled
    BY <1>4 DEF ClaimEvent, Handled
  <2>2. UNCHANGED <<phase, flushes, lateFlush, endings, addedUp>>
    BY <1>4 DEF ClaimEvent
  <2>3. FlushedIsHandled'
    BY <1>1, <2>1, <2>2 DEF FlushedIsHandled
  <2>4. \A k \in Listeners, f \in ToolEvents :
          handling'[<<k, f>>] = IF <<k, f>> = d THEN handling'[d] ELSE handling[<<k, f>>]
    BY <1>1, <1>4 DEF ClaimEvent, Deliveries
  <2>5. \A c \in Deliveries : c # d => handling'[c] = handling[c]
    BY <1>1, <1>4 DEF ClaimEvent
  <2>6. CASE NotClosed /\ e \notin claims
    <3>1. handling'[d] = "claimed" /\ claims' = claims \union {e}
      BY <1>1, <1>4, <2>6 DEF ClaimEvent
    <3>2. \A k \in Listeners : handling[<<k, e>>] \notin Holding
      BY <1>1, <2>6 DEF ClaimsAreHeld
    <3> QED BY <1>1, <2>2, <2>3, <2>4, <2>5, <3>1, <3>2 DEF ClaimsAreHeld, Holding
  <2>7. CASE ~(NotClosed /\ e \notin claims)
    <3>1. handling'[d] = "ignored" /\ claims' = claims
      BY <1>1, <1>4, <2>7 DEF ClaimEvent
    <3>2. \A k \in Listeners, f \in ToolEvents :
            handling'[<<k, f>>] \in Holding <=> handling[<<k, f>>] \in Holding
      BY <2>1, <2>4, <3>1 DEF Holding
    <3>3. phase # "idle" => NotClosed \/ phase \in {"closed", "ended"}
      BY <1>1 DEF NotClosed
    <3>4. phase \in {"closed", "ended"} => ~(flushes /\ ~lateFlush)
      BY <1>1, <2>1 DEF FlushedIsHandled
    <3>5. phase # "idle"
      BY <1>4, <2>1 DEF RuntimeInv, NothingYet
    <3>6. ClaimsAreHeld'
      BY <1>1, <2>2, <2>5, <2>7, <3>1, <3>2, <3>3, <3>4, <3>5 DEF ClaimsAreHeld
    <3> QED BY <2>3, <3>6
  <2> QED BY <2>6, <2>7
<1>5. ASSUME NEW d \in Deliveries, StoreRuntimeEvent(d)
      PROVE  ClaimsAreHeld' /\ FlushedIsHandled'
  <2>1. handling[d] = "claimed" /\ ~Handled
    BY <1>5 DEF StoreRuntimeEvent, Handled
  <2>2. UNCHANGED <<phase, flushes, lateFlush, endings, addedUp, claims>>
    BY <1>5 DEF StoreRuntimeEvent
  <2>3. FlushedIsHandled'
    BY <1>1, <2>1, <2>2 DEF FlushedIsHandled
  <2>4. \A c \in Deliveries :
          /\ handling'[c] \in Holding <=> handling[c] \in Holding
          /\ handling'[c] = "ignored" <=> handling[c] = "ignored"
    BY <1>1, <1>5, <2>1 DEF StoreRuntimeEvent, Holding
  <2>5. \A k \in Listeners, f \in ToolEvents : <<k, f>> \in Deliveries
    BY DEF Deliveries
  <2>6. ClaimsAreHeld'
    BY <1>1, <2>2, <2>4, <2>5 DEF ClaimsAreHeld
  <2> QED BY <2>3, <2>6
<1>6. CASE Flush
  <2>1. ClaimsAreHeld'
    BY <1>1, <1>6 DEF Flush, ClaimsAreHeld
  <2>2. \A o \in Outcomes3 : endings[o] # 1
    BY <1>1, <1>6 DEF Flush
  <2>3. FlushedIsHandled'
    BY <1>6, <2>2 DEF Flush, FlushedIsHandled, Handled
  <2> QED BY <2>1, <2>3
<1>7. ASSUME NEW written \in BOOLEAN, EndTask(written)
      PROVE  ClaimsAreHeld' /\ FlushedIsHandled'
  <2>1. ClaimsAreHeld'
    BY <1>1, <1>7 DEF EndTask, ClaimsAreHeld
  <2>2. \A o \in Outcomes3 : endings[o] # 1
    BY <1>1, <1>7 DEF EndTask
  <2>3. FlushedIsHandled'
    BY <1>1, <1>7, <2>2 DEF EndTask, FlushedIsHandled, Handled, Stored
  <2> QED BY <2>1, <2>3
<1>8. CASE \E owned, hook \in BOOLEAN : Invoke(owned, hook)
  <2>1. /\ UNCHANGED <<handling, claims>> /\ phase = "idle" /\ phase' = "running"
    BY <1>8 DEF Invoke
  <2> QED BY <1>1, <2>1 DEF ClaimsAreHeld, FlushedIsHandled
<1>9. CASE \E status \in Outcomes3 : FinishInvocation(status)
  BY <1>1, <1>2, <1>9 DEF FinishInvocation, Decide
<1>10. CASE \E some \in SUBSET Streams : AddStreams(some)
  BY <1>1, <1>2, <1>10 DEF AddStreams
<1>11. CASE \E s \in Streams, status \in Outcomes3 : Terminate(s, status)
  <2>1. UNCHANGED <<phase, handling, claims, endings, addedUp, flushes, lateFlush, news>>
    BY <1>11 DEF Terminate
  <2> QED BY <1>2, <2>1
<1>12. ASSUME NEW s \in Streams, StreamFinished(s)
       PROVE  ClaimsAreHeld' /\ FlushedIsHandled'
  <2>1. phase = "streaming"
    BY <1>12 DEF StreamFinished, RuntimeInv, RootsAreOpenStreams, OpenStreams
  <2> QED BY <1>1, <1>2, <1>12, <2>1 DEF StreamFinished, Decide
<1>13. CASE MarkFailed \/ CloseInvocation
  <2>1. /\ UNCHANGED <<handling, claims, endings, addedUp, flushes, lateFlush>>
        /\ \/ phase' = phase
           \/ phase = "flushed" /\ phase' = "closed"
        /\ news' = "queued" => news = "queued"
    BY <1>13 DEF MarkFailed, CloseInvocation
  <2> QED BY <1>2, <2>1
<1>14. CASE ReportFailure
  <2>1. /\ UNCHANGED <<handling, claims>>
        /\ phase' = phase /\ phase \in {"running", "streaming"}
    BY <1>14 DEF ReportFailure, Open
  <2> QED BY <1>1, <2>1 DEF ClaimsAreHeld, FlushedIsHandled
<1> QED BY <1>3, <1>4, <1>5, <1>6, <1>7, <1>8, <1>9, <1>10, <1>11, <1>12, <1>13, <1>14
        DEF RuntimeNext

-----------------------------------------------------------------------------
LEMMA RuntimeStarts ==
  ASSUME RuntimeInit
  PROVE  RuntimeInv
<1>1. RuntimeStateOK
  BY DEF RuntimeInit, RuntimeStateOK, RuntimeTypeOK, Outcomes3
<1>5. NothingYet
  BY DEF RuntimeInit, NothingYet
<1>6. VerdictStands
  BY DEF RuntimeInit, VerdictStands, Outcomes3
<1>2. OpenStreams = {}
  BY DEF RuntimeInit, OpenStreams, Outcomes3
<1>3. RootsAreOpenStreams
  BY <1>2, FS_EmptySet DEF RuntimeInit, RootsAreOpenStreams
<1>4. ClaimsAreHeld /\ FlushedIsHandled
  BY DEF RuntimeInit, ClaimsAreHeld, Holding, FlushedIsHandled, Deliveries
<1> QED BY <1>1, <1>3, <1>4, <1>5, <1>6 DEF RuntimeInv

LEMMA RuntimeSteps ==
  ASSUME RuntimeInv, RuntimeNext
  PROVE  RuntimeInv'
<1>1. NothingYet'
  <2>1. NothingYet /\ \A s \in Streams : terminals[s] \in Outcomes3 => phase = "streaming"
    BY DEF RuntimeInv, RootsAreOpenStreams, OpenStreams
  <2>2. ASSUME NEW d \in Deliveries, ClaimEvent(d) \/ StoreRuntimeEvent(d)
        PROVE  phase' # "idle"
    BY <2>1, <2>2 DEF ClaimEvent, StoreRuntimeEvent, NothingYet
  <2>3. ASSUME NEW s \in Streams, StreamFinished(s)
        PROVE  phase' # "idle"
    BY <2>1, <2>3 DEF StreamFinished, Decide
  <2>4. ASSUME NEW s \in Streams, NEW status \in Outcomes3, Terminate(s, status)
        PROVE  NothingYet'
    BY <2>1, <2>4 DEF Terminate, NothingYet
  <2>5. ASSUME \/ \E owned, hook \in BOOLEAN : Invoke(owned, hook)
               \/ \E status \in Outcomes3 : FinishInvocation(status)
               \/ \E some \in SUBSET Streams : AddStreams(some)
               \/ ReportFailure \/ MarkFailed \/ Flush \/ CloseInvocation
               \/ \E e \in ToolEvents : Emit(e)
               \/ \E written \in BOOLEAN : EndTask(written)
        PROVE  phase' # "idle"
    BY <2>1, <2>5 DEF Invoke, FinishInvocation, Decide, AddStreams, ReportFailure, MarkFailed,
                      NothingYet, Flush, CloseInvocation, Emit, Open, EndTask
  <2> QED BY <2>2, <2>3, <2>4, <2>5 DEF RuntimeNext, NothingYet
<1> QED BY <1>1, RuntimeStateStays, VerdictStays, RootsStay, ClaimsStay
        DEF RuntimeInv

LEMMA RuntimeHolds == RuntimeSpec => []RuntimeInv
<1>1. RuntimeInv /\ UNCHANGED frameworkVars => RuntimeInv'
  BY DEF RuntimeInv, frameworkVars, RuntimeStateOK, RuntimeTypeOK, NothingYet, VerdictStands,
         OpenStreams, RootsAreOpenStreams, ClaimsAreHeld, FlushedIsHandled, Handled, Stored
<1> QED BY <1>1, RuntimeStarts, RuntimeSteps, PTL DEF RuntimeSpec

\* Every variable of an execution holds a value of its kind, however many streams and
\* listeners it has (_framework_runtime.py).
THEOREM ExecutionsTypeCorrect == RuntimeSpec => []RuntimeTypeOK
<1>1. RuntimeInv => RuntimeTypeOK
  BY DEF RuntimeInv, RuntimeStateOK
<1> QED BY <1>1, RuntimeHolds, PTL

\* At most one of the listeners an event was given to holds it.
LEMMA HeldOnce ==
  ASSUME ClaimsAreHeld
  PROVE  EventStoredOnce
<1> SUFFICES ASSUME NEW e \in ToolEvents
             PROVE  Cardinality({l \in Listeners : handling[<<l, e>>] \in Holding}) <= 1
  BY DEF EventStoredOnce, Holding
<1> DEFINE H == {l \in Listeners : handling[<<l, e>>] \in Holding}
<1>1. H = {} \/ \E l \in Listeners : H = {l}
  BY DEF ClaimsAreHeld
<1>2. Cardinality({}) = 0 /\ \A l \in Listeners : Cardinality({l}) = 1
  BY FS_EmptySet, FS_Singleton
<1> HIDE DEF H
<1>3. Cardinality(H) \in {0, 1}
  BY <1>1, <1>2
<1>4. Cardinality(H) <= 1
  BY <1>3
<1> QED BY <1>4 DEF H

(* Whatever its streams, its listeners and its framework do, in whatever   *)
(* order and from whatever threads: an execution ends at most once, as     *)
(* failed exactly when the call or a stream of it failed, or the framework *)
(* said so and was heard before the verdict was taken; while it streams    *)
(* some stream is still to be reported; an event that many listeners were  *)
(* given is stored once; and a flush that was in time leaves none of them  *)
(* out of the totals (_framework_runtime.py).                              *)
THEOREM ExecutionsEndAsTheyWent == RuntimeSpec => []ExecutionEndsAsItWent
<1>1. ASSUME RuntimeInv PROVE ExecutionEndsAsItWent
  <2>1. EndedOnceAsItWent
    <3>1. endings["success"] \in {0, 1} /\ endings["failed"] \in {0, 1}
      BY <1>1 DEF RuntimeInv, RuntimeStateOK, Outcomes3
    <3>2. /\ endings["success"] = 1 => phase = "ended" /\ verdict = "success"
          /\ endings["failed"] = 1 => phase = "ended" /\ verdict = "failed"
      BY <1>1 DEF RuntimeInv, VerdictStands, Outcomes3
    <3>3. phase = "ended" => verdict = IF flaws \/ news = "heard" THEN "failed" ELSE "success"
      BY <1>1 DEF RuntimeInv, VerdictStands
    <3> QED BY <3>1, <3>2, <3>3 DEF EndedOnceAsItWent
  <2>2. SomeStreamIsOpen
    BY <1>1 DEF RuntimeInv, RootsAreOpenStreams, OpenStreams, SomeStreamIsOpen
  <2>3. EventStoredOnce
    BY <1>1, HeldOnce DEF RuntimeInv
  <2>4. ReportedEventsAreCounted
    <3> SUFFICES ASSUME phase = "ended", flushes, ~lateFlush
                 PROVE  /\ news # "queued"
                        /\ \A d \in Deliveries : handling[d] # "claimed"
                        /\ \A o \in Outcomes3 : endings[o] = 1 => addedUp =
                             {e \in ToolEvents : \E l \in Listeners : handling[<<l, e>>] # "none"}
      BY DEF ReportedEventsAreCounted
    <3>1. Handled /\ \A o \in Outcomes3 : endings[o] = 1 => addedUp = Stored
      BY <1>1 DEF RuntimeInv, FlushedIsHandled
    <3>2. ASSUME NEW e \in ToolEvents, NEW l \in Listeners, handling[<<l, e>>] # "none"
          PROVE  e \in Stored
      <4>1. <<l, e>> \in Deliveries /\ handling[<<l, e>>] \in {"recorded", "ignored"}
        BY <3>1, <3>2 DEF Handled, Deliveries
      <4>2. e \in claims
        BY <1>1, <4>1 DEF RuntimeInv, ClaimsAreHeld, Holding
      <4>3. PICK k \in Listeners : handling[<<k, e>>] \in Holding
        BY <1>1, <4>2 DEF RuntimeInv, ClaimsAreHeld
      <4>4. handling[<<k, e>>] = "recorded"
        BY <3>1, <4>3 DEF Handled, Deliveries, Holding
      <4> QED BY <4>4 DEF Stored
    <3>3. Stored = {e \in ToolEvents : \E l \in Listeners : handling[<<l, e>>] # "none"}
      BY <3>2 DEF Stored
    <3> QED BY <3>1, <3>3 DEF Handled
  <2> QED BY <2>1, <2>2, <2>3, <2>4 DEF ExecutionEndsAsItWent
<1> QED BY <1>1, RuntimeHolds, PTL
-----------------------------------------------------------------------------
(***************************************************************************)
(* ServiceCaptures: any number of calls, tasks and meters, and of          *)
(* revisions of the record.                                                *)
(***************************************************************************)
Answered == {"none", "running", "succeeded", "failed"}
AnyTask == ServiceTasks \cup {NoTask}
Revision == [task : AnyTask, status : Answered \cup {"submitted", "unknown"}, meter : Meters]

Reading ==
  [at : {"idle", "native", "capture", "bind", "lookup", "insert", "done"}, facade : Facades,
   starts : BOOLEAN, task : AnyTask, within : BOOLEAN, attempts : {1, 2},
   answer : [task : AnyTask, status : Answered, meter : Meters], old : Nat, next : Revision]

ServicesStateOK ==
  /\ keeps \in {"run", "record", "event"}
  /\ run \in [status : Answered, meter : Meters, starter : AnyTask]
  /\ record = [n \in DOMAIN record |-> record[n]]
  /\ \E h \in Nat : DOMAIN record = 1 .. h
  /\ \A n \in DOMAIN record : record[n] \in Revision
  /\ task \in [Readers -> AnyTask]
  /\ reader \in [Readers -> Reading]

\* What is in the table: of a run the binding and what followed, of an answer itself.
RecordIsOf ==
  /\ keeps = "run" => /\ \A n \in DOMAIN record : record[n].task = run.starter
                      /\ 1 \in DOMAIN record =>
                           /\ record[1].status = "submitted" /\ record[1].meter = 0
                           /\ run.status # "none"
                      /\ \A n \in DOMAIN record : n + 1 \in DOMAIN record =>
                           record[n] # record[n + 1]
  /\ keeps = "record" => /\ DOMAIN record \subseteq {1}
                         /\ \A n \in DOMAIN record : record[n].status # "submitted"
  /\ keeps = "event" => DOMAIN record = {}

\* What a call is about to insert still follows what it was derived from, if it can still
\* be inserted at all; and a call that started the run belongs to the starter.
MayInsert(r) ==
  \/ /\ keeps = "run" /\ reader[r].old \in DOMAIN record
     /\ reader[r].next.task = run.starter /\ reader[r].next.status # "submitted"
     /\ reader[r].old + 1 \notin DOMAIN record => record[reader[r].old] # reader[r].next
  \/ keeps = "record" /\ reader[r].old = 0 /\ reader[r].next.status = "succeeded"

ReadingOf(r) ==
  /\ reader[r].starts =>
       keeps = "run" /\ run.status # "none" /\ reader[r].task = run.starter
  /\ reader[r].within => ~reader[r].facade.nested
  /\ keeps # "run" => reader[r].old = 0
  /\ reader[r].at = "bind" =>
       /\ reader[r].starts
       /\ reader[r].next = [task |-> run.starter, status |-> "submitted", meter |-> 0]
  /\ reader[r].at = "lookup" => keeps = "run"
  /\ reader[r].at = "insert" => MayInsert(r)

\* An event is of a call that is over, and is kept as it was.
EventsAreOf ==
  \A e \in events :
    /\ keeps = "event" /\ e.call \in Readers /\ reader[e.call].at = "done"
    /\ e.task = reader[e.call].task /\ ~reader[e.call].within
    /\ reader[e.call].answer.status = "succeeded" \/ reader[e.call].facade.failures

ServicesInv == /\ ServicesStateOK /\ RecordIsOf /\ EventsAreOf
               /\ \A r \in Readers : ReadingOf(r)

-----------------------------------------------------------------------------
LEMMA RecordHeight ==
  ASSUME ServicesStateOK
  PROVE  LastRev \in Nat /\ DOMAIN record = 1 .. LastRev
<1> PICK h \in Nat : DOMAIN record = 1 .. h
  BY DEF ServicesStateOK
<1>1. Cardinality(1 .. h) = h
  <2>1. Cardinality(1 .. h) = IF 1 > h THEN 0 ELSE h - 1 + 1
    BY FS_Interval
  <2> QED BY <2>1
<1> QED BY <1>1 DEF LastRev

LEMMA IdleReading == IdleReader \in Reading
BY ServicesAssumption
   DEF IdleReader, Reading, Facades, NativeWebTools, AnyTask, NoRevision, Answered, Revision

LEMMA ReadingStays ==
  ASSUME NEW q \in Readers, ReadingOf(q), reader'[q] = reader[q], UNCHANGED keeps,
         run'.starter = run.starter, run.status # "none" => run'.status # "none",
         DOMAIN record \subseteq DOMAIN record',
         \A n \in DOMAIN record : record'[n] = record[n]
  PROVE  ReadingOf(q)'
<1>1. MayInsert(q) => MayInsert(q)'
  BY DEF MayInsert
<1> QED BY <1>1 DEF ReadingOf

\* A call that is not over can change without touching the events.
LEMMA EventsStay ==
  ASSUME ServicesInv, NEW r \in Readers, reader[r].at # "done", UNCHANGED <<keeps, events>>,
         \A q \in Readers : q # r => reader'[q] = reader[q]
  PROVE  EventsAreOf'
BY DEF ServicesInv, EventsAreOf

\* A step of one call that leaves the run and the table alone.
LEMMA ReaderMoves ==
  ASSUME ServicesInv, NEW r \in Readers, reader[r].at # "done",
         UNCHANGED <<keeps, run, record, events>>, task' \in [Readers -> AnyTask],
         NEW new \in Reading, reader' = [reader EXCEPT ![r] = new],
         ReadingOf(r)'
  PROVE  ServicesInv'
<1>1. \A q \in Readers : q # r => reader'[q] = reader[q]
  BY DEF ServicesInv, ServicesStateOK
<1>2. ServicesStateOK'
  BY DEF ServicesInv, ServicesStateOK
<1>3. RecordIsOf'
  BY DEF ServicesInv, RecordIsOf
<1>4. \A q \in Readers : ReadingOf(q)'
  BY <1>1, ReadingStays DEF ServicesInv
<1>5. EventsAreOf'
  BY <1>1, EventsStay
<1> QED BY <1>2, <1>3, <1>4, <1>5 DEF ServicesInv

LEMMA CallOver ==
  ASSUME ServicesStateOK, NEW r \in Readers, Done(r)
  PROVE  \E new \in Reading :
           /\ reader' = [reader EXCEPT ![r] = new]
           /\ new.at = "done"
           /\ new.starts => reader[r].starts /\ new.task = reader[r].task
           /\ new.within => reader[r].within /\ new.facade = reader[r].facade
           /\ new.old \in {0, reader[r].old}
<1>1. reader[r] \in Reading
  BY DEF ServicesStateOK
<1>2. CASE keeps = "event"
  <2> DEFINE new == [reader[r] EXCEPT !.at = "done"]
  <2>1. new \in Reading
    BY <1>1 DEF Reading
  <2>2. /\ new.at = "done" /\ new.starts = reader[r].starts /\ new.task = reader[r].task
        /\ new.within = reader[r].within /\ new.facade = reader[r].facade
        /\ new.old = reader[r].old
    BY <1>1 DEF Reading
  <2>3. reader' = [reader EXCEPT ![r] = new]
    BY <1>2 DEF Done
  <2> HIDE DEF new
  <2> QED BY <2>1, <2>2, <2>3
<1>3. CASE keeps # "event"
  <2> DEFINE new == [IdleReader EXCEPT !.at = "done"]
  <2>1. new \in Reading /\ new.at = "done" /\ ~new.starts /\ ~new.within /\ new.old = 0
    BY IdleReading DEF Reading, IdleReader
  <2>2. reader' = [reader EXCEPT ![r] = new]
    BY <1>3 DEF Done
  <2> HIDE DEF new
  <2> QED BY <2>1, <2>2
<1> QED BY <1>2, <1>3

LEMMA DoneKeeps ==
  ASSUME ServicesInv, NEW r \in Readers, reader[r].at # "done", Done(r),
         UNCHANGED <<keeps, run, record, events, task>>
  PROVE  ServicesInv'
<1> PICK new \in Reading :
           /\ reader' = [reader EXCEPT ![r] = new]
           /\ new.at = "done"
           /\ new.starts => reader[r].starts /\ new.task = reader[r].task
           /\ new.within => reader[r].within /\ new.facade = reader[r].facade
           /\ new.old \in {0, reader[r].old}
  BY CallOver DEF ServicesInv
<1>1. reader'[r] = new
  BY DEF ServicesInv, ServicesStateOK
<1>2. ReadingOf(r)'
  BY <1>1 DEF ServicesInv, ReadingOf
<1> QED BY <1>2, ReaderMoves DEF ServicesInv, ServicesStateOK

LEMMA CallKeeps ==
  ASSUME ServicesInv, NEW r \in Readers, NEW f \in Facades, NEW starts \in BOOLEAN,
         NEW within \in BOOLEAN, Call(r, f, starts, within)
  PROVE  ServicesInv'
<1> DEFINE new == [IdleReader EXCEPT !.at = "native", !.facade = f, !.starts = starts,
                                     !.task = task[r], !.within = within]
<1>1. /\ reader[r].at = "idle" /\ task[r] \in AnyTask /\ reader' = [reader EXCEPT ![r] = new]
      /\ starts => keeps = "run" /\ run.status = "none"
      /\ keeps = "run" /\ ~starts => run.status # "none"
      /\ within => ~f.nested
      /\ run' = IF starts THEN [run EXCEPT !.status = "running", !.starter = task[r]] ELSE run
      /\ UNCHANGED <<keeps, record, events, task>>
  BY DEF Call, ServicesInv, ServicesStateOK
<1>2. new \in Reading
  BY <1>1, IdleReading DEF Reading, IdleReader
<1>3. /\ new.at = "native" /\ new.facade = f /\ new.starts = starts /\ new.within = within
      /\ new.task = task[r] /\ new.old = 0
  BY DEF IdleReader
<1> HIDE DEF new
<1>4. reader'[r] = new /\ \A q \in Readers : q # r => reader'[q] = reader[q]
  BY <1>1 DEF ServicesInv, ServicesStateOK
<1>5. CASE ~starts
  <2>1. ReadingOf(r)'
    BY <1>1, <1>3, <1>4, <1>5 DEF ReadingOf
  <2> QED BY <1>1, <1>2, <1>5, <2>1, ReaderMoves DEF ServicesInv, ServicesStateOK
<1>6. CASE starts
  <2>1. run' \in [status : Answered, meter : Meters, starter : AnyTask]
    BY <1>1, <1>6 DEF ServicesInv, ServicesStateOK, Answered
  <2>2. run'.status = "running" /\ run'.starter = task[r]
    BY <1>1, <1>6 DEF ServicesInv, ServicesStateOK
  <2>3. DOMAIN record = {}
    BY <1>1, <1>6, RecordHeight DEF ServicesInv, RecordIsOf
  <2>4. ReadingOf(r)'
    BY <1>1, <1>3, <1>4, <1>6, <2>2 DEF ReadingOf
  <2>5. ASSUME NEW q \in Readers, q # r PROVE ReadingOf(q)'
    <3>1. ReadingOf(q) /\ reader'[q] = reader[q]
      BY <1>4, <2>5 DEF ServicesInv
    <3>2. ~reader[q].starts /\ reader[q].at # "insert" /\ reader[q].at # "bind"
      BY <1>1, <1>6, <2>3, <3>1 DEF ReadingOf, MayInsert
    <3> QED BY <1>1, <3>1, <3>2 DEF ReadingOf
  <2>6. ServicesStateOK'
    BY <1>1, <1>2, <2>1 DEF ServicesInv, ServicesStateOK
  <2>7. RecordIsOf'
    BY <1>1, <2>3 DEF ServicesInv, RecordIsOf
  <2>8. EventsAreOf'
    BY <1>1, <1>4, EventsStay
  <2> QED BY <2>4, <2>5, <2>6, <2>7, <2>8 DEF ServicesInv
<1> QED BY <1>5, <1>6

LEMMA RunEndsKeeps ==
  ASSUME ServicesInv, NEW status \in {"succeeded", "failed"}, NEW meter \in Meters,
         RunEnds(status, meter)
  PROVE  ServicesInv'
<1>1. /\ run.status = "running" /\ run' = [run EXCEPT !.status = status, !.meter = meter]
      /\ UNCHANGED <<keeps, record, events, task, reader>>
  BY DEF RunEnds
<1>2. run' \in [status : Answered, meter : Meters, starter : AnyTask]
  BY <1>1 DEF ServicesInv, ServicesStateOK, Answered
<1>3. run'.status # "none" /\ run'.starter = run.starter
  BY <1>1 DEF ServicesInv, ServicesStateOK
<1>4. ServicesStateOK'
  BY <1>1, <1>2 DEF ServicesInv, ServicesStateOK
<1>5. RecordIsOf' /\ EventsAreOf'
  BY <1>1, <1>3 DEF ServicesInv, RecordIsOf, EventsAreOf
<1>6. \A q \in Readers : ReadingOf(q)'
  BY <1>1, <1>3, ReadingStays DEF ServicesInv
<1> QED BY <1>4, <1>5, <1>6 DEF ServicesInv

LEMMA AnswersKeep ==
  ASSUME ServicesInv, NEW r \in Readers, NEW attempts \in {1, 2}, NEW meter \in Meters,
         NEW ok \in BOOLEAN, Answers(r, attempts, meter, ok)
  PROVE  ServicesInv'
<1>1. /\ reader[r] \in Reading /\ reader[r].at = "native"
      /\ run.status \in Answered /\ run.meter \in Meters /\ reader[r].task \in AnyTask
      /\ UNCHANGED <<keeps, run, record, events, task>>
  BY DEF Answers, ServicesInv, ServicesStateOK, Reading
<1>2. CASE active
  <2> DEFINE answer == IF keeps = "run"
                       THEN [task |-> reader[r].task, status |-> run.status, meter |-> run.meter]
                       ELSE [task |-> reader[r].task,
                             status |-> IF ok THEN "succeeded" ELSE "failed", meter |-> meter]
             new == [reader[r] EXCEPT !.answer = answer, !.attempts = attempts, !.at = "capture"]
  <2>1. reader' = [reader EXCEPT ![r].answer = answer, ![r].attempts = attempts,
                                 ![r].at = "capture"]
    BY <1>2 DEF Answers
  <2>2. answer \in [task : AnyTask, status : Answered, meter : Meters]
    BY <1>1 DEF Answered
  <2> HIDE DEF answer
  <2>3. reader' = [reader EXCEPT ![r] = new]
    BY <1>1, <2>1 DEF ServicesInv, ServicesStateOK
  <2>4. new \in Reading
    BY <1>1, <2>2 DEF Reading
  <2>5. /\ new.at = "capture" /\ new.starts = reader[r].starts /\ new.task = reader[r].task
        /\ new.within = reader[r].within /\ new.facade = reader[r].facade
        /\ new.old = reader[r].old
    BY <1>1 DEF Reading
  <2> HIDE DEF new
  <2>6. reader'[r] = new
    BY <2>3 DEF ServicesInv, ServicesStateOK
  <2>7. ReadingOf(r)'
    BY <1>1, <2>5, <2>6 DEF ServicesInv, ReadingOf
  <2> QED BY <1>1, <2>3, <2>4, <2>7, ReaderMoves DEF ServicesInv, ServicesStateOK
<1>3. CASE ~active
  BY <1>1, <1>3, DoneKeeps DEF Answers
<1> QED BY <1>2, <1>3

LEMMA StoreEventKeeps ==
  ASSUME ServicesInv, NEW r \in Readers, StoreEvent(r)
  PROVE  ServicesInv'
<1>1. /\ reader[r].at = "capture" /\ keeps = "event" /\ Done(r)
      /\ UNCHANGED <<keeps, run, record, task>> /\ reader[r] \in Reading
  BY DEF StoreEvent, Stores, ServicesInv, ServicesStateOK
<1>2. \/ UNCHANGED events
      \/ /\ events' = events \cup {[call |-> r, task |-> reader[r].task]}
         /\ reader[r].answer.status = "succeeded" \/ reader[r].facade.failures
         /\ ~reader[r].within \/ reader[r].facade.nested
  BY DEF StoreEvent
<1>3. CASE UNCHANGED events
  BY <1>1, <1>3, DoneKeeps
<1>4. CASE /\ events' = events \cup {[call |-> r, task |-> reader[r].task]}
           /\ reader[r].answer.status = "succeeded" \/ reader[r].facade.failures
           /\ ~reader[r].within \/ reader[r].facade.nested
  <2> DEFINE new == [reader[r] EXCEPT !.at = "done"]
  <2>1. reader' = [reader EXCEPT ![r] = new]
    BY <1>1 DEF Done
  <2>2. new \in Reading
    BY <1>1 DEF Reading
  <2>3. /\ new.at = "done" /\ new.starts = reader[r].starts /\ new.task = reader[r].task
        /\ new.within = reader[r].within /\ new.facade = reader[r].facade
        /\ new.old = reader[r].old
        /\ new.answer = reader[r].answer
    BY <1>1 DEF Reading
  <2> HIDE DEF new
  <2>4. reader'[r] = new /\ \A q \in Readers : q # r => reader'[q] = reader[q]
    BY <2>1 DEF ServicesInv, ServicesStateOK
  <2>5. ~reader[r].within
    BY <1>4 DEF ServicesInv, ReadingOf
  <2>6. ServicesStateOK'
    BY <1>1, <2>1, <2>2 DEF ServicesInv, ServicesStateOK
  <2>7. RecordIsOf'
    BY <1>1 DEF ServicesInv, RecordIsOf
  <2>8. EventsAreOf'
    <3> SUFFICES ASSUME NEW e \in events'
                 PROVE  /\ keeps' = "event" /\ e.call \in Readers
                        /\ reader'[e.call].at = "done"
                        /\ e.task = reader'[e.call].task /\ ~reader'[e.call].within
                        /\ \/ reader'[e.call].answer.status = "succeeded"
                           \/ reader'[e.call].facade.failures
      BY DEF EventsAreOf
    <3>1. CASE e \in events
      <4>1. e.call # r
        BY <1>1, <3>1 DEF ServicesInv, EventsAreOf
      <4> QED BY <1>1, <2>4, <3>1, <4>1 DEF ServicesInv, EventsAreOf
    <3>2. CASE e = [call |-> r, task |-> reader[r].task]
      BY <1>1, <1>4, <2>3, <2>4, <2>5, <3>2
    <3> QED BY <1>4, <3>1, <3>2
  <2>9. \A q \in Readers : ReadingOf(q)'
    <3>1. ReadingOf(r)'
      BY <1>1, <2>3, <2>4 DEF ServicesInv, ReadingOf
    <3>2. \A q \in Readers : q # r => ReadingOf(q)'
      BY <1>1, <2>4, ReadingStays DEF ServicesInv
    <3> QED BY <3>1, <3>2
  <2> QED BY <2>6, <2>7, <2>8, <2>9 DEF ServicesInv
<1> QED BY <1>2, <1>3, <1>4

LEMMA LookUpOnceKeeps ==
  ASSUME ServicesInv, NEW r \in Readers, LookUpOnce(r)
  PROVE  ServicesInv'
<1>1. /\ reader[r].at = "capture" /\ keeps = "record"
      /\ UNCHANGED <<keeps, run, record, events, task>> /\ reader[r] \in Reading
  BY DEF LookUpOnce, Stores, ServicesInv, ServicesStateOK
<1>2. CASE Done(r)
  BY <1>1, <1>2, DoneKeeps
<1>3. CASE /\ reader' = [reader EXCEPT ![r].at = "insert", ![r].next = reader[r].answer]
           /\ reader[r].answer.status = "succeeded" /\ ~Known
  <2> DEFINE new == [reader[r] EXCEPT !.at = "insert", !.next = reader[r].answer]
  <2>1. reader' = [reader EXCEPT ![r] = new]
    BY <1>1, <1>3 DEF ServicesInv, ServicesStateOK
  <2>2. new \in Reading
    BY <1>1 DEF Reading, Revision
  <2>3. /\ new.at = "insert" /\ new.starts = reader[r].starts /\ new.task = reader[r].task
        /\ new.within = reader[r].within /\ new.facade = reader[r].facade
        /\ new.old = reader[r].old
        /\ new.next = reader[r].answer
    BY <1>1 DEF Reading
  <2> HIDE DEF new
  <2>4. reader'[r] = new
    BY <2>1 DEF ServicesInv, ServicesStateOK
  <2>5. reader[r].old = 0
    BY <1>1 DEF ServicesInv, ReadingOf
  <2>6. ReadingOf(r)'
    BY <1>1, <1>3, <2>3, <2>4, <2>5 DEF ServicesInv, ReadingOf, MayInsert
  <2> QED BY <1>1, <2>1, <2>2, <2>6, ReaderMoves DEF ServicesInv, ServicesStateOK
<1> QED BY <1>2, <1>3 DEF LookUpOnce

LEMMA BindKeeps ==
  ASSUME ServicesInv, NEW r \in Readers, Bind(r)
  PROVE  ServicesInv'
<1>1. /\ reader[r].at = "capture" /\ keeps = "run"
      /\ UNCHANGED <<keeps, run, record, events, task>> /\ reader[r] \in Reading
      /\ ReadingOf(r)
  BY DEF Bind, Stores, ServicesInv, ServicesStateOK
<1>2. CASE Done(r)
  BY <1>1, <1>2, DoneKeeps
<1>3. CASE To(r, "lookup")
  <2> DEFINE new == [reader[r] EXCEPT !.at = "lookup"]
  <2>1. reader' = [reader EXCEPT ![r] = new]
    BY <1>3 DEF ServicesInv, ServicesStateOK, To
  <2>2. new \in Reading
    BY <1>1 DEF Reading
  <2>3. /\ new.at = "lookup" /\ new.starts = reader[r].starts /\ new.task = reader[r].task
        /\ new.within = reader[r].within /\ new.facade = reader[r].facade
        /\ new.old = reader[r].old
    BY <1>1 DEF Reading
  <2> HIDE DEF new
  <2>4. reader'[r] = new
    BY <2>1 DEF ServicesInv, ServicesStateOK
  <2>5. ReadingOf(r)'
    BY <1>1, <2>3, <2>4 DEF ReadingOf
  <2> QED BY <1>1, <2>1, <2>2, <2>5, ReaderMoves DEF ServicesInv, ServicesStateOK
<1>4. ASSUME reader[r].starts,
             reader' = [reader EXCEPT ![r].at = "bind",
               ![r].next = [task |-> reader[r].task, status |-> "submitted", meter |-> 0]]
      PROVE  ServicesInv'
  <2> DEFINE bound == [task |-> reader[r].task, status |-> "submitted", meter |-> 0]
             new == [reader[r] EXCEPT !.at = "bind", !.next = bound]
  <2>1. reader' = [reader EXCEPT ![r] = new]
    BY <1>1, <1>4 DEF ServicesInv, ServicesStateOK
  <2>2. bound \in Revision /\ bound = [task |-> run.starter, status |-> "submitted", meter |-> 0]
    BY <1>1, <1>4, ServicesAssumption DEF Reading, Revision, ReadingOf
  <2> HIDE DEF bound
  <2>3. new \in Reading
    BY <1>1, <2>2 DEF Reading
  <2>4. /\ new.at = "bind" /\ new.starts = reader[r].starts /\ new.task = reader[r].task
        /\ new.within = reader[r].within /\ new.facade = reader[r].facade
        /\ new.old = reader[r].old
        /\ new.next = bound
    BY <1>1 DEF Reading
  <2> HIDE DEF new
  <2>5. reader'[r] = new
    BY <2>1 DEF ServicesInv, ServicesStateOK
  <2>6. ReadingOf(r)'
    BY <1>1, <1>4, <2>2, <2>4, <2>5 DEF ReadingOf
  <2> QED BY <1>1, <2>1, <2>3, <2>6, ReaderMoves DEF ServicesInv, ServicesStateOK
<1> QED BY <1>1, <1>2, <1>3, <1>4 DEF Bind

\* A later revision that follows what it was derived from, on its way to the table.
LEMMA NextRevisionKeeps ==
  ASSUME ServicesInv, NEW r \in Readers, reader[r].at # "done", keeps = "run",
         UNCHANGED <<keeps, run, record, events, task>>,
         NEW new \in Reading, reader' = [reader EXCEPT ![r] = new], new.at = "insert",
         new.starts => reader[r].starts /\ new.task = reader[r].task,
         new.within => reader[r].within /\ new.facade = reader[r].facade,
         new.old \in DOMAIN record, new.next.task = run.starter,
         new.next.status # "submitted",
         new.old + 1 \notin DOMAIN record => record[new.old] # new.next
  PROVE  ServicesInv'
<1>1. reader'[r] = new
  BY DEF ServicesInv, ServicesStateOK
<1>2. ReadingOf(r)'
  BY <1>1 DEF ServicesInv, ReadingOf, MayInsert
<1> QED BY <1>2, ReaderMoves DEF ServicesInv, ServicesStateOK

LEMMA LookUpRunKeeps ==
  ASSUME ServicesInv, NEW r \in Readers, LookUpRun(r)
  PROVE  ServicesInv'
<1>1. /\ reader[r].at = "lookup" /\ keeps = "run"
      /\ UNCHANGED <<keeps, run, record, events, task>> /\ reader[r] \in Reading
  BY DEF LookUpRun, Stores, ServicesInv, ServicesStateOK, ReadingOf
<1>2. CASE Done(r)
  BY <1>1, <1>2, DoneKeeps
<1>3. ASSUME LastRev = 1,
             reader' = [reader EXCEPT ![r].at = "insert", ![r].old = 1,
                                      ![r].next = TerminalRevision(reader[r])]
      PROVE  ServicesInv'
  <2> DEFINE revision == TerminalRevision(reader[r])
             new == [reader[r] EXCEPT !.at = "insert", !.old = 1, !.next = revision]
  <2>1. reader' = [reader EXCEPT ![r] = new]
    BY <1>1, <1>3 DEF ServicesInv, ServicesStateOK
  <2>7. 1 \in DOMAIN record
    BY <1>3, RecordHeight DEF ServicesInv
  <2>2. record[1] \in Revision /\ record[1].task = run.starter /\ record[1].status = "submitted"
    BY <1>1, <2>7 DEF ServicesInv, ServicesStateOK, RecordIsOf
  <2>3. reader[r].answer \in [task : AnyTask, status : Answered, meter : Meters]
    BY <1>1 DEF Reading
  <2>4. /\ revision \in Revision /\ revision.task = run.starter
        /\ revision.status # "submitted"
    BY <1>3, <2>2, <2>3 DEF TerminalRevision, Revision, Answered
  <2> HIDE DEF revision
  <2>5. new \in Reading
    BY <1>1, <2>4 DEF Reading
  <2>6. /\ new.at = "insert" /\ new.starts = reader[r].starts /\ new.task = reader[r].task
        /\ new.within = reader[r].within /\ new.facade = reader[r].facade
        /\ new.next = revision /\ new.old = 1
    BY <1>1 DEF Reading
  <2> HIDE DEF new
  <2> QED BY <1>1, <2>1, <2>2, <2>4, <2>5, <2>6, <2>7, NextRevisionKeeps
<1> QED BY <1>2, <1>3 DEF LookUpRun

LEMMA CorrectKeeps ==
  ASSUME ServicesInv, NEW r \in Readers, NEW n \in 2 .. MaxMeterRev, NEW meter \in Meters,
         Correct(r, n, meter)
  PROVE  ServicesInv'
<1> DEFINE revision == [task |-> record[LastRev].task,
                        status |-> IF meter = 0 THEN "unknown" ELSE "succeeded",
                        meter |-> meter]
           asked == [IdleReader EXCEPT !.at = "insert", !.old = n - 1, !.next = revision]
           over == [IdleReader EXCEPT !.at = "done"]
<1>1. /\ reader[r].at = "idle" /\ keeps = "run"
      /\ UNCHANGED <<keeps, run, record, events, task>>
  BY DEF Correct, Stores
<1>2. reader' = [reader EXCEPT ![r] =
                   IF Known /\ n \in LastRev .. LastRev + 1 /\ revision # record[LastRev]
                   THEN asked ELSE over]
  BY DEF Correct
<1>3. LastRev \in Nat /\ DOMAIN record = 1 .. LastRev /\ n \in Nat /\ n >= 2
  BY RecordHeight, ServicesAssumption DEF ServicesInv
<1>4. ASSUME Known, n \in LastRev .. LastRev + 1, revision # record[LastRev],
             reader' = [reader EXCEPT ![r] = asked]
      PROVE  ServicesInv'
  <2>1. LastRev \in DOMAIN record /\ n - 1 \in DOMAIN record /\ n - 1 \in Nat
    BY <1>3, <1>4 DEF Known
  <2>7. record[LastRev] \in Revision /\ record[LastRev].task = run.starter
    BY <1>1, <2>1 DEF ServicesInv, ServicesStateOK, RecordIsOf
  <2>2. /\ revision \in Revision /\ revision.task = run.starter
        /\ revision.status # "submitted"
    <3>1. record[LastRev].task \in AnyTask
      BY <2>7 DEF Revision
    <3> QED BY <2>7, <3>1 DEF Revision, Answered
  <2>3. n \notin DOMAIN record => record[n - 1] # revision
    BY <1>3, <1>4
  <2> HIDE DEF revision
  <2>4. asked \in Reading
    BY <2>1, <2>2, IdleReading DEF Reading
  <2>5. /\ asked.at = "insert" /\ ~asked.starts /\ ~asked.within
        /\ asked.next = revision /\ asked.old = n - 1
    BY DEF IdleReader
  <2>6. asked.old + 1 = n
    BY <1>3, <2>5
  <2> HIDE DEF asked
  <2> QED BY <1>1, <1>4, <2>1, <2>2, <2>3, <2>4, <2>5, <2>6, NextRevisionKeeps
<1>5. ASSUME reader' = [reader EXCEPT ![r] = over]
      PROVE  ServicesInv'
  <2>1. over \in Reading /\ over.at = "done" /\ ~over.starts /\ ~over.within /\ over.old = 0
    BY IdleReading DEF Reading, IdleReader
  <2> HIDE DEF over
  <2>2. reader'[r] = over
    BY <1>5 DEF ServicesInv, ServicesStateOK
  <2>3. ReadingOf(r)'
    BY <2>1, <2>2 DEF ReadingOf
  <2> QED BY <1>1, <1>5, <2>1, <2>3, ReaderMoves DEF ServicesInv, ServicesStateOK
<1> HIDE DEF revision, asked, over
<1> QED BY <1>2, <1>4, <1>5

Appended(r, n) ==
  record' = [m \in DOMAIN record \cup {n} |-> IF m = n THEN reader[r].next ELSE record[m]]

\* It follows the last revision, or is a first one.
Continues(r, n) ==
  LET new == reader[r].next
  IN  \/ /\ keeps = "run" /\ run.status # "none" /\ new.task = run.starter
         /\ n = 1 => new.status = "submitted" /\ new.meter = 0
         /\ n # 1 => record[n - 1] # new
      \/ keeps = "record" /\ n = 1 /\ new.status = "succeeded"

\* What comes after the last revision is appended: the rest of the table stands.
LEMMA AppendKeeps ==
  ASSUME ServicesInv, NEW r \in Readers, reader[r].at # "done",
         NEW n \in Nat, n = LastRev + 1, Appended(r, n), Continues(r, n),
         UNCHANGED <<keeps, run, events, task>>,
         NEW p \in {"lookup", "done"}, To(r, p), p = "lookup" => keeps = "run"
  PROVE  ServicesInv'
<1> DEFINE moved == [reader[r] EXCEPT !.at = p]
<1>1. /\ LastRev \in Nat /\ DOMAIN record = 1 .. LastRev /\ reader[r] \in Reading
      /\ reader[r].next \in Revision /\ n = LastRev + 1
  BY RecordHeight DEF ServicesInv, ServicesStateOK, Reading
<1>3. /\ \A m \in DOMAIN record : record'[m] = record[m]
      /\ record'[n] = reader[r].next /\ DOMAIN record' = DOMAIN record \cup {n}
      /\ record' = [m \in DOMAIN record' |-> record'[m]]
  <2>1. n \notin DOMAIN record
    BY <1>1
  <2> QED BY <2>1 DEF Appended
<1>2. DOMAIN record' = 1 .. n
  <2>1. (1 .. LastRev) \cup {n} = 1 .. n
    BY <1>1
  <2> QED BY <1>1, <1>3, <2>1
<1>4. reader' = [reader EXCEPT ![r] = moved]
  BY DEF ServicesInv, ServicesStateOK, To
<1>5. moved \in Reading /\ moved.at = p /\ moved.starts = reader[r].starts
      /\ moved.task = reader[r].task
      /\ moved.within = reader[r].within /\ moved.facade = reader[r].facade
      /\ moved.old = reader[r].old /\ moved.next = reader[r].next
  BY <1>1 DEF Reading
<1>6. reader'[r] = moved /\ \A q \in Readers : q # r => reader'[q] = reader[q]
  BY <1>4 DEF ServicesInv, ServicesStateOK
<1> HIDE DEF moved
<1>9. ServicesStateOK'
  <2>1. \A m \in DOMAIN record' : record'[m] \in Revision
    BY <1>1, <1>3 DEF ServicesInv, ServicesStateOK
  <2> QED BY <1>2, <1>3, <1>4, <1>5, <2>1 DEF ServicesInv, ServicesStateOK
<1>10. RecordIsOf'
  <2>1. CASE keeps = "run"
    <3>1. \A m \in DOMAIN record' : record'[m].task = run.starter
      BY <1>3, <2>1 DEF Continues, ServicesInv, RecordIsOf
    <3>2. record'[1].status = "submitted" /\ record'[1].meter = 0 /\ run.status # "none"
      <4>1. CASE n = 1
        BY <1>3, <2>1, <4>1 DEF Continues
      <4>2. CASE n # 1
        <5>1. 1 \in DOMAIN record
          BY <1>1, <4>2
        <5> QED BY <1>3, <2>1, <5>1 DEF ServicesInv, RecordIsOf
      <4> QED BY <4>1, <4>2
    <3>3. ASSUME NEW m \in DOMAIN record', m + 1 \in DOMAIN record'
          PROVE  record'[m] # record'[m + 1]
      <4>1. m \in DOMAIN record /\ m \in Nat
        BY <1>1, <1>2, <3>3
      <4>2. CASE m + 1 \in DOMAIN record
        BY <1>3, <2>1, <4>1, <4>2 DEF ServicesInv, RecordIsOf
      <4>3. CASE m + 1 = n
        <5>1. n # 1 /\ n - 1 = m
          BY <1>1, <4>1, <4>3
        <5> QED BY <1>3, <2>1, <4>1, <4>3, <5>1 DEF Continues
      <4> QED BY <1>3, <3>3, <4>2, <4>3
    <3> QED BY <2>1, <3>1, <3>2, <3>3 DEF RecordIsOf
  <2>2. CASE keeps = "record"
    <3>1. n = 1 /\ reader[r].next.status = "succeeded"
      BY <2>2 DEF Continues
    <3>2. DOMAIN record' = {1} /\ record'[1] = reader[r].next
      BY <1>2, <1>3, <3>1
    <3> QED BY <2>2, <3>1, <3>2 DEF RecordIsOf
  <2> QED BY <2>1, <2>2 DEF Continues
<1>11. \A q \in Readers : ReadingOf(q)'
  <2>1. ReadingOf(r)'
    BY <1>5, <1>6 DEF ServicesInv, ReadingOf
  <2>2. \A q \in Readers : q # r => ReadingOf(q)'
    BY <1>3, <1>6, ReadingStays DEF ServicesInv
  <2> QED BY <2>1, <2>2
<1>12. EventsAreOf'
  BY <1>6, EventsStay
<1> QED BY <1>9, <1>10, <1>11, <1>12 DEF ServicesInv

\* A call that found its revision there goes on.
LEMMA ToKeeps ==
  ASSUME ServicesInv, NEW r \in Readers, reader[r].at # "done",
         NEW p \in {"lookup", "done"}, To(r, p), p = "lookup" => keeps = "run",
         UNCHANGED <<keeps, run, record, events, task>>
  PROVE  ServicesInv'
<1> DEFINE moved == [reader[r] EXCEPT !.at = p]
<1>1. reader[r] \in Reading
  BY DEF ServicesInv, ServicesStateOK
<1>2. reader' = [reader EXCEPT ![r] = moved]
  BY DEF ServicesInv, ServicesStateOK, To
<1>3. moved \in Reading /\ moved.at = p /\ moved.starts = reader[r].starts
      /\ moved.task = reader[r].task
      /\ moved.within = reader[r].within /\ moved.facade = reader[r].facade
      /\ moved.old = reader[r].old /\ moved.next = reader[r].next
  BY <1>1 DEF Reading
<1> HIDE DEF moved
<1>4. reader'[r] = moved
  BY <1>2 DEF ServicesInv, ServicesStateOK
<1>5. ReadingOf(r)'
  BY <1>3, <1>4 DEF ServicesInv, ReadingOf
<1> QED BY <1>2, <1>3, <1>5, ReaderMoves DEF ServicesInv, ServicesStateOK

LEMMA InsertBindingKeeps ==
  ASSUME ServicesInv, NEW r \in Readers, InsertBinding(r)
  PROVE  ServicesInv'
<1>1. /\ reader[r].at = "bind" /\ Insert(r, 1, "lookup")
      /\ UNCHANGED <<keeps, run, events, task>>
  BY DEF InsertBinding, Stores
<1>2. /\ keeps = "run" /\ run.status # "none"
      /\ reader[r].next = [task |-> run.starter, status |-> "submitted", meter |-> 0]
  BY <1>1 DEF ServicesInv, ReadingOf
<1>3. LastRev \in Nat /\ DOMAIN record = 1 .. LastRev
  BY RecordHeight DEF ServicesInv
<1>4. CASE UNCHANGED record
  <2>1. To(r, "lookup") \/ Done(r)
    BY <1>1 DEF Insert
  <2> QED BY <1>1, <1>2, <1>4, <2>1, ToKeeps, DoneKeeps
<1>5. ASSUME 1 = LastRev + 1,
             record' = [m \in DOMAIN record \cup {1} |-> IF m = 1 THEN reader[r].next
                                                         ELSE record[m]],
             To(r, "lookup")
      PROVE  ServicesInv'
  <2>1. 1 = LastRev + 1 /\ 1 \in Nat /\ Appended(r, 1)
    BY <1>5 DEF Appended
  <2>2. Continues(r, 1)
    BY <1>2 DEF Continues
  <2> QED BY <1>1, <1>2, <1>5, <2>1, <2>2, AppendKeeps
<1> QED BY <1>1, <1>4, <1>5 DEF Insert

LEMMA InsertRecordKeeps ==
  ASSUME ServicesInv, NEW r \in Readers, InsertRecord(r)
  PROVE  ServicesInv'
<1> DEFINE n == reader[r].old + 1
<1>1. /\ reader[r].at = "insert" /\ Insert(r, n, "done")
      /\ UNCHANGED <<keeps, run, events, task>> /\ MayInsert(r) /\ reader[r].old \in Nat
  BY DEF InsertRecord, Stores, ServicesInv, ServicesStateOK, ReadingOf, Reading
<1>2. LastRev \in Nat /\ DOMAIN record = 1 .. LastRev
  BY RecordHeight DEF ServicesInv
<1>3. CASE UNCHANGED record
  <2>1. To(r, "done") \/ Done(r)
    BY <1>1 DEF Insert
  <2> QED BY <1>1, <1>3, <2>1, ToKeeps, DoneKeeps
<1>4. ASSUME n \notin DOMAIN record, n = LastRev + 1,
             record' = [m \in DOMAIN record \cup {n} |-> IF m = n THEN reader[r].next
                                                         ELSE record[m]],
             To(r, "done")
      PROVE  ServicesInv'
  <2>1. reader[r].old = LastRev /\ n \in Nat /\ n - 1 = reader[r].old
    BY <1>1, <1>2, <1>4
  <2>2. CASE keeps = "run"
    <3>1. /\ n # 1 /\ LastRev \in DOMAIN record /\ reader[r].next.task = run.starter
          /\ record[n - 1] # reader[r].next
      BY <1>1, <1>2, <1>4, <2>1, <2>2 DEF MayInsert
    <3>2. 1 \in DOMAIN record
      BY <1>2, <3>1
    <3>3. run.status # "none"
      BY <2>2, <3>2 DEF ServicesInv, RecordIsOf
    <3>4. Continues(r, n)
      BY <2>2, <3>1, <3>3 DEF Continues
    <3> QED BY <1>1, <1>4, <2>1, <2>2, <3>4, AppendKeeps DEF Appended
  <2>3. CASE keeps # "run"
    <3>1. keeps = "record" /\ n = 1 /\ reader[r].next.status = "succeeded"
      BY <1>1, <2>1, <2>3 DEF MayInsert
    <3>2. Continues(r, n)
      BY <3>1 DEF Continues
    <3> QED BY <1>1, <1>4, <2>1, <2>3, <3>2, AppendKeeps DEF Appended
  <2> QED BY <2>2, <2>3
<1> HIDE DEF n
<1> QED BY <1>1, <1>3, <1>4 DEF Insert
-----------------------------------------------------------------------------
LEMMA ServicesStart ==
  ASSUME ServicesInit
  PROVE  ServicesInv
<1>1. ServicesStateOK
  <2>1. DOMAIN record = 1 .. 0 /\ 0 \in Nat
    BY DEF ServicesInit
  <2> QED BY <2>1, IdleReading, ServicesAssumption
      DEF ServicesInit, ServicesStateOK, AnyTask, Answered
<1>2. RecordIsOf /\ EventsAreOf
  BY DEF ServicesInit, RecordIsOf, EventsAreOf
<1>3. \A r \in Readers : ReadingOf(r)
  BY DEF ServicesInit, ReadingOf, IdleReader
<1> QED BY <1>1, <1>2, <1>3 DEF ServicesInv

LEMMA ServicesStep ==
  ASSUME ServicesInv, ServicesNext
  PROVE  ServicesInv'
<1>1. ASSUME UNCHANGED <<keeps, run, record, events, reader>>, task' \in [Readers -> AnyTask]
      PROVE  ServicesInv'
  <2>1. ServicesStateOK' /\ RecordIsOf' /\ EventsAreOf'
    BY <1>1 DEF ServicesInv, ServicesStateOK, RecordIsOf, EventsAreOf
  <2>2. \A q \in Readers : ReadingOf(q)'
    BY <1>1, ReadingStays DEF ServicesInv
  <2> QED BY <2>1, <2>2 DEF ServicesInv
<1>2. ASSUME NEW r \in Readers, NEW t \in ServiceTasks \cup {NoTask}, TaskSwitch(r, t)
      PROVE  ServicesInv'
  BY <1>1, <1>2 DEF TaskSwitch, ServicesInv, ServicesStateOK, AnyTask
<1>3. CASE UninstrumentServices
  BY <1>1, <1>3 DEF UninstrumentServices, ServicesInv, ServicesStateOK
<1> QED BY <1>2, <1>3, CallKeeps, RunEndsKeeps, AnswersKeep, StoreEventKeeps, LookUpOnceKeeps,
           BindKeeps, InsertBindingKeeps, LookUpRunKeeps, CorrectKeeps, InsertRecordKeeps
        DEF ServicesNext

LEMMA ServicesHold == ServicesSpec => []ServicesInv
<1>1. ServicesInv /\ UNCHANGED serviceVars => ServicesInv'
  <2> SUFFICES ASSUME ServicesInv, UNCHANGED serviceVars PROVE ServicesInv'
    OBVIOUS
  <2>1. ServicesStateOK' /\ RecordIsOf' /\ EventsAreOf'
    BY DEF serviceVars, ServicesInv, ServicesStateOK, RecordIsOf, EventsAreOf
  <2>2. \A q \in Readers : ReadingOf(q)'
    BY ReadingStays DEF serviceVars, ServicesInv
  <2> QED BY <2>1, <2>2 DEF ServicesInv
<1> QED BY <1>1, ServicesStart, ServicesStep, PTL DEF ServicesSpec

\* Nobody numbers a revision beyond the bound.
RecordIsBounded == /\ DOMAIN record \subseteq 1 .. MaxMeterRev
                   /\ \A r \in Readers : reader[r].old + 1 <= MaxMeterRev

LEMMA InsertIsBounded ==
  ASSUME ServicesInv, RecordIsBounded, NEW r \in Readers, NEW n \in 1 .. MaxMeterRev,
         NEW next \in {"lookup", "done"}, Insert(r, n, next)
  PROVE  RecordIsBounded'
<1>1. /\ MaxMeterRev \in Nat /\ 0 + 1 <= MaxMeterRev
      /\ reader \in [Readers -> Reading]
      /\ IdleReader.old = 0
  BY ServicesAssumption DEF ServicesInv, ServicesStateOK, IdleReader
<1>2. DOMAIN record' = DOMAIN record \/ DOMAIN record' = DOMAIN record \union {n}
  BY DEF Insert
<1>3. To(r, next) \/ Done(r)
  BY DEF Insert
<1>4. ASSUME NEW q \in Readers PROVE reader'[q].old = reader[q].old \/ reader'[q].old = 0
  <2>1. CASE To(r, next)
    BY <1>1, <2>1 DEF To, Reading
  <2>2. CASE Done(r)
    <3>1. [reader[r] EXCEPT !.at = "done"].old = reader[r].old
      BY <1>1 DEF Reading
    <3>2. [IdleReader EXCEPT !.at = "done"].old = 0
      BY DEF IdleReader
    <3> QED BY <1>1, <2>2, <3>1, <3>2 DEF Done
  <2> QED BY <1>3, <2>1, <2>2
<1> QED BY <1>1, <1>2, <1>4 DEF RecordIsBounded

LEMMA RecordStaysBounded ==
  ASSUME ServicesInv, RecordIsBounded, ServicesNext
  PROVE  RecordIsBounded'
<1>1. /\ MaxMeterRev \in Nat /\ 0 + 1 <= MaxMeterRev /\ 1 + 1 <= MaxMeterRev
      /\ reader \in [Readers -> Reading]
      /\ IdleReader.old = 0
  BY ServicesAssumption DEF ServicesInv, ServicesStateOK, IdleReader
<1>2. ASSUME NEW r \in Readers, InsertBinding(r) \/ InsertRecord(r)
      PROVE  RecordIsBounded'
  <2>1. reader[r].old + 1 \in 1 .. MaxMeterRev /\ 1 \in 1 .. MaxMeterRev
    BY <1>1 DEF RecordIsBounded, Reading
  <2> QED BY <1>2, <2>1, InsertIsBounded DEF InsertBinding, InsertRecord
<1>3. ASSUME NEW r \in Readers, UNCHANGED record,
             \A q \in Readers : \/ reader'[q].old = reader[q].old
                                \/ reader'[q].old + 1 <= MaxMeterRev
      PROVE  RecordIsBounded'
  BY <1>3 DEF RecordIsBounded
<1>4. ASSUME NEW r \in Readers, NEW f \in Facades, NEW starts \in BOOLEAN,
             NEW within \in BOOLEAN, Call(r, f, starts, within)
      PROVE  RecordIsBounded'
  BY <1>1, <1>3, <1>4 DEF Call, IdleReader
<1>5. ASSUME NEW r \in Readers, NEW attempts \in {1, 2}, NEW meter \in Meters,
             NEW ok \in BOOLEAN, Answers(r, attempts, meter, ok)
      PROVE  RecordIsBounded'
  BY <1>1, <1>3, <1>5 DEF Answers, Done, Reading, IdleReader
<1>6. ASSUME NEW r \in Readers, StoreEvent(r) \/ LookUpOnce(r) \/ Bind(r) \/ LookUpRun(r)
      PROVE  RecordIsBounded'
  BY <1>1, <1>3, <1>6 DEF StoreEvent, LookUpOnce, Bind, LookUpRun, Done, To, Reading, IdleReader
<1>7. ASSUME NEW r \in Readers, NEW n \in 2 .. MaxMeterRev, NEW meter \in Meters,
             Correct(r, n, meter)
      PROVE  RecordIsBounded'
  <2>1. n - 1 + 1 <= MaxMeterRev
    BY <1>1
  <2> QED BY <1>1, <1>3, <1>7, <2>1 DEF Correct, IdleReader
<1>8. ASSUME UNCHANGED <<record, reader>>
      PROVE  RecordIsBounded'
  BY <1>8 DEF RecordIsBounded
<1> QED BY <1>2, <1>4, <1>5, <1>6, <1>7, <1>8
        DEF ServicesNext, TaskSwitch, RunEnds, UninstrumentServices

\* An event is stored for a task only; and a facade captures or does not.
EventsHaveTasks == /\ active \in BOOLEAN
                   /\ events \subseteq [call : Readers, task : ServiceTasks]

LEMMA EventsKeepTasks ==
  ASSUME ServicesInv, EventsHaveTasks, ServicesNext
  PROVE  EventsHaveTasks'
<1>1. ASSUME NEW r \in Readers, StoreEvent(r) PROVE EventsHaveTasks'
  <2>1. reader[r].task \in ServiceTasks \union {NoTask}
    BY DEF ServicesInv, ServicesStateOK, Reading, AnyTask
  <2>2. events' = events \/ ( /\ reader[r].task # NoTask
                             /\ events' = events \union {[call |-> r, task |-> reader[r].task]} )
    BY <1>1 DEF StoreEvent
  <2>3. active' = active
    BY <1>1 DEF StoreEvent, Stores
  <2>4. events' \subseteq [call : Readers, task : ServiceTasks]
    BY <2>1, <2>2 DEF EventsHaveTasks
  <2> QED BY <2>3, <2>4 DEF EventsHaveTasks
<1>2. ASSUME UNCHANGED events, active' \in {active, FALSE} PROVE EventsHaveTasks'
  BY <1>2 DEF EventsHaveTasks
<1>3. ASSUME NEW r \in Readers, \/ LookUpOnce(r) \/ Bind(r) \/ InsertBinding(r)
                                \/ LookUpRun(r) \/ InsertRecord(r)
      PROVE  EventsHaveTasks'
  BY <1>2, <1>3 DEF LookUpOnce, Bind, InsertBinding, LookUpRun, InsertRecord, Stores
<1>4. ASSUME NEW r \in Readers, NEW f \in Facades, NEW starts \in BOOLEAN,
             NEW within \in BOOLEAN, Call(r, f, starts, within)
      PROVE  EventsHaveTasks'
  BY <1>2, <1>4 DEF Call
<1>5. ASSUME NEW r \in Readers, NEW t, TaskSwitch(r, t) PROVE EventsHaveTasks'
  BY <1>2, <1>5 DEF TaskSwitch
<1>6. ASSUME NEW r \in Readers, NEW attempts, NEW meter, NEW ok,
             Answers(r, attempts, meter, ok)
      PROVE  EventsHaveTasks'
  BY <1>2, <1>6 DEF Answers
<1>7. ASSUME NEW r \in Readers, NEW n, NEW meter, Correct(r, n, meter) PROVE EventsHaveTasks'
  BY <1>2, <1>7 DEF Correct, Stores
<1>8. ASSUME NEW status, NEW meter, RunEnds(status, meter) PROVE EventsHaveTasks'
  BY <1>2, <1>8 DEF RunEnds
<1>9. CASE UninstrumentServices
  BY <1>2, <1>9 DEF UninstrumentServices
<1> QED BY <1>1, <1>3, <1>4, <1>5, <1>6, <1>7, <1>8, <1>9 DEF ServicesNext

\* Every variable of the facades holds a value of its kind, and a record has no revision
\* that no reader may number (the facades of instruments/).
THEOREM ServicesTypeCorrect == ServicesSpec => []ServicesTypeOK
<1>1. ServicesInit => RecordIsBounded /\ EventsHaveTasks
  BY ServicesAssumption DEF ServicesInit, IdleReader, RecordIsBounded, EventsHaveTasks
<1>2. RecordIsBounded /\ EventsHaveTasks /\ UNCHANGED serviceVars
        => RecordIsBounded' /\ EventsHaveTasks'
  BY DEF RecordIsBounded, EventsHaveTasks, serviceVars
<1>3. ServicesInv /\ RecordIsBounded /\ EventsHaveTasks => ServicesTypeOK
  <2> SUFFICES ASSUME ServicesInv, RecordIsBounded, EventsHaveTasks PROVE ServicesTypeOK
    OBVIOUS
  <2>2. /\ run.status \in {"none", "running", "succeeded", "failed"} /\ run.meter \in Meters
        /\ \A n \in DOMAIN record : record[n].meter \in Meters
        /\ \A r \in Readers : reader[r].at \in {"idle", "native", "capture", "bind", "lookup",
                                                 "insert", "done"}
    BY DEF ServicesInv, ServicesStateOK, Answered, Revision, Reading
  <2> QED BY <2>2 DEF RecordIsBounded, EventsHaveTasks, ServicesTypeOK
<1> QED BY <1>1, <1>2, <1>3, ServicesHold, RecordStaysBounded, EventsKeepTasks, PTL
        DEF ServicesSpec

(* Whoever calls, polls and corrects at the same time, and whatever task   *)
(* is current when an answer arrives: a run is charged to the task that    *)
(* started it, its record says each thing once and in order, an answer of  *)
(* its own is stored once, and an event belongs to the task of its call    *)
(* (browser_sessions.py, the facades of instruments/).                     *)
THEOREM ServicesAreChargedOnce == ServicesSpec => []ServicesChargeOnce
<1>1. ASSUME ServicesInv PROVE ServicesChargeOnce
  <2>1. LastRev \in Nat /\ DOMAIN record = 1 .. LastRev
    BY <1>1, RecordHeight DEF ServicesInv
  <2>2. Runs => keeps = "run"
    BY <1>1 DEF ServicesInv, ServicesStateOK, RecordIsOf, Runs
  <2>3. RunBelongsToItsStarter
    BY <1>1, <2>2 DEF ServicesInv, RecordIsOf, RunBelongsToItsStarter
  <2>4. MeterIsRecordedOnce
    <3>1. Runs => record[1].status = "submitted" /\ record[1].meter = 0
      BY <1>1, <2>1, <2>2 DEF ServicesInv, RecordIsOf, Runs
    <3>2. \A n \in DOMAIN record : n + 1 \in DOMAIN record => record[n] # record[n + 1]
      <4>1. keeps # "run" => LastRev <= 1
        BY <1>1, <2>1 DEF ServicesInv, ServicesStateOK, RecordIsOf
      <4> QED BY <1>1, <2>1, <4>1 DEF ServicesInv, RecordIsOf
    <3>3. ~Runs => LastRev <= 1
      <4>1. keeps = "run" /\ LastRev # 0 => Runs
        BY <1>1, <2>1 DEF ServicesInv, RecordIsOf, Runs
      <4>2. keeps # "run" => LastRev <= 1
        BY <1>1, <2>1 DEF ServicesInv, ServicesStateOK, RecordIsOf
      <4> QED BY <2>1, <4>1, <4>2
    <3> QED BY <2>1, <3>1, <3>2, <3>3 DEF MeterIsRecordedOnce
  <2>5. EventOfItsCall
    BY <1>1 DEF ServicesInv, EventsAreOf, EventOfItsCall
  <2> QED BY <2>3, <2>4, <2>5 DEF ServicesChargeOnce
<1> QED BY <1>1, ServicesHold, PTL
-----------------------------------------------------------------------------
(***************************************************************************)
(* Instrumentation: any number of trackers, callers, methods, reloads and  *)
(* failures.                                                               *)
(***************************************************************************)
Function == [wraps : Nat, load : 0 .. loaded]
Flight == [at : {"idle", "fetched", "answered", "KeyError"}, method : Methods, wraps : Nat,
           stale : BOOLEAN]

InstrumentStateOK ==
  /\ sdk \in Instruments /\ lacks \subseteq Methods
  /\ loaded \in Nat /\ patchedAt \in 0 .. loaded /\ failures \in Nat
  /\ method \in [Methods -> Function]
  /\ saved = [m \in DOMAIN saved |-> saved[m]] /\ DOMAIN saved \subseteq Methods
  /\ \A m \in DOMAIN saved : saved[m] \in Function
  /\ patched \in BOOLEAN
  /\ enabled \in [Trackers -> BOOLEAN]
  /\ caller \in Trackers \union {Unset} /\ recorder \in Trackers \union {Unset}
  /\ flight \in [Callers -> Flight]

\* Where an instrument_* stands: what is left is the rest of the methods in their order,
\* and the classes are those it began with.
WorkIsUnderWay ==
  /\ \E k \in 1 .. MethodCount + 1 : todo = k .. MethodCount
  /\ Quiet => todo = {}
  /\ ~Quiet => ~patched /\ patchedAt = loaded

\* A wrapper always has its original, of the class it is in, among the saved ones; and
\* nothing is saved while the instrument is off.
WrappersHaveOriginals ==
  /\ \A m \in Methods : method[m].wraps \in {0, 1}
  /\ \A m \in DOMAIN saved : saved[m].wraps = 0
  /\ \A m \in Methods : method[m].wraps = 1 =>
       /\ m \in DOMAIN saved /\ m \notin todo /\ patchedAt = loaded
       /\ sdk.restore # "name" => saved[m].load = loaded
  /\ sdk.restore # "name" => \A m \in Methods : method[m].load = loaded
  /\ sdk.restore = "drop" => \A m \in DOMAIN saved : saved[m].load = patchedAt
  /\ Quiet /\ ~patched => DOMAIN saved = {}

\* As long as the SDK was not loaded again one tracker at most has the instrument, or is
\* about to have it, and it is the one that records.
OneHasTheInstrument ==
  /\ \A t \in Trackers : enabled[t] => Quiet /\ patched /\ recorder = t
  /\ recorder # Unset => IF Quiet THEN patched /\ enabled[recorder] ELSE recorder = caller
  /\ patched => recorder # Unset
  /\ ~Quiet => recorder = caller
  /\ recorder # Unset => \A m \in Methods \ (lacks \union todo) : method[m].wraps = 1

\* A wrapper that looks its original up finds it, until it is overtaken by a removal.
FetchedAreSaved ==
  \A c \in Callers :
    /\ sdk.lookup /\ flight[c].at = "fetched" /\ flight[c].wraps > 0 /\ ~flight[c].stale =>
         flight[c].method \in DOMAIN saved
    /\ flight[c].at = "KeyError" => sdk.lookup /\ flight[c].stale

InstrumentInv == /\ InstrumentStateOK /\ WorkIsUnderWay /\ FetchedAreSaved
                 /\ ~Spoiled => WrappersHaveOriginals
                 /\ ~Spoiled /\ loaded = 0 => OneHasTheInstrument
-----------------------------------------------------------------------------
\* What the twelve instruments have in common, as far as the proof needs it.
Traits == [rollback : BOOLEAN, missing : {"skip", "fail"}, reload : BOOLEAN,
           restore : {"owner", "name", "drop"}, lookup : BOOLEAN]

LEMMA EachIsOfItsKind ==
  ASSUME NEW i \in Instruments
  PROVE  /\ i.rollback \in BOOLEAN /\ i.reload \in BOOLEAN /\ i.lookup \in BOOLEAN
         /\ i.restore \in {"owner", "name", "drop"}
         /\ i.rollback => i.restore # "drop"
         /\ i.reload => i.restore # "name"
         /\ i.lookup => i.rollback /\ ~i.reload
<1>1. /\ Plain \in Traits /\ Plain.restore = "owner"
      /\ ~Plain.rollback /\ ~Plain.reload /\ ~Plain.lookup
  BY DEF Plain, Traits
<1>2. /\ Careful \in Traits /\ Careful.restore = "owner"
      /\ Careful.rollback /\ ~Careful.reload /\ ~Careful.lookup
  BY <1>1 DEF Careful, Traits
<1>3. CASE i \in {OpenAI, Anthropic, LiteLLM, Bedrock, Cohere, Mcp}
  BY <1>1, <1>3 DEF OpenAI, Anthropic, LiteLLM, Bedrock, Cohere, Mcp, Traits
<1>4. CASE i \in {Gemini, Groq, Ollama, OpenRouter, Perplexity, Fal}
  BY <1>2, <1>4 DEF Gemini, Groq, Ollama, OpenRouter, Perplexity, Fal, Traits
<1> QED BY <1>3, <1>4 DEF Instruments

\* The next method is one of those left, and the methods after it are still left.
LEMMA NextIsFirst ==
  ASSUME InstrumentStateOK, WorkIsUnderWay, todo # {}
  PROVE  /\ Next1 \in todo /\ Next1 \in Methods /\ todo \subseteq Methods
         /\ \E k \in 1 .. MethodCount + 1 : todo \ {Next1} = k .. MethodCount
<1>1. PICK k \in 1 .. MethodCount + 1 : todo = k .. MethodCount
  BY DEF WorkIsUnderWay
<1>2. MethodCount \in Nat /\ k \in Nat /\ k \in todo /\ \A n \in todo : k <= n
  BY <1>1, InstrumentAssumption
<1>3. \E m \in todo : \A n \in todo : m <= n
  BY <1>2
<1>4. Next1 \in todo /\ \A n \in todo : Next1 <= n
  BY <1>3 DEF Next1
<1>5. Next1 = k
  BY <1>1, <1>2, <1>4
<1>6. todo \ {k} = (k + 1) .. MethodCount /\ k + 1 \in 1 .. MethodCount + 1
  BY <1>1, <1>2
<1> QED BY <1>1, <1>2, <1>4, <1>5, <1>6 DEF Methods

\* Putting the originals back leaves functions of the SDK.
LEMMA RestoredIsTyped ==
  ASSUME InstrumentStateOK
  PROVE  Restored \in [Methods -> Function]
BY DEF InstrumentStateOK, Restored

\* It unwraps every method, and each class gets its own back where that is looked at.
LEMMA RestoredIsUnwrapped ==
  ASSUME InstrumentStateOK, WrappersHaveOriginals,
         sdk.restore = "drop" => patchedAt = loaded
  PROVE  /\ \A m \in Methods : Restored[m].wraps = 0
         /\ sdk.restore # "name" => \A m \in Methods : Restored[m].load = loaded
<1>1. sdk.restore \in {"owner", "name", "drop"}
  BY EachIsOfItsKind DEF InstrumentStateOK
<1> SUFFICES ASSUME NEW m \in Methods
             PROVE  /\ Restored[m].wraps = 0
                    /\ sdk.restore # "name" => Restored[m].load = loaded
  OBVIOUS
<1>2. CASE m \in DOMAIN saved /\ (sdk.restore = "owner" => saved[m].load = loaded)
  <2>1. Restored[m] = saved[m]
    BY <1>2 DEF Restored
  <2>2. saved[m].wraps = 0
    BY <1>2 DEF WrappersHaveOriginals
  <2>3. sdk.restore = "drop" => saved[m].load = loaded
    BY <1>2 DEF WrappersHaveOriginals
  <2> QED BY <1>1, <1>2, <2>1, <2>2, <2>3
<1>3. CASE ~(m \in DOMAIN saved /\ (sdk.restore = "owner" => saved[m].load = loaded))
  <2>1. Restored[m] = method[m]
    BY <1>3 DEF Restored
  <2>2. method[m].wraps = 0
    BY <1>3 DEF WrappersHaveOriginals
  <2>3. sdk.restore # "name" => method[m].load = loaded
    BY DEF WrappersHaveOriginals
  <2> QED BY <2>1, <2>2, <2>3
<1> QED BY <1>2, <1>3

LEMMA NothingSaved ==
  ASSUME saved' = [m \in {} |-> Fresh]
  PROVE  /\ DOMAIN saved' = {} /\ saved' = [m \in DOMAIN saved' |-> saved'[m]]
OBVIOUS

\* The calls overtaken by a removal are in flight as before.
LEMMA OvertakenStay ==
  ASSUME InstrumentStateOK, FetchedAreSaved, Overtaken, UNCHANGED <<sdk, loaded>>
  PROVE  flight' \in [Callers -> Flight] /\ FetchedAreSaved'
<1>1. ASSUME NEW c \in Callers
      PROVE  /\ flight'[c] \in Flight
             /\ flight'[c].at = flight[c].at /\ flight'[c].wraps = flight[c].wraps
             /\ flight'[c].method = flight[c].method
             /\ flight'[c].stale = (flight[c].stale \/ flight[c].at = "fetched")
  <2> DEFINE s == flight[c].stale \/ flight[c].at = "fetched"
  <2>1. flight[c] \in Flight /\ s \in BOOLEAN
    BY DEF InstrumentStateOK
  <2>2. flight'[c] = [flight[c] EXCEPT !.stale = s]
    BY DEF Overtaken
  <2> HIDE DEF s
  <2>3. /\ flight'[c].stale = s
        /\ flight'[c].at = flight[c].at /\ flight'[c].wraps = flight[c].wraps
        /\ flight'[c].method = flight[c].method
    BY <2>1, <2>2 DEF Flight
  <2>4. flight'[c] \in Flight
    BY <2>1, <2>2 DEF Flight
  <2> QED BY <2>3, <2>4 DEF s
<1>2. flight' \in [Callers -> Flight]
  BY <1>1 DEF Overtaken
<1>3. FetchedAreSaved'
  BY <1>1 DEF FetchedAreSaved
<1> QED BY <1>2, <1>3
-----------------------------------------------------------------------------
LEMMA InstrumentKeeps ==
  ASSUME InstrumentInv, NEW t \in Trackers, Instrument(t)
  PROVE  InstrumentInv'
<1>1. /\ InstrumentStateOK /\ WorkIsUnderWay /\ FetchedAreSaved
      /\ Quiet /\ ~enabled[t] /\ ~Quiet' /\ t # Unset
      /\ UNCHANGED <<sdk, lacks, loaded, enabled, flight, failures>>
      /\ patched' = FALSE /\ patchedAt' = loaded
      /\ recorder' = t /\ caller' = t /\ todo' = Methods
  BY InstrumentAssumption DEF InstrumentInv, Instrument, Quiet
<1>2. sdk.reload \in BOOLEAN /\ (sdk.reload => sdk.restore # "name") /\ (sdk.lookup => ~sdk.reload)
  BY <1>1, EachIsOfItsKind DEF InstrumentStateOK
<1>3. WorkIsUnderWay'
  <2>1. 1 \in 1 .. MethodCount + 1
    BY InstrumentAssumption
  <2> QED BY <1>1, <2>1 DEF WorkIsUnderWay, Methods
<1>4. loaded \in Nat /\ patchedAt' \in 0 .. loaded' /\ Function' = Function
  BY <1>1 DEF InstrumentStateOK, Function
<1>5. CASE patched
  <2>1. /\ sdk.reload /\ patchedAt # loaded /\ saved' = [m \in {} |-> Fresh]
        /\ method' = IF sdk.restore = "owner" THEN Restored ELSE method
    BY <1>5 DEF Instrument
  <2>2. DOMAIN saved' = {} /\ saved' = [m \in DOMAIN saved' |-> saved'[m]]
    BY <2>1, NothingSaved
  <2>3. InstrumentStateOK'
    <3>1. method' \in [Methods -> Function]
      BY <1>1, <2>1, RestoredIsTyped DEF InstrumentStateOK
    <3> QED BY <1>1, <1>4, <2>2, <3>1 DEF InstrumentStateOK
  <2>4. FetchedAreSaved'
    BY <1>1, <1>2, <2>1 DEF FetchedAreSaved
  <2>5. ASSUME ~Spoiled PROVE WrappersHaveOriginals'
    <3>1. WrappersHaveOriginals
      BY <2>5 DEF InstrumentInv
    <3>2. \A m \in Methods : method[m].wraps = 0 /\ method[m].load = loaded
      BY <1>2, <2>1, <3>1 DEF WrappersHaveOriginals
    <3>3. sdk.restore = "owner" =>
            \A m \in Methods : Restored[m].wraps = 0 /\ Restored[m].load = loaded
      BY <1>1, <3>1, RestoredIsUnwrapped
    <3>4. \A m \in Methods : method'[m].wraps = 0 /\ method'[m].load = loaded
      BY <2>1, <3>2, <3>3
    <3> QED BY <1>1, <2>2, <3>4 DEF WrappersHaveOriginals
  <2>6. loaded # 0
    BY <1>1, <2>1 DEF InstrumentStateOK
  <2> QED BY <1>1, <1>3, <2>3, <2>4, <2>5, <2>6 DEF InstrumentInv, Spoiled
<1>6. CASE ~patched
  <2>1. method' = method /\ saved' = saved
    BY <1>6 DEF Instrument
  <2>2. InstrumentStateOK' /\ FetchedAreSaved'
    BY <1>1, <1>4, <2>1 DEF InstrumentStateOK, FetchedAreSaved
  <2>3. ASSUME ~Spoiled PROVE WrappersHaveOriginals'
    <3>1. WrappersHaveOriginals /\ DOMAIN saved = {}
      BY <1>1, <1>6, <2>3 DEF InstrumentInv, WrappersHaveOriginals
    <3> QED BY <1>1, <2>1, <3>1 DEF WrappersHaveOriginals
  <2>4. ASSUME ~Spoiled, loaded = 0 PROVE OneHasTheInstrument'
    <3>1. OneHasTheInstrument
      BY <2>4 DEF InstrumentInv
    <3> QED BY <1>1, <1>6, <3>1 DEF OneHasTheInstrument, Methods
  <2> QED BY <1>1, <1>3, <2>2, <2>3, <2>4 DEF InstrumentInv, Spoiled
<1> QED BY <1>1, <1>5, <1>6 DEF InstrumentStateOK

LEMMA PatchMethodKeeps ==
  ASSUME InstrumentInv, PatchMethod
  PROVE  InstrumentInv'
<1> DEFINE n == Next1
<1>1. /\ InstrumentStateOK /\ WorkIsUnderWay /\ FetchedAreSaved
      /\ todo # {} /\ todo' = todo \ {n} /\ ~Quiet /\ ~patched /\ patchedAt = loaded
      /\ UNCHANGED <<sdk, lacks, loaded, patched, patchedAt, recorder, enabled, caller, flight,
                     failures>>
  BY DEF InstrumentInv, PatchMethod, WorkIsUnderWay
<1>2. /\ n \in todo /\ n \in Methods /\ todo \subseteq Methods
      /\ \E k \in 1 .. MethodCount + 1 : todo \ {n} = k .. MethodCount
  BY <1>1, NextIsFirst
<1>3. CASE n \in lacks /\ UNCHANGED <<method, saved>>
  <2>1. InstrumentStateOK' /\ WorkIsUnderWay' /\ FetchedAreSaved'
    BY <1>1, <1>2, <1>3 DEF InstrumentStateOK, WorkIsUnderWay, FetchedAreSaved, Function, Quiet
  <2>2. ASSUME ~Spoiled PROVE WrappersHaveOriginals'
    BY <1>1, <1>3, <2>2 DEF InstrumentInv, WrappersHaveOriginals, Quiet
  <2>3. ASSUME ~Spoiled, loaded = 0 PROVE OneHasTheInstrument'
    <3>1. OneHasTheInstrument
      BY <2>3 DEF InstrumentInv
    <3> QED BY <1>1, <1>3, <3>1 DEF OneHasTheInstrument, Quiet
  <2> QED BY <1>1, <2>1, <2>2, <2>3 DEF InstrumentInv, Spoiled
<1>4. CASE /\ n \notin lacks
           /\ saved' = [m \in DOMAIN saved \cup {n} |-> IF m = n THEN method[m] ELSE saved[m]]
           /\ method' = [method EXCEPT ![n].wraps = @ + 1]
  <2>1. /\ method[n] \in Function
        /\ method'[n] \in Function /\ method'[n].load = method[n].load
        /\ method'[n].wraps = method[n].wraps + 1
        /\ \A m \in Methods \ {n} : method'[m] = method[m]
        /\ method' = [m \in Methods |-> method'[m]]
    <3>1. method[n] \in Function
      BY <1>1, <1>2 DEF InstrumentStateOK
    <3>2. method'[n] = [method[n] EXCEPT !.wraps = method[n].wraps + 1]
      BY <1>1, <1>2, <1>4 DEF InstrumentStateOK
    <3>3. method'[n] \in Function
      BY <3>1, <3>2 DEF Function
    <3>4. method'[n].load = method[n].load /\ method'[n].wraps = method[n].wraps + 1
      BY <3>1, <3>2 DEF Function
    <3> QED BY <1>1, <1>2, <1>4, <3>1, <3>3, <3>4 DEF InstrumentStateOK
  <2>2. /\ DOMAIN saved' = DOMAIN saved \cup {n} /\ saved'[n] = method[n]
        /\ \A m \in DOMAIN saved \ {n} : saved'[m] = saved[m]
        /\ saved' = [m \in DOMAIN saved' |-> saved'[m]]
    BY <1>4
  <2>3. InstrumentStateOK'
    <3>1. method' \in [Methods -> Function] /\ \A m \in DOMAIN saved' : saved'[m] \in Function
      BY <1>1, <2>1, <2>2 DEF InstrumentStateOK
    <3> QED BY <1>1, <1>2, <2>2, <3>1 DEF InstrumentStateOK, Function
  <2>4. WorkIsUnderWay' /\ FetchedAreSaved'
    BY <1>1, <1>2, <2>2 DEF WorkIsUnderWay, FetchedAreSaved, Quiet
  <2>5. ASSUME ~Spoiled PROVE WrappersHaveOriginals'
    <3>1. WrappersHaveOriginals
      BY <2>5 DEF InstrumentInv
    <3>2. method[n].wraps = 0 /\ (sdk.restore # "name" => method[n].load = loaded)
      BY <1>2, <3>1 DEF WrappersHaveOriginals
    <3>3. method'[n].wraps = 1
      BY <2>1, <3>2
    <3>4. \A m \in Methods : method'[m].wraps \in {0, 1}
      BY <2>1, <3>1, <3>3 DEF WrappersHaveOriginals
    <3>5. \A m \in DOMAIN saved' : saved'[m].wraps = 0
      BY <2>2, <3>1, <3>2 DEF WrappersHaveOriginals
    <3>6. ASSUME NEW m \in Methods, method'[m].wraps = 1
          PROVE  /\ m \in DOMAIN saved' /\ m \notin todo' /\ patchedAt' = loaded'
                 /\ sdk'.restore # "name" => saved'[m].load = loaded'
      BY <1>1, <2>1, <2>2, <3>1, <3>2, <3>6 DEF WrappersHaveOriginals
    <3>7. sdk'.restore # "name" => \A m \in Methods : method'[m].load = loaded'
      BY <1>1, <2>1, <3>1, <3>2 DEF WrappersHaveOriginals
    <3>8. sdk'.restore = "drop" => \A m \in DOMAIN saved' : saved'[m].load = patchedAt'
      BY <1>1, <2>2, <3>1, <3>2 DEF WrappersHaveOriginals
    <3> QED BY <1>1, <3>4, <3>5, <3>6, <3>7, <3>8 DEF WrappersHaveOriginals, Quiet
  <2>6. ASSUME ~Spoiled, loaded = 0 PROVE OneHasTheInstrument'
    <3>1. OneHasTheInstrument /\ WrappersHaveOriginals
      BY <2>6 DEF InstrumentInv
    <3>2. method'[n].wraps = 1
      BY <1>2, <2>1, <3>1 DEF WrappersHaveOriginals
    <3>3. recorder # Unset => \A m \in Methods \ (lacks \union todo') : method'[m].wraps = 1
      BY <1>1, <2>1, <3>1, <3>2 DEF OneHasTheInstrument
    <3> QED BY <1>1, <3>1, <3>3 DEF OneHasTheInstrument, Quiet
  <2> HIDE DEF n
  <2> QED BY <1>1, <2>3, <2>4, <2>5, <2>6 DEF InstrumentInv, Spoiled
<1> QED BY <1>3, <1>4 DEF PatchMethod

LEMMA InstrumentFailsKeeps ==
  ASSUME InstrumentInv, InstrumentFails
  PROVE  InstrumentInv'
<1>1. /\ InstrumentStateOK /\ WorkIsUnderWay /\ FetchedAreSaved
      /\ ~Quiet /\ ~patched /\ patchedAt = loaded
      /\ failures \in Nat /\ failures' = failures + 1
      /\ todo' = {} /\ caller' = Unset /\ Quiet'
      /\ UNCHANGED <<sdk, lacks, loaded, patched, patchedAt, enabled>>
  BY DEF InstrumentInv, InstrumentFails, WorkIsUnderWay, Quiet, InstrumentStateOK
<1>2. sdk.rollback \in BOOLEAN /\ (sdk.rollback => sdk.restore # "drop")
  BY <1>1, EachIsOfItsKind DEF InstrumentStateOK
<1>3. WorkIsUnderWay'
  <2>1. MethodCount + 1 \in 1 .. MethodCount + 1 /\ (MethodCount + 1) .. MethodCount = {}
    BY InstrumentAssumption
  <2> QED BY <1>1, <2>1 DEF WorkIsUnderWay
<1>4. CASE sdk.rollback
  <2>1. /\ method' = Restored /\ saved' = [m \in {} |-> Fresh]
        /\ recorder' = Unset /\ Overtaken
    BY <1>4 DEF InstrumentFails
  <2>2. DOMAIN saved' = {} /\ saved' = [m \in DOMAIN saved' |-> saved'[m]]
    BY <2>1, NothingSaved
  <2>3. Restored \in [Methods -> Function] /\ flight' \in [Callers -> Flight] /\ FetchedAreSaved'
    BY <1>1, <2>1, RestoredIsTyped, OvertakenStay
  <2>4. InstrumentStateOK'
    BY <1>1, <2>1, <2>2, <2>3 DEF InstrumentStateOK, Function
  <2>5. WrappersHaveOriginals /\ ~Spoiled
    BY <1>4 DEF InstrumentInv, Spoiled
  <2>6. /\ \A m \in Methods : method'[m].wraps = 0
        /\ sdk.restore # "name" => \A m \in Methods : method'[m].load = loaded
    BY <1>1, <2>1, <2>5, RestoredIsUnwrapped
  <2>7. WrappersHaveOriginals'
    BY <1>1, <2>2, <2>6 DEF WrappersHaveOriginals
  <2>8. loaded = 0 => OneHasTheInstrument'
    BY <1>1, <2>1, <2>5 DEF InstrumentInv, OneHasTheInstrument
  <2> QED BY <1>1, <1>3, <2>3, <2>4, <2>7, <2>8 DEF InstrumentInv
<1>5. CASE ~sdk.rollback
  <2>1. UNCHANGED <<method, saved, recorder, flight>>
    BY <1>5 DEF InstrumentFails
  <2>2. Spoiled'
    BY <1>1, <1>5 DEF Spoiled
  <2>3. InstrumentStateOK' /\ FetchedAreSaved'
    BY <1>1, <2>1 DEF InstrumentStateOK, FetchedAreSaved, Function
  <2> QED BY <1>3, <2>2, <2>3 DEF InstrumentInv
<1> QED BY <1>2, <1>4, <1>5

LEMMA InstrumentDoneKeeps ==
  ASSUME InstrumentInv, InstrumentDone
  PROVE  InstrumentInv'
<1>1. /\ InstrumentStateOK /\ WorkIsUnderWay /\ FetchedAreSaved
      /\ ~Quiet /\ todo = {} /\ caller \in Trackers /\ ~patched /\ patchedAt = loaded
      /\ patched' = TRUE /\ enabled' = [enabled EXCEPT ![caller] = TRUE]
      /\ caller' = Unset /\ Quiet'
      /\ UNCHANGED <<sdk, lacks, loaded, method, saved, patchedAt, recorder, todo, flight,
                     failures>>
  BY DEF InstrumentInv, InstrumentDone, WorkIsUnderWay, Quiet, InstrumentStateOK
<1>2. InstrumentStateOK' /\ WorkIsUnderWay' /\ FetchedAreSaved'
  BY <1>1 DEF InstrumentStateOK, WorkIsUnderWay, FetchedAreSaved, Function
<1>3. ASSUME ~Spoiled PROVE WrappersHaveOriginals'
  BY <1>1, <1>3 DEF InstrumentInv, WrappersHaveOriginals
<1>4. ASSUME ~Spoiled, loaded = 0 PROVE OneHasTheInstrument'
  <2>1. OneHasTheInstrument
    BY <1>4 DEF InstrumentInv
  <2>2. recorder = caller /\ recorder # Unset /\ enabled' \in [Trackers -> BOOLEAN]
    BY <1>1, <2>1, InstrumentAssumption DEF OneHasTheInstrument, InstrumentStateOK
  <2>3. \A t \in Trackers : enabled'[t] <=> t = caller
    BY <1>1, <2>1 DEF OneHasTheInstrument, InstrumentStateOK
  <2> QED BY <1>1, <2>1, <2>2, <2>3 DEF OneHasTheInstrument
<1> QED BY <1>1, <1>2, <1>3, <1>4 DEF InstrumentInv, Spoiled

LEMMA UninstrumentKeeps ==
  ASSUME InstrumentInv, NEW t \in Trackers, Uninstrument(t)
  PROVE  InstrumentInv'
<1>1. /\ InstrumentStateOK /\ WorkIsUnderWay /\ FetchedAreSaved
      /\ Quiet /\ enabled[t] /\ Quiet'
      /\ enabled' = [enabled EXCEPT ![t] = FALSE]
      /\ UNCHANGED <<sdk, lacks, loaded, patchedAt, todo, caller, failures>>
  BY DEF InstrumentInv, Uninstrument, Quiet
<1>2. WorkIsUnderWay'
  BY <1>1 DEF WorkIsUnderWay
<1>3. CASE ~patched
  <2>1. UNCHANGED <<method, saved, recorder, patched, flight>>
    BY <1>3 DEF Uninstrument
  <2>2. InstrumentStateOK' /\ FetchedAreSaved'
    BY <1>1, <2>1 DEF InstrumentStateOK, FetchedAreSaved, Function
  <2>3. ASSUME ~Spoiled PROVE WrappersHaveOriginals'
    BY <1>1, <2>1, <2>3 DEF InstrumentInv, WrappersHaveOriginals
  <2>4. ~(~Spoiled /\ loaded = 0)
    BY <1>1, <1>3 DEF InstrumentInv, OneHasTheInstrument
  <2> QED BY <1>1, <1>2, <2>2, <2>3, <2>4 DEF InstrumentInv, Spoiled
<1>4. CASE patched
  <2>1. /\ method' = IF sdk.restore = "drop" /\ patchedAt # loaded THEN method ELSE Restored
        /\ saved' = [m \in {} |-> Fresh] /\ recorder' = Unset /\ patched' = FALSE
        /\ Overtaken
    BY <1>4 DEF Uninstrument
  <2>2. DOMAIN saved' = {} /\ saved' = [m \in DOMAIN saved' |-> saved'[m]]
    BY <2>1, NothingSaved
  <2>3. /\ method' \in [Methods -> Function]
        /\ flight' \in [Callers -> Flight] /\ FetchedAreSaved'
    BY <1>1, <2>1, RestoredIsTyped, OvertakenStay DEF InstrumentStateOK
  <2>4. InstrumentStateOK'
    BY <1>1, <2>1, <2>2, <2>3 DEF InstrumentStateOK, Function
  <2>5. ASSUME ~Spoiled PROVE WrappersHaveOriginals'
    <3>1. WrappersHaveOriginals
      BY <2>5 DEF InstrumentInv
    <3>2. /\ \A m \in Methods : method'[m].wraps = 0
          /\ sdk.restore # "name" => \A m \in Methods : method'[m].load = loaded
      <4>1. CASE sdk.restore = "drop" /\ patchedAt # loaded
        BY <2>1, <3>1, <4>1 DEF WrappersHaveOriginals
      <4>2. CASE sdk.restore = "drop" => patchedAt = loaded
        <5>1. method' = Restored
          BY <2>1, <4>2
        <5> QED BY <1>1, <3>1, <4>2, <5>1, RestoredIsUnwrapped
      <4> QED BY <4>1, <4>2
    <3> QED BY <1>1, <2>2, <3>2 DEF WrappersHaveOriginals
  <2>6. ASSUME ~Spoiled, loaded = 0 PROVE OneHasTheInstrument'
    <3>1. \A u \in Trackers : ~enabled'[u]
      <4>1. \A u \in Trackers : enabled[u] => recorder = u
        BY <2>6 DEF InstrumentInv, OneHasTheInstrument
      <4> QED BY <1>1, <4>1 DEF InstrumentStateOK
    <3> QED BY <1>1, <2>1, <3>1 DEF OneHasTheInstrument
  <2> QED BY <1>1, <1>2, <2>3, <2>4, <2>5, <2>6 DEF InstrumentInv, Spoiled
<1> QED BY <1>1, <1>3, <1>4 DEF InstrumentStateOK

LEMMA ReloadKeeps ==
  ASSUME InstrumentInv, Reload
  PROVE  InstrumentInv'
<1>1. /\ InstrumentStateOK /\ WorkIsUnderWay /\ FetchedAreSaved
      /\ Quiet /\ Quiet' /\ loaded \in Nat /\ patchedAt \in 0 .. loaded /\ loaded' = loaded + 1
      /\ method' = [m \in Methods |-> [wraps |-> 0, load |-> loaded + 1]]
      /\ UNCHANGED <<sdk, lacks, saved, patched, patchedAt, recorder, enabled, todo, caller,
                     flight, failures>>
  BY DEF InstrumentInv, Reload, Quiet, InstrumentStateOK
<1>2. Function \subseteq Function'
  BY <1>1 DEF Function
<1>3. method' \in [Methods -> Function']
  BY <1>1 DEF Function
<1>4. \A m \in DOMAIN saved : saved[m] \in Function'
  BY <1>1, <1>2 DEF InstrumentStateOK
<1>5. patchedAt' \in 0 .. loaded' /\ loaded' \in Nat
  BY <1>1
<1>6. InstrumentStateOK'
  BY <1>1, <1>3, <1>4, <1>5 DEF InstrumentStateOK
<1>7. WorkIsUnderWay' /\ FetchedAreSaved' /\ loaded' # 0
  BY <1>1 DEF WorkIsUnderWay, FetchedAreSaved
<1>8. ASSUME ~Spoiled PROVE WrappersHaveOriginals'
  <2>1. WrappersHaveOriginals
    BY <1>8 DEF InstrumentInv
  <2> QED BY <1>1, <2>1 DEF WrappersHaveOriginals
<1> QED BY <1>1, <1>6, <1>7, <1>8 DEF InstrumentInv, Spoiled

\* A step of a caller leaves everything but its own call alone.
LEMMA CallerKeeps ==
  ASSUME InstrumentInv, NEW c \in Callers, NEW f \in Flight,
         flight' = [flight EXCEPT ![c] = f],
         f.at = "fetched" /\ f.wraps > 0 /\ sdk.lookup /\ ~f.stale => f.method \in DOMAIN saved,
         f.at = "KeyError" => sdk.lookup /\ f.stale,
         UNCHANGED <<sdk, lacks, loaded, method, saved, patched, patchedAt, recorder, enabled,
                     todo, caller, failures>>
  PROVE  InstrumentInv'
<1>1. InstrumentStateOK' /\ WorkIsUnderWay'
  BY DEF InstrumentInv, InstrumentStateOK, WorkIsUnderWay, Function, Quiet
<1>2. FetchedAreSaved'
  BY DEF InstrumentInv, InstrumentStateOK, FetchedAreSaved
<1>3. (WrappersHaveOriginals => WrappersHaveOriginals')
  BY DEF WrappersHaveOriginals, Quiet
<1>4. (OneHasTheInstrument => OneHasTheInstrument')
  BY DEF OneHasTheInstrument, Quiet
<1> QED BY <1>1, <1>2, <1>3, <1>4 DEF InstrumentInv, Spoiled

LEMMA FetchKeeps ==
  ASSUME InstrumentInv, NEW c \in Callers, NEW m \in Methods, Fetch(c, m)
  PROVE  InstrumentInv'
<1> DEFINE f == [at |-> "fetched", method |-> m, wraps |-> method[m].wraps, stale |-> FALSE]
<1>1. method[m] \in Function /\ sdk \in Instruments
  BY DEF InstrumentInv, InstrumentStateOK
<1>2. f \in Flight
  BY <1>1 DEF Flight, Function
<1>3. f.at = "fetched" /\ f.wraps = method[m].wraps /\ f.method = m
  OBVIOUS
<1>4. f.wraps > 0 /\ sdk.lookup => m \in DOMAIN saved
  <2>1. sdk.lookup => ~Spoiled
    BY <1>1, EachIsOfItsKind DEF Spoiled
  <2> QED BY <1>1, <1>3, <2>1 DEF InstrumentInv, WrappersHaveOriginals
<1>5. /\ flight' = [flight EXCEPT ![c] = f]
      /\ UNCHANGED <<sdk, lacks, loaded, method, saved, patched, patchedAt, recorder, enabled,
                     todo, caller, failures>>
  BY DEF Fetch
<1> HIDE DEF f
<1> QED BY <1>2, <1>3, <1>4, <1>5, CallerKeeps

LEMMA RunKeeps ==
  ASSUME InstrumentInv, NEW c \in Callers, Run(c)
  PROVE  InstrumentInv'
<1> DEFINE lost == flight[c].wraps > 0 /\ sdk.lookup /\ flight[c].method \notin DOMAIN saved
           to == IF lost THEN "KeyError" ELSE "answered"
           f == [flight[c] EXCEPT !.at = to]
<1>1. flight[c] \in Flight /\ flight[c].at = "fetched" /\ to \in {"answered", "KeyError"}
  BY DEF InstrumentInv, InstrumentStateOK, Run
<1>2. lost => sdk.lookup /\ flight[c].stale
  BY <1>1 DEF InstrumentInv, FetchedAreSaved, Flight
<1>3. /\ flight' = [flight EXCEPT ![c] = f]
      /\ UNCHANGED <<sdk, lacks, loaded, method, saved, patched, patchedAt, recorder, enabled,
                     todo, caller, failures>>
  BY DEF Run
<1>4. to = "KeyError" => lost
  OBVIOUS
<1> HIDE DEF lost, to
<1>5. f \in Flight
  BY <1>1 DEF Flight
<1>6. f.at = to /\ f.stale = flight[c].stale
  BY <1>1 DEF Flight
<1>7. f.at # "fetched"
  BY <1>1, <1>6
<1> HIDE DEF f
<1> QED BY <1>2, <1>3, <1>4, <1>5, <1>6, <1>7, CallerKeeps
-----------------------------------------------------------------------------
LEMMA InstrumentStarts ==
  ASSUME InstrumentInit
  PROVE  InstrumentInv
<1>1. DOMAIN saved = {} /\ saved = [m \in DOMAIN saved |-> saved[m]]
  BY DEF InstrumentInit
<1>2. /\ loaded = 0 /\ 0 \in 0 .. 0
      /\ \A m \in Methods : method[m].wraps = 0 /\ method[m].load = 0
      /\ \A c \in Callers : flight[c].at = "idle"
      /\ Quiet /\ failures = 0 /\ ~patched /\ todo = {} /\ recorder = Unset
      /\ \A t \in Trackers : ~enabled[t]
  BY DEF InstrumentInit, Quiet, NotFetched
<1>3. method \in [Methods -> Function]
  BY <1>2 DEF InstrumentInit, Function
<1>4. flight \in [Callers -> Flight]
  <2>1. 1 \in Methods
    BY InstrumentAssumption DEF Methods
  <2> QED BY <2>1 DEF InstrumentInit, NotFetched, Flight
<1>5. InstrumentStateOK
  <2>1. loaded \in Nat /\ patchedAt \in 0 .. loaded /\ failures \in Nat
    BY <1>2 DEF InstrumentInit
  <2> QED BY <1>1, <1>3, <1>4, <2>1 DEF InstrumentInit, InstrumentStateOK
<1>6. WorkIsUnderWay
  <2>1. MethodCount + 1 \in 1 .. MethodCount + 1 /\ (MethodCount + 1) .. MethodCount = {}
    BY InstrumentAssumption
  <2> QED BY <1>2, <2>1 DEF WorkIsUnderWay
<1>7. FetchedAreSaved /\ WrappersHaveOriginals /\ OneHasTheInstrument
  BY <1>1, <1>2 DEF FetchedAreSaved, WrappersHaveOriginals, OneHasTheInstrument
<1> QED BY <1>5, <1>6, <1>7 DEF InstrumentInv

LEMMA InstrumentHolds == InstrumentSpec => []InstrumentInv
<1>1. InstrumentInv /\ InstrumentNext => InstrumentInv'
  BY InstrumentKeeps, PatchMethodKeeps, InstrumentFailsKeeps, InstrumentDoneKeeps,
     UninstrumentKeeps, ReloadKeeps, FetchKeeps, RunKeeps DEF InstrumentNext
<1>2. InstrumentInv /\ UNCHANGED instrumentVars => InstrumentInv'
  BY DEF instrumentVars, InstrumentInv, InstrumentStateOK, WorkIsUnderWay, FetchedAreSaved,
         WrappersHaveOriginals, OneHasTheInstrument, Spoiled, Quiet, Function
<1> QED BY <1>1, <1>2, InstrumentStarts, PTL DEF InstrumentSpec

(* However many trackers put the same instrument on and off, fail half     *)
(* way and load the SDK again while the application calls it: the SDK is   *)
(* left as it was found, no method is wrapped twice, the tracker that      *)
(* records is the one that has the instrument, and a wrapper finds its     *)
(* original unless a removal overtook it (instruments/, tracker.py).       *)
THEOREM SdkStaysKept == InstrumentSpec => []SdkIsKept
<1>1. ASSUME InstrumentInv PROVE SdkIsKept
  <2>1. SdkIsLeftAsFound
    <3> SUFFICES ASSUME Quiet, ~patched, ~Spoiled, sdk.reload \/ loaded = 0
                 PROVE  (\A m \in Methods : method[m] = Fresh) /\ DOMAIN saved = {}
      BY DEF SdkIsLeftAsFound
    <3>1. WrappersHaveOriginals /\ DOMAIN saved = {} /\ \A m \in Methods : method[m].wraps = 0
      BY <1>1 DEF InstrumentInv, WrappersHaveOriginals
    <3>2. ASSUME NEW m \in Methods PROVE method[m] = Fresh
      <4>1. method[m] \in Function /\ sdk \in Instruments
        BY <1>1 DEF InstrumentInv, InstrumentStateOK
      <4>2. method[m].load = loaded
        <5>1. sdk.reload => sdk.restore # "name"
          BY <4>1, EachIsOfItsKind
        <5>2. loaded = 0 => method[m].load = loaded
          BY <4>1 DEF Function
        <5> QED BY <3>1, <5>1, <5>2 DEF WrappersHaveOriginals
      <4> QED BY <3>1, <4>1, <4>2 DEF Function, Fresh
    <3> QED BY <3>1, <3>2
  <2>2. WrappedOnce
    BY <1>1 DEF InstrumentInv, WrappersHaveOriginals, WrappedOnce
  <2>3. RecorderHasTheInstrument
    <3> SUFFICES ASSUME Quiet, ~Spoiled, loaded = 0
                 PROVE  /\ \A t \in Trackers : enabled[t] <=> recorder = t
                        /\ recorder # Unset =>
                             patched /\ \A m \in Methods \ lacks : method[m].wraps = 1
      BY DEF RecorderHasTheInstrument
    <3>1. OneHasTheInstrument /\ todo = {}
      BY <1>1 DEF InstrumentInv, WorkIsUnderWay
    <3> QED BY <3>1, InstrumentAssumption DEF OneHasTheInstrument
  <2>4. CallReachesTheSdk
    BY <1>1 DEF InstrumentInv, FetchedAreSaved, CallReachesTheSdk
  <2> QED BY <2>1, <2>2, <2>3, <2>4 DEF SdkIsKept
<1> QED BY <1>1, InstrumentHolds, PTL
=============================================================================
