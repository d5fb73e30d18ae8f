---------------------------- MODULE ProviderCalls ----------------------------
(***************************************************************************)
(* How a call of a provider's SDK becomes one event: the wrappers of       *)
(* instruments/, the streams they return, the ownership of nested wrappers *)
(* (instruments/_capture.py) and the automatic task of a call that is made *)
(* outside every task.                                                     *)
(*                                                                         *)
(* All wrappers follow one pattern and differ in what they catch.  A       *)
(* wrapper is a record of those differences, and the actions read it.      *)
(* One flow of control is modelled, a thread or an asyncio task: it has    *)
(* one current task and one owner, and calls interleave in it because a    *)
(* stream stays open while other calls are made, and because a gateway     *)
(* (LiteLLM) calls the SDK of a provider that is wrapped too.              *)
(***************************************************************************)
EXTENDS Naturals, Sequences

CONSTANTS Calls,        \* the calls the application, or a gateway, makes
          MaxFaults     \* bound on the writes of the wrappers that fail

Nobody == "nobody"      \* no owner, no task, no call
AppTask == "app task"

ASSUME CallsAssumption == MaxFaults \in Nat /\ {Nobody, AppTask} \cap Calls = {}

-----------------------------------------------------------------------------
\* What a wrapper does when the call raises: the exceptions it catches ("cancel" is
\* asyncio.CancelledError, which is no Exception), and the status a cancellation gets.
Exceptions == [catches |-> {"error"}, cancelled |-> "failed"]
Everything == [catches |-> {"error", "cancel"}, cancelled |-> "failed"]

OpenAICreate == Exceptions
OpenAIAsyncCreate == Exceptions
OpenAIAsyncStreamCreate == Exceptions
OpenAIProviderCall == Exceptions
OpenAIAsyncProviderCall == Exceptions
AnthropicCreate == Exceptions
AnthropicAsyncCreate == Exceptions
AnthropicAsyncStreamCreate == Exceptions
LiteLLMCompletion == Exceptions
LiteLLMAsyncCompletion == Exceptions
LiteLLMAsyncStreamCompletion == Exceptions
LiteLLMOperation == [Everything EXCEPT !.cancelled = "cancelled"]
LiteLLMAsyncOperation == [Everything EXCEPT !.cancelled = "cancelled"]
BedrockInvoke == Exceptions
BedrockGuardrail == Everything
BedrockBidirectional == Everything
BedrockConverse == Everything
CohereChat == Exceptions
CohereAsyncChat == Exceptions
CohereChatStream == Exceptions
CohereAsyncChatStream == Exceptions
CohereMetered == Everything
CohereAsyncMetered == Everything
GeminiCall == Exceptions
GeminiAsyncCall == Exceptions
GeminiStreamCall == Exceptions
GeminiAsyncStreamCall == Exceptions
McpToolCall == Exceptions
OpenRouterCall == Everything
OpenRouterAsyncCall == Everything
PerplexityCall == Everything
PerplexityAsyncCall == Everything
GroqCall == Everything
GroqAsyncCall == Everything
OllamaCall == Everything
OllamaAsyncCall == Everything
FalOperation == Everything
FalAsyncOperation == Everything
FalAsyncStream == Everything

\* A stream: what it catches while it is consumed and while it is closed, the status
\* of one whose close raises, what its items may say of its end other than success, and
\* whether one that is dropped is recorded (__del__).
PlainStream == [consume |-> {"error"}, close |-> {"error", "cancel"}, broken |-> "failed",
                reads |-> {}, drop |-> FALSE]

OpenAIStream == PlainStream
OpenAIAsyncStream == PlainStream
LiteLLMStream == PlainStream
LiteLLMAsyncStream == PlainStream
AnthropicStream == [PlainStream EXCEPT !.close = {"error"}, !.drop = TRUE]
AnthropicAsyncStream == [PlainStream EXCEPT !.close = {"error"}, !.drop = TRUE]
CohereStream == [AnthropicStream EXCEPT !.reads = {"failed", "unknown"}]
CohereAsyncStream == [AnthropicAsyncStream EXCEPT !.reads = {"failed", "unknown"}]
BedrockStream == [PlainStream EXCEPT !.broken = "cancelled"]
SmithyReceiver == [PlainStream EXCEPT !.consume = {"error", "cancel"}, !.broken = "cancelled",
                                      !.reads = {"failed"}]
SmithyDuplex == SmithyReceiver
SyncProviderStream == [PlainStream EXCEPT !.consume = {"error", "cancel"},
                                          !.reads = {"failed", "unknown"}]
AsyncProviderStream == [PlainStream EXCEPT !.consume = {"error", "cancel"},
                                           !.reads = {"failed", "unknown"}]

Wrapper(calls, streams, gateway) ==
  [call : calls, stream : streams, gateway : {gateway}]

Wrappers == UNION {
  Wrapper({OpenAICreate, OpenAIAsyncCreate, OpenAIAsyncStreamCreate},
          {OpenAIStream, OpenAIAsyncStream}, FALSE),
  Wrapper({OpenAIProviderCall, OpenAIAsyncProviderCall, GeminiCall, GeminiAsyncCall,
           GeminiStreamCall, GeminiAsyncStreamCall, McpToolCall},
          {SyncProviderStream, AsyncProviderStream}, FALSE),
  Wrapper({AnthropicCreate, AnthropicAsyncCreate, AnthropicAsyncStreamCreate},
          {AnthropicStream, AnthropicAsyncStream}, FALSE),
  Wrapper({LiteLLMCompletion, LiteLLMAsyncCompletion, LiteLLMAsyncStreamCompletion},
          {LiteLLMStream, LiteLLMAsyncStream}, TRUE),
  Wrapper({LiteLLMOperation, LiteLLMAsyncOperation},
          {SyncProviderStream, AsyncProviderStream}, TRUE),
  Wrapper({BedrockInvoke}, {BedrockStream}, FALSE),
  Wrapper({BedrockBidirectional, BedrockGuardrail}, {SmithyReceiver, SmithyDuplex}, FALSE),
  Wrapper({CohereChat, CohereAsyncChat, CohereChatStream, CohereAsyncChatStream},
          {CohereStream, CohereAsyncStream}, FALSE),
  Wrapper({BedrockConverse, CohereMetered, CohereAsyncMetered, OpenRouterCall,
           OpenRouterAsyncCall, PerplexityCall, PerplexityAsyncCall, GroqCall, GroqAsyncCall,
           OllamaCall, OllamaAsyncCall, FalOperation, FalAsyncOperation, FalAsyncStream},
          {SyncProviderStream, AsyncProviderStream}, FALSE)}

-----------------------------------------------------------------------------
VARIABLES op,        \* [Calls -> the call: its wrapper, where it is and how it ended]
          inside,    \* the innermost call that is on the wire
          context,   \* the current task: Nobody, AppTask or the call whose automatic task it is
          owner,     \* the call whose wrapper owns the capture
          recorded,  \* [Calls -> the events stored for the call]
          taskRow,   \* [Calls -> the status of the stored automatic task, or "none"]
          faults     \* failed writes so far

callVars == <<op, inside, context, owner, recorded, taskRow, faults>>

NoWrapper == [gateway |-> FALSE]
NewCall == [at |-> "new", wrapper |-> NoWrapper, claimed |-> FALSE, task |-> Nobody,
            before |-> Nobody, parent |-> Nobody, ended |-> "no", settled |-> FALSE]

CallsInit == /\ op = [c \in Calls |-> NewCall]
             /\ inside = Nobody /\ context = Nobody /\ owner = Nobody
             /\ recorded = [c \in Calls |-> << >>]
             /\ taskRow = [c \in Calls |-> "none"]
             /\ faults = 0

InAutoTask(c) == op[c].task = c

\* Mutant: the task is looked up when the call ends.
SettleUnderCurrent(c, status) ==
  IF ~op[c].claimed \/ op[c].settled THEN UNCHANGED <<recorded, taskRow, faults>>
  ELSE /\ recorded' = [recorded EXCEPT ![c] = Append(@, [status |-> status,
                         task |-> IF context = Nobody THEN c ELSE context])]
       /\ UNCHANGED <<taskRow, faults>>

\* The event is stored, then the automatic task; a write that fails is logged and the
\* rest is left out, so that the answer of the provider reaches the application.
Settle(c, status) ==
  IF ~op[c].claimed \/ op[c].settled THEN UNCHANGED <<recorded, taskRow, faults>>
  ELSE LET event == [status |-> status, task |-> op[c].task]
       IN \/ /\ recorded' = [recorded EXCEPT ![c] = Append(@, event)]
             /\ taskRow' = IF ~InAutoTask(c) THEN taskRow
                           ELSE [taskRow EXCEPT ![c] = IF status = "succeeded" THEN "success"
                                                       ELSE "failed"]
             /\ UNCHANGED faults
          \/ /\ faults < MaxFaults /\ faults' = faults + 1
             /\ \/ UNCHANGED recorded
                \/ InAutoTask(c) /\ recorded' = [recorded EXCEPT ![c] = Append(@, event)]
             /\ UNCHANGED taskRow

\* A wrapper is entered: the outermost one owns the call and gives it a task, one that
\* is nested calls the SDK and does nothing else.
Enter(c, w) ==
  /\ op[c].at = "new"
  /\ inside # Nobody => op[inside].wrapper.gateway
  /\ LET claims == owner = Nobody
         task == IF context = Nobody THEN c ELSE context
     IN /\ op' = [op EXCEPT ![c] = [NewCall EXCEPT
                    !.at = "wire", !.wrapper = w, !.claimed = claims, !.parent = inside,
                    !.task = IF claims THEN task ELSE Nobody, !.before = context]]
        /\ owner' = IF claims THEN c ELSE owner
        /\ context' = IF claims THEN task ELSE context
  /\ inside' = c
  /\ UNCHANGED <<recorded, taskRow, faults>>

\* The wrapper is left: the current task and the owner are what they were.
Leave(c) == /\ inside' = op[c].parent
            /\ context' = IF op[c].claimed THEN op[c].before ELSE context
            /\ owner' = IF op[c].claimed THEN Nobody ELSE owner

EndsAs(c, at, how, settled) ==
  op' = [op EXCEPT ![c].at = at, ![c].ended = how, ![c].settled = @ \/ settled]

Answer(c, status) ==
  /\ op[c].at = "wire" /\ inside = c
  /\ EndsAs(c, "over", status, TRUE) /\ Settle(c, status) /\ Leave(c)

ReturnStream(c) ==
  /\ op[c].at = "wire" /\ inside = c
  /\ EndsAs(c, "stream", "no", FALSE) /\ Leave(c)
  /\ UNCHANGED <<recorded, taskRow, faults>>

Raise(c, how) ==
  LET handler == op[c].wrapper.call
  IN /\ op[c].at = "wire" /\ inside = c
     /\ EndsAs(c, "over", how, how \in handler.catches)
     /\ IF how \in handler.catches
        THEN Settle(c, IF how = "cancel" THEN handler.cancelled ELSE "failed")
        ELSE UNCHANGED <<recorded, taskRow, faults>>
     /\ Leave(c)

-----------------------------------------------------------------------------
\* The application uses a stream it was given, between calls and under whatever task
\* is current then.
OpenStream(c) == op[c].at = "stream" /\ inside = Nobody
OutOfCall == UNCHANGED <<inside, context, owner>>
First(c, how) == IF op[c].ended = "no" THEN how ELSE op[c].ended

\* Mutant: a stream that was read to its end waits for its close.
ExhaustUnsettled(c, status) ==
  /\ OpenStream(c) /\ op[c].ended = "no"
  /\ status # "succeeded" => status \in op[c].wrapper.stream.reads
  /\ EndsAs(c, "stream", status, FALSE)
  /\ OutOfCall /\ UNCHANGED <<recorded, taskRow, faults>>

\* The last item has been read, or one that says how it went: the status is success, or
\* what the items said.
Exhaust(c, status) ==
  /\ OpenStream(c) /\ op[c].ended = "no"
  /\ status # "succeeded" => status \in op[c].wrapper.stream.reads
  /\ EndsAs(c, "stream", status, TRUE) /\ Settle(c, status) /\ OutOfCall

Break(c, how) ==
  LET stream == op[c].wrapper.stream
  IN /\ OpenStream(c) /\ op[c].ended = "no"
     /\ EndsAs(c, "stream", how, how \in stream.consume)
     /\ IF how \in stream.consume THEN Settle(c, "failed")
        ELSE UNCHANGED <<recorded, taskRow, faults>>
     /\ OutOfCall

\* close, aclose or the end of a with block.
Close(c) == /\ OpenStream(c)
            /\ EndsAs(c, "over", First(c, "closed"), TRUE)
            /\ Settle(c, "cancelled") /\ OutOfCall

CloseRaised == [error |-> "close raised error", cancel |-> "close raised cancel"]

CloseRaises(c, how) ==
  LET stream == op[c].wrapper.stream
      told == stream.broken = "cancelled" \/ how \in stream.close
  IN /\ OpenStream(c)
     /\ EndsAs(c, "over", First(c, CloseRaised[how]), told)
     /\ IF told THEN Settle(c, stream.broken) ELSE UNCHANGED <<recorded, taskRow, faults>>
     /\ OutOfCall

\* The stream is garbage: only some of the wrappers notice.
Drop(c) == /\ OpenStream(c)
           /\ EndsAs(c, "over", First(c, "dropped"), op[c].wrapper.stream.drop)
           /\ IF op[c].wrapper.stream.drop THEN Settle(c, "cancelled")
              ELSE UNCHANGED <<recorded, taskRow, faults>>
           /\ OutOfCall

\* The application enters or leaves a task of its own.
SwitchTask == /\ inside = Nobody
              /\ context' = IF context = Nobody THEN AppTask ELSE Nobody
              /\ UNCHANGED <<op, inside, owner, recorded, taskRow, faults>>

CallsNext ==
  \/ \E c \in Calls :
       \/ \E w \in Wrappers : Enter(c, w)
       \/ Answer(c, "succeeded") \/ ReturnStream(c)
       \/ \E how \in {"error", "cancel"} : Raise(c, how) \/ Break(c, how) \/ CloseRaises(c, how)
       \/ \E status \in {"succeeded", "failed", "unknown"} : Exhaust(c, status)
       \/ Close(c) \/ Drop(c)
  \/ SwitchTask

CallsSpec == CallsInit /\ [][CallsNext]_callVars

-----------------------------------------------------------------------------
CallsTypeOK ==
  /\ \A c \in Calls : /\ op[c].at \in {"new", "wire", "stream", "over"}
                      /\ op[c].wrapper \in Wrappers \cup {NoWrapper}
                      /\ op[c].claimed \in BOOLEAN /\ op[c].settled \in BOOLEAN
                      /\ op[c].parent \in Calls \cup {Nobody}
                      /\ {op[c].task, op[c].before} \subseteq Calls \cup {Nobody, AppTask}
                      /\ taskRow[c] \in {"none", "success", "failed"}
  /\ inside \in Calls \cup {Nobody} /\ owner \in Calls \cup {Nobody}
  /\ context \in Calls \cup {Nobody, AppTask}
  /\ faults \in 0 .. MaxFaults

\* The endings every wrapper reports.
Reported == {"succeeded", "failed", "unknown", "error", "closed", "close raised error"}

\* One call of the application is one event: not two when its stream ends in several
\* ways or when a gateway and the SDK below it are both wrapped, and not none when it
\* ended in a way the wrapper sees (_capture.py provider_capture_scope).
RecordedExactlyOnce ==
  /\ \A c \in Calls : Len(recorded[c]) <= 1 /\ (~op[c].claimed => recorded[c] = << >>)
  /\ faults = 0 => \A c \in Calls :
       op[c].claimed /\ op[c].ended \in Reported => Len(recorded[c]) = 1

\* The first ending is the one that is told: a stream that was read to its end is not
\* cancelled by the close that follows, one that broke is not a success.
RecordedAsItEnded ==
  \A c \in Calls : recorded[c] # << >> =>
    LET status == recorded[c][1].status
    IN CASE op[c].ended \in {"succeeded", "failed", "unknown"} -> status = op[c].ended
         [] op[c].ended = "error" -> status = "failed"
         [] op[c].ended \in {"closed", "dropped"} -> status = "cancelled"
         [] OTHER -> status \in {"failed", "cancelled"}

\* A call is told once and as it ended, however many endings it meets.
CallIsToldOnce == RecordedExactlyOnce /\ RecordedAsItEnded

\* An event belongs to the task that was current when the call was made, whatever task
\* is current when its stream ends (_errors.py record_stream_failure).
AttributedWhereItBegan ==
  \A c \in Calls : \A i \in DOMAIN recorded[c] :
    recorded[c][i].task = IF op[c].before = Nobody THEN c ELSE op[c].before

\* Between calls nothing of a call is left: no owner, and no automatic task that later
\* calls would be charged to.
ContextIsRestored ==
  /\ inside = Nobody => owner = Nobody /\ context \in {Nobody, AppTask}
  /\ \A c \in Calls : op[c].task \in {Nobody, AppTask, c}

\* The row of an automatic task has the status its event calls for, and there is none
\* without the event.
TaskRowMatchesEvent ==
  \A c \in Calls : taskRow[c] # "none" =>
    /\ recorded[c] # << >>
    /\ taskRow[c] = "success" <=> recorded[c][1].status = "succeeded"

\* A call stays with its task: its event, the context it leaves, and the row of a task
\* that was opened for it.
CallStaysWithItsTask == AttributedWhereItBegan /\ ContextIsRestored /\ TaskRowMatchesEvent
=============================================================================
