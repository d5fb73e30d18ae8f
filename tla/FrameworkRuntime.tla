---------------------------- MODULE FrameworkRuntime ----------------------------
(***************************************************************************)
(* One execution of a CrewAI or Griptape object under the integration      *)
(* (integrations/_framework_runtime.py): the task it runs in, the streams  *)
(* it hands out, the events its listeners report from other threads, and   *)
(* the finalization that closes it once.                                   *)
(*                                                                         *)
(* Streams are the stream roots of one result, Listeners the handlers that *)
(* may be given the same framework event.  The lock of the invocation      *)
(* makes each of its methods one step; what _finalize does outside the     *)
(* lock is a step of its own.                                              *)
(***************************************************************************)
EXTENDS Naturals, FiniteSets

CONSTANTS Streams, Listeners, ToolEvents

ASSUME RuntimeAssumption == IsFiniteSet(Streams)

VARIABLES
  phase,        \* "idle", "running", "streaming", "flushing", "flushed", "closed", "ended"
  ownsTask,     \* no task was current: the invocation created its own
  flushes,      \* the framework has a before_finalize hook (CrewAI)
  latched,      \* _failed
  roots,        \* _pending_streams
  verdict,      \* the status decided when the finalization began
  terminals,    \* stream -> "none", "live", then the outcome reported, then "done"
  handling,     \* <<listener, event>> -> "none", "queued", "claimed", "recorded", "ignored"
  claims,       \* _claimed_events
  endings,      \* statuses the task was ended with, by how often
  addedUp,      \* events the end of the task added up
  lateFlush,    \* the flush gave up after its 30 seconds
  flaws,        \* the call or a stream of it has failed
  news          \* the failure that the framework reports: "none", "queued" for its handler,
                \* then "heard", or "late" when the verdict was taken before

frameworkVars == <<phase, ownsTask, flushes, latched, roots, verdict, terminals,
                   handling, claims, endings, addedUp, lateFlush, flaws, news>>

Outcomes3 == {"success", "failed"}
Deliveries == Listeners \X ToolEvents
Open == phase \in {"running", "streaming"}
NotClosed == phase \in {"running", "streaming", "flushing", "flushed"}

RuntimeInit ==
  /\ phase = "idle"
  /\ ownsTask = FALSE
  /\ flushes = FALSE
  /\ latched = FALSE
  /\ roots = 0
  /\ verdict = "none"
  /\ terminals = [s \in Streams |-> "none"]
  /\ handling = [d \in Deliveries |-> "none"]
  /\ claims = {}
  /\ endings = [o \in Outcomes3 |-> 0]
  /\ addedUp = {}
  /\ lateFlush = FALSE
  /\ flaws = FALSE
  /\ news = "none"

(* A tracked method is called: FrameworkInvocation.__init__ takes the      *)
(* current task or creates one and stores it.                              *)
Invoke(owned, hook) ==
  /\ phase = "idle"
  /\ phase' = "running"
  /\ ownsTask' = owned
  /\ flushes' = hook
  /\ UNCHANGED <<latched, roots, verdict, terminals, handling, claims, endings,
                 addedUp, lateFlush, flaws, news>>

(* The verdict is taken under the lock; everything else comes after it.    *)
Decide(failure) ==
  /\ latched' = (latched \/ failure)
  /\ verdict' = IF latched' THEN "failed" ELSE "success"
  /\ phase' = "flushing"

(* finish: the call returned no stream, or it raised.                      *)
FinishInvocation(status) ==
  /\ phase = "running"
  /\ Decide(status = "failed")
  /\ flaws' = (flaws \/ status = "failed")
  /\ UNCHANGED <<ownsTask, flushes, roots, terminals, handling, claims, endings,
                 addedUp, lateFlush, news>>

(* The result holds streams: each distinct one is registered before its    *)
(* wrapper is returned.                                                    *)
AddStreams(some) ==
  /\ phase = "running"
  /\ some # {}
  /\ phase' = "streaming"
  /\ roots' = roots + Cardinality(some)
  /\ terminals' = [s \in Streams |-> IF s \in some THEN "live" ELSE "none"]
  /\ UNCHANGED <<ownsTask, flushes, latched, verdict, handling, claims, endings,
                 addedUp, lateFlush, flaws, news>>

(* The terminal of a root, which its child iterators share, reaches its    *)
(* first outcome: exhausted, broken, closed, or dropped (__del__).         *)
Terminate(s, status) ==
  /\ terminals[s] = "live"
  /\ terminals' = [terminals EXCEPT ![s] = status]
  /\ flaws' = (flaws \/ status = "failed")
  /\ UNCHANGED <<phase, ownsTask, flushes, latched, roots, verdict, handling,
                 claims, endings, addedUp, lateFlush, news>>

(* Mutant: the last stream to be reported decides alone.                   *)
LastStreamDecides(s) ==
  /\ terminals[s] \in Outcomes3
  /\ terminals' = [terminals EXCEPT ![s] = "done"]
  /\ roots' = roots - 1
  /\ IF roots = 1 THEN verdict' = terminals[s] /\ phase' = "flushing"
     ELSE UNCHANGED <<phase, verdict>>
  /\ UNCHANGED <<ownsTask, flushes, latched, handling, claims, endings, addedUp,
                 lateFlush, flaws, news>>

(* stream_finished: the last root to be reported begins the finalization.  *)
StreamFinished(s) ==
  /\ terminals[s] \in Outcomes3
  /\ terminals' = [terminals EXCEPT ![s] = "done"]
  /\ roots' = roots - 1
  /\ \/ /\ roots = 1
        /\ Decide(terminals[s] = "failed")
     \/ /\ roots > 1
        /\ latched' = (latched \/ terminals[s] = "failed")
        /\ UNCHANGED <<phase, verdict>>
  /\ UNCHANGED <<ownsTask, flushes, handling, claims, endings, addedUp, lateFlush, flaws, news>>

(* The running framework reports that the execution failed; bound: once.   *)
ReportFailure ==
  /\ Open /\ news = "none"
  /\ news' = "queued"
  /\ UNCHANGED <<phase, ownsTask, flushes, latched, roots, verdict, terminals,
                 handling, claims, endings, addedUp, lateFlush, flaws>>

(* mark_failed, in the handler of this event: CrewAI runs it on its        *)
(* executor, also while the bus is flushed, when the verdict is taken.     *)
MarkFailed ==
  /\ news = "queued"
  /\ news' = IF Open THEN "heard" ELSE "late"
  /\ latched' = (latched \/ NotClosed)
  /\ UNCHANGED <<phase, ownsTask, flushes, roots, verdict, terminals, handling,
                 claims, endings, addedUp, lateFlush, flaws>>

(* The running framework reports an event to every listener it has.        *)
Emit(e) ==
  /\ Open
  /\ \A l \in Listeners : handling[<<l, e>>] = "none"
  /\ handling' = [d \in Deliveries |-> IF d[2] = e THEN "queued" ELSE handling[d]]
  /\ UNCHANGED <<phase, ownsTask, flushes, latched, roots, verdict, terminals,
                 claims, endings, addedUp, lateFlush, flaws, news>>

(* claim_event: one handler gets the event, and none does after the close. *)
ClaimEvent(d) ==
  /\ handling[d] = "queued"
  /\ \/ /\ NotClosed
        /\ d[2] \notin claims
        /\ claims' = claims \union {d[2]}
        /\ handling' = [handling EXCEPT ![d] = "claimed"]
     \/ /\ ~NotClosed \/ d[2] \in claims
        /\ handling' = [handling EXCEPT ![d] = "ignored"]
        /\ UNCHANGED claims
  /\ UNCHANGED <<phase, ownsTask, flushes, latched, roots, verdict, terminals,
                 endings, addedUp, lateFlush, flaws, news>>

(* The handler that claimed the event stores it (record_tool_call,         *)
(* record_llm_call).                                                       *)
StoreRuntimeEvent(d) ==
  /\ handling[d] = "claimed"
  /\ handling' = [handling EXCEPT ![d] = "recorded"]
  /\ UNCHANGED <<phase, ownsTask, flushes, latched, roots, verdict, terminals,
                 claims, endings, addedUp, lateFlush, flaws, news>>

Handled ==
  /\ \A d \in Deliveries : handling[d] \in {"none", "recorded", "ignored"}
  /\ news # "queued"

(* before_finalize: CrewAI's bus is flushed, for at most 30 seconds.       *)
Flush ==
  /\ phase = "flushing"
  /\ phase' = "flushed"
  /\ lateFlush' = (flushes /\ ~Handled)
  /\ UNCHANGED <<ownsTask, flushes, latched, roots, verdict, terminals, handling,
                 claims, endings, addedUp, flaws, news>>

CloseInvocation ==
  /\ phase = "flushed"
  /\ phase' = "closed"
  /\ UNCHANGED <<ownsTask, flushes, latched, roots, verdict, terminals, handling,
                 claims, endings, addedUp, lateFlush, flaws, news>>

Stored == {e \in ToolEvents : \E l \in Listeners : handling[<<l, e>>] = "recorded"}

(* The task ends with the verdict, unless a caller owns it.  The write may *)
(* fail: it is logged and not tried again.                                 *)
EndTask(written) ==
  /\ phase = "closed"
  /\ phase' = "ended"
  /\ \/ /\ ownsTask /\ written
        /\ endings' = [endings EXCEPT ![verdict] = @ + 1]
        /\ addedUp' = Stored
     \/ /\ ~(ownsTask /\ written)
        /\ UNCHANGED <<endings, addedUp>>
  /\ UNCHANGED <<ownsTask, flushes, latched, roots, verdict, terminals, handling,
                 claims, lateFlush, flaws, news>>

RuntimeNext ==
  \/ \E owned, hook \in BOOLEAN : Invoke(owned, hook)
  \/ \E status \in Outcomes3 : FinishInvocation(status)
  \/ \E some \in SUBSET Streams : AddStreams(some)
  \/ \E s \in Streams, status \in Outcomes3 : Terminate(s, status)
  \/ \E s \in Streams : StreamFinished(s)
  \/ ReportFailure \/ MarkFailed
  \/ \E e \in ToolEvents : Emit(e)
  \/ \E d \in Deliveries : ClaimEvent(d) \/ StoreRuntimeEvent(d)
  \/ Flush
  \/ CloseInvocation
  \/ \E written \in BOOLEAN : EndTask(written)

RuntimeSpec == RuntimeInit /\ [][RuntimeNext]_frameworkVars
-----------------------------------------------------------------------------
RuntimeTypeOK ==
  /\ phase \in {"idle", "running", "streaming", "flushing", "flushed", "closed", "ended"}
  /\ roots \in Nat
  /\ verdict \in Outcomes3 \union {"none"}
  /\ terminals \in [Streams -> Outcomes3 \union {"none", "live", "done"}]
  /\ handling \in [Deliveries -> {"none", "queued", "claimed", "recorded", "ignored"}]
  /\ claims \subseteq ToolEvents
  /\ addedUp \subseteq ToolEvents
  /\ news \in {"none", "queued", "heard", "late"}

(* The task of an execution is ended at most once, and as failed exactly   *)
(* when the call or one of its streams failed, whichever of the streams'   *)
(* threads was the last to report, or the framework said so and was heard  *)
(* before that (stream_finished, finish).  A failure whose handler runs    *)
(* only after the verdict is taken does not change it.                     *)
EndedOnceAsItWent ==
  /\ endings["success"] + endings["failed"] <= 1
  /\ endings["success"] = 1 => ~flaws /\ news # "heard"
  /\ endings["failed"] = 1 => flaws \/ news = "heard"

(* An execution is never left pending: as long as it streams, some stream  *)
(* of it is still to be finished or reported, so that dropping them all    *)
(* ends the task (_StreamTerminal.__del__).                                *)
SomeStreamIsOpen ==
  phase = "streaming" =>
    \E s \in Streams : terminals[s] \in Outcomes3 \union {"live"}

(* A framework event that several listeners were given is stored by one of *)
(* them at most (claim_event).                                             *)
EventStoredOnce ==
  \A e \in ToolEvents :
    Cardinality({l \in Listeners : handling[<<l, e>>] \in {"claimed", "recorded"}}) <= 1

(* CrewAI's handlers run on an executor; the flush that comes before the   *)
(* close lets every one of them finish, so that the end of the task adds   *)
(* up each event the execution reported, and a failure it reported is      *)
(* heard, if perhaps too late (_finalize).                                 *)
ReportedEventsAreCounted ==
  phase = "ended" /\ flushes /\ ~lateFlush =>
    /\ news # "queued" /\ \A d \in Deliveries : handling[d] # "claimed"
    /\ \A o \in Outcomes3 : endings[o] = 1 =>
         addedUp = {e \in ToolEvents : \E l \in Listeners : handling[<<l, e>>] # "none"}

(* An execution ends once and as it went, when its last stream does, with  *)
(* all its events stored once and counted.                                 *)
ExecutionEndsAsItWent ==
  EndedOnceAsItWent /\ SomeStreamIsOpen /\ EventStoredOnce /\ ReportedEventsAreCounted
=============================================================================
