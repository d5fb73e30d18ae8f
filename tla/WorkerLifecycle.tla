--------------------------- MODULE WorkerLifecycle ---------------------------
(***************************************************************************)
(* The life of the sync worker thread (sync.py: start, stop, flush,        *)
(* resume_after_auth, _run) and the calls of the application that reach it *)
(* (__init__.py: flush, close, set_api_key).                               *)
(*                                                                         *)
(* Callers and worker threads share three threading.Event objects and two  *)
(* flags per SyncWorker.  One action is one statement, or one critical     *)
(* section of _flush_lock, that another thread may come between.  What a   *)
(* cycle does to the buffer is module SyncDelivery; here an item is one    *)
(* piece of telemetry and a cycle reads, posts and settles some of them.   *)
(***************************************************************************)
EXTENDS Integers, FiniteSets

CONSTANTS
  Callers,       \* application threads
  Items,         \* what the application records
  BadItems,      \* items the converter cannot represent
  MaxWorkers,    \* bound of the model: SyncWorker objects made
  MaxKeys,       \* bound of the model: API keys used
  MayTimeOut     \* a caller may wait longer than flush and stop allow

SyncWorkers == 1 .. MaxWorkers

Keys == 1 .. MaxKeys

ASSUME LifecycleAssumption ==
  /\ BadItems \subseteq Items
  /\ MaxKeys \in Nat \ {0} /\ MaxWorkers \in Nat /\ MaxWorkers >= MaxKeys
  /\ MayTimeOut \in BOOLEAN

VARIABLES
  sync_worker,         \* the global _sync_worker, 0 for None
  api_key,             \* config.api_key
  thread,              \* where the thread of each SyncWorker is in _run
  stop_event, wake_event, flush_done,
  flush_requested, finalize_sessions_requested,
  batch,               \* items of the cycle under way
  failed,              \* the cycle set unconvertible items aside
  sent,                \* the key the request under way carries
  item,                \* where each item is
  revoked,             \* keys the control plane revoked
  caller,              \* where each caller is
  closing,             \* its flush is part of close
  target,              \* the SyncWorker its call is about
  asked,               \* what had been recorded when its flush began
  answer,              \* what kind of cycle last set the flush_done of each worker
  resumed              \* set_api_key returned, and nothing stopped sync since

events == <<stop_event, wake_event, flush_done>>
flags == <<flush_requested, finalize_sessions_requested>>
run == <<thread, batch, failed, sent>>
call == <<caller, closing, target, asked>>
vars == <<sync_worker, api_key, events, flags, run, item, revoked, call, answer, resumed>>

Steps == {"none", "head", "read", "post", "await", "refused", "idle",
          "conversion", "error", "check", "wait", "woken", "exiting", "dead"}

CallerSteps == {"free", "clear", "ask", "wake", "wait", "answered",
                "stop", "stop_wake", "join", "resume", "alive", "restart"}

Places == {"unrecorded", "open", "pending", "delivered", "aside"}

Init == /\ sync_worker = 1 /\ api_key = 1
        /\ thread = [w \in SyncWorkers |-> IF w = 1 THEN "head" ELSE "none"]
        /\ stop_event = [w \in SyncWorkers |-> FALSE]
        /\ wake_event = [w \in SyncWorkers |-> FALSE]
        /\ flush_done = [w \in SyncWorkers |-> FALSE]
        /\ flush_requested = [w \in SyncWorkers |-> FALSE]
        /\ finalize_sessions_requested = [w \in SyncWorkers |-> FALSE]
        /\ batch = [w \in SyncWorkers |-> {}]
        /\ failed = [w \in SyncWorkers |-> FALSE]
        /\ sent = [w \in SyncWorkers |-> 1]
        /\ item = [i \in Items |-> "unrecorded"]
        /\ revoked = {}
        /\ caller = [c \in Callers |-> "free"]
        /\ closing = [c \in Callers |-> FALSE]
        /\ target = [c \in Callers |-> 1]
        /\ asked = [c \in Callers |-> {}]
        /\ answer = [w \in SyncWorkers |-> "none"]
        /\ resumed = FALSE

Goto(w, step) == thread' = [thread EXCEPT ![w] = step]

Proceed(c, step) == caller' = [caller EXCEPT ![c] = step]

Set(event, w) == event' = [event EXCEPT ![w] = TRUE]

Clear(event, w) == event' = [event EXCEPT ![w] = FALSE]

MoveItems(R, place) ==
  item' = [i \in Items |-> IF i \in R THEN place ELSE item[i]]

At(place) == {i \in Items : item[i] = place}

-----------------------------------------------------------------------------
\* The application records an item, at once or within an automatic session.
Record(i) == /\ item[i] = "unrecorded"
             /\ \E place \in {"open", "pending"} : MoveItems({i}, place)
             /\ UNCHANGED <<sync_worker, api_key, events, flags, run, revoked, call, answer,
                            resumed>>

-----------------------------------------------------------------------------
(***************************************************************************)
(* flush, from the application or from close: clear _flush_done, ask under *)
(* the lock, wake the worker, wait to be answered.                         *)
(***************************************************************************)
\* flush and close; the latter goes on to stop the worker.
Flush(c) == /\ caller[c] = "free" /\ sync_worker # 0
            /\ Proceed(c, "clear")
            /\ target' = [target EXCEPT ![c] = sync_worker]
            /\ asked' = [asked EXCEPT ![c] = Items \ At("unrecorded")]
            /\ \E closes \in BOOLEAN :
                 /\ closing' = [closing EXCEPT ![c] = closes]
                 /\ resumed' = (resumed /\ ~closes)
            /\ UNCHANGED <<sync_worker, api_key, events, flags, run, item, revoked, answer>>

ClearDone(c) ==
  /\ caller[c] = "clear"
  /\ Proceed(c, "ask")
  /\ Clear(flush_done, target[c])
  /\ UNCHANGED <<sync_worker, api_key, stop_event, wake_event, flags, run, item,
                 revoked, closing, target, asked, answer, resumed>>

Ask(c) ==
  /\ caller[c] = "ask"
  /\ Proceed(c, "wake")
  /\ Set(flush_requested, target[c])
  /\ Set(finalize_sessions_requested, target[c])
  /\ UNCHANGED <<sync_worker, api_key, events, run, item, revoked,
                 closing, target, asked, answer, resumed>>

\* Mutant: the worker is left to its interval.
WakeNobody(c) ==
  /\ caller[c] = "wake"
  /\ Proceed(c, "wait")
  /\ UNCHANGED <<sync_worker, api_key, events, flags, run, item,
                 revoked, closing, target, asked, answer, resumed>>

Wake(c) ==
  /\ caller[c] = "wake"
  /\ Proceed(c, "wait")
  /\ Set(wake_event, target[c])
  /\ UNCHANGED <<sync_worker, api_key, stop_event, flush_done, flags, run, item,
                 revoked, closing, target, asked, answer, resumed>>

\* _flush_done was set before 30 s had gone by.
Answered(c) ==
  /\ flush_done[target[c]]
  /\ caller[c] = "wait"
  /\ Proceed(c, "answered")
  /\ UNCHANGED <<sync_worker, api_key, events, flags, run, item, revoked, closing, target,
                 asked, answer, resumed>>

FlushTimesOut(c) ==
  /\ MayTimeOut
  /\ caller[c] = "wait"
  /\ Proceed(c, IF closing[c] THEN "stop" ELSE "free")
  /\ UNCHANGED <<sync_worker, api_key, events, flags, run, item, revoked, closing, target,
                 asked, answer, resumed>>

FlushReturns(c) ==
  /\ caller[c] = "answered"
  /\ Proceed(c, IF closing[c] THEN "stop" ELSE "free")
  /\ UNCHANGED <<sync_worker, api_key, events, flags, run, item, revoked, closing, target,
                 asked, answer, resumed>>

-----------------------------------------------------------------------------
(***************************************************************************)
(* stop, the second half of close: signal, wake, join for at most 10 s.    *)
(***************************************************************************)
StopWorker(c) ==
  /\ caller[c] = "stop" /\ sync_worker # 0
  /\ Proceed(c, "stop_wake")
  /\ target' = [target EXCEPT ![c] = sync_worker]
  /\ Set(stop_event, sync_worker)
  /\ UNCHANGED <<sync_worker, api_key, wake_event, flush_done, flags, run, item, revoked,
                 closing, asked, answer, resumed>>

\* Mutant: the worker sleeps on.
StopSilently(c) ==
  /\ caller[c] = "stop_wake"
  /\ Proceed(c, "join")
  /\ UNCHANGED <<sync_worker, api_key, events, flags, run, item, revoked,
                 closing, target, asked, answer, resumed>>

WakeToStop(c) ==
  /\ caller[c] = "stop_wake"
  /\ Proceed(c, "join")
  /\ Set(wake_event, target[c])
  /\ UNCHANGED <<sync_worker, api_key, stop_event, flush_done, flags, run, item, revoked,
                 closing, target, asked, answer, resumed>>

Join(c) ==
  /\ caller[c] = "join"
  /\ thread[target[c]] = "dead" \/ MayTimeOut
  /\ Proceed(c, "free")
  /\ sync_worker' = 0
  /\ UNCHANGED <<api_key, events, flags, run, item, revoked,
                 closing, target, asked, answer, resumed>>

\* A call finds the global None where it expected a worker, and raises.
GlobalGone(c) ==
  /\ caller[c] \in {"stop", "resume", "alive"} /\ sync_worker = 0
  /\ Proceed(c, "free")
  /\ UNCHANGED <<sync_worker, api_key, events, flags, run, item, revoked, closing, target,
                 asked, answer, resumed>>

-----------------------------------------------------------------------------
(***************************************************************************)
(* init after close, and set_api_key: store the key, clear the             *)
(* authentication stop, and make a new worker unless the thread is alive.  *)
(***************************************************************************)
\* A new SyncWorker becomes the global one and is started.
NewWorker == \E w \in SyncWorkers :
               /\ thread[w] = "none" /\ \A v \in 1 .. w - 1 : thread[v] # "none"
               /\ sync_worker' = w
               /\ Goto(w, "head")

\* init is ignored while a tracker is there.
Initialize(c) ==
  /\ caller[c] = "free" /\ sync_worker = 0
  /\ NewWorker
  /\ UNCHANGED <<api_key, events, flags, batch, failed, sent, item, revoked, call, answer, resumed>>

\* After close it only returns False.
SetApiKey(c) ==
  /\ caller[c] = "free" /\ sync_worker # 0 /\ api_key < MaxKeys
  /\ api_key' = api_key + 1
  /\ Proceed(c, "resume")
  /\ UNCHANGED <<sync_worker, events, flags, run, item, revoked,
                 closing, target, asked, answer, resumed>>

ResumeAfterAuth(c) ==
  /\ caller[c] = "resume" /\ sync_worker # 0
  /\ Proceed(c, "alive")
  /\ Clear(stop_event, sync_worker)
  /\ UNCHANGED <<sync_worker, api_key, wake_event, flush_done, flags, run, item, revoked,
                 closing, target, asked, answer, resumed>>

\* Mutant: the old thread is taken for dead.
RestartAlways(c) ==
  /\ caller[c] = "alive" /\ sync_worker # 0
  /\ Proceed(c, "restart")
  /\ UNCHANGED <<sync_worker, api_key, events, flags, run, item, revoked, closing, target,
                 asked, answer, resumed>>

RestartUnlessAlive(c) ==
  /\ caller[c] = "alive" /\ sync_worker # 0
  /\ IF thread[sync_worker] = "dead"
     THEN Proceed(c, "restart") /\ UNCHANGED resumed
     ELSE Proceed(c, "free") /\ resumed' = TRUE
  /\ UNCHANGED <<sync_worker, api_key, events, flags, run, item, revoked, closing, target,
                 asked, answer>>

RestartWorker(c) ==
  /\ caller[c] = "restart"
  /\ NewWorker
  /\ Proceed(c, "free")
  /\ resumed' = TRUE
  /\ UNCHANGED <<api_key, events, flags, batch, failed, sent, item, revoked,
                 closing, target, asked, answer>>

-----------------------------------------------------------------------------
(***************************************************************************)
(* _run: a cycle unless stopped.  The cycle takes the request to finalize  *)
(* the sessions first; idle sessions end in any cycle.  The local database *)
(* is taken to work: a session it refuses stays open until a later cycle.  *)
(***************************************************************************)
Quit(w) == /\ thread[w] = "head" /\ stop_event[w]
           /\ Goto(w, "exiting")
           /\ UNCHANGED <<sync_worker, api_key, events, flags, batch, failed, sent, item,
                          revoked, call, answer, resumed>>

StartCycle(w) ==
  /\ thread[w] = "head" /\ ~stop_event[w]
  /\ Goto(w, "read")
  /\ Clear(finalize_sessions_requested, w)
  /\ \E R \in SUBSET At("open") :
       /\ finalize_sessions_requested[w] => R = At("open")
       /\ MoveItems(R, "pending")
  /\ UNCHANGED <<sync_worker, api_key, events, flush_requested, batch, failed, sent,
                 revoked, call, answer, resumed>>

\* A batch of pending items; what cannot be converted is set aside.  The rows
\* read depend on limits and order, so any part of them may be.
Read(w) ==
  /\ thread[w] = "read"
  /\ \E R \in SUBSET At("pending") :
       /\ At("pending") # {} => R # {}
       /\ MoveItems(R \cap BadItems, "aside")
       /\ batch' = [batch EXCEPT ![w] = R \ BadItems]
       /\ failed' = [failed EXCEPT ![w] = R \cap BadItems # {}]
       /\ Goto(w, CASE R \ BadItems # {} -> "post"
                    [] R # {} /\ R \subseteq BadItems -> "conversion"
                    [] OTHER -> "idle")
  /\ UNCHANGED <<sync_worker, api_key, events, flags, sent, revoked, call, answer, resumed>>

Post(w) == /\ thread[w] = "post"
           /\ Goto(w, "await")
           /\ sent' = [sent EXCEPT ![w] = api_key]
           /\ UNCHANGED <<sync_worker, api_key, events, flags, batch, failed, item, revoked,
                          call, answer, resumed>>

\* The batch was taken and acknowledged.
Delivered(w) ==
  /\ thread[w] = "await" /\ sent[w] \notin revoked
  /\ Goto(w, IF failed[w] THEN "conversion" ELSE "head")
  /\ MoveItems(batch[w], "delivered")
  /\ UNCHANGED <<sync_worker, api_key, events, flags, batch, failed, sent,
                 revoked, call, answer, resumed>>

\* No answer, an HTTP error, or rejected records: the batch stays pending.
NotDelivered(w) ==
  /\ thread[w] = "await"
  /\ Goto(w, "error")
  /\ UNCHANGED <<sync_worker, api_key, events, flags, batch, failed, sent, item,
                 revoked, call, answer, resumed>>

\* A 401 answer stops the worker.
Refused(w) ==
  /\ thread[w] = "await" /\ sent[w] \in revoked
  /\ Goto(w, "refused")
  /\ Set(stop_event, w)
  /\ UNCHANGED <<sync_worker, api_key, wake_event, flush_done, flags, batch, failed, sent,
                 item, revoked, call, answer, resumed>>

\* _sync_batch returns False if it is still stopped, and raises otherwise.
AfterRefusal(w) ==
  /\ thread[w] = "refused"
  /\ Goto(w, IF stop_event[w] THEN "idle" ELSE "error")
  /\ UNCHANGED <<sync_worker, api_key, events, flags, batch, failed, sent, item,
                 revoked, call, answer, resumed>>

-----------------------------------------------------------------------------
(***************************************************************************)
(* After a cycle that sent nothing: answer a flush, check, wait.           *)
(***************************************************************************)
\* A requested flush is answered, under the lock.
Answer(w) ==
  IF flush_requested[w]
  THEN /\ Clear(flush_requested, w)
       /\ Set(flush_done, w)
       /\ answer' = [answer EXCEPT ![w] = IF thread[w] = "idle" /\ batch[w] # {}
                                          THEN "refused" ELSE thread[w]]
  ELSE UNCHANGED <<flush_requested, flush_done, answer>>

\* Mutant: the flush is answered by the cycle that was under way.
AnswerIfIdleEarly(w) ==
  /\ thread[w] = "idle"
  /\ Goto(w, "check")
  /\ Answer(w)
  /\ UNCHANGED <<sync_worker, api_key, stop_event, wake_event, finalize_sessions_requested,
                 batch, failed, sent, item, revoked, call, resumed>>

AnswerIfIdle(w) ==
  /\ thread[w] = "idle"
  /\ IF finalize_sessions_requested[w]
     THEN /\ Goto(w, "head")
          /\ UNCHANGED <<flush_requested, flush_done, answer>>
     ELSE /\ Goto(w, "check")
          /\ Answer(w)
  /\ UNCHANGED <<sync_worker, api_key, stop_event, wake_event, finalize_sessions_requested,
                 batch, failed, sent, item, revoked, call, resumed>>

AnswerAfterFailure(w) ==
  /\ thread[w] \in {"conversion", "error"}
  /\ Goto(w, "check")
  /\ Answer(w)
  /\ UNCHANGED <<sync_worker, api_key, stop_event, wake_event, finalize_sessions_requested,
                 batch, failed, sent, item, revoked, call, resumed>>

CheckStop(w) ==
  /\ thread[w] = "check"
  /\ Goto(w, IF stop_event[w] THEN "exiting" ELSE "wait")
  /\ UNCHANGED <<sync_worker, api_key, events, flags, batch, failed, sent, item,
                 revoked, call, answer, resumed>>

Woken(w) ==
  /\ thread[w] = "wait" /\ wake_event[w]
  /\ Goto(w, "woken")
  /\ UNCHANGED <<sync_worker, api_key, events, flags, batch, failed, sent, item,
                 revoked, call, answer, resumed>>

\* The flush interval, or the backoff of up to five minutes, is over.
IntervalPasses(w) ==
  /\ thread[w] = "wait"
  /\ Goto(w, "woken")
  /\ UNCHANGED <<sync_worker, api_key, events, flags, batch, failed, sent, item,
                 revoked, call, answer, resumed>>

ClearWake(w) ==
  /\ thread[w] = "woken"
  /\ Goto(w, "head")
  /\ Clear(wake_event, w)
  /\ UNCHANGED <<sync_worker, api_key, stop_event, flush_done, flags, batch, failed, sent,
                 item, revoked, call, answer, resumed>>

\* The finally clause closes the storage; then the thread is no more alive.
Exit(w) == /\ thread[w] = "exiting"
           /\ Goto(w, "dead")
           /\ UNCHANGED <<sync_worker, api_key, events, flags, batch, failed, sent, item,
                          revoked, call, answer, resumed>>

-----------------------------------------------------------------------------
\* The control plane revokes a key, external to the SDK.
Revoke(k) == /\ k \notin revoked /\ k < MaxKeys
             /\ revoked' = revoked \cup {k}
             /\ resumed' = (resumed /\ k # api_key)
             /\ UNCHANGED <<sync_worker, api_key, events, flags, run, item, call, answer>>

CallerStep(c) ==
  \/ ClearDone(c) \/ Ask(c) \/ Wake(c) \/ Answered(c) \/ FlushReturns(c)
  \/ StopWorker(c) \/ WakeToStop(c) \/ Join(c)
  \/ GlobalGone(c) \/ ResumeAfterAuth(c) \/ RestartUnlessAlive(c) \/ RestartWorker(c)

WorkerStep(w) ==
  \/ Quit(w) \/ StartCycle(w) \/ Read(w) \/ Post(w)
  \/ Delivered(w) \/ NotDelivered(w) \/ Refused(w) \/ AfterRefusal(w)
  \/ AnswerIfIdle(w) \/ AnswerAfterFailure(w) \/ CheckStop(w)
  \/ Woken(w) \/ ClearWake(w) \/ Exit(w)

Next == \/ \E i \in Items : Record(i)
        \/ \E c \in Callers : \/ Flush(c) \/ SetApiKey(c) \/ Initialize(c)
                              \/ CallerStep(c) \/ FlushTimesOut(c)
        \/ \E w \in SyncWorkers : WorkerStep(w) \/ IntervalPasses(w)
        \/ \E k \in Keys : Revoke(k)

Spec == Init /\ [][Next]_vars

(***************************************************************************)
(* Threads that can run do run.  Nothing is assumed of the interval timer: *)
(* in backoff it is longer than any flush waits, so only a wake-up counts. *)
(***************************************************************************)
FairSpec == /\ Spec
            /\ \A w \in SyncWorkers : WF_vars(WorkerStep(w))
            /\ \A c \in Callers : WF_vars(CallerStep(c))
-----------------------------------------------------------------------------
TypeOK == /\ sync_worker \in 0 .. MaxWorkers
          /\ api_key \in Keys
          /\ thread \in [SyncWorkers -> Steps]
          /\ stop_event \in [SyncWorkers -> BOOLEAN]
          /\ wake_event \in [SyncWorkers -> BOOLEAN]
          /\ flush_done \in [SyncWorkers -> BOOLEAN]
          /\ flush_requested \in [SyncWorkers -> BOOLEAN]
          /\ finalize_sessions_requested \in [SyncWorkers -> BOOLEAN]
          /\ batch \in [SyncWorkers -> SUBSET Items]
          /\ failed \in [SyncWorkers -> BOOLEAN]
          /\ sent \in [SyncWorkers -> Keys]
          /\ item \in [Items -> Places]
          /\ revoked \subseteq Keys
          /\ caller \in [Callers -> CallerSteps]
          /\ closing \in [Callers -> BOOLEAN]
          /\ target \in [Callers -> SyncWorkers]
          /\ asked \in [Callers -> SUBSET Items]
          /\ answer \in [SyncWorkers -> {"none", "idle", "refused", "conversion", "error"}]
          /\ resumed \in BOOLEAN

\* A flush that is answered, but not on a transport error, has ended the
\* sessions open when it was called (sync.py:273-276, 410-412).
FlushFinalizesSessions ==
  \A c \in Callers : caller[c] = "answered" /\ answer[target[c]] \in {"idle", "conversion"} =>
    \A i \in asked[c] : item[i] # "open"

\* A flush that is answered by a cycle that found nothing left to send has
\* delivered all that was recorded when it was called (sync.py:266-269).
FlushDelivers ==
  \A c \in Callers : caller[c] = "answered" /\ answer[target[c]] = "idle" =>
    \A i \in asked[c] : item[i] \in {"delivered", "aside"}

\* No flush is left waiting on a thread that is gone and will not answer it
\* (sync.py:435).
NoFlushLeftWaiting ==
  \A c \in Callers : caller[c] = "wait" /\ thread[target[c]] = "dead" => flush_done[target[c]]

\* A worker does not sleep on a flush that waits: its wake-up is set, or another
\* flush, which cleared the answer, is about to set it (sync.py:270-277, 455-456).
NoLostWakeUp ==
  \A c \in Callers : caller[c] = "wait" /\ thread[target[c]] = "wait" =>
    \/ flush_done[target[c]] \/ wake_event[target[c]]
    \/ \E d \in Callers : caller[d] \in {"ask", "wake"} /\ target[d] = target[c]

\* Once set_api_key has returned, and until sync is closed or the new key is
\* revoked too, the worker lives (__init__.py:1158-1160).
ResumedSyncLives == resumed => thread[sync_worker] # "dead"

\* A lone caller whose close waits for the thread to end never has two threads
\* deliver from one buffer, however init, close and set_api_key meet the
\* thread's last steps (__init__.py:554-560, 1182-1196).
OneThreadAlive ==
  \A v, w \in SyncWorkers :
    {thread[v], thread[w]} \cap {"none", "dead"} = {} => v = w

\* As long as no key is refused every call returns: no request, and no stop, is
\* overlooked by the worker (sync.py:270-278, 255-263, 451-456).
CallsReturn ==
  [](revoked = {}) => \A c \in Callers : caller[c] # "free" ~> caller[c] = "free"
=============================================================================
