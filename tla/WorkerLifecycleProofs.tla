------------------------ MODULE WorkerLifecycleProofs ------------------------
(***************************************************************************)
(* Theorems about WorkerLifecycle, for any callers, items, numbers of      *)
(* workers and of keys.                                                    *)
(***************************************************************************)
EXTENDS WorkerLifecycle, TLAPS

USE DEF SyncWorkers, Keys, events, flags, run, call

LEMMA Bounds == /\ MaxWorkers \in Nat /\ MaxKeys \in Nat
                /\ 1 \in SyncWorkers /\ 1 \in Keys
BY LifecycleAssumption

LEMMA InitType == Init => TypeOK
<1> SUFFICES ASSUME Init PROVE TypeOK
  OBVIOUS
<1>1. /\ sync_worker \in 0 .. MaxWorkers /\ api_key \in Keys
      /\ sent \in [SyncWorkers -> Keys]
      /\ target \in [Callers -> SyncWorkers]
  BY Bounds DEF Init
<1>2. thread \in [SyncWorkers -> Steps]
  BY DEF Init, Steps
<1>3. /\ caller \in [Callers -> CallerSteps]
      /\ item \in [Items -> Places]
  BY DEF Init, CallerSteps, Places
<1> QED BY <1>1, <1>2, <1>3 DEF Init, TypeOK

\* The steps of a caller, of init and of set_api_key.
LEMMA CallerType ==
  ASSUME TypeOK, NEW c \in Callers,
         Flush(c) \/ SetApiKey(c) \/ Initialize(c) \/ CallerStep(c) \/ FlushTimesOut(c)
  PROVE  TypeOK'
<1> USE DEF Proceed, Set, Clear, CallerSteps
<1>1. CASE Flush(c)
  BY <1>1 DEF TypeOK, Flush, At
<1>2. CASE SetApiKey(c)
  BY <1>2, Bounds DEF TypeOK, SetApiKey
<1>3. CASE Initialize(c)
  BY <1>3 DEF TypeOK, Initialize, NewWorker, Goto, Steps
<1>4. CASE ClearDone(c)
  BY <1>4 DEF TypeOK, ClearDone
<1>5. CASE Ask(c)
  BY <1>5 DEF TypeOK, Ask
<1>6. CASE Wake(c)
  BY <1>6 DEF TypeOK, Wake
<1>7. CASE Answered(c) \/ FlushReturns(c) \/ FlushTimesOut(c) \/ GlobalGone(c)
  BY <1>7 DEF TypeOK, Answered, FlushReturns, FlushTimesOut, GlobalGone
<1>8. CASE StopWorker(c)
  BY <1>8 DEF TypeOK, StopWorker
<1>9. CASE WakeToStop(c)
  BY <1>9 DEF TypeOK, WakeToStop
<1>10. CASE Join(c)
  BY <1>10, Bounds DEF TypeOK, Join
<1>11. CASE ResumeAfterAuth(c)
  BY <1>11 DEF TypeOK, ResumeAfterAuth
<1>12. CASE RestartUnlessAlive(c)
  BY <1>12 DEF TypeOK, RestartUnlessAlive
<1>13. CASE RestartWorker(c)
  BY <1>13 DEF TypeOK, RestartWorker, NewWorker, Goto, Steps
<1> QED
  BY <1>1, <1>2, <1>3, <1>4, <1>5, <1>6, <1>7, <1>8, <1>9, <1>10, <1>11, <1>12, <1>13
     DEF CallerStep

\* The steps of a worker thread.
LEMMA WorkerType ==
  ASSUME TypeOK, NEW w \in SyncWorkers, WorkerStep(w) \/ IntervalPasses(w)
  PROVE  TypeOK'
<1> USE DEF Goto, Set, Clear, Steps
<1>1. CASE Quit(w) \/ CheckStop(w) \/ Woken(w) \/ IntervalPasses(w) \/ Exit(w)
            \/ NotDelivered(w) \/ AfterRefusal(w)
  BY <1>1 DEF TypeOK, Quit, CheckStop, Woken, IntervalPasses, Exit, NotDelivered, AfterRefusal
<1>2. CASE StartCycle(w)
  BY <1>2 DEF TypeOK, StartCycle, MoveItems, Places
<1>3. CASE Read(w)
  BY <1>3 DEF TypeOK, Read, MoveItems, At, Places
<1>4. CASE Post(w)
  BY <1>4 DEF TypeOK, Post
<1>5. CASE Delivered(w)
  BY <1>5 DEF TypeOK, Delivered, MoveItems, Places
<1>6. CASE Refused(w)
  BY <1>6 DEF TypeOK, Refused
<1>7. CASE AnswerIfIdle(w)
  BY <1>7 DEF TypeOK, AnswerIfIdle, Answer
<1>8. CASE AnswerAfterFailure(w)
  BY <1>8 DEF TypeOK, AnswerAfterFailure, Answer
<1>9. CASE ClearWake(w)
  BY <1>9 DEF TypeOK, ClearWake
<1> QED
  BY <1>1, <1>2, <1>3, <1>4, <1>5, <1>6, <1>7, <1>8, <1>9 DEF WorkerStep

LEMMA NextType == TypeOK /\ [Next]_vars => TypeOK'
<1> SUFFICES ASSUME TypeOK, [Next]_vars PROVE TypeOK'
  OBVIOUS
<1>1. ASSUME NEW i \in Items, Record(i) PROVE TypeOK'
  BY <1>1 DEF Record, MoveItems, TypeOK, Places
<1>2. ASSUME NEW k \in Keys, Revoke(k) PROVE TypeOK'
  BY <1>2 DEF Revoke, TypeOK
<1>3. CASE UNCHANGED vars
  BY <1>3 DEF vars, TypeOK
<1> QED
  BY <1>1, <1>2, <1>3, CallerType, WorkerType DEF Next

\* Events, flags, threads and calls keep their types (sync.py: SyncWorker).
THEOREM LifecycleTypeCorrect == Spec => []TypeOK
BY InitType, NextType, PTL DEF Spec

-----------------------------------------------------------------------------
(***************************************************************************)
(* No wake-up is lost.  A flush past its Ask is requested until it is      *)
(* answered, unless another flush has cleared the answer and is about to   *)
(* ask again (Requested): so a worker on its way to sleep has answered it, *)
(* and one that sleeps has been woken since.                               *)
(***************************************************************************)
Asking(w, places) == \E d \in Callers : caller[d] \in places /\ target[d] = w

Requested ==
  \A c \in Callers :
    caller[c] \in {"wake", "wait"} /\ ~flush_done[target[c]] /\ ~Asking(target[c], {"ask"})
      => flush_requested[target[c]]

AwakeOrWoken ==
  \A c \in Callers :
    /\ caller[c] = "wait" /\ ~flush_done[target[c]] /\ ~Asking(target[c], {"ask", "wake"})
    /\ thread[target[c]] \in {"check", "wait"}
    => wake_event[target[c]]

WakeInv == TypeOK /\ Requested /\ AwakeOrWoken

\* Nothing changes if a caller only leaves or stays off the middle of a flush,
\* or if a thread only leaves or stays off its way to sleep.
LEMMA QuietCaller ==
  ASSUME WakeInv, NEW c \in Callers,
         UNCHANGED <<thread, target, flush_done, flush_requested, wake_event>>,
         caller[c] \notin {"ask", "wake"}, caller'[c] \notin {"ask", "wake", "wait"},
         \A d \in Callers \ {c} : caller'[d] = caller[d]
  PROVE  Requested' /\ AwakeOrWoken'
BY DEF WakeInv, Requested, AwakeOrWoken, Asking

LEMMA QuietThread ==
  ASSUME WakeInv, UNCHANGED <<caller, target, flush_done, flush_requested, wake_event>>,
         \A v \in SyncWorkers : thread'[v] \in {"check", "wait"} => thread[v] \in {"check", "wait"}
  PROVE  Requested' /\ AwakeOrWoken'
BY DEF WakeInv, TypeOK, Requested, AwakeOrWoken, Asking

\* A caller's step keeps the two: what it asks for it first clears, and it wakes
\* the worker after it has asked.
LEMMA CallerWakes ==
  ASSUME WakeInv, NEW c \in Callers,
         Flush(c) \/ SetApiKey(c) \/ Initialize(c) \/ CallerStep(c) \/ FlushTimesOut(c)
  PROVE  Requested' /\ AwakeOrWoken'
<1> USE DEF WakeInv, TypeOK, Requested, AwakeOrWoken, Asking, Proceed, Set, Clear
<1>1. CASE ClearDone(c)
  BY <1>1 DEF ClearDone
<1>2. CASE Ask(c)
  BY <1>2 DEF Ask
<1>3. CASE Wake(c)
  BY <1>3 DEF Wake
<1>4. CASE Answered(c) \/ FlushReturns(c) \/ FlushTimesOut(c) \/ GlobalGone(c)
  <2>1. /\ UNCHANGED <<thread, target, flush_done, flush_requested, wake_event>>
        /\ caller[c] \notin {"ask", "wake"} /\ caller'[c] \notin {"ask", "wake", "wait"}
        /\ \A d \in Callers \ {c} : caller'[d] = caller[d]
    BY <1>4 DEF Answered, FlushReturns, FlushTimesOut, GlobalGone
  <2> QED BY <2>1, QuietCaller
<1>5. CASE Flush(c)
  BY <1>5 DEF Flush
<1>6. CASE StopWorker(c)
  BY <1>6 DEF StopWorker
<1>7. CASE WakeToStop(c)
  BY <1>7 DEF WakeToStop
<1>8. CASE Join(c) \/ SetApiKey(c) \/ ResumeAfterAuth(c) \/ RestartUnlessAlive(c)
  <2>1. /\ UNCHANGED <<thread, target, flush_done, flush_requested, wake_event>>
        /\ caller[c] \notin {"ask", "wake"} /\ caller'[c] \notin {"ask", "wake", "wait"}
        /\ \A d \in Callers \ {c} : caller'[d] = caller[d]
    BY <1>8 DEF Join, SetApiKey, ResumeAfterAuth, RestartUnlessAlive
  <2> QED BY <2>1, QuietCaller
<1>9. CASE Initialize(c)
  BY <1>9 DEF Initialize, NewWorker, Goto
<1>10. CASE RestartWorker(c)
  BY <1>10 DEF RestartWorker, NewWorker, Goto
<1> QED
  BY <1>1, <1>2, <1>3, <1>4, <1>5, <1>6, <1>7, <1>8, <1>9, <1>10 DEF CallerStep

\* Steps of the loop that touch no event or flag of a flush, and do not lead
\* a thread towards sleep.
LEMMA OtherSteps ==
  ASSUME TypeOK, NEW w \in SyncWorkers,
         \/ Quit(w) \/ StartCycle(w) \/ Read(w) \/ Post(w) \/ Delivered(w)
         \/ NotDelivered(w) \/ Refused(w) \/ AfterRefusal(w)
         \/ CheckStop(w) \/ Woken(w) \/ IntervalPasses(w) \/ Exit(w)
  PROVE  /\ UNCHANGED <<caller, target, flush_done, flush_requested, wake_event>>
         /\ \A v \in SyncWorkers :
              thread'[v] \in {"check", "wait"} => thread[v] \in {"check", "wait"}
<1> USE DEF TypeOK, Goto
<1>1. CASE Read(w)
  BY <1>1 DEF Read
<1>2. CASE Quit(w) \/ Post(w) \/ NotDelivered(w)
  BY <1>2 DEF Quit, Post, NotDelivered
<1>3. CASE StartCycle(w) \/ Delivered(w) \/ Refused(w)
  BY <1>3 DEF StartCycle, Delivered, Refused, Clear, Set
<1>4. CASE AfterRefusal(w) \/ CheckStop(w)
  BY <1>4 DEF AfterRefusal, CheckStop
<1>5. CASE Woken(w) \/ IntervalPasses(w) \/ Exit(w)
  BY <1>5 DEF Woken, IntervalPasses, Exit
<1> QED BY <1>1, <1>2, <1>3, <1>4, <1>5

\* Answering leaves a flush of this worker answered, and keeps it from sleeping
\* on one that was not requested, for there is none.
LEMMA AnswerWakes ==
  ASSUME WakeInv, NEW w \in SyncWorkers, Answer(w), Goto(w, "check"),
         UNCHANGED <<caller, target, wake_event>>
  PROVE  Requested' /\ AwakeOrWoken'
<1> USE DEF WakeInv, TypeOK
<1>1. \A v \in SyncWorkers \ {w} :
        /\ flush_done'[v] = flush_done[v] /\ flush_requested'[v] = flush_requested[v]
        /\ thread'[v] = thread[v]
  BY DEF Answer, Goto, Set, Clear
<1>2. flush_requested[w] => flush_done'[w]
  BY DEF Answer, Set
<1>3. ~flush_requested[w] => flush_done' = flush_done /\ flush_requested' = flush_requested
  BY DEF Answer
<1>4. Requested'
  BY <1>1, <1>2, <1>3 DEF Requested, Asking
<1>5. AwakeOrWoken'
  BY <1>1, <1>2, <1>3 DEF Requested, AwakeOrWoken, Asking
<1> QED BY <1>4, <1>5

\* A worker answers before it checks and sleeps, and clears its wake-up only to
\* start over.
LEMMA WorkerAnswers ==
  ASSUME WakeInv, NEW w \in SyncWorkers, WorkerStep(w) \/ IntervalPasses(w)
  PROVE  Requested' /\ AwakeOrWoken'
<1>1. CASE \/ Quit(w) \/ StartCycle(w) \/ Read(w) \/ Post(w) \/ Delivered(w)
           \/ NotDelivered(w) \/ Refused(w) \/ AfterRefusal(w)
           \/ CheckStop(w) \/ Woken(w) \/ IntervalPasses(w) \/ Exit(w)
  <2>1. TypeOK
    BY DEF WakeInv
  <2> QED BY <1>1, <2>1, OtherSteps, QuietThread
<1>2. CASE AnswerIfIdle(w)
  <2>1. CASE finalize_sessions_requested[w]
    BY <1>2, <2>1, QuietThread DEF AnswerIfIdle, Goto, WakeInv, TypeOK
  <2>2. CASE ~finalize_sessions_requested[w]
    BY <1>2, <2>2, AnswerWakes DEF AnswerIfIdle
  <2> QED BY <2>1, <2>2
<1>3. CASE AnswerAfterFailure(w)
  BY <1>3, AnswerWakes DEF AnswerAfterFailure
<1>4. CASE ClearWake(w)
  BY <1>4 DEF ClearWake, WakeInv, TypeOK, Requested, AwakeOrWoken, Asking, Goto, Clear
<1> QED BY <1>1, <1>2, <1>3, <1>4 DEF WorkerStep

LEMMA NextWakeInv == WakeInv /\ [Next]_vars => WakeInv'
<1> SUFFICES ASSUME WakeInv, [Next]_vars PROVE Requested' /\ AwakeOrWoken'
  BY NextType DEF WakeInv
<1>1. ASSUME NEW i \in Items, Record(i) PROVE Requested' /\ AwakeOrWoken'
  BY <1>1 DEF Record, WakeInv, Requested, AwakeOrWoken, Asking
<1>2. ASSUME NEW k \in Keys, Revoke(k) PROVE Requested' /\ AwakeOrWoken'
  BY <1>2 DEF Revoke, WakeInv, Requested, AwakeOrWoken, Asking
<1>3. CASE UNCHANGED vars
  BY <1>3 DEF vars, WakeInv, Requested, AwakeOrWoken, Asking
<1> QED
  BY <1>1, <1>2, <1>3, CallerWakes, WorkerAnswers DEF Next

\* However many callers flush and close one worker, it never sleeps on a flush
\* that waits for it (sync.py:270-277, 455-456).
THEOREM NoWakeUpIsLost == Spec => []NoLostWakeUp
<1>1. Init => WakeInv
  BY InitType DEF Init, WakeInv, Requested, AwakeOrWoken
<1>2. WakeInv => NoLostWakeUp
  BY DEF WakeInv, AwakeOrWoken, Asking, NoLostWakeUp
<1> QED BY <1>1, <1>2, NextWakeInv, PTL DEF Spec

-----------------------------------------------------------------------------
(***************************************************************************)
(* A lone caller that waits for the thread to end: whoever is alive is the *)
(* worker the global names, the worker being stopped is that one, and a    *)
(* new one is made only when it is dead.                                   *)
(***************************************************************************)
Alive(w) == thread[w] \notin {"none", "dead"}

LoneInv ==
  /\ TypeOK
  /\ \A w \in SyncWorkers : Alive(w) => w = sync_worker
  /\ \A c \in Callers :
       /\ caller[c] \in {"stop_wake", "join"} => target[c] = sync_worker
       /\ caller[c] = "restart" => sync_worker # 0 /\ ~Alive(sync_worker)

LEMMA LoneCallerInv ==
  ASSUME \A c, d \in Callers : c = d, ~MayTimeOut, LoneInv, NEW c \in Callers,
         Flush(c) \/ SetApiKey(c) \/ Initialize(c) \/ CallerStep(c) \/ FlushTimesOut(c)
  PROVE  LoneInv'
<1> USE DEF LoneInv, Alive, Proceed
<1>1. TypeOK'
  BY CallerType
<1>2. CASE Initialize(c)
  BY <1>1, <1>2 DEF TypeOK, Initialize, NewWorker, Goto
<1>3. CASE Join(c)
  BY <1>1, <1>3 DEF TypeOK, Join
<1>4. CASE StopWorker(c)
  BY <1>1, <1>4 DEF TypeOK, StopWorker
<1>5. CASE RestartUnlessAlive(c)
  BY <1>1, <1>5 DEF TypeOK, RestartUnlessAlive
<1>6. CASE RestartWorker(c)
  BY <1>1, <1>6 DEF TypeOK, RestartWorker, NewWorker, Goto
<1>7. CASE Flush(c)
  BY <1>1, <1>7 DEF TypeOK, Flush
<1>8. CASE ClearDone(c) \/ Ask(c) \/ Wake(c) \/ Answered(c) \/ FlushReturns(c)
            \/ FlushTimesOut(c)
  BY <1>1, <1>8 DEF TypeOK, ClearDone, Ask, Wake, Answered, FlushReturns, FlushTimesOut
<1>9. CASE WakeToStop(c) \/ GlobalGone(c) \/ SetApiKey(c) \/ ResumeAfterAuth(c)
  BY <1>1, <1>9 DEF TypeOK, WakeToStop, GlobalGone, SetApiKey, ResumeAfterAuth
<1> QED
  BY <1>2, <1>3, <1>4, <1>5, <1>6, <1>7, <1>8, <1>9 DEF CallerStep

\* A worker that moves was alive, and no step of it revives another.
LEMMA WorkerLoneInv ==
  ASSUME LoneInv, NEW w \in SyncWorkers, WorkerStep(w) \/ IntervalPasses(w)
  PROVE  LoneInv'
<1>1. TypeOK'
  BY WorkerType DEF LoneInv
<1>2. /\ Alive(w)
      /\ \A v \in SyncWorkers : v # w => thread'[v] = thread[v]
      /\ UNCHANGED <<sync_worker, caller, target>>
  BY DEF WorkerStep, Alive, LoneInv, TypeOK, Goto, Quit, StartCycle, Read, Post, Delivered,
         NotDelivered, Refused, AfterRefusal, AnswerIfIdle, AnswerAfterFailure, CheckStop,
         Woken, IntervalPasses, ClearWake, Exit
<1> QED BY <1>1, <1>2 DEF LoneInv, Alive

LEMMA NextLoneInv ==
  ASSUME \A c, d \in Callers : c = d, ~MayTimeOut, LoneInv, [Next]_vars
  PROVE  LoneInv'
<1>1. TypeOK'
  BY NextType DEF LoneInv
<1>2. ASSUME NEW i \in Items, Record(i) PROVE LoneInv'
  BY <1>1, <1>2 DEF Record, LoneInv, Alive
<1>3. ASSUME NEW k \in Keys, Revoke(k) PROVE LoneInv'
  BY <1>1, <1>3 DEF Revoke, LoneInv, Alive
<1>4. CASE UNCHANGED vars
  BY <1>1, <1>4 DEF vars, LoneInv, Alive
<1> QED
  BY <1>2, <1>3, <1>4, LoneCallerInv, WorkerLoneInv DEF Next

\* One thread of control, whose close waits for the worker to end, never has two
\* workers deliver from its buffer, whatever it calls and however often the keys
\* are revoked (__init__.py:554-560, 1182-1196).
THEOREM LoneCallerHasOneWorker ==
  (\A c, d \in Callers : c = d) /\ ~MayTimeOut => (Spec => []OneThreadAlive)
<1> SUFFICES ASSUME \A c, d \in Callers : c = d, ~MayTimeOut
             PROVE  Spec => []OneThreadAlive
  OBVIOUS
<1>1. Init => LoneInv
  BY InitType DEF Init, LoneInv, Alive
<1>2. LoneInv /\ [Next]_vars => LoneInv'
  BY NextLoneInv
<1>3. LoneInv => OneThreadAlive
  BY DEF LoneInv, Alive, OneThreadAlive
<1> QED BY <1>1, <1>2, <1>3, PTL DEF Spec
-----------------------------------------------------------------------------
(***************************************************************************)
(* A lone caller whose flush waits for its answer: nobody else asks, and   *)
(* nothing it asked earlier is still to be answered (LoneRequest).  The    *)
(* cycle that takes the request to finalize ends every session open then,  *)
(* so that what was recorded is no longer open once the request is gone,   *)
(* and settled once a cycle finds nothing pending (SettledWhenIdle).       *)
(***************************************************************************)
Flushing(c, w, places) == caller[c] \in places /\ target[c] = w

Settled(c) == \A i \in asked[c] : item[i] \in {"delivered", "aside"}

\* A batch that is on its way is not empty: an idle cycle with a batch was refused.
BatchesAreFull ==
  \A w \in SyncWorkers : thread[w] \in {"post", "await", "refused"} => batch[w] # {}

\* A request is of the flush that waits for it, and an answer is of the last request.
LoneRequest ==
  \A c \in Callers :
    /\ \A w \in SyncWorkers : flush_requested[w] =>
         Flushing(c, w, {"wake", "wait"}) /\ ~flush_done[w]
    /\ caller[c] = "ask" => ~flush_done[target[c]]

AskedIsRecorded ==
  \A c \in Callers : caller[c] \in {"clear", "ask", "wake", "wait"} =>
    \A i \in asked[c] : item[i] # "unrecorded"

\* A flush under way that has neither been answered nor waits for a cycle to begin.
Taken(c) ==
  /\ caller[c] \in {"wake", "wait"} /\ ~flush_done[target[c]]
  /\ ~finalize_sessions_requested[target[c]]

SettledWhenIdle ==
  \A c \in Callers :
    /\ Taken(c) => \A i \in asked[c] : item[i] # "open"
    /\ Taken(c) /\ thread[target[c]] = "idle" /\ batch[target[c]] = {} => Settled(c)
    /\ \/ caller[c] \in {"wake", "wait"} /\ flush_done[target[c]]
       \/ caller[c] = "answered"
       => (answer[target[c]] = "idle" => Settled(c))

FlushInv ==
  /\ TypeOK /\ BatchesAreFull /\ LoneRequest /\ AskedIsRecorded /\ SettledWhenIdle

\* An item only moves on: from a session to the buffer, and from there to its end.
LEMMA ItemsMoveOn ==
  ASSUME TypeOK, [Next]_vars, NEW i \in Items
  PROVE  /\ item[i] # "unrecorded" => item'[i] # "unrecorded"
         /\ item[i] \notin {"unrecorded", "open"} => item'[i] \notin {"unrecorded", "open"}
         /\ item[i] \in {"delivered", "aside"} => item'[i] \in {"delivered", "aside"}
<1> USE DEF TypeOK, MoveItems, At
<1>1. ASSUME NEW j \in Items, Record(j)
      PROVE  /\ item'[i] = item[i] \/ item[i] = "unrecorded"
             /\ item'[i] \in {item[i], "open", "pending"}
  BY <1>1 DEF Record
<1>2. ASSUME NEW c \in Callers,
             Flush(c) \/ SetApiKey(c) \/ Initialize(c) \/ CallerStep(c) \/ FlushTimesOut(c)
      PROVE  item' = item
  BY <1>2 DEF Flush, SetApiKey, Initialize, CallerStep, FlushTimesOut, ClearDone, Ask, Wake,
              Answered, FlushReturns, StopWorker, WakeToStop, Join, GlobalGone,
              ResumeAfterAuth, RestartUnlessAlive, RestartWorker
<1>3. ASSUME NEW w \in SyncWorkers, StartCycle(w)
      PROVE  item'[i] = item[i] \/ (item[i] = "open" /\ item'[i] = "pending")
  <2>1. PICK R \in SUBSET {j \in Items : item[j] = "open"} :
          item' = [j \in Items |-> IF j \in R THEN "pending" ELSE item[j]]
    BY <1>3 DEF StartCycle
  <2> QED BY <2>1
<1>4. ASSUME NEW w \in SyncWorkers, Read(w)
      PROVE  item'[i] = item[i] \/ item'[i] = "aside"
  BY <1>4 DEF Read
<1>5. ASSUME NEW w \in SyncWorkers, Delivered(w)
      PROVE  item'[i] = item[i] \/ item'[i] = "delivered"
  BY <1>5 DEF Delivered
<1>6. ASSUME NEW w \in SyncWorkers,
             \/ Quit(w) \/ Post(w) \/ NotDelivered(w) \/ Refused(w) \/ AfterRefusal(w)
             \/ AnswerIfIdle(w) \/ AnswerAfterFailure(w) \/ CheckStop(w)
             \/ Woken(w) \/ ClearWake(w) \/ Exit(w) \/ IntervalPasses(w)
      PROVE  item' = item
  BY <1>6 DEF Quit, Post, NotDelivered, Refused, AfterRefusal, AnswerIfIdle,
              AnswerAfterFailure, CheckStop, Woken, ClearWake, Exit, IntervalPasses
<1>7. ASSUME NEW k \in Keys, Revoke(k) PROVE item' = item
  BY <1>7 DEF Revoke
<1>8. CASE UNCHANGED vars
  BY <1>8 DEF vars
<1> QED BY <1>1, <1>2, <1>3, <1>4, <1>5, <1>6, <1>7, <1>8 DEF Next, WorkerStep

\* What was recorded, no longer open or settled stays so.
LEMMA AskedMovesOn ==
  ASSUME TypeOK, [Next]_vars, NEW c \in Callers, asked'[c] = asked[c]
  PROVE  /\ (\A i \in asked[c] : item[i] # "unrecorded") =>
              \A i \in asked'[c] : item'[i] # "unrecorded"
         /\ (\A i \in asked[c] : item[i] \notin {"unrecorded", "open"}) =>
              \A i \in asked'[c] : item'[i] \notin {"unrecorded", "open"}
         /\ Settled(c) => Settled(c)'
BY ItemsMoveOn DEF TypeOK, Settled

\* The steps of the lone caller: it clears the answer before it asks, and asks for the
\* sessions with it.
LEMMA LoneCallerFlushes ==
  ASSUME \A c, d \in Callers : c = d, ~MayTimeOut, FlushInv, [Next]_vars, NEW c \in Callers,
         Flush(c) \/ SetApiKey(c) \/ Initialize(c) \/ CallerStep(c) \/ FlushTimesOut(c)
  PROVE  FlushInv'
<1> USE DEF Proceed, Set, Clear
<1>1. /\ TypeOK /\ TypeOK' /\ caller[c] \in CallerSteps
      /\ \A d \in Callers : d = c
  BY CallerType DEF FlushInv, TypeOK
<1>2. UNCHANGED <<item, batch, answer>>
  BY DEF Flush, SetApiKey, Initialize, CallerStep, FlushTimesOut, ClearDone, Ask, Wake,
         Answered, FlushReturns, StopWorker, WakeToStop, Join, GlobalGone,
         ResumeAfterAuth, RestartUnlessAlive, RestartWorker
<1>3. /\ \A w \in SyncWorkers : thread'[w] = thread[w] \/ thread'[w] = "head"
      /\ BatchesAreFull'
  <2>1. \A w \in SyncWorkers : thread'[w] = thread[w] \/ thread'[w] = "head"
    BY <1>1 DEF TypeOK, Flush, SetApiKey, Initialize, CallerStep, FlushTimesOut, ClearDone,
         Ask, Wake, Answered, FlushReturns, StopWorker, WakeToStop, Join, GlobalGone,
         ResumeAfterAuth, RestartUnlessAlive, RestartWorker, NewWorker, Goto
  <2> QED BY <1>2, <2>1 DEF FlushInv, BatchesAreFull
<1>4. CASE Flush(c)
  <2>1. /\ caller'[c] = "clear" /\ caller[c] = "free"
        /\ \A i \in asked'[c] : item[i] # "unrecorded"
        /\ UNCHANGED <<flush_requested, flush_done>>
    BY <1>1, <1>4 DEF Flush, TypeOK, At
  <2> QED BY <1>1, <1>2, <1>3, <2>1
     DEF FlushInv, LoneRequest, AskedIsRecorded, SettledWhenIdle, Flushing, Taken
<1>5. CASE ClearDone(c)
  <2>1. /\ caller'[c] = "ask" /\ caller[c] = "clear"
        /\ ~flush_done'[target[c]] /\ UNCHANGED <<flush_requested, target, asked>>
    BY <1>1, <1>5 DEF ClearDone, TypeOK
  <2> QED BY <1>1, <1>2, <1>3, <2>1
     DEF FlushInv, LoneRequest, AskedIsRecorded, SettledWhenIdle, Flushing, Taken
<1>6. CASE Ask(c)
  <2>1. /\ caller'[c] = "wake" /\ caller[c] = "ask"
        /\ finalize_sessions_requested'[target[c]]
        /\ \A w \in SyncWorkers : w # target[c] => flush_requested'[w] = flush_requested[w]
        /\ UNCHANGED <<flush_done, target, asked>>
    BY <1>1, <1>6 DEF Ask, TypeOK
  <2> QED BY <1>1, <1>2, <1>3, <2>1
     DEF FlushInv, LoneRequest, AskedIsRecorded, SettledWhenIdle, Flushing, Taken
<1>7. CASE Wake(c)
  <2>1. /\ caller'[c] = "wait" /\ caller[c] = "wake"
        /\ UNCHANGED <<thread, flush_done, flags, target, asked>>
    BY <1>1, <1>7 DEF Wake, TypeOK
  <2> QED BY <1>1, <1>2, <1>3, <2>1
     DEF FlushInv, LoneRequest, AskedIsRecorded, SettledWhenIdle, Flushing, Taken, Settled
<1>8. CASE Answered(c)
  <2>1. /\ caller'[c] = "answered" /\ caller[c] = "wait" /\ flush_done[target[c]]
        /\ UNCHANGED <<flush_done, flags, target, asked>>
    BY <1>1, <1>8 DEF Answered, TypeOK
  <2> QED BY <1>1, <1>2, <1>3, <2>1
     DEF FlushInv, LoneRequest, AskedIsRecorded, SettledWhenIdle, Flushing, Taken, Settled
<1>9. CASE \/ FlushReturns(c) \/ StopWorker(c) \/ WakeToStop(c) \/ Join(c) \/ GlobalGone(c)
           \/ SetApiKey(c) \/ ResumeAfterAuth(c) \/ RestartUnlessAlive(c)
           \/ RestartWorker(c) \/ Initialize(c)
  <2>1. /\ caller[c] \notin {"clear", "ask", "wake", "wait"}
        /\ caller'[c] \notin {"clear", "ask", "wake", "wait", "answered"}
        /\ UNCHANGED <<flush_requested, flush_done>>
    BY <1>1, <1>9 DEF TypeOK, FlushReturns, StopWorker, WakeToStop, Join, GlobalGone,
         SetApiKey, ResumeAfterAuth, RestartUnlessAlive, RestartWorker, Initialize
  <2> QED BY <1>1, <1>2, <1>3, <2>1
     DEF FlushInv, LoneRequest, AskedIsRecorded, SettledWhenIdle, Flushing, Taken
<1>10. CASE FlushTimesOut(c)
  BY <1>10 DEF FlushTimesOut
<1> QED BY <1>4, <1>5, <1>6, <1>7, <1>8, <1>9, <1>10 DEF CallerStep

\* A step that answers nothing, takes no request and leads no thread to an idle end keeps
\* what a flush relies on: items only move on.
LEMMA QuietFlush ==
  ASSUME FlushInv, [Next]_vars,
         UNCHANGED <<flush_requested, flush_done, finalize_sessions_requested, caller, target,
                     asked, answer>>,
         \A w \in SyncWorkers :
           \/ thread'[w] \notin {"post", "await", "refused", "idle"}
           \/ /\ thread'[w] \in {"await", "refused"} /\ batch'[w] = batch[w]
              /\ thread[w] \in {"post", "await", "refused"}
           \/ thread'[w] = thread[w] /\ batch'[w] = batch[w]
           \/ thread'[w] = "idle" /\ batch'[w] = batch[w] /\ thread[w] = "refused"
  PROVE  FlushInv'
<1>1. TypeOK /\ TypeOK'
  BY NextType DEF FlushInv
<1>2. BatchesAreFull' /\ LoneRequest'
  BY <1>1 DEF FlushInv, BatchesAreFull, LoneRequest, Flushing
<1>3. \A c \in Callers :
        /\ (\A i \in asked[c] : item[i] # "unrecorded") =>
             \A i \in asked'[c] : item'[i] # "unrecorded"
        /\ (\A i \in asked[c] : item[i] \notin {"unrecorded", "open"}) =>
             \A i \in asked'[c] : item'[i] \notin {"unrecorded", "open"}
        /\ Settled(c) => Settled(c)'
  BY <1>1, AskedMovesOn
<1>4. AskedIsRecorded'
  BY <1>3 DEF FlushInv, AskedIsRecorded
<1>5. ASSUME NEW c \in Callers
      PROVE  /\ Taken(c)' => \A i \in asked'[c] : item'[i] # "open"
             /\ Taken(c)' /\ thread'[target'[c]] = "idle" /\ batch'[target'[c]] = {} =>
                  Settled(c)'
             /\ \/ caller'[c] \in {"wake", "wait"} /\ flush_done'[target'[c]]
                \/ caller'[c] = "answered"
                => (answer'[target'[c]] = "idle" => Settled(c)')
  <2>1. /\ Taken(c)' <=> Taken(c)
        /\ target[c] \in SyncWorkers
    BY <1>1 DEF Taken, TypeOK
  <2>2. Taken(c) => \A i \in asked[c] : item[i] \notin {"unrecorded", "open"}
    BY DEF FlushInv, SettledWhenIdle, AskedIsRecorded, Taken
  <2>3. thread'[target'[c]] = "idle" /\ batch'[target'[c]] = {} =>
          thread[target[c]] = "idle" /\ batch[target[c]] = {}
    BY <2>1 DEF FlushInv, BatchesAreFull
  <2> QED BY <1>3, <2>1, <2>2, <2>3 DEF FlushInv, SettledWhenIdle
<1>6. SettledWhenIdle'
  BY <1>5 DEF SettledWhenIdle
<1> QED BY <1>1, <1>2, <1>4, <1>6 DEF FlushInv

\* A cycle takes the request for the sessions and ends all that are open.
LEMMA CycleTakesRequest ==
  ASSUME FlushInv, [Next]_vars, NEW w \in SyncWorkers, StartCycle(w)
  PROVE  FlushInv'
<1> USE DEF Goto, Clear
<1>1. TypeOK /\ TypeOK'
  BY NextType DEF FlushInv
<1>2. /\ UNCHANGED <<flush_requested, flush_done, caller, target, asked, answer, batch>>
      /\ thread'[w] = "read"
      /\ \A v \in SyncWorkers \ {w} :
           /\ thread'[v] = thread[v]
           /\ finalize_sessions_requested'[v] = finalize_sessions_requested[v]
      /\ finalize_sessions_requested[w] =>
           \A i \in Items : item[i] = "open" => item'[i] = "pending"
  BY <1>1 DEF StartCycle, TypeOK, MoveItems, At
<1>3. BatchesAreFull' /\ LoneRequest'
  BY <1>1, <1>2 DEF FlushInv, BatchesAreFull, LoneRequest, Flushing
<1>4. AskedIsRecorded'
  BY <1>1, <1>2, AskedMovesOn DEF FlushInv, AskedIsRecorded
<1>5. ASSUME NEW c \in Callers, Taken(c)'
      PROVE  /\ \A i \in asked'[c] : item'[i] # "open"
             /\ thread'[target'[c]] = "idle" /\ batch'[target'[c]] = {} => Settled(c)'
  <2>1. \A i \in asked[c] : item[i] # "unrecorded" /\ i \in Items
    BY <1>1, <1>2, <1>5 DEF FlushInv, AskedIsRecorded, Taken, TypeOK
  <2>2. CASE Taken(c)
    BY <1>1, <1>2, <2>1, <2>2, AskedMovesOn DEF FlushInv, SettledWhenIdle, TypeOK
  <2>3. CASE ~Taken(c)
    <3>1. target[c] = w /\ finalize_sessions_requested[w]
      BY <1>1, <1>2, <1>5, <2>3 DEF Taken, TypeOK
    <3>2. \A i \in asked[c] : item'[i] # "open"
      BY <1>1, <1>2, <2>1, <3>1, ItemsMoveOn
    <3> QED BY <1>2, <3>1, <3>2
  <2> QED BY <2>2, <2>3
<1>6. SettledWhenIdle'
  BY <1>1, <1>2, <1>5, AskedMovesOn DEF FlushInv, SettledWhenIdle, TypeOK
<1> QED BY <1>1, <1>3, <1>4, <1>6 DEF FlushInv

\* A cycle that reads nothing has left nothing pending.
LEMMA IdleCycleFoundNothing ==
  ASSUME FlushInv, [Next]_vars, NEW w \in SyncWorkers, Read(w)
  PROVE  FlushInv'
<1>1. TypeOK /\ TypeOK'
  BY NextType DEF FlushInv
<1>2. PICK R \in SUBSET At("pending") :
        /\ At("pending") # {} => R # {}
        /\ MoveItems(R \cap BadItems, "aside")
        /\ batch' = [batch EXCEPT ![w] = R \ BadItems]
        /\ Goto(w, CASE R \ BadItems # {} -> "post"
                     [] R # {} /\ R \subseteq BadItems -> "conversion"
                     [] OTHER -> "idle")
  BY DEF Read
<1>3. /\ UNCHANGED <<flags, flush_done, caller, target, asked, answer>>
      /\ \A v \in SyncWorkers \ {w} : thread'[v] = thread[v] /\ batch'[v] = batch[v]
      /\ batch'[w] = R \ BadItems
      /\ thread'[w] \in {"post", "conversion", "idle"}
      /\ thread'[w] = "post" => R \ BadItems # {}
      /\ thread'[w] = "idle" => R = {}
  <2>1. thread'[w] = CASE R \ BadItems # {} -> "post"
                       [] R # {} /\ R \subseteq BadItems -> "conversion"
                       [] OTHER -> "idle"
    BY <1>1, <1>2 DEF Goto, TypeOK
  <2>2. CASE R \ BadItems # {}
    <3>1. ~(R \subseteq BadItems)
      BY <2>2
    <3>2. thread'[w] = "post"
      BY <2>1, <2>2, <3>1
    <3> QED BY <1>1, <1>2, <2>2, <3>2 DEF Goto, TypeOK, Read
  <2>3. CASE R # {} /\ R \subseteq BadItems
    <3>1. ~(R \ BadItems # {})
      BY <2>3
    <3>2. thread'[w] = "conversion"
      BY <2>1, <2>3, <3>1
    <3> QED BY <1>1, <1>2, <3>2 DEF Goto, TypeOK, Read
  <2>4. CASE R = {}
    <3>1. thread'[w] = "idle"
      BY <2>1, <2>4
    <3> QED BY <1>1, <1>2, <2>4, <3>1 DEF Goto, TypeOK, Read
  <2> QED BY <2>2, <2>3, <2>4
<1>4. BatchesAreFull' /\ LoneRequest'
  BY <1>1, <1>3 DEF FlushInv, BatchesAreFull, LoneRequest, Flushing
<1>5. AskedIsRecorded'
  BY <1>1, <1>3, AskedMovesOn DEF FlushInv, AskedIsRecorded
<1>6. ASSUME NEW c \in Callers, Taken(c)'
      PROVE  /\ \A i \in asked'[c] : item'[i] # "open"
             /\ thread'[target'[c]] = "idle" /\ batch'[target'[c]] = {} => Settled(c)'
  <2>1. /\ Taken(c) /\ target[c] \in SyncWorkers
        /\ \A i \in asked[c] : i \in Items /\ item[i] \notin {"unrecorded", "open"}
    BY <1>1, <1>3, <1>6
       DEF FlushInv, AskedIsRecorded, SettledWhenIdle, Taken, TypeOK
  <2>2. \A i \in asked'[c] : item'[i] \notin {"unrecorded", "open"}
    BY <1>1, <1>3, <2>1, AskedMovesOn
  <2>3. CASE target[c] = w
    <3>1. ASSUME thread'[w] = "idle" PROVE Settled(c)'
      <4>1. At("pending") = {}
        BY <1>2, <1>3, <3>1
      <4>2. \A i \in asked[c] : item[i] \in {"delivered", "aside"}
        BY <1>1, <2>1, <4>1 DEF At, TypeOK, Places
      <4> QED BY <1>1, <1>3, <4>2, AskedMovesOn DEF Settled
    <3> QED BY <1>3, <2>2, <2>3, <3>1
  <2>4. CASE target[c] # w
    BY <1>1, <1>3, <2>1, <2>2, <2>4, AskedMovesOn DEF FlushInv, SettledWhenIdle
  <2> QED BY <2>3, <2>4
<1>7. SettledWhenIdle'
  BY <1>1, <1>3, <1>6, AskedMovesOn DEF FlushInv, SettledWhenIdle
<1> QED BY <1>1, <1>4, <1>5, <1>7 DEF FlushInv

\* An answer to a flush of the sessions that were asked for, from an idle cycle, is true.
LEMMA AnswersAreTrue ==
  ASSUME FlushInv, [Next]_vars, NEW w \in SyncWorkers, Answer(w), Goto(w, "check"),
         thread[w] = "idle" => ~finalize_sessions_requested[w],
         UNCHANGED <<finalize_sessions_requested, item, caller, target, asked, batch>>
  PROVE  FlushInv'
<1> USE DEF Goto, Set, Clear
<1>1. TypeOK /\ TypeOK'
  BY NextType DEF FlushInv
<1>2. CASE ~flush_requested[w]
  <2>1. UNCHANGED <<flush_requested, flush_done, answer>>
    BY <1>2 DEF Answer
  <2>2. \A v \in SyncWorkers : thread'[v] = "check" \/ thread'[v] = thread[v]
    BY <1>1 DEF TypeOK
  <2> QED BY <2>1, <2>2, QuietFlush
<1>3. CASE flush_requested[w]
  <2>1. /\ ~flush_requested'[w] /\ flush_done'[w] /\ thread'[w] = "check"
        /\ answer'[w] = "idle" => thread[w] = "idle" /\ batch[w] = {}
        /\ \A v \in SyncWorkers \ {w} :
             /\ flush_requested'[v] = flush_requested[v] /\ flush_done'[v] = flush_done[v]
             /\ answer'[v] = answer[v] /\ thread'[v] = thread[v]
    <3>1. /\ flush_requested' = [flush_requested EXCEPT ![w] = FALSE]
          /\ flush_done' = [flush_done EXCEPT ![w] = TRUE]
          /\ answer' = [answer EXCEPT ![w] = IF thread[w] = "idle" /\ batch[w] # {}
                                            THEN "refused" ELSE thread[w]]
          /\ thread' = [thread EXCEPT ![w] = "check"]
      BY <1>3 DEF Answer
    <3>2. /\ w \in DOMAIN answer /\ w \in DOMAIN thread
          /\ w \in DOMAIN flush_done /\ w \in DOMAIN flush_requested
      BY <1>1 DEF TypeOK
    <3>3. answer'[w] = "idle" => thread[w] = "idle" /\ batch[w] = {}
      BY <3>1, <3>2
    <3>4. /\ ~flush_requested'[w] /\ flush_done'[w] /\ thread'[w] = "check"
      BY <3>1, <3>2
    <3>5. \A v \in SyncWorkers \ {w} :
            /\ flush_requested'[v] = flush_requested[v] /\ flush_done'[v] = flush_done[v]
            /\ answer'[v] = answer[v] /\ thread'[v] = thread[v]
      BY <1>1, <3>1 DEF TypeOK
    <3> QED BY <3>3, <3>4, <3>5
  <2>2. \A c \in Callers : Flushing(c, w, {"wake", "wait"}) /\ ~flush_done[w]
    BY <1>3 DEF FlushInv, LoneRequest
  <2>3. BatchesAreFull' /\ LoneRequest' /\ AskedIsRecorded'
    BY <1>1, <2>1, <2>2
       DEF FlushInv, BatchesAreFull, LoneRequest, AskedIsRecorded, Flushing
  <2>4. ASSUME NEW c \in Callers, answer'[w] = "idle" PROVE Settled(c)
    <3>1. Taken(c)
      BY <2>1, <2>2, <2>4 DEF Taken, Flushing
    <3> QED BY <2>1, <2>2, <2>4, <3>1 DEF FlushInv, SettledWhenIdle, Flushing
  <2>5. SettledWhenIdle'
    BY <2>1, <2>2, <2>4 DEF SettledWhenIdle, Taken, Flushing, Settled
  <2> QED BY <1>1, <2>3, <2>5 DEF FlushInv
<1> QED BY <1>2, <1>3

LEMMA WorkerFlushes ==
  ASSUME FlushInv, [Next]_vars, NEW w \in SyncWorkers, WorkerStep(w) \/ IntervalPasses(w)
  PROVE  FlushInv'
<1> USE DEF Goto, Set, Clear
<1>1. TypeOK
  BY DEF FlushInv
<1>2. CASE StartCycle(w)
  BY <1>2, CycleTakesRequest
<1>3. CASE Read(w)
  BY <1>3, IdleCycleFoundNothing
<1>4. CASE AnswerIfIdle(w)
  <2>1. CASE finalize_sessions_requested[w]
    <3>1. /\ UNCHANGED <<flags, flush_done, caller, target, asked, answer, batch>>
          /\ \A v \in SyncWorkers : thread'[v] = "head" \/ thread'[v] = thread[v]
      BY <1>1, <1>4, <2>1 DEF AnswerIfIdle, TypeOK
    <3> QED BY <3>1, QuietFlush
  <2>2. CASE ~finalize_sessions_requested[w]
    BY <1>4, <2>2, AnswersAreTrue DEF AnswerIfIdle
  <2> QED BY <2>1, <2>2
<1>5. CASE AnswerAfterFailure(w)
  BY <1>5, AnswersAreTrue DEF AnswerAfterFailure
<1>6. CASE \/ Quit(w) \/ Delivered(w) \/ NotDelivered(w) \/ CheckStop(w) \/ Woken(w)
           \/ IntervalPasses(w) \/ ClearWake(w) \/ Exit(w)
  <2>1. /\ UNCHANGED <<flags, flush_done, caller, target, asked, answer, batch>>
        /\ thread'[w] \notin {"post", "await", "refused", "idle"}
        /\ \A v \in SyncWorkers : v # w => thread'[v] = thread[v]
    BY <1>1, <1>6 DEF TypeOK, Quit, Delivered, NotDelivered, CheckStop, Woken,
         IntervalPasses, ClearWake, Exit
  <2> QED BY <2>1, QuietFlush
<1>7. CASE Post(w) \/ Refused(w) \/ AfterRefusal(w)
  <2>1. /\ UNCHANGED <<flags, flush_done, caller, target, asked, answer, batch>>
        /\ \/ thread'[w] \in {"await", "refused"} /\ thread[w] \in {"post", "await"}
           \/ thread'[w] \in {"idle", "error"} /\ thread[w] = "refused"
        /\ \A v \in SyncWorkers : v # w => thread'[v] = thread[v]
    BY <1>1, <1>7 DEF TypeOK, Post, Refused, AfterRefusal
  <2> QED BY <2>1, QuietFlush
<1> QED BY <1>2, <1>3, <1>4, <1>5, <1>6, <1>7 DEF WorkerStep

LEMMA NextFlushInv ==
  ASSUME \A c, d \in Callers : c = d, ~MayTimeOut, FlushInv, [Next]_vars
  PROVE  FlushInv'
<1>1. ASSUME UNCHANGED <<run, flags, flush_done, call, answer>> PROVE FlushInv'
  BY <1>1, QuietFlush
<1>2. ASSUME NEW i \in Items, Record(i) PROVE FlushInv'
  BY <1>1, <1>2 DEF Record
<1>3. ASSUME NEW k \in Keys, Revoke(k) PROVE FlushInv'
  BY <1>1, <1>3 DEF Revoke
<1>4. CASE UNCHANGED vars
  BY <1>1, <1>4 DEF vars
<1> QED BY <1>2, <1>3, <1>4, LoneCallerFlushes, WorkerFlushes DEF Next

\* A lone caller whose flush waits for its answer, and gets it from a cycle that found
\* nothing left to send, has delivered all it had recorded, whatever sessions were open,
\* items unconvertible and keys revoked meanwhile (sync.py:266-278, 400-415).
THEOREM LoneFlushDelivers ==
  (\A c, d \in Callers : c = d) /\ ~MayTimeOut => (Spec => []FlushDelivers)
<1> SUFFICES ASSUME \A c, d \in Callers : c = d, ~MayTimeOut
             PROVE  Spec => []FlushDelivers
  OBVIOUS
<1>1. Init => FlushInv
  BY InitType DEF Init, FlushInv, BatchesAreFull, LoneRequest, AskedIsRecorded,
                  SettledWhenIdle, Taken
<1>2. FlushInv /\ [Next]_vars => FlushInv'
  BY NextFlushInv
<1>3. FlushInv => FlushDelivers
  BY DEF FlushInv, SettledWhenIdle, Settled, FlushDelivers
<1> QED BY <1>1, <1>2, <1>3, PTL DEF Spec
=============================================================================
