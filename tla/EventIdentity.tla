----------------------------- MODULE EventIdentity -----------------------------
(***************************************************************************)
(* The identity of an LLM event: the id it gets from the key of the caller *)
(* (idempotency.py), so that an operation that is run again is stored once *)
(* only, and its place in a chain of retries (heuristics.py, tracker.py    *)
(* _detect_retry, _stamp_retry_lineage).                                   *)
(*                                                                         *)
(* A run performs the operations of a plan, each of which has the same     *)
(* answer whenever it is performed, but may take another time to come.  A  *)
(* run may break off at any point, and is then started again, under the    *)
(* same key.                                                               *)
(***************************************************************************)
EXTENDS Integers, Sequences, FiniteSets, SequencesExt

CONSTANTS Operations,  \* how many operations the plan has
          LlmModels,   \* the models they may call
          Latencies,   \* the times a call may be measured to take
          AtOnce,      \* how many of them may be under way together
          MaxRuns,     \* bound on the runs
          RetryWindow  \* how far back a retry is looked for, in events

ASSUME IdentityAssumption ==
  Operations \in Nat /\ AtOnce \in Nat /\ MaxRuns \in Nat /\ RetryWindow \in Nat

Plan == 1 .. Operations
Unstarted == [at |-> "unstarted", occurrence |-> 0, time |-> 0, latency |-> 0, retryOf |-> <<>>]
-----------------------------------------------------------------------------
VARIABLES
  plan,     \* [operation -> its model, and whether it fails with a transient error]
  setup,    \* [early: the occurrence is taken when an operation begins, and not when it
            \*  is recorded; inOrder: they begin in the order of the plan; keyed: under a
            \*  key; detector: "off", "engine" or "storage"]
  run,      \* how often the plan was started
  nextOccurrence, \* _IdempotencyScope.next_occurrence
  doing,    \* [operation -> where this run is with it]
  eventClock,
  log,      \* the events stored, in the order of their insertion
  recent,   \* _recent_events of the engine: [id -> its place in the order they were told]
  absorbed, \* the events that were found stored: [operation, stored: the operation of that]
  conflicts, \* the events that were refused for what is stored: and with what latency
  unmarked  \* the ids of the events that mark_not_retry was called for

identityVars == <<plan, setup, run, nextOccurrence, doing, eventClock, log, recent, absorbed,
                  conflicts, unmarked>>
logVars == <<log, absorbed, conflicts, unmarked>>

IdentityInit ==
  /\ plan \in [Plan -> [model : LlmModels, fails : BOOLEAN]]
  /\ setup \in [early : BOOLEAN, inOrder : BOOLEAN, keyed : BOOLEAN,
                detector : {"off", "engine", "storage"}]
  /\ setup.early => setup.keyed /\ setup.detector = "off"
  /\ run = 1 /\ nextOccurrence = 0 /\ doing = [o \in Plan |-> Unstarted]
  /\ eventClock = 0 /\ log = <<>> /\ recent = <<>>
  /\ absorbed = {} /\ conflicts = {} /\ unmarked = {}
-----------------------------------------------------------------------------
UnderWay == {o \in Plan : doing[o].at \notin {"unstarted", "done"}}

\* Mutant: the scope forgets that it gave the occurrence away.
CaptureAgain == setup.keyed /\ nextOccurrence' = nextOccurrence

Capture == setup.keyed /\ nextOccurrence' = nextOccurrence + 1
NoCapture == UNCHANGED nextOccurrence

BeginOperation(o) ==
  /\ doing[o].at = "unstarted" /\ Cardinality(UnderWay) < AtOnce
  /\ setup.inOrder => \A p \in Plan : p < o => doing[p].at # "unstarted"
  /\ IF setup.early THEN Capture ELSE NoCapture
  /\ doing' = [doing EXCEPT ![o].at = "called", ![o].occurrence = nextOccurrence]
  /\ UNCHANGED <<plan, setup, run, eventClock, recent, logVars>>

\* record_llm_call: the event gets its time, and the latency measured by the wrapper.
AnswerArrives(o) ==
  /\ doing[o].at = "called"
  /\ eventClock' = eventClock + 1
  /\ \E latency \in Latencies :
       doing' = [doing EXCEPT ![o].at = "answered", ![o].time = eventClock + 1,
                              ![o].latency = latency]
  /\ UNCHANGED <<plan, setup, run, nextOccurrence, recent, logVars>>

StoredAs(id) == {i \in DOMAIN log : log[i].id = id}
EventOf(id) == log[CHOOSE i \in StoredAs(id) : TRUE]
SameModel(e, o) == e.model = plan[o].model

\* The call is a retry of the one event that was found, if that failed.
RetryOf(found) ==
  IF \E e \in found : e.fails THEN <<(CHOOSE e \in found : e.fails).id>> ELSE <<>>

\* The event of the model that the engine was told of last, among those it remembers.
LastRecent(o) ==
  LET mine == {id \in DOMAIN recent : SameModel(EventOf(id), o)}
  IN  {EventOf(id) : id \in {i \in mine : \A j \in mine : recent[j] <= recent[i]}}

\* Mutant: an event that comes later is no less of an original.
EngineFindsAny(o) == RetryOf({e \in LastRecent(o) : doing[o].time - e.time <= RetryWindow})

EngineFinds(o) == RetryOf({e \in LastRecent(o) : doing[o].time - e.time \in 0 .. RetryWindow})

\* The latest event of the model that is stored, unless that was before the window.
StorageFinds(o) ==
  LET mine == {e \in {log[i] : i \in DOMAIN log} :
                 SameModel(e, o) /\ e.time >= doing[o].time - RetryWindow}
  IN  RetryOf({e \in mine : \A f \in mine : f.time <= e.time})

DetectRetry(o) ==
  /\ doing[o].at = "answered"
  /\ doing' = [doing EXCEPT ![o].at = "detected",
       ![o].retryOf = CASE setup.detector = "off" -> <<>>
                        [] setup.detector = "engine" -> EngineFinds(o)
                        [] setup.detector = "storage" -> StorageFinds(o)]
  /\ UNCHANGED <<plan, setup, run, nextOccurrence, eventClock, recent, logVars>>
-----------------------------------------------------------------------------

\* A retry belongs to the operation of what it retries, as the attempt after it.  Of one
\* that cannot be read it is the second.
Lineage(id, retryOf, read) ==
  IF retryOf = <<>> THEN [operation |-> id, attempt |-> 1]
  ELSE IF ~read \/ StoredAs(retryOf[1]) = {} THEN [operation |-> retryOf[1], attempt |-> 2]
  ELSE [operation |-> EventOf(retryOf[1]).operation, attempt |-> EventOf(retryOf[1]).attempt + 1]

\* Without a key every event has an id of its own; with one it follows from the key, the
\* occurrence and what was called.
IdOf(o) ==
  IF setup.keyed
  THEN <<IF setup.early THEN doing[o].occurrence ELSE nextOccurrence, plan[o].model>>
  ELSE <<"fresh", run, o>>

EventFor(o, read) ==
  [id |-> IdOf(o), model |-> plan[o].model, fails |-> plan[o].fails, time |-> doing[o].time,
   latency |-> doing[o].latency, retryOf |-> doing[o].retryOf, by |-> o, read |-> read,
   operation |-> Lineage(IdOf(o), doing[o].retryOf, read).operation,
   attempt |-> Lineage(IdOf(o), doing[o].retryOf, read).attempt]

\* What is compared of two events: all but their times.
Facts(e) == <<e.id, e.model, e.fails, e.latency, e.retryOf, e.operation, e.attempt>>
SameFacts(e, f) == Facts(e) = Facts(f)

InsertEvent(o, event) ==
  LET stored == EventOf(event.id)
  IN \/ /\ StoredAs(event.id) = {}
        /\ log' = Append(log, event)
        /\ UNCHANGED <<absorbed, conflicts>>
     \/ /\ StoredAs(event.id) # {} /\ SameFacts(stored, event)
        /\ absorbed' = absorbed \union {[operation |-> o, stored |-> stored.by]}
        /\ UNCHANGED <<log, conflicts>>
     \/ /\ StoredAs(event.id) # {} /\ ~SameFacts(stored, event)
        /\ conflicts' = conflicts \union
             {[operation |-> o, stored |-> stored.by, latency |-> event.latency]}
        /\ UNCHANGED <<log, absorbed>>

\* The lineage is stamped, from what the database can be read for, and the event stored.
StoreEvent(o, read) ==
  LET event == EventFor(o, read)
      refused == StoredAs(event.id) # {} /\ ~SameFacts(EventOf(event.id), event)
  IN  /\ doing[o].at = "detected"
      /\ doing[o].retryOf = <<>> => read
      /\ IF setup.early THEN NoCapture ELSE (IF setup.keyed THEN Capture ELSE NoCapture)
      /\ InsertEvent(o, event)
      /\ doing' = [doing EXCEPT ![o].at = IF refused THEN "done" ELSE "stored",
                                 ![o].retryOf = <<event.id>>]
      /\ UNCHANGED <<plan, setup, run, eventClock, recent, unmarked>>

\* The engine is told of an event once it is stored, and forgets those before the window.
TellEngine(o) ==
  LET id == doing[o].retryOf[1]
      kept == {i \in DOMAIN recent : EventOf(i).time >= EventOf(id).time - RetryWindow}
      next == 1 + Max({0} \union {recent[i] : i \in kept})
  IN  /\ doing[o].at = "stored"
      /\ recent' = IF setup.detector = "engine"
                   THEN [i \in kept \union {id} |-> IF i = id THEN next ELSE recent[i]]
                   ELSE recent
      /\ doing' = [doing EXCEPT ![o].at = "done"]
      /\ UNCHANGED <<plan, setup, run, nextOccurrence, eventClock, logVars>>

\* The caller starts the plan again, maybe after the process was restarted.
RunAgain ==
  /\ run < MaxRuns /\ run' = run + 1
  /\ nextOccurrence' = 0 /\ doing' = [o \in Plan |-> Unstarted]
  /\ recent' \in {recent, <<>>}
  /\ UNCHANGED <<plan, setup, eventClock, logVars>>

MarkNotRetry ==
  \E i \in DOMAIN log :
    /\ log[i].retryOf # <<>>
    /\ log' = [log EXCEPT ![i].retryOf = <<>>, ![i].operation = log[i].id, ![i].attempt = 1]
    /\ unmarked' = unmarked \union {log[i].id}
    /\ UNCHANGED <<plan, setup, run, nextOccurrence, doing, eventClock, recent, absorbed, conflicts>>

IdentityNext ==
  \/ RunAgain \/ MarkNotRetry
  \/ \E o \in Plan : \/ BeginOperation(o) \/ AnswerArrives(o) \/ DetectRetry(o)
                     \/ TellEngine(o)
                     \/ \E read \in BOOLEAN : StoreEvent(o, read)

IdentitySpec == IdentityInit /\ [][IdentityNext]_identityVars
-----------------------------------------------------------------------------
\* An operation that takes its occurrence when it begins is stored once at most, however
\* often its plan is run, broken off and run again, and in whatever order its operations
\* end, as long as they begin in the same order (capture_idempotency_key, insert_event).
OperationIsStoredOnce ==
  setup.early /\ setup.inOrder =>
    \A i, j \in DOMAIN log : log[i].by = log[j].by => i = j

\* No operation is taken for another one that has the same key: what is absorbed, or
\* refused, meets an earlier run of itself, and is refused only when that run took another
\* time (apply_event_idempotency, equivalent_idempotent_event).
OperationsStayApart ==
  setup.early /\ setup.inOrder =>
    /\ \A met \in absorbed \union conflicts : met.operation = met.stored
    /\ \A c \in conflicts :
         \E i \in DOMAIN log : log[i].by = c.operation /\ log[i].latency # c.latency

\* An operation keeps its identity over any number of runs: stored once, never as another.
OperationsKeepTheirIdentity == OperationIsStoredOnce /\ OperationsStayApart

\* What the engine takes for a retry follows a call of the same model that failed before
\* it, within the window, and is not itself, whatever order the calls are recorded in
\* (RetryHeuristicEngine.check).
RetryFollowsAFailure ==
  setup.detector = "engine" /\ ~setup.keyed =>
    \A i \in DOMAIN log : log[i].retryOf # <<>> =>
      \E j \in 1 .. i - 1 :
        /\ log[j].id = log[i].retryOf[1] /\ log[j].fails /\ log[j].model = log[i].model
        /\ log[i].time - log[j].time \in 1 .. RetryWindow

\* A chain of retries is one operation with its attempts numbered through, except where
\* an attempt was declared to be none afterwards; one whose source could not be read is
\* at least the second attempt of that source (_stamp_retry_lineage).
AttemptsCountUp ==
  \A i \in DOMAIN log : log[i].retryOf # <<>> =>
    IF log[i].read
    THEN log[i].retryOf[1] \notin unmarked =>
           \A j \in StoredAs(log[i].retryOf[1]) :
             /\ log[i].attempt = log[j].attempt + 1
             /\ log[i].operation = log[j].operation
    ELSE log[i].attempt = 2 /\ log[i].operation = log[i].retryOf[1]

\* A retry is linked to what it retries: a failed call before it, with the next number
\* where that could be read.
RetriesAreLinked == RetryFollowsAFailure /\ AttemptsCountUp
=============================================================================
