------------------------------ MODULE AutoSessions ------------------------------
(***************************************************************************)
(* The sessions a call is charged to when the application has opened no    *)
(* task (session.py SessionManager): one for every execution, that is      *)
(* every thread or asyncio task, made at its first call and ended by the   *)
(* sync worker when it has been idle.                                      *)
(*                                                                         *)
(* The current task is a context variable (context.py): a child execution  *)
(* starts with a copy of its parent's, and the worker that ends a session  *)
(* can not take it out of the context of its execution.  The manager is    *)
(* locked for each of the steps below, and not between them.               *)
(***************************************************************************)
EXTENDS Integers, FiniteSets

CONSTANTS Executions,     \* threads and asyncio tasks
          MaxSessions,    \* bound on the sessions
          MaxSessionCalls, \* bound on the calls
          MaxRefusals     \* bound on the writes the database refuses

ASSUME SessionAssumption ==
  MaxSessions \in Nat /\ MaxSessionCalls \in Nat /\ MaxRefusals \in Nat

NoTask == 0
Explicit == -1
SessionIds == 1 .. MaxSessions
-----------------------------------------------------------------------------
VARIABLES
  inContext,  \* [Executions -> its current task: none, the explicit one, or a session]
  explicitOpen, \* whether the explicit task has not ended
  managed,    \* _sessions
  owned,      \* _session_owners: the sessions that are someone's
  created,    \* how many sessions were made
  maker,      \* [session -> the execution it was made for]
  ended,      \* the sessions whose ended_at is set
  sessionRow, \* [session -> its row: "none", "open" or "ended"]
  resolving,  \* [Executions -> where its call is, and with which session]
  events,     \* what was recorded: [by, on, late]
  sessionCalls, refusals

sessionVars == <<inContext, explicitOpen, managed, owned, created, maker, ended, sessionRow,
                 resolving, events, sessionCalls, refusals>>
manager == <<managed, owned, created, maker, ended, sessionRow, refusals>>

NotResolving == [at |-> "rest", session |-> NoTask]
MoveTo(e, at, s) == resolving' = [resolving EXCEPT ![e] = [at |-> at, session |-> s]]
Leave(e) == managed' = [managed EXCEPT ![e] = NoTask]

SessionsInit ==
  /\ inContext \in [Executions -> {NoTask, Explicit}] /\ explicitOpen = TRUE
  /\ managed = [e \in Executions |-> NoTask] /\ owned = {} /\ created = 0
  /\ maker = <<>> /\ ended = {} /\ sessionRow = [s \in SessionIds |-> "none"]
  /\ resolving = [e \in Executions |-> NotResolving] /\ events = {}
  /\ sessionCalls = 0 /\ refusals = 0

\* A child starts with the context of its parent, and a pool thread with that of
\* whoever submits to it.
InheritContext ==
  \E e, f \in Executions :
    /\ e # f /\ resolving[f] = NotResolving /\ inContext[f] # inContext[e]
    /\ inContext' = [inContext EXCEPT ![f] = inContext[e]]
    /\ UNCHANGED <<explicitOpen, manager, resolving, events, sessionCalls>>

ExplicitEnds ==
  /\ explicitOpen /\ explicitOpen' = FALSE
  /\ UNCHANGED <<inContext, manager, resolving, events, sessionCalls>>
-----------------------------------------------------------------------------
(* get_or_create_session *)

\* Mutant: whether the task is over is not asked.
IsUnowned(task) == task \notin owned

\* A task in the context that is no session of anyone.
IsExplicit(task) == task \notin owned
                    /\ IF task = Explicit THEN explicitOpen ELSE task \notin ended

LookInContext(e) ==
  LET existing == inContext[e]
      mine     == existing # NoTask /\ existing = managed[e]
      usable   == IF mine THEN existing \notin ended ELSE IsExplicit(existing)
  IN  /\ resolving[e].at = "rest" /\ sessionCalls < MaxSessionCalls
      /\ sessionCalls' = sessionCalls + 1
      /\ \/ /\ existing # NoTask /\ usable
            /\ MoveTo(e, "record", existing)
            /\ UNCHANGED <<inContext, managed, owned>>
         \/ /\ existing = NoTask \/ ~usable
            /\ MoveTo(e, "look", NoTask)
            /\ inContext' = [inContext EXCEPT ![e] = NoTask]
            /\ IF mine THEN Leave(e) /\ owned' = owned \ {existing}
               ELSE UNCHANGED <<managed, owned>>
      /\ UNCHANGED <<explicitOpen, created, maker, ended, sessionRow, refusals, events>>

LookInManager(e) ==
  LET mine == managed[e] IN
  /\ resolving[e].at = "look"
  /\ \/ /\ mine # NoTask /\ mine \notin ended
        /\ inContext' = [inContext EXCEPT ![e] = mine]
        /\ MoveTo(e, "record", mine)
        /\ UNCHANGED <<managed, owned>>
     \/ /\ mine = NoTask \/ mine \in ended
        /\ MoveTo(e, "insert", NoTask)
        /\ Leave(e) /\ owned' = owned \ {mine}
        /\ UNCHANGED inContext
  /\ UNCHANGED <<explicitOpen, created, maker, ended, sessionRow, refusals, events, sessionCalls>>

\* A row that can not be written is only logged.
InsertSession(e) ==
  /\ resolving[e].at = "insert" /\ created < MaxSessions
  /\ created' = created + 1
  /\ maker' = [s \in 1 .. created + 1 |-> IF s > created THEN e ELSE maker[s]]
  /\ \/ sessionRow' = [sessionRow EXCEPT ![created + 1] = "open"] /\ UNCHANGED refusals
     \/ refusals < MaxRefusals /\ refusals' = refusals + 1 /\ UNCHANGED sessionRow
  /\ MoveTo(e, "register", created + 1)
  /\ UNCHANGED <<inContext, explicitOpen, managed, owned, ended, events, sessionCalls>>

RegisterSession(e) ==
  LET s == resolving[e].session IN
  /\ resolving[e].at = "register"
  /\ managed' = [managed EXCEPT ![e] = s] /\ owned' = owned \union {s}
  /\ inContext' = [inContext EXCEPT ![e] = s]
  /\ MoveTo(e, "record", s)
  /\ UNCHANGED <<explicitOpen, created, maker, ended, sessionRow, refusals, events, sessionCalls>>

RecordOnSession(e) ==
  LET s == resolving[e].session IN
  /\ resolving[e].at = "record"
  /\ events' = events \union {[by |-> e, on |-> s, late |-> s \in ended]}
  /\ MoveTo(e, "rest", NoTask)
  /\ UNCHANGED <<inContext, explicitOpen, manager, sessionCalls>>
-----------------------------------------------------------------------------
(* finalize_idle_sessions *)

Forget(gone) ==
  /\ managed' = [e \in Executions |-> IF managed[e] \in gone THEN NoTask ELSE managed[e]]
  /\ owned' = owned \ gone

\* Mutant: a session whose end could not be stored is dropped like the others.
ForgetIdle(idle, refused) == Forget({managed[e] : e \in idle} \ {NoTask})

ForgetFinalized(idle, refused) ==
  Forget({managed[e] : e \in idle \ refused} \ {NoTask})

\* The idle sessions are ended under the lock, one after the other; one whose end is
\* not stored is as it was before.
FinalizeIdleSessions ==
  \E idle \in SUBSET {e \in Executions : managed[e] # NoTask}, refused \in SUBSET Executions :
    LET over == {managed[e] : e \in idle \ refused}
    IN  /\ idle # {} /\ refused \subseteq idle
        /\ refusals + Cardinality(refused) <= MaxRefusals
        /\ refusals' = refusals + Cardinality(refused)
        /\ ended' = ended \union over
        /\ sessionRow' = [s \in SessionIds |-> IF s \in over /\ sessionRow[s] = "open" THEN "ended" ELSE sessionRow[s]]
        /\ ForgetFinalized(idle, refused)
        /\ UNCHANGED <<inContext, explicitOpen, created, maker, resolving, events, sessionCalls>>

SessionsNext ==
  \/ InheritContext \/ ExplicitEnds \/ FinalizeIdleSessions
  \/ \E e \in Executions :
       LookInContext(e) \/ LookInManager(e) \/ InsertSession(e) \/ RegisterSession(e)
       \/ RecordOnSession(e)

SessionsSpec == SessionsInit /\ [][SessionsNext]_sessionVars
-----------------------------------------------------------------------------
\* Every variable holds a value of its kind, and a session is managed for its maker.
SessionsTypeOK ==
  /\ inContext \in [Executions -> SessionIds \union {NoTask, Explicit}]
  /\ managed \in [Executions -> SessionIds \union {NoTask}]
  /\ owned \subseteq 1 .. created /\ ended \subseteq 1 .. created
  /\ \A e \in Executions : managed[e] # NoTask => maker[managed[e]] = e

\* What an execution calls outside any task lands on a session made for it, and not on
\* one whose context it was started with (get_or_create_session).
SessionsArePrivate ==
  \A v \in events : v.on # Explicit => maker[v.on] = v.by

\* A session that was stored is ended at last, or still managed so that it can be: none
\* stays open for ever, whatever order calls, ends and refused writes come in
\* (finalize_idle_sessions, get_or_create_session).
NoSessionIsForgotten ==
  \A s \in 1 .. created : sessionRow[s] = "open" =>
    managed[maker[s]] = s \/ resolving[maker[s]] = [at |-> "register", session |-> s]

\* Each session is kept for its execution, and until it ends.
SessionsAreKept == SessionsArePrivate /\ NoSessionIsForgotten

\* A call never settles on a session that has ended already, though it may end before
\* the call is recorded (get_or_create_session).
SettlesOnAnOpenSession ==
  [][ \A e \in Executions :
        resolving[e].at # "record" /\ resolving'[e].at = "record"
          => resolving'[e].session \notin ended' ]_sessionVars
=============================================================================
