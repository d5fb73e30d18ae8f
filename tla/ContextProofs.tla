---------------------------- MODULE ContextProofs ----------------------------
(***************************************************************************)
(* Theorems about the task that work is charged to.  AutoSessions, for any *)
(* set of executions and any number of sessions, calls and refused writes: *)
(* no execution is charged with what another one calls, and every session  *)
(* that was stored can be ended.  ToolCalls, for any calls and contexts:   *)
(* a tool is charged to the task it was called in.                         *)
(***************************************************************************)
EXTENDS AutoSessions, ToolCalls, FiniteSetTheorems, TLAPS

Sessions == 1 .. created

Registering(e, s) == resolving[e] = [at |-> "register", session |-> s]

StateOK ==
  /\ created \in 0 .. MaxSessions
  /\ maker \in [Sessions -> Executions]
  /\ inContext \in [Executions -> Sessions \union {NoTask, Explicit}]
  /\ managed \in [Executions -> Sessions \union {NoTask}]
  /\ owned \subseteq Sessions /\ ended \subseteq Sessions
  /\ sessionRow \in [SessionIds -> {"none", "open", "ended"}]
  /\ resolving \in [Executions -> [at : {"rest", "look", "record", "insert", "register"},
                                   session : Sessions \union {NoTask, Explicit}]]

\* An execution that makes a session has none, and the one it has made is nobody's yet.
BetweenSessions ==
  \A e \in Executions :
    /\ resolving[e].at \in {"insert", "register"} => managed[e] = NoTask
    /\ resolving[e].at = "register" =>
         /\ resolving[e].session \in Sessions \ (owned \union ended)
         /\ maker[resolving[e].session] = e
         /\ \A f \in Executions : inContext[f] # resolving[e].session
    /\ resolving[e].at = "record" =>
         \/ resolving[e].session = Explicit
         \/ resolving[e].session \in Sessions /\ maker[resolving[e].session] = e

\* The owned sessions are those managed for their makers, and every other one has ended
\* or is about to be owned.
OwnersKnown ==
  /\ \A e \in Executions : managed[e] # NoTask => maker[managed[e]] = e
  /\ \A s \in Sessions : s \in owned <=> managed[maker[s]] = s
  /\ \A s \in Sessions : s \in owned \/ s \in ended \/ Registering(maker[s], s)

\* A row is open only as long as its session is.
OpenRowsAreOpen ==
  \A s \in SessionIds : sessionRow[s] = "open" => s \in Sessions /\ s \notin ended

EventsArePrivate ==
  \A v \in events : v.on # Explicit => v.on \in Sessions /\ maker[v.on] = v.by

SessionsInv ==
  StateOK /\ BetweenSessions /\ OwnersKnown /\ OpenRowsAreOpen /\ EventsArePrivate

USE DEF NoTask, Explicit
-----------------------------------------------------------------------------
LEMMA SessionNumbers ==
  ASSUME SessionsInv
  PROVE  /\ created \in Nat /\ NoTask \notin Sessions /\ Explicit \notin Sessions
         /\ Sessions \subseteq SessionIds
BY SessionAssumption DEF SessionsInv, StateOK, Sessions, SessionIds

LEMMA SessionsInitInv == SessionsInit => SessionsInv
<1> SUFFICES ASSUME SessionsInit PROVE SessionsInv
  OBVIOUS
<1>1. created = 0 /\ Sessions = {} /\ MaxSessions \in Nat
  BY SessionAssumption DEF SessionsInit, Sessions
<1>2. StateOK
  BY <1>1 DEF SessionsInit, StateOK, NotResolving
<1>3. BetweenSessions /\ OwnersKnown /\ OpenRowsAreOpen /\ EventsArePrivate
  BY <1>1 DEF SessionsInit, NotResolving, BetweenSessions, OwnersKnown, OpenRowsAreOpen,
              EventsArePrivate
<1> QED BY <1>2, <1>3 DEF SessionsInv

LEMMA InheritKeeps == SessionsInv /\ InheritContext => SessionsInv'
<1> SUFFICES ASSUME SessionsInv, NEW e \in Executions, NEW f \in Executions,
                    inContext' = [inContext EXCEPT ![f] = inContext[e]],
                    UNCHANGED <<explicitOpen, manager, resolving, events, sessionCalls>>
             PROVE  SessionsInv'
  BY DEF InheritContext
<1>1. UNCHANGED <<managed, owned, created, maker, ended, sessionRow, resolving, events>>
  BY DEF manager
<1>2. StateOK'
  BY <1>1 DEF SessionsInv, StateOK, Sessions
<1>3. BetweenSessions'
  BY <1>1 DEF SessionsInv, StateOK, BetweenSessions, Sessions
<1>4. OwnersKnown' /\ OpenRowsAreOpen' /\ EventsArePrivate'
  BY <1>1 DEF SessionsInv, OwnersKnown, OpenRowsAreOpen, EventsArePrivate, Sessions, Registering
<1> QED BY <1>2, <1>3, <1>4 DEF SessionsInv

\* The task a call finds in its context is its own, or not a session.
LEMMA ContextIsOwn ==
  ASSUME SessionsInv, NEW e \in Executions, inContext[e] # NoTask,
         IF inContext[e] = managed[e] THEN inContext[e] \notin ended ELSE IsExplicit(inContext[e])
  PROVE  \/ inContext[e] = Explicit
         \/ inContext[e] \in Sessions \ ended /\ maker[inContext[e]] = e
<1> DEFINE s == inContext[e]
<1>1. s \in Sessions \union {Explicit}
  BY DEF SessionsInv, StateOK
<1>2. CASE s = managed[e]
  BY <1>1, <1>2 DEF SessionsInv, OwnersKnown
<1>3. CASE s # managed[e] /\ s \in Sessions
  <2>1. s \notin owned /\ s \notin ended
    BY <1>3, SessionNumbers DEF IsExplicit
  <2>2. Registering(maker[s], s) /\ maker[s] \in Executions
    BY <1>3, <2>1 DEF SessionsInv, OwnersKnown, StateOK
  <2>3. \A f \in Executions : inContext[f] # s
    BY <2>2 DEF SessionsInv, BetweenSessions, Registering
  <2> QED BY <2>3
<1> QED BY <1>1, <1>2, <1>3

LEMMA LookInContextKeeps ==
  ASSUME SessionsInv, NEW e \in Executions, LookInContext(e)
  PROVE  SessionsInv'
<1> DEFINE s == inContext[e]
           mine == s # NoTask /\ s = managed[e]
           usable == IF mine THEN s \notin ended ELSE IsExplicit(s)
<1>1. /\ resolving[e].at = "rest"
      /\ UNCHANGED <<created, maker, ended, sessionRow, events>>
  BY DEF LookInContext
<1>2. Sessions' = Sessions
  BY <1>1 DEF Sessions
<1>3. CASE s # NoTask /\ usable /\ MoveTo(e, "record", s) /\ UNCHANGED <<inContext, managed, owned>>
  <2>1. s = Explicit \/ (s \in Sessions /\ maker[s] = e)
    BY <1>3, ContextIsOwn
  <2>2. resolving' = [resolving EXCEPT ![e] = [at |-> "record", session |-> s]]
    BY <1>3 DEF MoveTo
  <2>3. s \in Sessions \union {NoTask, Explicit}
    BY <2>1
  <2> HIDE DEF s
  <2>4. StateOK'
    BY <1>1, <1>2, <1>3, <2>2, <2>3 DEF SessionsInv, StateOK
  <2>5. BetweenSessions'
    BY <1>1, <1>2, <1>3, <2>1, <2>2 DEF SessionsInv, StateOK, BetweenSessions
  <2>6. \A d \in Executions : \A t : Registering(d, t)' <=> Registering(d, t)
    BY <1>1, <2>2 DEF SessionsInv, StateOK, Registering
  <2>7. OwnersKnown' /\ OpenRowsAreOpen' /\ EventsArePrivate'
    BY <1>1, <1>2, <1>3, <2>6 DEF SessionsInv, StateOK, OwnersKnown, OpenRowsAreOpen, EventsArePrivate
  <2> QED BY <2>4, <2>5, <2>7 DEF SessionsInv
<1>4. CASE /\ s = NoTask \/ ~usable
           /\ MoveTo(e, "look", NoTask)
           /\ inContext' = [inContext EXCEPT ![e] = NoTask]
           /\ IF mine THEN Leave(e) /\ owned' = owned \ {s} ELSE UNCHANGED <<managed, owned>>
  <2>1. resolving' = [resolving EXCEPT ![e] = [at |-> "look", session |-> NoTask]]
    BY <1>4 DEF MoveTo
  <2>2. \A d \in Executions : \A t : Registering(d, t)' <=> Registering(d, t)
    BY <1>1, <2>1 DEF SessionsInv, StateOK, Registering
  <2>3. \/ mine /\ s \in ended /\ managed' = [managed EXCEPT ![e] = NoTask] /\ owned' = owned \ {s}
        \/ managed' = managed /\ owned' = owned
    BY <1>4 DEF Leave
  <2> HIDE DEF s
  <2>4. StateOK'
    BY <1>1, <1>2, <1>4, <2>1, <2>3 DEF SessionsInv, StateOK
  <2>5. BetweenSessions'
    BY <1>1, <1>2, <1>4, <2>1, <2>3, SessionNumbers DEF SessionsInv, StateOK, BetweenSessions
  <2>6. OwnersKnown'
    BY <1>1, <1>2, <2>2, <2>3, SessionNumbers DEF SessionsInv, StateOK, OwnersKnown
  <2>7. OpenRowsAreOpen' /\ EventsArePrivate'
    BY <1>1, <1>2 DEF SessionsInv, OpenRowsAreOpen, EventsArePrivate
  <2> QED BY <2>4, <2>5, <2>6, <2>7 DEF SessionsInv
<1> QED BY <1>3, <1>4 DEF LookInContext

LEMMA LookInManagerKeeps ==
  ASSUME SessionsInv, NEW e \in Executions, LookInManager(e)
  PROVE  SessionsInv'
<1> DEFINE mine == managed[e]
<1>1. /\ resolving[e].at = "look"
      /\ UNCHANGED <<created, maker, ended, sessionRow, events>>
  BY DEF LookInManager
<1>2. Sessions' = Sessions
  BY <1>1 DEF Sessions
<1>3. mine \in Sessions \union {NoTask}
  BY DEF SessionsInv, StateOK
<1>4. CASE /\ mine # NoTask /\ mine \notin ended
           /\ inContext' = [inContext EXCEPT ![e] = mine]
           /\ MoveTo(e, "record", mine)
           /\ UNCHANGED <<managed, owned>>
  <2>1. /\ mine \in Sessions /\ maker[mine] = e /\ mine \in owned
    BY <1>3, <1>4 DEF SessionsInv, OwnersKnown
  <2>2. resolving' = [resolving EXCEPT ![e] = [at |-> "record", session |-> mine]]
    BY <1>4 DEF MoveTo
  <2> HIDE DEF mine
  <2>3. \A d \in Executions : \A t : Registering(d, t)' <=> Registering(d, t)
    BY <1>1, <2>2 DEF SessionsInv, StateOK, Registering
  <2>4. StateOK'
    BY <1>1, <1>2, <1>4, <2>1, <2>2 DEF SessionsInv, StateOK
  <2>5. BetweenSessions'
    BY <1>1, <1>2, <1>4, <2>1, <2>2 DEF SessionsInv, StateOK, BetweenSessions
  <2>6. OwnersKnown' /\ OpenRowsAreOpen' /\ EventsArePrivate'
    BY <1>1, <1>2, <1>4, <2>3 DEF SessionsInv, StateOK, OwnersKnown, OpenRowsAreOpen, EventsArePrivate
  <2> QED BY <2>4, <2>5, <2>6 DEF SessionsInv
<1>5. CASE /\ mine = NoTask \/ mine \in ended
           /\ MoveTo(e, "insert", NoTask)
           /\ Leave(e) /\ owned' = owned \ {mine}
           /\ UNCHANGED inContext
  <2>1. resolving' = [resolving EXCEPT ![e] = [at |-> "insert", session |-> NoTask]]
    BY <1>5 DEF MoveTo
  <2>2. managed' = [managed EXCEPT ![e] = NoTask]
    BY <1>5 DEF Leave
  <2>3. mine \notin owned \/ mine \in ended
    BY <1>5, SessionNumbers DEF SessionsInv, StateOK
  <2>4. mine = managed[e]
    OBVIOUS
  <2> HIDE DEF mine
  <2>5. \A d \in Executions : \A t : Registering(d, t)' <=> Registering(d, t)
    BY <1>1, <2>1 DEF SessionsInv, StateOK, Registering
  <2>6. StateOK'
    BY <1>1, <1>2, <1>5, <2>1, <2>2 DEF SessionsInv, StateOK
  <2>7. BetweenSessions'
    BY <1>1, <1>2, <1>5, <2>1, <2>2, SessionNumbers DEF SessionsInv, StateOK, BetweenSessions
  <2>8. OwnersKnown'
    <3>1. \A d \in Executions : managed'[d] # NoTask => maker'[managed'[d]] = d
      BY <1>1, <2>2 DEF SessionsInv, StateOK, OwnersKnown
    <3>2. \A t \in Sessions : t \in owned' <=> managed'[maker[t]] = t
      BY <1>3, <1>5, <2>2, <2>4, SessionNumbers DEF SessionsInv, StateOK, OwnersKnown
    <3>3. \A t \in Sessions : t \in owned' \/ t \in ended \/ Registering(maker[t], t)
      BY <1>5, <2>3 DEF SessionsInv, OwnersKnown
    <3>4. \A t \in Sessions : maker[t] \in Executions
      BY DEF SessionsInv, StateOK
    <3> QED BY <1>1, <1>2, <2>5, <3>1, <3>2, <3>3, <3>4 DEF OwnersKnown
  <2>9. OpenRowsAreOpen' /\ EventsArePrivate'
    BY <1>1, <1>2 DEF SessionsInv, OpenRowsAreOpen, EventsArePrivate
  <2> QED BY <2>6, <2>7, <2>8, <2>9 DEF SessionsInv
<1> QED BY <1>4, <1>5 DEF LookInManager

LEMMA InsertSessionKeeps ==
  ASSUME SessionsInv, NEW e \in Executions, InsertSession(e)
  PROVE  SessionsInv'
<1> DEFINE n == created + 1
<1>1. /\ resolving[e].at = "insert" /\ created < MaxSessions /\ created' = n
      /\ maker' = [s \in 1 .. n |-> IF s > created THEN e ELSE maker[s]]
      /\ resolving' = [resolving EXCEPT ![e] = [at |-> "register", session |-> n]]
      /\ UNCHANGED <<inContext, managed, owned, ended, events>>
  BY DEF InsertSession, MoveTo
<1>2. /\ created \in Nat /\ n \in Nat /\ n # 0 /\ n # -1 /\ n \notin Sessions
      /\ Sessions' = Sessions \union {n} /\ n \in SessionIds
  BY <1>1, SessionNumbers, SessionAssumption DEF Sessions, SessionIds
<1>3. maker'[n] = e /\ \A s \in Sessions : maker'[s] = maker[s]
  BY <1>1, <1>2 DEF Sessions
<1>4. \/ sessionRow' = [sessionRow EXCEPT ![n] = "open"]
      \/ sessionRow' = sessionRow
  BY DEF InsertSession
<1>5. maker' \in [Sessions' -> Executions]
  BY <1>1, <1>2, <1>3 DEF SessionsInv, StateOK, Sessions
<1>6. created' \in 0 .. MaxSessions
  BY <1>1, <1>2, SessionAssumption
<1> HIDE DEF n
<1>7. StateOK'
  BY <1>1, <1>2, <1>4, <1>5, <1>6 DEF SessionsInv, StateOK
<1>8. \A f \in Executions : inContext[f] # n
  BY <1>2 DEF SessionsInv, StateOK
<1>9. BetweenSessions'
  <2>1. ASSUME NEW d \in Executions, d # e
        PROVE  /\ resolving'[d].at \in {"insert", "register"} => managed'[d] = NoTask
               /\ resolving'[d].at = "register" =>
                    /\ resolving'[d].session \in Sessions' \ (owned' \union ended')
                    /\ maker'[resolving'[d].session] = d
                    /\ \A f \in Executions : inContext'[f] # resolving'[d].session
               /\ resolving'[d].at = "record" =>
                    \/ resolving'[d].session = Explicit
                    \/ resolving'[d].session \in Sessions' /\ maker'[resolving'[d].session] = d
    BY <1>1, <1>2, <1>3, <2>1 DEF SessionsInv, StateOK, BetweenSessions
  <2>2. /\ resolving'[e].at = "register" /\ resolving'[e].session = n
        /\ managed'[e] = NoTask /\ n \in Sessions' \ (owned' \union ended')
        /\ maker'[n] = e
    BY <1>1, <1>2, <1>3 DEF SessionsInv, StateOK, BetweenSessions
  <2> QED BY <1>1, <1>8, <2>1, <2>2 DEF BetweenSessions
<1>10. OwnersKnown'
  <2>1. \A d \in Executions : managed'[d] # NoTask => maker'[managed'[d]] = d
    BY <1>1, <1>3 DEF SessionsInv, StateOK, OwnersKnown
  <2>2. ASSUME NEW s \in Sessions
        PROVE  /\ s \in owned' <=> managed'[maker'[s]] = s
               /\ s \in owned' \/ s \in ended' \/ Registering(maker[s], s)'
    <3>1. maker'[s] = maker[s] /\ maker[s] \in Executions /\ maker' [s] = maker[s]'
      BY <1>3 DEF SessionsInv, StateOK
    <3>2. CASE maker[s] = e
      BY <1>1, <3>1, <3>2 DEF SessionsInv, OwnersKnown, Registering
    <3>3. CASE maker[s] # e
      BY <1>1, <3>1, <3>3 DEF SessionsInv, StateOK, OwnersKnown, Registering
    <3> QED BY <3>2, <3>3
  <2>3. /\ n \notin owned' /\ managed'[maker'[n]] # n
        /\ resolving'[maker'[n]] = [at |-> "register", session |-> n]
    BY <1>1, <1>2, <1>3 DEF SessionsInv, StateOK
  <2> QED BY <1>2, <2>1, <2>2, <2>3 DEF OwnersKnown, Registering
<1>11. OpenRowsAreOpen'
  BY <1>1, <1>2, <1>4 DEF SessionsInv, StateOK, OpenRowsAreOpen
<1>12. EventsArePrivate'
  BY <1>1, <1>2, <1>3 DEF SessionsInv, EventsArePrivate
<1> QED BY <1>7, <1>9, <1>10, <1>11, <1>12 DEF SessionsInv

LEMMA RegisterSessionKeeps ==
  ASSUME SessionsInv, NEW e \in Executions, RegisterSession(e)
  PROVE  SessionsInv'
<1> DEFINE s == resolving[e].session
<1>1. /\ resolving[e].at = "register"
      /\ managed' = [managed EXCEPT ![e] = s] /\ owned' = owned \union {s}
      /\ inContext' = [inContext EXCEPT ![e] = s]
      /\ resolving' = [resolving EXCEPT ![e] = [at |-> "record", session |-> s]]
      /\ UNCHANGED <<created, maker, ended, sessionRow, events>>
  BY DEF RegisterSession, MoveTo
<1>2. /\ Sessions' = Sessions /\ s \in Sessions \ (owned \union ended) /\ maker[s] = e
      /\ managed[e] = NoTask /\ \A f \in Executions : inContext[f] # s
  BY <1>1 DEF Sessions, SessionsInv, BetweenSessions
<1>3. s = resolving[e].session
  OBVIOUS
<1> HIDE DEF s
<1>4. StateOK'
  BY <1>1, <1>2 DEF SessionsInv, StateOK
<1>5. BetweenSessions'
  BY <1>1, <1>2, SessionNumbers DEF SessionsInv, StateOK, BetweenSessions
<1>6. OwnersKnown'
  <2>1. \A d \in Executions : managed'[d] # NoTask => maker'[managed'[d]] = d
    BY <1>1, <1>2 DEF SessionsInv, StateOK, OwnersKnown
  <2>2. ASSUME NEW t \in Sessions
        PROVE  /\ t \in owned' <=> managed'[maker[t]] = t
               /\ t \in owned' \/ t \in ended \/ Registering(maker[t], t)'
    <3>1. maker[t] \in Executions
      BY DEF SessionsInv, StateOK
    <3>2. CASE t = s
      BY <1>1, <1>2, <3>2 DEF SessionsInv, StateOK
    <3>3. CASE t # s /\ maker[t] = e
      <4>1. t \notin owned
        BY <1>2, <3>3, SessionNumbers DEF SessionsInv, OwnersKnown
      <4>2. t \in ended
        <5>1. Registering(e, t) => resolving[e].session = t
          BY DEF Registering
        <5> QED BY <1>3, <3>3, <4>1, <5>1 DEF SessionsInv, OwnersKnown
      <4> QED BY <1>1, <3>3, <4>1, <4>2 DEF SessionsInv, StateOK
    <3>4. CASE maker[t] # e
      BY <1>1, <1>2, <3>1, <3>4 DEF SessionsInv, StateOK, OwnersKnown, Registering
    <3> QED BY <3>2, <3>3, <3>4
  <2> QED BY <1>1, <1>2, <2>1, <2>2 DEF OwnersKnown
<1>7. OpenRowsAreOpen' /\ EventsArePrivate'
  BY <1>1, <1>2 DEF SessionsInv, OpenRowsAreOpen, EventsArePrivate
<1> QED BY <1>4, <1>5, <1>6, <1>7 DEF SessionsInv

LEMMA RecordKeeps ==
  ASSUME SessionsInv, NEW e \in Executions, RecordOnSession(e)
  PROVE  SessionsInv'
<1> DEFINE s == resolving[e].session
           v == [by |-> e, on |-> s, late |-> s \in ended]
<1>1. /\ resolving[e].at = "record" /\ events' = events \union {v}
      /\ resolving' = [resolving EXCEPT ![e] = [at |-> "rest", session |-> NoTask]]
      /\ UNCHANGED <<inContext, managed, owned, created, maker, ended, sessionRow>>
  BY DEF RecordOnSession, MoveTo, manager
<1>2. Sessions' = Sessions
  BY <1>1 DEF Sessions
<1>3. v.by = e /\ v.on = s /\ (s = Explicit \/ (s \in Sessions /\ maker[s] = e))
  BY <1>1 DEF SessionsInv, BetweenSessions
<1> HIDE DEF v
<1>4. EventsArePrivate'
  BY <1>1, <1>2, <1>3 DEF SessionsInv, EventsArePrivate
<1>5. \A d \in Executions : \A t : Registering(d, t)' <=> Registering(d, t)
  BY <1>1 DEF SessionsInv, StateOK, Registering
<1>6. StateOK'
  BY <1>1, <1>2 DEF SessionsInv, StateOK
<1>7. BetweenSessions'
  BY <1>1, <1>2 DEF SessionsInv, StateOK, BetweenSessions
<1>8. OwnersKnown' /\ OpenRowsAreOpen'
  BY <1>1, <1>2, <1>5 DEF SessionsInv, StateOK, OwnersKnown, OpenRowsAreOpen
<1> QED BY <1>4, <1>6, <1>7, <1>8 DEF SessionsInv

LEMMA FinalizeKeeps == SessionsInv /\ FinalizeIdleSessions => SessionsInv'
<1> SUFFICES ASSUME SessionsInv,
                    NEW idle \in SUBSET {e \in Executions : managed[e] # NoTask},
                    NEW refused \in SUBSET Executions,
                    ended' = ended \union {managed[e] : e \in idle \ refused},
                    sessionRow' = [s \in SessionIds |->
                      IF s \in {managed[e] : e \in idle \ refused} /\ sessionRow[s] = "open"
                      THEN "ended" ELSE sessionRow[s]],
                    ForgetFinalized(idle, refused),
                    UNCHANGED <<inContext, created, maker, resolving, events>>
             PROVE  SessionsInv'
  BY DEF FinalizeIdleSessions
<1> DEFINE over == {managed[e] : e \in idle \ refused}
<1>1. /\ ended' = ended \union over /\ owned' = owned \ over
      /\ managed' = [e \in Executions |-> IF managed[e] \in over THEN NoTask ELSE managed[e]]
      /\ sessionRow' = [s \in SessionIds |-> IF s \in over /\ sessionRow[s] = "open" THEN "ended"
                                             ELSE sessionRow[s]]
      /\ over \subseteq Sessions
  <2>1. over \ {NoTask} = over /\ over \subseteq Sessions
    BY DEF SessionsInv, StateOK
  <2> QED BY <2>1 DEF ForgetFinalized, Forget
<1>2. \A s \in over : s \in owned
  BY DEF SessionsInv, StateOK, OwnersKnown
<1> HIDE DEF over
<1>3. Sessions' = Sessions
  BY DEF Sessions
<1>4. StateOK'
  BY <1>1, <1>3 DEF SessionsInv, StateOK
<1>5. BetweenSessions'
  BY <1>1, <1>2, <1>3 DEF SessionsInv, StateOK, BetweenSessions
<1>6. OwnersKnown'
  <2>1. \A e \in Executions : managed'[e] # NoTask => maker[managed'[e]] = e
    BY <1>1 DEF SessionsInv, OwnersKnown
  <2>2. ASSUME NEW s \in Sessions
        PROVE  /\ s \in owned' <=> managed'[maker[s]] = s
               /\ s \in owned' \/ s \in ended' \/ Registering(maker[s], s)
    <3>1. maker[s] \in Executions
      BY DEF SessionsInv, StateOK
    <3> QED BY <1>1, <3>1, SessionNumbers DEF SessionsInv, OwnersKnown
  <2> QED BY <1>3, <2>1, <2>2 DEF OwnersKnown, Registering
<1>7. OpenRowsAreOpen'
  BY <1>1, <1>3 DEF SessionsInv, OpenRowsAreOpen
<1>8. EventsArePrivate'
  BY <1>3 DEF SessionsInv, EventsArePrivate
<1> QED BY <1>4, <1>5, <1>6, <1>7, <1>8 DEF SessionsInv

LEMMA SessionsStep == SessionsInv /\ [SessionsNext]_sessionVars => SessionsInv'
<1> SUFFICES ASSUME SessionsInv, [SessionsNext]_sessionVars PROVE SessionsInv'
  OBVIOUS
<1>1. CASE UNCHANGED sessionVars \/ ExplicitEnds
  <2>1. UNCHANGED <<inContext, managed, owned, created, maker, ended, sessionRow, resolving, events>>
    BY <1>1 DEF sessionVars, ExplicitEnds, manager
  <2>2. StateOK' /\ BetweenSessions'
    BY <2>1 DEF SessionsInv, StateOK, BetweenSessions, Sessions
  <2>3. OwnersKnown' /\ OpenRowsAreOpen' /\ EventsArePrivate'
    BY <2>1 DEF SessionsInv, OwnersKnown, OpenRowsAreOpen, EventsArePrivate, Sessions, Registering
  <2> QED BY <2>2, <2>3 DEF SessionsInv
<1> QED BY <1>1, InheritKeeps, FinalizeKeeps, LookInContextKeeps, LookInManagerKeeps,
           InsertSessionKeeps, RegisterSessionKeeps, RecordKeeps DEF SessionsNext

LEMMA SessionsInvariant == SessionsSpec => []SessionsInv
BY SessionsInitInv, SessionsStep, PTL DEF SessionsSpec
-----------------------------------------------------------------------------
\* Every variable holds a value of its kind, and a session is managed for its maker.
THEOREM SessionsTypeCorrect == SessionsSpec => []SessionsTypeOK
<1>1. SessionsInv => SessionsTypeOK
  BY SessionNumbers DEF SessionsInv, StateOK, OwnersKnown, SessionsTypeOK, Sessions
<1> QED BY <1>1, SessionsInvariant, PTL

\* What an execution calls outside any task lands on a session made for it, though it
\* was started with the context of another one (get_or_create_session).
THEOREM PrivateSessions == SessionsSpec => []SessionsArePrivate
<1>1. SessionsInv => SessionsArePrivate
  BY DEF SessionsInv, EventsArePrivate, SessionsArePrivate
<1> QED BY <1>1, SessionsInvariant, PTL

\* A session that was stored and not ended is still managed, so that it can be ended
\* (finalize_idle_sessions, get_or_create_session).
THEOREM EverySessionCanEnd == SessionsSpec => []NoSessionIsForgotten
<1>1. SessionsInv => NoSessionIsForgotten
  <2> SUFFICES ASSUME SessionsInv, NEW s \in Sessions, sessionRow[s] = "open"
               PROVE  managed[maker[s]] = s \/ Registering(maker[s], s)
    BY DEF NoSessionIsForgotten, Sessions, Registering
  <2>1. s \in SessionIds
    BY SessionNumbers
  <2> QED BY <2>1 DEF SessionsInv, OwnersKnown, OpenRowsAreOpen
<1> QED BY <1>1, SessionsInvariant, PTL

\* A session is its execution's own and can be ended (get_or_create_session,
\* finalize_idle_sessions).
THEOREM SessionsStayKept == SessionsSpec => []SessionsAreKept
BY PrivateSessions, EverySessionCanEnd, PTL DEF SessionsAreKept

\* A call never settles on a session that has ended already (get_or_create_session).
THEOREM CallsSettleOnOpenSessions == SessionsSpec => SettlesOnAnOpenSession
<1> DEFINE Settles == \A e \in Executions :
             resolving[e].at # "record" /\ resolving'[e].at = "record"
               => resolving'[e].session \notin ended'
<1>1. SessionsInv /\ [SessionsNext]_sessionVars => [Settles]_sessionVars
  <2> SUFFICES ASSUME SessionsInv, SessionsNext, NEW e \in Executions,
                      resolving[e].at # "record", resolving'[e].at = "record"
               PROVE  resolving'[e].session \notin ended'
    BY DEF SessionsNext
  <2>0. Explicit \notin ended /\ NoTask \notin ended
    BY SessionNumbers DEF SessionsInv, StateOK
  <2>1. ASSUME NEW f \in Executions, LookInContext(f) PROVE resolving'[e].session \notin ended'
    <3>1. ended' = ended /\ \A d \in Executions \ {f} : resolving'[d] = resolving[d]
      BY <2>1 DEF LookInContext, MoveTo, SessionsInv, StateOK
    <3>2. e = f
      BY <3>1
    <3>3. /\ inContext[e] # NoTask
          /\ IF inContext[e] = managed[e] THEN inContext[e] \notin ended
             ELSE IsExplicit(inContext[e])
          /\ resolving'[e] = [at |-> "record", session |-> inContext[e]]
      BY <2>1, <3>2 DEF LookInContext, MoveTo, SessionsInv, StateOK
    <3> QED BY <2>0, <3>1, <3>3, ContextIsOwn
  <2>2. ASSUME NEW f \in Executions, LookInManager(f) PROVE resolving'[e].session \notin ended'
    <3>1. ended' = ended /\ \A d \in Executions \ {f} : resolving'[d] = resolving[d]
      BY <2>2 DEF LookInManager, MoveTo, SessionsInv, StateOK
    <3>2. e = f
      BY <3>1
    <3>3. managed[e] \notin ended /\ resolving'[e] = [at |-> "record", session |-> managed[e]]
      BY <2>2, <3>2 DEF LookInManager, MoveTo, SessionsInv, StateOK
    <3> QED BY <3>1, <3>3
  <2>3. ASSUME NEW f \in Executions, RegisterSession(f) PROVE resolving'[e].session \notin ended'
    <3>1. ended' = ended /\ \A d \in Executions \ {f} : resolving'[d] = resolving[d]
      BY <2>3 DEF RegisterSession, MoveTo, SessionsInv, StateOK
    <3>2. e = f
      BY <3>1
    <3>3. /\ resolving[e].at = "register"
          /\ resolving'[e] = [at |-> "record", session |-> resolving[e].session]
      BY <2>3, <3>2 DEF RegisterSession, MoveTo, SessionsInv, StateOK
    <3> QED BY <3>1, <3>3 DEF SessionsInv, BetweenSessions
  <2>4. ASSUME NEW f \in Executions, InsertSession(f) \/ RecordOnSession(f)
        PROVE  FALSE
    <3>1. \E at \in {"register", "rest"} : \E s :
            resolving' = [resolving EXCEPT ![f] = [at |-> at, session |-> s]]
      BY <2>4 DEF InsertSession, RecordOnSession, MoveTo
    <3>2. PICK at \in {"register", "rest"} : \E s :
            resolving' = [resolving EXCEPT ![f] = [at |-> at, session |-> s]]
      BY <3>1
    <3>3. resolving'[e].at = resolving[e].at \/ resolving'[e].at = at
      BY <3>2 DEF SessionsInv, StateOK
    <3> QED BY <3>2, <3>3
  <2>5. CASE InheritContext \/ ExplicitEnds \/ FinalizeIdleSessions
    BY <2>5 DEF InheritContext, ExplicitEnds, FinalizeIdleSessions
  <2> QED BY <2>1, <2>2, <2>3, <2>4, <2>5 DEF SessionsNext
<1> QED BY <1>1, SessionsInvariant, PTL DEF SessionsSpec, SettlesOnAnOpenSession
-----------------------------------------------------------------------------
(***************************************************************************)
(* ToolCalls: any sets of calls and contexts, whatever they nest in and    *)
(* however their steps move between contexts.                              *)
(***************************************************************************)
ToolTasks == ToolCallIds \union {"none", "owner"}
ToolEnds == {"none", "succeeded", "failed", "cancelled"}
ToolState ==
  [at : {"new", "untracked", "running", "suspended", "done"}, entry : Entries \union {"none"},
   shape : Shapes, in : Contexts \union {"none"}, order : Nat, found : ToolTasks,
   task : ToolTasks, token : [in : Contexts \union {"none"}, old : ToolTasks], ended : ToolEnds]
ToolEvent == [of : ToolCallIds \union WorkIds, task : ToolTasks, status : ToolEnds,
              by : ToolCallIds \union {"none"}, last : BOOLEAN]
ToolRow == [at : {"absent", "open", "ended"}, counted : SUBSET (ToolCallIds \union WorkIds)]

ToolsStateOK ==
  /\ currentTask \in [Contexts -> ToolTasks]
  /\ frames \in [Contexts -> Seq(ToolCallIds)]
  /\ toolCall \in [ToolCallIds -> ToolState]
  /\ toolEvents \subseteq ToolEvent /\ IsFiniteSet(toolEvents)
  /\ toolRows \in [ToolCallIds -> ToolRow]
  /\ toolFaults \in Nat

Tracked(c) == toolCall[c].at \in {"running", "suspended", "done"}
Open(c) == toolCall[c].at \in {"running", "suspended"}

\* A body that runs is the body of a call that is running, and runs once.
FramesOK ==
  /\ \A x \in Contexts : \A i \in DOMAIN frames[x] : toolCall[frames[x][i]].at = "running"
  /\ \A x, y \in Contexts : \A i \in DOMAIN frames[x] : \A j \in DOMAIN frames[y] :
       frames[x][i] = frames[y][j] => x = y /\ i = j

\* What begin has kept of a call.
KeptOK(c) ==
  LET k == toolCall[c] IN
  /\ k.order <= Cardinality(Began)
  /\ k.in \in Contexts => Tracked(c)
  /\ ~Tracked(c) => k.entry = "none"
  /\ k.entry = "function" => k.shape = "call" /\ k.at # "suspended"
  /\ Tracked(c) =>
       /\ k.in \in Contexts /\ k.entry \in Entries
       /\ k.entry = "function" => k.task = c
       /\ k.entry = "task" => k.task = "owner"
       /\ k.entry = "tracker" => k.task = (IF k.found = "none" THEN c ELSE k.found)
       /\ \/ k.token = [in |-> k.in, old |-> k.found]
          \/ k.token = NoToken /\ k.task = k.found

\* What is stored of a call, by what it is and where it stands.
ToolStored(c) ==
  LET k == toolCall[c] IN
  /\ k.at # "done" \/ k.entry = "function" => \A e \in toolEvents : e.of # c
  /\ Over(c) => \A e \in toolEvents : e.of = c => e.task = k.task /\ e.status = k.ended
  /\ Over(c) /\ toolFaults = 0 => \E e \in toolEvents : e.of = c
  /\ k.at # "done" => toolRows[c].at # "ended"
  /\ k.at # "done" /\ k.entry # "function" => toolRows[c].at = "absent"
  /\ Over(c) /\ toolRows[c].at # "absent" =>
       toolRows[c].counted = {c} /\ \E e \in toolEvents : e.of = c

\* The open calls of a context that nobody has left out of order are a stack: each has
\* found the task of the one below, the lowest what the first call of all has found.
Here(x, c) == toolCall[c].in = x
Highest(x, c) == Open(c) /\ Here(x, c) /\
  \A d \in ToolCallIds : Open(d) /\ Here(x, d) => toolCall[d].order <= toolCall[c].order
First(x, c) == Here(x, c) /\
  \A d \in ToolCallIds : Here(x, d) => toolCall[c].order <= toolCall[d].order
Beneath(x, c, d) ==
  /\ Open(c) /\ Here(x, c) /\ toolCall[c].order < toolCall[d].order
  /\ \A e \in ToolCallIds : Open(e) /\ Here(x, e) /\ toolCall[e].order < toolCall[d].order
                              => toolCall[e].order <= toolCall[c].order
Lowest(x, d) ==
  \A c \in ToolCallIds : Open(c) /\ Here(x, c) => toolCall[d].order <= toolCall[c].order

ContextOK(x) ==
  /\ \A c, d \in ToolCallIds : Here(x, c) /\ Here(x, d) /\ toolCall[c].order = toolCall[d].order
                                 => c = d
  /\ (\E c \in ToolCallIds : Here(x, c)) => \E c \in ToolCallIds : First(x, c)
  /\ x \notin disorderly =>
       /\ \A c \in ToolCallIds : Highest(x, c) => currentTask[x] = toolCall[c].task
       /\ (\A c \in ToolCallIds : Here(x, c) => ~Open(c)) =>
            \A c \in ToolCallIds : First(x, c) => currentTask[x] = toolCall[c].found
       /\ \A d \in ToolCallIds : Open(d) /\ Here(x, d) =>
            /\ \A c \in ToolCallIds : Beneath(x, c, d) => toolCall[d].found = toolCall[c].task
            /\ Lowest(x, d) => \A c \in ToolCallIds : First(x, c) =>
                                   toolCall[c].found = toolCall[d].found

\* Work that a call did as the last of its context.
WorkOfCalls ==
  \A e \in toolEvents : e.of \notin ToolCallIds /\ e.last =>
    /\ e.by \in ToolCallIds /\ Tracked(e.by)
    /\ e.task = toolCall[e.by].task
    /\ toolRows[e.by].at = "ended" /\ toolCall[e.by].entry = "function" =>
         e.of \in toolRows[e.by].counted

ToolsInv ==
  /\ ToolsStateOK /\ FramesOK /\ WorkOfCalls
  /\ \A c \in ToolCallIds : KeptOK(c) /\ ToolStored(c)
  /\ \A x \in Contexts : ContextOK(x)

-----------------------------------------------------------------------------
LEMMA ToolNames ==
  /\ ToolCallIds \intersect WorkIds = {} /\ "none" \notin ToolCallIds /\ "owner" \notin ToolCallIds
  /\ "none" \notin Contexts
BY ToolAssumption DEF WorkIds

\* What a call keeps while it moves.
SameCall(c) ==
  /\ toolCall'[c].entry = toolCall[c].entry /\ toolCall'[c].shape = toolCall[c].shape
  /\ toolCall'[c].in = toolCall[c].in
  /\ toolCall'[c].order = toolCall[c].order /\ toolCall'[c].found = toolCall[c].found
  /\ toolCall'[c].task = toolCall[c].task /\ toolCall'[c].token = toolCall[c].token

LEMMA CallMoves ==
  ASSUME ToolsStateOK, NEW c \in ToolCallIds, NEW at \in {"untracked", "running", "suspended"},
         toolCall' = [toolCall EXCEPT ![c].at = at]
  PROVE  /\ toolCall' \in [ToolCallIds -> ToolState] /\ SameCall(c) /\ toolCall'[c].at = at
         /\ \A d \in ToolCallIds \ {c} : toolCall'[d] = toolCall[d]
<1>1. toolCall \in [ToolCallIds -> ToolState]
  BY DEF ToolsStateOK
<1>2. toolCall' \in [ToolCallIds -> ToolState]
  BY <1>1 DEF ToolState
<1>3. SameCall(c) /\ toolCall'[c].at = at
  BY <1>1 DEF ToolState, SameCall
<1> QED BY <1>1, <1>2, <1>3

LEMMA CallEnds ==
  ASSUME ToolsStateOK, NEW c \in ToolCallIds, NEW how \in ToolEnds,
         toolCall' = [toolCall EXCEPT ![c].at = "done", ![c].ended = how]
  PROVE  /\ toolCall' \in [ToolCallIds -> ToolState] /\ SameCall(c)
         /\ toolCall'[c].at = "done" /\ toolCall'[c].ended = how
         /\ \A d \in ToolCallIds \ {c} : toolCall'[d] = toolCall[d]
<1>1. toolCall \in [ToolCallIds -> ToolState]
  BY DEF ToolsStateOK
<1> DEFINE k == [toolCall[c] EXCEPT !.at = "done", !.ended = how]
<1>2. k \in ToolState
  <2>1. toolCall[c] \in ToolState
    BY <1>1
  <2> QED BY <2>1 DEF ToolState
<1>3. /\ toolCall' \in [ToolCallIds -> ToolState] /\ toolCall'[c] = k
      /\ \A d \in ToolCallIds \ {c} : toolCall'[d] = toolCall[d]
  <2>1. toolCall' = [toolCall EXCEPT ![c] = k]
    OBVIOUS
  <2> HIDE DEF k
  <2> QED BY <1>1, <1>2, <2>1
<1>4. SameCall(c) /\ toolCall'[c].at = "done" /\ toolCall'[c].ended = how
  <2>1. toolCall[c] \in ToolState
    BY <1>1
  <2>2. /\ k.at = "done" /\ k.ended = how /\ k.entry = toolCall[c].entry
        /\ k.shape = toolCall[c].shape
        /\ k.in = toolCall[c].in /\ k.order = toolCall[c].order
        /\ k.found = toolCall[c].found /\ k.task = toolCall[c].task
        /\ k.token = toolCall[c].token
    BY <2>1 DEF ToolState
  <2> HIDE DEF k
  <2> QED BY <1>3, <2>2 DEF SameCall
<1> QED BY <1>3, <1>4

LEMMA BeganIsFinite == IsFiniteSet(Began) /\ Cardinality(Began) \in Nat
BY ToolAssumption, FS_Subset, FS_CardinalityType DEF Began

LEMMA BeganGrows ==
  ASSUME \A c \in ToolCallIds : toolCall'[c].at = "new" => toolCall[c].at = "new"
  PROVE  Cardinality(Began) <= Cardinality(Began') /\ Cardinality(Began') \in Nat
<1>1. IsFiniteSet(Began') /\ Began \subseteq Began'
  BY ToolAssumption, FS_Subset DEF Began
<1> QED BY <1>1, FS_Subset, FS_CardinalityType

-----------------------------------------------------------------------------
(* The bodies that run. *)
LEMMA FramesUntouched ==
  ASSUME FramesOK, ToolsStateOK, NEW c \in ToolCallIds, toolCall[c].at # "running",
         UNCHANGED frames, \A d \in ToolCallIds \ {c} : toolCall'[d].at = toolCall[d].at
  PROVE  FramesOK'
<1>1. ASSUME NEW x \in Contexts, NEW i \in DOMAIN frames[x]
      PROVE  frames[x][i] \in ToolCallIds \ {c}
  BY DEF FramesOK, ToolsStateOK
<1> QED BY <1>1 DEF FramesOK

LEMMA FramesPushed ==
  ASSUME FramesOK, ToolsStateOK, NEW c \in ToolCallIds, NEW x \in Contexts,
         toolCall[c].at # "running", toolCall'[c].at = "running",
         \A d \in ToolCallIds \ {c} : toolCall'[d].at = toolCall[d].at,
         frames' = [frames EXCEPT ![x] = Append(@, c)]
  PROVE  FramesOK' /\ frames' \in [Contexts -> Seq(ToolCallIds)]
<1> DEFINE n == Len(frames[x]) + 1
<1>1. frames' \in [Contexts -> Seq(ToolCallIds)]
  BY DEF ToolsStateOK
<1>2. ASSUME NEW y \in Contexts, NEW i \in DOMAIN frames'[y]
      PROVE  (y = x /\ i = n /\ frames'[y][i] = c)
             \/ (i \in DOMAIN frames[y] /\ frames'[y][i] = frames[y][i]
                   /\ frames[y][i] \in ToolCallIds \ {c})
  <2>1. frames[x] \in Seq(ToolCallIds) /\ frames[y] \in Seq(ToolCallIds)
    BY DEF ToolsStateOK
  <2>2. CASE y = x
    <3>1. frames'[y] = Append(frames[x], c)
      BY <2>2 DEF ToolsStateOK
    <3>2. CASE i = n
      BY <2>1, <2>2, <3>1, <3>2
    <3>3. CASE i # n
      BY <1>2, <2>1, <2>2, <3>1, <3>3 DEF FramesOK
    <3> QED BY <3>2, <3>3
  <2>3. CASE y # x
    <3>1. frames'[y] = frames[y]
      BY <2>3 DEF ToolsStateOK
    <3> QED BY <1>2, <2>1, <3>1 DEF FramesOK
  <2> QED BY <2>2, <2>3
<1>3. \A y \in Contexts : \A i \in DOMAIN frames'[y] : toolCall'[frames'[y][i]].at = "running"
  BY <1>2 DEF FramesOK
<1>4. \A y, z \in Contexts : \A i \in DOMAIN frames'[y] : \A j \in DOMAIN frames'[z] :
        frames'[y][i] = frames'[z][j] => y = z /\ i = j
  <2> HIDE DEF n
  <2> QED BY <1>2 DEF FramesOK
<1> QED BY <1>1, <1>3, <1>4 DEF FramesOK

LEMMA InnermostRuns ==
  ASSUME FramesOK, ToolsStateOK, NEW x \in Contexts, Innermost(x) # "none"
  PROVE  /\ Innermost(x) \in ToolCallIds /\ toolCall[Innermost(x)].at = "running"
         /\ Len(frames[x]) \in DOMAIN frames[x] /\ Innermost(x) = frames[x][Len(frames[x])]
<1>1. frames[x] \in Seq(ToolCallIds) /\ frames[x] # <<>>
  BY DEF ToolsStateOK, Innermost
<1>2. Len(frames[x]) \in DOMAIN frames[x] /\ Innermost(x) = frames[x][Len(frames[x])]
  BY <1>1 DEF Innermost
<1> QED BY <1>1, <1>2 DEF FramesOK

LEMMA FramesPopped ==
  ASSUME FramesOK, ToolsStateOK, NEW c \in ToolCallIds, NEW x \in Contexts, Innermost(x) = c,
         \A d \in ToolCallIds \ {c} : toolCall'[d].at = toolCall[d].at, Popped(x)
  PROVE  FramesOK' /\ frames' \in [Contexts -> Seq(ToolCallIds)]
<1>1. /\ frames[x] \in Seq(ToolCallIds) /\ Len(frames[x]) \in DOMAIN frames[x]
      /\ c = frames[x][Len(frames[x])]
  BY ToolNames, InnermostRuns DEF ToolsStateOK
<1>2. frames'[x] = SubSeq(frames[x], 1, Len(frames[x]) - 1)
  BY DEF Popped, ToolsStateOK
<1>3. frames' \in [Contexts -> Seq(ToolCallIds)]
  BY <1>1 DEF Popped, ToolsStateOK
<1>4. ASSUME NEW y \in Contexts, NEW i \in DOMAIN frames'[y]
      PROVE  /\ i \in DOMAIN frames[y] /\ frames'[y][i] = frames[y][i]
             /\ frames[y][i] \in ToolCallIds \ {c}
  <2>1. i \in DOMAIN frames[y] /\ frames'[y][i] = frames[y][i] /\ (y = x => i # Len(frames[x]))
    <3>1. CASE y = x
      BY <1>1, <1>2, <1>4, <3>1
    <3>2. CASE y # x
      BY <1>4, <3>2 DEF Popped, ToolsStateOK
    <3> QED BY <3>1, <3>2
  <2>2. frames[y][i] \in ToolCallIds
    BY <2>1 DEF ToolsStateOK
  <2> QED BY <1>1, <2>1, <2>2 DEF FramesOK
<1>5. \A y \in Contexts : \A i \in DOMAIN frames'[y] : toolCall'[frames'[y][i]].at = "running"
  BY <1>4 DEF FramesOK
<1>6. \A y, z \in Contexts : \A i \in DOMAIN frames'[y] : \A j \in DOMAIN frames'[z] :
        frames'[y][i] = frames'[z][j] => y = z /\ i = j
  BY <1>4 DEF FramesOK
<1> QED BY <1>3, <1>5, <1>6 DEF FramesOK

-----------------------------------------------------------------------------
(* What is kept and what is stored of a call that others leave alone. *)
LEMMA KeptStays ==
  ASSUME NEW c \in ToolCallIds, KeptOK(c), ToolsStateOK, SameCall(c), Tracked(c)' <=> Tracked(c),
         toolCall'[c].at = "suspended" =>
           toolCall[c].at = "suspended" \/ toolCall[c].shape = "generator",
         Cardinality(Began) <= Cardinality(Began'), Cardinality(Began') \in Nat
  PROVE  KeptOK(c)'
<1>1. toolCall[c].order \in Nat /\ Cardinality(Began) \in Nat
  BY BeganIsFinite DEF ToolsStateOK, ToolState
<1>2. toolCall'[c].order <= Cardinality(Began')
  BY <1>1 DEF KeptOK, SameCall
<1> QED BY <1>2 DEF KeptOK, SameCall

LEMMA StoredStays ==
  ASSUME NEW c \in ToolCallIds, ToolStored(c), ToolsStateOK, SameCall(c),
         (toolCall'[c].at = "done") <=> (toolCall[c].at = "done"),
         toolCall'[c].at = "done" => toolCall'[c].ended = toolCall[c].ended,
         toolRows'[c] = toolRows[c], toolFaults' = 0 => toolFaults = 0,
         toolEvents \subseteq toolEvents',
         \A e \in toolEvents' : e.of = c => e \in toolEvents
  PROVE  ToolStored(c)'
BY DEF ToolStored, Over, SameCall

-----------------------------------------------------------------------------
(* The stack of a context. *)
LEMMA ContextStays ==
  ASSUME NEW x \in Contexts, ContextOK(x), currentTask'[x] = currentTask[x],
         x \in disorderly => x \in disorderly',
         \A c \in ToolCallIds :
           /\ Here(x, c)' <=> Here(x, c)
           /\ Here(x, c) => SameCall(c) /\ (Open(c)' <=> Open(c))
  PROVE  ContextOK(x)'
<1>1. \A c \in ToolCallIds : /\ First(x, c)' <=> First(x, c)
                             /\ Highest(x, c)' <=> Highest(x, c)
  BY DEF First, Highest, SameCall
<1>2. \A c, d \in ToolCallIds : Here(x, d) => (Beneath(x, c, d)' <=> Beneath(x, c, d))
  BY DEF Beneath, SameCall
<1>3. \A d \in ToolCallIds : Here(x, d) => (Lowest(x, d)' <=> Lowest(x, d))
  BY DEF Lowest, SameCall
<1> DEFINE Fresh1 == \A c, d \in ToolCallIds :
                      Here(x, c)' /\ Here(x, d)' /\ toolCall'[c].order = toolCall'[d].order => c = d
<1>4. Fresh1
  BY DEF ContextOK, SameCall
<1>5. (\E c \in ToolCallIds : Here(x, c)') => \E c \in ToolCallIds : First(x, c)'
  BY <1>1 DEF ContextOK
<1>6. ASSUME x \notin disorderly'
      PROVE  /\ \A c \in ToolCallIds : Highest(x, c)' => currentTask'[x] = toolCall'[c].task
             /\ (\A c \in ToolCallIds : Here(x, c)' => ~Open(c)') =>
                  \A c \in ToolCallIds : First(x, c)' => currentTask'[x] = toolCall'[c].found
  <2>1. \A c \in ToolCallIds : Highest(x, c) \/ First(x, c) => SameCall(c)
    BY DEF Highest, First
  <2> QED BY <1>1, <1>6, <2>1 DEF ContextOK, SameCall
<1>7. ASSUME x \notin disorderly', NEW d \in ToolCallIds, Open(d)', Here(x, d)'
      PROVE  /\ \A c \in ToolCallIds : Beneath(x, c, d)' => toolCall'[d].found = toolCall'[c].task
             /\ Lowest(x, d)' => \A c \in ToolCallIds : First(x, c)' =>
                                    toolCall'[c].found = toolCall'[d].found
  <2>1. \A c \in ToolCallIds : Beneath(x, c, d) \/ First(x, c) => SameCall(c)
    BY DEF Beneath, First
  <2>2. Open(d) /\ Here(x, d) /\ SameCall(d) /\ x \notin disorderly
    BY <1>7
  <2>3. /\ \A c \in ToolCallIds : Beneath(x, c, d) => toolCall[d].found = toolCall[c].task
        /\ Lowest(x, d) =>
             \A c \in ToolCallIds : First(x, c) => toolCall[c].found = toolCall[d].found
    BY <2>2 DEF ContextOK
  <2> QED BY <1>1, <1>2, <1>3, <2>1, <2>2, <2>3 DEF SameCall
<1> QED BY <1>4, <1>5, <1>6, <1>7 DEF ContextOK

\* Of a context that calls have left out of order only the order is known.
LEMMA ContextLeft ==
  ASSUME NEW x \in Contexts, ContextOK(x), x \in disorderly',
         \A c \in ToolCallIds : SameCall(c)
  PROVE  ContextOK(x)'
<1>1. \A c \in ToolCallIds : (First(x, c)' <=> First(x, c)) /\ (Here(x, c)' <=> Here(x, c))
  BY DEF First, Here, SameCall
<1> QED BY <1>1 DEF ContextOK, SameCall

LEMMA ContextPushed ==
  ASSUME NEW x \in Contexts, NEW c \in ToolCallIds, ContextOK(x), ToolsStateOK,
         ToolsStateOK', UNCHANGED disorderly,
         ~Here(x, c), Here(x, c)', Open(c)',
         \A d \in ToolCallIds \ {c} : toolCall'[d] = toolCall[d]
                                       /\ toolCall[d].order < toolCall'[c].order,
         toolCall'[c].found = currentTask[x], toolCall'[c].task = currentTask'[x]
  PROVE  ContextOK(x)'
<1> DEFINE Others == ToolCallIds \ {c}
<1>1. \A d \in Others : /\ toolCall'[d] = toolCall[d] /\ (Here(x, d)' <=> Here(x, d))
                        /\ (Open(d)' <=> Open(d))
                        /\ toolCall[d].order \in Nat /\ toolCall[d].order < toolCall'[c].order
  BY DEF Here, Open, ToolsStateOK, ToolState
<1>2. toolCall'[c].order \in Nat
  BY DEF ToolsStateOK, ToolState
<1>3. \A d \in ToolCallIds : Here(x, d) => d \in Others
  OBVIOUS
<1>4. \A d, e \in ToolCallIds :
        Here(x, d)' /\ Here(x, e)' /\ toolCall'[d].order = toolCall'[e].order => d = e
  BY <1>1, <1>2 DEF ContextOK
<1>5. \A d \in Others : First(x, d)' <=> First(x, d)
  BY <1>1, <1>2 DEF First
<1>6. \E d \in ToolCallIds : First(x, d)'
  <2>1. CASE \E d \in ToolCallIds : Here(x, d)
    <3>1. PICK d \in ToolCallIds : First(x, d)
      BY <2>1 DEF ContextOK
    <3> QED BY <1>3, <1>5, <3>1 DEF First
  <2>2. CASE ~\E d \in ToolCallIds : Here(x, d)
    BY <1>1, <1>2, <2>2 DEF First
  <2> QED BY <2>1, <2>2
<1>7. ASSUME x \notin disorderly
      PROVE  /\ \A d \in ToolCallIds : Highest(x, d)' => currentTask'[x] = toolCall'[d].task
             /\ ~ \A d \in ToolCallIds : Here(x, d)' => ~Open(d)'
  BY <1>1, <1>2 DEF Highest
<1>8. ASSUME x \notin disorderly, NEW d \in ToolCallIds, Open(d)', Here(x, d)'
      PROVE  /\ \A b \in ToolCallIds : Beneath(x, b, d)' => toolCall'[d].found = toolCall'[b].task
             /\ Lowest(x, d)' => \A f \in ToolCallIds : First(x, f)' =>
                                    toolCall'[f].found = toolCall'[d].found
  <2>1. CASE d # c
    <3>1. Open(d) /\ Here(x, d) /\ d \in Others
      BY <1>1, <1>8, <2>1
    <3>2. \A b \in ToolCallIds : Beneath(x, b, d)' => b \in Others /\ Beneath(x, b, d)
      BY <1>1, <1>2, <3>1 DEF Beneath
    <3>3. Lowest(x, d)' => Lowest(x, d)
      BY <1>1, <1>3, <3>1 DEF Lowest
    <3>4. \A f \in ToolCallIds : First(x, f)' => f \in Others /\ First(x, f)
      BY <1>1, <1>2, <1>5, <1>8, <3>1 DEF First
    <3>5. /\ \A b \in ToolCallIds : Beneath(x, b, d) => toolCall[d].found = toolCall[b].task
          /\ Lowest(x, d) => \A f \in ToolCallIds : First(x, f) =>
                                toolCall[f].found = toolCall[d].found
      BY <1>8, <3>1 DEF ContextOK
    <3> QED BY <1>1, <3>1, <3>2, <3>3, <3>4, <3>5
  <2>2. CASE d = c
    <3>1. ASSUME NEW b \in ToolCallIds, Beneath(x, b, c)'
          PROVE  toolCall'[c].found = toolCall'[b].task
      <4>1. b \in Others /\ Highest(x, b)
        BY <1>1, <1>2, <1>3, <3>1 DEF Beneath, Highest
      <4> QED BY <1>1, <1>8, <4>1 DEF ContextOK
    <3>2. ASSUME Lowest(x, c)', NEW f \in ToolCallIds, First(x, f)'
          PROVE  toolCall'[f].found = toolCall'[c].found
      <4>1. \A e \in ToolCallIds : Here(x, e) => ~Open(e)
        BY <1>1, <1>2, <1>3, <3>2 DEF Lowest
      <4>2. f # c => f \in Others /\ First(x, f)
        BY <1>5, <3>2
      <4> QED BY <1>1, <1>8, <4>1, <4>2 DEF ContextOK
    <3> QED BY <2>2, <3>1, <3>2
  <2> QED BY <2>1, <2>2
<1> QED BY <1>4, <1>6, <1>7, <1>8 DEF ContextOK

LEMMA ContextPopped ==
  ASSUME NEW x \in Contexts, NEW c \in ToolCallIds, ContextOK(x), ToolsStateOK,
         x \notin disorderly, Here(x, c), Open(c), ~Open(c)',
         \A d \in ToolCallIds : Open(d) /\ Here(x, d) => toolCall[d].order <= toolCall[c].order,
         SameCall(c), \A d \in ToolCallIds \ {c} : toolCall'[d] = toolCall[d],
         currentTask[x] = toolCall[c].task => currentTask'[x] = toolCall[c].found
  PROVE  ContextOK(x)'
<1>1. \A d \in ToolCallIds : /\ SameCall(d) /\ (Here(x, d)' <=> Here(x, d))
                             /\ (Open(d)' <=> Open(d) /\ d # c)
                             /\ toolCall[d].order \in Nat
  BY DEF SameCall, Here, Open, ToolsStateOK, ToolState
<1>2. currentTask'[x] = toolCall[c].found
  BY DEF ContextOK, Highest
<1>3. \A d \in ToolCallIds : First(x, d)' <=> First(x, d)
  BY <1>1 DEF First, SameCall
<1>4. /\ \A d, e \in ToolCallIds :
           Here(x, d)' /\ Here(x, e)' /\ toolCall'[d].order = toolCall'[e].order => d = e
      /\ (\E d \in ToolCallIds : Here(x, d)') => \E d \in ToolCallIds : First(x, d)'
  BY <1>1, <1>3 DEF ContextOK, SameCall
<1>5. ASSUME NEW b \in ToolCallIds, Highest(x, b)'
      PROVE  currentTask'[x] = toolCall'[b].task
  <2>1. b # c /\ Open(b) /\ Here(x, b) /\ toolCall[b].order <= toolCall[c].order
    BY <1>1, <1>5 DEF Highest
  <2>2. toolCall[b].order < toolCall[c].order
    BY <1>1, <2>1 DEF ContextOK
  <2>3. Beneath(x, b, c)
    BY <1>1, <1>5, <2>1, <2>2 DEF Highest, Beneath, SameCall
  <2> QED BY <1>1, <1>2, <2>3 DEF ContextOK, SameCall
<1>6. ASSUME \A d \in ToolCallIds : Here(x, d)' => ~Open(d)', NEW f \in ToolCallIds, First(x, f)'
      PROVE  currentTask'[x] = toolCall'[f].found
  <2>1. Lowest(x, c)
    BY <1>1, <1>6 DEF Lowest
  <2> QED BY <1>1, <1>2, <1>3, <1>6, <2>1 DEF ContextOK, SameCall
<1>7. ASSUME NEW d \in ToolCallIds, Open(d)', Here(x, d)'
      PROVE  /\ \A b \in ToolCallIds : Beneath(x, b, d)' => toolCall'[d].found = toolCall'[b].task
             /\ Lowest(x, d)' => \A f \in ToolCallIds : First(x, f)' =>
                                    toolCall'[f].found = toolCall'[d].found
  <2>1. Open(d) /\ Here(x, d) /\ d # c /\ toolCall[d].order <= toolCall[c].order
    BY <1>1, <1>7
  <2>2. \A b \in ToolCallIds : Beneath(x, b, d)' => Beneath(x, b, d)
    BY <1>1, <2>1 DEF Beneath, SameCall
  <2>3. Lowest(x, d)' => Lowest(x, d)
    BY <1>1, <2>1 DEF Lowest, SameCall
  <2>4. /\ \A b \in ToolCallIds : Beneath(x, b, d) => toolCall[d].found = toolCall[b].task
        /\ Lowest(x, d) =>
             \A f \in ToolCallIds : First(x, f) => toolCall[f].found = toolCall[d].found
    BY <2>1 DEF ContextOK
  <2> QED BY <1>1, <1>3, <2>2, <2>3, <2>4 DEF SameCall
<1> QED BY <1>4, <1>5, <1>6, <1>7 DEF ContextOK

-----------------------------------------------------------------------------
(* A call begins. *)
LEMMA StartsIs ==
  ASSUME ToolsInv, NEW c \in ToolCallIds, NEW x \in Contexts, NEW entry \in Entries,
         NEW shape \in Shapes, toolCall[c].at = "new", Starts(c, x, entry, shape)
  PROVE  LET k == toolCall'[c] IN
         /\ toolCall' \in [ToolCallIds -> ToolState]
         /\ \A d \in ToolCallIds \ {c} : toolCall'[d] = toolCall[d]
         /\ k.at = "running" /\ k.entry = entry /\ k.shape = shape /\ k.in = x
         /\ k.ended = "none"
         /\ k.order = Cardinality(Began) + 1 /\ k.found = currentTask[x]
         /\ k.task = TaskOf(c, x, entry)
         /\ \/ k.token = [in |-> x, old |-> currentTask[x]]
            \/ k.token = NoToken /\ k.task = k.found
         /\ currentTask' \in [Contexts -> ToolTasks] /\ currentTask'[x] = k.task
         /\ \A y \in Contexts \ {x} : currentTask'[y] = currentTask[y]
         /\ frames' = [frames EXCEPT ![x] = Append(@, c)]
<1> DEFINE token == IF Sets(c, x, entry) THEN [in |-> x, old |-> currentTask[x]] ELSE NoToken
           k == [at |-> "running", entry |-> entry, shape |-> shape, in |-> x,
                 order |-> Cardinality(Began) + 1, found |-> currentTask[x],
                 task |-> TaskOf(c, x, entry), token |-> token, ended |-> "none"]
<1>1. /\ toolCall \in [ToolCallIds -> ToolState] /\ currentTask \in [Contexts -> ToolTasks]
      /\ currentTask[x] \in ToolTasks
  BY DEF ToolsInv, ToolsStateOK
<1>2. TaskOf(c, x, entry) \in ToolTasks
  BY <1>1 DEF TaskOf, ToolTasks, Entries
<1>3. token \in [in : Contexts \union {"none"}, old : ToolTasks]
  BY <1>1 DEF NoToken, ToolTasks
<1>4. k \in ToolState
  <2> HIDE DEF token
  <2> QED BY <1>1, <1>2, <1>3, BeganIsFinite DEF ToolState, ToolEnds
<1>5. toolCall' = [toolCall EXCEPT ![c] = k] /\ frames' = [frames EXCEPT ![x] = Append(@, c)]
      /\ currentTask' = [currentTask EXCEPT ![x] = TaskOf(c, x, entry)]
  BY DEF Starts
<1>6. \/ token = [in |-> x, old |-> currentTask[x]]
      \/ token = NoToken /\ TaskOf(c, x, entry) = currentTask[x]
  BY DEF Sets
<1>7. /\ k.at = "running" /\ k.entry = entry /\ k.shape = shape /\ k.in = x
      /\ k.ended = "none"
      /\ k.order = Cardinality(Began) + 1 /\ k.found = currentTask[x]
      /\ k.task = TaskOf(c, x, entry) /\ k.token = token
  OBVIOUS
<1> HIDE DEF k, token
<1>8. toolCall'[c] = k /\ toolCall' \in [ToolCallIds -> ToolState]
      /\ \A d \in ToolCallIds \ {c} : toolCall'[d] = toolCall[d]
  BY <1>1, <1>4, <1>5
<1>9. /\ currentTask' \in [Contexts -> ToolTasks] /\ currentTask'[x] = TaskOf(c, x, entry)
      /\ \A y \in Contexts \ {x} : currentTask'[y] = currentTask[y]
  BY <1>1, <1>2, <1>5
<1> QED BY <1>5, <1>6, <1>7, <1>8, <1>9

LEMMA StartsKeeps ==
  ASSUME ToolsInv, NEW c \in ToolCallIds, NEW x \in Contexts, NEW entry \in Entries,
         NEW shape \in Shapes, toolCall[c].at = "new", Starts(c, x, entry, shape),
         entry = "function" => shape = "call",
         UNCHANGED <<toolEvents, disorderly, toolFaults>>,
         toolRows' \in [ToolCallIds -> ToolRow],
         \A d \in ToolCallIds \ {c} : toolRows'[d] = toolRows[d],
         \/ toolRows'[c] = toolRows[c]
         \/ entry = "function" /\ toolRows'[c].at = "open"
  PROVE  ToolsInv'
<1>1. /\ ToolsStateOK /\ FramesOK /\ WorkOfCalls
      /\ \A d \in ToolCallIds : KeptOK(d) /\ ToolStored(d)
      /\ \A y \in Contexts : ContextOK(y)
  BY DEF ToolsInv
<1>2. /\ toolCall' \in [ToolCallIds -> ToolState]
      /\ \A d \in ToolCallIds \ {c} : toolCall'[d] = toolCall[d]
      /\ toolCall'[c].at = "running" /\ toolCall'[c].entry = entry /\ toolCall'[c].in = x
      /\ toolCall'[c].shape = shape
      /\ toolCall'[c].ended = "none" /\ toolCall'[c].order = Cardinality(Began) + 1
      /\ toolCall'[c].found = currentTask[x] /\ toolCall'[c].task = TaskOf(c, x, entry)
      /\ \/ toolCall'[c].token = [in |-> x, old |-> currentTask[x]]
         \/ toolCall'[c].token = NoToken /\ toolCall'[c].task = toolCall'[c].found
      /\ currentTask' \in [Contexts -> ToolTasks] /\ currentTask'[x] = toolCall'[c].task
      /\ \A y \in Contexts \ {x} : currentTask'[y] = currentTask[y]
      /\ frames' = [frames EXCEPT ![x] = Append(@, c)]
  BY StartsIs
<1>3. FramesOK' /\ frames' \in [Contexts -> Seq(ToolCallIds)]
  BY <1>1, <1>2, FramesPushed
<1>4. ToolsStateOK'
  BY <1>1, <1>2, <1>3 DEF ToolsStateOK
<1>5. /\ Cardinality(Began') = Cardinality(Began) + 1 /\ Cardinality(Began) \in Nat
      /\ ~Tracked(c) /\ toolCall[c].in \notin Contexts
  <2>1. Began' = Began \union {c} /\ c \notin Began
    BY <1>2 DEF Began
  <2>2. ~Tracked(c) /\ toolCall[c].in \notin Contexts
    BY <1>1 DEF KeptOK, Tracked
  <2> QED BY <2>1, <2>2, BeganIsFinite, FS_AddElement
<1>6. \A d \in ToolCallIds : KeptOK(d)'
  <2>1. ASSUME NEW d \in ToolCallIds \ {c} PROVE KeptOK(d)'
    <3>1. SameCall(d) /\ (Tracked(d)' <=> Tracked(d)) /\ toolCall'[d].at = toolCall[d].at
      BY <1>2 DEF SameCall, Tracked
    <3>2. Cardinality(Began) <= Cardinality(Began') /\ Cardinality(Began') \in Nat
      BY <1>5
    <3> QED BY <1>1, <3>1, <3>2, KeptStays
  <2>2. KeptOK(c)'
    <3>1. /\ toolCall'[c].order <= Cardinality(Began') /\ Tracked(c)'
          /\ toolCall'[c].in \in Contexts /\ toolCall'[c].entry \in Entries
      BY <1>2, <1>5 DEF Tracked
    <3>2. /\ entry = "function" => TaskOf(c, x, entry) = c
          /\ entry = "task" => TaskOf(c, x, entry) = "owner"
          /\ entry = "tracker" => TaskOf(c, x, entry) =
                                    (IF currentTask[x] = "none" THEN c ELSE currentTask[x])
      BY DEF TaskOf
    <3> QED BY <1>2, <3>1, <3>2 DEF KeptOK
  <2> QED BY <2>1, <2>2
<1>7. \A d \in ToolCallIds : ToolStored(d)'
  <2>1. ASSUME NEW d \in ToolCallIds \ {c} PROVE ToolStored(d)'
    <3>1. SameCall(d) /\ toolCall'[d] = toolCall[d] /\ ToolStored(d)
      BY <1>1, <1>2 DEF SameCall
    <3> QED BY <1>1, <3>1, StoredStays
  <2>2. ToolStored(c)'
    <3>1. /\ \A e \in toolEvents : e.of # c
          /\ toolRows[c].at = "absent"
      BY <1>1, <1>5 DEF ToolStored, KeptOK
    <3> QED BY <1>2, <3>1 DEF ToolStored, Over
  <2> QED BY <2>1, <2>2
<1>8. WorkOfCalls'
  <2>1. \A d \in ToolCallIds : Tracked(d) => d # c
    BY <1>5
  <2> QED BY <1>1, <1>2, <2>1 DEF WorkOfCalls, Tracked
<1>9. ASSUME NEW y \in Contexts PROVE ContextOK(y)'
  <2>1. CASE y = x
    <3>1. ~Here(x, c) /\ Here(x, c)' /\ Open(c)'
      BY <1>2, <1>5 DEF Here, Open
    <3>2. \A d \in ToolCallIds \ {c} :
            toolCall'[d] = toolCall[d] /\ toolCall[d].order < toolCall'[c].order
      <4>1. \A d \in ToolCallIds : toolCall[d].order \in Nat
                                   /\ toolCall[d].order <= Cardinality(Began)
        BY <1>1 DEF KeptOK, ToolsStateOK, ToolState
      <4> QED BY <1>2, <1>5, <4>1
    <3>3. ContextOK(x)'
      BY <1>1, <1>2, <1>4, <3>1, <3>2, ContextPushed
    <3> QED BY <2>1, <3>3
  <2>2. CASE y # x
    <3>1. \A d \in ToolCallIds : /\ Here(y, d)' <=> Here(y, d)
                                 /\ Here(y, d) => SameCall(d) /\ (Open(d)' <=> Open(d))
      BY <1>2, <1>5, <2>2 DEF Here, Open, SameCall
    <3> QED BY <1>1, <1>2, <2>2, <3>1, ContextStays
  <2> QED BY <2>1, <2>2
<1> QED BY <1>3, <1>4, <1>6, <1>7, <1>8, <1>9 DEF ToolsInv

LEMMA BeginKeepsTools ==
  ASSUME ToolsInv, NEW c \in ToolCallIds, NEW x \in Contexts,
         (\E entry \in Entries, shape \in Shapes : BeginTool(c, x, entry, shape))
           \/ BeginFunction(c, x)
  PROVE  ToolsInv'
<1>1. ASSUME NEW entry \in Entries, NEW shape \in Shapes, BeginTool(c, x, entry, shape)
      PROVE  ToolsInv'
  <2>1. toolRows' \in [ToolCallIds -> ToolRow]
    BY <1>1 DEF BeginTool, ToolsInv, ToolsStateOK
  <2> QED BY <1>1, <2>1, StartsKeeps DEF BeginTool
<1>2. CASE BeginFunction(c, x)
  <2>1. /\ toolRows' \in [ToolCallIds -> ToolRow] /\ toolRows'[c].at = "open"
        /\ \A d \in ToolCallIds \ {c} : toolRows'[d] = toolRows[d]
    BY <1>2 DEF BeginFunction, ToolsInv, ToolsStateOK, ToolRow
  <2>2. "function" \in Entries /\ "call" \in Shapes
    BY DEF Entries, Shapes
  <2> QED BY <1>2, <2>1, <2>2, StartsKeeps DEF BeginFunction
<1> QED BY <1>1, <1>2

(* The steps that leave the context alone. *)
LEMMA MovesKeep ==
  ASSUME ToolsInv, NEW c \in ToolCallIds, NEW at \in {"untracked", "running", "suspended"},
         toolCall' = [toolCall EXCEPT ![c].at = at], at = "untracked" <=> ~Open(c),
         toolCall[c].at \in {"new", "running", "suspended"},
         at = "suspended" => toolCall[c].shape = "generator",
         FramesOK', frames' \in [Contexts -> Seq(ToolCallIds)],
         toolFaults' \in Nat, toolFaults' = 0 => toolFaults = 0,
         UNCHANGED <<currentTask, toolEvents, toolRows, disorderly>>
  PROVE  ToolsInv'
<1>1. /\ ToolsStateOK /\ WorkOfCalls
      /\ \A d \in ToolCallIds : KeptOK(d) /\ ToolStored(d)
      /\ \A y \in Contexts : ContextOK(y)
  BY DEF ToolsInv
<1>2. /\ toolCall' \in [ToolCallIds -> ToolState] /\ SameCall(c) /\ toolCall'[c].at = at
      /\ \A d \in ToolCallIds \ {c} : toolCall'[d] = toolCall[d]
  BY <1>1, CallMoves
<1>3. ToolsStateOK'
  BY <1>1, <1>2 DEF ToolsStateOK
<1>4. \A d \in ToolCallIds : /\ SameCall(d)
                             /\ Tracked(d)' <=> Tracked(d)
                             /\ Open(d)' <=> Open(d)
                             /\ (toolCall'[d].at = "done") <=> (toolCall[d].at = "done")
                             /\ toolCall'[d].at = "done" => toolCall'[d] = toolCall[d]
                             /\ toolCall'[d].at = "new" => toolCall[d].at = "new"
                             /\ toolCall'[d].at = "suspended" =>
                                  toolCall[d].at = "suspended" \/ toolCall[d].shape = "generator"
  BY <1>2 DEF SameCall, Tracked, Open
<1>5. \A d \in ToolCallIds : KeptOK(d)'
  BY <1>1, <1>4, BeganGrows, KeptStays
<1>6. \A d \in ToolCallIds : ToolStored(d)'
  BY <1>1, <1>4, StoredStays
<1>7. WorkOfCalls'
  BY <1>1, <1>4 DEF WorkOfCalls, SameCall
<1>8. \A y \in Contexts : ContextOK(y)'
  <2>1. \A y \in Contexts, d \in ToolCallIds : Here(y, d)' <=> Here(y, d)
    BY <1>4 DEF Here, SameCall
  <2> QED BY <1>1, <1>4, <2>1, ContextStays
<1> QED BY <1>3, <1>5, <1>6, <1>7, <1>8 DEF ToolsInv

LEMMA SuspendKeeps ==
  ASSUME ToolsInv, NEW c \in ToolCallIds, NEW x \in Contexts,
         BeginFails(c, x) \/ Suspend(c, x) \/ Resume(c, x)
  PROVE  ToolsInv'
<1>1. ToolsStateOK /\ FramesOK /\ toolFaults \in Nat /\ MaxToolFaults \in Nat
  BY ToolAssumption DEF ToolsInv, ToolsStateOK
<1>2. CASE BeginFails(c, x)
  <2>1. /\ toolCall[c].at = "new" /\ toolCall' = [toolCall EXCEPT ![c].at = "untracked"]
        /\ UNCHANGED <<currentTask, frames, toolEvents, toolRows, disorderly>>
        /\ toolFaults' = toolFaults + 1
    BY <1>2 DEF BeginFails
  <2>2. \A d \in ToolCallIds \ {c} : toolCall'[d] = toolCall[d]
    BY <1>1, <2>1, CallMoves
  <2>3. FramesOK' /\ frames' \in [Contexts -> Seq(ToolCallIds)]
    BY <1>1, <2>1, <2>2, FramesUntouched DEF ToolsStateOK
  <2>4. ~Open(c) /\ toolFaults' \in Nat /\ toolFaults' # 0
    BY <1>1, <2>1 DEF Open
  <2> QED BY <2>1, <2>3, <2>4, MovesKeep
<1>3. CASE Suspend(c, x)
  <2>1. /\ toolCall[c].at = "running" /\ toolCall' = [toolCall EXCEPT ![c].at = "suspended"]
        /\ UNCHANGED <<currentTask, toolEvents, toolRows, disorderly, toolFaults>>
        /\ Innermost(x) = c /\ Popped(x) /\ toolCall[c].shape = "generator"
    BY <1>3 DEF Suspend
  <2>2. \A d \in ToolCallIds \ {c} : toolCall'[d] = toolCall[d]
    BY <1>1, <2>1, CallMoves
  <2>3. FramesOK' /\ frames' \in [Contexts -> Seq(ToolCallIds)]
    BY <1>1, <2>1, <2>2, FramesPopped
  <2>4. Open(c) /\ toolFaults' \in Nat
    BY <1>1, <2>1 DEF Open
  <2> QED BY <2>1, <2>3, <2>4, MovesKeep
<1>4. CASE Resume(c, x)
  <2>1. /\ toolCall[c].at = "suspended" /\ toolCall' = [toolCall EXCEPT ![c].at = "running"]
        /\ UNCHANGED <<currentTask, toolEvents, toolRows, disorderly, toolFaults>>
        /\ frames' = [frames EXCEPT ![x] = Append(@, c)]
    BY <1>4 DEF Resume
  <2>2. toolCall'[c].at = "running" /\ \A d \in ToolCallIds \ {c} : toolCall'[d] = toolCall[d]
    BY <1>1, <2>1, CallMoves
  <2>3. FramesOK' /\ frames' \in [Contexts -> Seq(ToolCallIds)]
    BY <1>1, <2>1, <2>2, FramesPushed
  <2>4. Open(c) /\ toolFaults' \in Nat
    BY <1>1, <2>1 DEF Open
  <2> QED BY <2>1, <2>3, <2>4, MovesKeep
<1> QED BY <1>2, <1>3, <1>4

LEMMA WorkKeeps ==
  ASSUME ToolsInv, NEW x \in Contexts, Work(x)
  PROVE  ToolsInv'
<1>1. /\ ToolsStateOK /\ FramesOK /\ WorkOfCalls
      /\ \A d \in ToolCallIds : KeptOK(d) /\ ToolStored(d)
      /\ \A y \in Contexts : ContextOK(y)
      /\ UNCHANGED <<currentTask, frames, toolCall, toolRows, disorderly, toolFaults>>
  BY DEF ToolsInv, Work
<1> DEFINE by == Innermost(x)
           n == Cardinality(WorkEvents) + 1
           last == by # "none" /\ toolCall[by].in = x /\ x \notin disorderly /\ Later(by) = {}
           e == [of |-> n, task |-> currentTask[x], status |-> "succeeded", by |-> by,
                 last |-> last]
<1>2. n \in WorkIds /\ n \notin ToolCallIds
  <2>1. Cardinality(WorkEvents) \in Nat /\ Cardinality(WorkEvents) < MaxWork
    BY <1>1, FS_Subset, FS_CardinalityType DEF WorkEvents, ToolsStateOK, Work
  <2> QED BY <2>1, ToolAssumption, ToolNames DEF WorkIds
<1>3. by # "none" => by \in ToolCallIds /\ toolCall[by].at = "running"
  BY <1>1, InnermostRuns
<1>4. toolEvents' = toolEvents \union {e}
  BY DEF Work
<1>5. e \in ToolEvent
  <2>1. currentTask[x] \in ToolTasks /\ last \in BOOLEAN
    BY <1>1 DEF ToolsStateOK
  <2> HIDE DEF n, last, by
  <2> QED BY <1>2, <1>3, <2>1 DEF ToolEvent, ToolEnds
<1>6. e.of = n /\ e.task = currentTask[x] /\ e.by = by /\ e.last = last
  OBVIOUS
<1> HIDE DEF e, n
<1>7. ToolsStateOK'
  <2>1. toolEvents' \subseteq ToolEvent /\ IsFiniteSet(toolEvents')
    BY <1>1, <1>4, <1>5, FS_AddElement DEF ToolsStateOK
  <2>2. UNCHANGED <<currentTask, frames, toolCall, toolRows, toolFaults>>
    BY <1>1
  <2> QED BY <1>1, <2>1, <2>2 DEF ToolsStateOK
<1>8. FramesOK' /\ (\A d \in ToolCallIds : KeptOK(d)') /\ \A y \in Contexts : ContextOK(y)'
  <2>1. FramesOK'
    BY <1>1 DEF FramesOK
  <2>2. \A d \in ToolCallIds : KeptOK(d)'
    BY <1>1 DEF KeptOK, Began, Tracked
  <2>3. ASSUME NEW y \in Contexts PROVE ContextOK(y)'
    <3>1. \A c \in ToolCallIds :
            SameCall(c) /\ (Open(c)' <=> Open(c)) /\ (Here(y, c)' <=> Here(y, c))
      BY <1>1 DEF SameCall, Open, Here
    <3> QED BY <1>1, <3>1, ContextStays
  <2> QED BY <2>1, <2>2, <2>3
<1>9. \A d \in ToolCallIds : ToolStored(d)'
  <2>1. \A d \in ToolCallIds : /\ SameCall(d) /\ toolEvents \subseteq toolEvents'
                               /\ \A f \in toolEvents' : f.of = d => f \in toolEvents
    BY <1>1, <1>2, <1>4, <1>6 DEF SameCall
  <2> QED BY <1>1, <2>1, StoredStays
<1>10. WorkOfCalls'
  <2>1. ASSUME last
        PROVE  /\ by \in ToolCallIds /\ Tracked(by) /\ currentTask[x] = toolCall[by].task
               /\ toolRows[by].at # "ended"
    <3>1. by \in ToolCallIds /\ toolCall[by].at = "running" /\ Here(x, by) /\ x \notin disorderly
      BY <1>3, <2>1 DEF Here
    <3>2. Highest(x, by)
      <4>1. ASSUME NEW d \in ToolCallIds, Open(d), Here(x, d)
            PROVE  toolCall[d].order <= toolCall[by].order
        <5>1. ~(toolCall[d].order > toolCall[by].order)
          BY <2>1, <3>1, <4>1 DEF Later, Open, Here
        <5>2. toolCall[d].order \in Nat /\ toolCall[by].order \in Nat
          BY <1>1, <3>1 DEF ToolsStateOK, ToolState
        <5> QED BY <5>1, <5>2
      <4> QED BY <3>1, <4>1 DEF Highest, Open
    <3> QED BY <1>1, <3>1, <3>2 DEF ContextOK, Tracked, ToolStored
  <2> HIDE DEF last, by
  <2> QED BY <1>1, <1>4, <1>6, <2>1 DEF WorkOfCalls, Tracked
<1> QED BY <1>7, <1>8, <1>9, <1>10 DEF ToolsInv

-----------------------------------------------------------------------------
(* A call ends. *)
LEMMA EndsKeepsContexts ==
  ASSUME ToolsInv, NEW c \in ToolCallIds, NEW x \in Contexts,
         NEW how \in {"succeeded", "failed", "cancelled"}, Open(c), Ends(c, x, how)
  PROVE  /\ toolCall' \in [ToolCallIds -> ToolState] /\ SameCall(c)
         /\ toolCall'[c].at = "done" /\ toolCall'[c].ended = how
         /\ \A d \in ToolCallIds \ {c} : toolCall'[d] = toolCall[d]
         /\ currentTask' \in [Contexts -> ToolTasks]
         /\ \A d \in ToolCallIds : KeptOK(d)'
         /\ \A y \in Contexts : ContextOK(y)'
<1>1. /\ ToolsStateOK /\ \A d \in ToolCallIds : KeptOK(d)
      /\ \A y \in Contexts : ContextOK(y)
  BY DEF ToolsInv
<1>2. /\ toolCall' \in [ToolCallIds -> ToolState] /\ SameCall(c)
      /\ toolCall'[c].at = "done" /\ toolCall'[c].ended = how
      /\ \A d \in ToolCallIds \ {c} : toolCall'[d] = toolCall[d]
  BY <1>1, CallEnds DEF Ends, ToolEnds
<1>3. \A d \in ToolCallIds : /\ SameCall(d) /\ (Tracked(d)' <=> Tracked(d))
                             /\ toolCall'[d].at = "suspended" => toolCall[d].at = "suspended"
                             /\ toolCall'[d].at = "new" => toolCall[d].at = "new"
  BY <1>2 DEF SameCall, Tracked, Open
<1>4. \A d \in ToolCallIds : KeptOK(d)'
  BY <1>1, <1>3, BeganGrows, KeptStays
<1>5. /\ toolCall[c].in \in Contexts
      /\ \/ toolCall[c].token.in = toolCall[c].in /\ toolCall[c].token.old = toolCall[c].found
         \/ toolCall[c].token.in = "none" /\ toolCall[c].task = toolCall[c].found
  <2>1. Tracked(c)
    BY DEF Open, Tracked
  <2>2. /\ toolCall[c].in \in Contexts
        /\ \/ toolCall[c].token = [in |-> toolCall[c].in, old |-> toolCall[c].found]
           \/ toolCall[c].token = NoToken /\ toolCall[c].task = toolCall[c].found
    BY <1>1, <2>1 DEF KeptOK
  <2>3. NoToken.in = "none"
    BY DEF NoToken
  <2>4. CASE toolCall[c].token = [in |-> toolCall[c].in, old |-> toolCall[c].found]
    BY <2>2, <2>4
  <2>5. CASE toolCall[c].token = NoToken /\ toolCall[c].task = toolCall[c].found
    BY <2>2, <2>3, <2>5
  <2> QED BY <2>2, <2>4, <2>5
<1>6. /\ currentTask' \in [Contexts -> ToolTasks]
      /\ \A y \in Contexts : y # x \/ toolCall[c].in # x => currentTask'[y] = currentTask[y]
      /\ toolCall[c].in = x /\ currentTask[x] = toolCall[c].task
           => currentTask'[x] = toolCall[c].found
  <2>1. toolCall[c].token.old \in ToolTasks /\ currentTask \in [Contexts -> ToolTasks]
    BY <1>1 DEF ToolsStateOK, ToolState
  <2> QED BY <1>5, <2>1, ToolNames DEF Ends, ResetTask
<1>7. ASSUME NEW y \in Contexts PROVE ContextOK(y)'
  <2>1. disorderly' = IF toolCall[c].in # x \/ Later(c) # {}
                      THEN disorderly \union {x, toolCall[c].in} ELSE disorderly
    BY DEF Ends
  <2>2. CASE y \in disorderly'
    BY <1>1, <1>3, <2>2, ContextLeft
  <2>3. CASE y \notin disorderly' /\ toolCall[c].in = y
    <3>1. /\ y = x /\ Later(c) = {} /\ x \notin disorderly /\ Here(x, c) /\ ~Open(c)'
      BY <1>2, <2>1, <2>3 DEF Here, Open
    <3>2. ASSUME NEW d \in ToolCallIds, Open(d), Here(x, d)
          PROVE  toolCall[d].order <= toolCall[c].order
      <4>1. ~(toolCall[d].order > toolCall[c].order)
        BY <3>1, <3>2 DEF Later, Open, Here
      <4>2. toolCall[d].order \in Nat /\ toolCall[c].order \in Nat
        BY <1>1 DEF ToolsStateOK, ToolState
      <4> QED BY <4>1, <4>2
    <3>3. currentTask[x] = toolCall[c].task => currentTask'[x] = toolCall[c].found
      BY <1>6, <3>1 DEF Here
    <3>4. ContextOK(x)'
      BY <1>1, <1>2, <3>1, <3>2, <3>3, ContextPopped
    <3> QED BY <3>1, <3>4
  <2>4. CASE y \notin disorderly' /\ toolCall[c].in # y
    <3>1. currentTask'[y] = currentTask[y] /\ y \notin disorderly
      BY <1>6, <2>1, <2>4
    <3>2. \A d \in ToolCallIds : /\ Here(y, d)' <=> Here(y, d)
                                 /\ Here(y, d) => SameCall(d) /\ (Open(d)' <=> Open(d))
      BY <1>2, <1>3, <2>4 DEF Here, Open, SameCall
    <3> QED BY <1>1, <3>1, <3>2, ContextStays
  <2> QED BY <2>2, <2>3, <2>4
<1> QED BY <1>2, <1>4, <1>6, <1>7

\* What is stored of the others, and the work that counts, when a tool ends.
LEMMA ToolRecordKeeps ==
  ASSUME ToolsInv, NEW c \in ToolCallIds, NEW x \in Contexts,
         NEW how \in {"succeeded", "failed", "cancelled"}, Open(c),
         toolCall[c].entry # "function", Ends(c, x, how), FinishTool(c, x, how),
         FramesOK', frames' \in [Contexts -> Seq(ToolCallIds)]
  PROVE  ToolsInv'
<1>1. /\ ToolsStateOK /\ WorkOfCalls
      /\ \A d \in ToolCallIds : KeptOK(d) /\ ToolStored(d)
  BY DEF ToolsInv
<1>2. /\ toolCall' \in [ToolCallIds -> ToolState] /\ SameCall(c)
      /\ toolCall'[c].at = "done" /\ toolCall'[c].ended = how
      /\ \A d \in ToolCallIds \ {c} : toolCall'[d] = toolCall[d]
      /\ currentTask' \in [Contexts -> ToolTasks]
      /\ \A d \in ToolCallIds : KeptOK(d)'
      /\ \A y \in Contexts : ContextOK(y)'
  BY EndsKeepsContexts
<1> DEFINE event == [of |-> c, task |-> toolCall[c].task, status |-> how, by |-> c,
                     last |-> FALSE]
           closed == [at |-> "ended", counted |-> {c}]
           row == IF toolCall[c].task = c THEN closed ELSE toolRows[c]
<1>3. \/ /\ toolEvents' = toolEvents \union {event}
         /\ toolRows' = [toolRows EXCEPT ![c] = row] /\ toolFaults' = toolFaults
      \/ /\ toolFaults' = toolFaults + 1 /\ UNCHANGED <<toolEvents, toolRows>>
      \/ /\ toolFaults' = toolFaults + 1
         /\ toolEvents' = toolEvents \union {event} /\ UNCHANGED toolRows
  BY DEF FinishTool, Recorded
<1>4. event \in ToolEvent /\ closed \in ToolRow
  <2>1. toolCall[c].task \in ToolTasks
    BY <1>1 DEF ToolsStateOK, ToolState
  <2> QED BY <2>1 DEF ToolEvent, ToolEnds, ToolRow
<1>5. /\ event.of = c /\ event.task = toolCall[c].task /\ event.status = how
      /\ closed.at = "ended" /\ closed.counted = {c}
  OBVIOUS
<1>6. toolRows[c] \in ToolRow /\ row \in ToolRow
  BY <1>1, <1>4 DEF ToolsStateOK
<1>7. /\ \A e \in toolEvents : e.of # c
      /\ toolRows[c].at = "absent" /\ (row = closed \/ row = toolRows[c])
      /\ toolFaults \in Nat
  BY <1>1 DEF ToolStored, Open, ToolsStateOK
<1> HIDE DEF event, closed, row
<1>8. ToolsStateOK'
  <2>1. toolEvents' \subseteq ToolEvent /\ IsFiniteSet(toolEvents')
    <3>1. toolEvents \subseteq ToolEvent /\ IsFiniteSet(toolEvents)
      BY <1>1 DEF ToolsStateOK
    <3>2. toolEvents' = toolEvents \/ toolEvents' = toolEvents \union {event}
      BY <1>3
    <3> QED BY <1>4, <3>1, <3>2, FS_AddElement
  <2>2. toolRows' \in [ToolCallIds -> ToolRow] /\ toolFaults' \in Nat
    <3>1. toolRows \in [ToolCallIds -> ToolRow] /\ toolFaults \in Nat
      BY <1>1 DEF ToolsStateOK
    <3>2. toolRows' = toolRows \/ toolRows' = [toolRows EXCEPT ![c] = row]
      BY <1>3
    <3>3. toolFaults' = toolFaults \/ toolFaults' = toolFaults + 1
      BY <1>3
    <3>4. toolRows' \in [ToolCallIds -> ToolRow]
      BY <1>6, <3>1, <3>2
    <3> QED BY <3>1, <3>3, <3>4
  <2> QED BY <1>2, <2>1, <2>2 DEF ToolsStateOK
<1>9. /\ \A d \in ToolCallIds \ {c} : toolRows'[d] = toolRows[d]
      /\ toolEvents \subseteq toolEvents'
      /\ \A e \in toolEvents' : e \in toolEvents \/ e = event
      /\ toolFaults' = 0 => toolFaults = 0
  BY <1>1, <1>3, <1>7 DEF ToolsStateOK
<1>10. ASSUME NEW d \in ToolCallIds PROVE ToolStored(d)'
  <2>1. CASE d # c
    <3>1. /\ SameCall(d) /\ toolCall'[d] = toolCall[d] /\ toolRows'[d] = toolRows[d]
          /\ \A e \in toolEvents' : e.of = d => e \in toolEvents
      BY <1>2, <1>5, <1>9, <2>1 DEF SameCall
    <3> QED BY <1>1, <1>9, <3>1, StoredStays
  <2>2. CASE d = c
    <3>1. Over(c)' /\ toolCall'[c].task = toolCall[c].task
      BY <1>2 DEF Over, SameCall
    <3>2. \A e \in toolEvents' : e.of = c => e.task = toolCall[c].task /\ e.status = how
      BY <1>5, <1>7, <1>9
    <3>3. toolFaults' = 0 => event \in toolEvents'
      BY <1>3, <1>7
    <3>4. toolRows'[c].at # "absent" => toolRows'[c].counted = {c} /\ event \in toolEvents'
      BY <1>1, <1>3, <1>5, <1>7 DEF ToolsStateOK
    <3> QED BY <1>2, <1>5, <2>2, <3>1, <3>2, <3>3, <3>4 DEF ToolStored, Over
  <2> QED BY <2>1, <2>2
<1>11. WorkOfCalls'
  <2> SUFFICES ASSUME NEW e \in toolEvents', e.of \notin ToolCallIds, e.last
               PROVE  /\ e.by \in ToolCallIds /\ Tracked(e.by)'
                      /\ e.task = toolCall'[e.by].task
                      /\ toolRows'[e.by].at = "ended" /\ toolCall'[e.by].entry = "function" =>
                           e.of \in toolRows'[e.by].counted
    BY DEF WorkOfCalls
  <2>1. /\ e.by \in ToolCallIds /\ Tracked(e.by) /\ e.task = toolCall[e.by].task
        /\ toolRows[e.by].at = "ended" /\ toolCall[e.by].entry = "function" =>
             e.of \in toolRows[e.by].counted
    BY <1>1, <1>5, <1>9 DEF WorkOfCalls
  <2>2. CASE e.by = c
    BY <1>2, <2>1, <2>2 DEF SameCall, Tracked
  <2>3. CASE e.by # c
    BY <1>2, <1>9, <2>1, <2>3 DEF Tracked
  <2> QED BY <2>2, <2>3
<1> QED BY <1>2, <1>8, <1>10, <1>11 DEF ToolsInv

LEMMA FunctionEndKeeps ==
  ASSUME ToolsInv, NEW c \in ToolCallIds, NEW x \in Contexts,
         NEW how \in {"succeeded", "failed", "cancelled"}, EndFunction(c, x, how)
  PROVE  ToolsInv'
<1>1. /\ ToolsStateOK /\ WorkOfCalls /\ FramesOK
      /\ \A d \in ToolCallIds : KeptOK(d) /\ ToolStored(d)
      /\ toolCall[c].at = "running" /\ Open(c) /\ toolCall[c].entry = "function"
      /\ Innermost(x) = c /\ Ends(c, x, how) /\ Popped(x) /\ UNCHANGED toolEvents
  BY DEF ToolsInv, EndFunction, Open
<1>2. /\ toolCall' \in [ToolCallIds -> ToolState] /\ SameCall(c)
      /\ toolCall'[c].at = "done" /\ toolCall'[c].ended = how
      /\ \A d \in ToolCallIds \ {c} : toolCall'[d] = toolCall[d]
      /\ currentTask' \in [Contexts -> ToolTasks]
      /\ \A d \in ToolCallIds : KeptOK(d)'
      /\ \A y \in Contexts : ContextOK(y)'
  BY <1>1, EndsKeepsContexts
<1>3. FramesOK' /\ frames' \in [Contexts -> Seq(ToolCallIds)]
  BY <1>1, <1>2, FramesPopped
<1> DEFINE counted == {e.of : e \in {f \in toolEvents : f.task = c}}
           row == [at |-> "ended", counted |-> counted]
<1>4. \/ toolRows' = [toolRows EXCEPT ![c] = row] /\ toolFaults' = toolFaults
      \/ toolRows' = toolRows /\ toolFaults' = toolFaults + 1
  BY DEF EndFunction
<1>5. row \in ToolRow
  <2>1. counted \subseteq ToolCallIds \union WorkIds
    BY <1>1 DEF ToolsStateOK, ToolEvent
  <2> HIDE DEF counted
  <2> QED BY <2>1 DEF ToolRow
<1>6. row.counted = counted
  OBVIOUS
<1>7. \A e \in toolEvents : e.task = c => e.of \in counted
  OBVIOUS
<1> HIDE DEF row, counted
<1>8. /\ ToolsStateOK' /\ \A d \in ToolCallIds \ {c} : toolRows'[d] = toolRows[d]
      /\ toolFaults' = 0 => toolFaults = 0
      /\ toolRows'[c] = toolRows[c] \/ toolRows'[c].counted = counted
  <2>1. toolRows \in [ToolCallIds -> ToolRow] /\ toolFaults \in Nat
    BY <1>1 DEF ToolsStateOK
  <2>2. /\ toolRows' \in [ToolCallIds -> ToolRow] /\ toolFaults' \in Nat
        /\ \A d \in ToolCallIds \ {c} : toolRows'[d] = toolRows[d]
        /\ toolFaults' = 0 => toolFaults = 0
        /\ toolRows'[c] = toolRows[c] \/ toolRows'[c].counted = counted
    BY <1>4, <1>5, <1>6, <2>1
  <2> QED BY <1>1, <1>2, <1>3, <2>2 DEF ToolsStateOK
<1>9. ASSUME NEW d \in ToolCallIds PROVE ToolStored(d)'
  <2>1. CASE d # c
    <3>1. /\ SameCall(d) /\ toolCall'[d] = toolCall[d] /\ toolRows'[d] = toolRows[d]
      BY <1>2, <1>8, <2>1 DEF SameCall
    <3> QED BY <1>1, <1>8, <3>1, StoredStays
  <2>2. CASE d = c
    BY <1>1, <1>2, <2>2 DEF ToolStored, Over, SameCall
  <2> QED BY <2>1, <2>2
<1>10. WorkOfCalls'
  <2> SUFFICES ASSUME NEW e \in toolEvents, e.of \notin ToolCallIds, e.last
               PROVE  /\ e.by \in ToolCallIds /\ Tracked(e.by)'
                      /\ e.task = toolCall'[e.by].task
                      /\ toolRows'[e.by].at = "ended" /\ toolCall'[e.by].entry = "function" =>
                           e.of \in toolRows'[e.by].counted
    BY <1>1 DEF WorkOfCalls
  <2>1. /\ e.by \in ToolCallIds /\ Tracked(e.by) /\ e.task = toolCall[e.by].task
        /\ toolRows[e.by].at = "ended" /\ toolCall[e.by].entry = "function" =>
             e.of \in toolRows[e.by].counted
    BY <1>1 DEF WorkOfCalls
  <2>2. CASE e.by = c
    <3>1. e.task = c
      BY <1>1, <2>1, <2>2 DEF KeptOK
    <3> QED BY <1>1, <1>2, <1>7, <1>8, <2>1, <2>2, <3>1 DEF SameCall, Tracked
  <2>3. CASE e.by # c
    BY <1>2, <1>8, <2>1, <2>3 DEF Tracked
  <2> QED BY <2>2, <2>3
<1> QED BY <1>2, <1>3, <1>8, <1>9, <1>10 DEF ToolsInv

LEMMA ToolEndsKeep ==
  ASSUME ToolsInv, NEW c \in ToolCallIds, NEW x \in Contexts,
         NEW how \in {"succeeded", "failed", "cancelled"},
         EndTool(c, x, how) \/ CloseTool(c, x, how)
  PROVE  ToolsInv'
<1>1. /\ ToolsStateOK /\ FramesOK /\ Open(c) /\ Ends(c, x, how) /\ FinishTool(c, x, how)
      /\ \A d \in ToolCallIds : KeptOK(d)
  BY DEF ToolsInv, EndTool, CloseTool, Open
<1>2. \A d \in ToolCallIds \ {c} : toolCall'[d].at = toolCall[d].at
  BY <1>1, EndsKeepsContexts
<1>3. CASE EndTool(c, x, how)
  <2>1. toolCall[c].entry # "function" /\ Innermost(x) = c /\ Popped(x)
    BY <1>3 DEF EndTool
  <2>2. FramesOK' /\ frames' \in [Contexts -> Seq(ToolCallIds)]
    BY <1>1, <1>2, <2>1, FramesPopped
  <2> QED BY <1>1, <2>1, <2>2, ToolRecordKeeps
<1>4. CASE CloseTool(c, x, how)
  <2>1. toolCall[c].at = "suspended" /\ UNCHANGED frames
    BY <1>4 DEF CloseTool
  <2>2. FramesOK' /\ frames' \in [Contexts -> Seq(ToolCallIds)]
    BY <1>1, <1>2, <2>1, FramesUntouched DEF ToolsStateOK
  <2>3. toolCall[c].entry # "function"
    BY <1>1, <2>1 DEF KeptOK
  <2> QED BY <1>1, <2>2, <2>3, ToolRecordKeeps
<1> QED BY <1>3, <1>4

-----------------------------------------------------------------------------
LEMMA ToolsStart == ToolsInit => ToolsInv
<1> SUFFICES ASSUME ToolsInit PROVE ToolsInv
  OBVIOUS
<1>1. /\ Uncalled \in ToolState /\ Uncalled.at = "new" /\ Uncalled.entry = "none"
      /\ Uncalled.in = "none" /\ Uncalled.order = 0
  BY DEF Uncalled, ToolState, NoToken, ToolTasks, ToolEnds, Entries, Shapes
<1> DEFINE absent == [at |-> "absent", counted |-> {}]
<1>2. absent \in ToolRow /\ absent.at = "absent"
  BY DEF ToolRow
<1> HIDE DEF absent
<1>3. /\ \A c \in ToolCallIds : toolCall[c] = Uncalled /\ toolRows[c] = absent
      /\ toolCall \in [ToolCallIds -> ToolState] /\ toolRows \in [ToolCallIds -> ToolRow]
      /\ \A x \in Contexts : frames[x] = <<>>
      /\ toolEvents = {} /\ toolFaults = 0
  BY <1>1, <1>2 DEF ToolsInit, absent
<1>4. ToolsStateOK
  BY <1>3, FS_EmptySet DEF ToolsInit, ToolsStateOK, ToolTasks
<1>5. FramesOK /\ WorkOfCalls
  BY <1>3 DEF FramesOK, WorkOfCalls
<1>6. \A c \in ToolCallIds : KeptOK(c) /\ ToolStored(c)
  BY <1>1, <1>2, <1>3, BeganIsFinite, ToolNames DEF KeptOK, ToolStored, Tracked, Over
<1>7. \A x \in Contexts : ContextOK(x)
  <2>1. \A x \in Contexts, c \in ToolCallIds : ~Here(x, c)
    BY <1>1, <1>3, ToolNames DEF Here
  <2> QED BY <2>1 DEF ContextOK, Highest, First
<1> QED BY <1>4, <1>5, <1>6, <1>7 DEF ToolsInv

LEMMA ToolsInvHolds == ToolsInv /\ [ToolsNext]_toolVars => ToolsInv'
<1> SUFFICES ASSUME ToolsInv, [ToolsNext]_toolVars PROVE ToolsInv'
  OBVIOUS
<1>1. CASE ToolsNext
  <2>1. PICK x \in Contexts :
          \/ Work(x)
          \/ \E c \in ToolCallIds :
               \/ \E entry \in Entries, shape \in Shapes : BeginTool(c, x, entry, shape)
               \/ BeginFunction(c, x) \/ BeginFails(c, x)
               \/ Suspend(c, x) \/ Resume(c, x)
               \/ \E how \in {"succeeded", "failed", "cancelled"} :
                    EndTool(c, x, how) \/ CloseTool(c, x, how) \/ EndFunction(c, x, how)
    BY <1>1 DEF ToolsNext
  <2>2. CASE Work(x)
    BY <2>2, WorkKeeps
  <2>3. ASSUME NEW c \in ToolCallIds,
               \/ \E entry \in Entries, shape \in Shapes : BeginTool(c, x, entry, shape)
               \/ BeginFunction(c, x)
        PROVE  ToolsInv'
    BY <2>3, BeginKeepsTools
  <2>4. ASSUME NEW c \in ToolCallIds, BeginFails(c, x) \/ Suspend(c, x) \/ Resume(c, x)
        PROVE  ToolsInv'
    BY <2>4, SuspendKeeps
  <2>5. ASSUME NEW c \in ToolCallIds, NEW how \in {"succeeded", "failed", "cancelled"},
               EndTool(c, x, how) \/ CloseTool(c, x, how) \/ EndFunction(c, x, how)
        PROVE  ToolsInv'
    BY <2>5, ToolEndsKeep, FunctionEndKeeps
  <2> QED BY <2>1, <2>2, <2>3, <2>4, <2>5
<1>2. CASE UNCHANGED toolVars
  <2>1. UNCHANGED <<currentTask, frames, toolCall, toolEvents, toolRows, disorderly, toolFaults>>
    BY <1>2 DEF toolVars
  <2>2. ToolsStateOK' /\ FramesOK' /\ WorkOfCalls'
    BY <2>1 DEF ToolsInv, ToolsStateOK, FramesOK, WorkOfCalls, Tracked
  <2>3. \A c \in ToolCallIds : KeptOK(c)' /\ ToolStored(c)'
    BY <2>1 DEF ToolsInv, KeptOK, ToolStored, Over, Tracked, Began
  <2>4. \A x \in Contexts : ContextOK(x)'
    <3>1. \A c \in ToolCallIds : SameCall(c) /\ (Open(c)' <=> Open(c))
      BY <2>1 DEF SameCall, Open
    <3>2. \A x \in Contexts, c \in ToolCallIds : Here(x, c)' <=> Here(x, c)
      BY <2>1 DEF Here
    <3> QED BY <2>1, <3>1, <3>2, ContextStays DEF ToolsInv
  <2> QED BY <2>2, <2>3, <2>4 DEF ToolsInv
<1> QED BY <1>1, <1>2

(* Whatever tools and functions nest in one another, in however many       *)
(* contexts, and wherever a generator takes its steps and ends: each is    *)
(* recorded as it ended for the task of its first step, a row counts the   *)
(* event it was opened for, the work of the innermost call is of its task, *)
(* and contexts that nobody left out of order are as they were found       *)
(* (tool_tracking.py decorate_tool, tracker.py track_tool, track_task).    *)
THEOREM ToolsStayWithTheirTask == ToolsSpec => []ToolsKeepTheirTask
<1>1. ASSUME ToolsInv PROVE ToolsKeepTheirTask
  <2>1. /\ \A c \in ToolCallIds : KeptOK(c) /\ ToolStored(c)
        /\ \A x \in Contexts : ContextOK(x)
        /\ WorkOfCalls /\ toolCall \in [ToolCallIds -> ToolState]
    BY <1>1 DEF ToolsInv, ToolsStateOK
  <2>2. ToolIsRecordedAsItEnded
    <3> SUFFICES ASSUME NEW c \in ToolCallIds
                 PROVE  LET task == CASE toolCall[c].entry = "task" -> "owner"
                                      [] toolCall[c].entry = "tracker"
                                           /\ toolCall[c].found = "none" -> c
                                      [] OTHER -> toolCall[c].found
                        IN IF Over(c)
                           THEN /\ toolFaults = 0 => EventsOf(c) # {}
                                /\ \A e \in EventsOf(c) : e.task = task
                                                          /\ e.status = toolCall[c].ended
                           ELSE EventsOf(c) = {}
      BY DEF ToolIsRecordedAsItEnded
    <3>1. CASE Over(c)
      <4>1. toolCall[c].task = CASE toolCall[c].entry = "task" -> "owner"
                                 [] toolCall[c].entry = "tracker" /\ toolCall[c].found = "none" -> c
                                 [] OTHER -> toolCall[c].found
        <5>1. KeptOK(c) /\ Tracked(c) /\ toolCall[c].entry \in {"task", "tracker"}
          BY <2>1, <3>1 DEF KeptOK, Tracked, Over, Entries
        <5> QED BY <5>1 DEF KeptOK
      <4>2. /\ toolFaults = 0 => EventsOf(c) # {}
            /\ \A e \in EventsOf(c) : e.task = toolCall[c].task /\ e.status = toolCall[c].ended
        BY <2>1, <3>1 DEF ToolStored, EventsOf
      <4> QED BY <3>1, <4>1, <4>2
    <3>2. CASE ~Over(c)
      BY <2>1, <3>2 DEF ToolStored, EventsOf, Over
    <3> QED BY <3>1, <3>2
  <2>3. RowFollowsItsEvent
    BY <2>1 DEF RowFollowsItsEvent, ToolStored, EventsOf
  <2>4. ContextIsLeftAsFound
    <3> SUFFICES ASSUME NEW x \in Contexts \ disorderly,
                        \A c \in Began : toolCall[c].in = x => toolCall[c].at = "done",
                        NEW b \in Began, toolCall[b].in = x
                 PROVE  \E c \in Began :
                          /\ toolCall[c].in = x /\ toolCall[c].found = currentTask[x]
                          /\ \A d \in Began : toolCall[d].in = x =>
                               toolCall[c].order <= toolCall[d].order
      BY DEF ContextIsLeftAsFound
    <3>1. \A c \in ToolCallIds : Here(x, c) => c \in Began /\ ~Open(c)
      BY <2>1 DEF Here, KeptOK, Tracked, Began, Open
    <3>2. PICK c \in ToolCallIds : First(x, c)
      BY <2>1 DEF ContextOK, Here, Began
    <3>3. toolCall[c].found = currentTask[x]
      BY <2>1, <3>1, <3>2 DEF ContextOK
    <3> QED BY <3>1, <3>2, <3>3 DEF First, Here, Began
  <2>5. WorkStaysInItsTask
    BY <2>1, ToolNames DEF WorkStaysInItsTask, WorkOfCalls, WorkEvents
  <2> QED BY <2>2, <2>3, <2>4, <2>5 DEF ToolsKeepTheirTask
<1>2. ToolsSpec => []ToolsInv
  BY ToolsStart, ToolsInvHolds, PTL DEF ToolsSpec
<1> QED BY <1>1, <1>2, PTL
=============================================================================
