------------------------- MODULE SyncDeliveryProofs -------------------------
(***************************************************************************)
(* Theorems about SyncDelivery, for any sets of records and workers and    *)
(* any limits.                                                             *)
(***************************************************************************)
EXTENDS SyncDelivery, FiniteSetTheorems, SequenceTheorems, TLAPS

USE DEF rows, server, process, Status, Places

LEMMA OldestSubset ==
  ASSUME NEW S, NEW n PROVE Oldest(S, n) \subseteq S
BY DEF Oldest

LEMMA FirstPartSubset ==
  ASSUME NEW R \in SUBSET Records PROVE FirstPart(R) \subseteq R
BY OldestSubset DEF FirstPart, OlderHalf, Records, Observations

LEMMA AckGroupSubset ==
  ASSUME NEW R \in SUBSET Records PROVE AckGroup(R) \subseteq R
BY DEF AckGroup, Records, Observations

LEMMA NoCycleType == NoCycle \in Cycle
BY DEF NoCycle, Cycle, Batch, Snapshots, Versions, Contents

LEMMA SnapshotTypes ==
  ASSUME TypeOK, NEW w \in Workers, NEW R
  PROVE  NoteVersions(w, R) \in Versions /\ TakeSnapshots(w, R) \in Snapshots
BY DEF TypeOK, Cycle, NoteVersions, TakeSnapshots, Snapshots, Versions

LEMMA SplitType ==
  ASSUME NEW b \in Batch
  PROVE  SplitInTwo(b) \in Seq(Batch) /\ Len(SplitInTwo(b)) = 2
BY FirstPartSubset DEF SplitInTwo, Batch

LEMMA TailType ==
  ASSUME NEW s \in Seq(Batch), s # <<>>
  PROVE  /\ Head(s) \in Batch
         /\ Tail(s) \in Seq(Batch)
         /\ Len(s) # 1 => Tail(s) # <<>>
<1>1. /\ Head(s) \in Batch
      /\ Tail(s) \in Seq(Batch)
      /\ Len(Tail(s)) = Len(s) - 1
  BY HeadTailProperties
<1>2. Len(<<>>) = 0 /\ Len(s) \in Nat
  BY EmptySeq, LenProperties
<1>3. ASSUME Tail(s) = <<>> PROVE Len(s) = 1
  <2>1. Len(Tail(s)) = Len(<<>>)
    BY <1>3, Zenon
  <2> DEFINE m == Len(Tail(s))
             n == Len(s)
  <2>2. m = n - 1 /\ m = 0 /\ n \in Nat
    BY <1>1, <1>2, <2>1
  <2> HIDE DEF m, n
  <2>3. n = 1
    BY <2>2
  <2> QED BY <2>3 DEF n
<1> QED BY <1>1, <1>3

LEMMA PrependType ==
  ASSUME NEW s \in Seq(Batch), NEW t \in Seq(Batch), Len(s) = 2
  PROVE  s \o t \in Seq(Batch) /\ s \o t # <<>>
<1>1. s \o t \in Seq(Batch) /\ Len(s \o t) = Len(s) + Len(t)
  BY ConcatProperties
<1>2. Len(t) \in Nat /\ Len(<<>>) = 0
  BY LenProperties
<1> QED BY <1>1, <1>2

LEMMA ShrinkHeadType ==
  ASSUME NEW s \in Seq(Batch), s # <<>>, NEW g
  PROVE  /\ [s EXCEPT ![1].records = @ \ g] \in Seq(Batch)
         /\ Len([s EXCEPT ![1].records = @ \ g]) = Len(s)
<1>0. 1 \in DOMAIN s /\ s[1] \in Batch
  OBVIOUS
<1>1. s[1].records \ g \in SUBSET Records
  BY <1>0 DEF Batch
<1>2. [s[1] EXCEPT !.records = @ \ g] \in Batch
  BY <1>0, <1>1 DEF Batch
<1> QED BY <1>0, <1>2

\* A worker in the middle of a delivery has a batch on top of its stack.
StackNotEmpty ==
  \A w \in Workers : pc[w] \in {"post", "await", "ack"} => cycle[w].stack # <<>>

LEMMA StatusType ==
  ASSUME TypeOK, NEW R, NEW s \in Status, SetStatus(R, s)
  PROVE  status' \in [Records -> Status]
BY DEF SetStatus, TypeOK

\* Replacing the local variables of one worker by well-typed ones.
LEMMA CycleUpdate ==
  ASSUME TypeOK, NEW w \in Workers, NEW c \in Cycle, cycle' = [cycle EXCEPT ![w] = c]
  PROVE  cycle' \in [Workers -> Cycle] /\ cycle'[w] = c
BY DEF TypeOK

LEMMA StackUpdate ==
  ASSUME TypeOK, NEW w \in Workers, NEW s \in Seq(Batch),
         cycle' = [cycle EXCEPT ![w].stack = s]
  PROVE  /\ cycle' \in [Workers -> Cycle]
         /\ cycle'[w] = [cycle[w] EXCEPT !.stack = s]
         /\ cycle'[w].stack = s
         /\ \A v \in Workers \ {w} : cycle'[v] = cycle[v]
<1>1. cycle[w] \in Cycle
  BY DEF TypeOK
<1>2. [cycle[w] EXCEPT !.stack = s] \in Cycle
  BY <1>1 DEF Cycle
<1>3. [cycle[w] EXCEPT !.stack = s].stack = s
  BY <1>1 DEF Cycle
<1> QED BY <1>2, <1>3 DEF TypeOK

-----------------------------------------------------------------------------
TypeInv == TypeOK /\ StackNotEmpty

LEMMA InitTypeInv == Init => TypeInv
BY NoCycleType DEF Init, TypeInv, TypeOK, StackNotEmpty, Contents

LEMMA EndCycleType ==
  ASSUME TypeInv, NEW w \in Workers, EndCycle(w)
  PROVE  /\ pc' \in [Workers -> Places]
         /\ cycle' \in [Workers -> Cycle]
         /\ StackNotEmpty'
BY NoCycleType DEF EndCycle, Go, TypeInv, TypeOK, StackNotEmpty

LEMMA PopBatchType ==
  ASSUME TypeInv, NEW w \in Workers, PopBatch(w), cycle[w].stack # <<>>
  PROVE  /\ pc' \in [Workers -> Places]
         /\ cycle' \in [Workers -> Cycle]
         /\ StackNotEmpty'
<1>1. cycle[w].stack \in Seq(Batch)
  BY DEF TypeInv, TypeOK, Cycle
<1>2. /\ Tail(cycle[w].stack) \in Seq(Batch)
      /\ Len(cycle[w].stack) # 1 => Tail(cycle[w].stack) # <<>>
  BY <1>1, TailType
<1>3. cycle' \in [Workers -> Cycle]
  BY <1>2, StackUpdate DEF PopBatch, TypeInv
<1> QED BY <1>2, <1>3 DEF PopBatch, Go, TypeInv, TypeOK, StackNotEmpty

LEMMA AcceptType ==
  ASSUME TypeInv, NEW w \in Workers, cycle[w].stack # <<>>,
         NEW R \in SUBSET NextBatch(w).records, Accept(w, R)
  PROVE  /\ accepted' \subseteq Records \X Nat
         /\ identified' \subseteq Records \X Nat
         /\ Posted(w, R) \subseteq Records \X Nat
<1>1. NextBatch(w) \in Batch
  BY DEF NextBatch, TypeInv, TypeOK, Cycle
<1>2. \A r \in Records : cycle[w].snap[r].version \in Nat
  BY DEF TypeInv, TypeOK, Cycle, Snapshots
<1> QED BY <1>1, <1>2 DEF Accept, Posted, TypeInv, TypeOK, Batch

LEMMA UnrecordedType ==
  ASSUME TypeInv, NEW w \in Workers
  PROVE  Unrecorded(w) \subseteq Records \X Nat
<1>1. CASE pc[w] = "ack"
  <2>1. NextBatch(w) \in Batch
    BY <1>1 DEF NextBatch, TypeInv, TypeOK, Cycle, StackNotEmpty
  <2>2. \A r \in Records : cycle[w].snap[r].version \in Nat
    BY DEF TypeInv, TypeOK, Cycle, Snapshots
  <2> QED BY <2>1, <2>2 DEF Unrecorded, Posted, Batch
<1> QED BY <1>1 DEF Unrecorded

LEMMA NextTypeInv == TypeInv /\ [Next]_vars => TypeInv'
<1> SUFFICES ASSUME TypeInv, [Next]_vars PROVE TypeInv'
  OBVIOUS
<1>1. ASSUME NEW r \in Records, NEW c \in Contents, Insert(r, c) PROVE TypeInv'
  BY <1>1 DEF Insert, SetStatus, TypeInv, TypeOK, StackNotEmpty
<1>2. ASSUME NEW r \in Records, NEW c \in Contents, Update(r, c) PROVE TypeInv'
  BY <1>2 DEF Update, SetStatus, TypeInv, TypeOK, StackNotEmpty
<1>3. ASSUME NEW w \in Workers, RecoverQuarantined(w) PROVE TypeInv'
  BY <1>3 DEF RecoverQuarantined, RequeueQuarantined, SetStatus, Go, TypeInv, TypeOK, StackNotEmpty
<1>4. ASSUME NEW w \in Workers, PurgeIfDue(w) PROVE TypeInv'
  BY <1>4 DEF PurgeIfDue, SetStatus, Go, TypeInv, TypeOK, StackNotEmpty
<1>5. ASSUME NEW w \in Workers, QueryPage(w) PROVE TypeInv'
  <2> DEFINE page == Oldest(Pending(Events), RoomInPage(w))
  <2>1. page \in SUBSET Events
    BY OldestSubset DEF Pending
  <2>2. /\ NoteVersions(w, page) \in Versions
        /\ TakeSnapshots(w, page \ cycle[w].seen) \in Snapshots
    BY SnapshotTypes DEF TypeInv
  <2> DEFINE c == [cycle[w] EXCEPT !.page = page,
                                  !.ack  = NoteVersions(w, page),
                                  !.snap = TakeSnapshots(w, page \ cycle[w].seen)]
  <2>3. c \in Cycle
    BY <2>1, <2>2 DEF TypeInv, TypeOK, Cycle
  <2>4. cycle' = [cycle EXCEPT ![w] = c]
    BY <1>5 DEF QueryPage
  <2> HIDE DEF page, c
  <2>5. cycle' \in [Workers -> Cycle]
    BY <2>3, <2>4, CycleUpdate DEF TypeInv
  <2>6. \E p \in {"gather", "convert"} : pc' = [pc EXCEPT ![w] = p]
    BY <1>5 DEF QueryPage, Go
  <2>7. pc' \in [Workers -> Places] /\ StackNotEmpty'
    BY <2>4, <2>6 DEF TypeInv, TypeOK, StackNotEmpty
  <2> QED BY <1>5, <2>5, <2>7 DEF QueryPage, TypeInv, TypeOK
<1>6. ASSUME NEW w \in Workers, ConvertPage(w) PROVE TypeInv'
  <2> DEFINE new  == cycle[w].page \ cycle[w].seen
             good == {e \in new : Convertible(w, cycle[w].snap[e].content)}
             c    == [cycle[w] EXCEPT !.page  = {},
                                      !.seen  = cycle[w].seen \cup new,
                                      !.batch = cycle[w].batch \cup good]
  <2>1. status' \in [Records -> Status]
    BY <1>6, StatusType DEF ConvertPage, MarkQuarantined, TypeInv
  <2>2. c \in Cycle
    BY DEF TypeInv, TypeOK, Cycle, Records
  <2>3. cycle' = [cycle EXCEPT ![w] = c]
    BY <1>6 DEF ConvertPage
  <2>4. \E p \in {"gather", "scan"} : pc' = [pc EXCEPT ![w] = p]
    BY <1>6 DEF ConvertPage, Go
  <2> HIDE DEF c
  <2>5. cycle' \in [Workers -> Cycle]
    BY <2>2, <2>3, CycleUpdate DEF TypeInv
  <2>6. pc' \in [Workers -> Places] /\ StackNotEmpty'
    BY <2>3, <2>4 DEF TypeInv, TypeOK, StackNotEmpty
  <2> QED BY <1>6, <2>1, <2>5, <2>6 DEF ConvertPage, TypeInv, TypeOK
<1>7. ASSUME NEW w \in Workers, Gather(w) PROVE TypeInv'
  <2> DEFINE tasks  == Oldest(Pending(Tasks), TaskLimit)
             jobs   == Oldest(Pending(Jobs), BatchSize - Cardinality(cycle[w].batch))
             others == tasks \cup jobs \cup Oldest(Pending(Outcomes), BatchSize)
                             \cup Oldest(Pending(Revenues), BatchSize)
             batch  == cycle[w].batch \cup others
             final  == {t \in tasks : content[t] = "final"}
             first  == [records |-> batch, identities |-> final]
  <2>1. others \in SUBSET Records /\ final \in SUBSET Tasks
    BY OldestSubset DEF Pending, Records
  <2>2. batch \in SUBSET Records
    BY <2>1 DEF TypeInv, TypeOK, Cycle
  <2>3. NoteVersions(w, others) \in Versions /\ TakeSnapshots(w, others) \in Snapshots
    BY SnapshotTypes DEF TypeInv
  <2>4. <<first>> \in Seq(Batch) /\ <<first>> # <<>>
    BY <2>1, <2>2 DEF Batch
  <2>5. CASE batch = {}
    <3>1. EndCycle(w)
      BY <1>7, <2>5 DEF Gather
    <3> QED BY <1>7, <3>1, EndCycleType DEF Gather, TypeInv, TypeOK
  <2>6. CASE batch # {}
    <3> DEFINE c == [cycle[w] EXCEPT !.seen  = {},
                                     !.batch = batch,
                                     !.ack   = NoteVersions(w, others),
                                     !.snap  = TakeSnapshots(w, others),
                                     !.stack = <<first>>]
    <3>1. Go(w, "post") /\ cycle' = [cycle EXCEPT ![w] = c]
      BY <1>7, <2>6 DEF Gather
    <3> HIDE DEF tasks, jobs, others, batch, final, first
    <3>2. c \in Cycle /\ c.stack # <<>>
      BY <2>2, <2>3, <2>4 DEF TypeInv, TypeOK, Cycle
    <3> HIDE DEF c
    <3>3. cycle' \in [Workers -> Cycle]
      BY <3>1, <3>2, CycleUpdate DEF TypeInv
    <3>4. pc' \in [Workers -> Places] /\ StackNotEmpty'
      BY <3>1, <3>2 DEF Go, TypeInv, TypeOK, StackNotEmpty
    <3> QED BY <1>7, <3>3, <3>4 DEF Gather, TypeInv, TypeOK
  <2> QED BY <2>5, <2>6
<1>8. ASSUME NEW w \in Workers, SplitBatch(w) PROVE TypeInv'
  <2>1. cycle[w].stack \in Seq(Batch) /\ cycle[w].stack # <<>>
    BY <1>8 DEF SplitBatch, TypeInv, TypeOK, Cycle, StackNotEmpty
  <2>2. NextBatch(w) \in Batch /\ Tail(cycle[w].stack) \in Seq(Batch)
    BY <2>1 DEF NextBatch
  <2> DEFINE s == SplitInTwo(NextBatch(w)) \o Tail(cycle[w].stack)
  <2>3. s \in Seq(Batch) /\ s # <<>>
    BY <2>2, SplitType, PrependType
  <2>4. cycle' = [cycle EXCEPT ![w].stack = s]
    BY <1>8 DEF SplitBatch
  <2> HIDE DEF s
  <2>5. /\ cycle' \in [Workers -> Cycle]
        /\ cycle'[w].stack = s
        /\ \A v \in Workers \ {w} : cycle'[v] = cycle[v]
    BY <2>3, <2>4, StackUpdate DEF TypeInv
  <2>6. StackNotEmpty'
    BY <1>8, <2>3, <2>5 DEF SplitBatch, TypeInv, StackNotEmpty
  <2> QED BY <1>8, <2>5, <2>6 DEF SplitBatch, TypeInv, TypeOK
<1>9. ASSUME NEW w \in Workers, QuarantineOversized(w) PROVE TypeInv'
  <2>1. cycle[w].stack # <<>> /\ PopBatch(w)
    BY <1>9 DEF QuarantineOversized, TypeInv, StackNotEmpty
  <2>2. status' \in [Records -> Status]
    BY <1>9 DEF QuarantineOversized, MarkQuarantined, SetStatus, TypeInv, TypeOK
  <2> QED BY <1>9, <2>1, <2>2, PopBatchType DEF QuarantineOversized, TypeInv, TypeOK
<1>10. ASSUME NEW w \in Workers, Post(w) PROVE TypeInv'
  BY <1>10 DEF Post, Go, TypeInv, TypeOK, StackNotEmpty
<1>11. ASSUME NEW w \in Workers, LeafAccepted(w) PROVE TypeInv'
  <2>1. cycle[w].stack # <<>>
    BY <1>11 DEF LeafAccepted, TypeInv, StackNotEmpty
  <2>2. accepted' \subseteq Records \X Nat /\ identified' \subseteq Records \X Nat
    BY <1>11, <2>1, AcceptType DEF LeafAccepted
  <2> QED BY <1>11, <2>2 DEF LeafAccepted, Go, TypeInv, TypeOK, StackNotEmpty
<1>12. ASSUME NEW w \in Workers, LeafNotAccepted(w) PROVE TypeInv'
  <2>1. cycle[w].stack # <<>>
    BY <1>12 DEF LeafNotAccepted, TypeInv, StackNotEmpty
  <2>2. PICK R \in SUBSET NextBatch(w).records :
          Accept(w, R) /\ unanswered' = unanswered \cup Posted(w, R)
    BY <1>12 DEF LeafNotAccepted
  <2>3. /\ accepted' \subseteq Records \X Nat
        /\ identified' \subseteq Records \X Nat
        /\ unanswered' \subseteq Records \X Nat
    <3>1. R \in SUBSET NextBatch(w).records
      OBVIOUS
    <3> QED BY <2>1, <2>2, <3>1, AcceptType DEF TypeInv, TypeOK
  <2> QED BY <1>12, <2>3, EndCycleType DEF LeafNotAccepted, TypeInv, TypeOK
<1>13. ASSUME NEW w \in Workers, Acknowledge(w) PROVE TypeInv'
  <2> DEFINE group == AckGroup(NextBatch(w).records)
  <2>1. cycle[w].stack \in Seq(Batch) /\ cycle[w].stack # <<>>
    BY <1>13 DEF Acknowledge, TypeInv, TypeOK, Cycle, StackNotEmpty
  <2>2. status' \in [Records -> Status]
    BY <1>13 DEF Acknowledge, SetStatus, TypeInv, TypeOK
  <2>3. CASE NextBatch(w).records \ group = {}
    <3>1. PopBatch(w)
      BY <1>13, <2>3 DEF Acknowledge
    <3> QED BY <1>13, <2>1, <2>2, <3>1, PopBatchType DEF Acknowledge, TypeInv, TypeOK
  <2>4. CASE NextBatch(w).records \ group # {}
    <3> DEFINE s == [cycle[w].stack EXCEPT ![1].records = @ \ group]
    <3>1. s \in Seq(Batch) /\ Len(s) = Len(cycle[w].stack)
      BY <2>1, ShrinkHeadType
    <3>2. s # <<>>
      BY <2>1, <3>1
    <3>3. cycle' = [cycle EXCEPT ![w].stack = s] /\ UNCHANGED pc
      BY <1>13, <2>4 DEF Acknowledge
    <3> HIDE DEF s, group
    <3>4. cycle' \in [Workers -> Cycle] /\ StackNotEmpty'
      BY <3>1, <3>2, <3>3, StackUpdate DEF TypeInv, TypeOK, StackNotEmpty
    <3> QED BY <1>13, <2>2, <3>3, <3>4 DEF Acknowledge, TypeInv, TypeOK
  <2> QED BY <2>3, <2>4
<1>14. ASSUME NEW w \in Workers, FinishCycle(w) PROVE TypeInv'
  BY <1>14, EndCycleType DEF FinishCycle, TypeInv, TypeOK
<1>15. ASSUME NEW w \in Workers, StorageFails(w) PROVE TypeInv'
  BY <1>15, EndCycleType, UnrecordedType DEF StorageFails, TypeInv, TypeOK
<1>16. ASSUME NEW w \in Workers, Crash(w) PROVE TypeInv'
  <2>1. unanswered' \subseteq Records \X Nat
    BY <1>16, UnrecordedType DEF Crash, TypeInv, TypeOK
  <2>2. cycle' \in [Workers -> Cycle] /\ pc' \in [Workers -> Places] /\ StackNotEmpty'
    BY <1>16, NoCycleType DEF Crash, Go, TypeInv, TypeOK, StackNotEmpty
  <2> QED BY <1>16, <2>1, <2>2 DEF Crash, TypeInv, TypeOK
<1>17. ASSUME NEW w \in Workers, Restart(w) PROVE TypeInv'
  BY <1>17 DEF Restart, Go, TypeInv, TypeOK, StackNotEmpty
<1>18. CASE UNCHANGED vars
  BY <1>18 DEF vars, TypeInv, TypeOK, StackNotEmpty
<1> QED
  BY <1>1, <1>2, <1>3, <1>4, <1>5, <1>6, <1>7, <1>8, <1>9, <1>10, <1>11, <1>12,
     <1>13, <1>14, <1>15, <1>16, <1>17, <1>18
  DEF Next, Application, Worker, ControlPlane, Environment

\* Every behaviour keeps the types of the rows, of the control plane's records
\* and of the workers' local variables.
THEOREM TypeCorrect == Spec => []TypeOK
<1>1. TypeInv => TypeOK
  BY DEF TypeInv
<1> QED BY InitTypeInv, NextTypeInv, <1>1, PTL DEF Spec

-----------------------------------------------------------------------------
(***************************************************************************)
(* An acknowledgement covers what was accepted.  Whoever moves, rows stay, *)
(* versions grow and the control plane forgets nothing (Monotone), so what *)
(* the other workers know about their batches stays true; what the moving  *)
(* worker knows is shown action by action.                                 *)
(***************************************************************************)
Monotone == /\ accepted \subseteq accepted'
            /\ \A r \in Records : status[r] # "absent" =>
                 status'[r] # "absent" /\ version[r] <= version'[r]

\* What worker w does leaves the local state of the others alone.
OthersKeep(w) == \A v \in Workers \ {w} : pc'[v] = pc[v] /\ cycle'[v] = cycle[v]

LEMMA SameWorkerInv ==
  ASSUME TypeInv, Monotone, NEW w \in Workers, WorkerInv(w),
         pc'[w] = pc[w], cycle'[w] = cycle[w], version' \in [Records -> Nat]
  PROVE  WorkerInv(w)'
<1>1. /\ cycle[w].page \cup cycle[w].batch \subseteq Records
      /\ \A r \in Records : cycle[w].snap[r].version \in Nat
  BY DEF TypeInv, TypeOK, Cycle, Snapshots, Records
<1>2. SnapshotsAreNoted(w)'
  BY <1>1 DEF WorkerInv, SnapshotsAreNoted, Monotone, TypeInv, TypeOK
<1>3. OnePageScan(w)' /\ LeavesCutFromBatch(w)'
  BY DEF WorkerInv, OnePageScan, LeavesCutFromBatch
<1>4. AckOnlyTaken(w)'
  BY DEF WorkerInv, AckOnlyTaken, Posted, NextBatch, Monotone
<1> QED BY <1>2, <1>3, <1>4 DEF WorkerInv

LEMMA StepMonotone ==
  ASSUME TypeInv, [Next]_vars PROVE Monotone
<1>1. ASSUME NEW r \in Records, NEW c \in Contents, Insert(r, c) \/ Update(r, c)
      PROVE  Monotone
  BY <1>1 DEF Insert, Update, SetStatus, Monotone, TypeInv, TypeOK
<1>2. ASSUME NEW w \in Workers, \/ RecoverQuarantined(w) \/ PurgeIfDue(w)
                               \/ ConvertPage(w) \/ QuarantineOversized(w)
      PROVE  Monotone
  <2>1. accepted' = accepted /\ version' = version
    BY <1>2 DEF RecoverQuarantined, PurgeIfDue, ConvertPage, QuarantineOversized
  <2>2. \A r \in Records : status[r] # "absent" => status'[r] # "absent"
    BY <1>2 DEF RecoverQuarantined, RequeueQuarantined, PurgeIfDue, ConvertPage,
         QuarantineOversized, MarkQuarantined, SetStatus, TypeInv, TypeOK
  <2> QED BY <2>1, <2>2 DEF Monotone, TypeInv, TypeOK
<1>3. ASSUME NEW w \in Workers, Acknowledge(w) PROVE Monotone
  BY <1>3 DEF Acknowledge, SetStatus, Monotone, TypeInv, TypeOK
<1>4. ASSUME accepted \subseteq accepted', UNCHANGED rows PROVE Monotone
  BY <1>4 DEF Monotone, TypeInv, TypeOK
<1>5. ASSUME NEW w \in Workers, \/ QueryPage(w) \/ Gather(w) \/ SplitBatch(w) \/ Post(w)
                               \/ LeafAccepted(w) \/ LeafNotAccepted(w)
                               \/ FinishCycle(w) \/ Environment(w)
      PROVE  accepted \subseteq accepted' /\ UNCHANGED rows
  BY <1>5 DEF QueryPage, Gather, SplitBatch, Post, LeafAccepted, LeafNotAccepted, Accept,
     FinishCycle, Environment, StorageFails, Crash, Restart
<1>6. CASE UNCHANGED vars
  BY <1>4, <1>6 DEF vars
<1> QED BY <1>1, <1>2, <1>3, <1>4, <1>5, <1>6
        DEF Next, Application, Worker, ControlPlane

LEMMA StepOfOne ==
  ASSUME TypeInv, NEW w \in Workers, Worker(w) \/ ControlPlane(w) \/ Environment(w)
  PROVE  OthersKeep(w) /\ content' = content
<1>1. CASE Worker(w)
  BY <1>1 DEF Worker, RecoverQuarantined, PurgeIfDue, QueryPage, ConvertPage, Gather,
     SplitBatch, QuarantineOversized, Post, Acknowledge, FinishCycle, PopBatch,
     EndCycle, Go, OthersKeep, TypeInv, TypeOK
<1>2. CASE ControlPlane(w) \/ Environment(w)
  BY <1>2 DEF ControlPlane, LeafAccepted, LeafNotAccepted, Environment, StorageFails,
     Crash, Restart, EndCycle, Go, OthersKeep, TypeInv, TypeOK
<1> QED BY <1>1, <1>2

LEMMA EndCycleInv ==
  ASSUME TypeInv, NEW w \in Workers, EndCycle(w) PROVE WorkerInv(w)'
<1>1. cycle'[w] = NoCycle /\ pc'[w] = "idle"
  BY DEF EndCycle, Go, TypeInv, TypeOK
<1>2. Len(<<>>) = 0
  BY EmptySeq
<1>3. SnapshotsAreNoted(w)' /\ OnePageScan(w)' /\ AckOnlyTaken(w)'
  BY <1>1 DEF NoCycle, SnapshotsAreNoted, OnePageScan, AckOnlyTaken
<1>4. LeavesCutFromBatch(w)'
  BY <1>1, <1>2 DEF NoCycle, LeavesCutFromBatch
<1> QED BY <1>3, <1>4 DEF WorkerInv

\* A step that only moves w on, to a place with no obligation of its own.
LEMMA MoveOnInv ==
  ASSUME TypeInv, TypeInv', Monotone, NEW w \in Workers, WorkerInv(w),
         cycle'[w] = cycle[w],
         \/ pc'[w] = "await"
         \/ pc[w] \in {"idle", "purge", "down"} /\ pc'[w] # "ack"
  PROVE  WorkerInv(w)'
<1>1. /\ cycle[w].page \cup cycle[w].batch \subseteq Records
      /\ \A r \in Records : cycle[w].snap[r].version \in Nat
  BY DEF TypeInv, TypeOK, Cycle, Snapshots, Records
<1>2. SnapshotsAreNoted(w)'
  BY <1>1 DEF WorkerInv, SnapshotsAreNoted, Monotone, TypeInv, TypeOK
<1>3. OnePageScan(w)' /\ LeavesCutFromBatch(w)' /\ AckOnlyTaken(w)'
  BY DEF WorkerInv, OnePageScan, LeavesCutFromBatch, AckOnlyTaken
<1> QED BY <1>2, <1>3 DEF WorkerInv

LEMMA QueryPageInv ==
  ASSUME TypeInv, DeliveryInv, NEW w \in Workers, QueryPage(w)
  PROVE  WorkerInv(w)'
<1> DEFINE page  == Oldest(Pending(Events), RoomInPage(w))
           acks  == NoteVersions(w, page)
           snaps == TakeSnapshots(w, page)
<1>1. /\ cycle[w].seen = {} /\ cycle[w].batch = {}
      /\ LeavesCutFromBatch(w)
  BY DEF QueryPage, DeliveryInv, WorkerInv, OnePageScan
<1>2. /\ cycle'[w].page = page
      /\ cycle'[w].seen = {}
      /\ cycle'[w].batch = {}
      /\ cycle'[w].stack = cycle[w].stack
      /\ cycle'[w].ack = acks
      /\ cycle'[w].snap = snaps
      /\ pc'[w] # "ack"
  BY <1>1 DEF QueryPage, Go, TypeInv, TypeOK, Cycle
<1>3. page \subseteq Events /\ \A r \in page : status[r] = "pending"
  BY OldestSubset DEF Pending
<1>4. UNCHANGED rows /\ \A r \in page : /\ acks[r] = version[r]
                                      /\ snaps[r].version = version[r]
                                      /\ snaps[r].content = content[r]
  BY <1>3 DEF QueryPage, NoteVersions, TakeSnapshots, Records
<1> HIDE DEF page, acks, snaps
<1>5. SnapshotsAreNoted(w)'
  <2>1. \A r \in page : version[r] \in Nat /\ status[r] # "absent"
    BY <1>3 DEF TypeInv, TypeOK, Records
  <2> QED BY <1>2, <1>4, <2>1 DEF SnapshotsAreNoted
<1>6. OnePageScan(w)'
  <2>1. \A e \in page : snaps[e].content # "bad"
    BY <1>3, <1>4 DEF DeliveryInv
  <2> QED BY <1>2, <2>1 DEF OnePageScan
<1>7. LeavesCutFromBatch(w)' /\ AckOnlyTaken(w)'
  BY <1>1, <1>2 DEF LeavesCutFromBatch, AckOnlyTaken
<1> QED BY <1>5, <1>6, <1>7 DEF WorkerInv

LEMMA ConvertPageInv ==
  ASSUME TypeInv, DeliveryInv, NEW w \in Workers, ConvertPage(w), Monotone
  PROVE  WorkerInv(w)'
<1> DEFINE page == cycle[w].page
<1>1. /\ cycle[w].seen = {} /\ cycle[w].batch = {}
      /\ SnapshotsAreNoted(w) /\ LeavesCutFromBatch(w)
      /\ \A e \in page : Convertible(w, cycle[w].snap[e].content)
      /\ page \in SUBSET Events
  BY DEF ConvertPage, DeliveryInv, WorkerInv, OnePageScan, Convertible, TypeInv,
     TypeOK, Cycle
<1>2. pc'[w] = "gather"
  <2>1. IsFiniteSet(page) /\ Cardinality(page) \in Nat
    BY <1>1, RecordsAssumption, FS_Subset, FS_CardinalityType DEF Records
  <2>2. Cardinality({}) = 0
    BY FS_EmptySet
  <2>3. RoomInPage(w) = BatchSize
    BY <1>1, <2>2, LimitsAssumption DEF RoomInPage
  <2>4. pc' = [pc EXCEPT ![w] = "gather"]
    <3> DEFINE new   == page \ cycle[w].seen
               good  == {e \in new : Convertible(w, cycle[w].snap[e].content)}
               seen  == cycle[w].seen \cup new
               batch == cycle[w].batch \cup good
               ended == \/ new = {} \/ Cardinality(page) < RoomInPage(w)
                        \/ Cardinality(batch) >= BatchSize \/ Cardinality(seen) >= ScanLimit
    <3>1. batch = page
      BY <1>1
    <3> HIDE DEF page, batch
    <3>2. Cardinality(page) < RoomInPage(w) \/ Cardinality(batch) >= BatchSize
      BY <2>1, <2>3, <3>1, LimitsAssumption
    <3>3. Go(w, IF ended THEN "gather" ELSE "scan")
      BY DEF ConvertPage, page, batch
    <3> QED BY <3>2, <3>3 DEF Go
  <2> QED BY <2>4 DEF TypeInv, TypeOK
<1>3. /\ cycle'[w].page = {}
      /\ cycle'[w].batch = page
      /\ cycle'[w].stack = cycle[w].stack
      /\ cycle'[w].ack = cycle[w].ack
      /\ cycle'[w].snap = cycle[w].snap
  BY <1>1 DEF ConvertPage, TypeInv, TypeOK, Cycle
<1>4. \A r \in page : /\ status'[r] # "absent"
                     /\ cycle[w].ack[r] = cycle[w].snap[r].version
                     /\ cycle[w].snap[r].version <= version'[r]
  BY <1>1 DEF SnapshotsAreNoted, ConvertPage, Monotone, Records
<1>5. SnapshotsAreNoted(w)'
  BY <1>3, <1>4 DEF SnapshotsAreNoted
<1>6. OnePageScan(w)' /\ LeavesCutFromBatch(w)' /\ AckOnlyTaken(w)'
  BY <1>1, <1>2, <1>3 DEF OnePageScan, LeavesCutFromBatch, AckOnlyTaken
<1> QED BY <1>5, <1>6 DEF WorkerInv

LEMMA GatherInv ==
  ASSUME TypeInv, DeliveryInv, NEW w \in Workers, Gather(w)
  PROVE  WorkerInv(w)'
<1> DEFINE tasks  == Oldest(Pending(Tasks), TaskLimit)
           jobs   == Oldest(Pending(Jobs), BatchSize - Cardinality(cycle[w].batch))
           others == tasks \cup jobs \cup Oldest(Pending(Outcomes), BatchSize)
                           \cup Oldest(Pending(Revenues), BatchSize)
           batch  == cycle[w].batch \cup others
           first  == [records |-> batch, identities |-> {t \in tasks : content[t] = "final"}]
           acks   == NoteVersions(w, others)
           snaps  == TakeSnapshots(w, others)
<1>1. CASE batch = {}
  BY <1>1, EndCycleInv DEF Gather
<1>2. CASE batch # {}
  <2>1. /\ others \subseteq Records
        /\ \A r \in others : status[r] = "pending"
    BY OldestSubset DEF Pending, Records
  <2>2. /\ \A r \in others : acks[r] = version[r] /\ snaps[r].version = version[r]
        /\ \A r \in Records \ others : /\ acks[r] = cycle[w].ack[r]
                                     /\ snaps[r] = cycle[w].snap[r]
    BY <2>1 DEF NoteVersions, TakeSnapshots
  <2>3. /\ cycle'[w].page = cycle[w].page
        /\ cycle'[w].batch = batch
        /\ cycle'[w].ack = acks
        /\ cycle'[w].snap = snaps
        /\ cycle'[w].stack = <<first>>
        /\ pc'[w] = "post"
    <3>1. /\ Go(w, "post")
          /\ cycle' = [cycle EXCEPT ![w].seen  = {},
                                    ![w].batch = batch,
                                    ![w].ack   = acks,
                                    ![w].snap  = snaps,
                                    ![w].stack = <<first>>]
      BY <1>2 DEF Gather
    <3> HIDE DEF batch, acks, snaps, first
    <3> QED BY <3>1 DEF Go, TypeInv, TypeOK, Cycle
  <2>4. /\ SnapshotsAreNoted(w) /\ OnePageScan(w)
        /\ cycle[w].page \cup cycle[w].batch \subseteq Records
        /\ cycle[w].page \subseteq Events
        /\ \A r \in others : version[r] \in Nat
    BY <2>1 DEF DeliveryInv, WorkerInv, TypeInv, TypeOK, Cycle, Records
  <2>5. others \cap Events = {}
    BY OldestSubset, RecordsAssumption DEF Pending
  <2>6. UNCHANGED rows
    BY DEF Gather
  <2> HIDE DEF tasks, jobs, others, acks, snaps
  <2>7. SnapshotsAreNoted(w)'
    BY <2>1, <2>2, <2>3, <2>4, <2>6 DEF SnapshotsAreNoted
  <2>8. OnePageScan(w)'
    BY <2>2, <2>3, <2>4, <2>5 DEF OnePageScan
  <2>9. LeavesCutFromBatch(w)' /\ AckOnlyTaken(w)'
    BY <2>3 DEF LeavesCutFromBatch, AckOnlyTaken
  <2> QED BY <2>7, <2>8, <2>9 DEF WorkerInv
<1> QED BY <1>1, <1>2

\* Only the stack of w changed, and it still cuts the batch of w.
LEMMA StackInv ==
  ASSUME TypeInv, TypeInv', Monotone, NEW w \in Workers, WorkerInv(w),
         NEW s \in Seq(Batch), cycle' = [cycle EXCEPT ![w].stack = s],
         \A i \in 1 .. Len(s) : s[i].records \subseteq cycle[w].batch,
         pc[w] \in {"post", "ack"}, pc'[w] \in {"post", "done"}
  PROVE  WorkerInv(w)'
<1>1. cycle'[w] = [cycle[w] EXCEPT !.stack = s] /\ cycle'[w].stack = s
  BY StackUpdate DEF TypeInv
<1>2. /\ cycle'[w].page = cycle[w].page /\ cycle'[w].batch = cycle[w].batch
      /\ cycle'[w].ack = cycle[w].ack /\ cycle'[w].snap = cycle[w].snap
  BY <1>1 DEF TypeInv, TypeOK, Cycle
<1>3. /\ cycle[w].page \cup cycle[w].batch \subseteq Records
      /\ \A r \in Records : cycle[w].snap[r].version \in Nat
  BY DEF TypeInv, TypeOK, Cycle, Snapshots, Records
<1>4. SnapshotsAreNoted(w)'
  BY <1>2, <1>3 DEF WorkerInv, SnapshotsAreNoted, Monotone, TypeInv, TypeOK
<1>5. OnePageScan(w)' /\ LeavesCutFromBatch(w)' /\ AckOnlyTaken(w)'
  BY <1>1, <1>2 DEF WorkerInv, OnePageScan, LeavesCutFromBatch, AckOnlyTaken
<1> QED BY <1>4, <1>5 DEF WorkerInv

LEMMA PopBatchInv ==
  ASSUME TypeInv, TypeInv', Monotone, NEW w \in Workers, WorkerInv(w), PopBatch(w),
         pc[w] \in {"post", "ack"}
  PROVE  WorkerInv(w)'
<1> DEFINE s == cycle[w].stack
<1>1. s \in Seq(Batch) /\ s # <<>>
  BY DEF TypeInv, TypeOK, Cycle, StackNotEmpty
<1>2. /\ Tail(s) \in Seq(Batch) /\ Len(Tail(s)) = Len(s) - 1 /\ Len(s) \in Nat
      /\ \A i \in 1 .. Len(Tail(s)) : Tail(s)[i] = s[i + 1]
  BY <1>1, HeadTailProperties, LenProperties
<1>3. \A i \in 1 .. Len(Tail(s)) : Tail(s)[i].records \subseteq cycle[w].batch
  <2>1. \A i \in 1 .. Len(s) : s[i].records \subseteq cycle[w].batch
    BY DEF WorkerInv, LeavesCutFromBatch
  <2> QED BY <1>2, <2>1
<1>4. cycle' = [cycle EXCEPT ![w].stack = Tail(s)] /\ pc'[w] \in {"post", "done"}
  BY DEF PopBatch, Go, TypeInv, TypeOK
<1> QED BY <1>2, <1>3, <1>4, StackInv

LEMMA SplitBatchInv ==
  ASSUME TypeInv, TypeInv', Monotone, NEW w \in Workers, WorkerInv(w), SplitBatch(w)
  PROVE  WorkerInv(w)'
<1> DEFINE s   == cycle[w].stack
           two == SplitInTwo(Head(s))
           t   == Tail(s)
<1>1. s \in Seq(Batch) /\ s # <<>>
  BY DEF SplitBatch, TypeInv, TypeOK, Cycle, StackNotEmpty
<1>2. /\ Head(s) \in Batch /\ Head(s) = s[1]
      /\ t \in Seq(Batch) /\ Len(t) = Len(s) - 1 /\ Len(s) \in Nat
      /\ \A i \in 1 .. Len(t) : t[i] = s[i + 1]
  BY <1>1, HeadTailProperties, LenProperties
<1>3. two \in Seq(Batch) /\ Len(two) = 2
  BY <1>2, SplitType
<1>4. \A i \in 1 .. Len(s) : s[i].records \subseteq cycle[w].batch
  BY DEF WorkerInv, LeavesCutFromBatch
<1>5. Len(s) >= 1
  BY <1>1, EmptySeq
<1>6. two[1].records \subseteq cycle[w].batch /\ two[2].records \subseteq cycle[w].batch
  <2>1. Head(s).records \subseteq cycle[w].batch
    BY <1>2, <1>4, <1>5
  <2>2. FirstPart(Head(s).records) \subseteq Head(s).records
    BY <1>2, FirstPartSubset DEF Batch
  <2> QED BY <2>1, <2>2 DEF SplitInTwo
<1> HIDE DEF two, t, s
<1>7. /\ two \o t \in Seq(Batch) /\ Len(two \o t) = 2 + Len(t)
      /\ \A i \in 1 .. 2 + Len(t) : (two \o t)[i] = IF i <= 2 THEN two[i] ELSE t[i - 2]
  <2>1. /\ two \o t \in Seq(Batch) /\ Len(two \o t) = Len(two) + Len(t)
        /\ \A i \in 1 .. Len(two) + Len(t) :
             (two \o t)[i] = IF i <= Len(two) THEN two[i] ELSE t[i - Len(two)]
    BY <1>2, <1>3, ConcatProperties, Zenon
  <2> QED BY <1>3, <2>1
<1>8. \A i \in 1 .. Len(two \o t) : (two \o t)[i].records \subseteq cycle[w].batch
  <2> SUFFICES ASSUME NEW i \in 1 .. Len(two \o t)
               PROVE  (two \o t)[i].records \subseteq cycle[w].batch
    OBVIOUS
  <2>1. CASE i <= 2
    <3>1. i = 1 \/ i = 2
      BY <2>1, <1>2, <1>7
    <3> QED BY <3>1, <1>6, <1>7, <2>1
  <2>2. CASE i > 2
    <3>1. i - 2 \in 1 .. Len(t) /\ i - 1 \in 1 .. Len(s) /\ (i - 2) + 1 = i - 1
      BY <2>2, <1>2, <1>7
    <3>2. (two \o t)[i] = t[i - 2]
      BY <2>2, <1>7
    <3>3. t[i - 2] = s[i - 1]
      BY <3>1, <1>2
    <3> QED BY <3>1, <3>2, <3>3, <1>4
  <2> QED BY <2>1, <2>2, <1>2, <1>7
<1>9. /\ cycle' = [cycle EXCEPT ![w].stack = two \o t]
      /\ pc[w] = "post" /\ pc'[w] = "post"
  BY DEF SplitBatch, NextBatch, two, t, s
<1> QED BY <1>7, <1>8, <1>9, StackInv

LEMMA LeafAcceptedInv ==
  ASSUME TypeInv, TypeInv', Monotone, NEW w \in Workers, WorkerInv(w), LeafAccepted(w)
  PROVE  WorkerInv(w)'
<1>1. /\ cycle' = cycle /\ pc'[w] = "ack"
      /\ accepted' = accepted \cup Posted(w, NextBatch(w).records)
  BY DEF LeafAccepted, Accept, Go, TypeInv, TypeOK
<1>2. /\ cycle[w].page \cup cycle[w].batch \subseteq Records
      /\ \A r \in Records : cycle[w].snap[r].version \in Nat
  BY DEF TypeInv, TypeOK, Cycle, Snapshots, Records
<1>3. SnapshotsAreNoted(w)'
  BY <1>1, <1>2 DEF WorkerInv, SnapshotsAreNoted, Monotone, TypeInv, TypeOK
<1>4. OnePageScan(w)' /\ LeavesCutFromBatch(w)'
  BY <1>1 DEF WorkerInv, OnePageScan, LeavesCutFromBatch
<1>5. AckOnlyTaken(w)'
  BY <1>1 DEF AckOnlyTaken, Posted, NextBatch
<1> QED BY <1>3, <1>4, <1>5 DEF WorkerInv

LEMMA AcknowledgeInv ==
  ASSUME TypeInv, TypeInv', Monotone, NEW w \in Workers, WorkerInv(w), Acknowledge(w)
  PROVE  WorkerInv(w)'
<1> DEFINE s     == cycle[w].stack
           group == AckGroup(Head(s).records)
           left  == [s EXCEPT ![1].records = @ \ group]
<1>1. s \in Seq(Batch) /\ s # <<>> /\ pc[w] = "ack"
  BY DEF Acknowledge, TypeInv, TypeOK, Cycle, StackNotEmpty
<1>2. CASE Head(s).records \ group = {}
  <2>1. PopBatch(w)
    BY <1>2 DEF Acknowledge, NextBatch
  <2> QED BY <1>1, <2>1, PopBatchInv
<1>3. CASE Head(s).records \ group # {}
  <2>1. left \in Seq(Batch) /\ Len(left) = Len(s)
    BY <1>1, ShrinkHeadType
  <2>2. cycle' = [cycle EXCEPT ![w].stack = left] /\ pc' = pc
    BY <1>3 DEF Acknowledge, NextBatch
  <2>3. /\ \A i \in 1 .. Len(left) : left[i].records \subseteq s[i].records
        /\ Head(left).records \subseteq Head(s).records
    <3>1. 1 \in DOMAIN s /\ s[1] \in Batch /\ DOMAIN s = 1 .. Len(s)
      BY <1>1
    <3>2. left[1].records = s[1].records \ group
      BY <3>1 DEF Batch
    <3>3. \A i \in 1 .. Len(s) : i # 1 => left[i] = s[i]
      BY <3>1
    <3>4. Head(left) = left[1] /\ Head(s) = s[1]
      <4>1. left # <<>>
        BY <1>1, <2>1, EmptySeq
      <4> QED BY <1>1, <2>1, <4>1
    <3> HIDE DEF left
    <3> QED BY <2>1, <3>1, <3>2, <3>3, <3>4
  <2> HIDE DEF s, left
  <2>4. cycle'[w] = [cycle[w] EXCEPT !.stack = left] /\ cycle'[w].stack = left
    BY <2>1, <2>2, StackUpdate DEF TypeInv
  <2>5. /\ cycle'[w].page = cycle[w].page /\ cycle'[w].batch = cycle[w].batch
        /\ cycle'[w].ack = cycle[w].ack /\ cycle'[w].snap = cycle[w].snap
        /\ cycle'[w].seen = cycle[w].seen
    BY <2>4 DEF TypeInv, TypeOK, Cycle
  <2>6. /\ cycle[w].page \cup cycle[w].batch \subseteq Records
        /\ \A r \in Records : cycle[w].snap[r].version \in Nat
    BY DEF TypeInv, TypeOK, Cycle, Snapshots, Records
  <2>7. SnapshotsAreNoted(w)'
    BY <2>5, <2>6 DEF WorkerInv, SnapshotsAreNoted, Monotone, TypeInv, TypeOK
  <2>8. OnePageScan(w)'
    BY <2>2, <2>5 DEF WorkerInv, OnePageScan
  <2>9. LeavesCutFromBatch(w)'
    BY <2>1, <2>3, <2>4, <2>5 DEF WorkerInv, LeavesCutFromBatch, s
  <2>10. AckOnlyTaken(w)'
    BY <1>1, <2>3, <2>4, <2>5 DEF WorkerInv, AckOnlyTaken, Posted, NextBatch, Monotone, s
  <2> QED BY <2>7, <2>8, <2>9, <2>10 DEF WorkerInv
<1> QED BY <1>2, <1>3

\* What an acknowledgement marks is a version that was accepted.
LEMMA AcknowledgedIsAccepted ==
  ASSUME TypeInv, DeliveryInv, NEW w \in Workers, pc[w] = "ack",
         NEW r \in Unchanged(w, AckGroup(NextBatch(w).records))
  PROVE  r \in Records /\ status[r] = "pending" /\ <<r, version[r]>> \in accepted
<1>1. cycle[w].stack \in Seq(Batch) /\ cycle[w].stack # <<>>
  BY DEF TypeInv, TypeOK, Cycle, StackNotEmpty
<1>2. /\ NextBatch(w) \in Batch /\ NextBatch(w) = cycle[w].stack[1]
      /\ 1 \in 1 .. Len(cycle[w].stack)
  BY <1>1, EmptySeq DEF NextBatch
<1>3. NextBatch(w).records \subseteq cycle[w].batch
  BY <1>2 DEF DeliveryInv, WorkerInv, LeavesCutFromBatch
<1>4. r \in NextBatch(w).records
  BY <1>2, AckGroupSubset DEF Unchanged, Batch
<1>5. version[r] = cycle[w].snap[r].version
  BY <1>3, <1>4 DEF Unchanged, DeliveryInv, WorkerInv, SnapshotsAreNoted
<1>6. <<r, cycle[w].snap[r].version>> \in accepted
  BY <1>4 DEF DeliveryInv, WorkerInv, AckOnlyTaken, Posted
<1> QED BY <1>2, <1>4, <1>5, <1>6 DEF Unchanged, Batch

LEMMA InitDeliveryInv == Init => DeliveryInv /\ SyncedIsAccepted
<1> SUFFICES ASSUME Init PROVE DeliveryInv /\ SyncedIsAccepted
  OBVIOUS
<1>1. Len(<<>>) = 0
  BY EmptySeq
<1>2. \A e \in Events : content[e] # "bad"
  BY DEF Init, Records
<1>3. ASSUME NEW w \in Workers PROVE WorkerInv(w)
  BY <1>1 DEF Init, NoCycle, WorkerInv, SnapshotsAreNoted, OnePageScan,
     LeavesCutFromBatch, AckOnlyTaken
<1>4. SyncedIsAccepted
  BY DEF Init, SyncedIsAccepted
<1> QED BY <1>2, <1>3, <1>4 DEF DeliveryInv

LEMMA NextDeliveryInv ==
  ASSUME "bad" \notin EventContents, TypeInv, DeliveryInv, [Next]_vars
  PROVE  DeliveryInv'
<1>1. TypeInv' /\ Monotone
  BY NextTypeInv, StepMonotone
<1>2. version' \in [Records -> Nat]
  BY <1>1 DEF TypeInv, TypeOK
<1>3. \A w \in Workers : WorkerInv(w)
  BY DEF DeliveryInv
<1>4. ASSUME NEW r \in Records, NEW c \in Contents, Insert(r, c) \/ Update(r, c)
      PROVE  DeliveryInv'
  <2>1. \A e \in Events : content'[e] # "bad"
    <3>1. c \in ContentsOf(r) /\ content' = [content EXCEPT ![r] = c]
      BY <1>4 DEF Insert, Update
    <3>2. r \in Events => c # "bad"
      BY <3>1, RecordsAssumption DEF ContentsOf
    <3> QED BY <3>1, <3>2 DEF DeliveryInv, TypeInv, TypeOK
  <2>2. pc' = pc /\ cycle' = cycle
    BY <1>4 DEF Insert, Update
  <2> QED BY <1>1, <1>2, <1>3, <2>1, <2>2, SameWorkerInv DEF DeliveryInv
<1>5. ASSUME NEW w \in Workers, Worker(w) \/ ControlPlane(w) \/ Environment(w)
      PROVE  DeliveryInv'
  <2>1. OthersKeep(w) /\ content' = content
    BY <1>5, StepOfOne
  <2>2. \A v \in Workers \ {w} : WorkerInv(v)'
    BY <1>1, <1>2, <1>3, <2>1, SameWorkerInv DEF OthersKeep
  <2>3. WorkerInv(w)'
    <3>1. ASSUME EndCycle(w) PROVE WorkerInv(w)'
      BY <3>1, EndCycleInv
    <3>2. CASE RecoverQuarantined(w) \/ PurgeIfDue(w) \/ Post(w) \/ Restart(w)
      <4>1. /\ cycle'[w] = cycle[w]
            /\ \/ pc'[w] = "await"
               \/ pc[w] \in {"idle", "purge", "down"} /\ pc'[w] # "ack"
        BY <3>2 DEF RecoverQuarantined, PurgeIfDue, Post, Restart, Go, TypeInv, TypeOK
      <4> QED BY <1>1, <1>3, <4>1, MoveOnInv
    <3>3. CASE QueryPage(w)
      BY <3>3, QueryPageInv
    <3>4. CASE ConvertPage(w)
      BY <1>1, <3>4, ConvertPageInv
    <3>5. CASE Gather(w)
      BY <3>5, GatherInv
    <3>6. CASE SplitBatch(w)
      BY <1>1, <1>3, <3>6, SplitBatchInv
    <3>7. CASE QuarantineOversized(w)
      <4>1. PopBatch(w) /\ pc[w] = "post"
        BY <3>7 DEF QuarantineOversized
      <4> QED BY <1>1, <1>3, <4>1, PopBatchInv
    <3>8. CASE Acknowledge(w)
      BY <1>1, <1>3, <3>8, AcknowledgeInv
    <3>9. CASE LeafAccepted(w)
      BY <1>1, <1>3, <3>9, LeafAcceptedInv
    <3>10. CASE FinishCycle(w) \/ LeafNotAccepted(w) \/ StorageFails(w)
      BY <3>1, <3>10 DEF FinishCycle, LeafNotAccepted, StorageFails
    <3>11. CASE Crash(w)
      <4>1. cycle'[w] = NoCycle /\ pc'[w] = "down" /\ Len(<<>>) = 0
        BY <3>11, EmptySeq DEF Crash, Go, TypeInv, TypeOK
      <4> QED BY <4>1 DEF NoCycle, WorkerInv, SnapshotsAreNoted, OnePageScan,
              LeavesCutFromBatch, AckOnlyTaken
    <3> QED BY <1>5, <3>2, <3>3, <3>4, <3>5, <3>6, <3>7, <3>8, <3>9, <3>10, <3>11
      DEF Worker, ControlPlane, Environment
  <2>4. \A e \in Events : content'[e] # "bad"
    BY <2>1 DEF DeliveryInv
  <2> QED BY <2>2, <2>3, <2>4 DEF DeliveryInv
<1>6. CASE UNCHANGED vars
  <2>1. pc' = pc /\ cycle' = cycle /\ content' = content
    BY <1>6 DEF vars
  <2> QED BY <1>1, <1>2, <1>3, <2>1, SameWorkerInv DEF DeliveryInv
<1> QED BY <1>4, <1>5, <1>6 DEF Next, Application

LEMMA NextSyncedIsAccepted ==
  ASSUME TypeInv, DeliveryInv, SyncedIsAccepted, [Next]_vars
  PROVE  SyncedIsAccepted'
<1>1. Monotone
  BY StepMonotone
<1>2. ASSUME NEW r \in Records, NEW c \in Contents, Insert(r, c) \/ Update(r, c)
      PROVE  SyncedIsAccepted'
  BY <1>2 DEF Insert, Update, SetStatus, SyncedIsAccepted, TypeInv, TypeOK
<1>3. ASSUME NEW w \in Workers, Acknowledge(w) PROVE SyncedIsAccepted'
  <2>1. /\ version' = version /\ accepted' = accepted /\ pc[w] = "ack"
        /\ SetStatus(Unchanged(w, AckGroup(NextBatch(w).records)), "synced")
    BY <1>3 DEF Acknowledge
  <2> QED BY <2>1, AcknowledgedIsAccepted DEF SetStatus, SyncedIsAccepted
<1>4. ASSUME NEW w \in Workers, \/ RecoverQuarantined(w) \/ PurgeIfDue(w)
                               \/ ConvertPage(w) \/ QuarantineOversized(w)
      PROVE  SyncedIsAccepted'
  <2>1. accepted' = accepted /\ version' = version
    BY <1>4 DEF RecoverQuarantined, PurgeIfDue, ConvertPage, QuarantineOversized
  <2>2. \A r \in Records : status'[r] \in {"synced", "purged"} =>
                            status[r] \in {"synced", "purged"}
    BY <1>4 DEF RecoverQuarantined, RequeueQuarantined, PurgeIfDue, ConvertPage,
       QuarantineOversized, MarkQuarantined, SetStatus, TypeInv, TypeOK
  <2> QED BY <2>1, <2>2 DEF SyncedIsAccepted
<1>5. ASSUME UNCHANGED rows PROVE SyncedIsAccepted'
  BY <1>1, <1>5 DEF Monotone, SyncedIsAccepted
<1>6. ASSUME NEW w \in Workers, \/ QueryPage(w) \/ Gather(w) \/ SplitBatch(w) \/ Post(w)
                               \/ FinishCycle(w) \/ ControlPlane(w) \/ Environment(w)
      PROVE  UNCHANGED rows
  BY <1>6 DEF QueryPage, Gather, SplitBatch, Post, FinishCycle, ControlPlane, LeafAccepted,
     LeafNotAccepted, Environment, StorageFails, Crash, Restart
<1>7. CASE UNCHANGED vars
  BY <1>5, <1>7 DEF vars
<1> QED BY <1>2, <1>3, <1>4, <1>5, <1>6, <1>7 DEF Next, Application, Worker

\* As long as every event the application writes can be converted, a row is
\* marked synced, or purged, only if the control plane holds the version the
\* row has now: an acknowledgement never consumes a newer write, whatever the
\* interleaving of application threads, workers, failures and crashes.
THEOREM AcknowledgedVersionsWereAccepted ==
  "bad" \notin EventContents => (Spec => []SyncedIsAccepted)
<1> SUFFICES ASSUME "bad" \notin EventContents PROVE Spec => []SyncedIsAccepted
  OBVIOUS
<1> DEFINE Inv == TypeInv /\ DeliveryInv /\ SyncedIsAccepted
<1>1. Init => Inv
  BY InitTypeInv, InitDeliveryInv
<1>2. Inv /\ [Next]_vars => Inv'
  BY NextTypeInv, NextDeliveryInv, NextSyncedIsAccepted
<1>3. Inv => SyncedIsAccepted
  OBVIOUS
<1> HIDE DEF Inv
<1> QED BY <1>1, <1>2, <1>3, PTL DEF Spec
-----------------------------------------------------------------------------
(***************************************************************************)
(* Cutting a batch.                                                        *)
(***************************************************************************)
LEMMA PartsAreFinite ==
  ASSUME NEW R \in SUBSET Records PROVE IsFiniteSet(R) /\ Cardinality(R) \in Nat
BY RecordsAssumption, FS_Subset, FS_CardinalityType

\* The oldest rows of a set are older than the rest of it.
LEMMA OldestAreOlder ==
  ASSUME NEW S \in SUBSET Records, NEW n \in Int,
         NEW p \in Oldest(S, n), NEW q \in S \ Oldest(S, n)
  PROVE  p < q
<1> DEFINE Older(r) == {x \in S : x < r}
<1>1. p \in Nat /\ q \in Nat /\ p # q
  BY RecordsAssumption DEF Oldest
<1>2. SUFFICES ASSUME q < p PROVE FALSE
  BY <1>1
<1>3. Older(q) \subseteq Older(p)
  <2>1. ASSUME NEW x \in Older(q) PROVE x \in Older(p)
    <3>1. x \in S /\ x < q /\ x \in Nat
      BY RecordsAssumption
    <3> QED BY <1>1, <1>2, <3>1
  <2> QED BY <2>1
<1>4. Older(p) \in SUBSET Records /\ Older(q) \in SUBSET Records
  OBVIOUS
<1>5. /\ Cardinality(Older(q)) \in Nat /\ Cardinality(Older(p)) \in Nat
      /\ Cardinality(Older(q)) <= Cardinality(Older(p))
  <2> HIDE DEF Older
  <2>1. IsFiniteSet(Older(p)) /\ Older(q) \in SUBSET Older(p)
    BY <1>3, <1>4, PartsAreFinite
  <2> QED BY <1>4, <2>1, PartsAreFinite, FS_Subset
<1>6. Cardinality(Older(p)) < n /\ ~(Cardinality(Older(q)) < n)
  BY DEF Oldest
<1> HIDE DEF Older
<1> QED BY <1>5, <1>6

LEMMA OlderHalfIsOlder ==
  ASSUME NEW S \in SUBSET Records, NEW p \in OlderHalf(S), NEW q \in S \ OlderHalf(S)
  PROVE  p < q
<1>1. Cardinality(S) \in Nat
  BY PartsAreFinite
<1>2. Cardinality(S) \div 2 \in Int
  BY <1>1
<1> QED BY <1>2, OldestAreOlder DEF OlderHalf

\* p may be posted in an earlier leaf than q.
MayPrecede(p, q) ==
  /\ Stream(p) = Stream(q) => p < q
  /\ ~(p \in Observations /\ q \in Tasks)

LEMMA StreamsDiffer ==
  ASSUME NEW S \in {Events, Jobs, Tasks, Outcomes, Revenues}, NEW p, NEW q,
         Stream(p) = Stream(q)
  PROVE  p \in S <=> q \in S
BY DEF Stream

\* The first part of a batch may be posted before the rest of it.
LEMMA FirstPartPrecedes ==
  ASSUME NEW R \in SUBSET Records, NEW p \in FirstPart(R), NEW q \in R \ FirstPart(R)
  PROVE  MayPrecede(p, q)
<1> DEFINE o == R \cap Observations
           t == R \cap Tasks
           c == R \cap Outcomes
           v == R \cap Revenues
<1>1. /\ o \in SUBSET Records /\ t \in SUBSET Records
      /\ c \in SUBSET Records /\ v \in SUBSET Records
  OBVIOUS
<1>2. /\ Cardinality(o) \in Nat /\ Cardinality(t) \in Nat
      /\ Cardinality(c) \in Nat /\ Cardinality(v) \in Nat
  BY <1>1, PartsAreFinite
<1>3. p \in R /\ q \in R
  BY FirstPartSubset
<1>4. /\ Observations \cap Tasks = {} /\ Observations \cap Outcomes = {}
      /\ Observations \cap Revenues = {}
      /\ Tasks \cap Outcomes = {} /\ Tasks \cap Revenues = {} /\ Outcomes \cap Revenues = {}
  BY RecordsAssumption DEF Observations
<1>5. Stream(p) = Stream(q) => /\ p \in Observations <=> q \in Observations
                               /\ p \in Tasks <=> q \in Tasks
                               /\ p \in Outcomes <=> q \in Outcomes
                               /\ p \in Revenues <=> q \in Revenues
  BY StreamsDiffer DEF Observations
<1>6. /\ OlderHalf(o) \subseteq o /\ OlderHalf(t) \subseteq t
      /\ OlderHalf(c) \subseteq c /\ OlderHalf(v) \subseteq v
  BY OldestSubset DEF OlderHalf
<1>7. R = o \cup t \cup c \cup v
  BY DEF Records, Observations
<1>8. \/ FirstPart(R) = OlderHalf(o) \cup t \cup c \cup v
      \/ FirstPart(R) = OlderHalf(t)
      \/ FirstPart(R) = o \cup t \cup OlderHalf(c)
      \/ FirstPart(R) = o \cup t \cup c \cup OlderHalf(v)
      \/ FirstPart(R) \in {t, c, v}
  <2>1. FirstPart(R) =
          CASE Cardinality(o) > 1 -> OlderHalf(o) \cup t \cup c \cup v
            [] Cardinality(o) <= 1 /\ Cardinality(t) > 1 -> OlderHalf(t)
            [] Cardinality(o) <= 1 /\ Cardinality(t) <= 1 /\ Cardinality(c) > 1
                 -> o \cup t \cup OlderHalf(c)
            [] Cardinality(o) <= 1 /\ Cardinality(t) <= 1 /\ Cardinality(c) <= 1
                 /\ Cardinality(v) > 1 -> o \cup t \cup c \cup OlderHalf(v)
            [] OTHER -> IF t # {} THEN t ELSE IF c # {} THEN c ELSE v
    BY DEF FirstPart
  <2> HIDE DEF o, t, c, v
  <2> QED BY <1>2, <2>1
<1> HIDE DEF o, t, c, v
<1>9. CASE FirstPart(R) = OlderHalf(o) \cup t \cup c \cup v
  <2>1. q \in o \ OlderHalf(o)
    BY <1>3, <1>7, <1>9
  <2>2. p \in Observations => p \in OlderHalf(o)
    BY <1>3, <1>4, <1>9 DEF t, c, v
  <2>3. q \in Observations /\ q \notin Tasks
    BY <2>1, <1>4 DEF o
  <2> QED BY <1>1, <1>5, <2>1, <2>2, <2>3, OlderHalfIsOlder DEF MayPrecede
<1>10. CASE FirstPart(R) = OlderHalf(t)
  <2>1. p \in OlderHalf(t) /\ p \in Tasks /\ p \notin Observations
    BY <1>4, <1>6, <1>10 DEF t
  <2>2. q \in Tasks => q \in t \ OlderHalf(t)
    BY <1>3, <1>10 DEF t
  <2> QED BY <1>1, <1>5, <2>1, <2>2, OlderHalfIsOlder DEF MayPrecede
<1>11. CASE FirstPart(R) = o \cup t \cup OlderHalf(c)
  <2>1. q \notin Observations /\ q \notin Tasks
    BY <1>3, <1>11 DEF o, t
  <2>2. q \in Outcomes => q \in c \ OlderHalf(c)
    BY <1>3, <1>11 DEF c
  <2>3. p \in Outcomes => p \in OlderHalf(c)
    BY <1>4, <1>11 DEF o, t
  <2>4. p \in Observations \/ p \in Tasks \/ p \in Outcomes
    BY <1>6, <1>11 DEF o, t, c
  <2> QED BY <1>1, <1>5, <2>1, <2>2, <2>3, <2>4, OlderHalfIsOlder DEF MayPrecede
<1>12. CASE FirstPart(R) = o \cup t \cup c \cup OlderHalf(v)
  <2>1. q \notin Observations /\ q \notin Tasks /\ q \notin Outcomes
    BY <1>3, <1>12 DEF o, t, c
  <2>2. q \in v \ OlderHalf(v)
    BY <1>3, <1>7, <1>12
  <2>3. p \in Revenues => p \in OlderHalf(v)
    BY <1>4, <1>12 DEF o, t, c
  <2>4. q \in Revenues
    BY <2>2 DEF v
  <2> QED BY <1>1, <1>5, <2>1, <2>2, <2>3, <2>4, OlderHalfIsOlder DEF MayPrecede
<1>13. CASE FirstPart(R) \in {t, c, v}
  BY <1>3, <1>4, <1>5, <1>13 DEF MayPrecede, t, c, v
<1> QED BY <1>8, <1>9, <1>10, <1>11, <1>12, <1>13
-----------------------------------------------------------------------------
(***************************************************************************)
(* What a step leaves of the rows and of what the worker has read, and     *)
(* what it makes of the leaves still to be posted.                         *)
(***************************************************************************)
Grows == /\ accepted \subseteq accepted' /\ identified \subseteq identified'
         /\ \A r \in Records : status[r] # "absent" =>
              /\ status'[r] # "absent" /\ version[r] <= version'[r]
              /\ version'[r] = version[r] => content'[r] = content[r]

LEMMA StepGrows ==
  ASSUME TypeInv, [Next]_vars PROVE Grows
<1>1. Monotone
  BY StepMonotone
<1>2. ASSUME NEW r \in Records, NEW c \in Contents, Insert(r, c) \/ Update(r, c)
      PROVE  Grows
  BY <1>1, <1>2 DEF Insert, Update, SetStatus, Monotone, Grows, TypeInv, TypeOK
<1>3. ASSUME NEW w \in Workers, Worker(w) \/ ControlPlane(w) \/ Environment(w)
      PROVE  Grows
  <2>1. content' = content
    BY <1>3, StepOfOne
  <2>2. identified \subseteq identified'
    BY <1>3 DEF Worker, RecoverQuarantined, PurgeIfDue, QueryPage, ConvertPage, Gather,
       SplitBatch, QuarantineOversized, Post, Acknowledge, FinishCycle, ControlPlane,
       LeafAccepted, LeafNotAccepted, Accept, Environment, StorageFails, Crash, Restart
  <2> QED BY <1>1, <2>1, <2>2 DEF Monotone, Grows
<1>4. CASE UNCHANGED vars
  BY <1>1, <1>4 DEF vars, Monotone, Grows
<1> QED BY <1>2, <1>3, <1>4 DEF Next, Application

SameReads(w) ==
  /\ cycle'[w].page = cycle[w].page /\ cycle'[w].seen = cycle[w].seen
  /\ cycle'[w].batch = cycle[w].batch
  /\ cycle'[w].ack = cycle[w].ack /\ cycle'[w].snap = cycle[w].snap

LEMMA StackFacts ==
  ASSUME TypeInv, NEW w \in Workers
  PROVE  /\ cycle[w].stack \in Seq(Batch) /\ Len(cycle[w].stack) \in Nat
         /\ \A i \in 1 .. Len(cycle[w].stack) : cycle[w].stack[i] \in Batch
         /\ cycle[w].stack # <<>> => Len(cycle[w].stack) >= 1
         /\ cycle[w].stack # <<>> => NextBatch(w) = cycle[w].stack[1]
<1>1. cycle[w].stack \in Seq(Batch)
  BY DEF TypeInv, TypeOK, Cycle
<1> QED BY <1>1, EmptySeq, LenProperties, ElementOfSeq DEF NextBatch

LEMMA NewStack ==
  ASSUME TypeInv, NEW w \in Workers, NEW n \in Seq(Batch),
         cycle' = [cycle EXCEPT ![w].stack = n]
  PROVE  SameReads(w) /\ cycle'[w].stack = n
<1>1. cycle'[w] = [cycle[w] EXCEPT !.stack = n] /\ cycle'[w].stack = n
  BY StackUpdate DEF TypeInv
<1> QED BY <1>1 DEF SameReads, TypeInv, TypeOK, Cycle

LEMMA SplitStack ==
  ASSUME TypeInv, NEW w \in Workers, SplitBatch(w)
  PROVE  LET s == cycle[w].stack
             n == cycle'[w].stack
  IN     /\ SameReads(w) /\ pc' = pc /\ pc[w] = "post"
         /\ s \in Seq(Batch) /\ Len(s) \in Nat \ {0} /\ s[1] \in Batch
         /\ n \in Seq(Batch) /\ Len(n) = Len(s) + 1
         /\ n[1] = SplitInTwo(s[1])[1] /\ n[2] = SplitInTwo(s[1])[2]
         /\ \A i \in 3 .. Len(n) : n[i] = s[i - 1]
<1> DEFINE s   == cycle[w].stack
           n   == cycle'[w].stack
           two == SplitInTwo(s[1])
           t   == Tail(s)
<1>1. s \in Seq(Batch) /\ s # <<>> /\ pc[w] = "post" /\ pc' = pc
  BY DEF SplitBatch, TypeInv, TypeOK, Cycle, StackNotEmpty
<1>2. /\ Head(s) = s[1] /\ s[1] \in Batch /\ Len(s) \in Nat \ {0}
      /\ t \in Seq(Batch) /\ Len(t) = Len(s) - 1
      /\ \A i \in 1 .. Len(t) : t[i] = s[i + 1]
  BY <1>1, EmptySeq, HeadTailProperties, LenProperties
<1>3. two \in Seq(Batch) /\ Len(two) = 2
  BY <1>2, SplitType
<1>4. cycle' = [cycle EXCEPT ![w].stack = two \o t]
  BY <1>2 DEF SplitBatch, NextBatch
<1> HIDE DEF two, t
<1>5. /\ two \o t \in Seq(Batch) /\ Len(two \o t) = Len(two) + Len(t)
      /\ \A i \in 1 .. Len(two) + Len(t) :
           (two \o t)[i] = IF i <= Len(two) THEN two[i] ELSE t[i - Len(two)]
  BY <1>2, <1>3, ConcatProperties, Zenon
<1>6. SameReads(w) /\ n = two \o t
  BY <1>4, <1>5, NewStack
<1>7. Len(n) = Len(s) + 1 /\ n[1] = two[1] /\ n[2] = two[2]
  BY <1>2, <1>3, <1>5, <1>6
<1>8. ASSUME NEW i \in 3 .. Len(n) PROVE n[i] = s[i - 1]
  <2>1. i - 2 \in 1 .. Len(t) /\ (i - 2) + 1 = i - 1 /\ ~(i <= 2)
    BY <1>2, <1>7
  <2>2. n[i] = t[i - 2]
    BY <1>2, <1>3, <1>5, <1>6, <1>7, <2>1
  <2>3. t[i - 2] = s[(i - 2) + 1]
    BY <1>2, <2>1
  <2> QED BY <2>1, <2>2, <2>3
<1> QED BY <1>1, <1>2, <1>5, <1>6, <1>7, <1>8 DEF two

LEMMA PopStack ==
  ASSUME TypeInv, NEW w \in Workers, PopBatch(w), pc[w] \in {"post", "ack"}
  PROVE  LET s == cycle[w].stack
             n == cycle'[w].stack
  IN     /\ SameReads(w) /\ pc'[w] = IF Len(s) = 1 THEN "done" ELSE "post"
         /\ s \in Seq(Batch) /\ Len(s) \in Nat \ {0} /\ s[1] \in Batch
         /\ n \in Seq(Batch) /\ Len(n) = Len(s) - 1
         /\ \A i \in 1 .. Len(n) : n[i] = s[i + 1]
<1> DEFINE s == cycle[w].stack
           n == cycle'[w].stack
<1>1. s \in Seq(Batch) /\ s # <<>>
  BY DEF TypeInv, TypeOK, Cycle, StackNotEmpty
<1>2. /\ s[1] \in Batch /\ Len(s) \in Nat \ {0}
      /\ Tail(s) \in Seq(Batch) /\ Len(Tail(s)) = Len(s) - 1
      /\ \A i \in 1 .. Len(Tail(s)) : Tail(s)[i] = s[i + 1]
  BY <1>1, EmptySeq, HeadTailProperties, LenProperties
<1>3. cycle' = [cycle EXCEPT ![w].stack = Tail(s)]
  BY DEF PopBatch
<1>4. SameReads(w) /\ n = Tail(s)
  BY <1>2, <1>3, NewStack
<1>5. pc'[w] = IF Len(s) = 1 THEN "done" ELSE "post"
  BY DEF PopBatch, Go, TypeInv, TypeOK
<1> QED BY <1>1, <1>2, <1>4, <1>5

LEMMA ShrinkStack ==
  ASSUME TypeInv, NEW w \in Workers, pc[w] = "ack", NEW group,
         cycle' = [cycle EXCEPT ![w].stack[1].records = @ \ group]
  PROVE  LET s == cycle[w].stack
             n == cycle'[w].stack
  IN     /\ SameReads(w)
         /\ s \in Seq(Batch) /\ Len(s) \in Nat \ {0} /\ s[1] \in Batch
         /\ n \in Seq(Batch) /\ Len(n) = Len(s)
         /\ n[1].records = s[1].records \ group /\ n[1].identities = s[1].identities
         /\ \A i \in 2 .. Len(n) : n[i] = s[i]
<1> DEFINE s == cycle[w].stack
           n == cycle'[w].stack
           left == [s EXCEPT ![1].records = @ \ group]
<1>1. s \in Seq(Batch) /\ s # <<>>
  BY DEF TypeInv, TypeOK, Cycle, StackNotEmpty
<1>2. Len(s) \in Nat \ {0} /\ s[1] \in Batch
  BY <1>1, EmptySeq, LenProperties, ElementOfSeq
<1>3. left \in Seq(Batch) /\ Len(left) = Len(s)
  BY <1>1, ShrinkHeadType
<1>4. cycle' = [cycle EXCEPT ![w].stack = left]
  OBVIOUS
<1>5. SameReads(w) /\ n = left
  <2> HIDE DEF left
  <2> QED BY <1>3, <1>4, NewStack
<1>6. /\ left[1].records = s[1].records \ group /\ left[1].identities = s[1].identities
      /\ \A i \in 1 .. Len(s) : i # 1 => left[i] = s[i]
  BY <1>1, <1>2 DEF Batch
<1>7. /\ n \in Seq(Batch) /\ Len(n) = Len(s)
      /\ n[1].records = s[1].records \ group /\ n[1].identities = s[1].identities
      /\ \A i \in 2 .. Len(n) : n[i] = s[i]
  <2> HIDE DEF s, n, left
  <2> QED BY <1>2, <1>3, <1>5, <1>6
<1> HIDE DEF left
<1> QED BY <1>1, <1>2, <1>5, <1>7

(***************************************************************************)
(* Every leaf of the stack n is part of a leaf of the stack s, and keeps   *)
(* the identities of its tasks.                                            *)
(***************************************************************************)
CutFrom(n, s) ==
  \A i \in 1 .. Len(n) : \E j \in 1 .. Len(s) :
    /\ n[i].records \subseteq s[j].records
    /\ s[j].identities \cap n[i].records \subseteq n[i].identities

LEMMA SplitCuts ==
  ASSUME TypeInv, NEW w \in Workers, SplitBatch(w)
  PROVE  CutFrom(cycle'[w].stack, cycle[w].stack)
<1> DEFINE s == cycle[w].stack
           n == cycle'[w].stack
           b == s[1]
<1>1. /\ Len(s) \in Nat \ {0} /\ b \in Batch /\ Len(n) = Len(s) + 1
      /\ n[1] = SplitInTwo(b)[1] /\ n[2] = SplitInTwo(b)[2]
      /\ \A i \in 3 .. Len(n) : n[i] = s[i - 1]
  BY SplitStack
<1> HIDE DEF s, n
<1>2. FirstPart(b.records) \subseteq b.records
  BY <1>1, FirstPartSubset DEF Batch
<1>3. \A i \in {1, 2} : /\ n[i].records \subseteq b.records
                        /\ b.identities \cap n[i].records \subseteq n[i].identities
  BY <1>1, <1>2 DEF SplitInTwo
<1>4. ASSUME NEW i \in 1 .. Len(n)
      PROVE  \E j \in 1 .. Len(s) :
               /\ n[i].records \subseteq s[j].records
               /\ s[j].identities \cap n[i].records \subseteq n[i].identities
  <2>1. CASE i \in {1, 2}
    <3>1. 1 \in 1 .. Len(s)
      BY <1>1
    <3> QED BY <1>3, <2>1, <3>1
  <2>2. CASE i \in 3 .. Len(n)
    <3>1. i - 1 \in 1 .. Len(s) /\ n[i] = s[i - 1]
      BY <1>1, <2>2
    <3> QED BY <3>1
  <2> QED BY <1>1, <2>1, <2>2
<1> QED BY <1>4 DEF CutFrom, s, n

LEMMA PopCuts ==
  ASSUME TypeInv, NEW w \in Workers, PopBatch(w), pc[w] \in {"post", "ack"}
  PROVE  CutFrom(cycle'[w].stack, cycle[w].stack)
<1>1. /\ Len(cycle[w].stack) \in Nat \ {0}
      /\ Len(cycle'[w].stack) = Len(cycle[w].stack) - 1
      /\ \A i \in 1 .. Len(cycle'[w].stack) : cycle'[w].stack[i] = cycle[w].stack[i + 1]
  BY PopStack
<1>2. \A i \in 1 .. Len(cycle'[w].stack) : i + 1 \in 1 .. Len(cycle[w].stack)
  BY <1>1
<1> QED BY <1>1, <1>2 DEF CutFrom

LEMMA ShrinkCuts ==
  ASSUME TypeInv, NEW w \in Workers, pc[w] = "ack", NEW group,
         cycle' = [cycle EXCEPT ![w].stack[1].records = @ \ group]
  PROVE  CutFrom(cycle'[w].stack, cycle[w].stack)
<1> DEFINE s == cycle[w].stack
           n == cycle'[w].stack
<1>1. /\ Len(n) = Len(s)
      /\ n[1].records = s[1].records \ group /\ n[1].identities = s[1].identities
      /\ \A i \in 2 .. Len(n) : n[i] = s[i]
      /\ Len(s) \in Nat
  BY ShrinkStack
<1> HIDE DEF s, n
<1>2. \A i \in 1 .. Len(n) : i = 1 \/ i \in 2 .. Len(n)
  BY <1>1
<1> QED BY <1>1, <1>2 DEF CutFrom, s, n
-----------------------------------------------------------------------------
(***************************************************************************)
(* Leaves are posted in order.                                             *)
(***************************************************************************)
InOrder(s) ==
  \A i, j \in 1 .. Len(s) : i < j =>
    \A p \in s[i].records, q \in s[j].records : MayPrecede(p, q)

LEMMA PostedInOrderIs == PostedInOrder <=> \A w \in Workers : InOrder(cycle[w].stack)
BY DEF PostedInOrder, InOrder, MayPrecede

LEMMA SplitOrder ==
  ASSUME TypeInv, NEW w \in Workers, SplitBatch(w), InOrder(cycle[w].stack)
  PROVE  InOrder(cycle'[w].stack)
<1> DEFINE s == cycle[w].stack
           n == cycle'[w].stack
           R == s[1].records
<1>1. /\ Len(s) \in Nat \ {0} /\ s[1] \in Batch /\ Len(n) = Len(s) + 1
      /\ n[1] = SplitInTwo(s[1])[1] /\ n[2] = SplitInTwo(s[1])[2]
      /\ \A i \in 3 .. Len(n) : n[i] = s[i - 1]
  BY SplitStack
<1>2. InOrder(s)
  OBVIOUS
<1> HIDE DEF s, n
<1>3. R \in SUBSET Records /\ FirstPart(R) \subseteq R
  BY <1>1, FirstPartSubset DEF Batch
<1>4. n[1].records = FirstPart(R) /\ n[2].records = R \ FirstPart(R)
  BY <1>1 DEF SplitInTwo
<1>5. ASSUME NEW i \in 1 .. Len(n), NEW j \in 1 .. Len(n), i < j,
             NEW p \in n[i].records, NEW q \in n[j].records
      PROVE  MayPrecede(p, q)
  <2>1. CASE i = 1 /\ j = 2
    BY <1>3, <1>4, <1>5, <2>1, FirstPartPrecedes
  <2>2. CASE i \in {1, 2} /\ j \in 3 .. Len(n)
    <3>1. 1 \in 1 .. Len(s) /\ j - 1 \in 1 .. Len(s) /\ 1 < j - 1
      BY <1>1, <2>2
    <3>2. p \in s[1].records /\ q \in s[j - 1].records
      BY <1>1, <1>3, <1>4, <1>5, <2>2
    <3> QED BY <1>2, <3>1, <3>2 DEF InOrder
  <2>3. CASE i \in 3 .. Len(n) /\ j \in 3 .. Len(n)
    <3>1. i - 1 \in 1 .. Len(s) /\ j - 1 \in 1 .. Len(s) /\ i - 1 < j - 1
      BY <1>1, <1>5, <2>3
    <3>2. p \in s[i - 1].records /\ q \in s[j - 1].records
      BY <1>1, <1>5, <2>3
    <3> QED BY <1>2, <3>1, <3>2 DEF InOrder
  <2> QED BY <1>1, <1>5, <2>1, <2>2, <2>3
<1> QED BY <1>5 DEF InOrder, n

LEMMA PopOrder ==
  ASSUME TypeInv, NEW w \in Workers, PopBatch(w), pc[w] \in {"post", "ack"},
         InOrder(cycle[w].stack)
  PROVE  InOrder(cycle'[w].stack)
<1> DEFINE s == cycle[w].stack
           n == cycle'[w].stack
<1>1. /\ Len(s) \in Nat \ {0} /\ Len(n) = Len(s) - 1
      /\ \A i \in 1 .. Len(n) : n[i] = s[i + 1]
  BY PopStack
<1>2. InOrder(s)
  OBVIOUS
<1> HIDE DEF s, n
<1>3. \A i \in 1 .. Len(n) : i + 1 \in 1 .. Len(s)
  BY <1>1
<1>4. \A i, j \in 1 .. Len(n) : i < j => i + 1 < j + 1
  BY <1>1
<1> QED BY <1>1, <1>2, <1>3, <1>4 DEF InOrder, n

LEMMA ShrinkOrder ==
  ASSUME TypeInv, NEW w \in Workers, pc[w] = "ack", NEW group,
         cycle' = [cycle EXCEPT ![w].stack[1].records = @ \ group],
         InOrder(cycle[w].stack)
  PROVE  InOrder(cycle'[w].stack)
<1> DEFINE s == cycle[w].stack
           n == cycle'[w].stack
<1>1. /\ Len(s) \in Nat \ {0} /\ Len(n) = Len(s)
      /\ n[1].records = s[1].records \ group
      /\ \A i \in 2 .. Len(n) : n[i] = s[i]
  BY ShrinkStack
<1>2. InOrder(s)
  OBVIOUS
<1> HIDE DEF s, n
<1>3. \A i \in 1 .. Len(n) : n[i].records \subseteq s[i].records
  BY <1>1
<1> QED BY <1>1, <1>2, <1>3 DEF InOrder, n

LEMMA StackOfOthers ==
  ASSUME TypeInv, NEW w \in Workers, QueryPage(w) \/ ConvertPage(w)
  PROVE  cycle'[w].stack = cycle[w].stack
BY DEF QueryPage, ConvertPage, TypeInv, TypeOK, Cycle

\* What a batch that is not empty is gathered into.
LEMMA Gathered ==
  ASSUME TypeInv, NEW w \in Workers, Gather(w), ~EndCycle(w)
  PROVE  LET tasks  == Oldest(Pending(Tasks), TaskLimit)
             jobs   == Oldest(Pending(Jobs), BatchSize - Cardinality(cycle[w].batch))
             others == tasks \cup jobs \cup Oldest(Pending(Outcomes), BatchSize)
                             \cup Oldest(Pending(Revenues), BatchSize)
             final  == {t \in tasks : content[t] = "final"}
             batch  == cycle[w].batch \cup others
         IN  /\ cycle'[w].page = cycle[w].page /\ cycle'[w].batch = batch
             /\ cycle'[w].ack = NoteVersions(w, others)
             /\ cycle'[w].snap = TakeSnapshots(w, others)
             /\ cycle'[w].stack = <<[records |-> batch, identities |-> final]>>
             /\ pc[w] = "gather" /\ pc'[w] = "post" /\ UNCHANGED <<rows, server>>
<1> DEFINE tasks  == Oldest(Pending(Tasks), TaskLimit)
           jobs   == Oldest(Pending(Jobs), BatchSize - Cardinality(cycle[w].batch))
           others == tasks \cup jobs \cup Oldest(Pending(Outcomes), BatchSize)
                           \cup Oldest(Pending(Revenues), BatchSize)
           batch  == cycle[w].batch \cup others
           first  == [records |-> batch, identities |-> {t \in tasks : content[t] = "final"}]
           acks   == NoteVersions(w, others)
           snaps  == TakeSnapshots(w, others)
<1>1. /\ Go(w, "post")
      /\ cycle' = [cycle EXCEPT ![w].seen  = {},
                                ![w].batch = batch,
                                ![w].ack   = acks,
                                ![w].snap  = snaps,
                                ![w].stack = <<first>>]
  BY DEF Gather
<1>2. /\ cycle'[w].page = cycle[w].page /\ cycle'[w].batch = batch
      /\ cycle'[w].ack = acks /\ cycle'[w].snap = snaps /\ cycle'[w].stack = <<first>>
      /\ pc'[w] = "post"
  <2> HIDE DEF batch, acks, snaps, first
  <2> QED BY <1>1 DEF Go, TypeInv, TypeOK, Cycle
<1> HIDE DEF others
<1> QED BY <1>2 DEF Gather, others

\* A stack of one leaf is in order.
LEMMA ShortIsInOrder == InOrder(<<>>) /\ \A b : InOrder(<<b>>)
<1>1. Len(<<>>) = 0
  BY EmptySeq
<1>2. ASSUME NEW b PROVE Len(<<b>>) = 1
  OBVIOUS
<1> QED BY <1>1, <1>2 DEF InOrder

LEMMA NextPostedInOrder ==
  ASSUME TypeInv, PostedInOrder, [Next]_vars PROVE PostedInOrder'
<1>1. \A w \in Workers : InOrder(cycle[w].stack)
  BY PostedInOrderIs
<1>2. ASSUME NEW w \in Workers, Worker(w) \/ ControlPlane(w) \/ Environment(w)
      PROVE  InOrder(cycle'[w].stack)
  <2>1. ASSUME cycle'[w].stack = cycle[w].stack PROVE InOrder(cycle'[w].stack)
    BY <1>1, <2>1
  <2>2. ASSUME NEW b, cycle'[w].stack \in {<<>>, <<b>>} PROVE InOrder(cycle'[w].stack)
    BY <2>2, ShortIsInOrder
  <2>3. ASSUME cycle'[w] = NoCycle PROVE InOrder(cycle'[w].stack)
    BY <2>2, <2>3 DEF NoCycle
  <2>4. ASSUME EndCycle(w) PROVE InOrder(cycle'[w].stack)
    BY <2>3, <2>4 DEF EndCycle, TypeInv, TypeOK
  <2>5. CASE RecoverQuarantined(w) \/ PurgeIfDue(w) \/ Post(w) \/ LeafAccepted(w) \/ Restart(w)
    BY <2>1, <2>5 DEF RecoverQuarantined, PurgeIfDue, Post, LeafAccepted, Restart
  <2>6. CASE QueryPage(w) \/ ConvertPage(w)
    BY <2>1, <2>6, StackOfOthers
  <2>7. CASE Gather(w)
    <3>1. CASE EndCycle(w)
      BY <2>4, <3>1
    <3>2. CASE ~EndCycle(w)
      <4>1. \E b : cycle'[w].stack = <<b>>
        BY <2>7, <3>2, Gathered
      <4> QED BY <2>2, <4>1
    <3> QED BY <3>1, <3>2
  <2>8. CASE SplitBatch(w)
    BY <1>1, <2>8, SplitOrder
  <2>9. CASE QuarantineOversized(w)
    BY <1>1, <2>9, PopOrder DEF QuarantineOversized
  <2>10. CASE Acknowledge(w)
    <3>1. pc[w] = "ack"
      BY <2>10 DEF Acknowledge
    <3>2. CASE PopBatch(w)
      BY <1>1, <3>1, <3>2, PopOrder
    <3>3. CASE ~PopBatch(w)
      <4>1. PICK group : cycle' = [cycle EXCEPT ![w].stack[1].records = @ \ group]
        BY <2>10, <3>3 DEF Acknowledge
      <4> QED BY <1>1, <3>1, <4>1, ShrinkOrder
    <3> QED BY <3>2, <3>3
  <2>11. CASE FinishCycle(w) \/ LeafNotAccepted(w) \/ StorageFails(w)
    BY <2>4, <2>11 DEF FinishCycle, LeafNotAccepted, StorageFails
  <2>12. CASE Crash(w)
    BY <2>3, <2>12 DEF Crash, TypeInv, TypeOK
  <2> QED BY <1>2, <2>5, <2>6, <2>7, <2>8, <2>9, <2>10, <2>11, <2>12
          DEF Worker, ControlPlane, Environment
<1>3. ASSUME NEW w \in Workers, Worker(w) \/ ControlPlane(w) \/ Environment(w)
      PROVE  PostedInOrder'
  BY <1>1, <1>2, <1>3, StepOfOne, PostedInOrderIs DEF OthersKeep, PostedInOrder, InOrder, MayPrecede
<1>4. ASSUME cycle' = cycle PROVE PostedInOrder'
  BY <1>4 DEF PostedInOrder
<1>5. CASE Application \/ UNCHANGED vars
  BY <1>4, <1>5 DEF Application, Insert, Update, vars
<1> QED BY <1>3, <1>5 DEF Next

\* In whatever way a batch is cut, tasks are posted before events and each stream in the
\* order of its query, for any batch, any sets of records and any limits, with events that
\* do not convert and workers that share the buffer included (_post_with_split).
THEOREM LeavesArePostedInOrder == Spec => []PostedInOrder
<1>1. Init => PostedInOrder
  <2>1. Len(<<>>) = 0
    BY EmptySeq
  <2> QED BY <2>1 DEF Init, NoCycle, PostedInOrder
<1>2. TypeInv /\ PostedInOrder /\ [Next]_vars => TypeInv' /\ PostedInOrder'
  BY NextTypeInv, NextPostedInOrder
<1> QED BY InitTypeInv, <1>1, <1>2, PTL DEF Spec
-----------------------------------------------------------------------------
(***************************************************************************)
(* What holds of the rows a cycle reads once, those of every stream but    *)
(* the events, although pages of events are read again.                    *)
(***************************************************************************)
\* The versions noted for these rows are those that were read.
ReadOnceIsNoted(w) ==
  \A r \in cycle[w].batch \ Events :
    /\ status[r] # "absent"
    /\ cycle[w].ack[r] = cycle[w].snap[r].version
    /\ cycle[w].snap[r].version <= version[r]
    /\ version[r] = cycle[w].snap[r].version => content[r] = cycle[w].snap[r].content

\* Before it is gathered a batch holds events only, and nothing is cut yet.
Early == {"idle", "purge", "scan", "convert", "gather", "down"}

NothingIsCutYet(w) ==
  pc[w] \in Early => cycle[w].batch \subseteq Events /\ cycle[w].stack = <<>>

FinishedTasks(w, R) == {t \in R \cap Tasks : cycle[w].snap[t].content = "final"}

\* A leaf carries the identities of the finished tasks in it.
LeavesCarryIdentities(w) ==
  \A i \in 1 .. Len(cycle[w].stack) :
    FinishedTasks(w, cycle[w].stack[i].records) \subseteq cycle[w].stack[i].identities

\* A leaf to be acknowledged was taken, with those identities.
LeafWasTaken(w) ==
  pc[w] = "ack" =>
    /\ Posted(w, NextBatch(w).records) \subseteq accepted
    /\ Posted(w, FinishedTasks(w, NextBatch(w).records)) \subseteq identified

LeafInv(w) == /\ ReadOnceIsNoted(w) /\ NothingIsCutYet(w) /\ LeavesCutFromBatch(w)
              /\ LeavesCarryIdentities(w) /\ LeafWasTaken(w)

\* A worker that has no leaf yet.
LEMMA EarlyLeafInv ==
  ASSUME NEW w \in Workers, cycle'[w].batch \subseteq Events, cycle'[w].stack = <<>>,
         pc'[w] # "ack"
  PROVE  LeafInv(w)'
<1>1. Len(<<>>) = 0
  BY EmptySeq
<1> QED BY <1>1 DEF LeafInv, ReadOnceIsNoted, NothingIsCutYet, LeavesCutFromBatch,
        LeavesCarryIdentities, LeafWasTaken

LEMMA ReadOnceStaysNoted ==
  ASSUME TypeInv, Grows, NEW w \in Workers, ReadOnceIsNoted(w), SameReads(w),
         version' \in [Records -> Nat]
  PROVE  ReadOnceIsNoted(w)'
<1> SUFFICES ASSUME NEW r \in cycle[w].batch \ Events
             PROVE  /\ status'[r] # "absent"
                    /\ cycle[w].ack[r] = cycle[w].snap[r].version
                    /\ cycle[w].snap[r].version <= version'[r]
                    /\ version'[r] = cycle[w].snap[r].version =>
                         content'[r] = cycle[w].snap[r].content
  BY DEF ReadOnceIsNoted, SameReads
<1>1. /\ r \in Records /\ cycle[w].snap[r].version \in Nat
      /\ version[r] \in Nat /\ version'[r] \in Nat
  BY DEF TypeInv, TypeOK, Cycle, Snapshots
<1> QED BY <1>1 DEF ReadOnceIsNoted, Grows

\* A worker whose leaves are cut from those it had.
LEMMA LeafStays ==
  ASSUME TypeInv, TypeInv', Grows, NEW w \in Workers, LeafInv(w), SameReads(w),
         CutFrom(cycle'[w].stack, cycle[w].stack),
         pc'[w] \in Early => pc[w] \in Early /\ cycle'[w].stack = cycle[w].stack,
         LeafWasTaken(w)'
  PROVE  LeafInv(w)'
<1>1. ReadOnceIsNoted(w)'
  BY ReadOnceStaysNoted DEF LeafInv, TypeInv, TypeOK
<1>2. NothingIsCutYet(w)'
  BY DEF LeafInv, NothingIsCutYet, SameReads
<1>3. ASSUME NEW i \in 1 .. Len(cycle'[w].stack)
      PROVE  /\ cycle'[w].stack[i].records \subseteq cycle[w].batch
             /\ FinishedTasks(w, cycle'[w].stack[i].records)
                  \subseteq cycle'[w].stack[i].identities
  <2>1. PICK j \in 1 .. Len(cycle[w].stack) :
          /\ cycle'[w].stack[i].records \subseteq cycle[w].stack[j].records
          /\ cycle[w].stack[j].identities \cap cycle'[w].stack[i].records
               \subseteq cycle'[w].stack[i].identities
    BY DEF CutFrom
  <2>2. cycle[w].stack[j].records \subseteq cycle[w].batch
    BY DEF LeafInv, LeavesCutFromBatch
  <2>3. FinishedTasks(w, cycle[w].stack[j].records) \subseteq cycle[w].stack[j].identities
    BY DEF LeafInv, LeavesCarryIdentities
  <2> QED BY <2>1, <2>2, <2>3 DEF FinishedTasks
<1>4. LeavesCutFromBatch(w)' /\ LeavesCarryIdentities(w)'
  BY <1>3 DEF LeavesCutFromBatch, LeavesCarryIdentities, FinishedTasks, SameReads
<1> QED BY <1>1, <1>2, <1>4 DEF LeafInv

LEMMA SameStackCuts ==
  ASSUME NEW s PROVE CutFrom(s, s)
BY DEF CutFrom

\* A worker that does not move.
LEMMA SameLeafInv ==
  ASSUME TypeInv, TypeInv', Grows, NEW w \in Workers, LeafInv(w),
         pc'[w] = pc[w], cycle'[w] = cycle[w]
  PROVE  LeafInv(w)'
<1>1. LeafWasTaken(w)'
  BY DEF LeafInv, LeafWasTaken, Posted, NextBatch, FinishedTasks, Grows
<1> QED BY <1>1, SameStackCuts, LeafStays DEF SameReads

LEMMA GatherLeafInv ==
  ASSUME TypeInv, NEW w \in Workers, LeafInv(w), Gather(w), ~EndCycle(w)
  PROVE  LeafInv(w)'
<1> DEFINE tasks  == Oldest(Pending(Tasks), TaskLimit)
           jobs   == Oldest(Pending(Jobs), BatchSize - Cardinality(cycle[w].batch))
           others == tasks \cup jobs \cup Oldest(Pending(Outcomes), BatchSize)
                           \cup Oldest(Pending(Revenues), BatchSize)
           final  == {t \in tasks : content[t] = "final"}
           batch  == cycle[w].batch \cup others
           acks   == NoteVersions(w, others)
           snaps  == TakeSnapshots(w, others)
           first  == [records |-> batch, identities |-> final]
<1>1. /\ cycle'[w].batch = batch /\ cycle'[w].ack = acks /\ cycle'[w].snap = snaps
      /\ cycle'[w].stack = <<first>>
      /\ pc[w] = "gather" /\ pc'[w] = "post" /\ UNCHANGED rows
  BY Gathered
<1>2. others \subseteq Records /\ \A r \in others : status[r] = "pending"
  BY OldestSubset DEF Pending, Records
<1>3. cycle[w].batch \subseteq Events
  BY <1>1 DEF LeafInv, NothingIsCutYet, Early
<1>4. \A r \in others : /\ acks[r] = version[r] /\ snaps[r].version = version[r]
                        /\ snaps[r].content = content[r] /\ version[r] \in Nat
  BY <1>2 DEF NoteVersions, TakeSnapshots, TypeInv, TypeOK
<1>5. batch \cap Tasks \subseteq tasks
  BY <1>3, OldestSubset, RecordsAssumption DEF Pending
<1>6. ReadOnceIsNoted(w)'
  <2> HIDE DEF others, acks, snaps
  <2> QED BY <1>1, <1>2, <1>3, <1>4 DEF ReadOnceIsNoted
<1>7. {t \in batch \cap Tasks : snaps[t].content = "final"} \subseteq final
  <2>1. tasks \subseteq others
    OBVIOUS
  <2> HIDE DEF tasks, others, batch, snaps
  <2> QED BY <1>4, <1>5, <2>1
<1>8. \A i \in 1 .. Len(<<first>>) : <<first>>[i] = first
  <2> HIDE DEF first
  <2> QED OBVIOUS
<1> HIDE DEF tasks, others, batch, snaps, acks, final
<1>9. LeavesCutFromBatch(w)' /\ LeavesCarryIdentities(w)'
  BY <1>1, <1>7, <1>8 DEF LeavesCutFromBatch, LeavesCarryIdentities, FinishedTasks
<1>10. NothingIsCutYet(w)' /\ LeafWasTaken(w)'
  BY <1>1 DEF NothingIsCutYet, LeafWasTaken, Early
<1> QED BY <1>6, <1>9, <1>10 DEF LeafInv

LEMMA AcceptedLeafInv ==
  ASSUME TypeInv, TypeInv', Grows, NEW w \in Workers, LeafInv(w), LeafAccepted(w)
  PROVE  LeafInv(w)'
<1>1. /\ cycle' = cycle /\ pc'[w] = "ack" /\ pc[w] = "await"
      /\ accepted' = accepted \cup Posted(w, NextBatch(w).records)
      /\ identified' = identified \cup
           Posted(w, NextBatch(w).records \cap NextBatch(w).identities)
  BY DEF LeafAccepted, Accept, Go, TypeInv, TypeOK
<1>2. 1 \in 1 .. Len(cycle[w].stack) /\ NextBatch(w) = cycle[w].stack[1]
  BY <1>1, StackFacts DEF TypeInv, StackNotEmpty
<1>3. FinishedTasks(w, NextBatch(w).records) \subseteq NextBatch(w).identities
  BY <1>2 DEF LeafInv, LeavesCarryIdentities
<1>4. LeafWasTaken(w)'
  BY <1>1, <1>3 DEF LeafWasTaken, FinishedTasks, Posted, NextBatch
<1>5. SameReads(w) /\ CutFrom(cycle'[w].stack, cycle[w].stack)
  BY <1>1, SameStackCuts DEF SameReads
<1> QED BY <1>1, <1>4, <1>5, LeafStays DEF Early

LEMMA AcknowledgeLeafInv ==
  ASSUME TypeInv, TypeInv', Grows, NEW w \in Workers, LeafInv(w), Acknowledge(w)
  PROVE  LeafInv(w)'
<1>1. pc[w] = "ack" /\ accepted' = accepted /\ identified' = identified
  BY DEF Acknowledge
<1>2. CASE PopBatch(w)
  <2>1. SameReads(w) /\ pc'[w] \in {"done", "post"}
    BY <1>1, <1>2, PopStack
  <2>2. CutFrom(cycle'[w].stack, cycle[w].stack)
    BY <1>1, <1>2, PopCuts
  <2> QED BY <2>1, <2>2, LeafStays DEF LeafWasTaken, Early
<1>3. CASE ~PopBatch(w)
  <2>1. PICK group : cycle' = [cycle EXCEPT ![w].stack[1].records = @ \ group]
    BY <1>3 DEF Acknowledge
  <2>2. pc' = pc
    BY <1>3 DEF Acknowledge
  <2>3. SameReads(w) /\ CutFrom(cycle'[w].stack, cycle[w].stack)
    BY <1>1, <2>1, ShrinkStack, ShrinkCuts
  <2>4. /\ cycle'[w].stack[1].records \subseteq cycle[w].stack[1].records
        /\ Len(cycle'[w].stack) = Len(cycle[w].stack)
    BY <1>1, <2>1, ShrinkStack
  <2>5. NextBatch(w) = cycle[w].stack[1] /\ NextBatch(w)' = cycle'[w].stack[1]
    <3>1. cycle[w].stack # <<>> /\ cycle'[w].stack # <<>>
      BY <1>1, <2>2 DEF TypeInv, StackNotEmpty
    <3> QED BY <3>1 DEF NextBatch
  <2>6. LeafWasTaken(w)'
    BY <1>1, <2>2, <2>3, <2>4, <2>5
       DEF LeafInv, LeafWasTaken, FinishedTasks, Posted, SameReads
  <2> QED BY <1>1, <2>2, <2>3, <2>6, LeafStays DEF Early
<1> QED BY <1>2, <1>3

LEMMA WorkerLeafInv ==
  ASSUME TypeInv, TypeInv', Grows, NEW w \in Workers, LeafInv(w),
         Worker(w) \/ ControlPlane(w) \/ Environment(w)
  PROVE  LeafInv(w)'
<1>1. ASSUME cycle'[w] = NoCycle, pc'[w] # "ack" PROVE LeafInv(w)'
  BY <1>1, EarlyLeafInv DEF NoCycle
<1>2. ASSUME EndCycle(w) PROVE LeafInv(w)'
  BY <1>1, <1>2 DEF EndCycle, Go, TypeInv, TypeOK
<1>3. CASE RecoverQuarantined(w) \/ PurgeIfDue(w) \/ Post(w) \/ Restart(w)
  <2>1. /\ cycle'[w] = cycle[w] /\ pc'[w] # "ack"
        /\ pc'[w] \in Early => pc[w] \in Early
    BY <1>3 DEF RecoverQuarantined, PurgeIfDue, Post, Restart, Go, Early, TypeInv, TypeOK
  <2> QED BY <2>1, SameStackCuts, LeafStays DEF LeafWasTaken, SameReads
<1>4. CASE QueryPage(w) \/ ConvertPage(w)
  <2>1. pc[w] \in {"scan", "convert"} /\ cycle'[w].stack = cycle[w].stack
    BY <1>4, StackOfOthers DEF QueryPage, ConvertPage
  <2>2. cycle[w].batch \subseteq Events /\ cycle[w].stack = <<>>
    BY <2>1 DEF LeafInv, NothingIsCutYet, Early
  <2>3. pc'[w] # "ack"
    BY <1>4 DEF QueryPage, ConvertPage, Go, TypeInv, TypeOK
  <2>4. CASE QueryPage(w)
    BY <2>1, <2>2, <2>3, <2>4, EarlyLeafInv DEF QueryPage, TypeInv, TypeOK, Cycle
  <2>5. CASE ConvertPage(w)
    <3>1. cycle[w].page \subseteq Events
      BY DEF TypeInv, TypeOK, Cycle
    <3>2. cycle'[w].batch \subseteq cycle[w].batch \cup cycle[w].page
      BY <2>5 DEF ConvertPage, TypeInv, TypeOK, Cycle
    <3> QED BY <2>1, <2>2, <2>3, <3>1, <3>2, EarlyLeafInv
  <2> QED BY <1>4, <2>4, <2>5
<1>5. CASE Gather(w)
  BY <1>2, <1>5, GatherLeafInv
<1>6. CASE SplitBatch(w)
  <2>1. SameReads(w) /\ pc' = pc /\ pc[w] = "post"
    BY <1>6, SplitStack
  <2>2. CutFrom(cycle'[w].stack, cycle[w].stack)
    BY <1>6, SplitCuts
  <2> QED BY <2>1, <2>2, LeafStays DEF LeafWasTaken, Early
<1>7. CASE QuarantineOversized(w)
  <2>1. PopBatch(w) /\ pc[w] = "post"
    BY <1>7 DEF QuarantineOversized
  <2>2. SameReads(w) /\ pc'[w] \in {"done", "post"}
    BY <2>1, PopStack
  <2>3. CutFrom(cycle'[w].stack, cycle[w].stack)
    BY <2>1, PopCuts
  <2> QED BY <2>2, <2>3, LeafStays DEF LeafWasTaken, Early
<1>8. CASE LeafAccepted(w)
  BY <1>8, AcceptedLeafInv
<1>9. CASE Acknowledge(w)
  BY <1>9, AcknowledgeLeafInv
<1>10. CASE FinishCycle(w) \/ LeafNotAccepted(w) \/ StorageFails(w)
  BY <1>2, <1>10 DEF FinishCycle, LeafNotAccepted, StorageFails
<1>11. CASE Crash(w)
  BY <1>1, <1>11 DEF Crash, Go, TypeInv, TypeOK
<1> QED BY <1>3, <1>4, <1>5, <1>6, <1>7, <1>8, <1>9, <1>10, <1>11
        DEF Worker, ControlPlane, Environment

LEMMA NextLeafInv ==
  ASSUME TypeInv, \A w \in Workers : LeafInv(w), [Next]_vars
  PROVE  \A w \in Workers : LeafInv(w)'
<1>1. TypeInv' /\ Grows
  BY NextTypeInv, StepGrows
<1>2. ASSUME NEW w \in Workers, Worker(w) \/ ControlPlane(w) \/ Environment(w)
      PROVE  \A v \in Workers : LeafInv(v)'
  BY <1>1, <1>2, WorkerLeafInv, SameLeafInv, StepOfOne DEF OthersKeep
<1>3. ASSUME pc' = pc, cycle' = cycle PROVE \A v \in Workers : LeafInv(v)'
  BY <1>1, <1>3, SameLeafInv
<1>4. CASE Application \/ UNCHANGED vars
  BY <1>3, <1>4 DEF Application, Insert, Update, vars
<1> QED BY <1>2, <1>4 DEF Next

\* What a worker marks as synced is in the leaf it acknowledges.
LEMMA NewlySynced ==
  ASSUME TypeInv, NEW w \in Workers, Worker(w) \/ ControlPlane(w) \/ Environment(w),
         NEW r \in Records, status'[r] = "synced", status[r] # "synced"
  PROVE  pc[w] = "ack" /\ r \in Unchanged(w, AckGroup(NextBatch(w).records))
<1>1. CASE Acknowledge(w)
  BY <1>1 DEF Acknowledge, SetStatus
<1>2. CASE RecoverQuarantined(w) \/ PurgeIfDue(w) \/ ConvertPage(w) \/ QuarantineOversized(w)
  BY <1>2 DEF RecoverQuarantined, RequeueQuarantined, PurgeIfDue, ConvertPage,
     QuarantineOversized, MarkQuarantined, SetStatus
<1>3. CASE UNCHANGED rows
  BY <1>3
<1>4. CASE \/ QueryPage(w) \/ Gather(w) \/ SplitBatch(w) \/ Post(w) \/ FinishCycle(w)
           \/ ControlPlane(w) \/ Environment(w)
  BY <1>3, <1>4 DEF QueryPage, Gather, SplitBatch, Post, FinishCycle, ControlPlane,
     LeafAccepted, LeafNotAccepted, Environment, StorageFails, Crash, Restart
<1> QED BY <1>1, <1>2, <1>4 DEF Worker

LEMMA SyncedWasTaken ==
  ASSUME TypeInv, NEW w \in Workers, LeafInv(w), pc[w] = "ack", NEW r \in Records \ Events,
         r \in Unchanged(w, AckGroup(NextBatch(w).records))
  PROVE  /\ <<r, version[r]>> \in accepted
         /\ r \in Tasks /\ content[r] = "final" => <<r, version[r]>> \in identified
<1>1. /\ NextBatch(w) \in Batch /\ NextBatch(w) = cycle[w].stack[1]
      /\ 1 \in 1 .. Len(cycle[w].stack)
  BY StackFacts DEF TypeInv, StackNotEmpty
<1>2. r \in NextBatch(w).records
  BY <1>1, AckGroupSubset DEF Unchanged, Batch
<1>3. r \in cycle[w].batch \ Events
  BY <1>1, <1>2 DEF LeafInv, LeavesCutFromBatch
<1>4. version[r] = cycle[w].snap[r].version /\ content[r] = cycle[w].snap[r].content
  BY <1>3 DEF LeafInv, ReadOnceIsNoted, Unchanged
<1>5. <<r, cycle[w].snap[r].version>> \in Posted(w, NextBatch(w).records)
  BY <1>2 DEF Posted
<1>6. ASSUME r \in Tasks, content[r] = "final"
      PROVE  <<r, cycle[w].snap[r].version>>
               \in Posted(w, FinishedTasks(w, NextBatch(w).records))
  BY <1>2, <1>4, <1>6 DEF Posted, FinishedTasks
<1> QED BY <1>4, <1>5, <1>6 DEF LeafInv, LeafWasTaken

\* A row of any stream but the events is synced only as it was accepted.
OthersSyncedAreAccepted ==
  \A r \in Records \ Events : status[r] = "synced" => <<r, version[r]>> \in accepted

LEMMA NextOthersSynced ==
  ASSUME TypeInv, \A w \in Workers : LeafInv(w), [Next]_vars,
         OthersSyncedAreAccepted, IdentityTravelsWithTask
  PROVE  OthersSyncedAreAccepted' /\ IdentityTravelsWithTask'
<1>1. accepted \subseteq accepted' /\ identified \subseteq identified'
  BY StepGrows DEF Grows
<1>2. Tasks \subseteq Records \ Events
  BY RecordsAssumption DEF Records
<1> SUFFICES ASSUME NEW r \in Records \ Events, status'[r] = "synced"
             PROVE  /\ <<r, version'[r]>> \in accepted'
                    /\ r \in Tasks /\ content'[r] = "final" => <<r, version'[r]>> \in identified'
  BY <1>2 DEF OthersSyncedAreAccepted, IdentityTravelsWithTask
<1>3. ASSUME status[r] = "synced", version'[r] = version[r], content'[r] = content[r]
      PROVE  /\ <<r, version'[r]>> \in accepted'
             /\ r \in Tasks /\ content'[r] = "final" => <<r, version'[r]>> \in identified'
  BY <1>1, <1>3 DEF OthersSyncedAreAccepted, IdentityTravelsWithTask
<1>4. ASSUME NEW q \in Records, NEW c \in Contents, Insert(q, c) \/ Update(q, c)
      PROVE  status[r] = "synced" /\ version'[r] = version[r] /\ content'[r] = content[r]
  BY <1>4 DEF Insert, Update, SetStatus, TypeInv, TypeOK
<1>5. ASSUME NEW w \in Workers, Worker(w) \/ ControlPlane(w) \/ Environment(w)
      PROVE  version' = version /\ content' = content
  <2>1. CASE Worker(w)
    BY <2>1 DEF Worker, RecoverQuarantined, PurgeIfDue, QueryPage, ConvertPage, Gather,
       SplitBatch, QuarantineOversized, Post, Acknowledge, FinishCycle
  <2>2. CASE ControlPlane(w) \/ Environment(w)
    BY <2>2 DEF ControlPlane, LeafAccepted, LeafNotAccepted, Environment, StorageFails,
       Crash, Restart
  <2> QED BY <1>5, <2>1, <2>2
<1>6. ASSUME NEW w \in Workers, Worker(w) \/ ControlPlane(w) \/ Environment(w)
      PROVE  /\ <<r, version'[r]>> \in accepted'
             /\ r \in Tasks /\ content'[r] = "final" => <<r, version'[r]>> \in identified'
  <2>1. CASE status[r] = "synced"
    BY <1>3, <1>5, <1>6, <2>1
  <2>2. CASE status[r] # "synced"
    BY <1>1, <1>5, <1>6, <2>2, NewlySynced, SyncedWasTaken
  <2> QED BY <2>1, <2>2
<1>7. CASE UNCHANGED vars
  BY <1>3, <1>7 DEF vars
<1> QED BY <1>3, <1>4, <1>6, <1>7 DEF Next, Application

LEMMA LeafInvStart == Init => (\A w \in Workers : LeafInv(w)) /\ OthersSyncedAreAccepted
                               /\ IdentityTravelsWithTask
<1>1. Len(<<>>) = 0
  BY EmptySeq
<1>2. Tasks \subseteq Records
  BY DEF Records
<1> QED BY <1>1, <1>2 DEF Init, NoCycle, LeafInv, ReadOnceIsNoted, NothingIsCutYet,
        LeavesCutFromBatch, LeavesCarryIdentities, LeafWasTaken, OthersSyncedAreAccepted,
        IdentityTravelsWithTask

LeafSafety == /\ TypeInv /\ \A w \in Workers : LeafInv(w)
              /\ OthersSyncedAreAccepted /\ IdentityTravelsWithTask

LEMMA LeafSafetyHolds == Spec => []LeafSafety
<1>1. Init => LeafSafety
  BY InitTypeInv, LeafInvStart DEF LeafSafety
<1>2. LeafSafety /\ [Next]_vars => LeafSafety'
  BY NextTypeInv, NextLeafInv, NextOthersSynced DEF LeafSafety
<1> QED BY <1>1, <1>2, PTL DEF Spec

\* A finished task that counts as delivered reached the control plane with its business
\* identity, however its batch was cut, with any number of workers, with events that do
\* not convert, failures and crashes included (_post_with_split, the acknowledgements).
THEOREM IdentitiesTravelWithTasks == Spec => []IdentityTravelsWithTask
<1>1. LeafSafety => IdentityTravelsWithTask
  BY DEF LeafSafety
<1> QED BY <1>1, LeafSafetyHolds, PTL

\* A task, a job observation or a revision is marked synced only in the version the
\* control plane has taken, under every behaviour: what a page read again undoes is
\* confined to the events (_mark_task_snapshots_synced, mark_revenues_synced and the like).
THEOREM OtherStreamsSyncedAreAccepted == Spec => []OthersSyncedAreAccepted
<1>1. LeafSafety => OthersSyncedAreAccepted
  BY DEF LeafSafety
<1> QED BY <1>1, LeafSafetyHolds, PTL
-----------------------------------------------------------------------------
(***************************************************************************)
(* What is set aside cannot be delivered.  A row has the content it was    *)
(* read with as long as it has the version it was read with, and the       *)
(* versions noted for a page are those of the rows it converts.            *)
(***************************************************************************)
ReadsAreKnown(w) ==
  \A r \in cycle[w].page \cup cycle[w].seen \cup cycle[w].batch :
    /\ status[r] # "absent"
    /\ cycle[w].snap[r].version <= version[r]
    /\ version[r] = cycle[w].snap[r].version => content[r] = cycle[w].snap[r].content

NewAreNoted(w) ==
  pc[w] = "convert" =>
    \A e \in cycle[w].page \ cycle[w].seen : cycle[w].ack[e] = cycle[w].snap[e].version

\* Without oversized events none is read as oversized.
NoBigEvents == \A e \in Events : /\ content[e] # "big"
                                 /\ \A w \in Workers : cycle[w].snap[e].content # "big"

\* A worker that read nothing new, and still holds at most the rows it held.
LEMMA StillKnown ==
  ASSUME TypeInv, TypeInv', Grows, NEW w \in Workers, ReadsAreKnown(w),
         cycle'[w].page \cup cycle'[w].seen \cup cycle'[w].batch
           \subseteq cycle[w].page \cup cycle[w].seen \cup cycle[w].batch,
         cycle'[w].snap = cycle[w].snap
  PROVE  ReadsAreKnown(w)'
<1> SUFFICES ASSUME NEW r \in cycle[w].page \cup cycle[w].seen \cup cycle[w].batch
             PROVE  /\ status'[r] # "absent"
                    /\ cycle[w].snap[r].version <= version'[r]
                    /\ version'[r] = cycle[w].snap[r].version =>
                         content'[r] = cycle[w].snap[r].content
  BY DEF ReadsAreKnown
<1>1. /\ r \in Records /\ cycle[w].snap[r].version \in Nat
      /\ version[r] \in Nat /\ version'[r] \in Nat
  BY DEF TypeInv, TypeOK, Cycle, Snapshots, Records
<1> QED BY <1>1 DEF ReadsAreKnown, Grows

LEMMA QueryKnown ==
  ASSUME TypeInv, NEW w \in Workers, ReadsAreKnown(w), QueryPage(w)
  PROVE  ReadsAreKnown(w)' /\ NewAreNoted(w)'
<1> DEFINE page  == Oldest(Pending(Events), RoomInPage(w))
           seen  == cycle[w].seen
           acks  == NoteVersions(w, page)
           snaps == TakeSnapshots(w, page \ seen)
<1>1. /\ cycle'[w].page = page /\ cycle'[w].seen = seen
      /\ cycle'[w].batch = cycle[w].batch
      /\ cycle'[w].ack = acks /\ cycle'[w].snap = snaps
      /\ UNCHANGED rows
  BY DEF QueryPage, TypeInv, TypeOK, Cycle
<1>2. page \subseteq Records /\ \A r \in page : status[r] = "pending"
  BY OldestSubset DEF Pending, Records
<1>3. \A r \in page : acks[r] = version[r]
  BY <1>2 DEF NoteVersions
<1>4. /\ \A r \in page \ seen : snaps[r].version = version[r] /\ snaps[r].content = content[r]
      /\ \A r \in Records : r \notin page \ seen => snaps[r] = cycle[w].snap[r]
  BY <1>2 DEF TakeSnapshots
<1>5. /\ seen \cup cycle[w].batch \subseteq Records
      /\ \A r \in Records : version[r] \in Nat
  BY DEF TypeInv, TypeOK, Cycle, Records
<1> HIDE DEF page, acks, snaps
<1>6. ASSUME NEW r \in page \cup seen \cup cycle[w].batch
      PROVE  /\ status[r] # "absent" /\ snaps[r].version <= version[r]
             /\ version[r] = snaps[r].version => content[r] = snaps[r].content
  <2>1. r \in Records
    BY <1>2, <1>5
  <2>2. CASE r \in page \ seen
    BY <1>2, <1>4, <1>5, <2>1, <2>2
  <2>3. CASE r \notin page \ seen
    BY <1>4, <2>1, <2>3 DEF ReadsAreKnown
  <2> QED BY <2>2, <2>3
<1>7. ReadsAreKnown(w)'
  BY <1>1, <1>6 DEF ReadsAreKnown
<1>8. NewAreNoted(w)'
  BY <1>1, <1>2, <1>3, <1>4 DEF NewAreNoted
<1> QED BY <1>7, <1>8

LEMMA GatherKnown ==
  ASSUME TypeInv, NEW w \in Workers, ReadsAreKnown(w), Gather(w), ~EndCycle(w)
  PROVE  ReadsAreKnown(w)'
<1> DEFINE others == Oldest(Pending(Tasks), TaskLimit)
                     \cup Oldest(Pending(Jobs), BatchSize - Cardinality(cycle[w].batch))
                     \cup Oldest(Pending(Outcomes), BatchSize)
                     \cup Oldest(Pending(Revenues), BatchSize)
           snaps  == TakeSnapshots(w, others)
<1>1. /\ cycle'[w].page = cycle[w].page
      /\ cycle'[w].batch = cycle[w].batch \cup others
      /\ cycle'[w].snap = snaps
      /\ UNCHANGED rows
  BY Gathered
<1>2. cycle'[w].seen = {}
  BY DEF Gather, TypeInv, TypeOK, Cycle
<1>3. others \subseteq Records /\ \A r \in others : status[r] = "pending"
  BY OldestSubset DEF Pending, Records
<1>4. /\ \A r \in others : snaps[r].version = version[r] /\ snaps[r].content = content[r]
      /\ \A r \in Records \ others : snaps[r] = cycle[w].snap[r]
  BY <1>3 DEF TakeSnapshots
<1>5. /\ cycle[w].page \cup cycle[w].batch \subseteq Records
      /\ \A r \in Records : version[r] \in Nat
  BY DEF TypeInv, TypeOK, Cycle, Records
<1> HIDE DEF others, snaps
<1>6. ASSUME NEW r \in cycle[w].page \cup cycle[w].batch \cup others
      PROVE  /\ status[r] # "absent" /\ snaps[r].version <= version[r]
             /\ version[r] = snaps[r].version => content[r] = snaps[r].content
  <2>1. r \in Records
    BY <1>3, <1>5
  <2>2. CASE r \in others
    BY <1>3, <1>4, <1>5, <2>1, <2>2
  <2>3. CASE r \notin others
    BY <1>4, <2>1, <2>3 DEF ReadsAreKnown
  <2> QED BY <2>2, <2>3
<1> QED BY <1>1, <1>2, <1>6 DEF ReadsAreKnown

LEMMA WorkerKnown ==
  ASSUME TypeInv, TypeInv', Grows, NEW w \in Workers, ReadsAreKnown(w),
         Worker(w) \/ ControlPlane(w) \/ Environment(w)
  PROVE  ReadsAreKnown(w)' /\ NewAreNoted(w)'
<1>1. CASE QueryPage(w)
  BY <1>1, QueryKnown
<1>2. CASE ~QueryPage(w)
  <2>1. pc'[w] # "convert"
    BY <1>2 DEF Worker, RecoverQuarantined, PurgeIfDue, ConvertPage, Gather, SplitBatch,
       QuarantineOversized, Post, Acknowledge, FinishCycle, PopBatch, ControlPlane,
       LeafAccepted, LeafNotAccepted, Environment, StorageFails, Crash, Restart, EndCycle,
       Go, TypeInv, TypeOK
  <2> SUFFICES ReadsAreKnown(w)'
    BY <2>1 DEF NewAreNoted
  <2>2. ASSUME cycle'[w] = NoCycle PROVE ReadsAreKnown(w)'
    BY <2>2 DEF NoCycle, ReadsAreKnown
  <2>3. ASSUME EndCycle(w) PROVE ReadsAreKnown(w)'
    BY <2>2, <2>3 DEF EndCycle, TypeInv, TypeOK
  <2>4. ASSUME SameReads(w) PROVE ReadsAreKnown(w)'
    BY <2>4, StillKnown DEF SameReads
  <2>5. CASE RecoverQuarantined(w) \/ PurgeIfDue(w) \/ Post(w) \/ LeafAccepted(w) \/ Restart(w)
    BY <2>4, <2>5 DEF RecoverQuarantined, PurgeIfDue, Post, LeafAccepted, Restart, SameReads
  <2>6. CASE ConvertPage(w)
    <3>1. /\ cycle'[w].page = {} /\ cycle'[w].snap = cycle[w].snap
          /\ cycle'[w].seen \subseteq cycle[w].seen \cup cycle[w].page
          /\ cycle'[w].batch \subseteq cycle[w].batch \cup cycle[w].page
      BY <2>6 DEF ConvertPage, TypeInv, TypeOK, Cycle
    <3> QED BY <3>1, StillKnown
  <2>7. CASE Gather(w)
    BY <2>3, <2>7, GatherKnown
  <2>8. CASE SplitBatch(w)
    BY <2>4, <2>8, SplitStack
  <2>9. CASE QuarantineOversized(w)
    BY <2>4, <2>9, PopStack DEF QuarantineOversized
  <2>10. CASE Acknowledge(w)
    <3>1. pc[w] = "ack"
      BY <2>10 DEF Acknowledge
    <3>2. CASE PopBatch(w)
      BY <2>4, <3>1, <3>2, PopStack
    <3>3. CASE ~PopBatch(w)
      <4>1. PICK group : cycle' = [cycle EXCEPT ![w].stack[1].records = @ \ group]
        BY <2>10, <3>3 DEF Acknowledge
      <4> QED BY <2>4, <3>1, <4>1, ShrinkStack
    <3> QED BY <3>2, <3>3
  <2>11. CASE FinishCycle(w) \/ LeafNotAccepted(w) \/ StorageFails(w)
    BY <2>3, <2>11 DEF FinishCycle, LeafNotAccepted, StorageFails
  <2>12. CASE Crash(w)
    BY <2>2, <2>12 DEF Crash, TypeInv, TypeOK
  <2> QED BY <1>2, <2>5, <2>6, <2>7, <2>8, <2>9, <2>10, <2>11, <2>12
          DEF Worker, ControlPlane, Environment
<1> QED BY <1>1, <1>2

LEMMA NextKnown ==
  ASSUME TypeInv, \A w \in Workers : ReadsAreKnown(w) /\ NewAreNoted(w), [Next]_vars
  PROVE  \A w \in Workers : ReadsAreKnown(w)' /\ NewAreNoted(w)'
<1>1. TypeInv' /\ Grows
  BY NextTypeInv, StepGrows
<1>2. ASSUME NEW v \in Workers, pc'[v] = pc[v], cycle'[v] = cycle[v]
      PROVE  ReadsAreKnown(v)' /\ NewAreNoted(v)'
  <2>1. ReadsAreKnown(v)'
    BY <1>1, <1>2, StillKnown
  <2>2. NewAreNoted(v)'
    BY <1>2 DEF NewAreNoted
  <2> QED BY <2>1, <2>2
<1>3. ASSUME NEW w \in Workers, Worker(w) \/ ControlPlane(w) \/ Environment(w)
      PROVE  \A v \in Workers : ReadsAreKnown(v)' /\ NewAreNoted(v)'
  BY <1>1, <1>2, <1>3, WorkerKnown, StepOfOne DEF OthersKeep
<1>4. CASE Application \/ UNCHANGED vars
  BY <1>2, <1>4 DEF Application, Insert, Update, vars
<1> QED BY <1>3, <1>4 DEF Next

LEMMA NextNoBigEvents ==
  ASSUME "big" \notin EventContents, TypeInv, NoBigEvents, [Next]_vars
  PROVE  NoBigEvents'
<1>1. ASSUME NEW r \in Records, NEW c \in Contents, Insert(r, c) \/ Update(r, c)
      PROVE  NoBigEvents'
  <2>1. c \in ContentsOf(r) /\ content' = [content EXCEPT ![r] = c] /\ cycle' = cycle
    BY <1>1 DEF Insert, Update
  <2>2. r \in Events => c # "big"
    BY <2>1, RecordsAssumption DEF ContentsOf
  <2> QED BY <2>1, <2>2 DEF NoBigEvents, TypeInv, TypeOK
<1>2. ASSUME NEW w \in Workers, Worker(w) \/ ControlPlane(w) \/ Environment(w)
      PROVE  NoBigEvents'
  <2>1. OthersKeep(w) /\ content' = content
    BY <1>2, StepOfOne
  <2>2. ASSUME cycle'[w].snap = cycle[w].snap
        PROVE  \A e \in Events : cycle'[w].snap[e].content # "big"
    BY <2>2 DEF NoBigEvents
  <2>3. ASSUME cycle'[w] = NoCycle
        PROVE  \A e \in Events : cycle'[w].snap[e].content # "big"
    BY <2>3 DEF NoCycle, Records
  <2>4. ASSUME NEW R, cycle'[w].snap = TakeSnapshots(w, R)
        PROVE  \A e \in Events : cycle'[w].snap[e].content # "big"
    BY <2>4 DEF TakeSnapshots, NoBigEvents, Records
  <2>5. CASE QueryPage(w)
    <3>1. cycle'[w].snap = TakeSnapshots(w, Oldest(Pending(Events), RoomInPage(w)) \ cycle[w].seen)
      BY <2>5 DEF QueryPage, TypeInv, TypeOK, Cycle
    <3> QED BY <2>1, <2>4, <3>1 DEF OthersKeep, NoBigEvents
  <2>6. CASE EndCycle(w) \/ Crash(w)
    BY <2>1, <2>3, <2>6 DEF EndCycle, Crash, OthersKeep, NoBigEvents, TypeInv, TypeOK
  <2>7. CASE Gather(w) /\ ~EndCycle(w)
    <3>1. \E R : cycle'[w].snap = TakeSnapshots(w, R)
      BY <2>7, Gathered
    <3> QED BY <2>1, <2>4, <3>1 DEF OthersKeep, NoBigEvents
  <2>8. CASE ~QueryPage(w) /\ ~Gather(w) /\ ~EndCycle(w) /\ ~Crash(w)
    <3>1. cycle'[w].snap = cycle[w].snap
      BY <1>2, <2>8 DEF Worker, RecoverQuarantined, PurgeIfDue, ConvertPage, SplitBatch,
         QuarantineOversized, Post, Acknowledge, FinishCycle, PopBatch, ControlPlane,
         LeafAccepted, LeafNotAccepted, Environment, StorageFails, Restart, TypeInv, TypeOK, Cycle
    <3> QED BY <2>1, <2>2, <3>1 DEF OthersKeep, NoBigEvents
  <2> QED BY <2>5, <2>6, <2>7, <2>8
<1>3. CASE UNCHANGED vars
  BY <1>3 DEF vars, NoBigEvents
<1> QED BY <1>1, <1>2, <1>3 DEF Next, Application

\* What a worker newly sets aside: rows of its page, or the leaf it is about to post.
LEMMA NewlyQuarantined ==
  ASSUME TypeInv, NEW w \in Workers, Worker(w) \/ ControlPlane(w) \/ Environment(w),
         NEW r \in Records, status'[r] = "quarantined", status[r] # "quarantined"
  PROVE  \/ /\ pc[w] = "convert" /\ r \in cycle[w].page \ cycle[w].seen
            /\ version[r] = cycle[w].ack[r] /\ cycle[w].snap[r].content = "bad"
         \/ /\ pc[w] = "post" /\ MustQuarantine(w) /\ r \in NextBatch(w).records
            /\ version[r] = cycle[w].ack[r]
<1>1. CASE ConvertPage(w)
  <2>1. PICK R \in SUBSET (cycle[w].page \ cycle[w].seen) :
          /\ \A e \in R : ~Convertible(w, cycle[w].snap[e].content)
          /\ SetStatus(Unchanged(w, R), "quarantined")
    <3> DEFINE new  == cycle[w].page \ cycle[w].seen
               good == {e \in new : Convertible(w, cycle[w].snap[e].content)}
    <3>1. MarkQuarantined(w, new \ good)
      BY <1>1 DEF ConvertPage
    <3>2. new \ good \in SUBSET new
          /\ \A e \in new \ good : ~Convertible(w, cycle[w].snap[e].content)
      OBVIOUS
    <3> QED BY <3>1, <3>2 DEF MarkQuarantined
  <2>2. r \in Unchanged(w, R)
    BY <2>1 DEF SetStatus
  <2> QED BY <1>1, <2>1, <2>2 DEF Unchanged, Convertible, ConvertPage
<1>2. CASE QuarantineOversized(w)
  BY <1>2 DEF QuarantineOversized, MarkQuarantined, SetStatus, Unchanged
<1>3. CASE RecoverQuarantined(w) \/ PurgeIfDue(w) \/ Acknowledge(w)
  BY <1>3 DEF RecoverQuarantined, RequeueQuarantined, PurgeIfDue, Acknowledge, SetStatus
<1>4. CASE \/ QueryPage(w) \/ Gather(w) \/ SplitBatch(w) \/ Post(w) \/ FinishCycle(w)
           \/ ControlPlane(w) \/ Environment(w)
  BY <1>4 DEF QueryPage, Gather, SplitBatch, Post, FinishCycle, ControlPlane,
     LeafAccepted, LeafNotAccepted, Environment, StorageFails, Crash, Restart
<1> QED BY <1>1, <1>2, <1>3, <1>4 DEF Worker

\* A leaf that must be set aside is one oversized record.
LEMMA SetAsideIsBig ==
  ASSUME TypeInv, NEW w \in Workers, cycle[w].stack # <<>>, MustQuarantine(w),
         NEW r \in NextBatch(w).records
  PROVE  cycle[w].snap[r].content = "big"
<1>1. NextBatch(w).records \in SUBSET Records
  BY StackFacts DEF Batch
<1>2. IsFiniteSet(NextBatch(w).records)
  BY <1>1, FS_Subset, RecordsAssumption
<1>3. \E x : NextBatch(w).records = {x}
  BY <1>2, FS_Singleton DEF MustQuarantine
<1>4. Cardinality(NextBatch(w).records) <= MaxPayload
  BY LimitsAssumption DEF MustQuarantine
<1> QED BY <1>3, <1>4 DEF MustQuarantine, Fits

QuarantineSafety ==
  /\ LeafSafety
  /\ \A w \in Workers : ReadsAreKnown(w) /\ NewAreNoted(w)
  /\ "bad" \notin EventContents => DeliveryInv
  /\ "big" \notin EventContents => NoBigEvents
  /\ QuarantineIsDeserved

LEMMA NextQuarantine ==
  ASSUME ~ ({"bad", "big"} \subseteq EventContents), QuarantineSafety, [Next]_vars
  PROVE  QuarantineIsDeserved'
<1>1. TypeInv /\ QuarantineIsDeserved
  BY DEF QuarantineSafety, LeafSafety
<1> SUFFICES ASSUME NEW r \in Records, status'[r] = "quarantined"
             PROVE  content'[r] \in {"bad", "big"}
  BY DEF QuarantineIsDeserved
<1>2. ASSUME status[r] = "quarantined", content'[r] = content[r]
      PROVE  content'[r] \in {"bad", "big"}
  BY <1>1, <1>2 DEF QuarantineIsDeserved
<1>3. ASSUME NEW q \in Records, NEW c \in Contents, Insert(q, c) \/ Update(q, c)
      PROVE  status[r] = "quarantined" /\ content'[r] = content[r]
  BY <1>1, <1>3 DEF Insert, Update, SetStatus, TypeInv, TypeOK
<1>4. ASSUME NEW w \in Workers, Worker(w) \/ ControlPlane(w) \/ Environment(w),
             status[r] # "quarantined"
      PROVE  content[r] \in {"bad", "big"}
  <2>1. CASE /\ pc[w] = "convert" /\ r \in cycle[w].page \ cycle[w].seen
             /\ version[r] = cycle[w].ack[r] /\ cycle[w].snap[r].content = "bad"
    BY <2>1 DEF QuarantineSafety, NewAreNoted, ReadsAreKnown
  <2>2. CASE /\ pc[w] = "post" /\ MustQuarantine(w) /\ r \in NextBatch(w).records
             /\ version[r] = cycle[w].ack[r]
    <3>1. cycle[w].stack # <<>>
      BY <1>1, <2>2 DEF TypeInv, StackNotEmpty
    <3>2. cycle[w].snap[r].content = "big"
      BY <1>1, <2>2, <3>1, SetAsideIsBig
    <3>3. 1 \in 1 .. Len(cycle[w].stack) /\ NextBatch(w) = cycle[w].stack[1]
      BY <1>1, <3>1, StackFacts
    <3>4. r \in cycle[w].batch
      BY <2>2, <3>3 DEF QuarantineSafety, LeafSafety, LeafInv, LeavesCutFromBatch
    <3>5. cycle[w].ack[r] = cycle[w].snap[r].version
      <4>1. CASE r \notin Events
        BY <3>4, <4>1 DEF QuarantineSafety, LeafSafety, LeafInv, ReadOnceIsNoted
      <4>2. CASE r \in Events /\ "big" \notin EventContents
        BY <3>2, <4>2 DEF QuarantineSafety, NoBigEvents
      <4>3. CASE "bad" \notin EventContents
        BY <3>4, <4>3 DEF QuarantineSafety, DeliveryInv, WorkerInv, SnapshotsAreNoted
      <4> QED BY <4>1, <4>2, <4>3
    <3> QED BY <2>2, <3>2, <3>4, <3>5 DEF QuarantineSafety, ReadsAreKnown
  <2> QED BY <1>1, <1>4, <2>1, <2>2, NewlyQuarantined
<1>5. ASSUME NEW w \in Workers, Worker(w) \/ ControlPlane(w) \/ Environment(w)
      PROVE  content'[r] \in {"bad", "big"}
  BY <1>1, <1>2, <1>4, <1>5, StepOfOne
<1>6. CASE UNCHANGED vars
  BY <1>2, <1>6 DEF vars
<1> QED BY <1>2, <1>3, <1>5, <1>6 DEF Next, Application

\* Only a row whose present content cannot be delivered is in quarantine: a row corrected
\* while its batch was on its way goes back to the queue, for any limits and workers.  The
\* one case left out is an application that has both events that do not convert and
\* oversized events: there a second page may note a new version for a row of the batch,
\* and the theorem fails with SyncedIsAccepted (_sync_batch, _mark_event_snapshots_quarantined).
THEOREM QuarantinedAreUndeliverable ==
  ASSUME ~ ({"bad", "big"} \subseteq EventContents)
  PROVE  Spec => []QuarantineIsDeserved
<1>1. Init => QuarantineSafety
  <2> SUFFICES ASSUME Init PROVE QuarantineSafety
    OBVIOUS
  <2>1. LeafSafety /\ DeliveryInv
    BY InitTypeInv, LeafInvStart, InitDeliveryInv DEF LeafSafety
  <2>2. \A w \in Workers : ReadsAreKnown(w) /\ NewAreNoted(w)
    BY DEF Init, NoCycle, ReadsAreKnown, NewAreNoted
  <2>3. NoBigEvents /\ QuarantineIsDeserved
    BY DEF Init, NoCycle, NoBigEvents, QuarantineIsDeserved, Records
  <2> QED BY <2>1, <2>2, <2>3 DEF QuarantineSafety
<1>2. QuarantineSafety /\ [Next]_vars => QuarantineSafety'
  <2> SUFFICES ASSUME QuarantineSafety, [Next]_vars PROVE QuarantineSafety'
    OBVIOUS
  <2>1. LeafSafety'
    BY NextTypeInv, NextLeafInv, NextOthersSynced DEF QuarantineSafety, LeafSafety
  <2>2. \A w \in Workers : ReadsAreKnown(w)' /\ NewAreNoted(w)'
    BY NextKnown DEF QuarantineSafety, LeafSafety
  <2>3. "bad" \notin EventContents => DeliveryInv'
    BY NextDeliveryInv DEF QuarantineSafety, LeafSafety
  <2>4. "big" \notin EventContents => NoBigEvents'
    BY NextNoBigEvents DEF QuarantineSafety, LeafSafety
  <2>5. QuarantineIsDeserved'
    BY NextQuarantine
  <2> QED BY <2>1, <2>2, <2>3, <2>4, <2>5 DEF QuarantineSafety
<1>3. QuarantineSafety => QuarantineIsDeserved
  BY DEF QuarantineSafety
<1> QED BY <1>1, <1>2, <1>3, PTL DEF Spec
-----------------------------------------------------------------------------
(***************************************************************************)
(* A lone worker.  The version an acknowledgement names lies between the   *)
(* one that was read and the present one, so a row that is as it was read  *)
(* is settled with its leaf; what was read and not settled is in a leaf.   *)
(***************************************************************************)
AcksAreBetween(w) ==
  \A r \in cycle[w].page \cup cycle[w].seen \cup cycle[w].batch :
    cycle[w].snap[r].version <= cycle[w].ack[r] /\ cycle[w].ack[r] <= version[r]

\* Until it is cut a batch holds rows its scan has seen, and a finished cycle no leaf.
BatchWasSeen(w) == pc[w] \in Early => cycle[w].batch \subseteq cycle[w].seen

DoneHasNoLeaf(w) == pc[w] = "done" => cycle[w].stack = <<>>

NotedInv(w) == ReadsAreKnown(w) /\ AcksAreBetween(w) /\ BatchWasSeen(w) /\ DoneHasNoLeaf(w)

\* A worker that read nothing new, and still holds at most the rows it held.
LEMMA StillBetween ==
  ASSUME TypeInv, TypeInv', Grows, NEW w \in Workers, ReadsAreKnown(w), AcksAreBetween(w),
         cycle'[w].page \cup cycle'[w].seen \cup cycle'[w].batch
           \subseteq cycle[w].page \cup cycle[w].seen \cup cycle[w].batch,
         cycle'[w].snap = cycle[w].snap, cycle'[w].ack = cycle[w].ack
  PROVE  AcksAreBetween(w)'
<1> SUFFICES ASSUME NEW r \in cycle[w].page \cup cycle[w].seen \cup cycle[w].batch
             PROVE  /\ cycle[w].snap[r].version <= cycle[w].ack[r]
                    /\ cycle[w].ack[r] <= version'[r]
  BY DEF AcksAreBetween
<1>1. r \in Records
  BY DEF TypeInv, TypeOK, Cycle, Records
<1>2. cycle[w].ack[r] \in Nat /\ version[r] \in Nat /\ version'[r] \in Nat
  BY <1>1 DEF TypeInv, TypeOK, Cycle, Versions
<1> QED BY <1>1, <1>2 DEF AcksAreBetween, ReadsAreKnown, Grows

LEMMA QueryNoted ==
  ASSUME TypeInv, NEW w \in Workers, NotedInv(w), QueryPage(w)
  PROVE  AcksAreBetween(w)' /\ BatchWasSeen(w)' /\ DoneHasNoLeaf(w)'
<1> DEFINE page  == Oldest(Pending(Events), RoomInPage(w))
           seen  == cycle[w].seen
           acks  == NoteVersions(w, page)
           snaps == TakeSnapshots(w, page \ seen)
<1>1. /\ cycle'[w].page = page /\ cycle'[w].seen = seen
      /\ cycle'[w].batch = cycle[w].batch
      /\ cycle'[w].ack = acks /\ cycle'[w].snap = snaps
      /\ UNCHANGED rows /\ pc[w] = "scan" /\ pc'[w] \in {"gather", "convert"}
  BY DEF QueryPage, Go, TypeInv, TypeOK, Cycle
<1>2. page \subseteq Records
  BY OldestSubset DEF Pending, Records
<1>3. /\ \A r \in page : acks[r] = version[r]
      /\ \A r \in Records \ page : acks[r] = cycle[w].ack[r]
  BY <1>2 DEF NoteVersions
<1>4. /\ \A r \in page \ seen : snaps[r].version = version[r]
      /\ \A r \in Records : r \notin page \ seen => snaps[r] = cycle[w].snap[r]
  BY <1>2 DEF TakeSnapshots
<1>5. /\ seen \cup cycle[w].batch \subseteq Records
      /\ \A r \in Records : version[r] \in Nat
  BY DEF TypeInv, TypeOK, Cycle, Records
<1> HIDE DEF page, acks, snaps
<1>6. cycle[w].batch \subseteq seen
  BY <1>1 DEF NotedInv, BatchWasSeen, Early
<1>7. ASSUME NEW r \in page \cup seen \cup cycle[w].batch
      PROVE  snaps[r].version <= acks[r] /\ acks[r] <= version[r]
  <2>1. r \in Records
    BY <1>2, <1>5
  <2>2. CASE r \in page \ seen
    BY <1>3, <1>4, <1>5, <2>1, <2>2
  <2>3. CASE r \in page \cap seen
    <3>1. snaps[r] = cycle[w].snap[r] /\ acks[r] = version[r]
      BY <1>3, <1>4, <2>1, <2>3
    <3>2. cycle[w].snap[r].version <= version[r]
      BY <2>3 DEF NotedInv, ReadsAreKnown
    <3> QED BY <1>5, <2>1, <3>1, <3>2
  <2>4. CASE r \notin page
    BY <1>3, <1>4, <1>6, <2>1, <2>4 DEF NotedInv, AcksAreBetween
  <2> QED BY <2>2, <2>3, <2>4
<1>8. AcksAreBetween(w)'
  BY <1>1, <1>7 DEF AcksAreBetween
<1> QED BY <1>1, <1>6, <1>8 DEF BatchWasSeen, DoneHasNoLeaf

LEMMA GatherNoted ==
  ASSUME TypeInv, NEW w \in Workers, NotedInv(w), Gather(w), ~EndCycle(w)
  PROVE  AcksAreBetween(w)' /\ BatchWasSeen(w)' /\ DoneHasNoLeaf(w)'
<1> DEFINE others == Oldest(Pending(Tasks), TaskLimit)
                     \cup Oldest(Pending(Jobs), BatchSize - Cardinality(cycle[w].batch))
                     \cup Oldest(Pending(Outcomes), BatchSize)
                     \cup Oldest(Pending(Revenues), BatchSize)
           acks   == NoteVersions(w, others)
           snaps  == TakeSnapshots(w, others)
<1>1. /\ cycle'[w].page = cycle[w].page
      /\ cycle'[w].batch = cycle[w].batch \cup others
      /\ cycle'[w].ack = acks /\ cycle'[w].snap = snaps
      /\ UNCHANGED rows /\ pc'[w] = "post"
  BY Gathered
<1>2. cycle'[w].seen = {}
  BY DEF Gather, TypeInv, TypeOK, Cycle
<1>3. others \subseteq Records
  BY OldestSubset DEF Pending, Records
<1>4. /\ \A r \in others : snaps[r].version = version[r] /\ acks[r] = version[r]
      /\ \A r \in Records \ others : snaps[r] = cycle[w].snap[r] /\ acks[r] = cycle[w].ack[r]
  BY <1>3 DEF TakeSnapshots, NoteVersions
<1>5. /\ cycle[w].page \cup cycle[w].batch \subseteq Records
      /\ \A r \in Records : version[r] \in Nat
  BY DEF TypeInv, TypeOK, Cycle, Records
<1> HIDE DEF others, acks, snaps
<1>6. ASSUME NEW r \in cycle[w].page \cup cycle[w].batch \cup others
      PROVE  snaps[r].version <= acks[r] /\ acks[r] <= version[r]
  <2>1. r \in Records
    BY <1>3, <1>5
  <2>2. CASE r \in others
    BY <1>4, <1>5, <2>1, <2>2
  <2>3. CASE r \notin others
    BY <1>4, <2>1, <2>3 DEF NotedInv, AcksAreBetween
  <2> QED BY <2>2, <2>3
<1>7. AcksAreBetween(w)'
  BY <1>1, <1>2, <1>6 DEF AcksAreBetween
<1> QED BY <1>1, <1>7 DEF BatchWasSeen, DoneHasNoLeaf, Early

\* A worker that goes on with what it read.
LEMMA SameNoted ==
  ASSUME TypeInv, TypeInv', Grows, NEW w \in Workers, NotedInv(w), SameReads(w),
         pc'[w] \in Early => pc[w] \in Early,
         pc'[w] = "done" => \/ pc[w] = "done" /\ cycle'[w].stack = cycle[w].stack
                            \/ cycle'[w].stack = <<>>
  PROVE  AcksAreBetween(w)' /\ BatchWasSeen(w)' /\ DoneHasNoLeaf(w)'
<1>1. AcksAreBetween(w)'
  BY StillBetween DEF NotedInv, SameReads
<1> QED BY <1>1 DEF NotedInv, BatchWasSeen, DoneHasNoLeaf, SameReads

LEMMA PopNoted ==
  ASSUME TypeInv, TypeInv', Grows, NEW w \in Workers, NotedInv(w), PopBatch(w),
         pc[w] \in {"post", "ack"}
  PROVE  AcksAreBetween(w)' /\ BatchWasSeen(w)' /\ DoneHasNoLeaf(w)'
<1> DEFINE s == cycle[w].stack
           n == cycle'[w].stack
<1>1. /\ SameReads(w) /\ pc'[w] = IF Len(s) = 1 THEN "done" ELSE "post"
      /\ n \in Seq(Batch) /\ Len(n) = Len(s) - 1
  BY PopStack
<1>2. ASSUME Len(n) = 0 PROVE n = <<>>
  BY <1>1, <1>2, EmptySeq
<1>3. pc'[w] = "done" => n = <<>>
  <2> HIDE DEF s, n
  <2> QED BY <1>1, <1>2
<1> QED BY <1>1, <1>3, SameNoted DEF Early

LEMMA WorkerNoted ==
  ASSUME TypeInv, TypeInv', Grows, NEW w \in Workers, NotedInv(w),
         Worker(w) \/ ControlPlane(w) \/ Environment(w)
  PROVE  NotedInv(w)'
<1> SUFFICES AcksAreBetween(w)' /\ BatchWasSeen(w)' /\ DoneHasNoLeaf(w)'
  BY WorkerKnown DEF NotedInv
<1>1. ASSUME cycle'[w] = NoCycle, pc'[w] # "done"
      PROVE  AcksAreBetween(w)' /\ BatchWasSeen(w)' /\ DoneHasNoLeaf(w)'
  BY <1>1 DEF NoCycle, AcksAreBetween, BatchWasSeen, DoneHasNoLeaf
<1>2. ASSUME EndCycle(w)
      PROVE  AcksAreBetween(w)' /\ BatchWasSeen(w)' /\ DoneHasNoLeaf(w)'
  BY <1>1, <1>2 DEF EndCycle, Go, TypeInv, TypeOK
<1>3. CASE RecoverQuarantined(w) \/ PurgeIfDue(w) \/ Post(w) \/ LeafAccepted(w) \/ Restart(w)
  <2>1. SameReads(w)
    BY <1>3 DEF RecoverQuarantined, PurgeIfDue, Post, LeafAccepted, Restart, SameReads
  <2>2. pc'[w] # "done" /\ (pc'[w] \in Early => pc[w] \in Early)
    BY <1>3 DEF RecoverQuarantined, PurgeIfDue, Post, LeafAccepted, Restart, Go, Early,
       TypeInv, TypeOK
  <2> QED BY <2>1, <2>2, SameNoted
<1>4. CASE QueryPage(w)
  BY <1>4, QueryNoted
<1>5. CASE ConvertPage(w)
  <2>1. /\ cycle'[w].page = {} /\ cycle'[w].snap = cycle[w].snap
        /\ cycle'[w].ack = cycle[w].ack
        /\ cycle'[w].seen = cycle[w].seen \cup cycle[w].page
        /\ cycle'[w].batch \subseteq cycle[w].batch \cup cycle[w].page
        /\ pc[w] = "convert" /\ pc'[w] \in {"gather", "scan"}
    BY <1>5 DEF ConvertPage, Go, TypeInv, TypeOK, Cycle
  <2>2. AcksAreBetween(w)'
    BY <2>1, StillBetween DEF NotedInv
  <2> QED BY <2>1, <2>2 DEF NotedInv, BatchWasSeen, DoneHasNoLeaf, Early
<1>6. CASE Gather(w)
  BY <1>2, <1>6, GatherNoted
<1>7. CASE SplitBatch(w)
  BY <1>7, SplitStack, SameNoted DEF Early
<1>8. CASE QuarantineOversized(w)
  BY <1>8, PopNoted DEF QuarantineOversized
<1>9. CASE Acknowledge(w)
  <2>1. pc[w] = "ack"
    BY <1>9 DEF Acknowledge
  <2>2. CASE PopBatch(w)
    BY <2>1, <2>2, PopNoted
  <2>3. CASE ~PopBatch(w)
    <3>1. PICK group : cycle' = [cycle EXCEPT ![w].stack[1].records = @ \ group]
      BY <1>9, <2>3 DEF Acknowledge
    <3>2. pc' = pc
      BY <1>9, <2>3 DEF Acknowledge
    <3> QED BY <2>1, <3>1, <3>2, ShrinkStack, SameNoted DEF Early
  <2> QED BY <2>2, <2>3
<1>10. CASE FinishCycle(w) \/ LeafNotAccepted(w) \/ StorageFails(w)
  BY <1>2, <1>10 DEF FinishCycle, LeafNotAccepted, StorageFails
<1>11. CASE Crash(w)
  BY <1>1, <1>11 DEF Crash, Go, TypeInv, TypeOK
<1> QED BY <1>3, <1>4, <1>5, <1>6, <1>7, <1>8, <1>9, <1>10, <1>11
        DEF Worker, ControlPlane, Environment

LEMMA NextNoted ==
  ASSUME TypeInv, \A w \in Workers : NotedInv(w), [Next]_vars
  PROVE  \A w \in Workers : NotedInv(w)'
<1>1. TypeInv' /\ Grows
  BY NextTypeInv, StepGrows
<1>2. ASSUME NEW v \in Workers, pc'[v] = pc[v], cycle'[v] = cycle[v] PROVE NotedInv(v)'
  <2>1. ReadsAreKnown(v)'
    BY <1>1, <1>2, StillKnown DEF NotedInv
  <2>2. SameReads(v)
    BY <1>2 DEF SameReads
  <2> QED BY <1>1, <1>2, <2>1, <2>2, SameNoted DEF NotedInv
<1>3. ASSUME NEW w \in Workers, Worker(w) \/ ControlPlane(w) \/ Environment(w)
      PROVE  \A v \in Workers : NotedInv(v)'
  BY <1>1, <1>2, <1>3, WorkerNoted, StepOfOne DEF OthersKeep
<1>4. CASE Application \/ UNCHANGED vars
  BY <1>2, <1>4 DEF Application, Insert, Update, vars
<1> QED BY <1>3, <1>4 DEF Next
-----------------------------------------------------------------------------
Lone == \A v, w \in Workers : v = w

LeavesOf(s) == {r \in Records : \E i \in 1 .. Len(s) : r \in s[i].records}

Cut == {"post", "await", "ack", "done"}

\* The rows read and not yet cut into leaves, or in a leaf.
OnTheirWay(w) == IF pc[w] \in Cut THEN LeavesOf(cycle[w].stack)
                 ELSE (cycle[w].page \ cycle[w].seen) \cup cycle[w].batch

\* The rows the worker knows to be taken and has not recorded yet.
BeingRecorded(w) == IF pc[w] = "ack" THEN NextBatch(w).records ELSE {}

\* What was taken and is, or will be, recorded.
Recorded == accepted \ unanswered

AsRead(w, r) == version[r] = cycle[w].snap[r].version

OnTheirWayArePending(w) == \A r \in OnTheirWay(w) : AsRead(w, r) => status[r] = "pending"

UnsettledAreInLeaves(w) ==
  pc[w] \in Cut => \A r \in cycle[w].batch :
    AsRead(w, r) /\ status[r] = "pending" => r \in LeavesOf(cycle[w].stack)

\* No version newer than the one read was posted, nor this one with an answer.
NotPostedYet(w) ==
  \A r \in OnTheirWay(w) :
    /\ \A v \in Nat : <<r, v>> \in accepted => v <= cycle[w].snap[r].version
    /\ r \notin BeingRecorded(w) => <<r, cycle[w].snap[r].version>> \notin Recorded

\* What the control plane took is no newer than the row, and what was recorded
\* of the present version left the queue.
RecordedIsSettled(w) ==
  \A r \in Records, v \in Nat :
    /\ <<r, v>> \in accepted => status[r] # "absent" /\ v <= version[r]
    /\ <<r, v>> \in Recorded /\ v = version[r] =>
         status[r] \in {"synced", "purged"} \/ r \in BeingRecorded(w)

LoneInv(w) == /\ OnTheirWayArePending(w) /\ UnsettledAreInLeaves(w)
              /\ NotPostedYet(w) /\ RecordedIsSettled(w)

\* What the lone worker's steps are shown from.
Base(w) == /\ TypeInv /\ LeafInv(w) /\ NotedInv(w) /\ InOrder(cycle[w].stack)

LEMMA SplitLeaves ==
  ASSUME TypeInv, NEW w \in Workers, SplitBatch(w)
  PROVE  LeavesOf(cycle'[w].stack) = LeavesOf(cycle[w].stack)
<1> DEFINE s == cycle[w].stack
           n == cycle'[w].stack
           R == s[1].records
<1>1. /\ Len(s) \in Nat \ {0} /\ s[1] \in Batch /\ Len(n) = Len(s) + 1
      /\ n[1] = SplitInTwo(s[1])[1] /\ n[2] = SplitInTwo(s[1])[2]
      /\ \A i \in 3 .. Len(n) : n[i] = s[i - 1]
  BY SplitStack
<1> HIDE DEF s, n
<1>2. FirstPart(R) \subseteq R
  BY <1>1, FirstPartSubset DEF Batch
<1>3. n[1].records = FirstPart(R) /\ n[2].records = R \ FirstPart(R)
  BY <1>1 DEF SplitInTwo
<1>4. ASSUME NEW i \in 1 .. Len(n), NEW r \in n[i].records
      PROVE  \E j \in 1 .. Len(s) : r \in s[j].records
  <2>1. CASE i \in {1, 2}
    <3>1. 1 \in 1 .. Len(s) /\ r \in s[1].records
      BY <1>1, <1>2, <1>3, <1>4, <2>1
    <3> QED BY <3>1
  <2>2. CASE i \in 3 .. Len(n)
    <3>1. i - 1 \in 1 .. Len(s) /\ r \in s[i - 1].records
      BY <1>1, <1>4, <2>2
    <3> QED BY <3>1
  <2> QED BY <1>1, <2>1, <2>2
<1>5. ASSUME NEW i \in 1 .. Len(s), NEW r \in s[i].records
      PROVE  \E j \in 1 .. Len(n) : r \in n[j].records
  <2>1. CASE i = 1
    <3>1. 1 \in 1 .. Len(n) /\ 2 \in 1 .. Len(n)
      BY <1>1
    <3>2. r \in n[1].records \/ r \in n[2].records
      BY <1>3, <1>5, <2>1
    <3> QED BY <3>1, <3>2
  <2>2. CASE i \in 2 .. Len(s)
    <3>1. i + 1 \in 3 .. Len(n) /\ (i + 1) - 1 = i
      BY <1>1, <2>2
    <3>2. n[i + 1] = s[(i + 1) - 1] /\ i + 1 \in 1 .. Len(n)
      BY <1>1, <3>1
    <3> QED BY <1>5, <3>1, <3>2
  <2> QED BY <1>1, <2>1, <2>2
<1> QED BY <1>4, <1>5 DEF LeavesOf, s, n

\* Leaves in order share no row.
LEMMA FirstIsApart ==
  ASSUME NEW s, InOrder(s), Len(s) \in Nat, NEW i \in 2 .. Len(s), NEW r \in s[i].records,
         r \in s[1].records, r \in Records
  PROVE  FALSE
<1>1. 1 \in 1 .. Len(s) /\ i \in 1 .. Len(s) /\ 1 < i
  OBVIOUS
<1>2. MayPrecede(r, r)
  BY <1>1 DEF InOrder
<1>3. r \in Nat
  BY RecordsAssumption
<1> QED BY <1>2, <1>3 DEF MayPrecede

LEMMA PopLeaves ==
  ASSUME TypeInv, NEW w \in Workers, PopBatch(w), pc[w] \in {"post", "ack"},
         InOrder(cycle[w].stack)
  PROVE  LET L == LeavesOf(cycle[w].stack)
             K == LeavesOf(cycle'[w].stack)
             R == cycle[w].stack[1].records
         IN  K \subseteq L /\ L \subseteq K \cup R /\ K \cap R = {}
<1> DEFINE s == cycle[w].stack
           n == cycle'[w].stack
<1>1. /\ Len(s) \in Nat \ {0} /\ Len(n) = Len(s) - 1
      /\ \A i \in 1 .. Len(n) : n[i] = s[i + 1]
  BY PopStack
<1>2. InOrder(s)
  OBVIOUS
<1> HIDE DEF s, n
<1>3. ASSUME NEW r \in LeavesOf(n)
      PROVE  r \in LeavesOf(s) /\ r \notin s[1].records
  <2>1. PICK i \in 1 .. Len(n) : r \in n[i].records
    BY DEF LeavesOf
  <2>2. i + 1 \in 2 .. Len(s) /\ r \in s[i + 1].records /\ r \in Records
    BY <1>1, <2>1 DEF LeavesOf
  <2>3. i + 1 \in 1 .. Len(s)
    BY <1>1
  <2> QED BY <1>1, <1>2, <2>2, <2>3, FirstIsApart DEF LeavesOf
<1>4. ASSUME NEW r \in LeavesOf(s) PROVE r \in LeavesOf(n) \cup s[1].records
  <2>1. PICK i \in 1 .. Len(s) : r \in s[i].records
    BY DEF LeavesOf
  <2>2. CASE i = 1
    BY <2>1, <2>2
  <2>3. CASE i # 1
    <3>1. i - 1 \in 1 .. Len(n) /\ (i - 1) + 1 = i
      BY <1>1, <2>3
    <3>2. r \in n[i - 1].records
      BY <1>1, <2>1, <3>1
    <3> QED BY <3>1, <3>2 DEF LeavesOf
  <2> QED BY <2>2, <2>3
<1> QED BY <1>3, <1>4 DEF s, n

LEMMA ShrinkLeaves ==
  ASSUME TypeInv, NEW w \in Workers, pc[w] = "ack", NEW group,
         group \subseteq cycle[w].stack[1].records,
         cycle' = [cycle EXCEPT ![w].stack[1].records = @ \ group],
         InOrder(cycle[w].stack)
  PROVE  LET L == LeavesOf(cycle[w].stack)
             K == LeavesOf(cycle'[w].stack)
         IN  /\ K \subseteq L /\ L \subseteq K \cup group /\ K \cap group = {}
             /\ cycle'[w].stack[1].records = cycle[w].stack[1].records \ group
<1> DEFINE s == cycle[w].stack
           n == cycle'[w].stack
<1>1. /\ Len(s) \in Nat \ {0} /\ Len(n) = Len(s)
      /\ n[1].records = s[1].records \ group
      /\ \A i \in 2 .. Len(n) : n[i] = s[i]
  BY ShrinkStack
<1>2. InOrder(s) /\ group \subseteq s[1].records
  OBVIOUS
<1> HIDE DEF s, n
<1>3. ASSUME NEW r \in LeavesOf(n) PROVE r \in LeavesOf(s) /\ r \notin group
  <2>1. PICK i \in 1 .. Len(n) : r \in n[i].records
    BY DEF LeavesOf
  <2>2. r \in Records
    BY DEF LeavesOf
  <2>3. CASE i = 1
    BY <1>1, <2>1, <2>2, <2>3 DEF LeavesOf
  <2>4. CASE i \in 2 .. Len(n)
    <3>1. r \in s[i].records /\ i \in 2 .. Len(s) /\ i \in 1 .. Len(s)
      BY <1>1, <2>1, <2>4
    <3>2. r \notin s[1].records
      BY <1>1, <1>2, <2>2, <3>1, FirstIsApart
    <3> QED BY <1>2, <2>2, <3>1, <3>2 DEF LeavesOf
  <2> QED BY <1>1, <2>3, <2>4
<1>4. ASSUME NEW r \in LeavesOf(s) PROVE r \in LeavesOf(n) \cup group
  <2>1. PICK i \in 1 .. Len(s) : r \in s[i].records
    BY DEF LeavesOf
  <2>2. CASE r \notin group
    <3>1. r \in n[i].records /\ i \in 1 .. Len(n)
      BY <1>1, <2>1, <2>2
    <3> QED BY <3>1 DEF LeavesOf
  <2> QED BY <2>2
<1>5. n[1].records = s[1].records \ group
  BY <1>1
<1> QED BY <1>3, <1>4, <1>5 DEF s, n

LEMMA HeadIsALeaf ==
  ASSUME NEW w \in Workers, Base(w), pc[w] \in {"post", "await", "ack"}
  PROVE  /\ NextBatch(w).records = cycle[w].stack[1].records
         /\ NextBatch(w).records \subseteq LeavesOf(cycle[w].stack)
         /\ NextBatch(w).records \subseteq Records
<1>1. /\ NextBatch(w) \in Batch /\ NextBatch(w) = cycle[w].stack[1]
      /\ 1 \in 1 .. Len(cycle[w].stack)
  BY StackFacts DEF Base, TypeInv, StackNotEmpty
<1> QED BY <1>1 DEF LeavesOf, Batch

LEMMA LeavesAreRead ==
  ASSUME NEW w \in Workers, Base(w) PROVE LeavesOf(cycle[w].stack) \subseteq cycle[w].batch
BY DEF Base, LeafInv, LeavesCutFromBatch, LeavesOf

\* What is known of a row that was read.
LEMMA ReadFacts ==
  ASSUME NEW w \in Workers, Base(w), NEW r \in OnTheirWay(w) \cup cycle[w].batch
  PROVE  /\ r \in Records /\ status[r] # "absent"
         /\ cycle[w].snap[r].version \in Nat /\ version[r] \in Nat
         /\ cycle[w].snap[r].version <= version[r]
         /\ version[r] = cycle[w].snap[r].version => cycle[w].ack[r] = version[r]
<1>1. r \in cycle[w].page \cup cycle[w].seen \cup cycle[w].batch
  BY LeavesAreRead DEF OnTheirWay
<1>2. r \in Records
  BY <1>1 DEF Base, TypeInv, TypeOK, Cycle, Records
<1>3. cycle[w].snap[r].version \in Nat /\ version[r] \in Nat /\ cycle[w].ack[r] \in Nat
  BY <1>2 DEF Base, TypeInv, TypeOK, Cycle, Snapshots, Versions
<1> QED BY <1>1, <1>2, <1>3 DEF Base, NotedInv, ReadsAreKnown, AcksAreBetween

\* The rows change under a worker that does not move: written anew, put back in the
\* queue before a batch is cut, or purged.
LEMMA RowsMove ==
  ASSUME TypeInv', NEW w \in Workers, Base(w), LoneInv(w),
         cycle'[w] = cycle[w], UNCHANGED server,
         OnTheirWay(w)' = OnTheirWay(w), BeingRecorded(w)' = BeingRecorded(w),
         pc'[w] \in Cut => pc[w] \in Cut,
         \A r \in Records :
           \/ version'[r] = version[r] /\ status'[r] = status[r]
           \/ status[r] = "absent" /\ version'[r] \in Nat
           \/ status[r] # "absent" /\ status'[r] # "absent" /\ version[r] < version'[r]
           \/ /\ version'[r] = version[r] /\ pc'[w] \notin Cut
              /\ \/ status[r] = "quarantined" /\ status'[r] = "pending"
                 \/ status[r] = "synced" /\ status'[r] = "purged"
  PROVE  LoneInv(w)'
<1>1. OnTheirWayArePending(w)'
  <2> SUFFICES ASSUME NEW r \in OnTheirWay(w), version'[r] = cycle[w].snap[r].version
               PROVE  status'[r] = "pending"
    BY DEF OnTheirWayArePending, AsRead
  <2>1. /\ r \in Records /\ status[r] # "absent" /\ version[r] \in Nat
        /\ cycle[w].snap[r].version <= version[r] /\ version'[r] \in Nat
        /\ version[r] = version'[r] => status[r] = "pending"
    BY ReadFacts DEF LoneInv, OnTheirWayArePending, AsRead, TypeInv, TypeOK
  <2> QED BY <2>1
<1>2. UnsettledAreInLeaves(w)'
  <2> SUFFICES ASSUME pc'[w] \in Cut, NEW r \in cycle[w].batch,
                      version'[r] = cycle[w].snap[r].version, status'[r] = "pending"
               PROVE  r \in LeavesOf(cycle[w].stack)
    BY DEF UnsettledAreInLeaves, AsRead
  <2>1. /\ r \in Records /\ status[r] # "absent" /\ version[r] \in Nat
        /\ cycle[w].snap[r].version <= version[r] /\ version'[r] \in Nat
    BY ReadFacts DEF TypeInv, TypeOK
  <2>2. version'[r] = version[r] /\ status'[r] = status[r]
    BY <2>1
  <2> QED BY <2>2 DEF LoneInv, UnsettledAreInLeaves, AsRead
<1>3. NotPostedYet(w)'
  BY DEF LoneInv, NotPostedYet, Recorded
<1>4. RecordedIsSettled(w)'
  <2> SUFFICES ASSUME NEW r \in Records, NEW v \in Nat
               PROVE  /\ <<r, v>> \in accepted => status'[r] # "absent" /\ v <= version'[r]
                      /\ <<r, v>> \in Recorded /\ v = version'[r] =>
                           status'[r] \in {"synced", "purged"} \/ r \in BeingRecorded(w)
    BY DEF RecordedIsSettled, Recorded
  <2>1. /\ <<r, v>> \in accepted => status[r] # "absent" /\ v <= version[r]
        /\ <<r, v>> \in Recorded /\ v = version[r] =>
             status[r] \in {"synced", "purged"} \/ r \in BeingRecorded(w)
        /\ <<r, v>> \in Recorded => <<r, v>> \in accepted
    BY DEF LoneInv, RecordedIsSettled, Recorded
  <2>2. version[r] \in Nat /\ version'[r] \in Nat
    BY DEF Base, TypeInv, TypeOK
  <2>3. CASE version'[r] = version[r] /\ status'[r] = status[r]
    BY <2>1, <2>3
  <2>4. CASE status[r] = "absent"
    BY <2>1, <2>4
  <2>5. CASE status[r] # "absent" /\ status'[r] # "absent" /\ version[r] < version'[r]
    BY <2>1, <2>2, <2>5
  <2>6. CASE /\ version'[r] = version[r] /\ pc'[w] \notin Cut
             /\ \/ status[r] = "quarantined" /\ status'[r] = "pending"
                \/ status[r] = "synced" /\ status'[r] = "purged"
    <3>1. BeingRecorded(w) = {}
      BY <2>6 DEF BeingRecorded, Cut
    <3> QED BY <2>1, <2>6, <3>1
  <2> QED BY <2>3, <2>4, <2>5, <2>6
<1> QED BY <1>1, <1>2, <1>3, <1>4 DEF LoneInv

\* A worker that drops what it had read: what it knew to be taken and did not record
\* is noted as unanswered.
LEMMA DropsItsCycle ==
  ASSUME NEW w \in Workers, Base(w), LoneInv(w), cycle'[w] = NoCycle,
         pc'[w] \in {"idle", "down"}, UNCHANGED rows,
         \/ accepted' = accepted /\ unanswered' = unanswered \cup Unrecorded(w)
         \/ /\ pc[w] = "await"
            /\ \E R \in SUBSET NextBatch(w).records :
                 /\ accepted' = accepted \cup Posted(w, R)
                 /\ unanswered' = unanswered \cup Posted(w, R)
  PROVE  LoneInv(w)'
<1>1. OnTheirWay(w)' = {} /\ BeingRecorded(w)' = {} /\ pc'[w] \notin Cut
  BY DEF OnTheirWay, BeingRecorded, NoCycle, Cut
<1>2. OnTheirWayArePending(w)' /\ UnsettledAreInLeaves(w)' /\ NotPostedYet(w)'
  BY <1>1 DEF OnTheirWayArePending, UnsettledAreInLeaves, NotPostedYet
<1>3. Recorded' \subseteq Recorded
  BY DEF Recorded
<1>4. RecordedIsSettled(w)'
  <2> SUFFICES ASSUME NEW r \in Records, NEW v \in Nat
               PROVE  /\ <<r, v>> \in accepted' => status[r] # "absent" /\ v <= version[r]
                      /\ <<r, v>> \in Recorded' /\ v = version[r] =>
                           status[r] \in {"synced", "purged"}
    BY <1>1 DEF RecordedIsSettled
  <2>1. <<r, v>> \in accepted' => status[r] # "absent" /\ v <= version[r]
    <3>1. ASSUME <<r, v>> \in accepted' \ accepted PROVE status[r] # "absent" /\ v <= version[r]
      <4>1. pc[w] = "await" /\ r \in NextBatch(w).records /\ v = cycle[w].snap[r].version
        BY <3>1 DEF Posted
      <4>2. r \in OnTheirWay(w)
        BY <4>1, HeadIsALeaf DEF OnTheirWay, Cut
      <4> QED BY <4>1, <4>2, ReadFacts
    <3> QED BY <3>1 DEF LoneInv, RecordedIsSettled
  <2>2. ASSUME <<r, v>> \in Recorded', v = version[r] PROVE status[r] \in {"synced", "purged"}
    <3>1. status[r] \in {"synced", "purged"} \/ r \in BeingRecorded(w)
      BY <1>3, <2>2 DEF LoneInv, RecordedIsSettled
    <3>2. CASE r \in BeingRecorded(w)
      <4>1. pc[w] = "ack" /\ r \in NextBatch(w).records
        BY <3>2 DEF BeingRecorded
      <4>2. r \in OnTheirWay(w)
        BY <4>1, HeadIsALeaf DEF OnTheirWay, Cut
      <4>3. <<r, v>> \in accepted
        BY <1>3, <2>2 DEF Recorded
      <4>4. v <= cycle[w].snap[r].version
        BY <4>2, <4>3 DEF LoneInv, NotPostedYet
      <4>5. v = cycle[w].snap[r].version
        BY <2>2, <4>2, <4>4, ReadFacts
      <4>6. <<r, v>> \in Unrecorded(w)
        BY <4>1, <4>5 DEF Unrecorded, Posted
      <4> QED BY <2>2, <4>1, <4>6 DEF Recorded
    <3> QED BY <3>1, <3>2
  <2> QED BY <2>1, <2>2
<1> QED BY <1>2, <1>4 DEF LoneInv

LEMMA QueryLone ==
  ASSUME NEW w \in Workers, Base(w), LoneInv(w), QueryPage(w) PROVE LoneInv(w)'
<1> DEFINE page  == Oldest(Pending(Events), RoomInPage(w))
           seen  == cycle[w].seen
           snaps == TakeSnapshots(w, page \ seen)
<1>1. /\ cycle'[w].page = page /\ cycle'[w].seen = seen
      /\ cycle'[w].batch = cycle[w].batch
      /\ cycle'[w].snap = snaps
      /\ UNCHANGED <<rows, server>> /\ pc[w] = "scan" /\ pc'[w] \in {"gather", "convert"}
  BY DEF QueryPage, Go, Base, TypeInv, TypeOK, Cycle
<1>2. page \subseteq Records /\ \A r \in page : status[r] = "pending"
  BY OldestSubset DEF Pending, Records
<1>3. /\ \A r \in page \ seen : snaps[r].version = version[r]
      /\ \A r \in Records : r \notin page \ seen => snaps[r] = cycle[w].snap[r]
  BY <1>2 DEF TakeSnapshots
<1>4. /\ BeingRecorded(w) = {} /\ BeingRecorded(w)' = {} /\ pc'[w] \notin Cut
      /\ OnTheirWay(w)' = (page \ seen) \cup cycle[w].batch
      /\ cycle[w].batch \subseteq OnTheirWay(w)
  BY <1>1 DEF BeingRecorded, OnTheirWay, Cut
<1>5. cycle[w].batch \subseteq seen
  BY <1>1 DEF Base, NotedInv, BatchWasSeen, Early
<1> HIDE DEF page, snaps
<1>6. \A r \in cycle[w].batch : r \in Records /\ snaps[r] = cycle[w].snap[r]
  BY <1>3, <1>5, ReadFacts
<1>7. OnTheirWayArePending(w)'
  <2>1. ASSUME NEW r \in (page \ seen) \cup cycle[w].batch, version[r] = snaps[r].version
        PROVE  status[r] = "pending"
    BY <1>2, <1>4, <1>6, <2>1 DEF LoneInv, OnTheirWayArePending, AsRead
  <2> QED BY <1>1, <1>4, <2>1 DEF OnTheirWayArePending, AsRead
<1>8. NotPostedYet(w)'
  <2>1. ASSUME NEW r \in (page \ seen) \cup cycle[w].batch
        PROVE  /\ \A v \in Nat : <<r, v>> \in accepted => v <= snaps[r].version
               /\ <<r, snaps[r].version>> \notin Recorded
    <3>1. CASE r \in cycle[w].batch
      BY <1>4, <1>6, <3>1 DEF LoneInv, NotPostedYet
    <3>2. CASE r \in page \ seen
      <4>1. r \in Records /\ version[r] \in Nat /\ snaps[r].version = version[r]
        BY <1>2, <1>3, <3>2 DEF Base, TypeInv, TypeOK
      <4> QED BY <1>2, <1>4, <3>2, <4>1 DEF LoneInv, RecordedIsSettled
    <3> QED BY <3>1, <3>2
  <2> QED BY <1>1, <1>4, <2>1 DEF NotPostedYet, Recorded
<1>9. RecordedIsSettled(w)'
  BY <1>1, <1>4 DEF LoneInv, RecordedIsSettled, Recorded
<1> QED BY <1>4, <1>7, <1>8, <1>9 DEF LoneInv, UnsettledAreInLeaves

LEMMA ConvertLone ==
  ASSUME NEW w \in Workers, Base(w), LoneInv(w), ConvertPage(w) PROVE LoneInv(w)'
<1> DEFINE new  == cycle[w].page \ cycle[w].seen
           good == {e \in new : Convertible(w, cycle[w].snap[e].content)}
<1>1. /\ cycle'[w].page = {}
      /\ cycle'[w].batch = cycle[w].batch \cup good
      /\ cycle'[w].snap = cycle[w].snap
      /\ version' = version /\ UNCHANGED server
      /\ pc[w] = "convert" /\ pc'[w] \in {"gather", "scan"}
      /\ SetStatus(Unchanged(w, new \ good), "quarantined")
  BY DEF ConvertPage, MarkQuarantined, Go, Base, TypeInv, TypeOK, Cycle
<1>2. good \subseteq new
  OBVIOUS
<1>3. cycle[w].batch \cap new = {}
  BY <1>1 DEF Base, NotedInv, BatchWasSeen, Early
<1>4. /\ BeingRecorded(w) = {} /\ BeingRecorded(w)' = {} /\ pc'[w] \notin Cut
      /\ OnTheirWay(w) = new \cup cycle[w].batch
      /\ OnTheirWay(w)' = good \cup cycle[w].batch
  BY <1>1 DEF BeingRecorded, OnTheirWay, Cut
<1> HIDE DEF new, good
<1>5. /\ \A r \in good \cup cycle[w].batch : r \in Records /\ status'[r] = status[r]
      /\ \A r \in Records : \/ status'[r] = status[r]
                            \/ status[r] = "pending" /\ status'[r] = "quarantined"
  BY <1>1, <1>2, <1>3, <1>4, ReadFacts DEF SetStatus, Unchanged
<1>6. OnTheirWayArePending(w)'
  BY <1>1, <1>2, <1>4, <1>5 DEF LoneInv, OnTheirWayArePending, AsRead
<1>7. NotPostedYet(w)'
  BY <1>1, <1>2, <1>4 DEF LoneInv, NotPostedYet, Recorded
<1>8. RecordedIsSettled(w)'
  BY <1>1, <1>4, <1>5 DEF LoneInv, RecordedIsSettled, Recorded
<1> QED BY <1>4, <1>6, <1>7, <1>8 DEF LoneInv, UnsettledAreInLeaves

LEMMA GatherLone ==
  ASSUME NEW w \in Workers, Base(w), LoneInv(w), Gather(w), ~EndCycle(w) PROVE LoneInv(w)'
<1> DEFINE others == Oldest(Pending(Tasks), TaskLimit)
                     \cup Oldest(Pending(Jobs), BatchSize - Cardinality(cycle[w].batch))
                     \cup Oldest(Pending(Outcomes), BatchSize)
                     \cup Oldest(Pending(Revenues), BatchSize)
           snaps  == TakeSnapshots(w, others)
           batch  == cycle[w].batch \cup others
<1>1. /\ cycle'[w].batch = batch /\ cycle'[w].snap = snaps
      /\ \E f : cycle'[w].stack = <<[records |-> batch, identities |-> f]>>
      /\ pc[w] = "gather" /\ pc'[w] = "post" /\ UNCHANGED <<rows, server>>
  BY Gathered DEF Base
<1>2. others \subseteq Records /\ \A r \in others : status[r] = "pending"
  BY OldestSubset DEF Pending, Records
<1>3. /\ \A r \in others : snaps[r].version = version[r]
      /\ \A r \in Records \ others : snaps[r] = cycle[w].snap[r]
  BY <1>2 DEF TakeSnapshots
<1>4. /\ BeingRecorded(w) = {} /\ BeingRecorded(w)' = {}
      /\ cycle[w].batch \subseteq OnTheirWay(w)
  BY <1>1 DEF BeingRecorded, OnTheirWay, Cut
<1>5. batch \subseteq Records
  BY <1>2 DEF Base, TypeInv, TypeOK, Cycle
<1> HIDE DEF others, snaps, batch
<1>6. LeavesOf(cycle'[w].stack) = batch /\ OnTheirWay(w)' = batch
  <2>1. PICK f : cycle'[w].stack = <<[records |-> batch, identities |-> f]>>
    BY <1>1
  <2>2. LeavesOf(<<[records |-> batch, identities |-> f]>>) = batch
    BY <1>5 DEF LeavesOf
  <2> QED BY <1>1, <2>1, <2>2 DEF OnTheirWay, Cut
<1>7. \A r \in batch : r \in others \/ (r \in cycle[w].batch /\ snaps[r] = cycle[w].snap[r])
  BY <1>3, <1>5 DEF batch
<1>8. OnTheirWayArePending(w)'
  <2>1. ASSUME NEW r \in batch, version[r] = snaps[r].version PROVE status[r] = "pending"
    BY <1>2, <1>4, <1>7, <2>1 DEF LoneInv, OnTheirWayArePending, AsRead
  <2> QED BY <1>1, <1>6, <2>1 DEF OnTheirWayArePending, AsRead
<1>9. UnsettledAreInLeaves(w)'
  BY <1>1, <1>6 DEF UnsettledAreInLeaves
<1>10. NotPostedYet(w)'
  <2>1. ASSUME NEW r \in batch
        PROVE  /\ \A v \in Nat : <<r, v>> \in accepted => v <= snaps[r].version
               /\ <<r, snaps[r].version>> \notin Recorded
    <3>1. CASE r \in cycle[w].batch /\ snaps[r] = cycle[w].snap[r]
      BY <1>4, <3>1 DEF LoneInv, NotPostedYet
    <3>2. CASE r \in others
      <4>1. r \in Records /\ version[r] \in Nat /\ snaps[r].version = version[r]
        BY <1>2, <1>3, <3>2 DEF Base, TypeInv, TypeOK
      <4> QED BY <1>2, <1>4, <3>2, <4>1 DEF LoneInv, RecordedIsSettled
    <3> QED BY <1>7, <3>1, <3>2
  <2> QED BY <1>1, <1>6, <2>1 DEF NotPostedYet, Recorded
<1>11. RecordedIsSettled(w)'
  BY <1>1, <1>4 DEF LoneInv, RecordedIsSettled, Recorded
<1> QED BY <1>8, <1>9, <1>10, <1>11 DEF LoneInv

LEMMA SplitLone ==
  ASSUME NEW w \in Workers, Base(w), LoneInv(w), SplitBatch(w) PROVE LoneInv(w)'
<1>1. SameReads(w) /\ pc' = pc /\ pc[w] = "post"
  BY SplitStack DEF Base
<1>2. LeavesOf(cycle'[w].stack) = LeavesOf(cycle[w].stack)
  BY SplitLeaves DEF Base
<1>3. UNCHANGED <<rows, server>>
  BY DEF SplitBatch
<1>4. /\ OnTheirWay(w) = LeavesOf(cycle[w].stack)
      /\ OnTheirWay(w)' = LeavesOf(cycle[w].stack)
      /\ BeingRecorded(w) = {} /\ BeingRecorded(w)' = {}
  BY <1>1, <1>2 DEF OnTheirWay, BeingRecorded, Cut
<1> QED BY <1>1, <1>2, <1>3, <1>4 DEF LoneInv, OnTheirWayArePending, UnsettledAreInLeaves,
        NotPostedYet, RecordedIsSettled, Recorded, AsRead, SameReads

\* A group of the leaf on top is settled: acknowledged, or set aside.
LEMMA SettleLone ==
  ASSUME NEW w \in Workers, Base(w), LoneInv(w), SameReads(w), NEW group, NEW s,
         SetStatus(Unchanged(w, group), s),
         \/ s = "synced" /\ pc[w] = "ack"
         \/ s = "quarantined" /\ pc[w] = "post",
         version' = version, UNCHANGED server,
         pc'[w] \in Cut,
         group \subseteq NextBatch(w).records,
         LeavesOf(cycle'[w].stack) \subseteq LeavesOf(cycle[w].stack),
         LeavesOf(cycle[w].stack) \subseteq LeavesOf(cycle'[w].stack) \cup group,
         LeavesOf(cycle'[w].stack) \cap group = {},
         \/ BeingRecorded(w)' = {} /\ group = NextBatch(w).records
         \/ BeingRecorded(w)' = BeingRecorded(w) \ group
  PROVE  LoneInv(w)'
<1> DEFINE L == LeavesOf(cycle[w].stack)
           K == LeavesOf(cycle'[w].stack)
<1>1. /\ OnTheirWay(w) = L /\ OnTheirWay(w)' = K /\ pc[w] \in Cut
      /\ NextBatch(w).records \subseteq L
  BY HeadIsALeaf DEF OnTheirWay, Cut
<1>2. /\ K \subseteq L /\ L \subseteq K \cup group /\ K \cap group = {} /\ group \subseteq L
      /\ \A r \in L : r \in Records
  BY <1>1 DEF LeavesOf
<1>3. /\ BeingRecorded(w)' \subseteq BeingRecorded(w)
      /\ BeingRecorded(w) \subseteq BeingRecorded(w)' \cup group
  BY DEF BeingRecorded
<1> HIDE DEF L, K
<1>4. \A r \in Records : status'[r] = IF r \in Unchanged(w, group) THEN s ELSE status[r]
  BY DEF SetStatus
<1>5. \A r \in group : AsRead(w, r) => status'[r] = s
  <2> SUFFICES ASSUME NEW r \in group, AsRead(w, r) PROVE status'[r] = s
    OBVIOUS
  <2>1. r \in Records /\ cycle[w].ack[r] = version[r]
    BY <1>1, <1>2, ReadFacts DEF AsRead
  <2>2. status[r] = "pending"
    BY <1>1, <1>2 DEF LoneInv, OnTheirWayArePending
  <2> QED BY <1>4, <2>1, <2>2 DEF Unchanged
<1>6. OnTheirWayArePending(w)'
  <2>1. ASSUME NEW r \in K, version[r] = cycle[w].snap[r].version PROVE status'[r] = "pending"
    <3>1. status[r] = "pending"
      BY <1>1, <1>2, <2>1 DEF LoneInv, OnTheirWayArePending, AsRead
    <3> QED BY <1>2, <1>4, <3>1 DEF Unchanged
  <2> QED BY <1>1, <2>1 DEF OnTheirWayArePending, AsRead, SameReads
<1>7. UnsettledAreInLeaves(w)'
  <2>1. ASSUME NEW r \in cycle[w].batch, version[r] = cycle[w].snap[r].version,
               status'[r] = "pending"
        PROVE  r \in K
    <3>1. r \in Records
      BY ReadFacts
    <3>2. status[r] = "pending"
      BY <1>4, <2>1, <3>1 DEF Unchanged
    <3>3. r \in L
      BY <1>1, <2>1, <3>2 DEF LoneInv, UnsettledAreInLeaves, AsRead, L
    <3>4. r \notin group
      BY <1>5, <2>1 DEF AsRead
    <3> QED BY <1>2, <3>3, <3>4
  <2> QED BY <2>1 DEF UnsettledAreInLeaves, AsRead, SameReads, K
<1>8. NotPostedYet(w)'
  <2>1. \A r \in K : r \notin BeingRecorded(w)' => r \notin BeingRecorded(w)
    BY <1>2, <1>3
  <2> QED BY <1>1, <1>2, <2>1 DEF LoneInv, NotPostedYet, Recorded, SameReads
<1>9. RecordedIsSettled(w)'
  <2> SUFFICES ASSUME NEW r \in Records, NEW v \in Nat
               PROVE  /\ <<r, v>> \in accepted => status'[r] # "absent" /\ v <= version[r]
                      /\ <<r, v>> \in Recorded /\ v = version[r] =>
                           status'[r] \in {"synced", "purged"} \/ r \in BeingRecorded(w)'
    BY DEF RecordedIsSettled, Recorded
  <2>1. /\ <<r, v>> \in accepted => status[r] # "absent" /\ v <= version[r]
        /\ <<r, v>> \in Recorded /\ v = version[r] =>
             status[r] \in {"synced", "purged"} \/ r \in BeingRecorded(w)
    BY DEF LoneInv, RecordedIsSettled
  <2>2. status'[r] # status[r] => status[r] = "pending" /\ status'[r] = s
    BY <1>4 DEF Unchanged
  <2>3. ASSUME <<r, v>> \in Recorded, v = version[r], r \in BeingRecorded(w),
               r \notin BeingRecorded(w)'
        PROVE  status'[r] = "synced"
    <3>1. r \in group /\ pc[w] = "ack"
      BY <1>3, <2>3 DEF BeingRecorded
    <3>2. <<r, v>> \in accepted /\ r \in L
      BY <1>2, <2>3, <3>1 DEF Recorded
    <3>3. v <= cycle[w].snap[r].version
      BY <1>1, <3>2 DEF LoneInv, NotPostedYet
    <3>4. AsRead(w, r)
      BY <1>1, <2>3, <3>2, <3>3, ReadFacts DEF AsRead
    <3> QED BY <1>5, <3>1, <3>4
  <2> QED BY <2>1, <2>2, <2>3
<1> QED BY <1>6, <1>7, <1>8, <1>9 DEF LoneInv

LEMMA AcceptedLone ==
  ASSUME NEW w \in Workers, Base(w), LoneInv(w), LeafAccepted(w) PROVE LoneInv(w)'
<1> DEFINE L    == LeavesOf(cycle[w].stack)
           head == NextBatch(w).records
           snap == cycle[w].snap
<1>1. /\ cycle' = cycle /\ pc[w] = "await" /\ pc'[w] = "ack" /\ UNCHANGED <<rows, unanswered>>
      /\ accepted' = accepted \cup Posted(w, head)
  BY DEF LeafAccepted, Accept, Go, Base, TypeInv, TypeOK
<1>2. /\ OnTheirWay(w) = L /\ OnTheirWay(w)' = L /\ head \subseteq L
      /\ BeingRecorded(w) = {} /\ BeingRecorded(w)' = head
  BY <1>1, HeadIsALeaf DEF OnTheirWay, BeingRecorded, NextBatch, Cut
<1> HIDE DEF L, head
<1>3. \A r \in L : /\ status[r] # "absent" /\ snap[r].version \in Nat
                   /\ snap[r].version <= version[r]
  BY <1>2, ReadFacts
<1>4. \A r, v : <<r, v>> \in accepted' =>
        <<r, v>> \in accepted \/ (r \in head /\ v = snap[r].version)
  BY <1>1 DEF Posted
<1>5. OnTheirWayArePending(w)' /\ UnsettledAreInLeaves(w)'
  BY <1>1, <1>2 DEF LoneInv, OnTheirWayArePending, UnsettledAreInLeaves, AsRead, Cut
<1>6. NotPostedYet(w)'
  <2>1. ASSUME NEW r \in L
        PROVE  /\ \A v \in Nat : <<r, v>> \in accepted' => v <= snap[r].version
               /\ r \notin head => <<r, snap[r].version>> \notin Recorded'
    BY <1>1, <1>2, <1>3, <1>4 DEF LoneInv, NotPostedYet, Recorded
  <2> QED BY <1>1, <1>2, <2>1 DEF NotPostedYet
<1>7. RecordedIsSettled(w)'
  <2> SUFFICES ASSUME NEW r \in Records, NEW v \in Nat
               PROVE  /\ <<r, v>> \in accepted' => status[r] # "absent" /\ v <= version[r]
                      /\ <<r, v>> \in Recorded' /\ v = version[r] =>
                           status[r] \in {"synced", "purged"} \/ r \in head
    BY <1>1, <1>2 DEF RecordedIsSettled
  <2>1. CASE <<r, v>> \in accepted
    BY <1>1, <1>2, <2>1 DEF LoneInv, RecordedIsSettled, Recorded
  <2>2. CASE r \in head /\ v = snap[r].version
    BY <1>2, <1>3, <2>2
  <2>3. CASE <<r, v>> \notin accepted'
    BY <2>3 DEF Recorded
  <2> QED BY <1>4, <2>1, <2>2, <2>3
<1> QED BY <1>5, <1>6, <1>7 DEF LoneInv

LEMMA AcknowledgeLone ==
  ASSUME NEW w \in Workers, Base(w), LoneInv(w), Acknowledge(w) PROVE LoneInv(w)'
<1> DEFINE head  == NextBatch(w).records
           group == AckGroup(head)
<1>1. /\ pc[w] = "ack" /\ version' = version /\ UNCHANGED server
      /\ SetStatus(Unchanged(w, group), "synced")
  BY DEF Acknowledge
<1>2. /\ head = cycle[w].stack[1].records /\ head \in SUBSET Records
      /\ BeingRecorded(w) = head
  BY <1>1, HeadIsALeaf DEF BeingRecorded
<1>3. group \subseteq head
  BY <1>2, AckGroupSubset
<1>4. TypeInv /\ InOrder(cycle[w].stack)
  BY DEF Base
<1>5. CASE head \ group = {}
  <2>1. PopBatch(w)
    BY <1>5 DEF Acknowledge
  <2>2. group = head
    BY <1>3, <1>5
  <2>3. SameReads(w) /\ pc'[w] \in {"done", "post"}
    BY <1>1, <1>4, <2>1, PopStack
  <2>4. /\ LeavesOf(cycle'[w].stack) \subseteq LeavesOf(cycle[w].stack)
        /\ LeavesOf(cycle[w].stack) \subseteq LeavesOf(cycle'[w].stack) \cup head
        /\ LeavesOf(cycle'[w].stack) \cap head = {}
    BY <1>1, <1>2, <1>4, <2>1, PopLeaves
  <2>5. BeingRecorded(w)' = {} /\ pc'[w] \in Cut
    BY <2>3 DEF BeingRecorded, Cut
  <2> HIDE DEF group, head
  <2> QED BY <1>1, <2>2, <2>3, <2>4, <2>5, SettleLone DEF head
<1>6. CASE head \ group # {}
  <2>1. cycle' = [cycle EXCEPT ![w].stack[1].records = @ \ group] /\ pc' = pc
    BY <1>6 DEF Acknowledge
  <2> HIDE DEF group
  <2>2. SameReads(w)
    BY <1>1, <1>4, <2>1, ShrinkStack
  <2>3. /\ LeavesOf(cycle'[w].stack) \subseteq LeavesOf(cycle[w].stack)
        /\ LeavesOf(cycle[w].stack) \subseteq LeavesOf(cycle'[w].stack) \cup group
        /\ LeavesOf(cycle'[w].stack) \cap group = {}
        /\ cycle'[w].stack[1].records = cycle[w].stack[1].records \ group
    BY <1>1, <1>2, <1>3, <1>4, <2>1, ShrinkLeaves
  <2>4. /\ cycle'[w].stack # <<>>
        /\ pc'[w] \in Cut
    <3>1. /\ Len(cycle'[w].stack) = Len(cycle[w].stack)
          /\ Len(cycle[w].stack) \in Nat \ {0}
      BY <1>1, <1>4, <2>1, ShrinkStack
    <3>2. Len(<<>>) = 0
      BY EmptySeq
    <3> QED BY <1>1, <2>1, <3>1, <3>2 DEF Cut
  <2>5. BeingRecorded(w)' = BeingRecorded(w) \ group
    <3>1. NextBatch(w)' = cycle'[w].stack[1]
      BY <2>4 DEF NextBatch
    <3> QED BY <1>1, <1>2, <2>1, <2>3, <3>1 DEF BeingRecorded
  <2> HIDE DEF head
  <2> QED BY <1>1, <1>3, <2>2, <2>3, <2>4, <2>5, SettleLone DEF head
<1> QED BY <1>5, <1>6

LEMMA QuarantineLone ==
  ASSUME NEW w \in Workers, Base(w), LoneInv(w), QuarantineOversized(w) PROVE LoneInv(w)'
<1> DEFINE head == NextBatch(w).records
<1>1. /\ pc[w] = "post" /\ version' = version /\ UNCHANGED server
      /\ SetStatus(Unchanged(w, head), "quarantined") /\ PopBatch(w)
  BY DEF QuarantineOversized, MarkQuarantined
<1>2. head = cycle[w].stack[1].records
  BY <1>1, HeadIsALeaf
<1>3. TypeInv /\ InOrder(cycle[w].stack)
  BY DEF Base
<1>4. SameReads(w) /\ pc'[w] \in {"done", "post"}
  BY <1>1, <1>3, PopStack
<1>5. /\ LeavesOf(cycle'[w].stack) \subseteq LeavesOf(cycle[w].stack)
      /\ LeavesOf(cycle[w].stack) \subseteq LeavesOf(cycle'[w].stack) \cup head
      /\ LeavesOf(cycle'[w].stack) \cap head = {}
  BY <1>1, <1>2, <1>3, PopLeaves
<1>6. BeingRecorded(w)' = {} /\ pc'[w] \in Cut
  BY <1>4 DEF BeingRecorded, Cut
<1> HIDE DEF head
<1> QED BY <1>1, <1>4, <1>5, <1>6, SettleLone DEF head

LEMMA WorkerLone ==
  ASSUME TypeInv', NEW w \in Workers, Base(w), LoneInv(w),
         Worker(w) \/ ControlPlane(w) \/ Environment(w)
  PROVE  LoneInv(w)'
<1>1. CASE RecoverQuarantined(w) \/ PurgeIfDue(w) \/ Post(w) \/ Restart(w)
  <2>1. /\ cycle'[w] = cycle[w] /\ UNCHANGED server /\ version' = version
        /\ \/ pc[w] = "post" /\ pc'[w] = "await"
           \/ pc[w] \in {"idle", "purge", "down"} /\ pc'[w] \in {"idle", "purge", "scan"}
    BY <1>1 DEF RecoverQuarantined, PurgeIfDue, Post, Restart, Go, Base, TypeInv, TypeOK
  <2>2. /\ OnTheirWay(w)' = OnTheirWay(w) /\ BeingRecorded(w)' = BeingRecorded(w)
        /\ pc'[w] \in Cut => pc[w] \in Cut
    BY <2>1 DEF OnTheirWay, BeingRecorded, Cut
  <2>3. \A r \in Records :
          \/ version'[r] = version[r] /\ status'[r] = status[r]
          \/ /\ version'[r] = version[r] /\ pc'[w] \notin Cut
             /\ \/ status[r] = "quarantined" /\ status'[r] = "pending"
                \/ status[r] = "synced" /\ status'[r] = "purged"
    <3>1. CASE RecoverQuarantined(w)
      BY <2>1, <3>1 DEF RecoverQuarantined, RequeueQuarantined, SetStatus, Cut
    <3>2. CASE PurgeIfDue(w)
      BY <2>1, <3>2 DEF PurgeIfDue, SetStatus, Cut
    <3>3. CASE Post(w) \/ Restart(w)
      BY <3>3 DEF Post, Restart
    <3> QED BY <1>1, <3>1, <3>2, <3>3
  <2> QED BY <2>1, <2>2, <2>3, RowsMove
<1>2. CASE QueryPage(w) \/ ConvertPage(w)
  BY <1>2, QueryLone, ConvertLone
<1>3. CASE EndCycle(w) /\ (Gather(w) \/ FinishCycle(w) \/ LeafNotAccepted(w) \/ StorageFails(w))
  <2>1. cycle'[w] = NoCycle /\ pc'[w] \in {"idle", "down"} /\ UNCHANGED rows
    BY <1>3 DEF EndCycle, Gather, FinishCycle, LeafNotAccepted, StorageFails, Go, Base,
       TypeInv, TypeOK
  <2>2. CASE Gather(w) \/ FinishCycle(w)
    <3>1. accepted' = accepted /\ unanswered' = unanswered \cup Unrecorded(w)
      BY <2>2 DEF Gather, FinishCycle, Unrecorded
    <3> QED BY <2>1, <3>1, DropsItsCycle
  <2>3. CASE StorageFails(w)
    BY <2>1, <2>3, DropsItsCycle DEF StorageFails
  <2>4. CASE LeafNotAccepted(w)
    <3>1. /\ pc[w] = "await"
          /\ \E R \in SUBSET NextBatch(w).records :
               /\ accepted' = accepted \cup Posted(w, R)
               /\ unanswered' = unanswered \cup Posted(w, R)
      BY <2>4 DEF LeafNotAccepted, Accept
    <3> QED BY <2>1, <3>1, DropsItsCycle
  <2> QED BY <1>3, <2>2, <2>3, <2>4
<1>4. CASE Crash(w)
  <2>1. /\ cycle'[w] = NoCycle /\ pc'[w] \in {"idle", "down"} /\ UNCHANGED rows
        /\ accepted' = accepted /\ unanswered' = unanswered \cup Unrecorded(w)
    BY <1>4 DEF Crash, Go, Base, TypeInv, TypeOK
  <2> QED BY <2>1, DropsItsCycle
<1>5. CASE Gather(w) /\ ~EndCycle(w)
  BY <1>5, GatherLone
<1>6. CASE SplitBatch(w) \/ QuarantineOversized(w) \/ LeafAccepted(w) \/ Acknowledge(w)
  BY <1>6, SplitLone, QuarantineLone, AcceptedLone, AcknowledgeLone
<1>7. FinishCycle(w) \/ LeafNotAccepted(w) \/ StorageFails(w) => EndCycle(w)
  BY DEF FinishCycle, LeafNotAccepted, StorageFails
<1> QED BY <1>1, <1>2, <1>3, <1>4, <1>5, <1>6, <1>7 DEF Worker, ControlPlane, Environment

LEMMA ApplicationLone ==
  ASSUME TypeInv', NEW w \in Workers, Base(w), LoneInv(w), Application
  PROVE  LoneInv(w)'
<1>1. PICK q \in Records, c \in Contents : Insert(q, c) \/ Update(q, c)
  BY DEF Application
<1>2. cycle' = cycle /\ pc' = pc /\ UNCHANGED server
  BY <1>1 DEF Insert, Update
<1>3. /\ OnTheirWay(w)' = OnTheirWay(w) /\ BeingRecorded(w)' = BeingRecorded(w)
      /\ pc'[w] \in Cut => pc[w] \in Cut
  BY <1>2 DEF OnTheirWay, BeingRecorded, NextBatch
<1>4. \A r \in Records :
        \/ version'[r] = version[r] /\ status'[r] = status[r]
        \/ status[r] = "absent" /\ version'[r] \in Nat
        \/ status[r] # "absent" /\ status'[r] # "absent" /\ version[r] < version'[r]
  BY <1>1 DEF Insert, Update, SetStatus, Base, TypeInv, TypeOK
<1> QED BY <1>2, <1>3, <1>4, RowsMove

LoneSafety == /\ TypeInv /\ PostedInOrder
              /\ \A w \in Workers : LeafInv(w) /\ NotedInv(w) /\ LoneInv(w)

LEMMA LoneInvStart == Init => LoneSafety
<1> SUFFICES ASSUME Init PROVE LoneSafety
  OBVIOUS
<1>1. Len(<<>>) = 0
  BY EmptySeq
<1>2. TypeInv /\ \A w \in Workers : LeafInv(w)
  BY InitTypeInv, LeafInvStart
<1>3. PostedInOrder
  BY <1>1 DEF Init, NoCycle, PostedInOrder
<1>4. \A w \in Workers : NotedInv(w)
  BY DEF Init, NoCycle, NotedInv, ReadsAreKnown, AcksAreBetween, BatchWasSeen, DoneHasNoLeaf
<1>5. ASSUME NEW w \in Workers PROVE LoneInv(w)
  <2>1. OnTheirWay(w) = {} /\ pc[w] \notin Cut
    BY DEF Init, NoCycle, OnTheirWay, Cut
  <2>2. accepted = {}
    BY DEF Init
  <2> QED BY <2>1, <2>2 DEF LoneInv, OnTheirWayArePending, UnsettledAreInLeaves, NotPostedYet,
          RecordedIsSettled, Recorded
<1> QED BY <1>2, <1>3, <1>4, <1>5 DEF LoneSafety

LEMMA NextLone ==
  ASSUME Lone, LoneSafety, [Next]_vars PROVE LoneSafety'
<1>1. /\ TypeInv' /\ PostedInOrder'
      /\ \A w \in Workers : LeafInv(w)'
      /\ \A w \in Workers : NotedInv(w)'
  BY NextTypeInv, NextPostedInOrder, NextLeafInv, NextNoted DEF LoneSafety
<1>2. \A w \in Workers : Base(w) /\ LoneInv(w)
  BY PostedInOrderIs DEF LoneSafety, Base
<1>3. ASSUME NEW w \in Workers PROVE LoneInv(w)'
  <2>1. CASE Application
    BY <1>1, <1>2, <2>1, ApplicationLone
  <2>2. CASE \E v \in Workers : Worker(v) \/ ControlPlane(v) \/ Environment(v)
    BY <1>1, <1>2, <2>2, WorkerLone DEF Lone
  <2>3. CASE UNCHANGED vars
    <3>1. /\ cycle' = cycle /\ pc' = pc /\ UNCHANGED server
          /\ OnTheirWay(w)' = OnTheirWay(w) /\ BeingRecorded(w)' = BeingRecorded(w)
          /\ \A r \in Records : version'[r] = version[r] /\ status'[r] = status[r]
      BY <2>3 DEF vars, OnTheirWay, BeingRecorded, NextBatch
    <3> QED BY <1>1, <1>2, <3>1, RowsMove
  <2> QED BY <2>1, <2>2, <2>3 DEF Next
<1> QED BY <1>1, <1>3 DEF LoneSafety

LEMMA LoneSafetyHolds == ASSUME Lone PROVE Spec => []LoneSafety
<1>1. LoneSafety /\ [Next]_vars => LoneSafety'
  BY NextLone
<1> QED BY LoneInvStart, <1>1, PTL DEF Spec

\* When the cycle of a lone worker succeeds nothing it had read is left pending as it was
\* read: however the batch was cut no record is lost between the leaves
\* (_post_with_split, _sync_batch).
THEOREM FinishedCyclesSettle ==
  ASSUME \A v, w \in Workers : v = w
  PROVE  Spec => []FinishedCycleSettlesItsBatch
<1>1. LoneSafety => FinishedCycleSettlesItsBatch
  <2> SUFFICES ASSUME LoneSafety, NEW w \in Workers, pc[w] = "done", NEW r \in cycle[w].batch,
                      status[r] = "pending", version[r] = cycle[w].snap[r].version
               PROVE  FALSE
    BY DEF FinishedCycleSettlesItsBatch
  <2>1. r \in LeavesOf(cycle[w].stack)
    BY DEF LoneSafety, LoneInv, UnsettledAreInLeaves, AsRead, Cut
  <2>2. cycle[w].stack = <<>>
    BY DEF LoneSafety, NotedInv, DoneHasNoLeaf
  <2>3. Len(<<>>) = 0
    BY EmptySeq
  <2> QED BY <2>1, <2>2, <2>3 DEF LeavesOf
<1> QED BY <1>1, LoneSafetyHolds, PTL DEF Lone

\* A lone worker posts a version again only after an exchange it never acknowledged: a
\* leaf that fails does not replay the leaves accepted before it, and no failed
\* conversion, oversized record, crash or rewrite changes that (_post_with_split).
THEOREM NothingIsReplayedInVain ==
  ASSUME \A v, w \in Workers : v = w
  PROVE  Spec => []NoNeedlessReplay
<1>1. LoneSafety => NoNeedlessReplay
  <2> SUFFICES ASSUME LoneSafety, NEW w \in Workers, pc[w] = "await",
                      NEW p \in Posted(w, NextBatch(w).records), p \in accepted
               PROVE  p \in unanswered
    BY DEF NoNeedlessReplay
  <2>1. PICK r \in NextBatch(w).records : p = <<r, cycle[w].snap[r].version>>
    BY DEF Posted
  <2>2. Base(w)
    BY PostedInOrderIs DEF LoneSafety, Base
  <2>3. r \in OnTheirWay(w) /\ BeingRecorded(w) = {}
    BY <2>1, <2>2, HeadIsALeaf DEF OnTheirWay, BeingRecorded, Cut
  <2> QED BY <2>1, <2>3 DEF LoneSafety, LoneInv, NotPostedYet, Recorded
<1> QED BY <1>1, LoneSafetyHolds, PTL DEF Lone
-----------------------------------------------------------------------------
(***************************************************************************)
(* The buffer and its workers implement the outbox, for any sets of        *)
(* records and workers, as long as every event can be converted.           *)
(***************************************************************************)

USE DEF rows, server, process

LEMMA InitRefines == Init => OutboxInstance!Init
BY DEF Init, OutboxInstance!Init

LEMMA WritesRefine ==
  ASSUME NEW r \in Records, NEW c \in Contents, Insert(r, c) \/ Update(r, c)
  PROVE  OutboxInstance!Create(r) \/ OutboxInstance!Rewrite(r)
BY DEF Insert, Update, SetStatus, OutboxInstance!Create, OutboxInstance!Rewrite,
   OutboxInstance!Move

LEMMA RequeueRefines ==
  ASSUME NEW w \in Workers, RecoverQuarantined(w)
  PROVE  OutboxInstance!TryAgain \/ UNCHANGED <<status, version, accepted>>
<1>1. version' = version /\ accepted' = accepted
  BY DEF RecoverQuarantined
<1>2. CASE RequeueQuarantined
  <2> DEFINE R == {e \in Events : status[e] = "quarantined"}
  <2>1. R \in SUBSET {r \in Records : status[r] = "quarantined"}
    BY DEF Records
  <2>2. OutboxInstance!Move(R, "pending")
    BY <1>2 DEF RequeueQuarantined, SetStatus, OutboxInstance!Move
  <2> QED BY <1>1, <2>1, <2>2 DEF OutboxInstance!TryAgain
<1> QED BY <1>1, <1>2 DEF RecoverQuarantined

LEMMA PurgeRefines ==
  ASSUME NEW w \in Workers, PurgeIfDue(w)
  PROVE  OutboxInstance!Forget \/ UNCHANGED <<status, version, accepted>>
<1>1. version' = version /\ accepted' = accepted
  BY DEF PurgeIfDue
<1>2. ASSUME NEW oldest \in Events,
             SetStatus({e \in Events : e <= oldest /\ status[e] = "synced"}, "purged")
      PROVE  OutboxInstance!Forget
  <2> DEFINE R == {e \in Events : e <= oldest /\ status[e] = "synced"}
  <2>1. R \in SUBSET {r \in Records : status[r] = "synced"}
    BY DEF Records
  <2>2. OutboxInstance!Move(R, "purged")
    BY <1>2 DEF SetStatus, OutboxInstance!Move
  <2> QED BY <1>1, <2>1, <2>2 DEF OutboxInstance!Forget
<1> QED BY <1>1, <1>2 DEF PurgeIfDue

LEMMA QuarantineRefines ==
  ASSUME NEW w \in Workers, NEW R \in SUBSET Records, MarkQuarantined(w, R),
         version' = version, accepted' = accepted
  PROVE  OutboxInstance!SetAside
<1>1. Unchanged(w, R) \in SUBSET {r \in Records : status[r] = "pending"}
  BY DEF Unchanged
<1>2. OutboxInstance!Move(Unchanged(w, R), "quarantined")
  BY DEF MarkQuarantined, SetStatus, OutboxInstance!Move
<1> QED BY <1>1, <1>2 DEF OutboxInstance!SetAside

LEMMA AcknowledgeRefines ==
  ASSUME TypeInv, DeliveryInv, NEW w \in Workers, Acknowledge(w)
  PROVE  OutboxInstance!Settle
<1> DEFINE R == Unchanged(w, AckGroup(NextBatch(w).records))
<1>1. R \in SUBSET {r \in Records : status[r] = "pending" /\ <<r, version[r]>> \in accepted}
  BY AcknowledgedIsAccepted DEF Acknowledge
<1>2. OutboxInstance!Move(R, "synced") /\ UNCHANGED <<version, accepted>>
  BY DEF Acknowledge, SetStatus, OutboxInstance!Move
<1> QED BY <1>1, <1>2 DEF OutboxInstance!Settle

\* The control plane takes versions that were written.
LEMMA AcceptRefines ==
  ASSUME TypeInv, DeliveryInv, NEW w \in Workers, cycle[w].stack # <<>>,
         NEW R \in SUBSET NextBatch(w).records, Accept(w, R), UNCHANGED rows
  PROVE  OutboxInstance!Take
<1>1. cycle[w].stack \in Seq(Batch)
  BY DEF TypeInv, TypeOK, Cycle
<1>2. NextBatch(w) = cycle[w].stack[1] /\ 1 \in 1 .. Len(cycle[w].stack)
  BY <1>1, EmptySeq DEF NextBatch
<1>3. R \subseteq cycle[w].batch /\ cycle[w].batch \subseteq Records
  BY <1>2 DEF DeliveryInv, WorkerInv, LeavesCutFromBatch, TypeInv, TypeOK, Cycle
<1>4. \A r \in R : /\ r \in {q \in Records : status[q] # "absent"}
                   /\ cycle[w].snap[r].version \in 0 .. version[r]
  <2>1. \A r \in Records : cycle[w].snap[r].version \in Nat /\ version[r] \in Nat
    BY DEF TypeInv, TypeOK, Cycle, Snapshots
  <2> QED BY <1>3, <2>1 DEF DeliveryInv, WorkerInv, SnapshotsAreNoted
<1> DEFINE written == UNION {{r} \X (0 .. version[r]) :
                               r \in {q \in Records : status[q] # "absent"}}
<1>5. Posted(w, R) \subseteq written
  <2> SUFFICES ASSUME NEW r \in R PROVE <<r, cycle[w].snap[r].version>> \in written
    BY DEF Posted
  <2>1. <<r, cycle[w].snap[r].version>> \in {r} \X (0 .. version[r])
    BY <1>4
  <2> QED BY <1>4, <2>1
<1>6. accepted' = accepted \cup Posted(w, R) /\ UNCHANGED <<status, version>>
  BY DEF Accept
<1> QED BY <1>5, <1>6 DEF OutboxInstance!Take

LEMMA NextRefines ==
  ASSUME TypeInv, DeliveryInv, [Next]_vars
  PROVE  [OutboxInstance!Next]_(OutboxInstance!vars)
<1> USE DEF OutboxInstance!vars
<1>1. ASSUME NEW r \in Records, NEW c \in Contents, Insert(r, c) \/ Update(r, c)
      PROVE  OutboxInstance!Next
  BY <1>1, WritesRefine DEF OutboxInstance!Next
<1>2. ASSUME NEW w \in Workers, RecoverQuarantined(w) \/ PurgeIfDue(w)
      PROVE  [OutboxInstance!Next]_(OutboxInstance!vars)
  BY <1>2, RequeueRefines, PurgeRefines DEF OutboxInstance!Next
<1>3. ASSUME NEW w \in Workers, ConvertPage(w) PROVE OutboxInstance!Next
  <2> DEFINE new  == cycle[w].page \ cycle[w].seen
             good == {e \in new : Convertible(w, cycle[w].snap[e].content)}
  <2>1. new \ good \in SUBSET Records
    BY DEF TypeInv, TypeOK, Cycle, Records
  <2>2. MarkQuarantined(w, new \ good) /\ version' = version /\ accepted' = accepted
    BY <1>3 DEF ConvertPage
  <2> QED BY <2>1, <2>2, QuarantineRefines DEF OutboxInstance!Next
<1>4. ASSUME NEW w \in Workers, QuarantineOversized(w) PROVE OutboxInstance!Next
  <2>1. NextBatch(w).records \in SUBSET Records
    <3>1. cycle[w].stack \in Seq(Batch) /\ cycle[w].stack # <<>>
      BY <1>4 DEF QuarantineOversized, TypeInv, TypeOK, Cycle, StackNotEmpty
    <3>2. NextBatch(w) \in Batch
      BY <3>1, HeadTailProperties DEF NextBatch
    <3> QED BY <3>2 DEF Batch
  <2>2. MarkQuarantined(w, NextBatch(w).records) /\ version' = version /\ accepted' = accepted
    BY <1>4 DEF QuarantineOversized
  <2> QED BY <2>1, <2>2, QuarantineRefines DEF OutboxInstance!Next
<1>5. ASSUME NEW w \in Workers, Acknowledge(w) PROVE OutboxInstance!Next
  BY <1>5, AcknowledgeRefines DEF OutboxInstance!Next
<1>6. ASSUME NEW w \in Workers, ControlPlane(w) PROVE OutboxInstance!Next
  <2>1. cycle[w].stack # <<>> /\ UNCHANGED rows
    BY <1>6 DEF ControlPlane, LeafAccepted, LeafNotAccepted, TypeInv, StackNotEmpty
  <2>2. \E R \in SUBSET NextBatch(w).records : Accept(w, R)
    BY <1>6 DEF ControlPlane, LeafAccepted, LeafNotAccepted
  <2> QED BY <2>1, <2>2, AcceptRefines DEF OutboxInstance!Next
<1>7. ASSUME NEW w \in Workers, \/ QueryPage(w) \/ Gather(w) \/ SplitBatch(w) \/ Post(w)
                               \/ FinishCycle(w) \/ Environment(w)
      PROVE  UNCHANGED <<status, version, accepted>>
  BY <1>7 DEF QueryPage, Gather, SplitBatch, Post, FinishCycle, Environment,
     StorageFails, Crash, Restart
<1>8. CASE UNCHANGED vars
  BY <1>8 DEF vars
<1> QED BY <1>1, <1>2, <1>3, <1>4, <1>5, <1>6, <1>7, <1>8
        DEF Next, Application, Worker

\* As long as every event the application writes can be converted, the buffer
\* and the workers that empty it behave as an outbox: a write reopens its row,
\* a row is settled only in the version that was taken, only settled rows are
\* purged, and nothing that was never written is taken.
THEOREM DeliveryImplementsOutbox ==
  "bad" \notin EventContents => (Spec => ImplementsOutbox)
<1> SUFFICES ASSUME "bad" \notin EventContents PROVE Spec => OutboxInstance!Spec
  BY DEF ImplementsOutbox
<1> DEFINE Inv == TypeInv /\ DeliveryInv
<1>1. Init => Inv /\ OutboxInstance!Init
  BY InitTypeInv, InitDeliveryInv, InitRefines
<1>2. Inv /\ [Next]_vars => Inv'
  BY NextTypeInv, NextDeliveryInv
<1>3. Inv /\ [Next]_vars => [OutboxInstance!Next]_(OutboxInstance!vars)
  BY NextRefines
<1> HIDE DEF Inv
<1> QED BY <1>1, <1>2, <1>3, PTL DEF Spec, OutboxInstance!Spec
=============================================================================
