---------------------------- MODULE SyncDelivery ----------------------------
(***************************************************************************)
(* The durable buffer (storage/sqlite.py) and the sync cycle of the        *)
(* background worker (sync.py, SyncWorker._sync_batch).                    *)
(*                                                                         *)
(* The application threads write rows.  Each worker, with a connection of  *)
(* its own, reads pages of pending rows, converts the events, gathers the  *)
(* other streams, posts the batch in leaves that fit one payload and       *)
(* acknowledges each accepted leaf at once.  One action is one database    *)
(* transaction or one HTTP exchange, so everything the application does    *)
(* between two of them interleaves.  Several workers share the buffer      *)
(* when the process forks (__init__._reinit_after_fork).                   *)
(*                                                                         *)
(* A record is a number: of two rows of a table its query returns the one  *)
(* with the smaller number first.  The queries order by a time that the    *)
(* application may give, so that neither the order of insertion nor that   *)
(* of revision follows it.  A row's payload is abstracted to its Content.  *)
(***************************************************************************)
EXTENDS Integers, Sequences, FiniteSets

CONSTANTS
  Events, Tasks,             \* rows the application may rewrite
  Outcomes, Revenues, Jobs,  \* immutable revisions, one row per revision
  Workers,                   \* sync workers sharing the buffer
  EventContents,             \* contents an event may be given
  TaskContents,              \* contents a task may be given
  RevisionContents,          \* contents a revision may be given
  BatchSize,                 \* config.batch_size
  ScanLimit,                 \* events scanned in one cycle at most
  TaskLimit,                 \* task snapshots in one cycle at most
  MaxPayload,                \* records of ordinary size one payload holds
  MaxVersion,                \* bound of the model: rewrites of one row
  MayFail                    \* bound of the model: database steps may raise

Records == Events \cup Tasks \cup Outcomes \cup Revenues \cup Jobs

\* An event dict on the wire is an event or a provider-job observation.
Observations == Events \cup Jobs

(***************************************************************************)
(* "bad" cannot be converted before an SDK upgrade, "big" exceeds the      *)
(* payload limit alone, "final" is a task with ended_at, which carries its *)
(* business identity.                                                      *)
(***************************************************************************)
Contents == {"plain", "final", "bad", "big"}

ASSUME RecordsAssumption ==
  /\ Records \subseteq Nat /\ IsFiniteSet(Records)
  /\ Events \cap (Tasks \cup Outcomes \cup Revenues \cup Jobs) = {}
  /\ Tasks \cap (Outcomes \cup Revenues \cup Jobs) = {}
  /\ Outcomes \cap (Revenues \cup Jobs) = {}
  /\ Revenues \cap Jobs = {}
  /\ \A e \in Events, j \in Jobs : e < j   \* a batch lists its jobs last

ASSUME ContentsAssumption ==
  /\ EventContents \subseteq {"plain", "bad", "big"}
  /\ TaskContents \subseteq {"plain", "final", "big"}
  /\ RevisionContents \subseteq {"plain", "big"}

ASSUME LimitsAssumption ==
  /\ BatchSize \in Nat \ {0}
  /\ ScanLimit \in Nat /\ ScanLimit >= BatchSize
  /\ TaskLimit \in Nat \ {0}
  /\ MaxPayload \in Nat \ {0}
  /\ MaxVersion \in Nat
  /\ MayFail \in BOOLEAN

VARIABLES
  status,      \* sync_status of each row
  version,     \* sync_version of each row, counted from 0
  content,     \* what the row holds now
  accepted,    \* <<record, version>> pairs the control plane has taken
  identified,  \* <<task, version>> pairs whose business identity came along
  unanswered,  \* pairs taken in an exchange the worker never acknowledged
  pc,          \* where each worker is in its cycle
  recovered,   \* _quarantine_recovery_attempted of each worker
  upgraded,    \* the worker's SDK converts "bad" events
  cycle        \* the local variables of _sync_batch in each worker

rows == <<status, version, content>>
server == <<accepted, identified, unanswered>>
process == <<recovered, upgraded>>
vars == <<rows, server, pc, process, cycle>>
-----------------------------------------------------------------------------
\* The first n rows of S in the order of its query, oldest first.
Oldest(S, n) == {r \in S : Cardinality({q \in S : q < r}) < n}

\* The older half of S, events[:mid] in the code.
OlderHalf(S) == Oldest(S, Cardinality(S) \div 2)

Pending(S) == {r \in S : status[r] = "pending"}

(***************************************************************************)
(* page: the rows of the last query; seen: event ids scanned; batch: what  *)
(* the cycle delivers; snap: the version and content each row was read     *)
(* with; ack: the version the acknowledgement will name; stack: the        *)
(* batches _post_with_split has still to post, the next one first.         *)
(***************************************************************************)
Batch == [records : SUBSET Records, identities : SUBSET Tasks]

Snapshots == [Records -> [version : Nat, content : Contents]]

Versions == [Records -> Nat]

Cycle == [page  : SUBSET Events,
          seen  : SUBSET Events,
          batch : SUBSET Records,
          snap  : Snapshots,
          ack   : Versions,
          stack : Seq(Batch)]

NoCycle == [page  |-> {}, seen |-> {}, batch |-> {},
            snap  |-> [r \in Records |-> [version |-> 0, content |-> "plain"]],
            ack   |-> [r \in Records |-> 0],
            stack |-> <<>>]

Status == {"absent", "pending", "synced", "quarantined", "purged"}

Places == {"idle", "purge", "scan", "convert", "gather", "post", "await",
           "ack", "done", "down"}

Init == /\ status = [r \in Records |-> "absent"]
        /\ version = [r \in Records |-> 0]
        /\ content = [r \in Records |-> "plain"]
        /\ accepted = {} /\ identified = {} /\ unanswered = {}
        /\ pc = [w \in Workers |-> "idle"]
        /\ recovered = [w \in Workers |-> FALSE]
        /\ upgraded = [w \in Workers |-> FALSE]
        /\ cycle = [w \in Workers |-> NoCycle]

Go(w, place) == pc' = [pc EXCEPT ![w] = place]

\* The cycle returns or raises: its local variables are gone.
EndCycle(w) == /\ Go(w, "idle")
               /\ cycle' = [cycle EXCEPT ![w] = NoCycle]

SetStatus(R, s) ==
  status' = [r \in Records |-> IF r \in R THEN s ELSE status[r]]

-----------------------------------------------------------------------------
(***************************************************************************)
(* The application: insert_event, insert_task, insert_outcome, ... and     *)
(* update_event, update_task.                                              *)
(***************************************************************************)
ContentsOf(r) == CASE r \in Events -> EventContents
                   [] r \in Tasks  -> TaskContents
                   [] OTHER        -> RevisionContents

Insert(r, c) == /\ status[r] = "absent"
                /\ c \in ContentsOf(r)
                /\ SetStatus({r}, "pending")
                /\ version' = [version EXCEPT ![r] = 0]
                /\ content' = [content EXCEPT ![r] = c]
                /\ UNCHANGED <<server, pc, process, cycle>>

\* An update matches by id, so it does nothing to a row that was purged.
\* A task keeps its ended_at.
Update(r, c) == /\ r \in Events \cup Tasks
                /\ status[r] \in {"pending", "synced", "quarantined"}
                /\ version[r] < MaxVersion
                /\ c \in ContentsOf(r)
                /\ content[r] = "final" => c # "plain"
                /\ SetStatus({r}, "pending")
                /\ version' = [version EXCEPT ![r] = @ + 1]
                /\ content' = [content EXCEPT ![r] = c]
                /\ UNCHANGED <<server, pc, process, cycle>>

-----------------------------------------------------------------------------
(***************************************************************************)
(* The start of a cycle: replay the quarantine once per worker lifetime,   *)
(* then clean up.  The attempt is noted before the database is asked.      *)
(***************************************************************************)
RequeueQuarantined == SetStatus({e \in Events : status[e] = "quarantined"}, "pending")

RecoverQuarantined(w) ==
  /\ pc[w] = "idle"
  /\ Go(w, "purge")
  /\ recovered' = [recovered EXCEPT ![w] = TRUE]
  /\ \/ ~recovered[w] /\ RequeueQuarantined
     \/ (recovered[w] \/ MayFail) /\ UNCHANGED status
  /\ UNCHANGED <<version, content, server, upgraded, cycle>>

\* Mutant: the clean-up takes what was set aside along.
PurgeSetAside(w) ==
  /\ pc[w] = "purge"
  /\ Go(w, "scan")
  /\ \/ \E oldest \in Events : SetStatus({e \in Events : e <= oldest
                                   /\ status[e] \in {"synced", "quarantined"}}, "purged")
     \/ UNCHANGED status
  /\ UNCHANGED <<version, content, server, process, cycle>>

\* Synced events older than the retention go; nothing goes when no purge is due.
PurgeIfDue(w) ==
  /\ pc[w] = "purge"
  /\ Go(w, "scan")
  /\ \/ \E oldest \in Events :
          SetStatus({e \in Events : e <= oldest /\ status[e] = "synced"}, "purged")
     \/ UNCHANGED status
  /\ UNCHANGED <<version, content, server, process, cycle>>

-----------------------------------------------------------------------------
(***************************************************************************)
(* The scan: pages of pending events, oldest first.  The versions of every *)
(* row of the page are noted, those of rows an earlier page already took   *)
(* included; only a new row is converted.                                  *)
(***************************************************************************)
RoomInPage(w) == LET room == BatchSize - Cardinality(cycle[w].batch)
                    left == ScanLimit - Cardinality(cycle[w].seen)
                IN  IF room < left THEN room ELSE left

NoteVersions(w, R) ==
  [r \in Records |-> IF r \in R THEN version[r] ELSE cycle[w].ack[r]]

TakeSnapshots(w, R) ==
  [r \in Records |-> IF r \in R THEN [version |-> version[r], content |-> content[r]]
                                ELSE cycle[w].snap[r]]

QueryPage(w) ==
  LET page == Oldest(Pending(Events), RoomInPage(w))
  IN  /\ pc[w] = "scan"
      /\ Go(w, IF page = {} THEN "gather" ELSE "convert")
      /\ cycle' = [cycle EXCEPT
                     ![w].page = page,
                     ![w].ack  = NoteVersions(w, page),
                     ![w].snap = TakeSnapshots(w, page \ cycle[w].seen)]
      /\ UNCHANGED <<rows, server, process>>

Convertible(w, c) == c # "bad" \/ upgraded[w]

\* Mutant: mark_synced and mark_quarantined by id alone.
UnchangedById(w, R) == Pending(R)

\* Rows of R that are still pending with the version the worker noted.
Unchanged(w, R) ==
  {r \in R : status[r] = "pending" /\ version[r] = cycle[w].ack[r]}

\* Mutant: failed conversions stay in the queue.
MarkNothing(w, R) == UNCHANGED status

MarkQuarantined(w, R) == SetStatus(Unchanged(w, R), "quarantined")

ConvertPage(w) ==
  LET new   == cycle[w].page \ cycle[w].seen
      good  == {e \in new : Convertible(w, cycle[w].snap[e].content)}
      seen  == cycle[w].seen \cup new
      batch == cycle[w].batch \cup good
      ended == \/ new = {} \/ Cardinality(cycle[w].page) < RoomInPage(w)
               \/ Cardinality(batch) >= BatchSize \/ Cardinality(seen) >= ScanLimit
  IN  /\ pc[w] = "convert"
      /\ MarkQuarantined(w, new \ good)
      /\ Go(w, IF ended THEN "gather" ELSE "scan")
      /\ cycle' = [cycle EXCEPT ![w].page = {}, ![w].seen = seen, ![w].batch = batch]
      /\ UNCHANGED <<version, content, server, process>>

(***************************************************************************)
(* The other streams.  Each row is read once and the tables do not depend  *)
(* on one another, so the four queries are one step.                       *)
(***************************************************************************)
Gather(w) ==
  LET events == cycle[w].batch
      tasks  == Oldest(Pending(Tasks), TaskLimit)
      jobs   == Oldest(Pending(Jobs), BatchSize - Cardinality(events))
      others == tasks \cup jobs \cup Oldest(Pending(Outcomes), BatchSize)
                      \cup Oldest(Pending(Revenues), BatchSize)
      batch  == events \cup others
      final  == {t \in tasks : content[t] = "final"}
  IN  /\ pc[w] = "gather"
      /\ IF batch = {}
         THEN EndCycle(w)
         ELSE /\ Go(w, "post")
              /\ cycle' = [cycle EXCEPT
                   ![w].seen  = {},
                   ![w].batch = batch,
                   ![w].ack   = NoteVersions(w, others),
                   ![w].snap  = TakeSnapshots(w, others),
                   ![w].stack = <<[records |-> batch, identities |-> final]>>]
      /\ UNCHANGED <<rows, server, process>>

-----------------------------------------------------------------------------
(***************************************************************************)
(* _post_with_split: a batch above the payload limit is cut in two, the    *)
(* first part is posted before the second.                                 *)
(***************************************************************************)
NextBatch(w) == Head(cycle[w].stack)

Fits(w, b) == /\ Cardinality(b.records) <= MaxPayload
              /\ \A r \in b.records : cycle[w].snap[r].content # "big"

\* Mutant: what is left of the events goes before the tasks.
EventsFirst(R) ==
  IF R \cap Observations # {} /\ R \ Observations # {} THEN R \cap Observations
  ELSE Oldest(R, 1)

\* The batch, a list in the code, is a set cut in the order of its rows.
FirstPart(R) ==
  LET o == R \cap Observations
      t == R \cap Tasks
      c == R \cap Outcomes
      v == R \cap Revenues
  IN  CASE Cardinality(o) > 1 -> OlderHalf(o) \cup t \cup c \cup v
        [] Cardinality(o) <= 1 /\ Cardinality(t) > 1 -> OlderHalf(t)
        [] Cardinality(o) <= 1 /\ Cardinality(t) <= 1 /\ Cardinality(c) > 1
             -> o \cup t \cup OlderHalf(c)
        [] Cardinality(o) <= 1 /\ Cardinality(t) <= 1 /\ Cardinality(c) <= 1
             /\ Cardinality(v) > 1 -> o \cup t \cup c \cup OlderHalf(v)
        [] OTHER -> IF t # {} THEN t ELSE IF c # {} THEN c ELSE v

\* Mutant: the second part leaves the identities behind.
SplitForgetsIdentities(b) ==
  LET first == FirstPart(b.records)
  IN  <<[records |-> first, identities |-> b.identities \cap first],
        [records |-> b.records \ first, identities |-> {}]>>

\* Mutant: only the events and observations are divided between the parts.
SplitRepeatsOthers(b) ==
  LET first == FirstPart(b.records)
  IN  <<[records |-> first, identities |-> b.identities],
        [records |-> b.records \ (first \cap Observations),
         identities |-> b.identities]>>

\* Mutant: the second part is posted without its revenue revisions.
SplitDropsRevenues(b) ==
  LET first == FirstPart(b.records)
  IN  <<[records |-> first, identities |-> b.identities \cap first],
        [records |-> b.records \ (first \cup Revenues),
         identities |-> b.identities \ first]>>

SplitInTwo(b) ==
  LET first == FirstPart(b.records)
  IN  <<[records |-> first, identities |-> b.identities \cap first],
        [records |-> b.records \ first, identities |-> b.identities \ first]>>

SplitBatch(w) ==
  /\ pc[w] = "post"
  /\ ~Fits(w, NextBatch(w))
  /\ Cardinality(NextBatch(w).records) > 1
  /\ cycle' = [cycle EXCEPT ![w].stack = SplitInTwo(NextBatch(w)) \o Tail(@)]
  /\ UNCHANGED <<rows, server, pc, process>>

\* The batch on top is settled: the next one, or the end of the cycle.
PopBatch(w) == /\ cycle' = [cycle EXCEPT ![w].stack = Tail(@)]
               /\ Go(w, IF Len(cycle[w].stack) = 1 THEN "done" ELSE "post")

\* A single record above the limit is set aside.
MustQuarantine(w) == ~Fits(w, NextBatch(w)) /\ Cardinality(NextBatch(w).records) = 1

QuarantineOversized(w) ==
  /\ pc[w] = "post"
  /\ MustQuarantine(w)
  /\ MarkQuarantined(w, NextBatch(w).records)
  /\ PopBatch(w)
  /\ UNCHANGED <<version, content, server, process>>

Post(w) == /\ pc[w] = "post"
           /\ Fits(w, NextBatch(w))
           /\ Go(w, "await")
           /\ UNCHANGED <<rows, server, process, cycle>>

-----------------------------------------------------------------------------
(***************************************************************************)
(* The control plane and the network, external to the SDK.                 *)
(***************************************************************************)
Posted(w, R) == {<<r, cycle[w].snap[r].version>> : r \in R}

Accept(w, R) ==
  /\ accepted' = accepted \cup Posted(w, R)
  /\ identified' = identified \cup Posted(w, R \cap NextBatch(w).identities)

\* A 2xx answer without rejections.
LeafAccepted(w) ==
  /\ pc[w] = "await"
  /\ Accept(w, NextBatch(w).records)
  /\ Go(w, "ack")
  /\ UNCHANGED <<unanswered, rows, process, cycle>>

\* An answer with rejections, 413, another HTTP error, or no answer at all:
\* the worker cannot tell what was taken and ends the cycle.
LeafNotAccepted(w) ==
  /\ pc[w] = "await"
  /\ \E R \in SUBSET NextBatch(w).records :
       /\ Accept(w, R)
       /\ unanswered' = unanswered \cup Posted(w, R)
  /\ EndCycle(w)
  /\ UNCHANGED <<rows, process>>

-----------------------------------------------------------------------------
(***************************************************************************)
(* The acknowledgement of a leaf: one transaction per table, the events    *)
(* first, each naming the noted versions.                                  *)
(***************************************************************************)
AckGroup(R) == CASE R \cap Events # {} -> R \cap Events
                 [] R \cap Events = {} /\ R \cap Jobs # {} -> R \cap Jobs
                 [] R \cap Observations = {} /\ R \cap Tasks # {} -> R \cap Tasks
                 [] R \cap (Observations \cup Tasks) = {} /\ R \cap Outcomes # {}
                      -> R \cap Outcomes
                 [] OTHER -> R \cap Revenues

Acknowledge(w) ==
  LET leaf  == NextBatch(w)
      group == AckGroup(leaf.records)
  IN  /\ pc[w] = "ack"
      /\ SetStatus(Unchanged(w, group), "synced")
      /\ IF leaf.records \ group = {}
         THEN PopBatch(w)
         ELSE /\ cycle' = [cycle EXCEPT ![w].stack[1].records = @ \ group]
              /\ UNCHANGED pc
      /\ UNCHANGED <<version, content, server, process>>

\* Every leaf was settled; the next cycle starts at once.
FinishCycle(w) == /\ pc[w] = "done"
                  /\ EndCycle(w)
                  /\ UNCHANGED <<rows, server, process>>

-----------------------------------------------------------------------------
\* What the control plane took and no acknowledgement will record.
Unrecorded(w) == IF pc[w] = "ack" THEN Posted(w, NextBatch(w).records) ELSE {}

\* A database step raises: the cycle ends, the transaction has no effect.
StorageFails(w) ==
  /\ MayFail
  /\ \/ pc[w] \in {"scan", "convert", "gather", "ack"}
     \/ pc[w] = "post" /\ MustQuarantine(w)
  /\ unanswered' = unanswered \cup Unrecorded(w)
  /\ EndCycle(w)
  /\ UNCHANGED <<rows, accepted, identified, process>>

\* The process dies, or its worker thread ends (stop, or a 401 answer); the
\* buffer and the control plane keep what they have.
Crash(w) == /\ pc[w] # "down"
            /\ unanswered' = unanswered \cup Unrecorded(w)
            /\ Go(w, "down")
            /\ cycle' = [cycle EXCEPT ![w] = NoCycle]
            /\ UNCHANGED <<rows, accepted, identified, process>>

\* Mutant: that a replay was attempted outlives the worker.
RestartKeepsAttempt(w) == /\ pc[w] = "down"
                          /\ Go(w, "idle")
                          /\ upgraded' = [upgraded EXCEPT ![w] = TRUE]
                          /\ UNCHANGED <<rows, server, recovered, cycle>>

\* A new worker: set_api_key makes one, or a new process, perhaps with a newer
\* SDK.
Restart(w) == /\ pc[w] = "down"
              /\ Go(w, "idle")
              /\ recovered' = [recovered EXCEPT ![w] = FALSE]
              /\ upgraded' \in {[upgraded EXCEPT ![w] = u] : u \in {upgraded[w], TRUE}}
              /\ UNCHANGED <<rows, server, cycle>>

-----------------------------------------------------------------------------
Application == \E r \in Records, c \in Contents : Insert(r, c) \/ Update(r, c)

Worker(w) == \/ RecoverQuarantined(w) \/ PurgeIfDue(w)
             \/ QueryPage(w) \/ ConvertPage(w) \/ Gather(w)
             \/ SplitBatch(w) \/ QuarantineOversized(w) \/ Post(w)
             \/ Acknowledge(w) \/ FinishCycle(w)

ControlPlane(w) == LeafAccepted(w) \/ LeafNotAccepted(w)

Environment(w) == StorageFails(w) \/ Crash(w) \/ Restart(w)

Next == \/ Application
        \/ \E w \in Workers : Worker(w) \/ ControlPlane(w) \/ Environment(w)

Spec == Init /\ [][Next]_vars

(***************************************************************************)
(* Fairness.  The worker thread keeps running while its process lives, so  *)
(* its steps are weakly fair; a failing database, network or control plane *)
(* is taken to work again and again, so the steps a failure preempts are   *)
(* strongly fair.  Nothing is assumed of the application or of crashes.    *)
(***************************************************************************)
Fairness == \A w \in Workers :
              /\ WF_vars(Worker(w) \/ Restart(w))
              /\ SF_vars(QueryPage(w))
              /\ SF_vars(ConvertPage(w))
              /\ SF_vars(Gather(w))
              /\ SF_vars(LeafAccepted(w))
              /\ SF_vars(Acknowledge(w))
              /\ SF_vars(QuarantineOversized(w))

FairSpec == Spec /\ Fairness
-----------------------------------------------------------------------------
(***************************************************************************)
(* What a worker knows while it delivers, when every event converts.       *)
(***************************************************************************)
\* The batch on its way holds rows that exist, and the acknowledgement will
\* name the version that was read, which is at most the present one.
SnapshotsAreNoted(w) ==
  \A r \in cycle[w].page \cup cycle[w].batch :
    /\ status[r] # "absent"
    /\ cycle[w].ack[r] = cycle[w].snap[r].version
    /\ cycle[w].snap[r].version <= version[r]

\* A scan whose events all convert ends with its first page.
OnePageScan(w) ==
  /\ pc[w] \in {"idle", "purge", "scan", "convert", "down"} =>
       cycle[w].seen = {} /\ cycle[w].batch = {}
  /\ \A e \in cycle[w].page : cycle[w].snap[e].content # "bad"

LeavesCutFromBatch(w) ==
  \A i \in 1 .. Len(cycle[w].stack) : cycle[w].stack[i].records \subseteq cycle[w].batch

AckOnlyTaken(w) == pc[w] = "ack" => Posted(w, NextBatch(w).records) \subseteq accepted

WorkerInv(w) == /\ SnapshotsAreNoted(w) /\ OnePageScan(w)
                /\ LeavesCutFromBatch(w) /\ AckOnlyTaken(w)

DeliveryInv == /\ \A e \in Events : content[e] # "bad"
               /\ \A w \in Workers : WorkerInv(w)

-----------------------------------------------------------------------------
\* Types of the rows, of what the control plane holds and of the workers.
TypeOK == /\ status \in [Records -> Status]
          /\ version \in [Records -> Nat]
          /\ content \in [Records -> Contents]
          /\ accepted \subseteq Records \X Nat
          /\ identified \subseteq Records \X Nat
          /\ unanswered \subseteq Records \X Nat
          /\ pc \in [Workers -> Places]
          /\ recovered \in [Workers -> BOOLEAN]
          /\ upgraded \in [Workers -> BOOLEAN]
          /\ cycle \in [Workers -> Cycle]

\* A row is synced, or purged, only if the control plane has taken the version
\* it has now: an acknowledgement never consumes a write made while the batch
\* was on its way (sync.py:92-113, sqlite.py:784-794).
SyncedIsAccepted ==
  \A r \in Records : status[r] \in {"synced", "purged"} => <<r, version[r]>> \in accepted

\* A finished task counts as delivered only if its business identity reached
\* the control plane with it, however the batch was cut (sync.py:960-1006).
IdentityTravelsWithTask ==
  \A t \in Tasks : status[t] = "synced" /\ content[t] = "final"
                      => <<t, version[t]>> \in identified

\* Only a row whose present content cannot be delivered is set aside: a
\* corrected row is never hidden in quarantine (sync.py:116-128).
QuarantineIsDeserved ==
  \A r \in Records : status[r] = "quarantined" => content[r] \in {"bad", "big"}

\* A lone worker posts a version the control plane already holds only after an
\* exchange it never acknowledged: a leaf that fails does not replay the leaves
\* accepted before it (sync.py:850-855).
NoNeedlessReplay ==
  \A w \in Workers :
    pc[w] = "await" => Posted(w, NextBatch(w).records) \cap accepted \subseteq unanswered

\* When a cycle succeeds nothing it had read is left pending as it was read:
\* no cut loses a record (sync.py:921-1157).
FinishedCycleSettlesItsBatch ==
  \A w \in Workers : pc[w] = "done" =>
    \A r \in cycle[w].batch :
      ~(status[r] = "pending" /\ version[r] = cycle[w].snap[r].version)

\* Wherever a batch is cut, its tasks are not posted after an event, and no row
\* of a stream is posted after one that its query put behind it (sync.py:851-855,
\* 921-1157).  That is the order of observed_at, which a caller may give: an
\* amendment dated before its base is posted before it (sqlite.py:1011-1019).
Stream(r) == {S \in {Events, Jobs, Tasks, Outcomes, Revenues} : r \in S}

PostedInOrder ==
  \A w \in Workers : \A i, j \in 1 .. Len(cycle[w].stack) : i < j =>
    \A p \in cycle[w].stack[i].records, q \in cycle[w].stack[j].records :
      /\ Stream(p) = Stream(q) => p < q
      /\ ~(p \in Observations /\ q \in Tasks)

\* Whatever is pending leaves the queue: delivered, set aside, or written
\* again and then delivered; rows that cannot be converted do not block the
\* others (sync.py:490-492).
Stable == \A w \in Workers : <>[](pc[w] # "down")

PendingIsTransient ==
  Stable => \A r \in Records : (status[r] = "pending") ~> (status[r] # "pending")

\* A worker of an SDK that converts a retained event puts it back in the queue
\* (sync.py:653-659).
QuarantineIsRetried ==
  Stable => \A w \in Workers, e \in Events :
    (upgraded[w] /\ status[e] = "quarantined" /\ content[e] = "bad")
      ~> status[e] # "quarantined"

\* The buffer keeps the promise of an outbox.
OutboxInstance == INSTANCE Outbox
ImplementsOutbox == OutboxInstance!Spec
=============================================================================
