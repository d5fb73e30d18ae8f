----------------------------- MODULE TaskRollup -----------------------------
(***************************************************************************)
(* How the totals of one task come about: the events that several          *)
(* processes record for it, the owner that ends it, and the pollers of a   *)
(* provider job that roll it up again when the job ends (tracker.py        *)
(* _aggregate_costs and its callers).                                      *)
(*                                                                         *)
(* A roll-up works on a Task object of its own: it reads the store in      *)
(* several transactions, prices what is still unpriced, and at the end     *)
(* writes the whole row.  An amount is 1 for each event and each byte      *)
(* count, so a total says how often each thing has been counted.           *)
(***************************************************************************)
EXTENDS ProviderJobs

CONSTANTS PlainEvents,     \* llm calls, costs, retry markers: priced when recorded
          ComputeEvents,   \* serverless compute and GPU runs: priced at a roll-up
          GpuEvents,
          NetworkEvents,   \* notable HTTP calls of the process of the owner
          OwnerMeters      \* the compute event the owner's own accountant emits

TaskEvents == PlainEvents \cup ComputeEvents \cup GpuEvents \cup NetworkEvents
Owner == "owner"
Writers == Pollers \cup {Owner}

ASSUME RollupAssumption ==
  /\ Owner \notin Pollers
  /\ OwnerMeters \subseteq ComputeEvents
  /\ IsFiniteSet(NetworkEvents)
  /\ NetworkEvents \cap (PlainEvents \cup ComputeEvents \cup GpuEvents) = {}  \* its event_type

VARIABLES stored,   \* the events table: a function from the stored events to {0, 1}, the price
          purged,   \* the events that were stored and are deleted
          row,      \* the row of the task
          owns,     \* whether the job owns the task (an automatic task nobody ends)
          handle,   \* the owner's TrackedTask: its accountant, and whether it was ended
          rollup    \* [Writers -> the Task object of a roll-up and where it is]

taskVars == <<stored, purged, row, owns, handle, rollup>>
allTaskVars == <<jobVars, taskVars>>

NoTotals == [e \in TaskEvents |-> 0]
NoRollup == [at |-> "idle", status |-> "pending", seen |-> {}, total |-> NoTotals,
             job |-> 0, net |-> 0]

RollupInit ==
  /\ stored = [e \in {} |-> 0]
  /\ purged = {}
  /\ row = [status |-> "pending", total |-> NoTotals, job |-> 0, net |-> 0]
  /\ owns \in BOOLEAN
  /\ handle = [bytes |-> 0, frozen |-> FALSE, ended |-> FALSE, due |-> {}]
  /\ rollup = [w \in Writers |-> NoRollup]

New(e) == e \notin DOMAIN stored \cup purged

Store(E, price) == stored' = [e \in DOMAIN stored \cup E |-> IF e \in E THEN price ELSE stored[e]]

-----------------------------------------------------------------------------
\* record_cost, record_usage, record_llm_call, mark_retry, and the wrappers of
\* serverless functions, by any process that knows the task, also after its end.
Record(e) ==
  /\ e \in TaskEvents \ (NetworkEvents \cup OwnerMeters)
  /\ New(e)
  /\ Store({e}, IF e \in PlainEvents THEN 1 ELSE 0)
  /\ UNCHANGED <<purged, row, owns, handle, rollup>>

\* A call through the HTTP adapter: its bytes go to the accountant of the task, unless
\* that is frozen, and its event is stored unpriced.
RecordNetwork(e) ==
  /\ e \in NetworkEvents
  /\ New(e)
  /\ Store({e}, 0)
  /\ handle' = [handle EXCEPT !.bytes = IF handle.frozen THEN @ ELSE @ + 1]
  /\ UNCHANGED <<purged, row, owns, rollup>>

\* TrackedTask.end, the end of a decorated function or of a task context.
EndTask(status) ==
  /\ ~owns /\ ~handle.ended
  /\ handle' = [handle EXCEPT !.ended = TRUE, !.due = DOMAIN stored]
  /\ rollup' = [rollup EXCEPT ![Owner] = [NoRollup EXCEPT !.at = "events", !.status = status]]
  /\ UNCHANGED <<stored, purged, row, owns>>

\* _finalize_attached_task: the row as it is in the store.
GetTask(p) ==
  /\ p \in Pollers /\ poll[p].at = "finalize" /\ rollup[p].at = "idle"
  /\ rollup' = [rollup EXCEPT ![p] = [NoRollup EXCEPT !.at = "events",
                                                      !.status = row.status]]
  /\ UNCHANGED <<stored, purged, row, owns, handle>>

-----------------------------------------------------------------------------
\* The phases of _aggregate_costs.

\* query_events, and the sum of the costs as they are now; network events are left
\* out, their bytes count.
SumEvents(w) ==
  /\ rollup[w].at = "events"
  /\ rollup' = [rollup EXCEPT
       ![w].at = "jobs",
       ![w].seen = DOMAIN stored,
       ![w].total = [e \in TaskEvents |-> IF e \in DOMAIN stored \ NetworkEvents
                                          THEN stored[e] ELSE 0]]
  /\ UNCHANGED <<stored, purged, row, owns, handle>>

\* The latest revision of the job, if it is terminal.
SumJobs(w) ==
  /\ rollup[w].at = "jobs"
  /\ rollup' = [rollup EXCEPT
       ![w].at = "network",
       ![w].job = IF Latest # 0 /\ job[Latest].status \in Terminal THEN Latest ELSE 0]
  /\ UNCHANGED <<stored, purged, row, owns, handle>>

\* The accountant of the Task object is frozen and gives the bytes; the one of a Task
\* that was read from the store is empty.  The network events read at the start are
\* priced and written back.
SumNetwork(w) ==
  /\ rollup[w].at = "network"
  /\ rollup' = [rollup EXCEPT ![w].at = "compute",
                              ![w].net = IF w = Owner THEN handle.bytes ELSE 0]
  /\ handle' = [handle EXCEPT !.frozen = @ \/ w = Owner]
  /\ Store(rollup[w].seen \cap NetworkEvents \cap DOMAIN stored, 1)
  /\ UNCHANGED <<purged, row, owns>>

\* Mutant: a roll-up adds every event of the kind, priced before or not.
BackfillAll(w, E, next) ==
  /\ Store({e \in E : New(e) \/ stored[e] = 0}, 1)
  /\ rollup' = [rollup EXCEPT
       ![w].at = next,
       ![w].total = [e \in TaskEvents |-> @[e] + (IF e \in E THEN 1 ELSE 0)]]
  /\ UNCHANGED <<purged, row, owns, handle>>

\* Prices the events of E that have no price yet and adds the difference.
Backfill(w, E, next) ==
  LET unpriced == {e \in E : New(e) \/ stored[e] = 0}
  IN /\ Store(unpriced, 1)
     /\ rollup' = [rollup EXCEPT
          ![w].at = next,
          ![w].total = [e \in TaskEvents |-> @[e] + (IF e \in unpriced THEN 1 ELSE 0)]]
     /\ UNCHANGED <<purged, row, owns, handle>>

\* _finalize_compute: the owner's accountant emits its event first.
FinalizeCompute(w) ==
  /\ rollup[w].at = "compute"
  /\ Backfill(w, (DOMAIN stored \cap ComputeEvents)
                   \cup (IF w = Owner THEN OwnerMeters ELSE {}), "gpu")

FinalizeGpu(w) ==
  /\ rollup[w].at = "gpu"
  /\ Backfill(w, DOMAIN stored \cap GpuEvents, "write")

\* update_task: the whole row.  A job that owns its task gives it its status.
UpdateTask(w, status) ==
  /\ rollup[w].at = "write"
  /\ row' = [status |-> status, total |-> rollup[w].total,
             job |-> rollup[w].job, net |-> rollup[w].net]
  /\ rollup' = [rollup EXCEPT ![w] = NoRollup]
  /\ UNCHANGED <<stored, purged, owns, handle>>

OwnerWrites == UpdateTask(Owner, rollup[Owner].status)

\* Mutant: the task keeps the status it was read with.
JobStatusAsRead(p) == rollup[p].status

JobStatus(p) == IF ~owns THEN rollup[p].status
                ELSE IF poll[p].new.status = "succeeded" THEN "success" ELSE "failed"

PollerWrites(p) == UpdateTask(p, JobStatus(p)) /\ Finalized(p)

\* purge_synced: an event that was delivered two days ago is deleted.
PurgeEvent(e) ==
  /\ e \in DOMAIN stored
  /\ purged' = purged \cup {e}
  /\ stored' = [f \in DOMAIN stored \ {e} |-> stored[f]]
  /\ UNCHANGED <<row, owns, handle, rollup>>

\* The process of the owner dies before it has written the row.
OwnerCrashes ==
  /\ rollup[Owner].at # "idle"
  /\ rollup' = [rollup EXCEPT ![Owner] = NoRollup]
  /\ handle' = [handle EXCEPT !.frozen = TRUE]
  /\ UNCHANGED <<stored, purged, row, owns>>

RollupSteps(w) == \/ SumEvents(w) \/ SumJobs(w) \/ SumNetwork(w)
                  \/ FinalizeCompute(w) \/ FinalizeGpu(w)

TaskNext ==
  \/ \E e \in TaskEvents : Record(e) \/ RecordNetwork(e) \/ PurgeEvent(e)
  \/ \E s \in {"success", "failed"} : EndTask(s)
  \/ \E w \in Writers : RollupSteps(w)
  \/ \E p \in Pollers : GetTask(p)
  \/ OwnerWrites \/ OwnerCrashes

JobSteps ==
  \/ \E p \in Pollers :
       \/ \E s \in Snapshots : Submit(p, s) \/ Observe(p, s)
       \/ ReadLatest(p) \/ CheckRevision(p) \/ InsertJobRevision(p)
  \/ SendPage

RollupNext ==
  \/ TaskNext /\ UNCHANGED jobVars
  \/ JobSteps /\ UNCHANGED taskVars
  \/ \E p \in Pollers : PollerWrites(p)
  \/ \E p \in Pollers : /\ PollerCrashes(p)
                        /\ rollup' = [rollup EXCEPT ![p] = NoRollup]
                        /\ UNCHANGED <<stored, purged, row, owns, handle>>

RollupSpec == JobInit /\ RollupInit /\ [][RollupNext]_allTaskVars

-----------------------------------------------------------------------------
RollupTypeOK ==
  /\ DOMAIN stored \subseteq TaskEvents /\ purged \subseteq TaskEvents
  /\ \A e \in DOMAIN stored : stored[e] \in {0, 1}
  /\ owns \in BOOLEAN
  /\ row.status \in {"pending", "success", "failed"} /\ row.job \in 0 .. MaxRevisions
  /\ handle.bytes \in 0 .. Cardinality(NetworkEvents)
  /\ \A w \in Writers :
       rollup[w].at \in {"idle", "events", "jobs", "network", "compute", "gpu", "write"}

\* No cost is counted twice, whoever rolls up at the same time: neither an event that
\* is priced during a roll-up, nor a network call beside its bytes.
NothingIsCountedTwice ==
  /\ \A e \in TaskEvents : row.total[e] <= 1
  /\ \A e \in NetworkEvents : row.total[e] = 0

\* The row of an ended task counts each event recorded before the end once, the bytes
\* of its network calls, and what its own accountant measured.
EndCountsEveryEventOnce ==
  row.status # "pending" =>
    /\ \A e \in (handle.due \ NetworkEvents) \cup OwnerMeters : row.total[e] = 1
    /\ row.net = handle.bytes

\* Every event of a task is counted once if only its owner ends it, and none twice even
\* while several roll it up: a job's roll-up knows neither the bytes nor the accountant of
\* the owner, and an event that was purged is no longer read (_aggregate_costs).
EventsAreCountedOnce ==
  /\ NothingIsCountedTwice
  /\ DOMAIN job = {} /\ purged = {} => EndCountsEveryEventOnce

\* A revision of the job that ended it, and left a task of its own with the status.
EndsAs(n, status) ==
  /\ n \in DOMAIN job /\ job[n].status \in Terminal
  /\ status = (IF job[n].status = "succeeded" THEN "success" ELSE "failed")

\* However many pollers observe a job, retry, roll its task up at the same time and die: a
\* task owned by the job is ended if and only if its row counts the job, at a stored terminal
\* revision no older than one that ended it with the status of the row; and a job of a
\* shared task never ends it before its owner (reconcile_provider_job,
\* _finalize_attached_task).
RowSaysWhatItsJobSaid ==
  /\ row.job # 0 => row.job \in DOMAIN job /\ job[row.job].status \in Terminal
  /\ owns => IF row.job = 0 THEN row.status = "pending"
             ELSE \E n \in 1 .. row.job : EndsAs(n, row.status)
  /\ ~owns => row.status = "pending" \/ handle.ended
=============================================================================
