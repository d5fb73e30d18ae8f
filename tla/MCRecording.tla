---------------------------- MODULE MCRecording -----------------------------
(***************************************************************************)
(* What the SDK keeps of the work of an application, for model checking.   *)
(* The components share no state, so they are checked as a sum: a          *)
(* behaviour picks one part at the start, only that part moves, and the    *)
(* variables of the others keep one value of their own initial condition.  *)
(*   outcomes, revenues   BusinessLedgers, one record of each kind         *)
(*   jobs                 ProviderJobs                                     *)
(*   owner, job, race     TaskRollup, whose task its own process ends,     *)
(*                        a provider job ends, or both at once             *)
(*   catalog              CatalogReleases                                  *)
(*   totals               NetworkTotals                                    *)
(*   sessions             AutoSessions                                     *)
(*   schema               SchemaMigrations                                 *)
(*   identity             EventIdentity                                    *)
(*   gpu                  GpuAccounting                                    *)
(*   batch, streams       MCBatches, one share of the rows each            *)
(***************************************************************************)
EXTENDS BusinessLedgers, TaskRollup, CatalogReleases, NetworkTotals, AutoSessions,
        SchemaMigrations, EventIdentity, GpuAccounting, MCBatches, TLC

CONSTANTS Twins,     \* the clients, pollers, users, executions, openers and processes
          TwinKeys   \* the API keys

VARIABLE part

\* An outcome has three bodies and a second source; a revenue changes its currency only
\* where it has an amount.
OutcomesOfOneSource ==
  [who : {"a"}, state : {"pending", "achieved", "voided"}, cur : {"none"}]
    \union {[who |-> "b", state |-> "achieved", cur |-> "none"]}
RevenuesOfOneSource ==
  {[who |-> "a", state |-> s, cur |-> "none"] : s \in {"pending", "voided"}}
    \union {[who |-> "a", state |-> "provisional", cur |-> "usd"]}
    \union [who : {"a"}, state : {"recognized"}, cur : {"usd", "eur"}]

TwinSymmetry == Permutations(Twins) \union Permutations(TwinKeys)

rollupPart == part \in {"owner", "job", "race"}
otherVars(P) ==
  /\ "ledgers" \notin P => UNCHANGED ledgerVars
  /\ "jobs" \notin P => UNCHANGED jobVars
  /\ "rollup" \notin P => UNCHANGED taskVars
  /\ "catalog" \notin P => UNCHANGED catalogVars
  /\ "totals" \notin P => UNCHANGED totalsVars
  /\ "sessions" \notin P => UNCHANGED sessionVars
  /\ "schema" \notin P => UNCHANGED schemaVars
  /\ "identity" \notin P => UNCHANGED identityVars
  /\ "gpu" \notin P => UNCHANGED gpuVars
  /\ "rows" \notin P => UNCHANGED rowVars

-----------------------------------------------------------------------------
RecordingInit ==
  /\ part \in {"outcomes", "revenues", "jobs", "owner", "job", "race", "catalog", "totals",
               "sessions", "schema", "identity", "gpu", "batch", "streams"}
  /\ LedgerInit /\ JobInit
  /\ RollupInit /\ (owns <=> part = "job")
  /\ CatalogInit
  /\ active = 0 => client = None
  /\ part # "catalog" => active = 0 /\ overlays = {}
  /\ TotalsInit
  /\ SessionsInit
  /\ part # "sessions" => inContext = [e \in Executions |-> NoTask]
  /\ SchemaInit
  /\ part # "schema" => versions = <<>>
  /\ IdentityInit /\ setup.inOrder
  /\ IF part = "identity"
     THEN \* replayed work that does not fail, retried work of one run, or both of one model
          \/ setup.early /\ \A o \in Plan : ~plan[o].fails
          \/ ~setup.keyed /\ setup.detector # "off"
          \/ setup.keyed /\ setup.detector # "off" /\ \A o \in Plan : plan[o].model = "a"
     ELSE ~setup.keyed /\ setup.detector = "off"
          /\ \A o \in Plan : plan[o] = [model |-> "a", fails |-> FALSE]
  /\ GpuInit
  /\ Delivery!Init

\* The records of one kind are written.
Ledgers(Ids) == LedgerNext /\ \A c \in Clients : call'[c].id \in Ids \union {"none"}

\* Three revisions seen at one time, or two seen at two; a job that failed has no cost.
Jobs ==
  /\ JobNext
  /\ \A p \in Pollers : poll'[p].new.status = "failed" => poll'[p].new.cost = 0
  /\ \/ \A p \in Pollers : poll'[p].base <= 1
     \/ /\ \A n \in DOMAIN job' : job'[n].seen <= 1
        /\ \A p \in Pollers : poll'[p].new.seen <= 1

OwnerPart ==
  /\ TaskNext /\ UNCHANGED <<jobVars, purged>>
  /\ ~(rollup[Owner].at \notin {"idle", "write"} /\ rollup'[Owner].at = "idle")

\* Two pollers observe, retry, roll the task up and die; a job that failed has no cost.
JobPart ==
  /\ \/ JobSteps /\ UNCHANGED taskVars
     \/ \E w \in Pollers : (GetTask(w) \/ RollupSteps(w)) /\ UNCHANGED jobVars
     \/ \E p \in Pollers : PollerWrites(p)
     \/ \E p \in Pollers : PollerCrashes(p) /\ rollup' = [rollup EXCEPT ![p] = NoRollup]
                           /\ UNCHANGED <<stored, purged, row, owns, handle>>
  /\ UNCHANGED sent
  /\ \A p \in Pollers : /\ poll'[p].new.seen <= 1
                        /\ poll'[p].new.status = "failed" => poll'[p].new.cost = 0

RacePart ==
  /\ RollupNext /\ UNCHANGED sent
  /\ DOMAIN job' \subseteq {1}
  /\ \A p \in Pollers : /\ poll'[p].new.status \in {"none", "succeeded"}
                        /\ poll'[p].new.seen <= 1 /\ poll'[p].tries <= 1
                        /\ poll[p].at # "idle" /\ poll'[p].at = "idle" => poll[p].at = "finalize"
  /\ DOMAIN stored' \subseteq ComputeEvents

\* Two of: a publication, an import, a rotation of the key, a fault.
Catalog == CatalogNext /\ publications' + imports' + generation' + catalogFaults' <= 2

\* Retried work is not run again; of work that is replayed and retried two calls are made.
\* The wrappers, which take their occurrence early, measure latencies: that of one differs.
Identity ==
  /\ IdentityNext
  /\ \A o \in Plan : doing'[o].latency > 1 => setup.early /\ o = 1
  /\ ~setup.keyed => run' = 1
  /\ setup.keyed /\ setup.detector # "off" => doing'[3].at = "unstarted"

RecordingNext ==
  /\ UNCHANGED part
  /\ \/ part = "outcomes" /\ Ledgers(OutcomeIds) /\ otherVars({"ledgers"})
     \/ part = "revenues" /\ Ledgers(RevenueIds) /\ otherVars({"ledgers"})
     \/ part = "jobs" /\ Jobs /\ otherVars({"jobs"})
     \/ part = "owner" /\ OwnerPart /\ otherVars({"jobs", "rollup"})
     \/ part = "job" /\ JobPart /\ otherVars({"jobs", "rollup"})
     \/ part = "race" /\ RacePart /\ otherVars({"jobs", "rollup"})
     \/ part = "catalog" /\ Catalog /\ otherVars({"catalog"})
     \/ part = "totals" /\ TotalsNext /\ otherVars({"totals"})
     \/ part = "sessions" /\ SessionsNext /\ otherVars({"sessions"})
     \/ part = "schema" /\ SchemaNext /\ otherVars({"schema"})
     \/ part = "identity" /\ Identity /\ otherVars({"identity"})
     \/ part = "gpu" /\ GpuNext /\ otherVars({"gpu"})
     \/ part = "batch" /\ Rows(BatchRows) /\ otherVars({"rows"})
     \/ part = "streams" /\ Rows(StreamRows) /\ otherVars({"rows"})

recordingVars == <<part, ledgerVars, allTaskVars, catalogVars, totalsVars, sessionVars,
                   schemaVars, identityVars, gpuVars, rowVars>>

RecordingSpec == RecordingInit /\ [][RecordingNext]_recordingVars

-----------------------------------------------------------------------------
\* The rows of every part have the types their tables declare.
RecordingTypeOK == /\ LedgerTypeOK /\ JobTypeOK /\ RollupTypeOK
                   /\ CatalogTypeOK /\ SessionsTypeOK
=============================================================================
