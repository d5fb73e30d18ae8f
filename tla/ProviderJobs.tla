---------------------------- MODULE ProviderJobs ----------------------------
(***************************************************************************)
(* One asynchronous provider job: its append-only revisions in             *)
(* storage/sqlite.py, the submission and the pollers of provider_jobs.py   *)
(* that append to them at the same time, and the order in which the sync   *)
(* worker takes them away.                                                 *)
(*                                                                         *)
(* A poller reads the latest revision, then inserts the next one if what   *)
(* it observed is new.  Between the read, the checks of the insertion and  *)
(* the INSERT other pollers, of this or another process, may append.       *)
(***************************************************************************)
EXTENDS Integers, FiniteSets

CONSTANTS Pollers,        \* threads that submit or reconcile the job
          Costs,          \* measurements a terminal snapshot can carry
          MaxTime,        \* bound on observed_at
          MaxRevisions,   \* bound on the revisions of the job
          MaxAttempts,    \* the attempts of one reconciliation, 5 in the code
          PageLimit       \* revisions in one page of the sync worker

ASSUME JobsAssumption == /\ 0 \notin Costs
                         /\ {MaxTime, MaxRevisions, MaxAttempts, PageLimit} \subseteq Nat \ {0}

Pending == {"submitted", "running"}
Terminal == {"succeeded", "failed"}   \* cancelled and unknown are treated as failed is

\* A snapshot the checks of ProviderJobRevision let exist; cost 0 is no measurement.
Snapshots == {s \in [status : Pending \cup Terminal, cost : Costs \cup {0}, seen : 1 .. MaxTime] :
                /\ s.status \in Pending => s.cost = 0
                /\ s.status = "succeeded" => s.cost # 0}
NoSnapshot == [status |-> "none", cost |-> 0, seen |-> 0]

\* What makes repeated polls idempotent: all but revision and observed_at.
Economic(s) == <<s.status, s.cost>>

JobNumbers == 1 .. MaxRevisions

VARIABLES job,     \* the table: a function from the revisions there are to snapshots
          sent,    \* the revisions the control plane has taken
          poll     \* [Pollers -> where the call is]

jobVars == <<job, sent, poll>>

NoCall == [at |-> "idle", first |-> FALSE, new |-> NoSnapshot, base |-> 0, tries |-> 0]

Latest == CHOOSE n \in {0} \cup DOMAIN job : \A m \in DOMAIN job : m <= n

JobInit == /\ job = [n \in {} |-> NoSnapshot]
           /\ sent = {}
           /\ poll = [p \in Pollers |-> NoCall]

Go(p, at) == poll' = [poll EXCEPT ![p].at = at]
EndCall(p) == poll' = [poll EXCEPT ![p] = NoCall]

-----------------------------------------------------------------------------
\* record_provider_job_submission: revision 1, or the one that is already there.
Submit(p, s) ==
  /\ poll[p].at = "idle"
  /\ Latest = 0
  /\ poll' = [poll EXCEPT ![p] = [at |-> "check", first |-> TRUE, new |-> s,
                                  base |-> 0, tries |-> 1]]
  /\ UNCHANGED <<job, sent>>

\* reconcile_provider_job is called with an observation.
Observe(p, s) ==
  /\ poll[p].at = "idle"
  /\ poll' = [poll EXCEPT ![p] = [at |-> "read", first |-> FALSE, new |-> s,
                                  base |-> 0, tries |-> 1]]
  /\ UNCHANGED <<job, sent>>

\* get_provider_job: an unknown job is a LookupError, a snapshot that says nothing new
\* ends the call, any other becomes the candidate for the next revision.
ReadLatest(p) ==
  /\ poll[p].at = "read"
  /\ IF Latest = 0 \/ (Latest # 0 /\ Economic(job[Latest]) = Economic(poll[p].new))
     THEN EndCall(p)
     ELSE /\ Latest < MaxRevisions
          /\ poll' = [poll EXCEPT ![p].at = "check", ![p].base = Latest]
  /\ UNCHANGED <<job, sent>>

\* Mutant: after a conflict the next number is tried at once.
ConflictTriesNext(p) ==
  IF poll[p].first \/ poll[p].tries = MaxAttempts \/ Latest = MaxRevisions
  THEN EndCall(p)
  ELSE poll' = [poll EXCEPT ![p].at = "check", ![p].base = Latest, ![p].tries = @ + 1]

\* Mutant: a poller reads again once more than the limit of attempts lets it.
ConflictOnceMore(p) == IF poll[p].first \/ poll[p].tries > MaxAttempts
                       THEN EndCall(p)
                       ELSE poll' = [poll EXCEPT ![p].at = "read", ![p].tries = @ + 1]

\* After a conflict a poller reads again, a submission gives up.
Conflict(p) == IF poll[p].first \/ poll[p].tries = MaxAttempts
               THEN EndCall(p)
               ELSE poll' = [poll EXCEPT ![p].at = "read", ![p].tries = @ + 1]

JobMayFollow(old, new) ==
  /\ new.seen >= old.seen
  /\ old.status \notin Pending => new.status \notin Pending
  /\ ~(old.status = "running" /\ new.status = "submitted")

\* The revision is in the table: _finalize_attached_task has work if it is terminal.
Stored(p) == IF poll[p].new.status \in Terminal
             THEN poll' = [poll EXCEPT ![p] = [NoCall EXCEPT !.at = "finalize",
                                                             !.new = poll[p].new]]
             ELSE EndCall(p)

\* The checks of insert_provider_job_revision: the same revision again is accepted
\* silently, another content or another number is a conflict, an impossible
\* transition is an error for the caller.
CheckRevision(p) ==
  LET n == poll[p].base + 1
      new == poll[p].new
  IN /\ poll[p].at = "check"
     /\ CASE n \in DOMAIN job /\ job[n] = new -> Stored(p)
          [] n \in DOMAIN job /\ job[n] # new -> Conflict(p)
          [] n \notin DOMAIN job /\ n # Latest + 1 -> Conflict(p)
          [] OTHER -> IF n = 1 \/ (n > 1 /\ JobMayFollow(job[Latest], new))
                      THEN Go(p, "insert") ELSE EndCall(p)
     /\ UNCHANGED <<job, sent>>

\* Mutant: INSERT OR REPLACE.
InsertOrReplaceJob(p) ==
  LET n == poll[p].base + 1
      new == poll[p].new
  IN /\ poll[p].at = "insert"
     /\ job' = [m \in DOMAIN job \cup {n} |-> IF m = n THEN new ELSE job[m]]
     /\ Stored(p)
     /\ UNCHANGED sent

\* The INSERT; a revision another process has appended meanwhile is a conflict.
InsertJobRevision(p) ==
  LET n == poll[p].base + 1
      new == poll[p].new
  IN /\ poll[p].at = "insert"
     /\ IF n \in DOMAIN job
        THEN Conflict(p) /\ UNCHANGED job
        ELSE /\ job' = [m \in DOMAIN job \cup {n} |-> IF m = n THEN new ELSE job[m]]
             /\ Stored(p)
     /\ UNCHANGED sent

\* The task the job belongs to has been rolled up (TaskRollup refines this step).
Finalized(p) == /\ poll[p].at = "finalize"
                /\ EndCall(p)
                /\ UNCHANGED <<job, sent>>

PollerCrashes(p) == /\ poll[p].at # "idle"
                    /\ EndCall(p)
                    /\ UNCHANGED <<job, sent>>

-----------------------------------------------------------------------------
\* query_provider_jobs_for_sync: ORDER BY observed_at, revision, with a limit.
Precedes(m, n) == \/ job[m].seen < job[n].seen
                  \/ job[m].seen = job[n].seen /\ m < n

Page == LET waiting == DOMAIN job \ sent
        IN {n \in waiting : Cardinality({m \in waiting : Precedes(m, n)}) < PageLimit}

\* A delivery cycle takes a page and acknowledges it.
SendPage == /\ Page # {}
            /\ sent' = sent \cup Page
            /\ UNCHANGED <<job, poll>>

JobNext ==
  \/ \E p \in Pollers :
       \/ \E s \in Snapshots : Submit(p, s) \/ Observe(p, s)
       \/ ReadLatest(p) \/ CheckRevision(p) \/ InsertJobRevision(p)
       \/ Finalized(p) \/ PollerCrashes(p)
  \/ SendPage

JobSpec == JobInit /\ [][JobNext]_jobVars

-----------------------------------------------------------------------------
JobTypeOK ==
  /\ DOMAIN job \subseteq JobNumbers
  /\ \A n \in DOMAIN job : job[n] \in Snapshots
  /\ sent \subseteq DOMAIN job
  /\ poll \in [Pollers -> [at : {"idle", "read", "check", "insert", "finalize"},
                           first : BOOLEAN, new : Snapshots \cup {NoSnapshot},
                           base : 0 .. MaxRevisions - 1, tries : 0 .. MaxAttempts]]

\* Every revision says something new, however many pollers observe the same state at
\* the same time (reconcile_provider_job: "deduplicating replayed polls atomically").
RevisionsSaySomethingNew ==
  \A n \in DOMAIN job : n > 1 => /\ n - 1 \in DOMAIN job
                                 /\ Economic(job[n]) # Economic(job[n - 1])

\* The sync worker takes the revisions in the order in which they were appended, page
\* by page, although it sorts by observed_at, which the caller may choose.
SentInCausalOrder == \A n \in sent : \A m \in DOMAIN job : m < n => m \in sent

\* A terminal revision is followed by terminal ones only, and observed_at never falls.
TerminalStaysTerminal ==
  \A m, n \in DOMAIN job :
    m < n => /\ job[m].status \in Terminal => job[n].status \in Terminal
             /\ job[m].seen <= job[n].seen

\* The history of a job is true for all who read it: nothing is said twice, nothing
\* follows the end, and nothing is sent before what it rests on.
JobHistoryIsTrue == RevisionsSaySomethingNew /\ TerminalStaysTerminal /\ SentInCausalOrder

\* The revisions of the job are a ledger.
JobLedger == INSTANCE RevisionLedger
               WITH LedgerIds <- {"job"}, Bodies <- Snapshots, Openings <- Snapshots,
                    Follows <- {p \in Snapshots \X Snapshots :
                                  /\ JobMayFollow(p[1], p[2])
                                  /\ Economic(p[1]) # Economic(p[2])},
                    height <- [i \in {"job"} |-> Latest],
                    body <- [i \in {"job"} |-> [n \in 1 .. Latest |-> job[n]]]

JobIsALedger == JobLedger!Spec
=============================================================================
