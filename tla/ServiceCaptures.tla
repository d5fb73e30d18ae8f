--------------------------- MODULE ServiceCaptures ---------------------------
(***************************************************************************)
(* The facades of instruments/ around the clients of metered services that *)
(* are no model providers: web tools, hosted browsers, document parsers,   *)
(* OCR, object storage, vector databases, Redis, sandboxes.                *)
(*                                                                         *)
(* A facade calls the native client and looks at its answer.  Some services*)
(* have runs that end long after the call that started them: the facade    *)
(* binds the run to the task that started it and stores its meter when a   *)
(* later answer has it.  Some have answers with an identity of their own,  *)
(* stored once.  The others store one event for each call.                 *)
(*                                                                         *)
(* Readers are the calls in flight, of any thread; the tables of           *)
(* storage/sqlite.py are read and written in separate transactions.        *)
(***************************************************************************)
EXTENDS Naturals, FiniteSets

CONSTANTS Readers,       \* calls of the facades
          ServiceTasks,  \* tasks that can be current
          Meters,        \* quantities a provider reports; 0 is no usage
          MaxMeterRev    \* bound on the revisions of the record

ASSUME ServicesAssumption == /\ 0 \in Meters /\ MaxMeterRev \in Nat
                             /\ MaxMeterRev >= 2

-----------------------------------------------------------------------------
\* What a facade keeps of an answer, how many transport attempts it accepts, whether
\* it keeps failures and calls inside a call it is already timing, and a meter of 0.
Bound == [keeps |-> "run", attempts |-> {1, 2}, failures |-> FALSE, nested |-> TRUE, zero |-> TRUE]
Once == [Bound EXCEPT !.keeps = "record"]
EachCall == [Bound EXCEPT !.keeps = "event"]

NativeWebTools == Bound
SessionsFacade == Bound
LlamaParse == Bound
Textract == [Once EXCEPT !.attempts = {1}]
ObjectStorage == [Once EXCEPT !.attempts = {1}]
YouSearch == Once
DocumentAI == EachCall
VectorFacade == [EachCall EXCEPT !.zero = FALSE]
CloudVectorFacade == [EachCall EXCEPT !.zero = FALSE]
UpstashFacade == [EachCall EXCEPT !.attempts = {1}]
RedisClient == [EachCall EXCEPT !.failures = TRUE]
RuntimeHandler == [EachCall EXCEPT !.failures = TRUE, !.nested = FALSE]

Facades == {NativeWebTools, SessionsFacade, LlamaParse, Textract, ObjectStorage, YouSearch,
            DocumentAI, VectorFacade, CloudVectorFacade, UpstashFacade, RedisClient,
            RuntimeHandler}

-----------------------------------------------------------------------------
VARIABLES keeps,     \* what the facades in use keep: "run", "record" or "event"
          run,       \* the run at the provider: its status, its meter and who started it
          record,    \* the stored revisions of the record of the run, or of the answer
          events,    \* the stored events, a set of [call, task]
          active,    \* whether the facade still captures
          task,      \* [Readers -> the task that is current where the call is made]
          reader     \* [Readers -> the call]

serviceVars == <<keeps, run, record, events, active, task, reader>>

NoTask == "no task"
NoRevision == [task |-> NoTask, status |-> "none", meter |-> 0]
IdleReader == [at |-> "idle", facade |-> Bound, starts |-> FALSE, task |-> NoTask, within |-> FALSE,
               attempts |-> 1, answer |-> NoRevision, old |-> 0, next |-> NoRevision]

ServicesInit ==
  /\ keeps \in {"run", "record", "event"}
  /\ run = [status |-> "none", meter |-> 0, starter |-> NoTask]
  /\ record = [n \in {} |-> NoRevision]
  /\ events = {}
  /\ active = TRUE
  /\ task \in [Readers -> ServiceTasks \cup {NoTask}]
  /\ reader = [r \in Readers |-> IdleReader]

LastRev == Cardinality(DOMAIN record)
Known == LastRev # 0
To(r, at) == reader' = [reader EXCEPT ![r].at = at]
Stores == UNCHANGED <<keeps, run, active, task>>
\* The call is over; what it was matters only for an event.
Done(r) == reader' = [reader EXCEPT ![r] = IF keeps = "event" THEN [@ EXCEPT !.at = "done"]
                                           ELSE [IdleReader EXCEPT !.at = "done"]]

-----------------------------------------------------------------------------
\* The call: its task is the one that is current now.
Call(r, f, starts, within) ==
  /\ reader[r].at = "idle" /\ f.keeps = keeps
  /\ starts => keeps = "run" /\ run.status = "none"
  /\ keeps = "run" /\ ~starts => run.status # "none"
  /\ within => ~f.nested     \* the timed handler calls itself through another wrapper
  /\ reader' = [reader EXCEPT ![r] = [IdleReader EXCEPT
                  !.at = "native", !.facade = f, !.starts = starts, !.task = task[r],
                  !.within = within]]
  /\ run' = IF starts THEN [run EXCEPT !.status = "running", !.starter = task[r]] ELSE run
  /\ UNCHANGED <<keeps, record, events, active, task>>

\* While the answer is awaited another task may become current where it arrives.
TaskSwitch(r, t) == /\ reader[r].at = "native" /\ task[r] = reader[r].task
                    /\ task' = [task EXCEPT ![r] = t]
                    /\ UNCHANGED <<keeps, run, record, events, active, reader>>

RunEnds(status, meter) ==
  /\ run.status = "running"
  /\ run' = [run EXCEPT !.status = status, !.meter = meter]
  /\ UNCHANGED <<keeps, record, events, active, task, reader>>

\* The native client answers with what the provider knows now, or raises.
Answers(r, attempts, meter, ok) ==
  LET f == reader[r].facade
      answer == IF keeps = "run" THEN [task |-> reader[r].task, status |-> run.status, meter |-> run.meter]
                ELSE [task |-> reader[r].task, status |-> IF ok THEN "succeeded" ELSE "failed", meter |-> meter]
  IN /\ reader[r].at = "native"
     /\ keeps = "run" => ok /\ attempts = 1 /\ meter = 0
     /\ IF active THEN reader' = [reader EXCEPT ![r].answer = answer, ![r].attempts = attempts,
                                                ![r].at = "capture"]
        ELSE Done(r)
     /\ UNCHANGED <<keeps, run, record, events, active, task>>

UninstrumentServices == active /\ active' = FALSE /\ UNCHANGED <<keeps, run, record, events, task, reader>>

-----------------------------------------------------------------------------
\* Mutant: the event goes to the task that is current when the answer arrives.
StoreUnderCurrent(r) ==
  LET c == reader[r]
      kept == /\ c.task # NoTask /\ c.attempts \in c.facade.attempts
              /\ c.answer.status = "succeeded" \/ c.facade.failures
              /\ c.answer.meter # 0 \/ c.facade.zero
              /\ ~c.within \/ c.facade.nested
  IN /\ c.at = "capture" /\ keeps = "event"
     /\ events' = IF kept THEN events \cup {[call |-> r, task |-> task[r]]} ELSE events
     /\ Done(r) /\ UNCHANGED record /\ Stores

\* An answer without a run: the checks, then one event ...
StoreEvent(r) ==
  LET c == reader[r]
      kept == /\ c.task # NoTask /\ c.attempts \in c.facade.attempts
              /\ c.answer.status = "succeeded" \/ c.facade.failures
              /\ c.answer.meter # 0 \/ c.facade.zero
              /\ ~c.within \/ c.facade.nested
  IN /\ c.at = "capture" /\ keeps = "event"
     /\ events' = IF kept THEN events \cup {[call |-> r, task |-> c.task]} ELSE events
     /\ Done(r) /\ UNCHANGED record /\ Stores

\* ... or one record, if the identity of the answer is not known yet.
LookUpOnce(r) ==
  LET c == reader[r]
  IN /\ c.at = "capture" /\ keeps = "record"
     /\ IF /\ c.task # NoTask /\ c.attempts \in c.facade.attempts
           /\ c.answer.status = "succeeded" /\ ~Known
        THEN reader' = [reader EXCEPT ![r].at = "insert", ![r].next = c.answer]
        ELSE Done(r)
     /\ UNCHANGED <<record, events>> /\ Stores

\* _bind: an answer to the call that started the run binds it to the task of that call.
Bind(r) ==
  LET c == reader[r]
      bound == [task |-> c.task, status |-> "submitted", meter |-> 0]
  IN /\ c.at = "capture" /\ keeps = "run"
     /\ IF ~c.starts \/ (Known /\ record[1].task = c.task) THEN To(r, "lookup")
        ELSE IF c.task = NoTask \/ Known THEN Done(r)
        ELSE reader' = [reader EXCEPT ![r].at = "bind", ![r].next = bound]
     /\ UNCHANGED <<record, events>> /\ Stores

\* insert_provider_job_revision: the same revision again is accepted, another content
\* under the same number is an error, which the facade swallows.
Insert(r, n, next) ==
  LET new == reader[r].next
  IN IF n \in DOMAIN record
     THEN /\ UNCHANGED record
          /\ IF record[n] = new THEN To(r, next) ELSE Done(r)
     ELSE IF n = LastRev + 1
     THEN record' = [m \in DOMAIN record \cup {n} |-> IF m = n THEN new ELSE record[m]] /\ To(r, next)
     ELSE UNCHANGED record /\ Done(r)

InsertBinding(r) == /\ reader[r].at = "bind"
                    /\ Insert(r, 1, "lookup")
                    /\ UNCHANGED events /\ Stores

\* Mutant: the terminal snapshot is that of the task whose answer it is.
TerminalOfThePoller(c) ==
  [c.answer EXCEPT !.status = IF @ = "succeeded" /\ c.answer.meter = 0 THEN "unknown" ELSE @]

\* record_apify_run, record_firecrawl_job, record_browser_session, record_llamaparse_job:
\* the first terminal answer is revision 2, a success without a meter is not known.
TerminalRevision(c) ==
  [c.answer EXCEPT !.task = record[LastRev].task,
     !.status = IF @ = "succeeded" /\ c.answer.meter = 0 THEN "unknown" ELSE @]

LookUpRun(r) ==
  LET c == reader[r]
  IN /\ c.at = "lookup"
     /\ IF LastRev = 1 /\ c.answer.status \notin {"running", "none"}
        THEN reader' = [reader EXCEPT ![r].at = "insert", ![r].old = 1,
                                      ![r].next = TerminalRevision(c)]
        ELSE Done(r)
     /\ UNCHANGED <<record, events>> /\ Stores

\* The application reports a later snapshot itself, with the revision it has numbered:
\* one that is behind is ignored, one that skips is an error.
Correct(r, n, meter) ==
  LET new == [task |-> record[LastRev].task, status |-> IF meter = 0 THEN "unknown" ELSE "succeeded",
              meter |-> meter]
  IN /\ reader[r].at = "idle" /\ keeps = "run"
     /\ run.status \notin {"none", "running"}
     /\ reader' = [reader EXCEPT ![r] =
          IF Known /\ n \in LastRev .. LastRev + 1 /\ new # record[LastRev]
          THEN [IdleReader EXCEPT !.at = "insert", !.old = n - 1, !.next = new]
          ELSE [IdleReader EXCEPT !.at = "done"]]
     /\ UNCHANGED <<record, events>> /\ Stores

InsertRecord(r) == /\ reader[r].at = "insert"
                   /\ Insert(r, reader[r].old + 1, "done")
                   /\ UNCHANGED events /\ Stores

ServicesNext ==
  \/ \E r \in Readers :
       \/ \E f \in Facades, starts, within \in BOOLEAN : Call(r, f, starts, within)
       \/ \E t \in ServiceTasks \cup {NoTask} : TaskSwitch(r, t)
       \/ \E attempts \in {1, 2}, meter \in Meters, ok \in BOOLEAN :
            Answers(r, attempts, meter, ok)
       \/ StoreEvent(r) \/ LookUpOnce(r) \/ Bind(r) \/ InsertBinding(r) \/ LookUpRun(r)
       \/ \E n \in 2 .. MaxMeterRev, meter \in Meters : Correct(r, n, meter)
       \/ InsertRecord(r)
  \/ \E status \in {"succeeded", "failed"}, meter \in Meters : RunEnds(status, meter)
  \/ UninstrumentServices

ServicesSpec == ServicesInit /\ [][ServicesNext]_serviceVars

-----------------------------------------------------------------------------
ServicesTypeOK ==
  /\ run.status \in {"none", "running", "succeeded", "failed"} /\ run.meter \in Meters
  /\ DOMAIN record \subseteq 1 .. MaxMeterRev
  /\ \A n \in DOMAIN record : record[n].meter \in Meters
  /\ events \subseteq [call : Readers, task : ServiceTasks]
  /\ active \in BOOLEAN
  /\ \A r \in Readers : reader[r].at \in {"idle", "native", "capture", "bind", "lookup",
                                          "insert", "done"}

Runs == \E n \in DOMAIN record : record[n].status = "submitted"

\* A run is charged to the task that started it, however many other tasks poll it, and
\* whichever task is current when an answer arrives (browser_sessions.py capture:
\* "Restrict task ownership to the context at invocation, never a poller's task").
RunBelongsToItsStarter ==
  Runs => \A n \in DOMAIN record : record[n].task = run.starter

\* The record says who used what once: numbers without gaps, a terminal snapshot after
\* the binding, and never two revisions that say the same.
MeterIsRecordedOnce ==
  /\ DOMAIN record = 1 .. LastRev
  /\ Runs => record[1].status = "submitted" /\ record[1].meter = 0
  /\ \A n \in DOMAIN record : n + 1 \in DOMAIN record => record[n] # record[n + 1]
  /\ ~Runs => LastRev <= 1

\* The revisions are a ledger: what is stored stands, also against an answer that was
\* read before it and is stored after it, and a terminal snapshot is never unsaid.
Snapshot == [task : ServiceTasks, meter : Meters,
             status : {"submitted", "succeeded", "failed", "unknown"}]
RecordLedger == INSTANCE RevisionLedger
                  WITH LedgerIds <- {"record"}, Bodies <- Snapshot, Openings <- Snapshot,
                       Follows <- {p \in Snapshot \X Snapshot :
                                     /\ p[1].task = p[2].task /\ p[1] # p[2]
                                     /\ p[2].status # "submitted"},
                       height <- [i \in {"record"} |-> LastRev],
                       body <- [i \in {"record"} |-> record]
RecordIsALedger == RecordLedger!Spec

\* Events belong to the task of the call, and a handler inside a timed one has none.
EventOfItsCall ==
  \A e \in events : /\ e.task = reader[e.call].task
                    /\ ~reader[e.call].within
                    /\ reader[e.call].answer.status = "succeeded" \/ reader[e.call].facade.failures

\* What a service did is charged once, to the task that asked for it.
ServicesChargeOnce == RunBelongsToItsStarter /\ MeterIsRecordedOnce /\ EventOfItsCall
=============================================================================
