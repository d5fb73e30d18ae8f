-------------------------- MODULE BusinessLedgers --------------------------
(***************************************************************************)
(* The outcome and revenue ledgers of storage/sqlite.py and the calls of   *)
(* tracker.py that append to them, for several processes that share the    *)
(* database file.                                                          *)
(*                                                                         *)
(* A call checks the ledger and inserts in two steps: the lock of          *)
(* SQLiteStorage keeps the threads of one process apart, but the check is  *)
(* a read outside any transaction, so another process may append between.  *)
(* amend_outcome first reads the history in a step of its own.             *)
(***************************************************************************)
EXTENDS Integers, FiniteSets

CONSTANTS Clients,          \* processes that append
          OutcomeIds, RevenueIds,
          OutcomeBodies,    \* what an outcome revision can say: [who, state, cur]
          RevenueBodies,    \* what a revenue revision can say: [who, state, cur]
          MaxRevision       \* bound on the revisions of a record

LedgerRecords == OutcomeIds \cup RevenueIds
BusinessBodies == OutcomeBodies \cup RevenueBodies
Revisions == 1 .. MaxRevision
NoBody == [who |-> "nobody", state |-> "none", cur |-> "none"]
NobodyWrites == "nobody"

\* who stands for all that may not change: task and name, or task, outcome and source.
OutcomeStates == {"pending", "achieved", "missed", "voided"}
RevenueStates == {"pending", "provisional", "recognized", "voided"}

ASSUME BodiesAssumption ==
  /\ \A b \in OutcomeBodies : /\ b.state \in OutcomeStates
                              /\ b.cur = "none"
                              /\ DOMAIN b = {"who", "state", "cur"}
  /\ \A b \in RevenueBodies : /\ b.state \in RevenueStates
                              /\ (b.cur = "none") <=> (b.state \in {"pending", "voided"})
                              /\ DOMAIN b = {"who", "state", "cur"}
ASSUME LedgersAssumption == /\ OutcomeIds \cap RevenueIds = {}
                            /\ MaxRevision \in Nat
                            /\ NobodyWrites \notin Clients

VARIABLES rows,      \* the two tables: a function from <<id, revision>> to a body
          call,      \* [Clients -> what the client is doing]
          writer     \* the process whose transaction holds the write lock

ledgerVars == <<rows, call, writer>>

Idle == [at |-> "idle", id |-> "none", rev |-> 0, body |-> NoBody, base |-> NoBody]

RevisionsOf(i) == {n \in Revisions : <<i, n>> \in DOMAIN rows}

\* The last revision of a record, 0 when it has none.
Height(i) == CHOOSE n \in {0} \cup RevisionsOf(i) : \A m \in RevisionsOf(i) : m <= n

LedgerInit == /\ rows = [k \in {} |-> NoBody]
              /\ call = [c \in Clients |-> Idle]
              /\ writer = NobodyWrites

-----------------------------------------------------------------------------
\* An OutcomeRevision or a RevenueRevision that its own checks let exist.
ValidRevision(n, b) == b.state = "voided" => n # 1

Request(c, i, n, b, base) ==
  call' = [call EXCEPT ![c] = [at |-> "check", id |-> i, rev |-> n,
                               body |-> b, base |-> base]]

Proceed(c, at) == call' = [call EXCEPT ![c].at = at]

\* The call ends with an exception.
Raise(c) == call' = [call EXCEPT ![c] = Idle]

Resting(c) == call[c].at \in {"idle", "stored"}

RecordOutcome(c, i, n, b) ==
  /\ Resting(c)
  /\ i \in OutcomeIds /\ b \in OutcomeBodies /\ ValidRevision(n, b)
  /\ Request(c, i, n, b, NoBody)
  /\ UNCHANGED <<rows, writer>>

RecordRevenue(c, i, n, b) ==
  /\ Resting(c)
  /\ i \in RevenueIds /\ b \in RevenueBodies /\ ValidRevision(n, b)
  /\ Request(c, i, n, b, NoBody)
  /\ UNCHANGED <<rows, writer>>

\* The read of amend_outcome; expected = 0 stands for no expected revision.
AmendOutcome(c, i, expected, b) ==
  LET latest == rows[<<i, Height(i)>>] IN
  /\ Resting(c)
  /\ i \in OutcomeIds /\ b \in OutcomeBodies
  /\ Height(i) \in 1 .. MaxRevision - 1
  /\ latest.state # "voided"
  /\ expected # 0 => expected = Height(i)
  /\ b.who = latest.who
  /\ Request(c, i, Height(i) + 1, b, latest)
  /\ UNCHANGED <<rows, writer>>

-----------------------------------------------------------------------------
OutcomeTransitions ==
  [pending  |-> {"pending", "achieved", "missed", "voided"},
   achieved |-> {"achieved", "missed", "voided"},
   missed   |-> {"missed", "achieved", "voided"},
   voided   |-> {}]

RevenueTransitions ==
  [pending     |-> {"pending", "provisional", "recognized", "voided"},
   provisional |-> {"provisional", "recognized", "voided"},
   recognized  |-> {"recognized", "voided"},
   voided      |-> {}]

OutcomeMayFollow(old, new) == /\ new.who = old.who
                              /\ new.state \in OutcomeTransitions[old.state]

RevenueMayFollow(old, new) ==
  /\ new.who = old.who
  /\ new.state \in RevenueTransitions[old.state]
  /\ (old.cur # "none" /\ new.cur # "none") => new.cur = old.cur

MayFollow(i, old, new) == IF i \in OutcomeIds THEN OutcomeMayFollow(old, new)
                                              ELSE RevenueMayFollow(old, new)

\* The checks of insert_outcome and insert_revenue before their INSERT: a revision
\* that is there is a replay or a conflict, any other must be the next one.
Verdict(r) ==
  IF r.rev \in RevisionsOf(r.id)
  THEN IF rows[<<r.id, r.rev>>] = r.body THEN "stored" ELSE "refused"
  ELSE IF /\ r.rev = Height(r.id) + 1
          /\ Height(r.id) # 0 => MayFollow(r.id, rows[<<r.id, Height(r.id)>>], r.body)
       THEN "insert" ELSE "refused"

CheckInsert(c) == /\ call[c].at = "check"
                  /\ IF Verdict(call[c]) = "refused" THEN Raise(c)
                                                     ELSE Proceed(c, Verdict(call[c]))
                  /\ UNCHANGED <<rows, writer>>

\* Mutant: INSERT OR REPLACE.
InsertOrReplace(c) ==
  LET r == call[c] IN
  /\ r.at = "insert"
  /\ writer \in {NobodyWrites, c}
  /\ rows' = [k \in DOMAIN rows \cup {<<r.id, r.rev>>} |->
                IF k = <<r.id, r.rev>> THEN r.body ELSE rows[k]]
  /\ Proceed(c, "stored")
  /\ writer' = NobodyWrites

\* Mutant: the number is given by the INSERT.
InsertAtTheEnd(c) ==
  LET r == call[c]
      n == Height(r.id) + 1 IN
  /\ r.at = "insert" /\ n \in Revisions
  /\ writer \in {NobodyWrites, c}
  /\ rows' = [k \in DOMAIN rows \cup {<<r.id, n>>} |->
                IF k = <<r.id, n>> THEN r.body ELSE rows[k]]
  /\ call' = [call EXCEPT ![c].at = "stored", ![c].rev = n]
  /\ writer' = NobodyWrites

\* The INSERT and the COMMIT.
InsertRevision(c) ==
  LET r == call[c] IN
  /\ r.at = "insert"
  /\ writer \in {NobodyWrites, c}
  /\ r.rev \notin RevisionsOf(r.id)
  /\ rows' = [k \in DOMAIN rows \cup {<<r.id, r.rev>>} |->
                IF k = <<r.id, r.rev>> THEN r.body ELSE rows[k]]
  /\ Proceed(c, "stored")
  /\ writer' = NobodyWrites

\* The primary key is taken: IntegrityError.  The transaction that Python opened
\* for the INSERT stays open, and with it the write lock of the database.
InsertConflicts(c) ==
  LET r == call[c] IN
  /\ r.at = "insert"
  /\ writer \in {NobodyWrites, c}
  /\ r.rev \in RevisionsOf(r.id)
  /\ Raise(c)
  /\ writer' = c
  /\ UNCHANGED rows

\* Another process holds the write lock for longer than SQLite waits.
InsertLockedOut(c) ==
  /\ call[c].at = "insert"
  /\ writer \notin {NobodyWrites, c}
  /\ Raise(c)
  /\ UNCHANGED <<rows, writer>>

\* A process dies; the database drops its transaction and the process starts again.
ClientCrashes(c) ==
  /\ Raise(c)
  /\ writer' = IF writer = c THEN NobodyWrites ELSE writer
  /\ UNCHANGED rows

LedgerNext ==
  \E c \in Clients :
    \/ \E i \in LedgerRecords, n \in Revisions, b \in BusinessBodies :
         RecordOutcome(c, i, n, b) \/ RecordRevenue(c, i, n, b)
    \/ \E i \in OutcomeIds, n \in 0 .. MaxRevision, b \in OutcomeBodies :
         AmendOutcome(c, i, n, b)
    \/ CheckInsert(c) \/ InsertRevision(c)
    \/ InsertConflicts(c) \/ InsertLockedOut(c) \/ ClientCrashes(c)

LedgerSpec == LedgerInit /\ [][LedgerNext]_ledgerVars

-----------------------------------------------------------------------------
LedgerTypeOK ==
  /\ DOMAIN rows \subseteq LedgerRecords \X Revisions
  /\ \A k \in DOMAIN rows : rows[k] \in BusinessBodies
  /\ call \in [Clients -> [at : {"idle", "check", "insert", "stored"},
                           id : LedgerRecords \cup {"none"}, rev : 0 .. MaxRevision,
                           body : BusinessBodies \cup {NoBody},
                           base : BusinessBodies \cup {NoBody}]]
  /\ writer \in Clients \cup {NobodyWrites}

\* Whatever the processes do at the same time, the revisions of a record are numbered
\* 1, 2, ... (insert_outcome, insert_revenue: check and INSERT are separate).
RevisionsAreContiguous ==
  \A i \in LedgerRecords : RevisionsOf(i) = 1 .. Height(i)

\* A call that returned normally has its revision in the ledger, with its content,
\* also when it was a replay of an earlier call.
StoredAnswerIsTrue ==
  \A c \in Clients : call[c].at = "stored" =>
    /\ call[c].rev \in RevisionsOf(call[c].id)
    /\ rows[<<call[c].id, call[c].rev>>] = call[c].body

\* amend_outcome never overwrites an amendment it has not seen: the revision before
\* the one it stored is the one it read, although others may have written since.
AmendmentFollowsWhatWasRead ==
  \A c \in Clients :
    call[c].at \in {"insert", "stored"} /\ call[c].base # NoBody =>
      /\ call[c].rev - 1 \in RevisionsOf(call[c].id)
      /\ rows[<<call[c].id, call[c].rev - 1>>] = call[c].base

\* The currency of a revenue is one and the same in all its revisions that have an
\* amount, although insert_revenue compares neighbours only.
CurrencyNeverChanges ==
  \A i \in RevenueIds : \A n, m \in RevisionsOf(i) :
    rows[<<i, n>>].cur = "none" \/ rows[<<i, m>>].cur = "none"
      \/ rows[<<i, n>>].cur = rows[<<i, m>>].cur

\* The ledgers tell the truth to every process that reads or writes them: no gaps, no
\* answer that is not so, no amendment of the unseen, one currency.
LedgersAreTrue ==
  /\ RevisionsAreContiguous /\ StoredAnswerIsTrue
  /\ AmendmentFollowsWhatWasRead /\ CurrencyNeverChanges

\* Both tables are revision ledgers.
Contents(Ids) == [i \in Ids |-> [n \in 1 .. Height(i) |-> rows[<<i, n>>]]]
Heights(Ids) == [i \in Ids |-> Height(i)]

Outcomes == INSTANCE RevisionLedger
              WITH LedgerIds <- OutcomeIds, Bodies <- OutcomeBodies,
                   Openings <- {b \in OutcomeBodies : b.state # "voided"},
                   Follows <- {p \in OutcomeBodies \X OutcomeBodies :
                                 OutcomeMayFollow(p[1], p[2])},
                   height <- Heights(OutcomeIds), body <- Contents(OutcomeIds)

Revenues == INSTANCE RevisionLedger
              WITH LedgerIds <- RevenueIds, Bodies <- RevenueBodies,
                   Openings <- {b \in RevenueBodies : b.state # "voided"},
                   Follows <- {p \in RevenueBodies \X RevenueBodies :
                                 RevenueMayFollow(p[1], p[2])},
                   height <- Heights(RevenueIds), body <- Contents(RevenueIds)

OutcomesAreALedger == Outcomes!Spec
RevenuesAreALedger == Revenues!Spec

\* Both tables are append-only ledgers, though check and INSERT are separate.
RevisionsAreLedgers == OutcomesAreALedger /\ RevenuesAreALedger
=============================================================================
