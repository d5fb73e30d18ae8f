--------------------------- MODULE LedgersProofs ---------------------------
(***************************************************************************)
(* Theorems about the ledgers the SDK keeps and what is added up from      *)
(* them: the outcomes and revenues (BusinessLedgers), for any sets of      *)
(* processes, records and bodies and any number of revisions; the          *)
(* revisions of a provider job (ProviderJobs), for any set of pollers and  *)
(* measurements; and the totals of a task (TaskRollup).                    *)
(***************************************************************************)
EXTENDS BusinessLedgers, TaskRollup, FiniteSetTheorems, TLAPS

(***************************************************************************)
(* Outcomes and revenues: the ledgers stay ledgers whatever processes      *)
(* check and insert at the same time.                                      *)
(***************************************************************************)

\* What a call asks for: a revision of one of the two kinds.
Asked(r) ==
  /\ r.rev \in Revisions /\ ValidRevision(r.rev, r.body)
  /\ \/ r.id \in OutcomeIds /\ r.body \in OutcomeBodies
     \/ r.id \in RevenueIds /\ r.body \in RevenueBodies

RowsOK ==
  /\ rows = [k \in DOMAIN rows |-> rows[k]]
  /\ DOMAIN rows \subseteq LedgerRecords \X Revisions
  /\ \A i \in OutcomeIds : \A n \in RevisionsOf(i) :
       rows[<<i, n>>] \in OutcomeBodies
  /\ \A i \in RevenueIds : \A n \in RevisionsOf(i) :
       rows[<<i, n>>] \in RevenueBodies

\* The revisions of every record are numbered from one without a gap.
NoGaps ==
  \A i \in LedgerRecords : \E h \in 0 .. MaxRevision : RevisionsOf(i) = 1 .. h

\* What a call was told still stands: its revision is taken by now, or it is the next one
\* and may follow the last; it is in the ledger; what was read is right before it.
CallOK(r) ==
  /\ r.at # "idle" => Asked(r)
  /\ r.at = "insert" /\ r.rev \notin RevisionsOf(r.id) =>
       /\ r.rev = Height(r.id) + 1
       /\ Height(r.id) # 0 => MayFollow(r.id, rows[<<r.id, Height(r.id)>>], r.body)
  /\ r.at = "stored" =>
       r.rev \in RevisionsOf(r.id) /\ rows[<<r.id, r.rev>>] = r.body
  /\ r.at # "idle" /\ r.base # NoBody =>
       r.rev - 1 \in RevisionsOf(r.id) /\ rows[<<r.id, r.rev - 1>>] = r.base

CallsOK == \A c \in Clients : CallOK(call[c])

\* A revenue that is pending was never anything else.
PendingComesFirst ==
  \A i \in RevenueIds : \A n, m \in RevisionsOf(i) :
    m <= n /\ rows[<<i, n>>].state = "pending" => rows[<<i, m>>].state = "pending"

\* A voided revision is the last one.
VoidedComesLast ==
  \A i \in RevenueIds : \A n, m \in RevisionsOf(i) :
    m < n => rows[<<i, m>>].state # "voided"

LedgerInv ==
  /\ LedgerTypeOK /\ RowsOK /\ NoGaps /\ CallsOK
  /\ PendingComesFirst /\ VoidedComesLast /\ CurrencyNeverChanges
-----------------------------------------------------------------------------
(* The height of a ledger *)

LEMMA HeightOf ==
  ASSUME NEW i, NEW h \in Nat, RevisionsOf(i) = 1 .. h
  PROVE  Height(i) = h
<1>1. h \in {0} \cup RevisionsOf(i) /\ \A m \in RevisionsOf(i) : m <= h
  OBVIOUS
<1>2. ASSUME NEW x \in {0} \cup RevisionsOf(i), \A m \in RevisionsOf(i) : m <= x
      PROVE  x = h
  BY <1>2
<1> QED BY <1>1, <1>2 DEF Height

LEMMA HeightType ==
  ASSUME NoGaps, NEW i \in LedgerRecords
  PROVE  /\ Height(i) \in 0 .. MaxRevision
         /\ RevisionsOf(i) = 1 .. Height(i)
<1>1. PICK h \in 0 .. MaxRevision : RevisionsOf(i) = 1 .. h
  BY DEF NoGaps
<1>2. h \in Nat
  BY <1>1, LedgersAssumption
<1>3. Height(i) = h
  BY <1>1, <1>2, HeightOf
<1> QED BY <1>1, <1>3

LEMMA SameRowsSameLedger ==
  ASSUME rows' = rows
  PROVE  \A i : RevisionsOf(i)' = RevisionsOf(i) /\ Height(i)' = Height(i)
<1>1. \A i : RevisionsOf(i)' = RevisionsOf(i)
  BY DEF RevisionsOf
<1>2. \A i : Height(i)' = Height(i)
  BY <1>1 DEF Height
<1> QED BY <1>1, <1>2

\* What an INSERT does to the rows.
LEMMA InsertedRow ==
  ASSUME LedgerInv, NEW c \in Clients, InsertRevision(c)
  PROVE  LET r == call[c] IN
         /\ r.id \in LedgerRecords /\ r.rev \in Revisions /\ Asked(r)
         /\ r.rev = Height(r.id) + 1
         /\ DOMAIN rows' = DOMAIN rows \cup {<<r.id, r.rev>>}
         /\ rows'[<<r.id, r.rev>>] = r.body
         /\ \A k \in DOMAIN rows : k # <<r.id, r.rev>> /\ rows'[k] = rows[k]
         /\ rows' = [k \in DOMAIN rows' |-> rows'[k]]
         /\ \A i : i = r.id => RevisionsOf(i)' = 1 .. r.rev /\ Height(i)' = r.rev
         /\ \A i : i # r.id => RevisionsOf(i)' = RevisionsOf(i) /\ Height(i)' = Height(i)
<1> DEFINE r == call[c]
           k0 == <<r.id, r.rev>>
<1>1. r.at = "insert" /\ Asked(r) /\ r.rev \notin RevisionsOf(r.id)
  BY DEF LedgerInv, CallsOK, CallOK, InsertRevision
<1>2. r.id \in LedgerRecords /\ r.rev \in Revisions
  BY <1>1 DEF Asked, LedgerRecords
<1>3. k0 \notin DOMAIN rows
  BY <1>1, <1>2 DEF RevisionsOf
<1>4. r.rev = Height(r.id) + 1
  BY <1>1 DEF LedgerInv, CallsOK, CallOK
<1>5. rows' = [k \in DOMAIN rows \cup {k0} |-> IF k = k0 THEN r.body ELSE rows[k]]
  BY DEF InsertRevision
<1> HIDE DEF r
<1>6. /\ DOMAIN rows' = DOMAIN rows \cup {k0}
      /\ rows'[k0] = r.body
      /\ \A k \in DOMAIN rows : k # k0 /\ rows'[k] = rows[k]
  BY <1>3, <1>5, Zenon
<1>7. rows' = [k \in DOMAIN rows' |-> rows'[k]]
  BY <1>5, <1>6, Zenon
<1>8. Height(r.id) \in 0 .. MaxRevision /\ RevisionsOf(r.id) = 1 .. Height(r.id)
  BY <1>2, HeightType DEF LedgerInv
<1>9. ASSUME NEW i, i = r.id
      PROVE  RevisionsOf(i)' = 1 .. r.rev /\ Height(i)' = r.rev
  <2>1. RevisionsOf(i)' = RevisionsOf(i) \cup {r.rev}
    BY <1>2, <1>6, <1>9 DEF RevisionsOf
  <2>2. r.rev \in Nat /\ RevisionsOf(i)' = 1 .. r.rev
    BY <1>4, <1>8, <1>9, <2>1, LedgersAssumption
  <2>3. r.rev \in {0} \cup RevisionsOf(i)' /\ \A m \in RevisionsOf(i)' : m <= r.rev
    BY <1>4, <1>8, <2>2
  <2>4. ASSUME NEW x \in {0} \cup RevisionsOf(i)', \A m \in RevisionsOf(i)' : m <= x
        PROVE  x = r.rev
    BY <1>4, <1>8, <2>2, <2>4
  <2> QED BY <2>2, <2>3, <2>4 DEF Height
<1>10. ASSUME NEW i, i # r.id
       PROVE  RevisionsOf(i)' = RevisionsOf(i) /\ Height(i)' = Height(i)
  <2>1. RevisionsOf(i)' = RevisionsOf(i)
    BY <1>6, <1>10 DEF RevisionsOf
  <2> QED BY <2>1 DEF Height
<1> QED BY <1>1, <1>2, <1>4, <1>6, <1>7, <1>9, <1>10 DEF r
-----------------------------------------------------------------------------
(* The invariant *)

LEMMA LedgerInitInv == LedgerInit => LedgerInv
<1> SUFFICES ASSUME LedgerInit PROVE LedgerInv
  OBVIOUS
<1>1. DOMAIN rows = {} /\ \A i : RevisionsOf(i) = {}
  BY DEF LedgerInit, RevisionsOf
<1>2. LedgerTypeOK
  BY <1>1, LedgersAssumption DEF LedgerInit, LedgerTypeOK, Idle
<1>3. RowsOK /\ PendingComesFirst /\ VoidedComesLast /\ CurrencyNeverChanges
  BY <1>1 DEF LedgerInit, RowsOK, PendingComesFirst, VoidedComesLast, CurrencyNeverChanges
<1>4. NoGaps
  <2>1. 0 \in 0 .. MaxRevision /\ 1 .. 0 = {}
    BY LedgersAssumption
  <2> QED BY <1>1, <2>1 DEF NoGaps
<1>5. CallsOK
  BY DEF LedgerInit, CallsOK, CallOK, Idle
<1> QED BY <1>2, <1>3, <1>4, <1>5 DEF LedgerInv

LEMMA LedgerKept ==
  ASSUME LedgerInv, rows' = rows
  PROVE  RowsOK' /\ NoGaps' /\ PendingComesFirst' /\ VoidedComesLast' /\ CurrencyNeverChanges'
<1>1. \A i : RevisionsOf(i)' = RevisionsOf(i)
  BY SameRowsSameLedger
<1> QED BY <1>1 DEF LedgerInv, RowsOK, NoGaps, PendingComesFirst, VoidedComesLast,
                   CurrencyNeverChanges

\* A step that leaves the rows alone keeps what was true of the calls it leaves alone.
LEMMA CallKept ==
  ASSUME LedgerInv, rows' = rows, NEW d \in Clients, call'[d] = call[d]
  PROVE  CallOK(call[d])'
<1>1. \A i : RevisionsOf(i)' = RevisionsOf(i) /\ Height(i)' = Height(i)
  BY SameRowsSameLedger
<1>2. CallOK(call[d])
  BY DEF LedgerInv, CallsOK
<1> QED BY <1>1, <1>2 DEF CallOK, Asked, ValidRevision

LEMMA IdleOK ==
  ASSUME NEW d \in Clients, call'[d] = Idle
  PROVE  CallOK(call[d])'
BY DEF CallOK, Idle

LEMMA RaiseKeeps ==
  ASSUME LedgerInv, NEW c \in Clients, Raise(c), rows' = rows,
         writer' \in Clients \cup {NobodyWrites}
  PROVE  LedgerInv'
<1>1. /\ call'[c] = Idle
      /\ \A d \in Clients \ {c} : call'[d] = call[d]
  BY DEF Raise, LedgerInv, LedgerTypeOK
<1>2. LedgerTypeOK'
  BY LedgersAssumption DEF LedgerInv, LedgerTypeOK, Raise, Idle
<1>3. ASSUME NEW d \in Clients PROVE CallOK(call[d])'
  BY <1>1, CallKept, IdleOK
<1>4. CallsOK'
  BY <1>3 DEF CallsOK
<1> QED BY <1>2, <1>4, LedgerKept DEF LedgerInv

\* A call begins with a revision and what was read before it.
LEMMA RequestKeeps ==
  ASSUME LedgerInv, NEW c \in Clients, NEW i \in LedgerRecords, NEW n \in Revisions,
         NEW b \in BusinessBodies, NEW base \in BusinessBodies \cup {NoBody},
         Request(c, i, n, b, base), UNCHANGED <<rows, writer>>,
         ValidRevision(n, b),
         (i \in OutcomeIds /\ b \in OutcomeBodies) \/ (i \in RevenueIds /\ b \in RevenueBodies),
         base # NoBody => n - 1 \in RevisionsOf(i) /\ rows[<<i, n - 1>>] = base
  PROVE  LedgerInv'
<1> DEFINE r == [at |-> "check", id |-> i, rev |-> n, body |-> b, base |-> base]
<1>1. /\ call'[c] = r
      /\ \A d \in Clients \ {c} : call'[d] = call[d]
  BY DEF Request, LedgerInv, LedgerTypeOK
<1>2. n \in 0 .. MaxRevision
  BY LedgersAssumption DEF Revisions
<1>3. LedgerTypeOK'
  BY <1>2 DEF LedgerInv, LedgerTypeOK, Request
<1>4. RevisionsOf(i)' = RevisionsOf(i)
  BY SameRowsSameLedger
<1>5. CallOK(call[c])'
  BY <1>1, <1>4 DEF CallOK, Asked, ValidRevision
<1>6. ASSUME NEW d \in Clients PROVE CallOK(call[d])'
  BY <1>1, <1>5, CallKept
<1>7. CallsOK'
  BY <1>6 DEF CallsOK
<1> QED BY <1>3, <1>7, LedgerKept DEF LedgerInv

LEMMA RecordKeeps ==
  ASSUME LedgerInv, NEW c \in Clients, NEW i \in LedgerRecords, NEW n \in Revisions,
         NEW b \in BusinessBodies, RecordOutcome(c, i, n, b) \/ RecordRevenue(c, i, n, b)
  PROVE  LedgerInv'
BY RequestKeeps DEF RecordOutcome, RecordRevenue

LEMMA AmendKeeps ==
  ASSUME LedgerInv, NEW c \in Clients, NEW i \in OutcomeIds, NEW n \in 0 .. MaxRevision,
         NEW b \in OutcomeBodies, AmendOutcome(c, i, n, b)
  PROVE  LedgerInv'
<1> DEFINE h == Height(i)
           latest == rows[<<i, h>>]
<1>1. i \in LedgerRecords /\ b \in BusinessBodies
  BY DEF LedgerRecords, BusinessBodies
<1>2. h \in 1 .. MaxRevision - 1 /\ RevisionsOf(i) = 1 .. h
  BY <1>1, HeightType DEF LedgerInv, AmendOutcome
<1>3. latest \in BusinessBodies
  BY <1>1, <1>2 DEF LedgerInv, RowsOK, BusinessBodies
<1>4. h + 1 \in Revisions /\ h + 1 # 1 /\ (h + 1) - 1 \in RevisionsOf(i) /\ (h + 1) - 1 = h
  BY <1>2, LedgersAssumption DEF Revisions
<1>5. Request(c, i, h + 1, b, latest) /\ UNCHANGED <<rows, writer>>
  BY DEF AmendOutcome
<1>6. ValidRevision(h + 1, b)
  BY <1>4 DEF ValidRevision
<1> HIDE DEF h
<1> QED BY <1>1, <1>3, <1>4, <1>5, <1>6, RequestKeeps

LEMMA CheckKeeps ==
  ASSUME LedgerInv, NEW c \in Clients, CheckInsert(c)
  PROVE  LedgerInv'
<1> DEFINE r == call[c]
<1>1. CASE Verdict(r) = "refused"
  BY <1>1, RaiseKeeps DEF CheckInsert, LedgerInv, LedgerTypeOK
<1>2. CASE Verdict(r) # "refused"
  <2>1. /\ call' = [call EXCEPT ![c].at = Verdict(r)]
        /\ r.at = "check" /\ UNCHANGED <<rows, writer>>
    BY <1>2 DEF CheckInsert, Proceed
  <2>2. Verdict(r) \in {"stored", "insert"}
    BY <1>2 DEF Verdict
  <2>3. LedgerTypeOK'
    BY <2>1, <2>2 DEF LedgerInv, LedgerTypeOK
  <2>4. /\ call'[c] = [r EXCEPT !.at = Verdict(r)]
        /\ \A d \in Clients \ {c} : call'[d] = call[d]
    BY <2>1 DEF LedgerInv, LedgerTypeOK
  <2>5. /\ call'[c].at = Verdict(r) /\ call'[c].id = r.id /\ call'[c].rev = r.rev
        /\ call'[c].body = r.body /\ call'[c].base = r.base
    BY <2>4 DEF LedgerInv, LedgerTypeOK
  <2>6. \A i : RevisionsOf(i)' = RevisionsOf(i) /\ Height(i)' = Height(i)
    BY <2>1, SameRowsSameLedger
  <2>7. CallOK(r)
    BY DEF LedgerInv, CallsOK
  <2>8. CASE Verdict(r) = "stored"
    <3>1. r.rev \in RevisionsOf(r.id) /\ rows[<<r.id, r.rev>>] = r.body
      BY <2>8 DEF Verdict
    <3>2. CallOK(call[c])'
      BY <3>1, <2>1, <2>5, <2>6, <2>7, <2>8 DEF CallOK, Asked, ValidRevision
    <3>3. ASSUME NEW d \in Clients PROVE CallOK(call[d])'
      BY <3>2, <2>1, <2>4, CallKept
    <3> QED BY <3>3, <2>1, <2>3, LedgerKept DEF LedgerInv, CallsOK
  <2>9. CASE Verdict(r) = "insert"
    <3>1. /\ r.rev = Height(r.id) + 1
          /\ Height(r.id) # 0 => MayFollow(r.id, rows[<<r.id, Height(r.id)>>], r.body)
      BY <2>9 DEF Verdict
    <3>2. CallOK(call[c])'
      BY <3>1, <2>1, <2>5, <2>6, <2>7, <2>9 DEF CallOK, Asked, ValidRevision, MayFollow
    <3>3. ASSUME NEW d \in Clients PROVE CallOK(call[d])'
      BY <3>2, <2>1, <2>4, CallKept
    <3> QED BY <3>3, <2>1, <2>3, LedgerKept DEF LedgerInv, CallsOK
  <2> QED BY <2>2, <2>8, <2>9
<1> QED BY <1>1, <1>2

\* The rows an INSERT makes are those of a ledger.
LEMMA InsertKeepsRows ==
  ASSUME LedgerInv, NEW c \in Clients, InsertRevision(c)
  PROVE  RowsOK' /\ NoGaps' /\ DOMAIN rows' \subseteq LedgerRecords \X Revisions
<1> DEFINE r == call[c]
           k0 == <<r.id, r.rev>>
<1>1. /\ r.id \in LedgerRecords /\ r.rev \in Revisions /\ Asked(r)
      /\ DOMAIN rows' = DOMAIN rows \cup {k0}
      /\ rows'[k0] = r.body
      /\ \A k \in DOMAIN rows : k # k0 /\ rows'[k] = rows[k]
      /\ rows' = [k \in DOMAIN rows' |-> rows'[k]]
      /\ \A i : i = r.id => RevisionsOf(i)' = 1 .. r.rev /\ Height(i)' = r.rev
      /\ \A i : i # r.id => RevisionsOf(i)' = RevisionsOf(i) /\ Height(i)' = Height(i)
  BY InsertedRow
<1> HIDE DEF r
<1>2. DOMAIN rows' \subseteq LedgerRecords \X Revisions
  BY <1>1 DEF LedgerInv, RowsOK
<1>3. ASSUME NEW i \in LedgerRecords, NEW n \in RevisionsOf(i)'
      PROVE  \/ i = r.id /\ rows'[<<i, n>>] = r.body
             \/ n \in RevisionsOf(i) /\ rows'[<<i, n>>] = rows[<<i, n>>]
  <2>1. n \in Revisions /\ <<i, n>> \in DOMAIN rows'
    BY <1>3 DEF RevisionsOf
  <2>2. CASE <<i, n>> = k0
    BY <2>2, <1>1
  <2>3. CASE <<i, n>> \in DOMAIN rows
    BY <2>1, <2>3, <1>1 DEF RevisionsOf
  <2> QED BY <2>1, <2>2, <2>3, <1>1
<1>4. \A i \in OutcomeIds : \A n \in RevisionsOf(i)' : rows'[<<i, n>>] \in OutcomeBodies
  BY <1>1, <1>3, LedgersAssumption DEF Asked, LedgerInv, RowsOK, LedgerRecords
<1>5. \A i \in RevenueIds : \A n \in RevisionsOf(i)' : rows'[<<i, n>>] \in RevenueBodies
  BY <1>1, <1>3, LedgersAssumption DEF Asked, LedgerInv, RowsOK, LedgerRecords
<1>6. ASSUME NEW i \in LedgerRecords
      PROVE  \E h \in 0 .. MaxRevision : RevisionsOf(i)' = 1 .. h
  <2>1. CASE i = r.id
    <3>1. r.rev \in 0 .. MaxRevision
      BY <1>1, LedgersAssumption DEF Revisions
    <3> QED BY <2>1, <3>1, <1>1
  <2>2. CASE i # r.id
    BY <2>2, <1>1 DEF LedgerInv, NoGaps
  <2> QED BY <2>1, <2>2
<1> QED BY <1>1, <1>2, <1>4, <1>5, <1>6 DEF RowsOK, NoGaps

\* An INSERT leaves true what the calls were told.
LEMMA InsertKeepsCalls ==
  ASSUME LedgerInv, NEW c \in Clients, InsertRevision(c)
  PROVE  CallsOK'
<1> DEFINE r == call[c]
           k0 == <<r.id, r.rev>>
<1>1. /\ r.id \in LedgerRecords /\ r.rev \in Revisions /\ Asked(r)
      /\ r.rev = Height(r.id) + 1
      /\ DOMAIN rows' = DOMAIN rows \cup {k0}
      /\ rows'[k0] = r.body
      /\ \A k \in DOMAIN rows : k # k0 /\ rows'[k] = rows[k]
      /\ \A i : i = r.id => RevisionsOf(i)' = 1 .. r.rev /\ Height(i)' = r.rev
      /\ \A i : i # r.id => RevisionsOf(i)' = RevisionsOf(i) /\ Height(i)' = Height(i)
  BY InsertedRow
<1>2. RevisionsOf(r.id) = 1 .. Height(r.id) /\ Height(r.id) \in Nat
  BY <1>1, HeightType, LedgersAssumption DEF LedgerInv
<1>3. /\ call'[c] = [r EXCEPT !.at = "stored"]
      /\ \A d \in Clients \ {c} : call'[d] = call[d]
  BY DEF InsertRevision, Proceed, LedgerInv, LedgerTypeOK
<1>4. /\ call'[c].at = "stored" /\ call'[c].id = r.id /\ call'[c].rev = r.rev
      /\ call'[c].body = r.body /\ call'[c].base = r.base
  BY <1>3 DEF LedgerInv, LedgerTypeOK
<1>5. r.at = "insert"
  BY DEF InsertRevision
<1>6. \A d \in Clients : CallOK(call[d])
  BY DEF LedgerInv, CallsOK
<1> HIDE DEF r
<1>7. \A i, n : n \in RevisionsOf(i) =>
        /\ n \in RevisionsOf(i)'
        /\ rows'[<<i, n>>] = rows[<<i, n>>]
  BY <1>1 DEF RevisionsOf
<1>8. CallOK(call[c])'
  <2>1. CallOK(r)
    BY <1>6 DEF r
  <2>2. (call[c].rev \in RevisionsOf(call[c].id))'
    BY <1>1, <1>2, <1>4
  <2>3. Asked(call[c])'
    BY <1>1, <1>4 DEF Asked, ValidRevision
  <2>4. r.base # NoBody => r.rev - 1 \in RevisionsOf(r.id) /\ rows[<<r.id, r.rev - 1>>] = r.base
    BY <1>5, <2>1 DEF CallOK
  <2>5. (call[c].base # NoBody =>
          call[c].rev - 1 \in RevisionsOf(call[c].id)
            /\ rows[<<call[c].id, call[c].rev - 1>>] = call[c].base)'
    BY <1>4, <1>7, <2>4
  <2> QED BY <1>1, <1>4, <2>2, <2>3, <2>5 DEF CallOK
<1>9. ASSUME NEW d \in Clients, d # c
      PROVE  CallOK(call[d])'
  <2>1. call'[d] = call[d] /\ CallOK(call[d])
    BY <1>3, <1>6, <1>9
  <2>2. CASE call[d].at # "insert" \/ call[d].rev \in RevisionsOf(call[d].id)
    BY <2>1, <2>2, <1>7 DEF CallOK, Asked, ValidRevision
  <2>3. CASE call[d].at = "insert" /\ call[d].rev \notin RevisionsOf(call[d].id)
    <3>1. CASE call[d].id # r.id
      <4>1. call[d].id \in LedgerRecords
        BY <2>1, <2>3 DEF CallOK, Asked, LedgerRecords
      <4>2. Height(call[d].id) # 0 => Height(call[d].id) \in RevisionsOf(call[d].id)
        BY <4>1, HeightType, LedgersAssumption DEF LedgerInv
      <4> QED BY <2>1, <2>3, <3>1, <4>2, <1>1, <1>7 DEF CallOK, Asked, ValidRevision, MayFollow
    <3>2. CASE call[d].id = r.id
      <4>1. call[d].rev = r.rev
        BY <2>1, <2>3, <3>2, <1>1 DEF CallOK
      <4>2. call[d].rev \in RevisionsOf(call[d].id)'
        BY <1>1, <1>2, <2>1, <3>2, <4>1
      <4> QED BY <2>1, <2>3, <4>2, <1>7 DEF CallOK, Asked, ValidRevision
    <3> QED BY <3>1, <3>2
  <2> QED BY <2>2, <2>3
<1> QED BY <1>8, <1>9 DEF CallsOK

\* What follows the last revision of a revenue follows all of them.
LEMMA InsertKeepsHistory ==
  ASSUME LedgerInv, NEW c \in Clients, InsertRevision(c)
  PROVE  PendingComesFirst' /\ VoidedComesLast' /\ CurrencyNeverChanges'
<1> DEFINE r == call[c]
           h == Height(r.id)
<1>1. /\ r.id \in LedgerRecords /\ r.rev \in Revisions /\ Asked(r)
      /\ r.rev = h + 1
      /\ DOMAIN rows' = DOMAIN rows \cup {<<r.id, r.rev>>}
      /\ rows'[<<r.id, r.rev>>] = r.body
      /\ \A k \in DOMAIN rows : k # <<r.id, r.rev>> /\ rows'[k] = rows[k]
      /\ \A i : i = r.id => RevisionsOf(i)' = 1 .. r.rev
      /\ \A i : i # r.id => RevisionsOf(i)' = RevisionsOf(i)
  BY InsertedRow
<1>2. RevisionsOf(r.id) = 1 .. h /\ h \in Nat
  BY <1>1, HeightType, LedgersAssumption DEF LedgerInv
<1>3. h # 0 => MayFollow(r.id, rows[<<r.id, h>>], r.body)
  <2>1. r.at = "insert" /\ r.rev \notin RevisionsOf(r.id) /\ CallOK(r)
    BY <1>1, <1>2 DEF InsertRevision, LedgerInv, CallsOK
  <2> QED BY <2>1 DEF CallOK
<1> HIDE DEF r, h
<1>4. \A i, n : n \in RevisionsOf(i) => rows'[<<i, n>>] = rows[<<i, n>>]
  BY <1>1 DEF RevisionsOf
<1> DEFINE old(n) == rows[<<r.id, n>>]
<1>5. ASSUME r.id \in RevenueIds
      PROVE  /\ \A n \in 1 .. h : rows'[<<r.id, n>>] = old(n) /\ old(n) \in RevenueBodies
             /\ h # 0 => RevenueMayFollow(old(h), r.body)
             /\ r.body \in RevenueBodies
  <2>1. r.id \notin OutcomeIds
    BY <1>5, LedgersAssumption
  <2> QED BY <1>1, <1>2, <1>3, <1>4, <1>5, <2>1 DEF MayFollow, Asked, LedgerInv, RowsOK
<1>6. ASSUME r.id \in RevenueIds
      PROVE  /\ \A n, m \in 1 .. h : m <= n /\ old(n).state = "pending"
                                       => old(m).state = "pending"
             /\ \A n, m \in 1 .. h : m < n => old(m).state # "voided"
             /\ \A n, m \in 1 .. h : old(n).cur = "none" \/ old(m).cur = "none"
                                       \/ old(n).cur = old(m).cur
  BY <1>2, <1>6 DEF LedgerInv, PendingComesFirst, VoidedComesLast, CurrencyNeverChanges
<1>7. ASSUME r.id \in RevenueIds, h # 0
      PROVE  /\ r.body.state = "pending" => old(h).state = "pending"
             /\ old(h).state # "voided"
             /\ r.body.cur # "none" /\ old(h).cur # "none" => r.body.cur = old(h).cur
  <2>1. h \in 1 .. h
    BY <1>2, <1>7
  <2>2. old(h).state \in RevenueStates /\ r.body.state \in RevenueTransitions[old(h).state]
    BY <1>5, <1>7, <2>1, BodiesAssumption DEF RevenueMayFollow
  <2>3. /\ r.body.state = "pending" => old(h).state = "pending"
        /\ old(h).state # "voided"
    BY <2>2 DEF RevenueTransitions, RevenueStates
  <2> QED BY <2>3, <1>5, <1>7 DEF RevenueMayFollow
<1>8. ASSUME r.id \in RevenueIds, NEW m \in 1 .. h
      PROVE  /\ r.body.state = "pending" => old(m).state = "pending"
             /\ old(m).state # "voided"
             /\ r.body.cur # "none" /\ old(m).cur # "none" => r.body.cur = old(m).cur
  <2>0. h # 0 /\ h \in 1 .. h /\ m <= h /\ (m < h \/ m = h)
    BY <1>2, <1>8
  <2>1. r.body.state = "pending" => old(m).state = "pending"
    BY <1>6, <1>7, <1>8, <2>0
  <2>2. old(m).state # "voided"
    BY <1>6, <1>7, <1>8, <2>0
  <2>3. ASSUME old(m).cur # "none", old(h).cur = "none" PROVE FALSE
    <3>1. old(h).state \in {"pending", "voided"}
      BY <1>5, <1>8, <2>0, <2>3, BodiesAssumption
    <3>2. old(m).state = "pending"
      BY <1>6, <1>7, <1>8, <2>0, <3>1
    <3> QED BY <1>5, <1>8, <2>3, <3>2, BodiesAssumption
  <2> QED BY <1>6, <1>7, <1>8, <2>0, <2>1, <2>2, <2>3
<1> DEFINE new(n) == rows'[<<r.id, n>>]
<1>9. ASSUME r.id \in RevenueIds, NEW n \in 1 .. r.rev
      PROVE  \/ n = r.rev /\ new(n) = r.body
             \/ n \in 1 .. h /\ n < r.rev /\ new(n) = old(n)
  <2>1. n = h + 1 \/ (n \in 1 .. h /\ n < r.rev)
    BY <1>1, <1>2, <1>9
  <2> QED BY <1>1, <1>5, <1>9, <2>1
<1>10. ASSUME NEW i \in RevenueIds, NEW n \in RevisionsOf(i)', NEW m \in RevisionsOf(i)'
       PROVE  /\ m <= n /\ rows'[<<i, n>>].state = "pending" => rows'[<<i, m>>].state = "pending"
              /\ m < n => rows'[<<i, m>>].state # "voided"
              /\ \/ rows'[<<i, n>>].cur = "none" \/ rows'[<<i, m>>].cur = "none"
                 \/ rows'[<<i, n>>].cur = rows'[<<i, m>>].cur
  <2>1. CASE i # r.id
    <3>1. n \in RevisionsOf(i) /\ m \in RevisionsOf(i)
      BY <1>1, <1>10, <2>1
    <3> QED BY <1>4, <1>10, <3>1
            DEF LedgerInv, PendingComesFirst, VoidedComesLast, CurrencyNeverChanges
  <2>2. CASE i = r.id
    <3>0. r.id \in RevenueIds /\ n \in 1 .. r.rev /\ m \in 1 .. r.rev /\ r.rev \in Nat
      BY <1>1, <1>2, <1>10, <2>2
    <3> HIDE DEF old, new
    <3>1. CASE n = r.rev /\ m = r.rev /\ new(n) = r.body /\ new(m) = r.body
      BY <3>0, <3>1, <2>2 DEF new
    <3>2. CASE n = r.rev /\ new(n) = r.body /\ m \in 1 .. h /\ new(m) = old(m)
      BY <1>8, <3>0, <3>2, <2>2 DEF new
    <3>3. CASE n \in 1 .. h /\ n < r.rev /\ new(n) = old(n) /\ m = r.rev /\ new(m) = r.body
      BY <1>8, <3>0, <3>3, <2>2 DEF new
    <3>4. CASE n \in 1 .. h /\ new(n) = old(n) /\ m \in 1 .. h /\ new(m) = old(m)
      BY <1>6, <3>0, <3>4, <2>2 DEF new
    <3> QED BY <1>9, <3>0, <3>1, <3>2, <3>3, <3>4
  <2> QED BY <2>1, <2>2
<1> QED BY <1>10 DEF PendingComesFirst, VoidedComesLast, CurrencyNeverChanges

LEMMA InsertKeepsTypes ==
  ASSUME LedgerInv, NEW c \in Clients, InsertRevision(c)
  PROVE  LedgerTypeOK'
<1>1. DOMAIN rows' \subseteq LedgerRecords \X Revisions
  BY InsertKeepsRows
<1>2. call[c].body \in BusinessBodies
  BY InsertedRow DEF Asked, BusinessBodies
<1>3. \A k \in DOMAIN rows' : rows'[k] \in BusinessBodies
  BY InsertedRow, <1>2 DEF LedgerInv, LedgerTypeOK
<1>4. call' = [call EXCEPT ![c].at = "stored"] /\ writer' = NobodyWrites
  BY DEF InsertRevision, Proceed
<1> QED BY <1>1, <1>3, <1>4 DEF LedgerInv, LedgerTypeOK

LEMMA LedgerStep == LedgerInv /\ [LedgerNext]_ledgerVars => LedgerInv'
<1> SUFFICES ASSUME LedgerInv, [LedgerNext]_ledgerVars PROVE LedgerInv'
  OBVIOUS
<1>1. CASE UNCHANGED ledgerVars
  <2>1. rows' = rows /\ call' = call /\ writer' = writer
    BY <1>1 DEF ledgerVars
  <2>2. CallsOK'
    BY <2>1, CallKept DEF CallsOK
  <2> QED BY <2>1, <2>2, LedgerKept DEF LedgerInv, LedgerTypeOK
<1>2. ASSUME NEW c \in Clients, NEW i \in LedgerRecords, NEW n \in Revisions,
             NEW b \in BusinessBodies, RecordOutcome(c, i, n, b) \/ RecordRevenue(c, i, n, b)
      PROVE  LedgerInv'
  BY <1>2, RecordKeeps
<1>3. ASSUME NEW c \in Clients, NEW i \in OutcomeIds, NEW n \in 0 .. MaxRevision,
             NEW b \in OutcomeBodies, AmendOutcome(c, i, n, b)
      PROVE  LedgerInv'
  BY <1>3, AmendKeeps
<1>4. ASSUME NEW c \in Clients, CheckInsert(c) PROVE LedgerInv'
  BY <1>4, CheckKeeps
<1>5. ASSUME NEW c \in Clients, InsertRevision(c) PROVE LedgerInv'
  BY <1>5, InsertKeepsRows, InsertKeepsCalls, InsertKeepsHistory, InsertKeepsTypes
     DEF LedgerInv
<1>6. ASSUME NEW c \in Clients,
             InsertConflicts(c) \/ InsertLockedOut(c) \/ ClientCrashes(c)
      PROVE  LedgerInv'
  <2>1. Raise(c) /\ rows' = rows /\ writer' \in Clients \cup {NobodyWrites}
    BY <1>6 DEF InsertConflicts, InsertLockedOut, ClientCrashes, LedgerInv, LedgerTypeOK
  <2> QED BY <2>1, RaiseKeeps
<1> QED BY <1>1, <1>2, <1>3, <1>4, <1>5, <1>6 DEF LedgerNext

LEMMA LedgerInvariant == LedgerSpec => []LedgerInv
BY LedgerInitInv, LedgerStep, PTL DEF LedgerSpec
-----------------------------------------------------------------------------
\* Whatever processes check and insert at the same time, the revisions of an outcome or
\* of a revenue are numbered from one without a gap (insert_outcome, insert_revenue).
THEOREM LedgersHaveNoGaps == LedgerSpec => []RevisionsAreContiguous
<1>1. LedgerInv => RevisionsAreContiguous
  BY HeightType DEF LedgerInv, RevisionsAreContiguous
<1> QED BY <1>1, LedgerInvariant, PTL

\* A call that returned has its revision in the ledger, replay or not.
THEOREM AnswersAreTrue == LedgerSpec => []StoredAnswerIsTrue
<1>1. LedgerInv => StoredAnswerIsTrue
  BY DEF LedgerInv, CallsOK, CallOK, StoredAnswerIsTrue
<1> QED BY <1>1, LedgerInvariant, PTL

\* An amendment comes right after the revision that amend_outcome read, although it read
\* and wrote in different transactions.
THEOREM AmendmentsFollow == LedgerSpec => []AmendmentFollowsWhatWasRead
<1>1. LedgerInv => AmendmentFollowsWhatWasRead
  BY DEF LedgerInv, CallsOK, CallOK, AmendmentFollowsWhatWasRead
<1> QED BY <1>1, LedgerInvariant, PTL

\* A revenue has one currency in all its revisions that have an amount, although
\* insert_revenue compares each revision with the one before it only.
THEOREM OneCurrency == LedgerSpec => []CurrencyNeverChanges
<1>1. LedgerInv => CurrencyNeverChanges
  BY DEF LedgerInv
<1> QED BY <1>1, LedgerInvariant, PTL

\* All of it together: no gaps, true answers, amendments behind what was read and one
\* currency (insert_outcome, insert_revenue, amend_outcome).
THEOREM LedgersStayTrue == LedgerSpec => []LedgersAreTrue
BY LedgersHaveNoGaps, AnswersAreTrue, AmendmentsFollow, OneCurrency, PTL DEF LedgersAreTrue
-----------------------------------------------------------------------------
(* Both tables are revision ledgers *)

\* A step that inserts nothing of these records leaves their ledger as it is.
LEMMA LedgerStutters ==
  ASSUME NEW Ids, \A i \in Ids : Height(i)' = Height(i),
         \A i \in Ids : \A n \in 1 .. Height(i) : rows'[<<i, n>>] = rows[<<i, n>>]
  PROVE  UNCHANGED <<Heights(Ids), Contents(Ids)>>
BY DEF Heights, Contents

\* The revisions of i with one more of body b.
Longer(Ids, i, b) ==
  [n \in 1 .. Height(i) + 1 |-> IF n <= Height(i) THEN Contents(Ids)[i][n] ELSE b]

\* An INSERT appends one revision to one ledger.
LEMMA InsertAppends ==
  ASSUME LedgerInv, NEW c \in Clients, InsertRevision(c),
         NEW Ids \in SUBSET LedgerRecords, NEW i \in Ids, i = call[c].id
  PROVE  /\ Heights(Ids)' = [Heights(Ids) EXCEPT ![i] = @ + 1]
         /\ Contents(Ids)' = [Contents(Ids) EXCEPT ![i] = Longer(Ids, i, call[c].body)]
<1> DEFINE r == call[c]
<1>1. /\ r.rev = Height(i) + 1
      /\ rows'[<<i, r.rev>>] = r.body
      /\ \A k \in DOMAIN rows : rows'[k] = rows[k]
      /\ Height(i)' = r.rev
      /\ \A j : j # i => Height(j)' = Height(j)
  BY InsertedRow
<1>2. \A j \in Ids : Height(j) \in Nat /\ RevisionsOf(j) = 1 .. Height(j)
  BY HeightType, LedgersAssumption DEF LedgerInv
<1>3. \A j \in Ids : \A n \in 1 .. Height(j) : rows'[<<j, n>>] = rows[<<j, n>>]
  BY <1>1, <1>2 DEF RevisionsOf
<1> HIDE DEF r
<1>4. Heights(Ids)' = [Heights(Ids) EXCEPT ![i] = @ + 1]
  BY <1>1 DEF Heights
<1> DEFINE longer == [n \in 1 .. Height(i) + 1 |->
                        IF n <= Height(i) THEN Contents(Ids)[i][n] ELSE r.body]
<1>5. [n \in 1 .. Height(i)' |-> rows'[<<i, n>>]] = longer
  <2>1. Contents(Ids)[i] = [n \in 1 .. Height(i) |-> rows[<<i, n>>]]
    BY DEF Contents
  <2>2. ASSUME NEW n \in 1 .. Height(i) + 1
        PROVE  rows'[<<i, n>>] = IF n <= Height(i) THEN Contents(Ids)[i][n] ELSE r.body
    <3>1. CASE n <= Height(i)
      BY <1>2, <1>3, <2>1, <2>2, <3>1
    <3>2. CASE ~(n <= Height(i))
      BY <1>1, <1>2, <2>2, <3>2
    <3> QED BY <3>1, <3>2
  <2> QED BY <1>1, <2>2
<1>6. \A j \in Ids : j # i =>
        [n \in 1 .. Height(j)' |-> rows'[<<j, n>>]] = [n \in 1 .. Height(j) |-> rows[<<j, n>>]]
  BY <1>1, <1>3
<1>7. Contents(Ids)' = [Contents(Ids) EXCEPT ![i] = longer]
  BY <1>5, <1>6 DEF Contents
<1> QED BY <1>4, <1>7 DEF Longer, r

\* What is inserted may open the ledger or follow its last revision.
LEMMA InsertMayFollow ==
  ASSUME LedgerInv, NEW c \in Clients, InsertRevision(c)
  PROVE  LET r == call[c] IN
         /\ Height(r.id) = 0 => r.body.state # "voided"
         /\ Height(r.id) # 0 =>
              /\ Height(r.id) \in RevisionsOf(r.id)
              /\ MayFollow(r.id, rows[<<r.id, Height(r.id)>>], r.body)
<1> DEFINE r == call[c]
<1>1. r.id \in LedgerRecords /\ Asked(r) /\ r.rev = Height(r.id) + 1
  BY InsertedRow
<1>2. RevisionsOf(r.id) = 1 .. Height(r.id) /\ Height(r.id) \in Nat
  BY <1>1, HeightType, LedgersAssumption DEF LedgerInv
<1>3. r.at = "insert" /\ r.rev \notin RevisionsOf(r.id) /\ CallOK(r)
  BY <1>1, <1>2 DEF InsertRevision, LedgerInv, CallsOK
<1> QED BY <1>1, <1>2, <1>3 DEF CallOK, Asked, ValidRevision

\* The steps other than the INSERT leave the rows alone.
LEMMA OnlyInsertWrites ==
  ASSUME [LedgerNext]_ledgerVars, ~\E c \in Clients : InsertRevision(c)
  PROVE  rows' = rows
BY DEF LedgerNext, ledgerVars, RecordOutcome, RecordRevenue, AmendOutcome, CheckInsert,
       InsertConflicts, InsertLockedOut, ClientCrashes

LEMMA OutcomesStep ==
  ASSUME LedgerInv, [LedgerNext]_ledgerVars
  PROVE  [Outcomes!Next]_Outcomes!vars
<1>1. CASE rows' = rows
  BY <1>1, SameRowsSameLedger, LedgerStutters DEF Outcomes!vars
<1>2. ASSUME NEW c \in Clients, InsertRevision(c), call[c].id \in OutcomeIds
      PROVE  Outcomes!Next
  <2> DEFINE r == call[c].body
  <2>1. PICK j \in OutcomeIds : j = call[c].id
    BY <1>2
  <2>2. /\ Heights(OutcomeIds)' = [Heights(OutcomeIds) EXCEPT ![j] = @ + 1]
        /\ Contents(OutcomeIds)'
             = [Contents(OutcomeIds) EXCEPT ![j] = Longer(OutcomeIds, j, call[c].body)]
    <3>1. OutcomeIds \in SUBSET LedgerRecords
      BY DEF LedgerRecords
    <3> QED BY <1>2, <2>1, <3>1, InsertAppends
  <2>3. r \in OutcomeBodies
    BY <1>2, InsertedRow, LedgersAssumption DEF Asked
  <2>4. Height(j) = 0 => r \in {b \in OutcomeBodies : b.state # "voided"}
    BY <1>2, <2>1, <2>3, InsertMayFollow
  <2>5. ASSUME Height(j) # 0
        PROVE  <<Contents(OutcomeIds)[j][Height(j)], r>>
                 \in {p \in OutcomeBodies \X OutcomeBodies : OutcomeMayFollow(p[1], p[2])}
    <3>1. Height(j) \in RevisionsOf(j) /\ OutcomeMayFollow(rows[<<j, Height(j)>>], r)
      BY <1>2, <2>1, <2>5, InsertMayFollow DEF MayFollow
    <3>2. rows[<<j, Height(j)>>] \in OutcomeBodies
      BY <2>1, <3>1 DEF LedgerInv, RowsOK
    <3>3. Height(j) \in 1 .. Height(j)
      BY <2>1, <2>5, HeightType, LedgersAssumption DEF LedgerInv, LedgerRecords
    <3>4. Contents(OutcomeIds)[j][Height(j)] = rows[<<j, Height(j)>>]
      BY <2>1, <3>3 DEF Contents
    <3> QED BY <2>3, <3>1, <3>2, <3>4
  <2>6. Heights(OutcomeIds)[j] = Height(j)
    BY <2>1 DEF Heights
  <2> HIDE DEF r
  <2>7. Outcomes!Append(j)
    <3>1. Heights(OutcomeIds)' = [Heights(OutcomeIds) EXCEPT ![j] = Heights(OutcomeIds)[j] + 1]
      BY <2>2
    <3>2. Contents(OutcomeIds)' = [Contents(OutcomeIds) EXCEPT ![j] =
             [n \in 1 .. Heights(OutcomeIds)[j] + 1 |->
                IF n <= Heights(OutcomeIds)[j] THEN Contents(OutcomeIds)[j][n] ELSE r]]
      BY <2>2, <2>6 DEF Longer, r
    <3> QED BY <2>3, <2>4, <2>5, <2>6, <3>1, <3>2 DEF Outcomes!Append
  <2> QED BY <2>1, <2>7 DEF Outcomes!Next
<1>3. ASSUME NEW c \in Clients, InsertRevision(c), call[c].id \notin OutcomeIds
      PROVE  UNCHANGED Outcomes!vars
  <2>1. \A i \in OutcomeIds : Height(i)' = Height(i) /\ RevisionsOf(i) = 1 .. Height(i)
    BY <1>3, InsertedRow, HeightType DEF LedgerInv, LedgerRecords
  <2>2. \A k \in DOMAIN rows : rows'[k] = rows[k]
    BY <1>3, InsertedRow
  <2>3. \A i \in OutcomeIds : \A n \in 1 .. Height(i) : rows'[<<i, n>>] = rows[<<i, n>>]
    BY <2>1, <2>2 DEF RevisionsOf
  <2> QED BY <2>1, <2>3, LedgerStutters DEF Outcomes!vars
<1> QED BY <1>1, <1>2, <1>3, OnlyInsertWrites

LEMMA RevenuesStep ==
  ASSUME LedgerInv, [LedgerNext]_ledgerVars
  PROVE  [Revenues!Next]_Revenues!vars
<1>1. CASE rows' = rows
  BY <1>1, SameRowsSameLedger, LedgerStutters DEF Revenues!vars
<1>2. ASSUME NEW c \in Clients, InsertRevision(c), call[c].id \in RevenueIds
      PROVE  Revenues!Next
  <2> DEFINE r == call[c].body
  <2>1. PICK j \in RevenueIds : j = call[c].id
    BY <1>2
  <2>2. /\ Heights(RevenueIds)' = [Heights(RevenueIds) EXCEPT ![j] = @ + 1]
        /\ Contents(RevenueIds)'
             = [Contents(RevenueIds) EXCEPT ![j] = Longer(RevenueIds, j, call[c].body)]
    <3>1. RevenueIds \in SUBSET LedgerRecords
      BY DEF LedgerRecords
    <3> QED BY <1>2, <2>1, <3>1, InsertAppends
  <2>3. r \in RevenueBodies
    BY <1>2, InsertedRow, LedgersAssumption DEF Asked
  <2>4. Height(j) = 0 => r \in {b \in RevenueBodies : b.state # "voided"}
    BY <1>2, <2>1, <2>3, InsertMayFollow
  <2>5. ASSUME Height(j) # 0
        PROVE  <<Contents(RevenueIds)[j][Height(j)], r>>
                 \in {p \in RevenueBodies \X RevenueBodies : RevenueMayFollow(p[1], p[2])}
    <3>1. Height(j) \in RevisionsOf(j) /\ RevenueMayFollow(rows[<<j, Height(j)>>], r)
      BY <1>2, <2>1, <2>5, InsertMayFollow, LedgersAssumption DEF MayFollow
    <3>2. rows[<<j, Height(j)>>] \in RevenueBodies
      BY <2>1, <3>1 DEF LedgerInv, RowsOK
    <3>3. Height(j) \in 1 .. Height(j)
      BY <2>1, <2>5, HeightType, LedgersAssumption DEF LedgerInv, LedgerRecords
    <3>4. Contents(RevenueIds)[j][Height(j)] = rows[<<j, Height(j)>>]
      BY <2>1, <3>3 DEF Contents
    <3> QED BY <2>3, <3>1, <3>2, <3>4
  <2>6. Heights(RevenueIds)[j] = Height(j)
    BY <2>1 DEF Heights
  <2> HIDE DEF r
  <2>7. Revenues!Append(j)
    <3>1. Heights(RevenueIds)' = [Heights(RevenueIds) EXCEPT ![j] = Heights(RevenueIds)[j] + 1]
      BY <2>2
    <3>2. Contents(RevenueIds)' = [Contents(RevenueIds) EXCEPT ![j] =
             [n \in 1 .. Heights(RevenueIds)[j] + 1 |->
                IF n <= Heights(RevenueIds)[j] THEN Contents(RevenueIds)[j][n] ELSE r]]
      BY <2>2, <2>6 DEF Longer, r
    <3> QED BY <2>3, <2>4, <2>5, <2>6, <3>1, <3>2 DEF Revenues!Append
  <2> QED BY <2>1, <2>7 DEF Revenues!Next
<1>3. ASSUME NEW c \in Clients, InsertRevision(c), call[c].id \notin RevenueIds
      PROVE  UNCHANGED Revenues!vars
  <2>1. \A i \in RevenueIds : Height(i)' = Height(i) /\ RevisionsOf(i) = 1 .. Height(i)
    BY <1>3, InsertedRow, HeightType DEF LedgerInv, LedgerRecords
  <2>2. \A k \in DOMAIN rows : rows'[k] = rows[k]
    BY <1>3, InsertedRow
  <2>3. \A i \in RevenueIds : \A n \in 1 .. Height(i) : rows'[<<i, n>>] = rows[<<i, n>>]
    BY <2>1, <2>2 DEF RevisionsOf
  <2> QED BY <2>1, <2>3, LedgerStutters DEF Revenues!vars
<1> QED BY <1>1, <1>2, <1>3, OnlyInsertWrites

\* The outcome table is an append-only ledger: every record's revisions are appended one
\* by one, each may follow the one before, and none is ever changed (insert_outcome).
THEOREM OutcomesImplement == LedgerSpec => OutcomesAreALedger
<1>1. LedgerInit => Outcomes!Init
  <2> SUFFICES ASSUME LedgerInit PROVE Outcomes!Init
    OBVIOUS
  <2>1. \A i : RevisionsOf(i) = {}
    BY DEF LedgerInit, RevisionsOf
  <2>2. \A i : Height(i) = 0
    BY <2>1 DEF Height
  <2> QED BY <2>2 DEF Outcomes!Init, Heights, Contents
<1>2. LedgerInv /\ [LedgerNext]_ledgerVars => [Outcomes!Next]_Outcomes!vars
  BY OutcomesStep
<1> QED BY <1>1, <1>2, LedgerInvariant, PTL DEF LedgerSpec, OutcomesAreALedger, Outcomes!Spec

\* The revenue table is an append-only ledger too (insert_revenue).
THEOREM RevenuesImplement == LedgerSpec => RevenuesAreALedger
<1>1. LedgerInit => Revenues!Init
  <2> SUFFICES ASSUME LedgerInit PROVE Revenues!Init
    OBVIOUS
  <2>1. \A i : RevisionsOf(i) = {}
    BY DEF LedgerInit, RevisionsOf
  <2>2. \A i : Height(i) = 0
    BY <2>1 DEF Height
  <2> QED BY <2>2 DEF Revenues!Init, Heights, Contents
<1>2. LedgerInv /\ [LedgerNext]_ledgerVars => [Revenues!Next]_Revenues!vars
  BY RevenuesStep
<1> QED BY <1>1, <1>2, LedgerInvariant, PTL DEF LedgerSpec, RevenuesAreALedger, Revenues!Spec

\* Each of the two tables is an append-only ledger of its own (insert_outcome,
\* insert_revenue).
THEOREM RevisionsImplementLedgers == LedgerSpec => RevisionsAreLedgers
BY OutcomesImplement, RevenuesImplement DEF RevisionsAreLedgers
-----------------------------------------------------------------------------
(***************************************************************************)
(* Provider jobs: the revisions are a ledger in which each says something  *)
(* new, and they are sent in the order in which they were made.            *)
(***************************************************************************)

\* The call of a poller.
JobCalls == [at : {"idle", "read", "check", "insert", "finalize"},
             first : BOOLEAN, new : Snapshots \cup {NoSnapshot},
             base : 0 .. MaxRevisions - 1, tries : 0 .. MaxAttempts]

PollOK(r) == r \in JobCalls /\ (r.at # "idle" => r.new \in Snapshots)

\* What a poller has checked stays true while others append: its observation is news
\* after the revision it read, and may follow that one.
Candidate(r) ==
  r.at \in {"check", "insert"} =>
    /\ r.base \in {0} \cup DOMAIN job
    /\ r.base # 0 => Economic(job[r.base]) # Economic(r.new)
    /\ r.at = "insert" /\ r.base # 0 => JobMayFollow(job[r.base], r.new)

PollsOK == /\ poll \in [Pollers -> JobCalls]
           /\ \A p \in Pollers : PollOK(poll[p]) /\ Candidate(poll[p])

JobNoGaps == \E h \in 0 .. MaxRevisions : DOMAIN job = 1 .. h

JobOK == /\ job = [n \in DOMAIN job |-> job[n]]
         /\ \A n \in DOMAIN job : job[n] \in Snapshots
         /\ sent \subseteq DOMAIN job

JobInv == /\ JobOK /\ JobNoGaps /\ PollsOK
          /\ RevisionsSaySomethingNew /\ TerminalStaysTerminal /\ SentInCausalOrder
-----------------------------------------------------------------------------
LEMMA JobBounds ==
  /\ MaxRevisions \in Nat /\ MaxRevisions # 0
  /\ MaxTime \in Nat /\ MaxAttempts \in Nat
BY JobsAssumption

LEMMA LatestIs ==
  ASSUME NEW h \in Nat, DOMAIN job = 1 .. h
  PROVE  Latest = h
<1>1. h \in {0} \cup DOMAIN job /\ \A m \in DOMAIN job : m <= h
  OBVIOUS
<1>2. ASSUME NEW n \in {0} \cup DOMAIN job, \A m \in DOMAIN job : m <= n
      PROVE  n = h
  BY <1>2
<1> QED BY <1>1, <1>2 DEF Latest

LEMMA LatestType ==
  ASSUME JobNoGaps
  PROVE  Latest \in 0 .. MaxRevisions /\ Latest \in Nat /\ DOMAIN job = 1 .. Latest
<1>1. PICK h \in 0 .. MaxRevisions : DOMAIN job = 1 .. h
  BY DEF JobNoGaps
<1>2. h \in Nat /\ Latest = h
  BY <1>1, JobBounds, LatestIs
<1> QED BY <1>1, <1>2

LEMMA NoCallOK == PollOK(NoCall) /\ NoCall.at = "idle"
BY JobBounds DEF NoCall, PollOK, JobCalls

\* A step that leaves the table alone and moves one poller to a good call.
LEMMA PollMoves ==
  ASSUME JobInv, UNCHANGED <<job, sent>>, NEW p \in Pollers, NEW r,
         poll' = [poll EXCEPT ![p] = r], PollOK(r), Candidate(r)
  PROVE  JobInv'
<1>1. /\ poll' \in [Pollers -> JobCalls] /\ poll'[p] = r
      /\ \A q \in Pollers \ {p} : poll'[q] = poll[q]
  BY DEF JobInv, PollsOK, PollOK
<1>2. \A q \in Pollers : PollOK(poll'[q]) /\ Candidate(poll'[q])
  BY <1>1 DEF JobInv, PollsOK
<1>3. PollsOK'
  BY <1>1, <1>2 DEF PollsOK, Candidate
<1>4. JobOK' /\ JobNoGaps' /\ RevisionsSaySomethingNew' /\ TerminalStaysTerminal'
      /\ SentInCausalOrder'
  BY DEF JobInv, JobOK, JobNoGaps, RevisionsSaySomethingNew, TerminalStaysTerminal,
         SentInCausalOrder
<1> QED BY <1>3, <1>4 DEF JobInv

LEMMA EndCallKeeps ==
  ASSUME JobInv, UNCHANGED <<job, sent>>, NEW p \in Pollers, EndCall(p)
  PROVE  JobInv'
<1>1. PollOK(NoCall) /\ Candidate(NoCall)
  BY NoCallOK DEF Candidate
<1> QED BY <1>1, PollMoves DEF EndCall

LEMMA ConflictKeeps ==
  ASSUME JobInv, UNCHANGED <<job, sent>>, NEW p \in Pollers, Conflict(p), poll[p].at # "idle"
  PROVE  JobInv'
<1>1. CASE EndCall(p)
  BY <1>1, EndCallKeeps
<1>2. CASE /\ poll[p].tries # MaxAttempts
           /\ poll' = [poll EXCEPT ![p].at = "read", ![p].tries = @ + 1]
  <2> DEFINE r == [poll[p] EXCEPT !.at = "read", !.tries = @ + 1]
  <2>1. PollOK(poll[p])
    BY DEF JobInv, PollsOK
  <2>2. poll[p].tries + 1 \in 0 .. MaxAttempts
    BY <1>2, <2>1, JobBounds DEF PollOK, JobCalls
  <2>3. r \in JobCalls /\ r.at = "read" /\ r.new = poll[p].new
    BY <2>1, <2>2 DEF PollOK, JobCalls
  <2>4. PollOK(r) /\ Candidate(r)
    BY <2>1, <2>3 DEF PollOK, Candidate
  <2>5. poll' = [poll EXCEPT ![p] = r]
    BY <1>2
  <2> HIDE DEF r
  <2> QED BY <2>4, <2>5, PollMoves
<1> QED BY <1>1, <1>2 DEF Conflict

LEMMA FinalizeCallOK ==
  ASSUME NEW new \in Snapshots
  PROVE  /\ PollOK([NoCall EXCEPT !.at = "finalize", !.new = new])
         /\ Candidate([NoCall EXCEPT !.at = "finalize", !.new = new])
<1> DEFINE r == [NoCall EXCEPT !.at = "finalize", !.new = new]
<1>1. r \in JobCalls /\ r.at = "finalize" /\ r.new = new
  <2>1. ASSUME NEW c \in JobCalls
        PROVE  LET d == [c EXCEPT !.at = "finalize", !.new = new]
               IN  d \in JobCalls /\ d.at = "finalize" /\ d.new = new
    BY DEF JobCalls
  <2>2. NoCall \in JobCalls
    BY NoCallOK DEF PollOK
  <2> QED BY <2>1, <2>2
<1> QED BY <1>1 DEF PollOK, Candidate

LEMMA StoredKeeps ==
  ASSUME JobInv, UNCHANGED <<job, sent>>, NEW p \in Pollers, Stored(p), poll[p].at # "idle"
  PROVE  JobInv'
<1>1. CASE EndCall(p)
  BY <1>1, EndCallKeeps
<1>2. CASE poll' = [poll EXCEPT ![p] = [NoCall EXCEPT !.at = "finalize", !.new = poll[p].new]]
  <2> DEFINE r == [NoCall EXCEPT !.at = "finalize", !.new = poll[p].new]
  <2>1. poll[p].new \in Snapshots
    BY DEF JobInv, PollsOK, PollOK
  <2>2. PollOK(r) /\ Candidate(r)
    BY <2>1, FinalizeCallOK
  <2> HIDE DEF r
  <2>3. poll' = [poll EXCEPT ![p] = r]
    BY <1>2 DEF r
  <2> QED BY <2>2, <2>3, PollMoves
<1> QED BY <1>1, <1>2 DEF Stored
-----------------------------------------------------------------------------
(* The steps of a poller *)

LEMMA BeginKeeps ==
  ASSUME JobInv, NEW p \in Pollers, NEW s \in Snapshots, Submit(p, s) \/ Observe(p, s)
  PROVE  JobInv'
<1>1. 0 \in 0 .. MaxRevisions - 1 /\ 1 \in 0 .. MaxAttempts
  BY JobBounds, JobsAssumption
<1>2. CASE Submit(p, s)
  <2> DEFINE r == [at |-> "check", first |-> TRUE, new |-> s, base |-> 0, tries |-> 1]
  <2>1. r \in JobCalls /\ r.at = "check" /\ r.new = s /\ r.base = 0
    BY <1>1 DEF JobCalls
  <2>2. poll' = [poll EXCEPT ![p] = r] /\ UNCHANGED <<job, sent>>
    BY <1>2 DEF Submit
  <2> HIDE DEF r
  <2>3. PollOK(r) /\ Candidate(r)
    BY <2>1 DEF PollOK, Candidate
  <2> QED BY <2>2, <2>3, PollMoves
<1>3. CASE Observe(p, s)
  <2> DEFINE r == [at |-> "read", first |-> FALSE, new |-> s, base |-> 0, tries |-> 1]
  <2>1. r \in JobCalls /\ r.at = "read" /\ r.new = s
    BY <1>1 DEF JobCalls
  <2>2. poll' = [poll EXCEPT ![p] = r] /\ UNCHANGED <<job, sent>>
    BY <1>3 DEF Observe
  <2> HIDE DEF r
  <2>3. PollOK(r) /\ Candidate(r)
    BY <2>1 DEF PollOK, Candidate
  <2> QED BY <2>2, <2>3, PollMoves
<1> QED BY <1>2, <1>3

LEMMA ReadKeeps ==
  ASSUME JobInv, NEW p \in Pollers, ReadLatest(p)
  PROVE  JobInv'
<1>1. CASE EndCall(p)
  BY <1>1, EndCallKeeps DEF ReadLatest
<1>2. CASE ~EndCall(p)
  <2> DEFINE r == [poll[p] EXCEPT !.at = "check", !.base = Latest]
  <2>1. /\ Latest # 0 /\ Economic(job[Latest]) # Economic(poll[p].new)
        /\ Latest < MaxRevisions /\ poll[p].at = "read"
        /\ poll' = [poll EXCEPT ![p].at = "check", ![p].base = Latest]
        /\ UNCHANGED <<job, sent>>
    BY <1>2 DEF ReadLatest
  <2>2. Latest \in DOMAIN job /\ Latest \in 0 .. MaxRevisions - 1
    BY <2>1, LatestType, JobBounds DEF JobInv
  <2>3. poll[p] \in JobCalls /\ poll[p].new \in Snapshots
    BY <2>1 DEF JobInv, PollsOK, PollOK
  <2>4. r \in JobCalls /\ r.at = "check" /\ r.base = Latest /\ r.new = poll[p].new
    BY <2>2, <2>3 DEF JobCalls
  <2>5. poll' = [poll EXCEPT ![p] = r]
    BY <2>1
  <2> HIDE DEF r
  <2>6. PollOK(r)
    BY <2>3, <2>4 DEF PollOK
  <2>7. Candidate(r)
    BY <2>1, <2>2, <2>4 DEF Candidate
  <2> QED BY <2>1, <2>5, <2>6, <2>7, PollMoves
<1> QED BY <1>1, <1>2

LEMMA JobCheckKeeps ==
  ASSUME JobInv, NEW p \in Pollers, CheckRevision(p)
  PROVE  JobInv'
<1> DEFINE n == poll[p].base + 1
           new == poll[p].new
<1>1. poll[p].at = "check" /\ UNCHANGED <<job, sent>>
  BY DEF CheckRevision
<1>2. CASE Stored(p) \/ Conflict(p) \/ EndCall(p)
  BY <1>1, <1>2, StoredKeeps, ConflictKeeps, EndCallKeeps
<1>3. CASE /\ Go(p, "insert") /\ n = Latest + 1
           /\ n = 1 \/ (n > 1 /\ JobMayFollow(job[Latest], new))
  <2> DEFINE r == [poll[p] EXCEPT !.at = "insert"]
  <2>1. PollOK(poll[p]) /\ Candidate(poll[p])
    BY DEF JobInv, PollsOK
  <2>2. /\ r \in JobCalls /\ r.at = "insert" /\ r.base = poll[p].base /\ r.new = poll[p].new
    BY <2>1 DEF PollOK, JobCalls
  <2>3. poll' = [poll EXCEPT ![p] = r]
    BY <1>3 DEF Go
  <2>4. poll[p].base = Latest
    BY <1>3, <2>1, LatestType DEF JobInv, PollOK, JobCalls
  <2> HIDE DEF r
  <2>5. PollOK(r)
    BY <1>1, <2>1, <2>2 DEF PollOK
  <2>6. Candidate(r)
    BY <1>1, <1>3, <2>1, <2>2, <2>4, LatestType DEF JobInv, Candidate
  <2> QED BY <1>1, <2>3, <2>5, <2>6, PollMoves
<1> QED BY <1>1, <1>2, <1>3 DEF CheckRevision

\* What an INSERT does to the table: one revision more, which is news after the last one
\* and may follow it.
LEMMA InsertedJob ==
  ASSUME JobInv, NEW p \in Pollers, InsertJobRevision(p), poll[p].base + 1 \notin DOMAIN job
  PROVE  LET n == Latest + 1
             new == poll[p].new
         IN  /\ n = poll[p].base + 1 /\ n \in JobNumbers /\ n \notin DOMAIN job
             /\ new \in Snapshots
             /\ job' = [m \in DOMAIN job \cup {n} |-> IF m = n THEN new ELSE job[m]]
             /\ DOMAIN job' = 1 .. n /\ DOMAIN job = 1 .. Latest
             /\ job'[n] = new /\ \A m \in 1 .. Latest : job'[m] = job[m]
             /\ Latest # 0 => /\ Economic(job[Latest]) # Economic(new)
                              /\ JobMayFollow(job[Latest], new)
             /\ Stored(p) /\ sent' = sent /\ poll[p].at = "insert"
<1> DEFINE base == poll[p].base
           new == poll[p].new
<1>1. /\ poll[p].at = "insert" /\ PollOK(poll[p]) /\ Candidate(poll[p])
      /\ Stored(p) /\ sent' = sent
      /\ job' = [m \in DOMAIN job \cup {base + 1} |-> IF m = base + 1 THEN new ELSE job[m]]
  BY DEF InsertJobRevision, JobInv, PollsOK
<1>2. /\ base \in 0 .. MaxRevisions - 1 /\ new \in Snapshots
      /\ base \in {0} \cup DOMAIN job
      /\ base # 0 => Economic(job[base]) # Economic(new) /\ JobMayFollow(job[base], new)
  BY <1>1 DEF PollOK, JobCalls, Candidate
<1>3. Latest \in 0 .. MaxRevisions /\ Latest \in Nat /\ DOMAIN job = 1 .. Latest
  BY LatestType DEF JobInv
<1> HIDE DEF base, new
<1>4. base + 1 \notin DOMAIN job
  BY DEF base
<1>5. base = Latest
  BY <1>2, <1>3, <1>4, JobBounds
<1>6. Latest + 1 \in JobNumbers /\ 1 .. Latest + 1 = DOMAIN job \cup {Latest + 1}
  BY <1>2, <1>3, <1>5, JobBounds DEF JobNumbers
<1>7. /\ DOMAIN job' = 1 .. Latest + 1
      /\ job'[Latest + 1] = new /\ \A m \in 1 .. Latest : job'[m] = job[m]
  BY <1>1, <1>3, <1>4, <1>5, <1>6
<1> QED BY <1>1, <1>2, <1>3, <1>4, <1>5, <1>6, <1>7 DEF base, new

LEMMA InsertKeeps ==
  ASSUME JobInv, NEW p \in Pollers, InsertJobRevision(p), poll[p].base + 1 \notin DOMAIN job
  PROVE  JobInv'
<1> DEFINE h == Latest
           n == h + 1
           new == poll[p].new
<1>1. /\ n \in JobNumbers /\ n \notin DOMAIN job /\ new \in Snapshots
      /\ job' = [m \in DOMAIN job \cup {n} |-> IF m = n THEN new ELSE job[m]]
      /\ DOMAIN job' = 1 .. n /\ DOMAIN job = 1 .. h
      /\ job'[n] = new /\ \A m \in 1 .. h : job'[m] = job[m]
      /\ h # 0 => Economic(job[h]) # Economic(new) /\ JobMayFollow(job[h], new)
      /\ Stored(p) /\ sent' = sent /\ poll[p].at = "insert"
  BY InsertedJob
<1>2. h \in Nat
  BY LatestType DEF JobInv
<1> HIDE DEF h
<1>3. \A m \in 1 .. n : m = n \/ m \in 1 .. h
  BY <1>2
<1>4. JobOK' /\ JobNoGaps'
  <2>1. job' = [m \in DOMAIN job' |-> job'[m]]
    BY <1>1
  <2>2. \A m \in DOMAIN job' : job'[m] \in Snapshots
    BY <1>1, <1>3 DEF JobInv, JobOK
  <2>3. n \in 0 .. MaxRevisions
    BY <1>1, <1>2, JobBounds DEF JobNumbers
  <2>4. sent' \subseteq DOMAIN job'
    BY <1>1, <1>2 DEF JobInv, JobOK
  <2> QED BY <1>1, <2>1, <2>2, <2>3, <2>4 DEF JobOK, JobNoGaps
<1>5. PollsOK'
  <2>1. \A q \in Pollers : Candidate(poll[q]) /\ PollOK(poll[q])
    BY DEF JobInv, PollsOK
  <2>2. ASSUME NEW r, Candidate(r)
        PROVE  r.at \in {"check", "insert"} =>
                 /\ r.base \in {0} \cup DOMAIN job'
                 /\ r.base # 0 => Economic(job'[r.base]) # Economic(r.new)
                 /\ r.at = "insert" /\ r.base # 0 => JobMayFollow(job'[r.base], r.new)
    BY <1>1, <1>2, <2>2 DEF Candidate
  <2>3. PICK r : poll' = [poll EXCEPT ![p] = r] /\ PollOK(r) /\ r.at \in {"idle", "finalize"}
    <3>1. PollOK(NoCall) /\ NoCall.at = "idle"
      BY NoCallOK
    <3>2. LET r == [NoCall EXCEPT !.at = "finalize", !.new = new]
          IN  PollOK(r) /\ r.at = "finalize"
      <4>1. NoCall \in JobCalls
        BY NoCallOK DEF PollOK
      <4>2. [NoCall EXCEPT !.at = "finalize", !.new = new].at = "finalize"
        BY <4>1 DEF JobCalls
      <4> QED BY <1>1, <4>2, FinalizeCallOK
    <3> QED BY <1>1, <3>1, <3>2 DEF Stored, EndCall
  <2>4. poll' \in [Pollers -> JobCalls] /\ \A q \in Pollers : poll'[q] = poll[q] \/ poll'[q] = r
    BY <2>3 DEF JobInv, PollsOK, PollOK
  <2>5. ASSUME NEW q \in Pollers
        PROVE  /\ PollOK(poll'[q])
               /\ poll'[q].at \in {"check", "insert"} =>
                    /\ poll'[q].base \in {0} \cup DOMAIN job'
                    /\ poll'[q].base # 0 => Economic(job'[poll'[q].base]) # Economic(poll'[q].new)
                    /\ poll'[q].at = "insert" /\ poll'[q].base # 0
                         => JobMayFollow(job'[poll'[q].base], poll'[q].new)
    <3>1. CASE poll'[q] = poll[q]
      BY <2>1, <2>2, <3>1
    <3>2. CASE poll'[q] = r
      BY <2>3, <3>2
    <3> QED BY <2>4, <3>1, <3>2
  <2> QED BY <2>4, <2>5 DEF PollsOK, Candidate
<1>6. RevisionsSaySomethingNew'
  <2>1. ASSUME NEW m \in DOMAIN job', m > 1
        PROVE  m - 1 \in DOMAIN job' /\ Economic(job'[m]) # Economic(job'[m - 1])
    <3>1. CASE m \in 1 .. h
      <4>1. m - 1 \in 1 .. h
        BY <1>2, <2>1, <3>1
      <4> QED BY <1>1, <1>2, <2>1, <3>1, <4>1 DEF JobInv, RevisionsSaySomethingNew
    <3>2. CASE m = n
      BY <1>1, <1>2, <2>1, <3>2
    <3> QED BY <1>1, <1>3, <3>1, <3>2
  <2> QED BY <2>1 DEF RevisionsSaySomethingNew
<1>7. TerminalStaysTerminal'
  <2>1. ASSUME NEW m \in 1 .. h
        PROVE  /\ job[m].status \in Terminal => new.status \in Terminal
               /\ job[m].seen <= new.seen
    <3>1. h # 0 /\ h \in DOMAIN job /\ (m = h \/ m < h) /\ m \in DOMAIN job
      BY <1>1, <1>2
    <3>2. /\ job[m].status \in Terminal => job[h].status \in Terminal
          /\ job[m].seen <= job[h].seen
      BY <3>1, JobBounds DEF JobInv, TerminalStaysTerminal, JobOK, Snapshots
    <3>3. /\ job[h] \in Snapshots /\ job[m] \in Snapshots
      BY <3>1 DEF JobInv, JobOK
    <3> QED BY <1>1, <3>1, <3>2, <3>3, JobBounds DEF JobMayFollow, Snapshots, Pending, Terminal
  <2>2. ASSUME NEW k \in DOMAIN job', NEW m \in DOMAIN job', k < m
        PROVE  /\ job'[k].status \in Terminal => job'[m].status \in Terminal
               /\ job'[k].seen <= job'[m].seen
    <3>1. CASE m \in 1 .. h
      BY <1>1, <1>2, <2>2, <3>1 DEF JobInv, TerminalStaysTerminal
    <3>2. CASE m = n
      BY <1>1, <1>2, <2>1, <2>2, <3>2
    <3> QED BY <1>1, <1>3, <3>1, <3>2
  <2> QED BY <2>2 DEF TerminalStaysTerminal
<1>8. SentInCausalOrder'
  <2>1. ASSUME NEW k \in sent', NEW m \in DOMAIN job', m < k PROVE m \in sent'
    BY <1>1, <1>2, <2>1 DEF JobInv, JobOK, SentInCausalOrder
  <2> QED BY <2>1 DEF SentInCausalOrder
<1> QED BY <1>4, <1>5, <1>6, <1>7, <1>8 DEF JobInv
-----------------------------------------------------------------------------
(* The sync worker *)

\* Sorting by observed_at and revision is sorting by revision.
LEMMA PrecedesIsLess ==
  ASSUME JobInv, NEW m \in DOMAIN job, NEW n \in DOMAIN job
  PROVE  Precedes(m, n) <=> m < n
<1>1. m \in Nat /\ n \in Nat
  BY LatestType DEF JobInv
<1>2. job[m].seen \in Nat /\ job[n].seen \in Nat
  BY JobBounds DEF JobInv, JobOK, Snapshots
<1>3. /\ m < n => job[m].seen <= job[n].seen
      /\ n < m => job[n].seen <= job[m].seen
  BY DEF JobInv, TerminalStaysTerminal
<1> QED BY <1>1, <1>2, <1>3 DEF Precedes

LEMMA SendKeeps == JobInv /\ SendPage => JobInv'
<1> SUFFICES ASSUME JobInv, sent' = sent \cup Page, UNCHANGED <<job, poll>>
             PROVE  JobInv'
  BY DEF SendPage
<1> DEFINE waiting == DOMAIN job \ sent
           Before(n) == {m \in waiting : Precedes(m, n)}
<1>1. Page = {n \in waiting : Cardinality(Before(n)) < PageLimit}
  BY DEF Page
<1>2. \A n \in waiting : IsFiniteSet(Before(n)) /\ Cardinality(Before(n)) \in Nat
  <2>1. IsFiniteSet(DOMAIN job)
    BY LatestType, FS_Interval, 1 \in Int DEF JobInv
  <2> QED BY <2>1, FS_Subset, FS_CardinalityType
<1>3. ASSUME NEW n \in Page, NEW m \in waiting, m < n
      PROVE  m \in Page
  <2>1. n \in waiting
    BY <1>1
  <2>2. Before(m) \subseteq Before(n)
    <3>1. ASSUME NEW k \in waiting, Precedes(k, m) PROVE Precedes(k, n)
      <4>1. k < m /\ k \in Nat /\ m \in Nat /\ n \in Nat
        BY <2>1, <3>1, PrecedesIsLess, LatestType DEF JobInv
      <4>2. k < n
        BY <1>3, <4>1
      <4> QED BY <2>1, <4>2, PrecedesIsLess
    <3> QED BY <3>1
  <2>3. Cardinality(Before(m)) <= Cardinality(Before(n))
    BY <1>2, <2>1, <2>2, FS_Subset
  <2>4. Cardinality(Before(n)) < PageLimit /\ PageLimit \in Nat
    BY <1>1, JobsAssumption
  <2>5. Cardinality(Before(m)) < PageLimit
    BY <1>2, <2>1, <2>3, <2>4
  <2> QED BY <1>1, <2>5
<1>4. SentInCausalOrder'
  <2>1. ASSUME NEW n \in sent \cup Page, NEW m \in DOMAIN job, m < n
        PROVE  m \in sent \cup Page
    BY <1>3, <2>1 DEF JobInv, SentInCausalOrder
  <2> QED BY <2>1 DEF SentInCausalOrder
<1>5. JobOK' /\ PollsOK' /\ JobNoGaps' /\ RevisionsSaySomethingNew' /\ TerminalStaysTerminal'
  BY <1>1 DEF JobInv, JobOK, PollsOK, Candidate, JobNoGaps, RevisionsSaySomethingNew,
              TerminalStaysTerminal
<1> QED BY <1>4, <1>5 DEF JobInv
-----------------------------------------------------------------------------
(* The invariant *)

LEMMA JobInitInv == JobInit => JobInv
<1> SUFFICES ASSUME JobInit PROVE JobInv
  OBVIOUS
<1>1. DOMAIN job = {} /\ sent = {}
  BY DEF JobInit
<1>2. JobNoGaps
  <2>1. 0 \in 0 .. MaxRevisions /\ 1 .. 0 = {}
    BY JobBounds
  <2> QED BY <1>1, <2>1 DEF JobNoGaps
<1>3. PollsOK
  <2>1. poll = [p \in Pollers |-> NoCall]
    BY DEF JobInit
  <2>2. PollOK(NoCall) /\ Candidate(NoCall) /\ NoCall \in JobCalls
    BY NoCallOK DEF PollOK, Candidate
  <2> QED BY <2>1, <2>2 DEF PollsOK
<1>4. JobOK /\ RevisionsSaySomethingNew /\ TerminalStaysTerminal /\ SentInCausalOrder
  BY <1>1 DEF JobInit, JobOK, RevisionsSaySomethingNew, TerminalStaysTerminal, SentInCausalOrder
<1> QED BY <1>2, <1>3, <1>4 DEF JobInv

LEMMA JobStep == JobInv /\ [JobNext]_jobVars => JobInv'
<1> SUFFICES ASSUME JobInv, [JobNext]_jobVars PROVE JobInv'
  OBVIOUS
<1>1. CASE UNCHANGED jobVars
  BY <1>1 DEF jobVars, JobInv, JobOK, PollsOK, Candidate, JobNoGaps, RevisionsSaySomethingNew,
              TerminalStaysTerminal, SentInCausalOrder
<1>2. ASSUME NEW p \in Pollers, InsertJobRevision(p) PROVE JobInv'
  <2>1. CASE poll[p].base + 1 \in DOMAIN job
    BY <1>2, <2>1, ConflictKeeps DEF InsertJobRevision
  <2>2. CASE poll[p].base + 1 \notin DOMAIN job
    BY <1>2, <2>2, InsertKeeps
  <2> QED BY <2>1, <2>2
<1>3. ASSUME NEW p \in Pollers, Finalized(p) \/ PollerCrashes(p) PROVE JobInv'
  BY <1>3, EndCallKeeps DEF Finalized, PollerCrashes
<1> QED BY <1>1, <1>2, <1>3, BeginKeeps, ReadKeeps, JobCheckKeeps, SendKeeps DEF JobNext

LEMMA JobInvariant == JobSpec => []JobInv
BY JobInitInv, JobStep, PTL DEF JobSpec
-----------------------------------------------------------------------------
\* The rows and the calls have the types their tables declare.
THEOREM JobTypeCorrect == JobSpec => []JobTypeOK
<1>1. JobInv => JobTypeOK
  <2> SUFFICES ASSUME JobInv PROVE JobTypeOK
    OBVIOUS
  <2>1. DOMAIN job \subseteq JobNumbers
    BY LatestType, JobBounds DEF JobInv, JobNumbers
  <2>2. poll \in [Pollers -> JobCalls]
    BY DEF JobInv, PollsOK
  <2> QED BY <2>1, <2>2 DEF JobInv, JobOK, JobTypeOK, JobCalls
<1> QED BY <1>1, JobInvariant, PTL

\* Every revision says something new, however many pollers observe the same state at the
\* same time (reconcile_provider_job).
THEOREM EveryRevisionIsNews == JobSpec => []RevisionsSaySomethingNew
BY JobInvariant, PTL DEF JobInv

\* A terminal revision is followed by terminal ones only, and observed_at never falls
\* (insert_provider_job_revision).
THEOREM TerminalIsTerminal == JobSpec => []TerminalStaysTerminal
BY JobInvariant, PTL DEF JobInv

\* The sync worker takes the revisions in the order in which they were appended
\* (query_provider_jobs_for_sync).
THEOREM RevisionsAreSentInOrder == JobSpec => []SentInCausalOrder
BY JobInvariant, PTL DEF JobInv

\* The history of a job is true: no repetition, no return from a terminal status, and
\* nothing sent before what it follows.
THEOREM JobHistoryStaysTrue == JobSpec => []JobHistoryIsTrue
BY JobInvariant, PTL DEF JobInv, JobHistoryIsTrue
-----------------------------------------------------------------------------
(* The revisions of the job are a ledger *)

LEMMA JobLedgerStep ==
  ASSUME JobInv, [JobNext]_jobVars
  PROVE  [JobLedger!Next]_JobLedger!vars
<1>1. CASE job' = job
  <2>1. Latest' = Latest
    BY <1>1 DEF Latest
  <2> QED BY <1>1, <2>1 DEF JobLedger!vars
<1>2. ASSUME NEW p \in Pollers, InsertJobRevision(p), poll[p].base + 1 \notin DOMAIN job
      PROVE  JobLedger!Append("job")
  <2> DEFINE h == Latest
             new == poll[p].new
  <2>1. /\ new \in Snapshots
        /\ DOMAIN job' = 1 .. h + 1 /\ DOMAIN job = 1 .. h
        /\ job'[h + 1] = new /\ \A m \in 1 .. h : job'[m] = job[m]
        /\ h # 0 => Economic(job[h]) # Economic(new) /\ JobMayFollow(job[h], new)
    BY <1>2, InsertedJob
  <2>2. h \in Nat /\ h + 1 \in Nat
    BY LatestType DEF JobInv
  <2>3. ASSUME NEW n \in Nat, DOMAIN job' = 1 .. n
        PROVE  Latest' = n
    <3>1. n \in {0} \cup DOMAIN job' /\ \A m \in DOMAIN job' : m <= n
      BY <2>3
    <3>2. ASSUME NEW k \in {0} \cup DOMAIN job', \A m \in DOMAIN job' : m <= k
          PROVE  k = n
      BY <2>3, <3>2
    <3> QED BY <3>1, <3>2 DEF Latest
  <2>4. Latest' = h + 1
    BY <2>1, <2>2, <2>3
  <2> HIDE DEF h
  <2> DEFINE height == [i \in {"job"} |-> h]
             body == [i \in {"job"} |-> [n \in 1 .. h |-> job[n]]]
             longer == [n \in 1 .. h + 1 |-> IF n <= h THEN body["job"][n] ELSE new]
  <2>5. [i \in {"job"} |-> h + 1] = [height EXCEPT !["job"] = @ + 1]
    OBVIOUS
  <2>6. [n \in 1 .. h + 1 |-> job'[n]] = longer
    <3>1. ASSUME NEW n \in 1 .. h + 1
          PROVE  job'[n] = IF n <= h THEN body["job"][n] ELSE new
      <4>1. n = h + 1 \/ (n \in 1 .. h /\ n <= h)
        BY <2>2, <3>1
      <4> QED BY <2>1, <2>2, <4>1
    <3> QED BY <3>1
  <2>7. [i \in {"job"} |-> [n \in 1 .. h + 1 |-> job'[n]]] = [body EXCEPT !["job"] = longer]
    BY <2>6
  <2>8. h # 0 => <<body["job"][h], new>> \in
                   {q \in Snapshots \X Snapshots :
                      JobMayFollow(q[1], q[2]) /\ Economic(q[1]) # Economic(q[2])}
    <3>1. h # 0 => h \in 1 .. h /\ job[h] \in Snapshots
      BY <2>1, <2>2 DEF JobInv, JobOK
    <3>2. h # 0 => body["job"][h] = job[h]
      BY <3>1
    <3> QED BY <2>1, <3>1, <3>2
  <2>9. height["job"] = h
    OBVIOUS
  <2>10. JobLedger!Append("job")
    <3> DEFINE heights == [i \in {"job"} |-> Latest]
               bodies == [i \in {"job"} |-> [n \in 1 .. Latest |-> job[n]]]
    <3>1. heights = height /\ bodies = body /\ heights["job"] = h
      BY DEF h
    <3>2. heights' = [heights EXCEPT !["job"] = @ + 1]
      BY <2>4, <2>5, <3>1
    <3>3. bodies' = [bodies EXCEPT !["job"] =
             [n \in 1 .. heights["job"] + 1 |->
                IF n <= heights["job"] THEN bodies["job"][n] ELSE new]]
      BY <2>4, <2>7, <3>1
    <3>4. IF heights["job"] = 0 THEN new \in Snapshots
          ELSE <<bodies["job"][heights["job"]], new>> \in
                   {q \in Snapshots \X Snapshots :
                      JobMayFollow(q[1], q[2]) /\ Economic(q[1]) # Economic(q[2])}
      BY <2>1, <2>8, <3>1
    <3> QED BY <2>1, <3>2, <3>3, <3>4, Zenon DEF JobLedger!Append
  <2> QED BY <2>10
<1>3. \/ job' = job
      \/ \E p \in Pollers : InsertJobRevision(p) /\ poll[p].base + 1 \notin DOMAIN job
  BY DEF JobNext, jobVars, Submit, Observe, ReadLatest, CheckRevision, InsertJobRevision,
         Finalized, PollerCrashes, SendPage
<1> QED BY <1>1, <1>2, <1>3 DEF JobLedger!Next

\* The table of a job is an append-only ledger: revisions are appended one by one, each
\* may follow the one before it and says something new, and none is ever changed.
THEOREM JobImplementsLedger == JobSpec => JobIsALedger
<1>1. JobInit => JobLedger!Init
  <2> SUFFICES ASSUME JobInit PROVE JobLedger!Init
    OBVIOUS
  <2>1. DOMAIN job = {}
    BY DEF JobInit
  <2>2. Latest = 0
    BY <2>1 DEF Latest
  <2> QED BY <2>2 DEF JobLedger!Init
<1>2. JobInv /\ [JobNext]_jobVars => [JobLedger!Next]_JobLedger!vars
  BY JobLedgerStep
<1> QED BY <1>1, <1>2, JobInvariant, PTL DEF JobSpec, JobIsALedger, JobLedger!Spec
-----------------------------------------------------------------------------
(***************************************************************************)
(* TaskRollup: any sets of events and pollers.  No cost is counted twice,  *)
(* and what only its owner ends has every event counted.                   *)
(***************************************************************************)
Prices == {0, 1}
Totals == [TaskEvents -> Prices]
Outcome3 == {"pending", "success", "failed"}
TaskRow == [status : Outcome3, total : Totals, job : Nat, net : Nat]
Phases == {"idle", "events", "jobs", "network", "compute", "gpu", "write"}
TaskObject == [at : Phases, status : Outcome3, seen : SUBSET TaskEvents, total : Totals,
               job : Nat, net : Nat]
Handle == [bytes : Nat, frozen : BOOLEAN, ended : BOOLEAN, due : SUBSET TaskEvents]

StoreOK ==
  /\ stored = [e \in DOMAIN stored |-> stored[e]] /\ DOMAIN stored \subseteq TaskEvents
  /\ \A e \in DOMAIN stored : stored[e] \in Prices
  /\ DOMAIN stored \cap purged = {}

ObjectsOK == row \in TaskRow /\ handle \in Handle /\ rollup \in [Writers -> TaskObject]

\* What a roll-up has counted has a price in the store, so that it is not priced again.
Priced(e) == e \in purged \/ (e \in DOMAIN stored /\ stored[e] = 1)
TotalsOK ==
  /\ \A w \in Writers, e \in TaskEvents :
       rollup[w].total[e] = 1 => e \notin NetworkEvents /\ Priced(e)
  /\ \A e \in NetworkEvents : row.total[e] = 0

\* The accountant of the owner emits its events in the one roll-up of the owner.
MetersOK ==
  /\ rollup[Owner].at # "idle" => handle.ended
  /\ ~handle.ended \/ rollup[Owner].at \in {"events", "jobs", "network", "compute"} =>
       OwnerMeters \cap (DOMAIN stored \cup purged) = {}

\* What the roll-up of the owner has counted when it is the only one.
OwnersOK ==
  LET r == rollup[Owner] IN
  /\ \A e \in DOMAIN stored \cap PlainEvents : stored[e] = 1
  /\ handle.ended => handle.due \subseteq DOMAIN stored
  /\ r.at \in {"jobs", "network", "compute", "gpu", "write"} =>
       \A e \in handle.due \ NetworkEvents : r.total[e] = stored[e]
  /\ r.at \in {"gpu", "write"} => /\ \A e \in handle.due \cap ComputeEvents : stored[e] = 1
                                  /\ \A e \in OwnerMeters : r.total[e] = 1
  /\ r.at = "write" => \A e \in handle.due \cap GpuEvents : stored[e] = 1
  /\ r.at \in {"compute", "gpu", "write"} => handle.frozen /\ r.net = handle.bytes
  /\ row.status # "pending" => handle.ended /\ handle.frozen /\ r.at = "idle"

QuietOK ==
  DOMAIN job = {} =>
    /\ \A p \in Pollers : poll[p].at # "finalize" /\ rollup[p].at = "idle"
    /\ purged = {} => OwnersOK /\ EndCountsEveryEventOnce

RollupInv == JobInv /\ StoreOK /\ ObjectsOK /\ TotalsOK /\ MetersOK /\ QuietOK

-----------------------------------------------------------------------------
LEMMA EventKinds ==
  /\ OwnerMeters \subseteq ComputeEvents /\ OwnerMeters \subseteq TaskEvents
  /\ PlainEvents \subseteq TaskEvents /\ ComputeEvents \subseteq TaskEvents
  /\ GpuEvents \subseteq TaskEvents /\ NetworkEvents \subseteq TaskEvents
  /\ NetworkEvents \cap PlainEvents = {} /\ NetworkEvents \cap ComputeEvents = {}
  /\ NetworkEvents \cap GpuEvents = {} /\ NetworkEvents \cap OwnerMeters = {}
  /\ Owner \in Writers /\ Owner \notin Pollers /\ Pollers \subseteq Writers
BY RollupAssumption DEF TaskEvents, Writers

LEMMA StoreIs ==
  ASSUME StoreOK, NEW E \in SUBSET TaskEvents, NEW price \in Prices, Store(E, price),
         E \cap purged = {}, purged' = purged
  PROVE  /\ StoreOK' /\ DOMAIN stored' = DOMAIN stored \cup E
         /\ \A e \in E : stored'[e] = price
         /\ \A e \in DOMAIN stored \ E : stored'[e] = stored[e]
<1>1. /\ DOMAIN stored' = DOMAIN stored \cup E
      /\ stored' = [e \in DOMAIN stored' |-> stored'[e]]
      /\ \A e \in DOMAIN stored' : stored'[e] = IF e \in E THEN price ELSE stored[e]
  BY DEF Store
<1>2. \A e \in DOMAIN stored' : stored'[e] \in Prices
  BY <1>1 DEF StoreOK
<1> QED BY <1>1, <1>2 DEF StoreOK

\* What was priced stays so.
LEMMA PricedStays ==
  ASSUME purged \subseteq purged',
         \A e \in DOMAIN stored \ purged' : e \in DOMAIN stored'
                                            /\ (stored[e] = 1 => stored'[e] = 1)
  PROVE  \A e \in TaskEvents : Priced(e) => Priced(e)'
BY DEF Priced

\* The Task object of one writer changes.
LEMMA ObjectMoves ==
  ASSUME ObjectsOK, NEW w \in Writers, NEW r \in TaskObject, rollup' = [rollup EXCEPT ![w] = r]
  PROVE  /\ rollup' \in [Writers -> TaskObject] /\ rollup'[w] = r
         /\ \A v \in Writers \ {w} : rollup'[v] = rollup[v]
BY DEF ObjectsOK

LEMMA NoRollupIs ==
  /\ NoRollup \in TaskObject /\ NoRollup.at = "idle"
  /\ \A e \in TaskEvents : NoRollup.total[e] # 1
  /\ \A s \in Outcome3 : LET r == [NoRollup EXCEPT !.at = "events", !.status = s] IN
       /\ r \in TaskObject /\ r.at = "events" /\ \A e \in TaskEvents : r.total[e] # 1
<1>1. /\ NoTotals \in Totals /\ \A e \in TaskEvents : NoTotals[e] # 1
  BY DEF NoTotals, Totals, Prices
<1>2. /\ NoRollup \in TaskObject /\ NoRollup.at = "idle" /\ NoRollup.total = NoTotals
  BY <1>1 DEF NoRollup, TaskObject, Phases, Outcome3
<1>3. ASSUME NEW s \in Outcome3
      PROVE  LET r == [NoRollup EXCEPT !.at = "events", !.status = s] IN
             /\ r \in TaskObject /\ r.at = "events" /\ r.total = NoTotals
  <2> DEFINE r == [NoRollup EXCEPT !.at = "events", !.status = s]
  <2>1. r \in TaskObject
    BY <1>2 DEF TaskObject, Phases
  <2>2. r.at = "events" /\ r.total = NoRollup.total
    BY <1>2 DEF TaskObject
  <2> QED BY <1>2, <2>1, <2>2
<1> QED BY <1>1, <1>2, <1>3

\* A quiet step is one of the owner alone.
LEMMA QuietObjects ==
  ASSUME RollupInv, DOMAIN job = {}, NEW w \in Writers, rollup[w].at # "idle"
  PROVE  w = Owner
BY DEF RollupInv, QuietOK, Writers

LEMMA RollupStarts == JobInit /\ RollupInit => RollupInv
<1> SUFFICES ASSUME JobInit, RollupInit PROVE RollupInv
  OBVIOUS
<1>1. JobInv
  BY JobInitInv
<1>2. /\ DOMAIN stored = {} /\ StoreOK /\ purged = {}
  BY DEF RollupInit, StoreOK
<1>3. NoTotals \in Totals /\ \A e \in TaskEvents : NoTotals[e] = 0
  BY DEF NoTotals, Totals, Prices
<1>4. row \in TaskRow /\ row.status = "pending" /\ row.total = NoTotals
  BY <1>3 DEF RollupInit, TaskRow, Outcome3
<1>5. handle \in Handle /\ ~handle.ended
  BY DEF RollupInit, Handle
<1>6. rollup \in [Writers -> TaskObject] /\ \A w \in Writers : rollup[w] = NoRollup
  BY NoRollupIs DEF RollupInit
<1>7. TotalsOK
  BY <1>3, <1>4, <1>6, NoRollupIs, EventKinds DEF TotalsOK
<1>8. MetersOK
  BY <1>2, <1>6, NoRollupIs, EventKinds DEF MetersOK
<1>9. QuietOK
  <2>1. \A p \in Pollers : poll[p].at # "finalize" /\ rollup[p].at = "idle"
    BY <1>6, NoRollupIs, EventKinds DEF JobInit, NoCall
  <2>2. OwnersOK /\ EndCountsEveryEventOnce
    BY <1>2, <1>4, <1>5, <1>6, NoRollupIs, EventKinds DEF OwnersOK, EndCountsEveryEventOnce
  <2> QED BY <2>1, <2>2 DEF QuietOK
<1> QED BY <1>1, <1>2, <1>4, <1>5, <1>6, <1>7, <1>8, <1>9 DEF RollupInv, ObjectsOK

\* An event is stored, priced or not.
LEMMA RecordKeepsTask ==
  ASSUME RollupInv, NEW e \in TaskEvents, Record(e) \/ RecordNetwork(e), UNCHANGED jobVars
  PROVE  RollupInv'
<1>1. /\ JobInv' /\ JobInv /\ StoreOK /\ ObjectsOK /\ TotalsOK /\ MetersOK /\ QuietOK
      /\ UNCHANGED <<job, poll>>
  BY JobStep DEF RollupInv, jobVars
<1>2. /\ New(e) /\ e \notin OwnerMeters /\ UNCHANGED <<purged, row, owns, rollup>>
      /\ e \notin purged /\ e \notin DOMAIN stored
  BY EventKinds DEF Record, RecordNetwork, New
<1>3. PICK price \in Prices : Store({e}, price) /\ (e \in PlainEvents => price = 1)
  <2>1. CASE Record(e)
    <3> DEFINE price == IF e \in PlainEvents THEN 1 ELSE 0
    <3>1. price \in Prices /\ Store({e}, price) /\ (e \in PlainEvents => price = 1)
      BY <2>1 DEF Record, Prices
    <3> QED BY <3>1
  <2>2. CASE RecordNetwork(e)
    <3>1. 0 \in Prices /\ Store({e}, 0) /\ e \notin PlainEvents
      BY <2>2, EventKinds DEF RecordNetwork, Prices
    <3> QED BY <3>1
  <2> QED BY <2>1, <2>2
<1>4. /\ StoreOK' /\ DOMAIN stored' = DOMAIN stored \cup {e} /\ stored'[e] = price
      /\ \A f \in DOMAIN stored : stored'[f] = stored[f]
  <2>1. {e} \in SUBSET TaskEvents /\ {e} \cap purged = {} /\ purged' = purged
    BY <1>2
  <2>2. /\ StoreOK' /\ DOMAIN stored' = DOMAIN stored \cup {e} /\ \A f \in {e} : stored'[f] = price
        /\ \A f \in DOMAIN stored \ {e} : stored'[f] = stored[f]
    BY <1>1, <1>3, <2>1, StoreIs
  <2> QED BY <1>2, <2>2
<1>5. /\ handle' \in Handle /\ handle'.frozen = handle.frozen /\ handle'.ended = handle.ended
      /\ handle'.due = handle.due /\ (handle.frozen => handle'.bytes = handle.bytes)
  <2>1. CASE Record(e)
    BY <1>1, <2>1 DEF Record, ObjectsOK
  <2>2. CASE RecordNetwork(e)
    <3>1. PICK b \in Nat : /\ handle' = [handle EXCEPT !.bytes = b]
                           /\ handle.frozen => b = handle.bytes
      BY <1>1, <2>2 DEF RecordNetwork, ObjectsOK, Handle
    <3> QED BY <1>1, <3>1 DEF ObjectsOK, Handle
  <2> QED BY <2>1, <2>2
<1>6. ObjectsOK'
  BY <1>1, <1>2, <1>5 DEF ObjectsOK
<1>7. TotalsOK'
  <2>1. \A f \in TaskEvents : Priced(f) => Priced(f)'
    BY <1>2, <1>4, PricedStays
  <2> QED BY <1>1, <1>2, <2>1 DEF TotalsOK
<1>8. MetersOK'
  BY <1>1, <1>2, <1>4, <1>5 DEF MetersOK
<1>9. QuietOK'
  <2> SUFFICES ASSUME DOMAIN job = {}, purged = {}
               PROVE  OwnersOK' /\ EndCountsEveryEventOnce'
    BY <1>1, <1>2 DEF QuietOK
  <2>1. OwnersOK /\ EndCountsEveryEventOnce
    BY <1>1 DEF QuietOK
  <2>2. OwnersOK'
    <3>1. \A f \in DOMAIN stored' \cap PlainEvents : stored'[f] = 1
      BY <1>3, <1>4, <2>1 DEF OwnersOK
    <3>2. \A f \in DOMAIN stored : f \in DOMAIN stored' /\ stored'[f] = stored[f]
      BY <1>4
    <3>3. rollup'[Owner].at # "idle" => handle.ended
      BY <1>1, <1>2 DEF MetersOK
    <3>4. handle.ended => handle.due \subseteq DOMAIN stored
      BY <2>1 DEF OwnersOK
    <3>5. /\ rollup' = rollup /\ row' = row /\ handle'.due = handle.due
          /\ handle'.ended = handle.ended /\ handle'.frozen = handle.frozen
          /\ handle.frozen => handle'.bytes = handle.bytes
      BY <1>2, <1>5
    <3> QED BY <2>1, <3>1, <3>2, <3>3, <3>4, <3>5 DEF OwnersOK
  <2>3. EndCountsEveryEventOnce'
    BY <1>2, <1>5, <2>1 DEF OwnersOK, EndCountsEveryEventOnce
  <2> QED BY <2>2, <2>3
<1> QED BY <1>1, <1>4, <1>6, <1>7, <1>8, <1>9 DEF RollupInv

\* A step that changes Task objects, the row or the handle only, and counts nothing new.
LEMMA ObjectsKeep ==
  ASSUME RollupInv, UNCHANGED <<stored, purged>>, JobInv', DOMAIN job' = {} => DOMAIN job = {},
         ObjectsOK', MetersOK',
         \A w \in Writers, e \in TaskEvents :
           rollup'[w].total[e] = 1 => e \notin NetworkEvents /\ Priced(e),
         \A e \in NetworkEvents : row'.total[e] = 0,
         DOMAIN job' = {} =>
           /\ \A p \in Pollers : poll'[p].at # "finalize" /\ rollup'[p].at = "idle"
           /\ purged = {} => OwnersOK' /\ EndCountsEveryEventOnce'
  PROVE  RollupInv'
<1>1. StoreOK' /\ \A e \in TaskEvents : Priced(e)' = Priced(e)
  BY DEF RollupInv, StoreOK, Priced
<1>2. TotalsOK'
  BY <1>1 DEF TotalsOK
<1> QED BY <1>1, <1>2 DEF RollupInv, QuietOK

LEMMA EndTaskKeeps ==
  ASSUME RollupInv, NEW s \in {"success", "failed"}, EndTask(s), UNCHANGED jobVars
  PROVE  RollupInv'
<1>1. /\ JobInv' /\ JobInv /\ StoreOK /\ ObjectsOK /\ TotalsOK /\ MetersOK /\ QuietOK
      /\ UNCHANGED <<job, poll, stored, purged, row>>
  BY JobStep DEF RollupInv, jobVars, EndTask
<1>2. PICK r \in TaskObject : /\ rollup' = [rollup EXCEPT ![Owner] = r] /\ r.at = "events"
                              /\ \A e \in TaskEvents : r.total[e] # 1
  <2> DEFINE r == [NoRollup EXCEPT !.at = "events", !.status = s]
  <2>1. s \in Outcome3 /\ rollup' = [rollup EXCEPT ![Owner] = r]
    BY DEF EndTask, Outcome3
  <2>2. r \in TaskObject /\ r.at = "events" /\ \A e \in TaskEvents : r.total[e] # 1
    BY <2>1, NoRollupIs
  <2> HIDE DEF r
  <2> QED BY <2>1, <2>2
<1>3. /\ rollup' \in [Writers -> TaskObject] /\ rollup'[Owner] = r
      /\ \A v \in Writers \ {Owner} : rollup'[v] = rollup[v]
  BY <1>1, <1>2, EventKinds, ObjectMoves
<1>4. /\ ~handle.ended /\ handle' \in Handle /\ handle'.ended /\ handle'.due = DOMAIN stored
      /\ handle'.bytes = handle.bytes /\ handle'.frozen = handle.frozen
  <2>1. DOMAIN stored \in SUBSET TaskEvents
    BY <1>1 DEF StoreOK
  <2> QED BY <1>1, <2>1 DEF EndTask, ObjectsOK, Handle
<1>5. ObjectsOK'
  BY <1>1, <1>3, <1>4 DEF ObjectsOK
<1>6. MetersOK'
  BY <1>1, <1>4 DEF MetersOK
<1>7. \A w \in Writers, e \in TaskEvents :
        rollup'[w].total[e] = 1 => e \notin NetworkEvents /\ Priced(e)
  BY <1>1, <1>2, <1>3 DEF TotalsOK
<1>8. \A e \in NetworkEvents : row'.total[e] = 0
  BY <1>1 DEF TotalsOK
<1>9. ASSUME DOMAIN job' = {}
      PROVE  /\ \A p \in Pollers : poll'[p].at # "finalize" /\ rollup'[p].at = "idle"
             /\ purged = {} => OwnersOK' /\ EndCountsEveryEventOnce'
  <2>1. \A p \in Pollers : poll'[p].at # "finalize" /\ rollup'[p].at = "idle"
    BY <1>1, <1>3, <1>9, EventKinds DEF QuietOK
  <2>2. ASSUME purged = {} PROVE OwnersOK' /\ EndCountsEveryEventOnce'
    <3>1. OwnersOK /\ row'.status = "pending"
      BY <1>1, <1>4, <1>9, <2>2 DEF QuietOK, OwnersOK
    <3>2. rollup'[Owner].at = "events"
      BY <1>2, <1>3
    <3>3. \A e \in DOMAIN stored' \cap PlainEvents : stored'[e] = 1
      BY <1>1, <3>1 DEF OwnersOK
    <3> QED BY <1>1, <1>4, <3>1, <3>2, <3>3 DEF OwnersOK, EndCountsEveryEventOnce
  <2> QED BY <2>1, <2>2
<1> QED BY <1>1, <1>5, <1>6, <1>7, <1>8, <1>9, ObjectsKeep

LEMMA GetTaskKeeps ==
  ASSUME RollupInv, NEW p \in Pollers, GetTask(p), UNCHANGED jobVars
  PROVE  RollupInv'
<1>1. /\ JobInv' /\ JobInv /\ StoreOK /\ ObjectsOK /\ TotalsOK /\ MetersOK /\ QuietOK
      /\ UNCHANGED <<job, poll, stored, purged, row, handle>>
  BY JobStep DEF RollupInv, jobVars, GetTask
<1>2. PICK r \in TaskObject : /\ rollup' = [rollup EXCEPT ![p] = r] /\ r.at = "events"
                              /\ \A e \in TaskEvents : r.total[e] # 1
  <2>1. PICK s \in Outcome3 : s = row.status
    BY <1>1 DEF ObjectsOK, TaskRow
  <2> DEFINE r == [NoRollup EXCEPT !.at = "events", !.status = s]
  <2>2. rollup' = [rollup EXCEPT ![p] = r]
    BY <2>1 DEF GetTask
  <2>3. r \in TaskObject /\ r.at = "events" /\ \A e \in TaskEvents : r.total[e] # 1
    BY NoRollupIs
  <2> HIDE DEF r
  <2> QED BY <2>2, <2>3
<1>3. /\ rollup' \in [Writers -> TaskObject] /\ rollup'[p] = r
      /\ \A v \in Writers \ {p} : rollup'[v] = rollup[v]
  BY <1>1, <1>2, EventKinds, ObjectMoves
<1>4. ObjectsOK' /\ MetersOK'
  BY <1>1, <1>3, EventKinds DEF ObjectsOK, MetersOK
<1>5. \A w \in Writers, e \in TaskEvents :
        rollup'[w].total[e] = 1 => e \notin NetworkEvents /\ Priced(e)
  BY <1>1, <1>2, <1>3 DEF TotalsOK
<1>6. \A e \in NetworkEvents : row'.total[e] = 0
  BY <1>1 DEF TotalsOK
<1>7. DOMAIN job' # {}
  BY <1>1 DEF GetTask, QuietOK
<1> QED BY <1>1, <1>4, <1>5, <1>6, <1>7, ObjectsKeep

\* What is summed are the prices as they are in the store.
LEMMA SumEventsKeeps ==
  ASSUME RollupInv, NEW w \in Writers, SumEvents(w), UNCHANGED jobVars
  PROVE  RollupInv'
<1>1. /\ JobInv' /\ JobInv /\ StoreOK /\ ObjectsOK /\ TotalsOK /\ MetersOK /\ QuietOK
      /\ UNCHANGED <<job, poll, stored, purged, row, handle>>
  BY JobStep DEF RollupInv, jobVars, SumEvents
<1> DEFINE total == [e \in TaskEvents |-> IF e \in DOMAIN stored \ NetworkEvents
                                          THEN stored[e] ELSE 0]
<1>2. total \in Totals /\ \A e \in TaskEvents :
        /\ total[e] = 1 => e \notin NetworkEvents /\ Priced(e)
        /\ e \in DOMAIN stored \ NetworkEvents => total[e] = stored[e]
  <2>1. \A e \in TaskEvents : total[e] \in Prices
    BY <1>1 DEF StoreOK, Prices
  <2> QED BY <2>1 DEF Totals, Priced
<1> HIDE DEF total
<1>3. PICK r \in TaskObject : /\ rollup' = [rollup EXCEPT ![w] = r] /\ r.at = "jobs"
                              /\ r.total = total
  <2> DEFINE r == [rollup[w] EXCEPT !.at = "jobs", !.seen = DOMAIN stored, !.total = total]
  <2>1. rollup[w] \in TaskObject /\ DOMAIN stored \in SUBSET TaskEvents /\ "jobs" \in Phases
    BY <1>1 DEF ObjectsOK, StoreOK, Phases
  <2>2. r \in TaskObject
    BY <1>2, <2>1 DEF TaskObject
  <2>3. r.at = "jobs" /\ r.total = total
    BY <2>1 DEF TaskObject
  <2>4. rollup' = [rollup EXCEPT ![w] = r]
    BY <1>1 DEF SumEvents, total, ObjectsOK
  <2> HIDE DEF r
  <2> QED BY <2>2, <2>3, <2>4
<1>4. /\ rollup' \in [Writers -> TaskObject] /\ rollup'[w] = r
      /\ \A v \in Writers \ {w} : rollup'[v] = rollup[v]
  BY <1>1, <1>3, ObjectMoves
<1>5. rollup[w].at = "events"
  BY DEF SumEvents
<1>6. ObjectsOK' /\ MetersOK'
  BY <1>1, <1>3, <1>4, <1>5 DEF ObjectsOK, MetersOK
<1>7. \A v \in Writers, e \in TaskEvents :
        rollup'[v].total[e] = 1 => e \notin NetworkEvents /\ Priced(e)
  BY <1>1, <1>2, <1>3, <1>4 DEF TotalsOK
<1>8. \A e \in NetworkEvents : row'.total[e] = 0
  BY <1>1 DEF TotalsOK
<1>9. ASSUME DOMAIN job' = {}
      PROVE  /\ \A p \in Pollers : poll'[p].at # "finalize" /\ rollup'[p].at = "idle"
             /\ purged = {} => OwnersOK' /\ EndCountsEveryEventOnce'
  <2>1. w = Owner
    BY <1>1, <1>5, <1>9, QuietObjects
  <2>2. \A p \in Pollers : poll'[p].at # "finalize" /\ rollup'[p].at = "idle"
    BY <1>1, <1>4, <1>9, <2>1, EventKinds DEF QuietOK
  <2>3. ASSUME purged = {} PROVE OwnersOK' /\ EndCountsEveryEventOnce'
    <3>1. OwnersOK /\ EndCountsEveryEventOnce
      BY <1>1, <1>9, <2>3 DEF QuietOK
    <3>2. rollup'[Owner] = r /\ r.at = "jobs" /\ handle.ended
      BY <1>1, <1>3, <1>4, <1>5, <2>1 DEF MetersOK
    <3>3. handle.due \subseteq DOMAIN stored /\ handle.due \subseteq TaskEvents
      BY <1>1, <3>1, <3>2 DEF OwnersOK, StoreOK
    <3>4. \A e \in handle.due \ NetworkEvents : r.total[e] = stored[e]
      BY <1>2, <1>3, <3>3
    <3>5. row.status = "pending"
      BY <1>5, <2>1, <3>1 DEF OwnersOK
    <3> QED BY <1>1, <3>1, <3>2, <3>4, <3>5 DEF OwnersOK, EndCountsEveryEventOnce
  <2> QED BY <2>2, <2>3
<1> QED BY <1>1, <1>6, <1>7, <1>8, <1>9, ObjectsKeep

LEMMA SumJobsKeeps ==
  ASSUME RollupInv, NEW w \in Writers, SumJobs(w), UNCHANGED jobVars
  PROVE  RollupInv'
<1>1. /\ JobInv' /\ JobInv /\ StoreOK /\ ObjectsOK /\ TotalsOK /\ MetersOK /\ QuietOK
      /\ UNCHANGED <<job, poll, stored, purged, row, handle>>
  BY JobStep DEF RollupInv, jobVars, SumJobs
<1>2. PICK r \in TaskObject : /\ rollup' = [rollup EXCEPT ![w] = r] /\ r.at = "network"
                              /\ r.total = rollup[w].total
  <2> DEFINE j == IF Latest # 0 /\ job[Latest].status \in Terminal THEN Latest ELSE 0
             r == [rollup[w] EXCEPT !.at = "network", !.job = j]
  <2>1. rollup[w] \in TaskObject /\ j \in Nat /\ "network" \in Phases
    BY <1>1, LatestType DEF ObjectsOK, JobInv, Phases
  <2>2. rollup' = [rollup EXCEPT ![w] = r]
    BY <1>1 DEF SumJobs, ObjectsOK
  <2> HIDE DEF j
  <2>3. r \in TaskObject
    BY <2>1 DEF TaskObject
  <2>4. r.at = "network" /\ r.total = rollup[w].total
    BY <2>1 DEF TaskObject
  <2> HIDE DEF r
  <2> QED BY <2>2, <2>3, <2>4
<1>3. /\ rollup' \in [Writers -> TaskObject] /\ rollup'[w] = r
      /\ \A v \in Writers \ {w} : rollup'[v] = rollup[v]
  BY <1>1, <1>2, ObjectMoves
<1>4. rollup[w].at = "jobs"
  BY DEF SumJobs
<1>5. ObjectsOK' /\ MetersOK'
  BY <1>1, <1>2, <1>3, <1>4 DEF ObjectsOK, MetersOK
<1>6. \A v \in Writers, e \in TaskEvents :
        rollup'[v].total[e] = 1 => e \notin NetworkEvents /\ Priced(e)
  BY <1>1, <1>2, <1>3 DEF TotalsOK
<1>7. \A e \in NetworkEvents : row'.total[e] = 0
  BY <1>1 DEF TotalsOK
<1>8. ASSUME DOMAIN job' = {}
      PROVE  /\ \A p \in Pollers : poll'[p].at # "finalize" /\ rollup'[p].at = "idle"
             /\ purged = {} => OwnersOK' /\ EndCountsEveryEventOnce'
  <2>1. w = Owner
    BY <1>1, <1>4, <1>8, QuietObjects
  <2>2. \A p \in Pollers : poll'[p].at # "finalize" /\ rollup'[p].at = "idle"
    BY <1>1, <1>3, <1>8, <2>1, EventKinds DEF QuietOK
  <2>3. ASSUME purged = {} PROVE OwnersOK' /\ EndCountsEveryEventOnce'
    <3>1. OwnersOK /\ EndCountsEveryEventOnce
      BY <1>1, <1>8, <2>3 DEF QuietOK
    <3>2. rollup'[Owner] = r /\ r.at = "network" /\ r.total = rollup[Owner].total
      BY <1>2, <1>3, <2>1
    <3> QED BY <1>1, <1>4, <2>1, <3>1, <3>2 DEF OwnersOK, EndCountsEveryEventOnce
  <2> QED BY <2>2, <2>3
<1> QED BY <1>1, <1>5, <1>6, <1>7, <1>8, ObjectsKeep

\* The bytes of the owner's network calls are taken, and their events are priced.
LEMMA SumNetworkKeeps ==
  ASSUME RollupInv, NEW w \in Writers, SumNetwork(w), UNCHANGED jobVars
  PROVE  RollupInv'
<1>1. /\ JobInv' /\ JobInv /\ StoreOK /\ ObjectsOK /\ TotalsOK /\ MetersOK /\ QuietOK
      /\ UNCHANGED <<job, poll, purged, row>> /\ rollup[w].at = "network"
  BY JobStep DEF RollupInv, jobVars, SumNetwork
<1> DEFINE E == rollup[w].seen \cap NetworkEvents \cap DOMAIN stored
<1>2. /\ E \in SUBSET TaskEvents /\ E \subseteq NetworkEvents /\ E \subseteq DOMAIN stored
      /\ E \cap purged = {} /\ 1 \in Prices /\ Store(E, 1)
  BY <1>1, EventKinds DEF SumNetwork, StoreOK, Prices
<1> HIDE DEF E
<1>3. /\ StoreOK' /\ DOMAIN stored' = DOMAIN stored
      /\ \A e \in E : stored'[e] = 1
      /\ \A e \in DOMAIN stored \ E : stored'[e] = stored[e]
  <2>1. /\ StoreOK' /\ DOMAIN stored' = DOMAIN stored \cup E
        /\ \A e \in E : stored'[e] = 1
        /\ \A e \in DOMAIN stored \ E : stored'[e] = stored[e]
    BY <1>1, <1>2, StoreIs
  <2> QED BY <1>2, <2>1
<1>4. PICK r \in TaskObject : /\ rollup' = [rollup EXCEPT ![w] = r] /\ r.at = "compute"
                              /\ r.total = rollup[w].total
                              /\ w = Owner => r.net = handle.bytes
  <2> DEFINE b == IF w = Owner THEN handle.bytes ELSE 0
             r == [rollup[w] EXCEPT !.at = "compute", !.net = b]
  <2>1. rollup[w] \in TaskObject /\ b \in Nat /\ "compute" \in Phases
    BY <1>1 DEF ObjectsOK, Handle, Phases
  <2>2. rollup' = [rollup EXCEPT ![w] = r] /\ (w = Owner => b = handle.bytes)
    BY <1>1 DEF SumNetwork, ObjectsOK
  <2> HIDE DEF b
  <2>3. r \in TaskObject
    BY <2>1 DEF TaskObject
  <2>4. r.at = "compute" /\ r.total = rollup[w].total /\ r.net = b
    BY <2>1 DEF TaskObject
  <2> HIDE DEF r
  <2> QED BY <2>2, <2>3, <2>4
<1>5. /\ rollup' \in [Writers -> TaskObject] /\ rollup'[w] = r
      /\ \A v \in Writers \ {w} : rollup'[v] = rollup[v]
  BY <1>1, <1>4, ObjectMoves
<1>6. /\ handle' \in Handle /\ (handle.frozen => handle'.frozen) /\ (w = Owner => handle'.frozen)
      /\ handle'.ended = handle.ended /\ handle'.due = handle.due /\ handle'.bytes = handle.bytes
  <2>1. PICK f \in BOOLEAN : /\ handle' = [handle EXCEPT !.frozen = f]
                             /\ f = (handle.frozen \/ w = Owner)
    BY <1>1 DEF SumNetwork, ObjectsOK, Handle
  <2> QED BY <1>1, <2>1 DEF ObjectsOK, Handle
<1>7. ObjectsOK' /\ MetersOK'
  BY <1>1, <1>3, <1>4, <1>5, <1>6 DEF ObjectsOK, MetersOK
<1>8. TotalsOK'
  <2>1. \A f \in TaskEvents : Priced(f) => Priced(f)'
    BY <1>1, <1>3, PricedStays
  <2> QED BY <1>1, <1>4, <1>5, <2>1 DEF TotalsOK
<1>9. QuietOK'
  <2> SUFFICES ASSUME DOMAIN job = {}
               PROVE  /\ \A p \in Pollers : poll'[p].at # "finalize" /\ rollup'[p].at = "idle"
                      /\ purged = {} => OwnersOK' /\ EndCountsEveryEventOnce'
    BY <1>1 DEF QuietOK
  <2>1. w = Owner
    BY <1>1, QuietObjects
  <2>2. \A p \in Pollers : poll'[p].at # "finalize" /\ rollup'[p].at = "idle"
    BY <1>1, <1>5, <2>1, EventKinds DEF QuietOK
  <2>3. ASSUME purged = {} PROVE OwnersOK' /\ EndCountsEveryEventOnce'
    <3>1. OwnersOK /\ EndCountsEveryEventOnce
      BY <1>1, <2>3 DEF QuietOK
    <3>2. rollup'[Owner] = r /\ r.at = "compute" /\ r.total = rollup[Owner].total
          /\ r.net = handle'.bytes /\ handle'.frozen /\ rollup[Owner].at = "network"
      BY <1>1, <1>4, <1>5, <1>6, <2>1
    <3>3. row'.status = "pending"
      BY <1>1, <3>1, <3>2 DEF OwnersOK
    <3>4. \A e \in DOMAIN stored \ NetworkEvents : stored'[e] = stored[e]
      BY <1>2, <1>3
    <3>5. /\ \A e \in DOMAIN stored' \cap PlainEvents : stored'[e] = 1
          /\ handle'.ended => handle'.due \subseteq DOMAIN stored'
      BY <1>3, <1>6, <3>1, <3>4, EventKinds DEF OwnersOK
    <3>6. handle.ended
      BY <1>1, <3>2 DEF MetersOK
    <3>7. \A e \in handle'.due \ NetworkEvents : r.total[e] = stored'[e]
      BY <1>6, <3>1, <3>2, <3>4, <3>6 DEF OwnersOK
    <3> QED BY <3>2, <3>3, <3>5, <3>7 DEF OwnersOK, EndCountsEveryEventOnce
  <2> QED BY <2>2, <2>3
<1> QED BY <1>1, <1>3, <1>7, <1>8, <1>9 DEF RollupInv

\* Pricing what has no price yet: what was counted before is not counted again.
LEMMA BackfillIs ==
  ASSUME RollupInv, NEW w \in Writers, NEW E \in SUBSET TaskEvents, E \cap NetworkEvents = {},
         NEW next \in Phases, Backfill(w, E, next), UNCHANGED jobVars,
         \A e \in E : e \in DOMAIN stored \/ New(e)
  PROVE  /\ JobInv' /\ StoreOK' /\ TotalsOK' /\ rollup' \in [Writers -> TaskObject]
         /\ UNCHANGED <<job, poll, purged, row, handle>>
         /\ DOMAIN stored' = DOMAIN stored \cup E
         /\ \A e \in E : stored'[e] = 1
         /\ \A e \in DOMAIN stored \ E : stored'[e] = stored[e]
         /\ \A v \in Writers \ {w} : rollup'[v] = rollup[v]
         /\ rollup'[w].at = next /\ rollup'[w].net = rollup[w].net
         /\ \A e \in TaskEvents \ E : rollup'[w].total[e] = rollup[w].total[e]
         /\ \A e \in E : e \notin DOMAIN stored \/ rollup[w].total[e] = stored[e] =>
              rollup'[w].total[e] = 1
<1>1. /\ JobInv' /\ JobInv /\ StoreOK /\ ObjectsOK /\ TotalsOK
      /\ UNCHANGED <<job, poll, purged, row, handle>>
  BY JobStep DEF RollupInv, jobVars, Backfill
<1> DEFINE U == {e \in E : New(e) \/ stored[e] = 0}
           total == [e \in TaskEvents |-> rollup[w].total[e] + (IF e \in U THEN 1 ELSE 0)]
<1>2. /\ U \in SUBSET TaskEvents /\ U \subseteq E /\ Store(U, 1) /\ 1 \in Prices
      /\ \A e \in U : ~Priced(e) /\ e \notin purged
      /\ \A e \in E \ U : e \in DOMAIN stored /\ stored[e] = 1
  <2>1. \A e \in U : ~Priced(e) /\ e \notin purged
    BY <1>1 DEF New, Priced, StoreOK
  <2>2. \A e \in E \ U : e \in DOMAIN stored /\ stored[e] = 1
    BY <1>1 DEF New, StoreOK, Prices
  <2> QED BY <2>1, <2>2 DEF Backfill, Prices
<1>3. /\ StoreOK' /\ DOMAIN stored' = DOMAIN stored \cup U
      /\ \A e \in U : stored'[e] = 1
      /\ \A e \in DOMAIN stored \ U : stored'[e] = stored[e]
  <2>1. U \cap purged = {} /\ purged' = purged
    BY <1>1, <1>2
  <2> HIDE DEF U
  <2> QED BY <1>1, <1>2, <2>1, StoreIs
<1>4. rollup[w] \in TaskObject /\ rollup[w].total \in Totals
  <2>1. rollup[w] \in TaskObject
    BY <1>1 DEF ObjectsOK
  <2> QED BY <2>1 DEF TaskObject
<1>5. /\ total \in Totals
      /\ \A e \in U : rollup[w].total[e] = 0 /\ total[e] = 1
      /\ \A e \in TaskEvents \ U : total[e] = rollup[w].total[e]
  <2> HIDE DEF U
  <2>1. \A e \in U : rollup[w].total[e] = 0
    BY <1>1, <1>2, <1>4 DEF TotalsOK, Totals, Prices
  <2>2. /\ \A e \in U : total[e] = 1
        /\ \A e \in TaskEvents \ U : total[e] = rollup[w].total[e]
    BY <1>2, <1>4, <2>1 DEF Totals, Prices
  <2>3. total \in Totals
    BY <1>4, <2>1, <2>2 DEF Totals, Prices
  <2> QED BY <2>1, <2>2, <2>3
<1>6. PICK r \in TaskObject : /\ rollup' = [rollup EXCEPT ![w] = r] /\ r.at = next
                              /\ r.total = total /\ r.net = rollup[w].net
  <2>1. rollup' = [rollup EXCEPT ![w] = [rollup[w] EXCEPT !.at = next, !.total = total]]
    BY <1>1, <1>4 DEF Backfill, ObjectsOK, TaskObject
  <2> HIDE DEF total, U
  <2> DEFINE r == [rollup[w] EXCEPT !.at = next, !.total = total]
  <2>2. r \in TaskObject
    BY <1>4, <1>5 DEF TaskObject
  <2>3. r.at = next /\ r.total = total /\ r.net = rollup[w].net
    BY <1>4 DEF TaskObject
  <2>4. rollup' = [rollup EXCEPT ![w] = r]
    BY <2>1
  <2> HIDE DEF r
  <2> QED BY <2>2, <2>3, <2>4
<1> HIDE DEF total, U
<1>7. /\ rollup' \in [Writers -> TaskObject] /\ rollup'[w] = r
      /\ \A v \in Writers \ {w} : rollup'[v] = rollup[v]
  BY <1>1, <1>6, ObjectMoves
<1>8. /\ \A e \in TaskEvents \ E : r.total[e] = rollup[w].total[e]
      /\ \A e \in E : e \notin DOMAIN stored \/ rollup[w].total[e] = stored[e] => r.total[e] = 1
  <2>1. \A e \in TaskEvents \ E : r.total[e] = rollup[w].total[e]
    BY <1>2, <1>5, <1>6
  <2>2. ASSUME NEW e \in E, e \notin DOMAIN stored \/ rollup[w].total[e] = stored[e]
        PROVE  r.total[e] = 1
    <3>1. CASE e \in U
      BY <1>5, <1>6, <3>1
    <3>2. CASE e \notin U
      BY <1>2, <1>5, <1>6, <2>2, <3>2
    <3> QED BY <3>1, <3>2
  <2> QED BY <2>1, <2>2
<1>9. TotalsOK'
  <2>1. \A f \in TaskEvents : Priced(f) => Priced(f)'
    BY <1>1, <1>2, <1>3, PricedStays
  <2>2. ASSUME NEW e \in TaskEvents, r.total[e] = 1 PROVE e \notin NetworkEvents /\ Priced(e)'
    <3>1. CASE e \in U
      BY <1>2, <1>3, <3>1 DEF Priced
    <3>2. CASE e \notin U
      BY <1>1, <1>5, <1>6, <2>1, <2>2, <3>2 DEF TotalsOK
    <3> QED BY <3>1, <3>2
  <2>3. ASSUME NEW v \in Writers, NEW e \in TaskEvents, rollup'[v].total[e] = 1
        PROVE  e \notin NetworkEvents /\ Priced(e)'
    <3>1. CASE v = w
      BY <1>7, <2>2, <2>3, <3>1
    <3>2. CASE v # w
      BY <1>1, <1>7, <2>1, <2>3, <3>2 DEF TotalsOK
    <3> QED BY <3>1, <3>2
  <2>4. \A e \in NetworkEvents : row'.total[e] = 0
    BY <1>1 DEF TotalsOK
  <2> QED BY <2>3, <2>4 DEF TotalsOK
<1>10. /\ DOMAIN stored' = DOMAIN stored \cup E
       /\ \A e \in E : stored'[e] = 1
       /\ \A e \in DOMAIN stored \ E : stored'[e] = stored[e]
  BY <1>2, <1>3
<1>11. /\ rollup'[w].at = next /\ rollup'[w].net = rollup[w].net
  BY <1>6, <1>7
<1> QED BY <1>1, <1>3, <1>7, <1>8, <1>9, <1>10, <1>11

LEMMA FinalizeComputeKeeps ==
  ASSUME RollupInv, NEW w \in Writers, FinalizeCompute(w), UNCHANGED jobVars
  PROVE  RollupInv'
<1> DEFINE E == (DOMAIN stored \cap ComputeEvents) \cup (IF w = Owner THEN OwnerMeters ELSE {})
<1>1. /\ StoreOK /\ ObjectsOK /\ TotalsOK /\ MetersOK /\ QuietOK /\ rollup[w].at = "compute"
      /\ Backfill(w, E, "gpu")
  BY DEF RollupInv, FinalizeCompute
<1>2. /\ E \in SUBSET TaskEvents /\ E \subseteq ComputeEvents /\ E \cap NetworkEvents = {}
      /\ \A e \in E : e \in DOMAIN stored \/ New(e)
      /\ w # Owner => E \subseteq DOMAIN stored
      /\ w = Owner => OwnerMeters \subseteq E /\ OwnerMeters \cap DOMAIN stored = {}
      /\ DOMAIN stored \cap ComputeEvents \subseteq E
      /\ "gpu" \in Phases
  BY <1>1, EventKinds DEF MetersOK, New, Phases
<1> HIDE DEF E
<1>3. /\ JobInv' /\ StoreOK' /\ TotalsOK' /\ rollup' \in [Writers -> TaskObject]
      /\ UNCHANGED <<job, poll, purged, row, handle>>
      /\ DOMAIN stored' = DOMAIN stored \cup E
      /\ \A e \in E : stored'[e] = 1
      /\ \A e \in DOMAIN stored \ E : stored'[e] = stored[e]
      /\ \A v \in Writers \ {w} : rollup'[v] = rollup[v]
      /\ rollup'[w].at = "gpu" /\ rollup'[w].net = rollup[w].net
      /\ \A e \in TaskEvents \ E : rollup'[w].total[e] = rollup[w].total[e]
      /\ \A e \in E : e \notin DOMAIN stored \/ rollup[w].total[e] = stored[e] =>
           rollup'[w].total[e] = 1
  <2>1. /\ E \in SUBSET TaskEvents /\ E \cap NetworkEvents = {} /\ "gpu" \in Phases
        /\ Backfill(w, E, "gpu") /\ \A e \in E : e \in DOMAIN stored \/ New(e)
    BY <1>1, <1>2
  <2> QED BY <2>1, BackfillIs
<1>4. ObjectsOK'
  BY <1>1, <1>3 DEF ObjectsOK
<1>5. MetersOK'
  <2>1. CASE w = Owner
    BY <1>1, <1>3, <2>1 DEF MetersOK
  <2>2. CASE w # Owner
    BY <1>1, <1>2, <1>3, <2>2, EventKinds DEF MetersOK
  <2> QED BY <2>1, <2>2
<1>6. QuietOK'
  <2> SUFFICES ASSUME DOMAIN job = {}
               PROVE  /\ \A p \in Pollers : poll'[p].at # "finalize" /\ rollup'[p].at = "idle"
                      /\ purged = {} => OwnersOK' /\ EndCountsEveryEventOnce'
    BY <1>3 DEF QuietOK
  <2>1. w = Owner
    BY <1>1, QuietObjects
  <2>2. \A p \in Pollers : poll'[p].at # "finalize" /\ rollup'[p].at = "idle"
    BY <1>1, <1>3, <2>1, EventKinds DEF QuietOK
  <2>3. ASSUME purged = {} PROVE OwnersOK' /\ EndCountsEveryEventOnce'
    <3>1. OwnersOK /\ EndCountsEveryEventOnce
      BY <1>1, <2>3 DEF QuietOK
    <3>2. /\ rollup'[Owner].at = "gpu" /\ rollup[Owner].at = "compute" /\ handle.ended
          /\ rollup'[Owner].net = rollup[Owner].net
      BY <1>1, <1>3, <2>1 DEF MetersOK
    <3>3. /\ row'.status = "pending" /\ handle'.frozen /\ rollup'[Owner].net = handle'.bytes
          /\ handle' = handle
      BY <1>3, <3>1, <3>2 DEF OwnersOK
    <3>4. /\ handle.due \subseteq DOMAIN stored /\ handle.due \subseteq TaskEvents
          /\ \A e \in handle.due \ NetworkEvents : rollup[Owner].total[e] = stored[e]
      BY <1>1, <3>1, <3>2 DEF OwnersOK, StoreOK
    <3>5. /\ \A e \in DOMAIN stored' \cap PlainEvents : stored'[e] = 1
          /\ handle.due \subseteq DOMAIN stored'
      BY <1>3, <3>1, <3>4 DEF OwnersOK
    <3>6. \A e \in handle.due \ NetworkEvents : rollup'[Owner].total[e] = stored'[e]
      BY <1>3, <2>1, <3>4
    <3>7. \A e \in handle.due \cap ComputeEvents : stored'[e] = 1
      BY <1>2, <1>3, <3>4
    <3>8. \A e \in OwnerMeters : rollup'[Owner].total[e] = 1
      BY <1>2, <1>3, <2>1
    <3> QED BY <3>2, <3>3, <3>5, <3>6, <3>7, <3>8 DEF OwnersOK, EndCountsEveryEventOnce
  <2> QED BY <2>2, <2>3
<1> QED BY <1>3, <1>4, <1>5, <1>6 DEF RollupInv

LEMMA FinalizeGpuKeeps ==
  ASSUME RollupInv, NEW w \in Writers, FinalizeGpu(w), UNCHANGED jobVars
  PROVE  RollupInv'
<1> DEFINE E == DOMAIN stored \cap GpuEvents
<1>1. /\ StoreOK /\ ObjectsOK /\ TotalsOK /\ MetersOK /\ QuietOK /\ rollup[w].at = "gpu"
      /\ Backfill(w, E, "write")
  BY DEF RollupInv, FinalizeGpu
<1>2. /\ E \in SUBSET TaskEvents /\ E \subseteq DOMAIN stored /\ E \cap NetworkEvents = {}
      /\ \A e \in E : e \in DOMAIN stored \/ New(e)
      /\ E = DOMAIN stored \cap GpuEvents /\ "write" \in Phases
  BY <1>1, EventKinds DEF Phases
<1> HIDE DEF E
<1>3. /\ JobInv' /\ StoreOK' /\ TotalsOK' /\ rollup' \in [Writers -> TaskObject]
      /\ UNCHANGED <<job, poll, purged, row, handle>>
      /\ DOMAIN stored' = DOMAIN stored \cup E
      /\ \A e \in E : stored'[e] = 1
      /\ \A e \in DOMAIN stored \ E : stored'[e] = stored[e]
      /\ \A v \in Writers \ {w} : rollup'[v] = rollup[v]
      /\ rollup'[w].at = "write" /\ rollup'[w].net = rollup[w].net
      /\ \A e \in TaskEvents \ E : rollup'[w].total[e] = rollup[w].total[e]
      /\ \A e \in E : e \notin DOMAIN stored \/ rollup[w].total[e] = stored[e] =>
           rollup'[w].total[e] = 1
  <2>1. /\ E \in SUBSET TaskEvents /\ E \cap NetworkEvents = {} /\ "write" \in Phases
        /\ Backfill(w, E, "write") /\ \A e \in E : e \in DOMAIN stored \/ New(e)
    BY <1>1, <1>2
  <2> QED BY <2>1, BackfillIs
<1>4. ObjectsOK'
  BY <1>1, <1>3 DEF ObjectsOK
<1>5. MetersOK'
  <2>1. CASE w = Owner
    BY <1>1, <1>3, <2>1 DEF MetersOK
  <2>2. CASE w # Owner
    BY <1>1, <1>2, <1>3, <2>2, EventKinds DEF MetersOK
  <2> QED BY <2>1, <2>2
<1>6. QuietOK'
  <2> SUFFICES ASSUME DOMAIN job = {}
               PROVE  /\ \A p \in Pollers : poll'[p].at # "finalize" /\ rollup'[p].at = "idle"
                      /\ purged = {} => OwnersOK' /\ EndCountsEveryEventOnce'
    BY <1>3 DEF QuietOK
  <2>1. w = Owner
    BY <1>1, QuietObjects
  <2>2. \A p \in Pollers : poll'[p].at # "finalize" /\ rollup'[p].at = "idle"
    BY <1>1, <1>3, <2>1, EventKinds DEF QuietOK
  <2>3. ASSUME purged = {} PROVE OwnersOK' /\ EndCountsEveryEventOnce'
    <3>1. OwnersOK /\ EndCountsEveryEventOnce
      BY <1>1, <2>3 DEF QuietOK
    <3>2. /\ rollup'[Owner].at = "write" /\ rollup[Owner].at = "gpu" /\ handle.ended
          /\ rollup'[Owner].net = rollup[Owner].net
      BY <1>1, <1>3, <2>1 DEF MetersOK
    <3>3. /\ row'.status = "pending" /\ handle'.frozen /\ rollup'[Owner].net = handle'.bytes
          /\ handle' = handle
      BY <1>3, <3>1, <3>2 DEF OwnersOK
    <3>4. /\ handle.due \subseteq DOMAIN stored /\ handle.due \subseteq TaskEvents
          /\ \A e \in handle.due \ NetworkEvents : rollup[Owner].total[e] = stored[e]
          /\ \A e \in handle.due \cap ComputeEvents : stored[e] = 1
          /\ \A e \in OwnerMeters : rollup[Owner].total[e] = 1
      BY <1>1, <3>1, <3>2 DEF OwnersOK, StoreOK
    <3>5. \A e \in DOMAIN stored : stored[e] = 1 => stored'[e] = 1
      BY <1>3
    <3>6. /\ \A e \in DOMAIN stored' \cap PlainEvents : stored'[e] = 1
          /\ handle.due \subseteq DOMAIN stored'
          /\ \A e \in handle.due \cap ComputeEvents : stored'[e] = 1
      BY <1>2, <1>3, <3>1, <3>4, <3>5 DEF OwnersOK
    <3>7. \A e \in handle.due \ NetworkEvents : rollup'[Owner].total[e] = stored'[e]
      BY <1>3, <2>1, <3>4
    <3>8. \A e \in handle.due \cap GpuEvents : stored'[e] = 1
      BY <1>2, <1>3, <3>4
    <3>9. \A e \in OwnerMeters : rollup'[Owner].total[e] = 1
      <4> SUFFICES ASSUME NEW e \in OwnerMeters PROVE rollup'[Owner].total[e] = 1
        OBVIOUS
      <4>1. CASE e \notin E
        BY <1>3, <2>1, <3>4, <4>1, EventKinds
      <4>2. CASE e \in E
        <5>1. rollup[Owner].total[e] = 1 /\ e \in TaskEvents /\ e \in DOMAIN stored
          BY <1>2, <3>4, <4>2, EventKinds
        <5>2. Priced(e)
          BY <1>1, <5>1, EventKinds DEF TotalsOK
        <5>3. stored[e] = 1
          BY <2>3, <5>2 DEF Priced
        <5> QED BY <1>3, <2>1, <4>2, <5>1, <5>3
      <4> QED BY <4>1, <4>2
    <3> QED BY <3>2, <3>3, <3>6, <3>7, <3>8, <3>9 DEF OwnersOK, EndCountsEveryEventOnce
  <2> QED BY <2>2, <2>3
<1> QED BY <1>3, <1>4, <1>5, <1>6 DEF RollupInv

\* The row is written, by the owner or by a poller whose job has ended.
LEMMA WriteKeeps ==
  ASSUME RollupInv, NEW w \in Writers, NEW status \in Outcome3, UpdateTask(w, status), JobInv',
         job' = job, w = Owner \/ DOMAIN job # {}, w = Owner => poll' = poll
  PROVE  RollupInv'
<1>1. /\ JobInv /\ StoreOK /\ ObjectsOK /\ TotalsOK /\ MetersOK /\ QuietOK
      /\ UNCHANGED <<stored, purged, handle>> /\ rollup[w].at = "write"
  BY DEF RollupInv, UpdateTask
<1>2. /\ rollup' \in [Writers -> TaskObject] /\ rollup'[w] = NoRollup
      /\ \A v \in Writers \ {w} : rollup'[v] = rollup[v]
  BY <1>1, ObjectMoves, NoRollupIs DEF UpdateTask
<1>3. /\ row' \in TaskRow /\ row'.total = rollup[w].total /\ row'.net = rollup[w].net
  <2>1. rollup[w] \in TaskObject
    BY <1>1 DEF ObjectsOK
  <2> DEFINE r == [status |-> status, total |-> rollup[w].total, job |-> rollup[w].job,
                   net |-> rollup[w].net]
  <2>2. r \in TaskRow /\ row' = r
    BY <2>1 DEF TaskObject, TaskRow, UpdateTask
  <2>3. r.total = rollup[w].total /\ r.net = rollup[w].net
    OBVIOUS
  <2> HIDE DEF r
  <2> QED BY <2>2, <2>3
<1>4. ObjectsOK'
  BY <1>1, <1>2, <1>3 DEF ObjectsOK
<1>5. MetersOK'
  <2>1. CASE w = Owner
    <3>1. rollup'[Owner].at = "idle" /\ rollup[Owner].at = "write" /\ handle.ended
      BY <1>1, <1>2, <2>1, NoRollupIs DEF MetersOK
    <3> QED BY <1>1, <3>1 DEF MetersOK
  <2>2. CASE w # Owner
    <3>1. rollup'[Owner] = rollup[Owner]
      BY <1>2, <2>2, EventKinds
    <3> QED BY <1>1, <3>1 DEF MetersOK
  <2> QED BY <2>1, <2>2
<1>6. \A v \in Writers, e \in TaskEvents :
        rollup'[v].total[e] = 1 => e \notin NetworkEvents /\ Priced(e)
  <2> SUFFICES ASSUME NEW v \in Writers, NEW e \in TaskEvents, rollup'[v].total[e] = 1
               PROVE  e \notin NetworkEvents /\ Priced(e)
    OBVIOUS
  <2>1. v # w
    BY <1>2, NoRollupIs
  <2>2. rollup'[v] = rollup[v]
    BY <1>2, <2>1
  <2> QED BY <1>1, <2>2 DEF TotalsOK
<1>7. \A e \in NetworkEvents : row'.total[e] = 0
  <2>1. rollup[w].total \in Totals
    BY <1>1 DEF ObjectsOK, TaskObject
  <2> QED BY <1>1, <1>3, <2>1, EventKinds DEF TotalsOK, Totals, Prices
<1>8. ASSUME DOMAIN job' = {}
      PROVE  /\ \A p \in Pollers : poll'[p].at # "finalize" /\ rollup'[p].at = "idle"
             /\ purged = {} => OwnersOK' /\ EndCountsEveryEventOnce'
  <2>1. w = Owner /\ poll' = poll
    BY <1>8
  <2>2. \A p \in Pollers : poll'[p].at # "finalize" /\ rollup'[p].at = "idle"
    BY <1>1, <1>2, <1>8, <2>1, EventKinds DEF QuietOK
  <2>3. ASSUME purged = {} PROVE OwnersOK' /\ EndCountsEveryEventOnce'
    <3>1. OwnersOK
      BY <1>1, <1>8, <2>3 DEF QuietOK
    <3>2. rollup'[Owner].at = "idle" /\ rollup[Owner].at = "write" /\ handle.ended
      BY <1>1, <1>2, <2>1, NoRollupIs DEF MetersOK
    <3>3. OwnersOK'
      BY <1>1, <3>1, <3>2 DEF OwnersOK
    <3>4. ASSUME NEW e \in handle.due \ NetworkEvents PROVE rollup[Owner].total[e] = 1
      <4>1. e \in DOMAIN stored /\ rollup[Owner].total[e] = stored[e]
        BY <3>1, <3>2, <3>4 DEF OwnersOK
      <4>2. e \in PlainEvents \/ e \in ComputeEvents \/ e \in GpuEvents
        BY <1>1, <3>4, <4>1 DEF StoreOK, TaskEvents
      <4> QED BY <3>1, <3>2, <3>4, <4>1, <4>2 DEF OwnersOK
    <3>5. /\ \A e \in OwnerMeters : rollup[Owner].total[e] = 1
          /\ rollup[Owner].net = handle.bytes
      BY <3>1, <3>2 DEF OwnersOK
    <3>6. EndCountsEveryEventOnce'
      BY <1>1, <1>3, <2>1, <3>4, <3>5 DEF EndCountsEveryEventOnce
    <3> QED BY <3>3, <3>6
  <2> QED BY <2>2, <2>3
<1> QED BY <1>1, <1>4, <1>5, <1>6, <1>7, <1>8, ObjectsKeep

LEMMA PollerWritesKeep ==
  ASSUME RollupInv, NEW p \in Pollers, PollerWrites(p)
  PROVE  RollupInv'
<1>1. JobInv /\ QuietOK /\ ObjectsOK /\ Finalized(p) /\ UpdateTask(p, JobStatus(p))
  BY DEF RollupInv, PollerWrites
<1>2. JobInv' /\ job' = job /\ DOMAIN job # {} /\ p \in Writers /\ p # Owner
  <2>1. JobNext
    BY <1>1 DEF JobNext
  <2> QED BY <1>1, <2>1, JobStep, EventKinds DEF Finalized, QuietOK
<1>3. JobStatus(p) \in Outcome3
  BY <1>1, <1>2 DEF JobStatus, ObjectsOK, TaskObject, Outcome3
<1> QED BY <1>1, <1>2, <1>3, WriteKeeps

LEMMA OwnerWritesKeep ==
  ASSUME RollupInv, OwnerWrites, UNCHANGED jobVars
  PROVE  RollupInv'
<1>1. JobInv' /\ job' = job /\ poll' = poll /\ ObjectsOK
  BY JobStep DEF RollupInv, jobVars
<1>2. rollup[Owner].status \in Outcome3
  BY <1>1, EventKinds DEF ObjectsOK, TaskObject
<1> QED BY <1>1, <1>2, EventKinds, WriteKeeps DEF OwnerWrites

LEMMA PurgeKeeps ==
  ASSUME RollupInv, NEW e \in TaskEvents, PurgeEvent(e), UNCHANGED jobVars
  PROVE  RollupInv'
<1>1. /\ JobInv' /\ JobInv /\ StoreOK /\ ObjectsOK /\ TotalsOK /\ MetersOK /\ QuietOK
      /\ UNCHANGED <<job, poll, row, handle, rollup>>
      /\ e \in DOMAIN stored /\ purged' = purged \cup {e}
      /\ stored' = [f \in DOMAIN stored \ {e} |-> stored[f]]
  BY JobStep DEF RollupInv, jobVars, PurgeEvent
<1>2. /\ DOMAIN stored' = DOMAIN stored \ {e}
      /\ \A f \in DOMAIN stored' : stored'[f] = stored[f]
      /\ stored' = [f \in DOMAIN stored' |-> stored'[f]]
  BY <1>1
<1>3. StoreOK' /\ ObjectsOK'
  BY <1>1, <1>2 DEF StoreOK, ObjectsOK
<1>4. TotalsOK'
  <2>1. \A f \in TaskEvents : Priced(f) => Priced(f)'
    BY <1>1, <1>2, PricedStays
  <2> QED BY <1>1, <2>1 DEF TotalsOK
<1>5. MetersOK'
  <2>1. DOMAIN stored' \cup purged' = DOMAIN stored \cup purged
    BY <1>1, <1>2
  <2> QED BY <1>1, <2>1 DEF MetersOK
<1>6. QuietOK'
  BY <1>1 DEF QuietOK
<1> QED BY <1>1, <1>3, <1>4, <1>5, <1>6 DEF RollupInv

LEMMA OwnerCrashKeeps ==
  ASSUME RollupInv, OwnerCrashes, UNCHANGED jobVars
  PROVE  RollupInv'
<1>1. /\ JobInv' /\ JobInv /\ StoreOK /\ ObjectsOK /\ TotalsOK /\ MetersOK /\ QuietOK
      /\ UNCHANGED <<job, poll, stored, purged, row>> /\ rollup[Owner].at # "idle"
  BY JobStep DEF RollupInv, jobVars, OwnerCrashes
<1>2. /\ rollup' \in [Writers -> TaskObject] /\ rollup'[Owner] = NoRollup
      /\ \A v \in Writers \ {Owner} : rollup'[v] = rollup[v]
  BY <1>1, EventKinds, NoRollupIs, ObjectMoves DEF OwnerCrashes
<1>3. /\ handle' \in Handle /\ handle'.frozen /\ handle'.ended = handle.ended
      /\ handle'.due = handle.due /\ handle'.bytes = handle.bytes /\ handle.ended
  BY <1>1 DEF OwnerCrashes, ObjectsOK, Handle, MetersOK
<1>4. ObjectsOK' /\ MetersOK'
  BY <1>1, <1>2, <1>3, NoRollupIs DEF ObjectsOK, MetersOK
<1>5. /\ \A v \in Writers, e \in TaskEvents :
           rollup'[v].total[e] = 1 => e \notin NetworkEvents /\ Priced(e)
      /\ \A e \in NetworkEvents : row'.total[e] = 0
  <2>1. ASSUME NEW v \in Writers, NEW e \in TaskEvents, rollup'[v].total[e] = 1
        PROVE  e \notin NetworkEvents /\ Priced(e)
    <3>1. v # Owner
      BY <1>2, <2>1, NoRollupIs
    <3>2. rollup'[v] = rollup[v]
      BY <1>2, <3>1
    <3> QED BY <1>1, <2>1, <3>2 DEF TotalsOK
  <2>2. \A e \in NetworkEvents : row'.total[e] = 0
    BY <1>1 DEF TotalsOK
  <2> QED BY <2>1, <2>2
<1>6. ASSUME DOMAIN job' = {}
      PROVE  /\ \A p \in Pollers : poll'[p].at # "finalize" /\ rollup'[p].at = "idle"
             /\ purged = {} => OwnersOK' /\ EndCountsEveryEventOnce'
  <2>1. \A p \in Pollers : poll'[p].at # "finalize" /\ rollup'[p].at = "idle"
    BY <1>1, <1>2, <1>6, EventKinds DEF QuietOK
  <2>2. ASSUME purged = {} PROVE OwnersOK' /\ EndCountsEveryEventOnce'
    <3>1. OwnersOK
      BY <1>1, <1>6, <2>2 DEF QuietOK
    <3>2. rollup'[Owner].at = "idle" /\ row'.status = "pending"
      BY <1>1, <1>2, <3>1, NoRollupIs DEF OwnersOK
    <3> QED BY <1>1, <1>3, <3>1, <3>2 DEF OwnersOK, EndCountsEveryEventOnce
  <2> QED BY <2>1, <2>2
<1> QED BY <1>1, <1>4, <1>5, <1>6, ObjectsKeep

LEMMA PollerCrashKeeps ==
  ASSUME RollupInv, NEW p \in Pollers, PollerCrashes(p),
         rollup' = [rollup EXCEPT ![p] = NoRollup], UNCHANGED <<stored, purged, row, owns, handle>>
  PROVE  RollupInv'
<1>1. /\ JobInv /\ StoreOK /\ ObjectsOK /\ TotalsOK /\ MetersOK /\ QuietOK /\ job' = job
  BY DEF RollupInv, PollerCrashes
<1>2. JobInv'
  <2>1. JobNext
    BY DEF JobNext
  <2> QED BY <1>1, <2>1, JobStep
<1>3. /\ rollup' \in [Writers -> TaskObject] /\ rollup'[p] = NoRollup
      /\ \A v \in Writers \ {p} : rollup'[v] = rollup[v]
      /\ rollup'[Owner] = rollup[Owner]
  BY <1>1, EventKinds, NoRollupIs, ObjectMoves
<1>4. ObjectsOK' /\ MetersOK'
  BY <1>1, <1>3 DEF ObjectsOK, MetersOK
<1>5. /\ \A v \in Writers, e \in TaskEvents :
           rollup'[v].total[e] = 1 => e \notin NetworkEvents /\ Priced(e)
      /\ \A e \in NetworkEvents : row'.total[e] = 0
  BY <1>1, <1>3, NoRollupIs DEF TotalsOK
<1>6. ASSUME DOMAIN job' = {}
      PROVE  /\ \A q \in Pollers : poll'[q].at # "finalize" /\ rollup'[q].at = "idle"
             /\ purged = {} => OwnersOK' /\ EndCountsEveryEventOnce'
  <2>1. poll' = [poll EXCEPT ![p] = NoCall] /\ NoCall.at = "idle" /\ poll \in [Pollers -> JobCalls]
    BY <1>1, NoCallOK DEF PollerCrashes, EndCall, JobInv, PollsOK
  <2>2. \A q \in Pollers : poll'[q].at # "finalize" /\ rollup'[q].at = "idle"
    BY <1>1, <1>3, <1>6, <2>1, NoRollupIs, EventKinds DEF QuietOK
  <2>3. ASSUME purged = {} PROVE OwnersOK' /\ EndCountsEveryEventOnce'
    <3>1. OwnersOK /\ EndCountsEveryEventOnce
      BY <1>1, <1>6, <2>3 DEF QuietOK
    <3> QED BY <1>3, <3>1 DEF OwnersOK, EndCountsEveryEventOnce
  <2> QED BY <2>2, <2>3
<1> QED BY <1>1, <1>2, <1>4, <1>5, <1>6, ObjectsKeep

\* Before the first revision is stored, no poller has a task to finalize.
LEMMA FirstRevisionComesFirst ==
  ASSUME RollupInv, JobSteps, DOMAIN job' = {}
  PROVE  DOMAIN job = {} /\ \A p \in Pollers : poll'[p].at # "finalize"
<1>1. poll \in [Pollers -> JobCalls]
  BY DEF RollupInv, JobInv, PollsOK
<1> DEFINE Moved(p, at) == \A q \in Pollers : poll'[q].at = IF q = p THEN at ELSE poll[q].at
<1>2. ASSUME NEW p \in Pollers, EndCall(p) PROVE Moved(p, "idle")
  BY <1>1, <1>2, NoCallOK DEF EndCall
<1>3. ASSUME NEW p \in Pollers, Conflict(p) PROVE Moved(p, "idle") \/ Moved(p, "read")
  <2>1. CASE EndCall(p)
    BY <1>2, <2>1
  <2>2. CASE poll' = [poll EXCEPT ![p].at = "read", ![p].tries = @ + 1]
    BY <1>1, <2>2 DEF JobCalls
  <2> QED BY <1>3, <2>1, <2>2 DEF Conflict
<1>4. CASE SendPage
  BY <1>4 DEF SendPage, RollupInv, QuietOK
<1>5. ASSUME NEW p \in Pollers, NEW s \in Snapshots, Submit(p, s) \/ Observe(p, s)
      PROVE  job' = job /\ (Moved(p, "check") \/ Moved(p, "read"))
  BY <1>1, <1>5 DEF Submit, Observe
<1>6. ASSUME NEW p \in Pollers, ReadLatest(p)
      PROVE  job' = job /\ (Moved(p, "check") \/ Moved(p, "idle"))
  <2>1. CASE EndCall(p)
    BY <1>2, <1>6, <2>1 DEF ReadLatest
  <2>2. CASE poll' = [poll EXCEPT ![p].at = "check", ![p].base = Latest]
    BY <1>1, <1>6, <2>2 DEF ReadLatest, JobCalls
  <2> QED BY <1>6, <2>1, <2>2 DEF ReadLatest
<1>7. ASSUME NEW p \in Pollers, CheckRevision(p), DOMAIN job = {}
      PROVE  Moved(p, "read") \/ Moved(p, "insert") \/ Moved(p, "idle")
  <2>1. CASE Go(p, "insert")
    BY <1>1, <2>1 DEF Go, JobCalls
  <2> QED BY <1>2, <1>3, <1>7, <2>1 DEF CheckRevision
<1>8. ASSUME NEW p \in Pollers, CheckRevision(p) PROVE job' = job
  BY <1>8 DEF CheckRevision
<1>9. ASSUME NEW p \in Pollers, InsertJobRevision(p) PROVE DOMAIN job' # {}
  BY <1>9 DEF InsertJobRevision
<1>10. DOMAIN job = {}
  BY <1>4, <1>5, <1>6, <1>8, <1>9 DEF JobSteps
<1>11. \A p \in Pollers : poll[p].at # "finalize"
  BY <1>10 DEF RollupInv, QuietOK
<1> QED BY <1>4, <1>5, <1>6, <1>7, <1>9, <1>10, <1>11 DEF JobSteps

LEMMA JobStepsKeep ==
  ASSUME RollupInv, JobSteps \/ UNCHANGED jobVars, UNCHANGED taskVars
  PROVE  RollupInv'
<1>1. /\ JobInv /\ StoreOK /\ ObjectsOK /\ TotalsOK /\ MetersOK /\ QuietOK
      /\ UNCHANGED <<stored, purged, row, handle, rollup>>
  BY DEF RollupInv, taskVars
<1>2. JobInv'
  <2>1. [JobNext]_jobVars
    BY DEF JobSteps, JobNext
  <2> QED BY <1>1, <2>1, JobStep
<1>3. DOMAIN job' = {} => DOMAIN job = {} /\ \A p \in Pollers : poll'[p].at # "finalize"
  <2>1. CASE JobSteps
    BY <2>1, FirstRevisionComesFirst
  <2>2. CASE UNCHANGED jobVars
    BY <1>1, <2>2 DEF jobVars, QuietOK
  <2> QED BY <2>1, <2>2
<1>4. ObjectsOK' /\ MetersOK'
  BY <1>1 DEF ObjectsOK, MetersOK
<1>5. /\ \A v \in Writers, e \in TaskEvents :
           rollup'[v].total[e] = 1 => e \notin NetworkEvents /\ Priced(e)
      /\ \A e \in NetworkEvents : row'.total[e] = 0
  BY <1>1 DEF TotalsOK
<1>6. ASSUME DOMAIN job' = {}
      PROVE  /\ \A q \in Pollers : poll'[q].at # "finalize" /\ rollup'[q].at = "idle"
             /\ purged = {} => OwnersOK' /\ EndCountsEveryEventOnce'
  BY <1>1, <1>3, <1>6 DEF QuietOK, OwnersOK, EndCountsEveryEventOnce
<1> QED BY <1>1, <1>2, <1>3, <1>4, <1>5, <1>6, ObjectsKeep

LEMMA RollupHolds == RollupInv /\ [RollupNext]_allTaskVars => RollupInv'
<1> SUFFICES ASSUME RollupInv, [RollupNext]_allTaskVars PROVE RollupInv'
  OBVIOUS
<1>1. CASE TaskNext /\ UNCHANGED jobVars
  <2>1. ASSUME NEW e \in TaskEvents, Record(e) \/ RecordNetwork(e) \/ PurgeEvent(e)
        PROVE  RollupInv'
    BY <1>1, <2>1, RecordKeepsTask, PurgeKeeps
  <2>2. ASSUME NEW s \in {"success", "failed"}, EndTask(s) PROVE RollupInv'
    BY <1>1, <2>2, EndTaskKeeps
  <2>3. ASSUME NEW w \in Writers, RollupSteps(w) PROVE RollupInv'
    BY <1>1, <2>3, SumEventsKeeps, SumJobsKeeps, SumNetworkKeeps, FinalizeComputeKeeps,
       FinalizeGpuKeeps DEF RollupSteps
  <2>4. ASSUME NEW p \in Pollers, GetTask(p) PROVE RollupInv'
    BY <1>1, <2>4, GetTaskKeeps
  <2>5. CASE OwnerWrites \/ OwnerCrashes
    BY <1>1, <2>5, OwnerWritesKeep, OwnerCrashKeeps
  <2> QED BY <1>1, <2>1, <2>2, <2>3, <2>4, <2>5 DEF TaskNext
<1>2. CASE JobSteps /\ UNCHANGED taskVars
  BY <1>2, JobStepsKeep
<1>3. ASSUME NEW p \in Pollers, PollerWrites(p) PROVE RollupInv'
  BY <1>3, PollerWritesKeep
<1>4. ASSUME NEW p \in Pollers, PollerCrashes(p), rollup' = [rollup EXCEPT ![p] = NoRollup],
             UNCHANGED <<stored, purged, row, owns, handle>>
      PROVE  RollupInv'
  BY <1>4, PollerCrashKeeps
<1>5. CASE UNCHANGED allTaskVars
  BY <1>5, JobStepsKeep DEF allTaskVars
<1> QED BY <1>1, <1>2, <1>3, <1>4, <1>5 DEF RollupNext

\* A roll-up names a revision that is there, and a byte count is of network calls that were
\* made.
Recorded == DOMAIN stored \union purged
CountsAreBounded ==
  /\ row.job \in 0 .. MaxRevisions /\ \A w \in Writers : rollup[w].job \in 0 .. MaxRevisions
  /\ handle.bytes <= Cardinality(NetworkEvents \cap Recorded)
  /\ owns \in BOOLEAN /\ purged \subseteq TaskEvents

LEMMA RecordedGrows ==
  ASSUME Recorded \subseteq Recorded', handle.bytes <= Cardinality(NetworkEvents \cap Recorded),
         RollupInv
  PROVE  handle.bytes <= Cardinality(NetworkEvents \cap Recorded')
<1> DEFINE A == NetworkEvents \cap Recorded
           B == NetworkEvents \cap Recorded'
<1>1. A \subseteq B /\ IsFiniteSet(B) /\ IsFiniteSet(A)
  BY RollupAssumption, FS_Subset
<1>2. Cardinality(A) <= Cardinality(B)
  BY <1>1, FS_Subset
<1>3. Cardinality(A) \in Nat /\ Cardinality(B) \in Nat
  BY <1>1, FS_CardinalityType
<1>4. handle.bytes \in Nat
  BY DEF RollupInv, ObjectsOK, Handle
<1> HIDE DEF A, B
<1>5. handle.bytes <= Cardinality(A) => handle.bytes <= Cardinality(B)
  BY <1>2, <1>3, <1>4
<1> QED BY <1>5 DEF A, B

LEMMA NetworkIsBounded ==
  ASSUME RollupInv, CountsAreBounded, NEW e, RecordNetwork(e)
  PROVE  CountsAreBounded'
<1> DEFINE A == NetworkEvents \cap Recorded
           B == NetworkEvents \cap Recorded'
<1>1. e \in NetworkEvents /\ e \notin Recorded /\ Recorded' = Recorded \union {e}
  BY DEF RecordNetwork, New, Store, Recorded
<1>2. B = A \union {e} /\ e \notin A /\ IsFiniteSet(A)
  BY <1>1, RollupAssumption, FS_Subset
<1>3. Cardinality(B) = Cardinality(A) + 1
  <2> HIDE DEF A, B
  <2> QED BY <1>2, FS_AddElement
<1>4. Cardinality(A) \in Nat
  BY <1>2, FS_CardinalityType
<1>5. handle \in Handle /\ handle.bytes <= Cardinality(A)
  BY DEF RollupInv, ObjectsOK, CountsAreBounded
<1>6. handle'.bytes \in {handle.bytes, handle.bytes + 1}
  BY <1>5 DEF RecordNetwork, Handle
<1>7. handle'.bytes <= Cardinality(B)
  <2> HIDE DEF A, B
  <2> QED BY <1>3, <1>4, <1>5, <1>6 DEF Handle
<1> QED BY <1>7 DEF RecordNetwork, CountsAreBounded

LEMMA OthersAreBounded ==
  ASSUME RollupInv, CountsAreBounded, handle'.bytes = handle.bytes, UNCHANGED owns,
         Recorded \subseteq Recorded', purged' \subseteq TaskEvents,
         row'.job \in 0 .. MaxRevisions,
         \A w \in Writers : rollup'[w].job \in 0 .. MaxRevisions
  PROVE  CountsAreBounded'
BY RecordedGrows DEF CountsAreBounded

LEMMA CountsStayBounded ==
  ASSUME RollupInv, CountsAreBounded, [RollupNext]_allTaskVars
  PROVE  CountsAreBounded'
<1>1. /\ MaxRevisions \in Nat /\ Latest \in 0 .. MaxRevisions /\ 0 \in 0 .. MaxRevisions
      /\ rollup \in [Writers -> TaskObject] /\ handle \in Handle
      /\ DOMAIN stored \subseteq TaskEvents
      /\ NoRollup.job = 0 /\ JobInv
  BY LatestType, JobBounds DEF JobInv, RollupInv, ObjectsOK, StoreOK, NoRollup
<1>2. ASSUME UNCHANGED <<row, purged, owns, handle, rollup>>, DOMAIN stored \subseteq DOMAIN stored'
      PROVE  CountsAreBounded'
  BY <1>2, OthersAreBounded DEF CountsAreBounded, Recorded
<1>3. ASSUME NEW e \in TaskEvents, Record(e) PROVE CountsAreBounded'
  BY <1>2, <1>3 DEF Record, Store
<1>4. ASSUME NEW e \in TaskEvents, PurgeEvent(e) PROVE CountsAreBounded'
  <2>1. Recorded \subseteq Recorded' /\ purged' \subseteq TaskEvents
    BY <1>1, <1>4 DEF PurgeEvent, Recorded, CountsAreBounded
  <2> QED BY <1>4, <2>1, OthersAreBounded DEF PurgeEvent, CountsAreBounded
<1>5. ASSUME UNCHANGED <<row, purged, owns>>, handle'.bytes = handle.bytes,
             DOMAIN stored \subseteq DOMAIN stored',
             NEW w \in Writers, rollup'[w].job \in 0 .. MaxRevisions,
             \A v \in Writers \ {w} : rollup'[v] = rollup[v]
      PROVE  CountsAreBounded'
  <2>1. Recorded \subseteq Recorded' /\ \A v \in Writers : rollup'[v].job \in 0 .. MaxRevisions
    BY <1>5 DEF Recorded, CountsAreBounded
  <2> QED BY <1>5, <2>1, OthersAreBounded DEF CountsAreBounded
<1>6. ASSUME NEW s \in {"success", "failed"}, EndTask(s) PROVE CountsAreBounded'
  <2>1. /\ handle'.bytes = handle.bytes /\ Owner \in Writers
        /\ rollup'[Owner] = [NoRollup EXCEPT !.at = "events", !.status = s]
        /\ \A v \in Writers \ {Owner} : rollup'[v] = rollup[v]
    BY <1>1, <1>6, EventKinds DEF EndTask, Handle
  <2>2. rollup'[Owner].job = 0
    BY <2>1 DEF NoRollup
  <2> QED BY <1>1, <1>5, <1>6, <2>1, <2>2 DEF EndTask
<1>7. ASSUME NEW p \in Pollers, GetTask(p) PROVE CountsAreBounded'
  <2>1. /\ p \in Writers
        /\ rollup'[p] = [NoRollup EXCEPT !.at = "events", !.status = row.status]
        /\ \A v \in Writers \ {p} : rollup'[v] = rollup[v]
    BY <1>1, <1>7, EventKinds DEF GetTask
  <2>2. rollup'[p].job = 0
    BY <2>1 DEF NoRollup
  <2> QED BY <1>1, <1>5, <1>7, <2>1, <2>2 DEF GetTask
<1>8. ASSUME NEW w \in Writers, SumEvents(w) \/ SumJobs(w) PROVE CountsAreBounded'
  <2>1. /\ rollup'[w].job \in {rollup[w].job, Latest, 0}
        /\ \A v \in Writers \ {w} : rollup'[v] = rollup[v]
    BY <1>1, <1>8 DEF SumEvents, SumJobs, TaskObject
  <2> QED BY <1>1, <1>5, <1>8, <2>1 DEF SumEvents, SumJobs, CountsAreBounded
<1>9. ASSUME NEW w \in Writers, SumNetwork(w) PROVE CountsAreBounded'
  <2>1. /\ rollup'[w].job = rollup[w].job /\ handle'.bytes = handle.bytes
        /\ \A v \in Writers \ {w} : rollup'[v] = rollup[v]
    BY <1>1, <1>9 DEF SumNetwork, TaskObject, Handle
  <2> QED BY <1>5, <1>9, <2>1 DEF SumNetwork, Store, CountsAreBounded
<1>10. ASSUME NEW w \in Writers, NEW E, NEW next, Backfill(w, E, next) PROVE CountsAreBounded'
  <2>1. /\ rollup'[w].job = rollup[w].job /\ DOMAIN stored \subseteq DOMAIN stored'
        /\ \A v \in Writers \ {w} : rollup'[v] = rollup[v]
    BY <1>1, <1>10 DEF Backfill, Store, TaskObject
  <2> QED BY <1>5, <1>10, <2>1 DEF Backfill, CountsAreBounded
<1>11. ASSUME NEW w \in Writers, NEW s, UpdateTask(w, s) PROVE CountsAreBounded'
  <2>1. /\ row'.job = rollup[w].job
        /\ \A v \in Writers : rollup'[v].job \in {0, rollup[v].job}
    BY <1>1, <1>11 DEF UpdateTask
  <2> QED BY <1>1, <1>11, <2>1, OthersAreBounded DEF UpdateTask, CountsAreBounded, Recorded
<1>12. ASSUME NEW w \in Writers, rollup' = [rollup EXCEPT ![w] = NoRollup],
              handle' \in {handle, [handle EXCEPT !.frozen = TRUE]},
              UNCHANGED <<stored, purged, row, owns>>
       PROVE  CountsAreBounded'
  <2>1. handle'.bytes = handle.bytes
    BY <1>1, <1>12 DEF Handle
  <2> QED BY <1>1, <1>5, <1>12, <2>1
<1>13. CASE UNCHANGED taskVars
  BY <1>2, <1>13 DEF taskVars
<1>14. ASSUME TaskNext PROVE CountsAreBounded'
  <2>1. ASSUME NEW w \in Writers, RollupSteps(w) PROVE CountsAreBounded'
    BY <1>8, <1>9, <1>10, <2>1 DEF RollupSteps, FinalizeCompute, FinalizeGpu
  <2>2. CASE OwnerWrites \/ OwnerCrashes
    BY <1>11, <1>12, <2>2, EventKinds DEF OwnerWrites, OwnerCrashes
  <2> QED BY <1>3, <1>4, <1>6, <1>7, <1>14, <2>1, <2>2, NetworkIsBounded DEF TaskNext
<1>15. ASSUME NEW p \in Pollers, \/ PollerWrites(p)
                                 \/ /\ rollup' = [rollup EXCEPT ![p] = NoRollup]
                                    /\ UNCHANGED <<stored, purged, row, owns, handle>>
       PROVE  CountsAreBounded'
  BY <1>11, <1>12, <1>15, EventKinds DEF PollerWrites
<1> QED BY <1>13, <1>14, <1>15 DEF RollupNext, allTaskVars

\* Every variable of the roll-up holds a value of its kind, and its counts are of what
\* was recorded (tracker.py _aggregate_costs).
THEOREM RollupTypeCorrect == RollupSpec => []RollupTypeOK
<1>1. JobInit /\ RollupInit => CountsAreBounded
  <2> SUFFICES ASSUME JobInit, RollupInit PROVE CountsAreBounded
    OBVIOUS
  <2>1. NetworkEvents \cap Recorded = {} /\ Cardinality({}) = 0
    BY FS_EmptySet DEF RollupInit, Recorded
  <2>2. Cardinality(NetworkEvents \cap Recorded) = 0
    BY <2>1
  <2>3. handle.bytes = 0 /\ row.job = 0 /\ \A w \in Writers : rollup[w].job = 0
    BY DEF RollupInit, NoRollup
  <2>4. owns \in BOOLEAN /\ purged \subseteq TaskEvents
    BY DEF RollupInit
  <2> QED BY <2>2, <2>3, <2>4, JobBounds DEF CountsAreBounded
<1>2. RollupInv /\ CountsAreBounded => RollupTypeOK
  <2> SUFFICES ASSUME RollupInv, CountsAreBounded PROVE RollupTypeOK
    OBVIOUS
  <2>1. handle.bytes \in 0 .. Cardinality(NetworkEvents)
    <3> DEFINE A == NetworkEvents \cap Recorded
    <3>1. /\ Cardinality(A) \in Nat /\ Cardinality(NetworkEvents) \in Nat
          /\ Cardinality(A) <= Cardinality(NetworkEvents)
      BY RollupAssumption, FS_Subset, FS_CardinalityType
    <3>2. handle.bytes \in Nat /\ handle.bytes <= Cardinality(A)
      BY DEF RollupInv, ObjectsOK, Handle, CountsAreBounded
    <3> HIDE DEF A
    <3> QED BY <3>1, <3>2
  <2>2. /\ row.status \in {"pending", "success", "failed"}
        /\ \A w \in Writers : rollup[w].at \in {"idle", "events", "jobs", "network", "compute",
                                                "gpu", "write"}
    BY DEF RollupInv, ObjectsOK, TaskRow, Outcome3, TaskObject, Phases
  <2> QED BY <2>1, <2>2 DEF RollupInv, StoreOK, Prices, CountsAreBounded, RollupTypeOK
<1>3. RollupSpec => []RollupInv
  BY RollupStarts, RollupHolds, PTL DEF RollupSpec
<1> QED BY <1>1, <1>2, <1>3, CountsStayBounded, PTL DEF RollupSpec

(* Whoever records, ends, polls, purges or crashes meanwhile: no event is  *)
(* counted twice in the row of a task, and no network call beside its      *)
(* bytes; and where the owner alone ends it, the row counts every event    *)
(* recorded before, the bytes and what its own accountant measured         *)
(* (tracker.py _aggregate_costs).                                          *)
THEOREM EventsStayCountedOnce == RollupSpec => []EventsAreCountedOnce
<1>1. ASSUME RollupInv PROVE EventsAreCountedOnce
  <2>1. \A e \in TaskEvents : row.total[e] <= 1
    <3>1. row.total \in Totals
      BY <1>1 DEF RollupInv, ObjectsOK, TaskRow
    <3> QED BY <3>1 DEF Totals, Prices
  <2> QED BY <1>1, <2>1 DEF RollupInv, TotalsOK, QuietOK, EventsAreCountedOnce,
                            NothingIsCountedTwice
<1>2. RollupSpec => []RollupInv
  BY RollupStarts, RollupHolds, PTL DEF RollupSpec
<1> QED BY <1>1, <1>2, PTL
-----------------------------------------------------------------------------
(***************************************************************************)
(* What a roll-up carries to the row: a call that rolls up has stored the  *)
(* terminal revision it ended with, and counts a revision no older; the    *)
(* owner rolls up no task that a job owns.                                 *)
(***************************************************************************)
Late == {"network", "compute", "gpu", "write"}
IsTerminal(n) == n \in DOMAIN job /\ job[n].status \in Terminal

CallSaysTrue(p) ==
  /\ rollup[p].at # "idle" => /\ poll[p].at = "finalize"
                              /\ rollup[p].status = "pending" \/ owns \/ handle.ended
  /\ poll[p].at = "finalize" => \E n \in DOMAIN job : IsTerminal(n) /\ job[n] = poll[p].new
  /\ rollup[p].at \in Late =>
       /\ IsTerminal(rollup[p].job)
       /\ \E n \in 1 .. rollup[p].job : IsTerminal(n) /\ job[n] = poll[p].new

OwnerSaysTrue ==
  /\ rollup[Owner].at # "idle" => handle.ended /\ ~owns
  /\ rollup[Owner].at \in Late /\ rollup[Owner].job # 0 => IsTerminal(rollup[Owner].job)

SayInv ==
  /\ RollupInv /\ OwnerSaysTrue /\ RowSaysWhatItsJobSaid
  /\ \A p \in Pollers : CallSaysTrue(p)

LEMMA EndedStaysEnded ==
  ASSUME \A n \in DOMAIN job : n \in DOMAIN job' /\ job'[n] = job[n]
  PROVE  \A n : IsTerminal(n) => IsTerminal(n)' /\ job'[n] = job[n]
BY DEF IsTerminal

\* A step that leaves the row and every roll-up, and takes no revision away.
LEMMA CallsSayTrue ==
  ASSUME SayInv, RollupInv', UNCHANGED <<row, owns, rollup>>, handle.ended => handle'.ended,
         \A n \in DOMAIN job : n \in DOMAIN job' /\ job'[n] = job[n],
         \A p \in Pollers :
           \/ poll'[p] = poll[p]
           \/ /\ poll[p].at # "finalize"
              /\ poll'[p].at = "finalize" =>
                   \E n \in DOMAIN job' : IsTerminal(n)' /\ job'[n] = poll'[p].new
  PROVE  SayInv'
<1>1. \A n : IsTerminal(n) => IsTerminal(n)' /\ job'[n] = job[n]
  BY EndedStaysEnded
<1>2. OwnerSaysTrue'
  BY <1>1 DEF SayInv, OwnerSaysTrue
<1>3. RowSaysWhatItsJobSaid'
  <2>1. \A n, s : EndsAs(n, s) => EndsAs(n, s)'
    BY DEF EndsAs
  <2> QED BY <2>1 DEF SayInv, RowSaysWhatItsJobSaid
<1>4. ASSUME NEW p \in Pollers PROVE CallSaysTrue(p)'
  <2>1. CASE poll'[p] = poll[p]
    BY <1>1, <2>1 DEF SayInv, CallSaysTrue, IsTerminal
  <2>2. CASE poll[p].at # "finalize"
    <3>1. rollup[p].at = "idle" /\ rollup'[p] = rollup[p]
      BY <2>2 DEF SayInv, CallSaysTrue
    <3>2. poll'[p].at = "finalize" =>
            \E n \in DOMAIN job' : IsTerminal(n)' /\ job'[n] = poll'[p].new
      BY <2>2
    <3> QED BY <3>1, <3>2 DEF CallSaysTrue, Late
  <2> QED BY <2>1, <2>2
<1> QED BY <1>2, <1>3, <1>4 DEF SayInv

\* The calls of the job.
LEMMA JobStepsSayTrue ==
  ASSUME SayInv, RollupInv', JobSteps, UNCHANGED taskVars
  PROVE  SayInv'
<1>1. /\ poll \in [Pollers -> JobCalls] /\ UNCHANGED <<row, owns, rollup, handle>>
      /\ Terminal \cap Pending = {}
  BY DEF SayInv, RollupInv, JobInv, PollsOK, taskVars, Terminal, Pending
<1> DEFINE Kept == \A n \in DOMAIN job : n \in DOMAIN job' /\ job'[n] = job[n]
           Moves(p) == /\ poll[p].at # "finalize"
                       /\ poll'[p].at = "finalize" =>
                            \E n \in DOMAIN job' : IsTerminal(n)' /\ job'[n] = poll'[p].new
                       /\ \A q \in Pollers : q # p => poll'[q] = poll[q]
<1>2. ASSUME NEW p \in Pollers, EndCall(p), poll[p].at # "finalize" PROVE Moves(p)
  <2>1. NoCall.at = "idle"
    BY NoCallOK
  <2> QED BY <1>1, <1>2, <2>1 DEF EndCall
<1>3. ASSUME NEW p \in Pollers, Conflict(p), poll[p].at # "finalize" PROVE Moves(p)
  <2>1. CASE EndCall(p)
    BY <1>2, <1>3, <2>1
  <2>2. CASE poll' = [poll EXCEPT ![p].at = "read", ![p].tries = @ + 1]
    BY <1>1, <1>3, <2>2 DEF JobCalls
  <2> QED BY <1>3, <2>1, <2>2 DEF Conflict
<1>4. ASSUME NEW p \in Pollers, Stored(p), poll[p].at # "finalize", NEW n \in DOMAIN job',
             job'[n] = poll[p].new
      PROVE  Moves(p)
  <2>1. CASE poll[p].new.status \in Terminal
    <3>1. poll'[p] = [NoCall EXCEPT !.at = "finalize", !.new = poll[p].new]
          /\ \A q \in Pollers : q # p => poll'[q] = poll[q]
      BY <1>1, <1>4, <2>1 DEF Stored
    <3>2. poll'[p].new = poll[p].new
      BY <3>1 DEF NoCall
    <3>3. IsTerminal(n)'
      BY <1>4, <2>1 DEF IsTerminal
    <3> QED BY <1>4, <3>1, <3>2, <3>3
  <2>2. CASE poll[p].new.status \notin Terminal
    BY <1>2, <1>4, <2>2 DEF Stored
  <2> QED BY <2>1, <2>2
<1>5. ASSUME NEW p \in Pollers, Moves(p), Kept PROVE SayInv'
  BY <1>1, <1>5, CallsSayTrue
<1> HIDE DEF Kept, Moves
<1>6. ASSUME job' = job PROVE Kept
  BY <1>6 DEF Kept
<1>7. ASSUME NEW p \in Pollers, NEW s \in Snapshots, Submit(p, s) \/ Observe(p, s)
      PROVE  SayInv'
  <2>1. Moves(p) /\ job' = job
    BY <1>1, <1>7 DEF Submit, Observe, Moves
  <2> QED BY <1>5, <1>6, <2>1
<1>8. ASSUME NEW p \in Pollers, ReadLatest(p) PROVE SayInv'
  <2>1. poll[p].at # "finalize" /\ job' = job
    BY <1>8 DEF ReadLatest
  <2>2. CASE EndCall(p)
    BY <1>2, <1>5, <1>6, <2>1, <2>2
  <2>3. CASE poll' = [poll EXCEPT ![p].at = "check", ![p].base = Latest]
    <3>1. Moves(p)
      BY <1>1, <2>1, <2>3 DEF Moves, JobCalls
    <3> QED BY <1>5, <1>6, <2>1, <3>1
  <2> QED BY <1>8, <2>2, <2>3 DEF ReadLatest
<1>9. ASSUME NEW p \in Pollers, CheckRevision(p) PROVE SayInv'
  <2>1. poll[p].at # "finalize" /\ job' = job
    BY <1>9 DEF CheckRevision
  <2>2. \/ Conflict(p) \/ Go(p, "insert") \/ EndCall(p)
        \/ /\ Stored(p) /\ poll[p].base + 1 \in DOMAIN job
           /\ job[poll[p].base + 1] = poll[p].new
    BY <1>9 DEF CheckRevision
  <2>3. CASE Go(p, "insert")
    <3>1. Moves(p)
      BY <1>1, <2>1, <2>3 DEF Moves, Go, JobCalls
    <3> QED BY <1>5, <1>6, <2>1, <3>1
  <2>4. CASE Conflict(p) \/ EndCall(p)
    BY <1>2, <1>3, <1>5, <1>6, <2>1, <2>4
  <2>5. CASE Stored(p) /\ poll[p].base + 1 \in DOMAIN job
             /\ job[poll[p].base + 1] = poll[p].new
    BY <1>4, <1>5, <1>6, <2>1, <2>5
  <2> QED BY <2>2, <2>3, <2>4, <2>5
<1>10. ASSUME NEW p \in Pollers, InsertJobRevision(p) PROVE SayInv'
  <2> DEFINE n == poll[p].base + 1
  <2>1. poll[p].at # "finalize"
    BY <1>10 DEF InsertJobRevision
  <2>2. CASE n \in DOMAIN job
    BY <1>3, <1>5, <1>6, <1>10, <2>1, <2>2 DEF InsertJobRevision
  <2>3. CASE n \notin DOMAIN job
    <3>1. /\ job' = [m \in DOMAIN job \cup {n} |-> IF m = n THEN poll[p].new ELSE job[m]]
          /\ Stored(p)
      BY <1>10, <2>3 DEF InsertJobRevision
    <3> HIDE DEF n
    <3>2. Kept /\ n \in DOMAIN job' /\ job'[n] = poll[p].new
      BY <2>3, <3>1 DEF Kept
    <3> QED BY <1>4, <1>5, <2>1, <3>1, <3>2
  <2> QED BY <2>2, <2>3
<1>11. CASE SendPage
  <2>1. UNCHANGED <<job, poll>>
    BY <1>11 DEF SendPage
  <2> QED BY <1>1, <2>1, CallsSayTrue
<1> QED BY <1>7, <1>8, <1>9, <1>10, <1>11 DEF JobSteps

\* The steps of a roll-up, and of the owner before it writes the row.
LEMMA TaskStepsSayTrue ==
  ASSUME SayInv, TaskNext, ~OwnerWrites, UNCHANGED jobVars, RollupInv'
  PROVE  SayInv'
<1>1. /\ rollup \in [Writers -> TaskObject] /\ Latest' = Latest
      /\ UNCHANGED <<job, poll>> /\ Owner \in Writers /\ Owner \notin Pollers
      /\ Pollers \subseteq Writers
  BY EventKinds DEF SayInv, RollupInv, ObjectsOK, jobVars, Latest
<1> DEFINE Rolls(w) == /\ \A v \in Writers : v # w => rollup'[v] = rollup[v]
                       /\ rollup[w].at # "idle" /\ rollup'[w].status = rollup[w].status
                       /\ rollup'[w].at \in Late =>
                            \/ rollup[w].at \in Late /\ rollup'[w].job = rollup[w].job
                            \/ rollup'[w].job =
                                 IF Latest # 0 /\ job[Latest].status \in Terminal
                                 THEN Latest ELSE 0
                       /\ handle.ended => handle'.ended
<1>2. \A n : IsTerminal(n) <=> IsTerminal(n)'
  BY <1>1 DEF IsTerminal
<1>3. ASSUME UNCHANGED <<row, owns>>, handle.ended => handle'.ended
      PROVE  RowSaysWhatItsJobSaid'
  <2>1. \A n, s : EndsAs(n, s) <=> EndsAs(n, s)'
    BY <1>1 DEF EndsAs
  <2> QED BY <1>1, <1>3, <2>1 DEF SayInv, RowSaysWhatItsJobSaid
<1>4. ASSUME NEW e \in TaskEvents, Record(e) \/ RecordNetwork(e) \/ PurgeEvent(e)
      PROVE  SayInv'
  <2>1. UNCHANGED <<rollup, owns, row>> /\ handle'.ended = handle.ended
    BY <1>4 DEF Record, RecordNetwork, PurgeEvent, SayInv, RollupInv, ObjectsOK, Handle
  <2> QED BY <1>1, <2>1, CallsSayTrue
<1>5. ASSUME NEW s \in {"success", "failed"}, EndTask(s) PROVE SayInv'
  <2>1. /\ ~owns /\ UNCHANGED <<owns, row>> /\ handle'.ended
        /\ \A v \in Writers : v # Owner => rollup'[v] = rollup[v]
    BY <1>1, <1>5 DEF EndTask, SayInv, RollupInv, ObjectsOK, Handle
  <2>2. rollup'[Owner].at = "events"
    <3>1. rollup' = [rollup EXCEPT ![Owner] = [NoRollup EXCEPT !.at = "events", !.status = s]]
      BY <1>5 DEF EndTask
    <3>2. [NoRollup EXCEPT !.at = "events", !.status = s].at = "events"
      BY DEF NoRollup
    <3> QED BY <1>1, <3>1, <3>2
  <2>3. OwnerSaysTrue'
    BY <2>1, <2>2 DEF OwnerSaysTrue, Late
  <2>4. \A p \in Pollers : CallSaysTrue(p)'
    BY <1>1, <1>2, <2>1 DEF SayInv, CallSaysTrue
  <2> QED BY <1>3, <2>1, <2>3, <2>4 DEF SayInv
<1>6. ASSUME NEW p \in Pollers, GetTask(p) PROVE SayInv'
  <2> DEFINE r == [NoRollup EXCEPT !.at = "events", !.status = row.status]
  <2>1. /\ UNCHANGED <<owns, row, handle>> /\ poll[p].at = "finalize"
        /\ rollup' = [rollup EXCEPT ![p] = r]
    BY <1>6 DEF GetTask
  <2>2. r.at = "events" /\ r.status = row.status
    BY DEF NoRollup
  <2> HIDE DEF r
  <2>3. /\ rollup'[p].at = "events" /\ rollup'[p].status = row.status
        /\ \A v \in Writers : v # p => rollup'[v] = rollup[v]
    BY <1>1, <2>1, <2>2
  <2>4. OwnerSaysTrue'
    BY <1>1, <1>2, <2>1, <2>3 DEF SayInv, OwnerSaysTrue
  <2>5. ASSUME NEW q \in Pollers PROVE CallSaysTrue(q)'
    <3>1. CASE q = p
      <4>1. row.status = "pending" \/ owns \/ handle.ended
        BY DEF SayInv, RowSaysWhatItsJobSaid
      <4>2. \E n \in DOMAIN job' : IsTerminal(n)' /\ job'[n] = poll'[p].new
        BY <1>1, <1>2, <2>1 DEF SayInv, CallSaysTrue
      <4> QED BY <1>1, <2>1, <2>3, <3>1, <4>1, <4>2 DEF CallSaysTrue, Late
    <3>2. CASE q # p
      BY <1>1, <1>2, <2>1, <2>3, <3>2 DEF SayInv, CallSaysTrue
    <3> QED BY <3>1, <3>2
  <2> QED BY <1>3, <2>1, <2>4, <2>5 DEF SayInv
<1>7. ASSUME NEW w \in Writers, RollupSteps(w) PROVE Rolls(w) /\ UNCHANGED <<owns, row>>
  <2>1. CASE SumEvents(w)
    BY <1>1, <2>1 DEF SumEvents, TaskObject, Late
  <2>2. CASE SumJobs(w)
    BY <1>1, <2>2 DEF SumJobs, TaskObject, Late
  <2>3. CASE SumNetwork(w)
    BY <1>1, <2>3 DEF SumNetwork, TaskObject, Late, SayInv, RollupInv, ObjectsOK, Handle
  <2>4. CASE FinalizeCompute(w)
    BY <1>1, <2>4 DEF FinalizeCompute, Backfill, TaskObject, Late
  <2>5. CASE FinalizeGpu(w)
    BY <1>1, <2>5 DEF FinalizeGpu, Backfill, TaskObject, Late
  <2> QED BY <1>7, <2>1, <2>2, <2>3, <2>4, <2>5 DEF RollupSteps
<1>8. ASSUME NEW w \in Writers, Rolls(w), UNCHANGED <<owns, row>> PROVE SayInv'
  <2>1. CASE w = Owner
    <3>1. Latest # 0 => Latest \in DOMAIN job
      BY LatestType DEF SayInv, RollupInv, JobInv
    <3>2. OwnerSaysTrue'
      BY <1>1, <1>2, <1>8, <2>1, <3>1 DEF SayInv, OwnerSaysTrue, IsTerminal
    <3>3. \A p \in Pollers : CallSaysTrue(p)'
      BY <1>1, <1>2, <1>8, <2>1 DEF SayInv, CallSaysTrue
    <3> QED BY <1>3, <1>8, <3>2, <3>3 DEF SayInv
  <2>2. CASE w # Owner
    <3>1. w \in Pollers /\ poll[w].at = "finalize"
      BY <1>8, <2>2 DEF Writers, SayInv, CallSaysTrue
    <3>2. PICK n \in DOMAIN job : IsTerminal(n) /\ job[n] = poll[w].new
      BY <3>1 DEF SayInv, CallSaysTrue
    <3>3. /\ Latest \in Nat /\ DOMAIN job = 1 .. Latest
          /\ job[Latest].status \in Terminal /\ Latest # 0
      <4>1. Latest \in Nat /\ DOMAIN job = 1 .. Latest /\ TerminalStaysTerminal
        BY LatestType DEF SayInv, RollupInv, JobInv
      <4>2. Latest \in DOMAIN job /\ (n < Latest \/ n = Latest)
        BY <3>2, <4>1
      <4> QED BY <3>2, <4>1, <4>2 DEF TerminalStaysTerminal, IsTerminal
    <3>4. rollup'[w].at \in Late =>
            /\ IsTerminal(rollup'[w].job)
            /\ \E k \in 1 .. rollup'[w].job : IsTerminal(k) /\ job[k] = poll[w].new
      <4>1. CASE rollup[w].at \in Late /\ rollup'[w].job = rollup[w].job
        BY <3>1, <4>1 DEF SayInv, CallSaysTrue
      <4>2. CASE rollup'[w].job = Latest
        BY <3>2, <3>3, <4>2 DEF IsTerminal
      <4> QED BY <1>8, <3>3, <4>1, <4>2
    <3>5. CallSaysTrue(w)'
      BY <1>1, <1>2, <1>8, <3>1, <3>2, <3>4 DEF SayInv, CallSaysTrue
    <3>6. \A p \in Pollers : CallSaysTrue(p)'
      BY <1>1, <1>2, <1>8, <3>5 DEF SayInv, CallSaysTrue
    <3>7. OwnerSaysTrue'
      BY <1>1, <1>2, <1>8, <2>2 DEF SayInv, OwnerSaysTrue
    <3> QED BY <1>3, <1>8, <3>6, <3>7 DEF SayInv
  <2> QED BY <2>1, <2>2
<1> HIDE DEF Rolls
<1>9. CASE OwnerCrashes
  <2>1. /\ UNCHANGED <<owns, row>> /\ handle'.ended = handle.ended
        /\ \A v \in Writers : v # Owner => rollup'[v] = rollup[v]
    BY <1>1, <1>9 DEF OwnerCrashes, SayInv, RollupInv, ObjectsOK, Handle
  <2>2. rollup'[Owner].at = "idle"
    BY <1>1, <1>9, NoRollupIs DEF OwnerCrashes
  <2>3. OwnerSaysTrue' /\ \A p \in Pollers : CallSaysTrue(p)'
    BY <1>1, <1>2, <2>1, <2>2 DEF SayInv, OwnerSaysTrue, CallSaysTrue, Late
  <2> QED BY <1>3, <2>1, <2>3 DEF SayInv
<1> QED BY <1>4, <1>5, <1>6, <1>7, <1>8, <1>9 DEF TaskNext

\* The row of the task is written with what a roll-up carried.
LEMMA WritingSaysTrue ==
  ASSUME SayInv, RollupInv', NEW w \in Writers, NEW status, UpdateTask(w, status),
         UNCHANGED job,
         \/ w = Owner /\ poll' = poll
         \/ /\ w \in Pollers /\ status = JobStatus(w)
            /\ poll' = [poll EXCEPT ![w] = NoCall]
  PROVE  SayInv'
<1>1. /\ poll \in [Pollers -> JobCalls] /\ rollup \in [Writers -> TaskObject]
      /\ Owner \in Writers /\ Owner \notin Pollers /\ Pollers \subseteq Writers
  BY EventKinds DEF SayInv, RollupInv, JobInv, PollsOK, ObjectsOK
<1>2. /\ UNCHANGED <<owns, handle>> /\ rollup[w].at = "write"
      /\ row'.status = status /\ row'.job = rollup[w].job
      /\ rollup'[w].at = "idle" /\ \A v \in Writers : v # w => rollup'[v] = rollup[v]
  BY <1>1, NoRollupIs DEF UpdateTask
<1>3. \A p \in Pollers : poll'[p] = poll[p] \/ (p = w /\ poll'[p].at = "idle")
  BY <1>1, NoCallOK
<1>4. \A n : IsTerminal(n) <=> IsTerminal(n)'
  BY DEF IsTerminal
<1>5. OwnerSaysTrue' /\ \A p \in Pollers : CallSaysTrue(p)'
  BY <1>1, <1>2, <1>3, <1>4 DEF SayInv, OwnerSaysTrue, CallSaysTrue, Late
<1>6. CASE w = Owner
  <2>1. /\ handle.ended /\ ~owns
        /\ rollup[w].job # 0 => IsTerminal(rollup[w].job)
    BY <1>2, <1>6 DEF SayInv, OwnerSaysTrue, Late
  <2>2. RowSaysWhatItsJobSaid'
    BY <1>2, <2>1 DEF RowSaysWhatItsJobSaid, IsTerminal
  <2> QED BY <1>5, <2>2 DEF SayInv
<1>7. CASE w # Owner
  <2>1. w \in Pollers /\ status = JobStatus(w)
    BY <1>7
  <2>2. /\ IsTerminal(rollup[w].job)
        /\ rollup[w].status = "pending" \/ owns \/ handle.ended
    BY <1>2, <2>1 DEF SayInv, CallSaysTrue, Late
  <2>3. PICK n \in 1 .. rollup[w].job : IsTerminal(n) /\ job[n] = poll[w].new
    BY <1>2, <2>1 DEF SayInv, CallSaysTrue, Late
  <2>4. rollup[w].job # 0
    <3>1. rollup[w].job \in Nat
      BY <1>1 DEF TaskObject
    <3> QED BY <2>3, <3>1
  <2>5. owns => EndsAs(n, status)'
    BY <2>1, <2>3 DEF EndsAs, IsTerminal, JobStatus
  <2>6. ~owns => status = "pending" \/ handle.ended
    BY <2>1, <2>2 DEF JobStatus
  <2>7. RowSaysWhatItsJobSaid'
    BY <1>2, <2>2, <2>3, <2>4, <2>5, <2>6 DEF RowSaysWhatItsJobSaid, IsTerminal
  <2> QED BY <1>5, <2>7 DEF SayInv
<1> QED BY <1>6, <1>7

LEMMA SayInvHolds == SayInv /\ [RollupNext]_allTaskVars => SayInv'
<1> SUFFICES ASSUME SayInv, [RollupNext]_allTaskVars PROVE SayInv'
  OBVIOUS
<1>1. RollupInv' /\ Owner \in Writers /\ Pollers \subseteq Writers
  BY RollupHolds, EventKinds DEF SayInv
<1>2. CASE TaskNext /\ UNCHANGED jobVars
  <2>1. CASE OwnerWrites
    BY <1>1, <1>2, <2>1, WritingSaysTrue DEF OwnerWrites, jobVars
  <2>2. CASE ~OwnerWrites
    BY <1>1, <1>2, <2>2, TaskStepsSayTrue
  <2> QED BY <2>1, <2>2
<1>3. CASE JobSteps /\ UNCHANGED taskVars
  BY <1>1, <1>3, JobStepsSayTrue
<1>4. ASSUME NEW p \in Pollers, PollerWrites(p) PROVE SayInv'
  <2>1. /\ UpdateTask(p, JobStatus(p)) /\ job' = job
        /\ poll' = [poll EXCEPT ![p] = NoCall]
    BY <1>4 DEF PollerWrites, Finalized, EndCall
  <2> QED BY <1>1, <2>1, WritingSaysTrue
<1>5. ASSUME NEW p \in Pollers, PollerCrashes(p), rollup' = [rollup EXCEPT ![p] = NoRollup],
             UNCHANGED <<stored, purged, row, owns, handle>>
      PROVE  SayInv'
  <2>1. /\ poll \in [Pollers -> JobCalls] /\ rollup \in [Writers -> TaskObject]
        /\ Owner \notin Pollers
    BY EventKinds DEF SayInv, RollupInv, JobInv, PollsOK, ObjectsOK
  <2>2. job' = job /\ poll' = [poll EXCEPT ![p] = NoCall]
    BY <1>5 DEF PollerCrashes, EndCall
  <2>3. /\ poll'[p].at = "idle" /\ rollup'[p].at = "idle"
        /\ \A q \in Pollers : q # p => poll'[q] = poll[q] /\ rollup'[q] = rollup[q]
        /\ rollup'[Owner] = rollup[Owner]
    BY <1>1, <1>5, <2>1, <2>2, NoCallOK, NoRollupIs
  <2>4. \A n : IsTerminal(n) <=> IsTerminal(n)'
    BY <2>2 DEF IsTerminal
  <2>5. OwnerSaysTrue' /\ \A q \in Pollers : CallSaysTrue(q)'
    BY <1>5, <2>2, <2>3, <2>4 DEF SayInv, OwnerSaysTrue, CallSaysTrue, Late
  <2>6. RowSaysWhatItsJobSaid'
    <3>1. \A n, s : EndsAs(n, s) <=> EndsAs(n, s)'
      BY <2>2 DEF EndsAs
    <3> QED BY <1>5, <2>2, <3>1 DEF SayInv, RowSaysWhatItsJobSaid
  <2> QED BY <1>1, <2>5, <2>6 DEF SayInv
<1>6. CASE UNCHANGED allTaskVars
  <2>1. UNCHANGED <<job, poll, row, owns, rollup, handle>>
    BY <1>6 DEF allTaskVars, jobVars, taskVars
  <2> QED BY <1>1, <2>1, CallsSayTrue
<1> QED BY <1>2, <1>3, <1>4, <1>5, <1>6 DEF RollupNext

\* However many pollers observe a job, retry, roll its task up at the same time and die: a
\* task the job owns is ended only as a stored terminal revision said, and with the cost of
\* that revision or a later one, and a shared task never before its owner
\* (reconcile_provider_job, _finalize_attached_task).
THEOREM RowsSayWhatTheirJobsSaid == RollupSpec => []RowSaysWhatItsJobSaid
<1>1. JobInit /\ RollupInit => SayInv
  <2> SUFFICES ASSUME JobInit, RollupInit PROVE SayInv
    OBVIOUS
  <2>1. RollupInv
    BY RollupStarts
  <2>2. /\ \A p \in Pollers : poll[p] = NoCall
        /\ \A w \in Writers : rollup[w] = NoRollup
        /\ row.status = "pending" /\ row.job = 0
    BY DEF JobInit, RollupInit
  <2>3. NoCall.at = "idle" /\ NoRollup.at = "idle"
    BY NoCallOK DEF NoRollup
  <2> QED BY <2>1, <2>2, <2>3, EventKinds
      DEF SayInv, OwnerSaysTrue, CallSaysTrue, RowSaysWhatItsJobSaid, Late
<1>2. SayInv => RowSaysWhatItsJobSaid
  BY DEF SayInv
<1> QED BY <1>1, <1>2, SayInvHolds, PTL DEF RollupSpec
=============================================================================
