----------------------------- MODULE NetworkTotals -----------------------------
(***************************************************************************)
(* The network totals of one task (network_accountant.py                   *)
(* NetworkAccountant): exchanges add to the totals and to their host, in   *)
(* any thread, until the task ends and the totals are frozen.  Hosts       *)
(* beyond a cap share a row, while it counts as in the report.             *)
(***************************************************************************)
EXTENDS Naturals, FiniteSets, Functions

CONSTANTS Hosts,        \* host names; "_other" is one an application may use
          LiveCap,      \* LIVE_CAP: the hosts that have a row while it counts
          FinalizeCap,  \* FINALIZE_CAP: the hosts that have one in the report
          MaxBytes,     \* bound on the bytes of an exchange
          MaxRecords    \* bound on the exchanges

ASSUME TotalsAssumption ==
  /\ LiveCap \in Nat /\ FinalizeCap \in Nat
  /\ MaxBytes \in Nat /\ MaxRecords \in Nat

Other == "_other"
Columns == {"calls", "bytes", "external"}
Zero == [c \in Columns |-> 0]
AddRow(r, s) == [c \in Columns |-> r[c] + s[c]]
-----------------------------------------------------------------------------
VARIABLES
  table,     \* _hosts: [host -> its row, Zero when it has none]
  rest,     \* _other
  totals,   \* the totals
  frozen,   \* _frozen
  totalsReport \* what finalize returned: a set of [host, row]

totalsVars == <<table, rest, totals, frozen, totalsReport>>

TotalsInit ==
  /\ table = [h \in Hosts |-> Zero] /\ rest = Zero /\ totals = Zero
  /\ frozen = FALSE /\ totalsReport = {}

Seen == {h \in Hosts : table[h] # Zero}

RecordBytes ==
  \E host \in Hosts, bytes \in 0 .. MaxBytes, internal \in BOOLEAN :
    LET more == [calls |-> 1, bytes |-> bytes, external |-> IF internal THEN 0 ELSE bytes]
        own  == host \in Seen \/ Cardinality(Seen) < LiveCap
    IN  /\ ~frozen /\ totals.calls < MaxRecords
        /\ totals' = AddRow(totals, more)
        /\ table' = IF own THEN [table EXCEPT ![host] = AddRow(@, more)] ELSE table
        /\ rest' = IF own THEN rest ELSE AddRow(rest, more)
        /\ UNCHANGED <<frozen, totalsReport>>

\* The heaviest hosts; hosts of the same weight come in the order they were met.
Heaviest == {top \in SUBSET Seen :
          /\ Cardinality(top) = IF Cardinality(Seen) < FinalizeCap THEN Cardinality(Seen)
                                ELSE FinalizeCap
          /\ \A h \in top, g \in Seen \ top : table[h].bytes >= table[g].bytes}

SumOf(hosts) == [c \in Columns |-> SumFunctionOnSet([h \in Hosts |-> table[h][c]], hosts)]

Named(top) == top \ {Other}

\* Mutant: the hosts that do not make the report are forgotten.
SharedLive(top) == rest

Shared(top) == AddRow(rest, SumOf(Seen \ Named(top)))

FinalizeTotals ==
  \E top \in Heaviest :
    /\ frozen' = TRUE
    /\ totalsReport' = {[host |-> h, row |-> table[h]] : h \in Named(top)}
         \union (IF Shared(top).calls > 0 THEN {[host |-> Other, row |-> Shared(top)]} ELSE {})
    /\ UNCHANGED <<table, rest, totals>>

TotalsNext == RecordBytes \/ FinalizeTotals

TotalsSpec == TotalsInit /\ [][TotalsNext]_totalsVars
-----------------------------------------------------------------------------
\* The rows of the report add up to the totals, in each of their columns, however many
\* hosts there were (record, finalize).
ReportAddsUp ==
  frozen => \A c \in Columns : SumFunction([r \in totalsReport |-> r.row[c]]) = totals[c]

\* The report names every host once, no more than it may, and none that is lighter than
\* one it leaves out (finalize).
ReportNamesTheHeaviest ==
  LET names == {r.host : r \in totalsReport}
  IN  frozen => /\ Cardinality(names) = Cardinality(totalsReport)
                /\ Cardinality(names) <= FinalizeCap + 1
                /\ \A h \in names \ {Other}, g \in Seen \ (names \union {Other}) :
                     table[h].bytes >= table[g].bytes

\* The report of a task is complete and names the hosts that matter (finalize).
ReportIsTrue == ReportAddsUp /\ ReportNamesTheHeaviest
=============================================================================
