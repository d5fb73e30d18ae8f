--------------------------- MODULE RevisionLedger ---------------------------
(***************************************************************************)
(* What an append-only ledger of revisions promises, whoever writes to it: *)
(* every record has the revisions 1, 2, ... without a gap, a revision once *)
(* written stays as it is, and each one may follow the one before it.      *)
(***************************************************************************)
EXTENDS Naturals

CONSTANTS LedgerIds,   \* the records that have revisions
          Bodies,      \* what a revision can say
          Openings,    \* the bodies a first revision may have
          Follows      \* the pairs <<before, after>> of consecutive bodies

VARIABLES height,      \* [LedgerIds -> Nat]: the number of revisions
          body         \* [LedgerIds -> [1 .. height -> Bodies]]

vars == <<height, body>>

Init == /\ height = [i \in LedgerIds |-> 0]
        /\ body = [i \in LedgerIds |-> [n \in 1 .. 0 |-> {}]]

\* One revision more of i, and nothing else.
Append(i) ==
  /\ height' = [height EXCEPT ![i] = @ + 1]
  /\ \E b \in Bodies :
       /\ IF height[i] = 0 THEN b \in Openings
                           ELSE <<body[i][height[i]], b>> \in Follows
       /\ body' = [body EXCEPT ![i] =
                    [n \in 1 .. height[i] + 1 |-> IF n <= height[i] THEN body[i][n] ELSE b]]

Next == \E i \in LedgerIds : Append(i)

Spec == Init /\ [][Next]_vars
=============================================================================
