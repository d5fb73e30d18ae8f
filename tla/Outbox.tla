------------------------------- MODULE Outbox -------------------------------
(***************************************************************************)
(* What the durable buffer of the SDK promises, whoever empties it.        *)
(*                                                                         *)
(* Every telemetry row carries the version of its last write.  A row       *)
(* leaves "pending" in two ways only: the control plane has taken exactly  *)
(* the version the row now has, or the row is set aside.  A write reopens  *)
(* the row, so nothing written later is covered by an older delivery.      *)
(***************************************************************************)
EXTENDS Integers

CONSTANTS Records    \* the rows the application may write

VARIABLES status,    \* [Records -> Status]
          version,   \* [Records -> Nat]: the version of the last write
          accepted   \* the <<record, version>> pairs the control plane has taken

vars == <<status, version, accepted>>

Status == {"absent", "pending", "synced", "quarantined", "purged"}

Init == /\ status = [r \in Records |-> "absent"]
        /\ version = [r \in Records |-> 0]
        /\ accepted = {}

\* Moves the rows of R to status s and leaves every other row as it is.
Move(R, s) ==
  status' = [r \in Records |-> IF r \in R THEN s ELSE status[r]]

\* The application writes a row for the first time.
Create(r) == /\ status[r] = "absent"
             /\ Move({r}, "pending")
             /\ version' = [version EXCEPT ![r] = 0]
             /\ UNCHANGED accepted

\* The application writes a retained row again: it is pending, whatever it was.
Rewrite(r) == /\ status[r] \in {"pending", "synced", "quarantined"}
              /\ Move({r}, "pending")
              /\ version' = [version EXCEPT ![r] = @ + 1]
              /\ UNCHANGED accepted

\* The control plane takes some versions that were written.
Take == /\ accepted \subseteq accepted'
        /\ accepted' \subseteq
             accepted \cup UNION {{r} \X (0 .. version[r]) :
                                    r \in {q \in Records : status[q] # "absent"}}
        /\ UNCHANGED <<status, version>>

\* Rows whose current version was taken are settled.
Settle == /\ \E R \in SUBSET {r \in Records : /\ status[r] = "pending"
                                               /\ <<r, version[r]>> \in accepted} :
               Move(R, "synced")
          /\ UNCHANGED <<version, accepted>>

\* Rows that cannot be delivered are set aside, and may be tried again.
SetAside == /\ \E R \in SUBSET {r \in Records : status[r] = "pending"} :
                 Move(R, "quarantined")
            /\ UNCHANGED <<version, accepted>>

TryAgain == /\ \E R \in SUBSET {r \in Records : status[r] = "quarantined"} :
                 Move(R, "pending")
            /\ UNCHANGED <<version, accepted>>

\* Only settled rows are ever forgotten.
Forget == /\ \E R \in SUBSET {r \in Records : status[r] = "synced"} :
               Move(R, "purged")
          /\ UNCHANGED <<version, accepted>>

Next == \/ \E r \in Records : Create(r) \/ Rewrite(r)
        \/ Take \/ Settle \/ SetAside \/ TryAgain \/ Forget

Spec == Init /\ [][Next]_vars
=============================================================================
