--------------------------- MODULE MCSyncDelivery ---------------------------
(***************************************************************************)
(* SyncDelivery with two workers over one file, as after a fork or after a *)
(* close whose join gave up (sync.py:260).  The workers are alike, so      *)
(* behaviours that differ by their names only are checked once.            *)
(***************************************************************************)
EXTENDS SyncDelivery, TLC

WorkerSymmetry == Permutations(Workers)
=============================================================================
