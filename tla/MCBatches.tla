----------------------------- MODULE MCBatches ------------------------------
(***************************************************************************)
(* SyncDelivery with a lone worker and rows that nobody rewrites: what the *)
(* cutting of a batch, lost answers and crashes make of it.  Nothing fits  *)
(* but a single record, so that a batch is cut to the end.                 *)
(***************************************************************************)
EXTENDS Naturals

CONSTANTS BatchRows,    \* a batch of events, finished tasks and a revenue
          StreamRows,   \* a batch of revisions only
          RowEvents, RowJobs, RowTasks, RowOutcomes, RowRevenues

VARIABLES rowStatus, rowVersion, rowContent, taken, named, lost, place, tried, newer, locals

Delivery == INSTANCE SyncDelivery WITH
  Events <- RowEvents, Jobs <- RowJobs, Tasks <- RowTasks, Outcomes <- RowOutcomes,
  Revenues <- RowRevenues, Workers <- {"w"}, EventContents <- {"plain"},
  TaskContents <- {"final"}, RevisionContents <- {"plain"}, BatchSize <- 2, ScanLimit <- 2,
  TaskLimit <- 2, MaxPayload <- 1, MaxVersion <- 0, MayFail <- FALSE,
  status <- rowStatus, version <- rowVersion, content <- rowContent, accepted <- taken,
  identified <- named, unanswered <- lost, pc <- place, recovered <- tried,
  upgraded <- newer, cycle <- locals

rowVars == <<rowStatus, rowVersion, rowContent, taken, named, lost, place, tried, newer, locals>>

Rows(R) == Delivery!Next /\ \A r \in Delivery!Records : rowStatus'[r] # "absent" => r \in R

-----------------------------------------------------------------------------
\* A finished task counts as delivered only with its identity, however the batch was cut.
IdentityTravelsWithTask == Delivery!IdentityTravelsWithTask

\* A lone worker posts again only what it could not know to be taken.
NoNeedlessReplay == Delivery!NoNeedlessReplay

\* A lone worker leaves nothing pending of the batch it delivered.
FinishedCycleSettlesItsBatch == Delivery!FinishedCycleSettlesItsBatch

\* However a batch is cut, tasks are posted before events, and each stream in the order
\* of its query.
PostedInOrder == Delivery!PostedInOrder
=============================================================================
