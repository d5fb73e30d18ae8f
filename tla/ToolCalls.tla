------------------------------- MODULE ToolCalls -------------------------------
(***************************************************************************)
(* Functions decorated as tools (tool_tracking.py, track_tool) and as      *)
(* tasks (track_task), nested in one another and run in several contexts.  *)
(* A call sets the current task of its context and puts back what it found *)
(* when it ends; a generator does so from its first step to its last, and  *)
(* between two steps its consumer runs in the same context, or takes the   *)
(* next step in another one.                                               *)
(*                                                                         *)
(* The task of its own that a call opens is named by the call.             *)
(***************************************************************************)
EXTENDS Naturals, Sequences, FiniteSets

CONSTANTS ToolCallIds,    \* the calls of decorated functions
          Contexts,       \* threads and event-loop tasks
          MaxWork,        \* bound on the provider calls recorded meanwhile
          MaxToolFaults   \* bound on failures of the storage

ASSUME ToolAssumption ==
  /\ IsFiniteSet(ToolCallIds) /\ MaxWork \in Nat /\ MaxToolFaults \in Nat
  /\ ToolCallIds \intersect {"none", "owner"} = {}
  /\ ToolCallIds \intersect (1 .. MaxWork) = {}
  /\ "none" \notin Contexts

Entries == {"task", "tracker", "function"} \* TrackedTask, CostTracker or dexcost, track_task
Shapes == {"call", "generator"}

VARIABLES
  currentTask,  \* [context -> "none", "owner" or the call whose task it is]
  frames,       \* [context -> the calls whose bodies run in it, the innermost last]
  toolCall,     \* [call -> where it stands, and the state that begin has kept]
  toolEvents,   \* the events stored: of a tool call or of work done in its body
  toolRows,     \* [call -> the row of the task it opened, and the events it counts]
  disorderly,   \* history: contexts with calls that ended elsewhere or out of order
  toolFaults

toolVars == <<currentTask, frames, toolCall, toolEvents, toolRows, disorderly, toolFaults>>

NoToken == [in |-> "none", old |-> "none"]
Uncalled == [at |-> "new", entry |-> "none", shape |-> "call", in |-> "none", order |-> 0,
             found |-> "none", task |-> "none", token |-> NoToken, ended |-> "none"]
Began == {c \in ToolCallIds : toolCall[c].at # "new"}
Innermost(x) == IF frames[x] = <<>> THEN "none" ELSE frames[x][Len(frames[x])]
WorkIds == 1..MaxWork
WorkEvents == {e \in toolEvents : e.of \in WorkIds}

ToolsInit ==
  /\ currentTask \in [Contexts -> {"none", "owner"}]
  /\ frames = [x \in Contexts |-> <<>>]
  /\ toolCall = [c \in ToolCallIds |-> Uncalled]
  /\ toolEvents = {}
  /\ toolRows = [c \in ToolCallIds |-> [at |-> "absent", counted |-> {}]]
  /\ disorderly = {}
  /\ toolFaults = 0
-----------------------------------------------------------------------------
\* begin: the task of the call, and if it is one of its own.
TaskOf(c, x, entry) ==
  CASE entry = "task" -> "owner"
    [] entry = "function" -> c
    [] entry = "tracker" /\ currentTask[x] = "none" -> c
    [] OTHER -> currentTask[x]

Sets(c, x, entry) == entry = "function" \/ currentTask[x] # TaskOf(c, x, entry)

Starts(c, x, entry, shape) ==
  LET old == currentTask[x]
      token == IF Sets(c, x, entry) THEN [in |-> x, old |-> old] ELSE NoToken
  IN  /\ toolCall' = [toolCall EXCEPT ![c] =
             [at |-> "running", entry |-> entry, shape |-> shape, in |-> x,
              order |-> Cardinality(Began) + 1, found |-> old,
              task |-> TaskOf(c, x, entry), token |-> token, ended |-> "none"]]
      /\ currentTask' = [currentTask EXCEPT ![x] = TaskOf(c, x, entry)]
      /\ frames' = [frames EXCEPT ![x] = Append(@, c)]

\* A decorated tool is called, or the first step of a generator is taken.
BeginTool(c, x, entry, shape) ==
  /\ toolCall[c].at = "new" /\ entry # "function"
  /\ Starts(c, x, entry, shape)
  /\ UNCHANGED <<toolEvents, toolRows, disorderly, toolFaults>>

\* A function decorated as a task stores the row of its task first.
BeginFunction(c, x) ==
  /\ toolCall[c].at = "new"
  /\ Starts(c, x, "function", "call")
  /\ toolRows' = [toolRows EXCEPT ![c].at = "open"]
  /\ UNCHANGED <<toolEvents, disorderly, toolFaults>>

\* begin raises and the tool runs untracked; a function whose row is refused is not run.
BeginFails(c, x) ==
  /\ toolCall[c].at = "new" /\ toolFaults < MaxToolFaults
  /\ toolFaults' = toolFaults + 1
  /\ toolCall' = [toolCall EXCEPT ![c].at = "untracked"]
  /\ UNCHANGED <<currentTask, frames, toolEvents, toolRows, disorderly>>

\* The open calls that were begun after it in the same context.
Later(c) == {d \in ToolCallIds : /\ toolCall[d].at \in {"running", "suspended"}
                                 /\ toolCall[d].in = toolCall[c].in
                                 /\ toolCall[d].order > toolCall[c].order}

\* The body records a provider call, for the task of the context or for one of its own.
Work(x) ==
  /\ Cardinality(WorkEvents) < MaxWork
  /\ LET by == Innermost(x)
     IN toolEvents' = toolEvents \union
          {[of |-> Cardinality(WorkEvents) + 1, task |-> currentTask[x], status |-> "succeeded",
            by |-> by,
            last |-> by # "none" /\ toolCall[by].in = x /\ x \notin disorderly
                       /\ Later(by) = {}]}
  /\ UNCHANGED <<currentTask, frames, toolCall, toolRows, disorderly, toolFaults>>

Popped(x) == frames' = [frames EXCEPT ![x] = SubSeq(@, 1, Len(@) - 1)]

\* A generator yields an item, and its consumer asks for the next one, wherever it runs.
Suspend(c, x) ==
  /\ toolCall[c].at = "running" /\ toolCall[c].shape = "generator" /\ Innermost(x) = c
  /\ toolCall' = [toolCall EXCEPT ![c].at = "suspended"]
  /\ Popped(x)
  /\ UNCHANGED <<currentTask, toolEvents, toolRows, disorderly, toolFaults>>

Resume(c, x) ==
  /\ toolCall[c].at = "suspended"
  /\ toolCall' = [toolCall EXCEPT ![c].at = "running"]
  /\ frames' = [frames EXCEPT ![x] = Append(@, c)]
  /\ UNCHANGED <<currentTask, toolEvents, toolRows, disorderly, toolFaults>>
-----------------------------------------------------------------------------
\* Mutant: only a call that succeeds puts back what it found.
ResetAfterSuccess(c, x) ==
  currentTask' = IF toolCall[c].token.in = x /\ toolCall'[c].ended = "succeeded"
                 THEN [currentTask EXCEPT ![x] = toolCall[c].token.old] ELSE currentTask

\* A token can be used in its own context only: elsewhere the reset raises.
ResetTask(c, x) ==
  currentTask' = IF toolCall[c].token.in = x
                 THEN [currentTask EXCEPT ![x] = toolCall[c].token.old] ELSE currentTask

Ends(c, x, how) ==
  /\ toolCall' = [toolCall EXCEPT ![c].at = "done", ![c].ended = how]
  /\ disorderly' =
       IF toolCall[c].in # x \/ Later(c) # {}
       THEN disorderly \union {x, toolCall[c].in} ELSE disorderly
  /\ ResetTask(c, x)

\* Mutant: it is looked up as the call ends.
RecordedNow(c, x) == IF currentTask[x] = "none" THEN c ELSE currentTask[x]

\* The task that the event of the call is recorded for.
Recorded(c, x) == toolCall[c].task

\* finish: the event is stored, then the row of a task that was opened for it; the storage
\* may refuse the event, and then the row is not tried, or the row alone.
FinishTool(c, x, how) ==
  LET event == [of |-> c, task |-> Recorded(c, x), status |-> how, by |-> c, last |-> FALSE]
      row == IF toolCall[c].task = c THEN [at |-> "ended", counted |-> {c}] ELSE toolRows[c]
  IN \/ /\ toolEvents' = toolEvents \union {event}
        /\ toolRows' = [toolRows EXCEPT ![c] = row]
        /\ UNCHANGED toolFaults
     \/ /\ toolFaults < MaxToolFaults /\ toolFaults' = toolFaults + 1
        /\ UNCHANGED <<toolEvents, toolRows>>
     \/ /\ toolFaults < MaxToolFaults /\ toolFaults' = toolFaults + 1
        /\ toolCall[c].task = c
        /\ toolEvents' = toolEvents \union {event} /\ UNCHANGED toolRows

\* The body returns, raises or is cancelled.
EndTool(c, x, how) ==
  /\ toolCall[c].at = "running" /\ toolCall[c].entry # "function" /\ Innermost(x) = c
  /\ Ends(c, x, how)
  /\ FinishTool(c, x, how)
  /\ Popped(x)

\* A generator is closed or dropped between two steps: GeneratorExit, or what the body
\* raises in its place.
CloseTool(c, x, how) ==
  /\ toolCall[c].at = "suspended" /\ how # "succeeded"
  /\ Ends(c, x, how)
  /\ FinishTool(c, x, how)
  /\ UNCHANGED frames

\* A function adds up the events of its task and stores the row again, or raises.
EndFunction(c, x, how) ==
  /\ toolCall[c].at = "running" /\ toolCall[c].entry = "function" /\ Innermost(x) = c
  /\ Ends(c, x, how)
  /\ \/ /\ toolRows' = [toolRows EXCEPT ![c] =
               [at |-> "ended", counted |-> {e.of : e \in {f \in toolEvents : f.task = c}}]]
        /\ UNCHANGED toolFaults
     \/ /\ toolFaults < MaxToolFaults /\ toolFaults' = toolFaults + 1
        /\ UNCHANGED toolRows
  /\ Popped(x)
  /\ UNCHANGED toolEvents

ToolsNext ==
  \E x \in Contexts :
    \/ Work(x)
    \/ \E c \in ToolCallIds :
         \/ \E entry \in Entries, shape \in Shapes : BeginTool(c, x, entry, shape)
         \/ BeginFunction(c, x) \/ BeginFails(c, x)
         \/ Suspend(c, x) \/ Resume(c, x)
         \/ \E how \in {"succeeded", "failed", "cancelled"} :
              EndTool(c, x, how) \/ CloseTool(c, x, how) \/ EndFunction(c, x, how)

ToolsSpec == ToolsInit /\ [][ToolsNext]_toolVars
-----------------------------------------------------------------------------
EventsOf(c) == {e \in toolEvents : e.of = c}
Over(c) == toolCall[c].at = "done" /\ toolCall[c].entry # "function"

\* However a tool ended, and wherever, it is recorded as it ended for the task that was
\* current at its first step, or for one of its own if there was none
\* (tool_tracking.py decorate_tool, tracker.py track_tool).
ToolIsRecordedAsItEnded ==
  \A c \in ToolCallIds :
    LET task == CASE toolCall[c].entry = "task" -> "owner"
                  [] toolCall[c].entry = "tracker" /\ toolCall[c].found = "none" -> c
                  [] OTHER -> toolCall[c].found
    IN IF Over(c) THEN /\ toolFaults = 0 => EventsOf(c) # {}
                       /\ \A e \in EventsOf(c) : e.task = task /\ e.status = toolCall[c].ended
       ELSE EventsOf(c) = {}

\* A task that was opened for a tool has a row only with the event it counts.
RowFollowsItsEvent ==
  \A c \in ToolCallIds : Over(c) /\ toolRows[c].at # "absent" =>
    toolRows[c].counted = {e.of : e \in EventsOf(c)} /\ EventsOf(c) # {}

\* Calls that end in their own context, the last begun first, leave it as they found it.
ContextIsLeftAsFound ==
  \A x \in Contexts \ disorderly :
    LET here == {c \in Began : toolCall[c].in = x}
    IN (\A c \in here : toolCall[c].at = "done") /\ here # {} =>
         \E c \in here : toolCall[c].found = currentTask[x]
                         /\ \A d \in here : toolCall[c].order <= toolCall[d].order

\* What is recorded in the body of the call that was begun last in its context is of the
\* task of that call; and a function counts all of it (tracker.py:1632, track_task).
WorkStaysInItsTask ==
  \A e \in WorkEvents : e.last =>
    /\ e.task = toolCall[e.by].task
    /\ toolRows[e.by].at = "ended" /\ toolCall[e.by].entry = "function" =>
         e.of \in toolRows[e.by].counted

\* Tools keep to their task: in what is recorded of them and in them, and in the context
\* they leave.
ToolsKeepTheirTask ==
  /\ ToolIsRecordedAsItEnded /\ RowFollowsItsEvent
  /\ ContextIsLeftAsFound /\ WorkStaysInItsTask
=============================================================================
