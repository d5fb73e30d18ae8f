----------------------------- MODULE GpuAccounting -----------------------------
(***************************************************************************)
(* The GPU time of one task (gpu_accountant.py, nvml_reader.py): a thread  *)
(* samples the driver while the task runs, and the end of the task adds up *)
(* the time between the samples of each process in its scope.              *)
(*                                                                         *)
(* The driver takes a sample of each process that runs on the device at    *)
(* every tick of the clock, and keeps some of the latest, of a running     *)
(* process its last one at least (often no other).  It answers with what   *)
(* it has later than the time it is asked for, or fails.  A process that   *)
(* runs keeps the device busy, so its GPU time is the ticks it ran for.    *)
(***************************************************************************)
EXTENDS Naturals, Sequences, FiniteSets, FiniteSetsExt, SequencesExt

CONSTANTS Processes,   \* the processes of the scope of the task
          MaxClock     \* bound on the clock

ASSUME GpuAssumption == MaxClock \in Nat /\ IsFiniteSet(Processes)

VARIABLES
  clock,
  running,    \* the processes on the device
  gone,       \* those that have ended
  samples,    \* [process -> the times of the samples that were taken of it]
  buffer,       \* those of them that the driver still has
  taskAt,     \* "new", "open", "stopping", and then "built" or "cut short"
  span,       \* when the task began and when it ended
  lastSeen,   \* _initial_timestamps: [process -> the last sample seen, 0 if none]
  baseline,   \* _baseline_timestamps, as the task began
  scope,      \* the processes seen in the cgroup at the start, at a sampling or at the end
  collected,  \* _collected_samples: [process -> a sequence of times]
  sampler,    \* the thread: if it works, what it has read and not stored yet, when it last
              \* read, and when it last lost what it had read
  gpuTime     \* [process -> the ticks the task is charged for]

gpuVars == <<clock, running, gone, samples, buffer, taskAt, span, lastSeen, baseline, scope,
             collected, sampler, gpuTime>>
driver == <<clock, running, gone, samples, buffer>>
None0 == [p \in Processes |-> 0]
Nothing == [p \in Processes |-> {}]

GpuInit ==
  /\ clock = 0 /\ running = {} /\ gone = {}
  /\ samples = Nothing /\ buffer = Nothing
  /\ taskAt = "new" /\ span = [from |-> 0, to |-> 0]
  /\ lastSeen = None0 /\ baseline = None0 /\ scope = {}
  /\ collected = [p \in Processes |-> <<>>]
  /\ sampler = [busy |-> FALSE, at |-> 0, read |-> Nothing, lost |-> 0]
  /\ gpuTime = None0
-----------------------------------------------------------------------------
Finished == taskAt \in {"built", "cut short"}  \* bound: the device is not followed further

Tick ==
  /\ ~Finished /\ clock < MaxClock /\ clock' = clock + 1
  /\ samples' = [p \in Processes |->
                   IF p \in running THEN samples[p] \union {clock + 1} ELSE samples[p]]
  /\ \E oldest \in 1 .. clock + 1 :
       buffer' = [p \in Processes |-> {t \in samples'[p] : /\ t \in buffer[p] \union {clock + 1}
                                                         /\ t >= oldest}]
  /\ UNCHANGED <<running, gone, taskAt, span, lastSeen, baseline, scope, collected, sampler,
                 gpuTime>>

ProcessStarts(p) ==
  /\ ~Finished /\ p \notin running \union gone
  /\ running' = running \union {p}
  /\ UNCHANGED <<clock, gone, samples, buffer, taskAt, span, lastSeen, baseline, scope, collected,
                 sampler, gpuTime>>

ProcessEnds(p) ==
  /\ ~Finished /\ p \in running
  /\ running' = running \ {p} /\ gone' = gone \union {p}
  /\ UNCHANGED <<clock, samples, buffer, taskAt, span, lastSeen, baseline, scope, collected,
                 sampler, gpuTime>>
-----------------------------------------------------------------------------
\* get_process_utilization: one time is asked for, the least that any process was last
\* seen at, and what was seen is noted in the dict of the caller.
Since(seen) ==
  LET times == {seen[p] : p \in Processes} \ {0}
  IN  IF times = {} THEN 0 ELSE Min(times)

Utilization(seen) == [p \in Processes |-> {t \in buffer[p] : t > Since(seen)}]
Noted(seen, read) == [p \in Processes |-> Max({seen[p]} \union read[p])]

\* Where the driver fails, the device seems not to be in use.
SnapshotStart ==
  /\ taskAt = "new"
  /\ taskAt' = "open" /\ span' = [span EXCEPT !.from = clock]
  /\ sampler' = [sampler EXCEPT !.at = clock]
  /\ lastSeen' \in {Noted(None0, Utilization(None0)), None0}
  /\ baseline' = lastSeen'
  /\ scope' = running
  /\ UNCHANGED <<driver, collected, gpuTime>>

\* The thread waits for a tick at least and asks the driver ...
SamplerAsks ==
  /\ taskAt = "open" /\ ~sampler.busy /\ sampler.at < clock
  /\ scope' = scope \union running
  /\ UNCHANGED <<driver, taskAt, span, baseline, collected, gpuTime>>

SamplerReads ==
  /\ SamplerAsks
  /\ sampler' = [sampler EXCEPT !.busy = TRUE, !.at = clock, !.read = Utilization(lastSeen)]
  /\ lastSeen' = Noted(lastSeen, Utilization(lastSeen))

\* ... that fails, when nothing is noted, ...
ReadingFails == SamplerAsks /\ UNCHANGED <<sampler, lastSeen>>

\* ... or it answers and the query for the memory raises, when what was noted is lost, ...
ReadingIsLost ==
  /\ SamplerAsks
  /\ sampler' = [sampler EXCEPT !.at = clock, !.lost = clock]
  /\ lastSeen' = Noted(lastSeen, Utilization(lastSeen))

\* The times of a set, the earliest first.
InOrder(times) ==
  [i \in 1 .. Cardinality(times) |->
     CHOOSE t \in times : Cardinality({s \in times : s < t}) = i - 1]

Extended(with) == [p \in Processes |-> collected[p] \o InOrder(with[p])]

\* ... or what was read is added to what was collected before.  Once the report is built
\* nobody looks at it.
SamplerStores ==
  /\ sampler.busy /\ ~Finished
  /\ collected' = Extended(sampler.read)
  /\ sampler' = [sampler EXCEPT !.busy = FALSE, !.read = Nothing]
  /\ UNCHANGED <<driver, taskAt, span, lastSeen, baseline, scope, gpuTime>>

\* The task ends: the thread is told to stop.
EndGpuTask ==
  /\ taskAt = "open"
  /\ taskAt' = "stopping" /\ span' = [span EXCEPT !.to = clock]
  /\ UNCHANGED <<driver, lastSeen, baseline, scope, collected, sampler, gpuTime>>

\* The first sample of a process ends an interval that began with the last one before
\* the task, or with the task if the device was not in use then; a process that came
\* later has no interval before its first sample.
FirstFrom(p, found, base) ==
  LET latest == Max(UNION {Range(found[q]) : q \in Processes} \union {0})
      length == span.to - span.from
  IN CASE base[p] # 0 -> base[p]
       [] base[p] = 0 /\ base # None0 -> found[p][1]
       [] OTHER -> IF latest > length THEN latest - length ELSE 0

Elapsed(p, found, base) ==
  SumFunction([i \in DOMAIN found[p] |->
      LET before == IF i = 1 THEN FirstFrom(p, found, base) ELSE found[p][i - 1]
      IN  IF found[p][i] > before THEN found[p][i] - before ELSE 0])

Integrated(found, base, within) ==
  [p \in Processes |-> IF p \in within THEN Elapsed(p, found, base) ELSE 0]

Build(found) == gpuTime' = Integrated(found, baseline, scope \union running)

\* Mutant: the thread has sampled enough.
LastCollectionSkipped ==
  /\ taskAt = "stopping" /\ ~sampler.busy
  /\ taskAt' = "built"
  /\ Build(collected)
  /\ UNCHANGED <<driver, span, baseline, sampler, lastSeen, scope, collected>>

\* The thread has stopped: it is sampled once more, and the time is added up.
LastCollection ==
  /\ taskAt = "stopping" /\ ~sampler.busy
  /\ taskAt' = "built"
  /\ lastSeen' = Noted(lastSeen, Utilization(lastSeen))
  /\ scope' = scope \union running
  /\ collected' = Extended(Utilization(lastSeen))
  /\ Build(collected')
  /\ UNCHANGED <<driver, span, baseline, sampler>>

\* The last reading fails, or is lost: what the thread has stored has to do.
LastCollectionFails ==
  /\ taskAt = "stopping" /\ ~sampler.busy
  /\ taskAt' = "cut short"
  /\ lastSeen' \in {lastSeen, Noted(lastSeen, Utilization(lastSeen))}
  /\ scope' = scope \union running
  /\ Build(collected)
  /\ UNCHANGED <<driver, span, baseline, sampler, collected>>

\* The thread does not stop in time: the same.
StopTimesOut ==
  /\ taskAt = "stopping" /\ sampler.busy
  /\ taskAt' = "cut short"
  /\ Build(collected)
  /\ UNCHANGED <<driver, span, lastSeen, baseline, scope, collected, sampler>>

GpuNext ==
  \/ Tick \/ SnapshotStart \/ SamplerReads \/ ReadingFails \/ ReadingIsLost \/ SamplerStores
  \/ EndGpuTask \/ LastCollection \/ LastCollectionFails \/ StopTimesOut
  \/ \E p \in Processes : ProcessStarts(p) \/ ProcessEnds(p)

GpuSpec == GpuInit /\ [][GpuNext]_gpuVars
-----------------------------------------------------------------------------
RanUntil(p, end) == {t \in samples[p] : t > span.from /\ t <= end}
LastCollected(p) == Max({span.from} \union Range(collected[p]))

\* Once the thread has stopped and the last reading was answered, nothing is missing that the
\* driver still has of the task, except what was read before and lost; also of a process
\* that was gone by then (gpu_accountant.py _stop_sampling).
NothingKeptIsMissed ==
  taskAt = "built" =>
    \A p \in Processes :
      {t \in buffer[p] : t > span.from /\ t > sampler.lost} \subseteq Range(collected[p])

\* As long as no process ends: whatever samples the driver dropped, readings failed and a
\* timeout cut off, a process that was on the device when the task began is charged for
\* exactly the time it ran up to the last sample collected, and one that came later for no
\* more than that (gpu_accountant.py snapshot_end_and_build).
SteadyProcessesPayWhatTheyRan ==
  Finished /\ gone = {} /\ baseline # None0 =>
    \A p \in Processes :
      LET ran == Cardinality(RanUntil(p, LastCollected(p)))
      IN  gpuTime[p] <= ran /\ (baseline[p] # 0 => gpuTime[p] = ran)

\* And if the last reading was answered that is all it ran during the task, or all since a
\* reading that was lost.
SteadyProcessesPayToTheEnd ==
  taskAt = "built" /\ gone = {} /\ baseline # None0 =>
    \A p \in Processes : \A t \in RanUntil(p, span.to) :
      t > sampler.lost => t <= LastCollected(p)

\* The GPU time of a task is as complete as the driver lets it be, and steady processes pay
\* what they ran.
GpuTimeIsTrue ==
  NothingKeptIsMissed /\ SteadyProcessesPayWhatTheyRan /\ SteadyProcessesPayToTheEnd
=============================================================================
