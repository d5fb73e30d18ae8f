---------------------------- MODULE Instrumentation ----------------------------
(***************************************************************************)
(* How a provider's SDK is instrumented and how it is put back: the        *)
(* instrument_* and uninstrument_* functions of instruments/, and the      *)
(* trackers that call them (tracker.py CostTracker.instrument,             *)
(* uninstrument).                                                          *)
(*                                                                         *)
(* An instrument replaces some methods of the classes of the SDK.  It is   *)
(* module state, shared by all the trackers of the process: the tracker    *)
(* that records, the originals, and a flag.  The application goes on       *)
(* calling the SDK meanwhile, in other threads; it may hold a method it    *)
(* has fetched before; and it may load the SDK again, with new classes.    *)
(***************************************************************************)
EXTENDS Naturals, FiniteSets

CONSTANTS Trackers,     \* the CostTrackers of the process
          Callers,      \* threads that call the SDK
          MethodCount,  \* how many methods are replaced, numbered in the order of the code
          MaxReloads,   \* bound on the times the SDK is loaded again
          MaxFailures   \* bound on the times it is instrumented in vain

Unset == "unset"

ASSUME InstrumentAssumption ==
  /\ MethodCount \in Nat \ {0}
  /\ MaxReloads \in Nat /\ MaxFailures \in Nat
  /\ Unset \notin Trackers

Methods == 1 .. MethodCount
-----------------------------------------------------------------------------
\* What an instrument does that the others do not: whether a failure half way undoes
\* the work, whether a method that an SDK lacks is a failure, whether it notices that
\* the SDK was loaded again, where it puts the originals back ("owner": the classes
\* they came from, "name": whatever has the name now, "drop": by name, unless it was
\* loaded again), and whether a wrapper looks its original up when it is called.
Plain == [rollback |-> FALSE, missing |-> "skip", reload |-> FALSE, restore |-> "owner",
          lookup |-> FALSE]
Careful == [Plain EXCEPT !.rollback = TRUE]

OpenAI == [Plain EXCEPT !.reload = TRUE]
Anthropic == [Plain EXCEPT !.restore = "name"]
LiteLLM == [Plain EXCEPT !.reload = TRUE, !.restore = "drop"]
Bedrock == [Plain EXCEPT !.restore = "name"]
Cohere == [Plain EXCEPT !.restore = "name"]
Mcp == [Plain EXCEPT !.missing = "fail", !.reload = TRUE, !.restore = "drop"]
Gemini == [Careful EXCEPT !.restore = "name"]
Groq == [Careful EXCEPT !.missing = "fail"]
Ollama == [Careful EXCEPT !.lookup = TRUE]
OpenRouter == [Careful EXCEPT !.lookup = TRUE]
Perplexity == [Careful EXCEPT !.lookup = TRUE]
Fal == [Careful EXCEPT !.lookup = TRUE]

Instruments == {OpenAI, Anthropic, LiteLLM, Bedrock, Cohere, Mcp, Gemini, Groq, Ollama,
                OpenRouter, Perplexity, Fal}
-----------------------------------------------------------------------------
VARIABLES
  sdk,        \* the instrument
  lacks,      \* the methods this version of the SDK does not have
  loaded,     \* how often the SDK was loaded again: its classes are those of that time
  method,     \* [Methods -> the function of the class: its wrappers, and whose it is]
  saved,      \* _originals
  patched,    \* _patched
  patchedAt,  \* _patched_owner
  recorder,   \* _active_tracker
  enabled,    \* [Trackers -> the tracker has the instrument in _instrumented]
  todo,       \* the methods instrument_* has still to replace
  caller,     \* the tracker it works for
  flight,     \* [Callers -> a call: the function it has fetched and what came of it]
  failures    \* how often instrument_* has failed half way

instrumentVars == <<sdk, lacks, loaded, method, saved, patched, patchedAt, recorder, enabled,
                    todo, caller, flight, failures>>

Fresh == [wraps |-> 0, load |-> loaded]
NotFetched == [at |-> "idle", method |-> 1, wraps |-> 0, stale |-> FALSE]
Quiet == caller = Unset
\* An instrument that does not undo its work has failed.
Spoiled == failures > 0 /\ ~sdk.rollback
\* The originals are gone, for the wrappers that were fetched and have not run yet.
Overtaken == flight' = [c \in Callers |-> [flight[c] EXCEPT !.stale = @ \/ flight[c].at = "fetched"]]

InstrumentInit ==
  /\ sdk \in Instruments
  /\ lacks \in SUBSET Methods
  /\ loaded = 0
  /\ method = [m \in Methods |-> [wraps |-> 0, load |-> 0]]
  /\ saved = [m \in {} |-> Fresh]
  /\ patched = FALSE /\ patchedAt = 0
  /\ recorder = Unset
  /\ enabled = [t \in Trackers |-> FALSE]
  /\ todo = {} /\ caller = Unset
  /\ flight = [c \in Callers |-> NotFetched]
  /\ failures = 0

\* Every saved original is put back, by owner or by name.
Restored ==
  [m \in Methods |->
     IF m \in DOMAIN saved /\ (sdk.restore = "owner" => saved[m].load = loaded)
     THEN saved[m] ELSE method[m]]

\* instrument_*: refused while active, unless the SDK was loaded again since.
Instrument(t) ==
  /\ Quiet /\ ~enabled[t]
  /\ patched => sdk.reload /\ patchedAt # loaded
  /\ method' = IF patched /\ sdk.restore = "owner" THEN Restored ELSE method
  /\ saved' = IF patched THEN [m \in {} |-> Fresh] ELSE saved
  /\ patched' = FALSE
  /\ patchedAt' = loaded
  /\ recorder' = t
  /\ todo' = Methods /\ caller' = t
  /\ UNCHANGED <<sdk, lacks, loaded, enabled, flight, failures>>

Next1 == CHOOSE m \in todo : \A n \in todo : m <= n

\* The next method is saved and replaced; one that is missing may be passed over.
PatchMethod ==
  /\ todo # {}
  /\ todo' = todo \ {Next1}
  /\ IF Next1 \in lacks
     THEN sdk.missing = "skip" /\ UNCHANGED <<method, saved>>
     ELSE /\ saved' = [m \in DOMAIN saved \cup {Next1} |->
                         IF m = Next1 THEN method[m] ELSE saved[m]]
          /\ method' = [method EXCEPT ![Next1].wraps = @ + 1]
  /\ UNCHANGED <<sdk, lacks, loaded, patched, patchedAt, recorder, enabled, caller, flight,
                 failures>>

\* Mutant: a failure forgets the originals without putting them back.
InstrumentFailsDirty ==
  /\ todo # {} /\ failures < MaxFailures
  /\ failures' = failures + 1
  /\ saved' = [m \in {} |-> Fresh]
  /\ recorder' = Unset
  /\ todo' = {} /\ caller' = Unset
  /\ UNCHANGED <<sdk, lacks, loaded, method, patched, patchedAt, enabled, flight>>

\* An exception half way; CostTracker.__init__ goes on without the instrument.
InstrumentFails ==
  /\ todo # {} /\ failures < MaxFailures
  /\ failures' = failures + 1
  /\ IF sdk.rollback
     THEN /\ method' = Restored
          /\ saved' = [m \in {} |-> Fresh]
          /\ recorder' = Unset
          /\ Overtaken
     ELSE UNCHANGED <<method, saved, recorder, flight>>
  /\ todo' = {} /\ caller' = Unset
  /\ UNCHANGED <<sdk, lacks, loaded, patched, patchedAt, enabled>>

InstrumentDone ==
  /\ ~Quiet /\ todo = {}
  /\ patched' = TRUE
  /\ enabled' = [enabled EXCEPT ![caller] = TRUE]
  /\ caller' = Unset
  /\ UNCHANGED <<sdk, lacks, loaded, method, saved, patchedAt, recorder, todo, flight, failures>>

\* CostTracker.uninstrument, also by close().
Uninstrument(t) ==
  /\ Quiet /\ enabled[t]
  /\ enabled' = [enabled EXCEPT ![t] = FALSE]
  /\ IF patched
     THEN /\ method' = IF sdk.restore = "drop" /\ patchedAt # loaded THEN method ELSE Restored
          /\ saved' = [m \in {} |-> Fresh]
          /\ recorder' = Unset
          /\ patched' = FALSE
          /\ Overtaken
     ELSE UNCHANGED <<method, saved, recorder, patched, flight>>
  /\ UNCHANGED <<sdk, lacks, loaded, patchedAt, todo, caller, failures>>

\* The application loads the SDK again.
Reload ==
  /\ Quiet /\ loaded < MaxReloads
  /\ loaded' = loaded + 1
  /\ method' = [m \in Methods |-> [wraps |-> 0, load |-> loaded + 1]]
  /\ UNCHANGED <<sdk, lacks, saved, patched, patchedAt, recorder, enabled, todo, caller, flight,
                 failures>>

\* A call: the attribute is fetched, and some time later the function runs.
Fetch(c, m) ==
  /\ flight[c].at = "idle" /\ m \notin lacks
  /\ flight' = [flight EXCEPT ![c] = [at |-> "fetched", method |-> m, wraps |-> method[m].wraps,
                                        stale |-> FALSE]]
  /\ UNCHANGED <<sdk, lacks, loaded, method, saved, patched, patchedAt, recorder, enabled, todo,
                 caller, failures>>

Run(c) ==
  /\ flight[c].at = "fetched"
  /\ flight' = [flight EXCEPT ![c].at =
       IF flight[c].wraps > 0 /\ sdk.lookup /\ flight[c].method \notin DOMAIN saved
       THEN "KeyError" ELSE "answered"]
  /\ UNCHANGED <<sdk, lacks, loaded, method, saved, patched, patchedAt, recorder, enabled, todo,
                 caller, failures>>

InstrumentNext ==
  \/ \E t \in Trackers : Instrument(t) \/ Uninstrument(t)
  \/ PatchMethod \/ InstrumentFails \/ InstrumentDone
  \/ Reload
  \/ \E c \in Callers : Run(c) \/ \E m \in Methods : Fetch(c, m)

InstrumentSpec == InstrumentInit /\ [][InstrumentNext]_instrumentVars
-----------------------------------------------------------------------------
\* When no tracker has the instrument the SDK is as it was found, after any number of
\* trackers and failures, and also after it was loaded again where the instrument
\* notices that (an instrument without rollback that failed half way does not come back
\* from it: see the README).
SdkIsLeftAsFound ==
  Quiet /\ ~patched /\ ~Spoiled /\ (sdk.reload \/ loaded = 0) =>
    /\ \A m \in Methods : method[m] = Fresh
    /\ DOMAIN saved = {}

\* A method is never wrapped twice, and what is saved while it is wrapped is the SDK's own.
WrappedOnce ==
  ~Spoiled =>
    /\ \A m \in Methods : method[m].wraps <= 1
    /\ \A m \in DOMAIN saved : saved[m].wraps = 0

\* What records is the tracker that has the instrument: not one that gave it up, not two
\* of them, and none while the calls are not wrapped (as long as the SDK was not loaded
\* again under a tracker that keeps the instrument).
RecorderHasTheInstrument ==
  Quiet /\ ~Spoiled /\ loaded = 0 =>
    /\ \A t \in Trackers : enabled[t] <=> recorder = t
    /\ recorder # Unset => patched /\ \A m \in Methods \ lacks : method[m].wraps = 1

\* A call reaches the SDK while the instrument is put on, taken off or fails half way: the
\* only wrapper that loses its original is one that was fetched before a removal and looks
\* the original up after it (ollama.py, openrouter.py, perplexity.py, fal.py: see the
\* README).
CallReachesTheSdk ==
  \A c \in Callers : flight[c].at = "KeyError" => sdk.lookup /\ flight[c].stale

\* The SDK stays usable, and is given back, whatever happens to its instrument.
SdkIsKept == /\ SdkIsLeftAsFound /\ WrappedOnce
             /\ RecorderHasTheInstrument /\ CallReachesTheSdk
=============================================================================
