----------------------------- MODULE MCCapture ------------------------------
(***************************************************************************)
(* How the SDK captures the calls an application makes, for model          *)
(* checking.  The components share no state, so they are checked as a sum: *)
(* a behaviour picks one part at the start, only that part moves, and the  *)
(* variables of the others keep one value of their own initial condition.  *)
(*   calls        ProviderCalls                                            *)
(*   services     ServiceCaptures                                          *)
(*   frameworks   FrameworkRuntime                                         *)
(*   usage        UsagePricing                                             *)
(*   instruments  Instrumentation                                          *)
(*   http         HttpCapture                                              *)
(*   observers    UsageObservers                                           *)
(*   tools        ToolCalls                                                *)
(***************************************************************************)
EXTENDS ProviderCalls, ServiceCaptures, FrameworkRuntime, UsagePricing, Instrumentation,
        HttpCapture, UsageObservers, ToolCalls, TLC

CONSTANTS Alike,        \* calls, readers, trackers, streams, contexts and threads
          AlikeTasks    \* the tasks of the services and the listeners

VARIABLE part

CaptureSymmetry == Permutations(Alike) \union Permutations(AlikeTasks)

idle(P) ==
  /\ P # "calls" => UNCHANGED callVars
  /\ P # "services" => UNCHANGED serviceVars
  /\ P # "frameworks" => UNCHANGED frameworkVars
  /\ P # "usage" => UNCHANGED usageVars
  /\ P # "instruments" => UNCHANGED instrumentVars
  /\ P # "http" => UNCHANGED httpVars
  /\ P # "observers" => UNCHANGED observerVars
  /\ P # "tools" => UNCHANGED toolVars

-----------------------------------------------------------------------------
CaptureInit ==
  /\ part \in {"calls", "services", "frameworks", "usage", "instruments", "http",
               "observers", "tools"}
  /\ CallsInit
  /\ ServicesInit
  /\ part # "services" => keeps = "run" /\ task = [r \in Readers |-> NoTask]
  /\ RuntimeInit
  /\ UsageInit
  /\ InstrumentInit
  /\ part # "instruments" => sdk = OpenAI /\ lacks = {}
  /\ HttpInit
  /\ part # "http" => current = [t \in Threads |-> "none"]
  /\ IF part = "observers" THEN ObserversInit
     ELSE /\ rules = <<PlainRule>> /\ exchange = [found |-> <<>>, lists |-> <<>>]
          /\ route = Home /\ kept = <<>> /\ observations = <<>> /\ stage = "sent"
  /\ ToolsInit
  /\ part # "tools" => currentTask = [x \in Contexts |-> "none"]

\* One reader at a time where each call is an event of its own.
Serving ==
  /\ ServicesNext
  /\ keeps = "event" => \E r \in Readers : \A q \in Readers \ {r} : reader'[q] = IdleReader

\* Where a call or its recording fails, or a pool tries again, only one thread makes calls.
TriesAgain(t) ==
  \E i \in 2 .. Len(callStack'[t]) : \A j \in {i - 1, i} : callStack'[t][j].layer = "pool"
Exchanging ==
  /\ HttpNext
  /\ httpFaults' > 0 \/ (\E t \in Threads : TriesAgain(t)) =>
       \E t \in Threads : \A u \in Threads \ {t} : callStack'[u] = <<>> /\ work'[u] = <<>>

CaptureNext ==
  /\ UNCHANGED part
  /\ \/ part = "calls" /\ CallsNext /\ idle("calls")
     \/ part = "services" /\ Serving /\ idle("services")
     \/ part = "frameworks" /\ RuntimeNext /\ idle("frameworks")
     \/ part = "usage" /\ UsageNext /\ idle("usage")
     \/ part = "instruments" /\ InstrumentNext /\ idle("instruments")
     \/ part = "http" /\ Exchanging /\ idle("http")
     \/ part = "observers" /\ ObserversNext /\ idle("observers")
     \/ part = "tools" /\ ToolsNext /\ idle("tools")

captureVars == <<part, callVars, serviceVars, frameworkVars, usageVars, instrumentVars,
                 httpVars, observerVars, toolVars>>

CaptureSpec == CaptureInit /\ [][CaptureNext]_captureVars

-----------------------------------------------------------------------------
\* What the wrappers keep of the calls that are under way has the fields they give it.
CaptureTypeOK == CallsTypeOK /\ ServicesTypeOK /\ RuntimeTypeOK /\ HttpTypeOK
=============================================================================
