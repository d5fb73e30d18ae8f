------------------------------ MODULE HttpCapture ------------------------------
(***************************************************************************)
(* The HTTP adapter (adapters/http.py): the wrappers around the requests,  *)
(* httpx, botocore, aiohttp and urllib3 clients, which count the bytes of  *)
(* an exchange on a task and charge it when its service has a price or an  *)
(* observer.                                                               *)
(*                                                                         *)
(* The same exchange passes several wrappers: an instrument of a provider  *)
(* calls a client, and a client calls the pool of urllib3, which tries     *)
(* again by calling itself.  Only one of them may count it.  A client may  *)
(* call a client in turn, for a token say, and an aiohttp response is read *)
(* after its request has returned, maybe in another task.                  *)
(***************************************************************************)
EXTENDS Naturals, Sequences

CONSTANTS Threads,       \* threads and asyncio tasks
          MaxExchanges,  \* bound on the exchanges
          MaxNesting,    \* bound on the calls one thread is in
          MaxHttpFaults  \* bound on exceptions, of a call or of its recording

ASSUME HttpAssumption ==
  /\ MaxExchanges \in Nat /\ MaxNesting \in Nat /\ MaxHttpFaults \in Nat
  /\ Threads \intersect {"none", "task", "session"} = {}

Kinds == {"priced",    \* a domain rate or a catalog entry has its price
          "observed",  \* an observer reads its usage
          "plain"}     \* neither
Exchanges == 1 .. MaxExchanges
-----------------------------------------------------------------------------
VARIABLES
  callStack,    \* [Threads -> the calls it is in, outermost first]
  mark,      \* _in_patched_call.active
  current,   \* [Threads -> its current task: "none", "task" or its automatic "session"]
  taskOpen,  \* whether the task was not ended: its network accountant is not frozen
  begun,     \* how many exchanges began
  facts,     \* [exchange -> its kind, its record id if any, and the context it began in]
  work,      \* [Threads -> what it has to record, <<>> for nothing]
  unread,    \* aiohttp responses whose JSON is still to be observed
  accounted,   \* [exchange -> the accounts its bytes were counted on, in order]
  charged,   \* [exchange -> the accounts it was charged to]
  recordedIds,  \* _recorded_event_ids
  lost,      \* the event ids the database refused
  returned,  \* exchanges whose call returned
  exposed,   \* exchanges that a pool takes from another wrapper while the thread has no mark
  httpFaults

httpVars == <<callStack, mark, current, taskOpen, begun, facts, work, unread, accounted,
              charged, recordedIds, lost, returned, exposed, httpFaults>>
calls == <<callStack, mark, begun, facts, unread, returned, exposed>>
accounts == <<taskOpen, accounted, charged, recordedIds, lost>>

HttpInit ==
  /\ callStack = [t \in Threads |-> <<>>] /\ mark = [t \in Threads |-> FALSE]
  /\ current \in [Threads -> {"none", "task"}] /\ taskOpen = TRUE
  /\ begun = 0
  /\ facts = [e \in Exchanges |-> [kind |-> "plain", record |-> "none", context |-> "none",
                                   owned |-> FALSE]]
  /\ work = [t \in Threads |-> <<>>] /\ unread = {}
  /\ accounted = [e \in Exchanges |-> <<>>] /\ charged = [e \in Exchanges |-> <<>>]
  /\ recordedIds = {} /\ lost = {} /\ returned = {} /\ exposed = {} /\ httpFaults = 0
-----------------------------------------------------------------------------
(* The calls *)

Top(t) == IF callStack[t] = <<>> THEN [layer |-> "none", exchange |-> 0, skip |-> FALSE]
          ELSE callStack[t][Len(callStack[t])]
Push(t, layer, e, skip) ==
  callStack' = [callStack EXCEPT ![t] = Append(@, [layer |-> layer, exchange |-> e, skip |-> skip])]
Pop(t) == callStack' = [callStack EXCEPT ![t] = SubSeq(@, 1, Len(@) - 1)]

Free(t) == work[t] = <<>> /\ Len(callStack[t]) < MaxNesting
Owned(t) == \E i \in 1 .. Len(callStack[t]) : callStack[t][i].layer = "provider"

Begin(t) ==
  /\ begun < MaxExchanges /\ begun' = begun + 1
  /\ \E kind \in Kinds, record \in {"none", "job"} :
       /\ record # "none" => kind = "observed"
       /\ facts' = [facts EXCEPT ![begun + 1] =
            [kind |-> kind, record |-> record, context |-> current[t], owned |-> Owned(t)]]

ToRecord(e, network, only, context) ==
  <<[exchange |-> e, stage |-> "count", network |-> network, only |-> only,
     context |-> context, account |-> "none"]>>

Fault == httpFaults < MaxHttpFaults /\ httpFaults' = httpFaults + 1

ProviderBegins(t) ==
  /\ Free(t) /\ callStack[t] = <<>>
  /\ Push(t, "provider", 0, FALSE)
  /\ UNCHANGED <<mark, current, begun, facts, work, unread, returned, exposed, accounts,
                 httpFaults>>

ProviderEnds(t) ==
  /\ Top(t).layer = "provider" /\ work[t] = <<>>
  /\ Pop(t)
  /\ UNCHANGED <<mark, current, begun, facts, work, unread, returned, exposed, accounts,
                 httpFaults>>

ClientBegins(t) ==
  /\ Free(t) /\ Top(t).layer \in {"none", "provider", "client"}
  /\ Begin(t)
  /\ mark' = [mark EXCEPT ![t] = TRUE]
  /\ Push(t, "client", begun + 1, FALSE)
  /\ UNCHANGED <<current, work, unread, returned, exposed, accounts, httpFaults>>

\* The pool of a client serves the exchange of the client; and the pool calls itself to try
\* an exchange again, or to follow a redirect, so that it passes this wrapper once more.
PoolSkips(t) == mark[t]

PoolBegins(t) ==
  /\ Free(t) /\ Top(t).layer \in {"none", "provider", "client", "pool"}
  /\ IF Top(t).layer \in {"client", "pool"}
     THEN /\ Top(t).exchange \notin returned
          /\ Push(t, "pool", Top(t).exchange, PoolSkips(t))
          /\ exposed' = IF mark[t] THEN exposed ELSE exposed \union {Top(t).exchange}
          /\ UNCHANGED <<begun, facts>>
     ELSE Begin(t) /\ Push(t, "pool", begun + 1, PoolSkips(t)) /\ UNCHANGED exposed
  /\ UNCHANGED <<mark, current, work, unread, returned, accounts, httpFaults>>

PoolEnds(t) ==
  /\ Top(t).layer = "pool" /\ work[t] = <<>>
  /\ Pop(t)
  /\ work' = [work EXCEPT ![t] = IF Top(t).skip THEN <<>>
                                 ELSE ToRecord(Top(t).exchange, TRUE, FALSE, current[t])]
  /\ returned' = returned \union {Top(t).exchange}
  /\ UNCHANGED <<mark, current, begun, facts, unread, exposed, accounts, httpFaults>>

ClientEnds(t) ==
  /\ Top(t).layer = "client" /\ Top(t).exchange \in returned /\ work[t] = <<>>
  /\ Pop(t)
  /\ mark' = [mark EXCEPT ![t] = FALSE]
  /\ work' = [work EXCEPT ![t] = ToRecord(Top(t).exchange, TRUE, FALSE, current[t])]
  /\ UNCHANGED <<current, begun, facts, unread, returned, exposed, accounts, httpFaults>>

\* Whatever it is in ends, and nothing is recorded of it.
CallRaises(t) ==
  /\ Top(t).layer \in {"client", "pool", "aio"} /\ work[t] = <<>>
  /\ Pop(t)
  /\ mark' = [mark EXCEPT ![t] = @ /\ Top(t).layer # "client"]
  /\ Fault
  /\ returned' = returned \ {Top(t).exchange}
  /\ UNCHANGED <<current, begun, facts, work, unread, exposed, accounts>>

AioBegins(t) ==
  /\ Free(t) /\ Top(t).layer \in {"none", "provider"}
  /\ Begin(t)
  /\ Push(t, "aio", begun + 1, FALSE)
  /\ UNCHANGED <<mark, current, work, unread, returned, exposed, accounts, httpFaults>>

AtAnswer(e, deferred, context) ==
  IF deferred THEN ToRecord(e, TRUE, TRUE, facts[e].context)
  ELSE ToRecord(e, TRUE, FALSE, context)

AioAnswers(t) ==
  LET e == Top(t).exchange
  IN  /\ Top(t).layer = "aio" /\ work[t] = <<>>
      /\ Pop(t)
      /\ returned' = returned \union {e}
      /\ \E bounded \in BOOLEAN :
           LET deferred == bounded /\ facts[e].kind = "observed"
           IN  /\ unread' = IF deferred THEN unread \union {e} ELSE unread
               /\ work' = [work EXCEPT ![t] = AtAnswer(e, deferred, current[t])]
      /\ UNCHANGED <<mark, current, begun, facts, exposed, accounts, httpFaults>>

JsonIsRead(t) ==
  \E e \in unread :
    /\ work[t] = <<>> /\ Top(t).layer \in {"none", "provider"}
    /\ unread' = unread \ {e}
    /\ work' = [work EXCEPT ![t] = ToRecord(e, FALSE, FALSE, facts[e].context)]
    /\ UNCHANGED <<callStack, mark, current, begun, facts, returned, exposed, accounts, httpFaults>>
-----------------------------------------------------------------------------
(* The recording: _handle_http_call *)

Deferred(t) == ~work[t][1].network

\* Inside the call of a provider that is instrumented, which has the price of its own.
IsProviders(t) == IF Deferred(t) THEN facts[work[t][1].exchange].owned ELSE Owned(t)

\* An open task is taken, else the automatic session of this thread.
Resolve(t, context) == IF context = "task" /\ taskOpen THEN "task" ELSE t

Account(t) ==
  LET job == work[t][1]
      as == IF job.context = "session" THEN t ELSE job.context
  IN  IF IsProviders(t) \/ job.only \/ facts[job.exchange].kind = "plain" THEN as
      ELSE Resolve(t, job.context)

Charges(t) ==
  ~IsProviders(t) /\ ~work[t][1].only /\ facts[work[t][1].exchange].kind # "plain"

HandleCounts(t) ==
  LET job == work[t][1] IN
  /\ work[t] # <<>> /\ job.stage = "count"
  /\ accounted' = IF job.network /\ Account(t) # "none" /\ (Account(t) = "task" => taskOpen)
                THEN [accounted EXCEPT ![job.exchange] = Append(@, Account(t))] ELSE accounted
  /\ current' = IF Charges(t) /\ Account(t) = t /\ job.network
                THEN [current EXCEPT ![t] = "session"] ELSE current
  /\ work' = [work EXCEPT ![t] =
       IF Charges(t) THEN <<[job EXCEPT !.stage = "charge", !.account = Account(t)]>> ELSE <<>>]
  /\ UNCHANGED <<calls, taskOpen, charged, recordedIds, lost, httpFaults>>

\* Mutant: every observation of a record has an identity of its own.
EventIdOfExchange(e) ==
  [record |-> "none", exchange |-> e, nth |-> Len(charged[e])]

EventId(e) ==
  IF facts[e].record = "none" THEN [record |-> "none", exchange |-> e, nth |-> Len(charged[e])]
  ELSE [record |-> facts[e].record, exchange |-> 0, nth |-> 0]

ChargeHeld(t, keep) ==
  LET job == work[t][1] IN
  /\ work[t] # <<>> /\ job.stage = "charge"
  /\ recordedIds' = recordedIds \union {EventId(job.exchange)}
  /\ work' = [work EXCEPT ![t] = <<>>]
  /\ IF EventId(job.exchange) \in recordedIds THEN UNCHANGED <<charged, lost, httpFaults>>
     ELSE IF keep
     THEN charged' = [charged EXCEPT ![job.exchange] = Append(@, job.account)]
          /\ UNCHANGED <<lost, httpFaults>>
     ELSE Fault /\ lost' = lost \union {EventId(job.exchange)} /\ UNCHANGED charged
  /\ UNCHANGED <<calls, current, taskOpen, accounted>>

HandleCharges(t) == ChargeHeld(t, TRUE)
StorageRefuses(t) == ChargeHeld(t, FALSE)

HandleFails(t) ==
  /\ work[t] # <<>> /\ Fault
  /\ work' = [work EXCEPT ![t] = <<>>]
  /\ UNCHANGED <<calls, current, accounts>>

TaskEnds ==
  /\ taskOpen /\ taskOpen' = FALSE
  /\ UNCHANGED <<calls, current, work, accounted, charged, recordedIds, lost, httpFaults>>

HttpNext ==
  \/ TaskEnds
  \/ \E t \in Threads :
       \/ ProviderBegins(t) \/ ProviderEnds(t) \/ ClientBegins(t) \/ ClientEnds(t)
       \/ PoolBegins(t) \/ PoolEnds(t) \/ CallRaises(t)
       \/ AioBegins(t) \/ AioAnswers(t) \/ JsonIsRead(t)
       \/ HandleCounts(t) \/ HandleCharges(t) \/ StorageRefuses(t) \/ HandleFails(t)

HttpSpec == HttpInit /\ [][HttpNext]_httpVars
-----------------------------------------------------------------------------
\* Every variable holds a value of its kind.
HttpTypeOK ==
  /\ mark \in [Threads -> BOOLEAN] /\ taskOpen \in BOOLEAN
  /\ current \in [Threads -> {"none", "task", "session"}]
  /\ begun \in 0 .. MaxExchanges
  /\ unread \subseteq 1 .. begun /\ returned \subseteq 1 .. begun /\ exposed \subseteq 1 .. begun

\* However many wrappers an exchange passes, its bytes are counted once at most, and it
\* is charged once at most; excepted is an exchange that the pool takes from another wrapper
\* in a thread without the mark: an inner call of its client took the mark away, or urllib3,
\* called directly, tries again (_urllib3_wrapper, _in_patched_call,
\* _defer_aiohttp_json_observation).
ExchangeCountsOnce ==
  \A e \in Exchanges \ exposed : Len(accounted[e]) <= 1 /\ Len(charged[e]) <= 1

\* What an instrument of a provider is about to charge is not charged by the HTTP
\* adapter beneath it as well (_handle_http_call_inner, provider_capture_scope).
ProviderIsPaidOnce ==
  \A e \in Exchanges : facts[e].owned => charged[e] = <<>>

\* An exchange that a task asked for is charged to that task as long as it is open,
\* whoever reads the answer (_aiohttp_wrapper, get_or_create_session).
ChargedWhereItBegan ==
  taskOpen => \A e \in Exchanges :
    facts[e].context = "task" => \A i \in 1 .. Len(charged[e]) : charged[e][i] = "task"

\* A record of a provider that is polled again, or whose exchange is tried again, is not
\* charged again (_provider_observation_event_id, _persist_event).
RecordIsChargedOnce ==
  /\ \A e \in Exchanges : facts[e].record # "none" => Len(charged[e]) <= 1
  /\ \A e, f \in Exchanges :
       e # f /\ facts[e].record # "none" /\ facts[f].record = facts[e].record =>
         charged[e] = <<>> \/ charged[f] = <<>>

\* When nothing failed and its task is open, an exchange that returned is counted once
\* no thread has anything left to do for it (_handle_http_call).
NoExchangeIsMissed ==
  httpFaults = 0 /\ taskOpen =>
    \A e \in returned : facts[e].context = "task"
                        /\ (\A t \in Threads : work[t] = <<>> /\ callStack[t] = <<>>)
                          => Len(accounted[e]) >= 1

\* An exchange is counted and charged once, to the task that asked for it, whichever
\* layers, instruments and readers it passes.
ExchangesAreChargedOnce ==
  /\ ExchangeCountsOnce /\ ProviderIsPaidOnce /\ ChargedWhereItBegan
  /\ RecordIsChargedOnce /\ NoExchangeIsMissed
=============================================================================
