------------------------------ MODULE RPCManager ------------------------------
(***************************************************************************)
(* RPCManager of lirix/layers/l4_rpc_manager.py: threads and tasks that    *)
(* share one manager reconcile the heights of its endpoints and take the   *)
(* Web3 client the reconcile bound.                                        *)
(*                                                                         *)
(* _lock is held while the eligible endpoints are picked, not while they   *)
(* are asked, and again from the outcome to the end of the L4 hook.  The   *)
(* hook is the one place where a step of another caller can find the lock  *)
(* taken; every other critical section is one action.                      *)
(***************************************************************************)
EXTENDS Integers, FiniteSets

CONSTANTS
    Callers,            \* threads and tasks that use the manager
    NumUrls,            \* how many endpoints config.rpc_urls has, all different
    Modes,              \* of "sync" and "async", what the callers call
    StrictMode,         \* config.strict_mode
    MinCount,           \* config.l4_min_success_count, 0 for None
    RatioNum, RatioDen, \* config.l4_min_success_ratio, 0/1 for None
    SpreadThreshold,    \* BLOCK_HEIGHT_SPREAD_THRESHOLD
    FailureThreshold,   \* CIRCUIT_FAILURE_THRESHOLD
    Operator,           \* does someone call reset_circuit_breakers?
    MaxHeight,          \* bound on the heights of the chain
    MaxCalls            \* bound on the number of reconciles

None == 0

\* the mode of a caller that is idle
NoMode == "none"

\* config.rpc_urls, numbered in string order
Urls == 1..NumUrls

ASSUME RPCAssumption ==
    /\ Modes \subseteq {"sync", "async"}
    /\ {StrictMode, Operator} \subseteq BOOLEAN
    /\ {MinCount, RatioNum, SpreadThreshold, MaxHeight, MaxCalls} \subseteq Nat
    /\ {NumUrls, RatioDen, FailureThreshold} \subseteq Nat \ {0}

VARIABLES
    height,     \* height[u]: the block the node behind u is at
    failures,   \* _failures
    open,       \* _open
    cooling,    \* time.monotonic() < _cooldown_until[u]
    syncWeb3,   \* the endpoint _sync_web3 is connected to
    asyncWeb3,  \* the endpoint _async_web3 is connected to
    lastUrl,    \* _last_url
    lastError,  \* the reason in _last_error
    holder,     \* the caller, if any, that holds _lock while its hook runs
    calls,      \* reconciles begun
    pc,         \* pc[c]: where caller c is
    mode,       \* mode[c]: what it called
    answer,     \* answer[c][u]: what became of c's request to u
    seen,       \* seen[c][u]: the height u answered
    block       \* block[c]: what the reconcile is about to return

breakers == <<failures, open, cooling>>
bound == <<syncWeb3, asyncWeb3, lastUrl>>
local == <<pc, mode, answer, seen, block>>
vars == <<height, breakers, bound, lastError, holder, calls, local>>

Unasked == [u \in Urls |-> "unasked"]
Unseen == [u \in Urls |-> 0]

Init ==
    /\ height \in [Urls -> 0..MaxHeight]
    /\ failures = [u \in Urls |-> 0]
    /\ open = [u \in Urls |-> FALSE]
    /\ cooling = [u \in Urls |-> FALSE]
    /\ syncWeb3 = None
    /\ asyncWeb3 = None
    /\ lastUrl = None
    /\ lastError = "none"
    /\ holder = {}
    /\ calls = 0
    /\ pc = [c \in Callers |-> "idle"]
    /\ mode = [c \in Callers |-> NoMode]
    /\ answer = [c \in Callers |-> Unasked]
    /\ seen = [c \in Callers |-> Unseen]
    /\ block = [c \in Callers |-> 0]

-----------------------------------------------------------------------------
(***************************************************************************)
(* The environment                                                         *)
(***************************************************************************)

\* the node behind u imports blocks
Grow(u) ==
    /\ \E h \in (height[u] + 1)..MaxHeight : height' = [height EXCEPT ![u] = h]
    /\ UNCHANGED <<breakers, bound, lastError, holder, calls, local>>

\* CIRCUIT_COOLDOWN_SECONDS after u's last failure
CoolDown(u) ==
    /\ cooling[u]
    /\ cooling' = [cooling EXCEPT ![u] = FALSE]
    /\ UNCHANGED <<height, failures, open, bound, lastError, holder, calls, local>>

\* reset_circuit_breakers
Reset ==
    /\ Operator
    /\ holder = {}
    /\ failures' = [u \in Urls |-> 0]
    /\ open' = [u \in Urls |-> FALSE]
    /\ cooling' = [u \in Urls |-> FALSE]
    /\ syncWeb3' = None
    /\ asyncWeb3' = None
    /\ lastUrl' = None
    /\ lastError' = "none"
    /\ UNCHANGED <<height, holder, calls, local>>

-----------------------------------------------------------------------------
(***************************************************************************)
(* A reconcile                                                             *)
(***************************************************************************)

Asked(c) == {u \in Urls : answer[c][u] # "unasked"}

Succeeded(c) == {u \in Urls : answer[c][u] = "ok"}

\* _required_successes: n, or the larger of count and ceil(ratio * n), at most n
Required(n) ==
    IF StrictMode \/ (MinCount = 0 /\ RatioNum = 0) THEN n
    ELSE LET byRatio == (RatioNum * n + RatioDen - 1) \div RatioDen
             wanted == IF byRatio > MinCount THEN byRatio ELSE MinCount
         IN  IF wanted > n THEN n ELSE IF wanted < 1 THEN 1 ELSE wanted

\* the open endpoints are left out: _eligible_urls
Prepare(c, m) ==
    /\ pc[c] = "idle"
    /\ holder = {}
    /\ calls < MaxCalls
    /\ \E u \in Urls : ~open[u]
    /\ pc' = [pc EXCEPT ![c] = "fetching"]
    /\ mode' = [mode EXCEPT ![c] = m]
    /\ answer' = [answer EXCEPT ![c] =
                    [u \in Urls |-> IF open[u] THEN "unasked" ELSE "pending"]]
    /\ calls' = calls + 1
    /\ UNCHANGED <<height, breakers, bound, lastError, holder, seen, block>>

\* _fetch_block_number: a height, HTTP 429, or any other error or timeout
Fetch(c, u) ==
    /\ pc[c] = "fetching"
    /\ answer[c][u] = "pending"
    /\ \E a \in {"ok", "failed", "quota"} :
          /\ answer' = [answer EXCEPT ![c][u] = a]
          /\ seen' = [seen EXCEPT ![c][u] = IF a = "ok" THEN height[u] ELSE 0]
    /\ UNCHANGED <<height, breakers, bound, lastError, holder, calls, pc, mode, block>>

\* every endpoint has answered and the lock is taken again
Concluding(c) ==
    /\ pc[c] = "fetching"
    /\ holder = {}
    /\ \A u \in Urls : answer[c][u] # "pending"

QuotaHit(c) == \E u \in Urls : answer[c][u] = "quota"

\* the call returns or raises, and what it held is gone
Leave(c) ==
    /\ pc' = [pc EXCEPT ![c] = "idle"]
    /\ answer' = [answer EXCEPT ![c] = Unasked]
    /\ seen' = [seen EXCEPT ![c] = Unseen]
    /\ block' = [block EXCEPT ![c] = 0]
    /\ mode' = [mode EXCEPT ![c] = NoMode]

\* a 429 raises before the outcome is recorded
RaiseQuota(c) ==
    /\ Concluding(c)
    /\ QuotaHit(c)
    /\ Leave(c)
    /\ UNCHANGED <<height, breakers, bound, lastError, holder, calls>>

\* does c's outcome close, or trip, the breaker of u?
Closes(c, u) == answer[c][u] = "ok" /\ ~cooling[u]

Trips(c, u) == answer[c][u] = "failed" /\ failures[u] + 1 >= FailureThreshold

MUT_RecordOutcome(c) ==
    /\ failures' = [u \in Urls |-> IF answer[c][u] = "ok" THEN 0
                                   ELSE IF answer[c][u] = "failed" THEN failures[u] + 1
                                   ELSE failures[u]]
    /\ open' = [u \in Urls |-> Trips(c, u) \/ (open[u] /\ answer[c][u] # "ok")]
    /\ cooling' = [u \in Urls |-> Trips(c, u) \/ cooling[u]]

MUT_CountDown(c) ==
    /\ failures' = [u \in Urls |-> IF Closes(c, u) THEN failures[u] - 1
                                   ELSE IF answer[c][u] = "failed" THEN failures[u] + 1
                                   ELSE failures[u]]
    /\ open' = [u \in Urls |-> Trips(c, u) \/ (open[u] /\ ~Closes(c, u))]
    /\ cooling' = [u \in Urls |-> Trips(c, u) \/ cooling[u]]

MUT_KeepCount(c) ==
    /\ failures' = [u \in Urls |-> IF answer[c][u] = "failed" THEN failures[u] + 1
                                   ELSE failures[u]]
    /\ open' = [u \in Urls |-> Trips(c, u) \/ (open[u] /\ ~Closes(c, u))]
    /\ cooling' = [u \in Urls |-> Trips(c, u) \/ cooling[u]]

\* _record_outcome
RecordOutcome(c) ==
    /\ failures' = [u \in Urls |-> IF Closes(c, u) THEN 0
                                   ELSE IF answer[c][u] = "failed" THEN failures[u] + 1
                                   ELSE failures[u]]
    /\ open' = [u \in Urls |-> Trips(c, u) \/ (open[u] /\ ~Closes(c, u))]
    /\ cooling' = [u \in Urls |-> Trips(c, u) \/ cooling[u]]

Enough(c) == Cardinality(Succeeded(c)) >= Required(Cardinality(Asked(c)))

\* too few answers; only sync_reconcile keeps the errors as evidence
RaiseUnavailable(c) ==
    /\ Concluding(c)
    /\ ~QuotaHit(c)
    /\ ~Enough(c)
    /\ RecordOutcome(c)
    /\ lastError' = IF mode[c] = "sync" THEN "partial_failure" ELSE lastError
    /\ Leave(c)
    /\ UNCHANGED <<height, bound, holder, calls>>

Diverged(c) == \E u, v \in Succeeded(c) : seen[c][u] - seen[c][v] > SpreadThreshold

RaiseDiverged(c) ==
    /\ Concluding(c)
    /\ ~QuotaHit(c)
    /\ Enough(c)
    /\ Diverged(c)
    /\ RecordOutcome(c)
    /\ lastError' = "height_spread"
    /\ Leave(c)
    /\ UNCHANGED <<height, bound, holder, calls>>

MUT_Best(c) == {u \in Succeeded(c) : \A v \in Succeeded(c) : v <= u}

\* _select_best_endpoint: the one with the greatest height, then the greatest url
Best(c) ==
    {u \in Succeeded(c) :
        \A v \in Succeeded(c) :
            seen[c][v] < seen[c][u] \/ (seen[c][v] = seen[c][u] /\ v <= u)}

Heights(c) == {seen[c][u] : u \in Succeeded(c)}

\* max(values), the block number a reconcile returns
Highest(c) == {h \in Heights(c) : \A g \in Heights(c) : g <= h}

MUT_Bind(c, u) ==
    /\ lastUrl' = u
    /\ syncWeb3' = IF mode[c] = "sync" THEN u ELSE syncWeb3
    /\ asyncWeb3' = IF mode[c] = "async" THEN u ELSE asyncWeb3

\* the client of the other mode is dropped
Bind(c, u) ==
    /\ lastUrl' = u
    /\ syncWeb3' = IF mode[c] = "sync" THEN u ELSE None
    /\ asyncWeb3' = IF mode[c] = "async" THEN u ELSE None

Tolerated(c) == Required(Cardinality(Asked(c))) < Cardinality(Asked(c))

\* the reconcile succeeds; its hook, if it has callbacks, runs with the lock held
Agree(c) ==
    /\ Concluding(c)
    /\ ~QuotaHit(c)
    /\ Enough(c)
    /\ ~Diverged(c)
    /\ RecordOutcome(c)
    /\ \E u \in Best(c) : Bind(c, u)
    /\ \E h \in Highest(c) : block' = [block EXCEPT ![c] = h]
    /\ lastError' = IF Tolerated(c) THEN "tolerated" ELSE "none"
    /\ holder' = {c}
    /\ pc' = [pc EXCEPT ![c] = "hook"]
    /\ UNCHANGED <<height, calls, mode, answer, seen>>

\* the reconcile returns; its caller goes for the client of its mode
Return(c) ==
    /\ pc' = [pc EXCEPT ![c] = "ready"]
    /\ answer' = [answer EXCEPT ![c] = Unasked]
    /\ seen' = [seen EXCEPT ![c] = Unseen]
    /\ block' = [block EXCEPT ![c] = 0]
    /\ UNCHANGED mode

MUT_HookReturns(c) ==
    /\ pc[c] = "hook"
    /\ \/ /\ holder' = {}
          /\ Return(c)
       \/ /\ Leave(c)
          /\ UNCHANGED holder
    /\ UNCHANGED <<height, breakers, bound, lastError, calls>>

\* the callbacks end or are cut off, or one raises LirixSecurityException
HookReturns(c) ==
    /\ pc[c] = "hook"
    /\ holder' = {}
    /\ Return(c) \/ Leave(c)
    /\ UNCHANGED <<height, breakers, bound, lastError, calls>>

Web3Of(m) == IF m = "sync" THEN syncWeb3 ELSE asyncWeb3

\* sync_web3, async_web3: the caller is given whatever is bound by now
TakeWeb3(c) ==
    /\ pc[c] = "ready"
    /\ holder = {}
    /\ Web3Of(mode[c]) # None
    /\ Leave(c)
    /\ UNCHANGED <<height, breakers, bound, lastError, holder, calls>>

\* nothing is bound for its mode any more: RPCUnavailableException
MissWeb3(c) ==
    /\ pc[c] = "ready"
    /\ holder = {}
    /\ Web3Of(mode[c]) = None
    /\ Leave(c)
    /\ UNCHANGED <<height, breakers, bound, lastError, holder, calls>>

Conclude(c) ==
    \/ RaiseQuota(c)
    \/ RaiseUnavailable(c)
    \/ RaiseDiverged(c)
    \/ Agree(c)

\* what a caller does once it has begun a reconcile
Proceed(c) ==
    \/ \E u \in Urls : Fetch(c, u)
    \/ Conclude(c)
    \/ HookReturns(c)
    \/ TakeWeb3(c)
    \/ MissWeb3(c)

Next ==
    \/ \E u \in Urls : Grow(u)
    \/ \E u \in Urls : CoolDown(u)
    \/ Reset
    \/ \E c \in Callers :
        \/ \E m \in Modes : Prepare(c, m)
        \/ Proceed(c)

Spec == Init /\ [][Next]_vars

\* Requests end within request_timeout, hooks within HOOK_ISOLATED_TIMEOUT_SEC
\* each, and a caller that can run does.  The lock is not assumed fair: with
\* finitely many calls nobody can be overtaken for ever.
Fairness == \A c \in Callers : WF_vars(Proceed(c))

FairSpec == Spec /\ Fairness

-----------------------------------------------------------------------------
(***************************************************************************)
(* Properties                                                              *)
(***************************************************************************)

TypeOK ==
    /\ height \in [Urls -> 0..MaxHeight]
    /\ failures \in [Urls -> Nat]
    /\ open \in [Urls -> BOOLEAN]
    /\ cooling \in [Urls -> BOOLEAN]
    /\ {syncWeb3, asyncWeb3, lastUrl} \subseteq Urls \cup {None}
    /\ lastError \in {"none", "partial_failure", "height_spread", "tolerated"}
    /\ holder \in SUBSET Callers
    /\ calls \in 0..MaxCalls
    /\ pc \in [Callers -> {"idle", "fetching", "hook", "ready"}]
    /\ mode \in [Callers -> Modes \cup {NoMode}]
    /\ answer \in [Callers -> [Urls -> {"unasked", "pending", "ok", "failed", "quota"}]]
    /\ seen \in [Callers -> [Urls -> 0..MaxHeight]]
    /\ block \in [Callers -> 0..MaxHeight]

\* A breaker is open exactly when its endpoint has failed too often, also when
\* late answers of several callers, cooldowns and resets are recorded in any
\* order; and a cooldown runs only for an open one.
BreakerMatchesFailures ==
    \A u \in Urls : /\ open[u] <=> failures[u] >= FailureThreshold
                    /\ cooling[u] => open[u]

BreakerStatus ==
    [u \in Urls |-> IF ~open[u] THEN "closed" ELSE IF cooling[u] THEN "tripped" ELSE "cooled"]

Abstract == INSTANCE Breaker WITH Endpoints <- Urls, status <- BreakerStatus

\* The breakers of the manager implement those of Breaker: no answer that arrives
\* during a cooldown closes one.
BreakerSpec == Abstract!Spec

\* At most one client is bound, and it is the one the evidence names: callers of
\* the two modes never see clients of different reconciles at the same time.
OneBinding ==
    /\ syncWeb3 # None => asyncWeb3 = None
    /\ lastUrl # None <=> (syncWeb3 # None \/ asyncWeb3 # None)
    /\ lastUrl # None => lastUrl \in {syncWeb3, asyncWeb3}

\* While a caller holds the lock the bound client is connected to a node that
\* has the block its reconcile returned, although the endpoints are at different
\* heights, some failed and the node may be one the other caller bound before:
\* the simulation can be pinned to that block.
BoundHasBlock ==
    \A c \in Callers :
        pc[c] = "hook" => lastUrl # None /\ height[lastUrl] >= block[c]

\* Every call ends, whatever its endpoints, the hook and the other callers do.
CallsEnd == \A c \in Callers : pc[c] # "idle" ~> pc[c] = "idle"

=============================================================================
