--------------------------- MODULE RPCManagerProofs ---------------------------
(***************************************************************************)
(* Theorems about RPCManager, for any number of callers and endpoints, any *)
(* thresholds and any tolerance.  Init and each action are shown to        *)
(* preserve TypeOK, then the breaker invariant on top of it; the           *)
(* refinement of Breaker follows from both.                                *)
(***************************************************************************)
EXTENDS RPCManager, TLAPS

USE RPCAssumption

\* What a reconcile does to the breakers keeps them well typed.
LEMMA OutcomeType ==
    ASSUME TypeOK, NEW c \in Callers, RecordOutcome(c)
    PROVE  /\ failures' \in [Urls -> Nat]
           /\ open' \in [Urls -> BOOLEAN]
           /\ cooling' \in [Urls -> BOOLEAN]
<1>1. \A u \in Urls : failures[u] \in Nat /\ failures[u] + 1 \in Nat
  BY DEF TypeOK
<1>2. failures' \in [Urls -> Nat]
  BY <1>1 DEF RecordOutcome
<1>3. \A u \in Urls : /\ Trips(c, u) \in BOOLEAN
                      /\ Closes(c, u) \in BOOLEAN
  BY DEF Trips, Closes
<1>4. open' \in [Urls -> BOOLEAN] /\ cooling' \in [Urls -> BOOLEAN]
  BY <1>3 DEF RecordOutcome, TypeOK
<1> QED
  BY <1>2, <1>4

\* Leaving keeps the caller's own variables well typed.
LEMMA LeaveType ==
    ASSUME TypeOK, NEW c \in Callers, Leave(c)
    PROVE  /\ pc' \in [Callers -> {"idle", "fetching", "hook", "ready"}]
           /\ mode' \in [Callers -> Modes \cup {NoMode}]
           /\ answer' \in [Callers ->
                             [Urls -> {"unasked", "pending", "ok", "failed", "quota"}]]
           /\ seen' \in [Callers -> [Urls -> 0..MaxHeight]]
           /\ block' \in [Callers -> 0..MaxHeight]
<1>1. 0 \in 0..MaxHeight
  OBVIOUS
<1>2. Unasked \in [Urls -> {"unasked", "pending", "ok", "failed", "quota"}]
  BY DEF Unasked
<1>3. Unseen \in [Urls -> 0..MaxHeight]
  BY <1>1 DEF Unseen
<1> QED
  BY <1>1, <1>2, <1>3 DEF Leave, TypeOK

\* Returning from the reconcile does so too.
LEMMA ReturnType ==
    ASSUME TypeOK, NEW c \in Callers, Return(c)
    PROVE  /\ pc' \in [Callers -> {"idle", "fetching", "hook", "ready"}]
           /\ mode' \in [Callers -> Modes \cup {NoMode}]
           /\ answer' \in [Callers ->
                             [Urls -> {"unasked", "pending", "ok", "failed", "quota"}]]
           /\ seen' \in [Callers -> [Urls -> 0..MaxHeight]]
           /\ block' \in [Callers -> 0..MaxHeight]
<1>1. 0 \in 0..MaxHeight
  OBVIOUS
<1>2. Unasked \in [Urls -> {"unasked", "pending", "ok", "failed", "quota"}]
  BY DEF Unasked
<1>3. Unseen \in [Urls -> 0..MaxHeight]
  BY <1>1 DEF Unseen
<1> QED
  BY <1>1, <1>2, <1>3 DEF Return, TypeOK

\* The type invariant of RPCManager.
THEOREM TypeCorrect == Spec => []TypeOK
<1>1. Init => TypeOK
  <2> SUFFICES ASSUME Init PROVE TypeOK
    OBVIOUS
  <2>1. /\ height \in [Urls -> 0..MaxHeight]
        /\ failures \in [Urls -> Nat]
        /\ open \in [Urls -> BOOLEAN]
        /\ cooling \in [Urls -> BOOLEAN]
    BY DEF Init
  <2>2. /\ {syncWeb3, asyncWeb3, lastUrl} \subseteq Urls \cup {None}
        /\ lastError \in {"none", "partial_failure", "height_spread", "tolerated"}
        /\ holder \in SUBSET Callers
        /\ calls \in 0..MaxCalls
    BY DEF Init
  <2>3. 0 \in 0..MaxHeight
    OBVIOUS
  <2>4. /\ pc \in [Callers -> {"idle", "fetching", "hook", "ready"}]
        /\ mode \in [Callers -> Modes \cup {NoMode}]
        /\ block \in [Callers -> 0..MaxHeight]
    BY <2>3 DEF Init, None
  <2>5. /\ answer \in [Callers -> [Urls -> {"unasked", "pending", "ok", "failed", "quota"}]]
        /\ seen \in [Callers -> [Urls -> 0..MaxHeight]]
    BY <2>3 DEF Init, Unasked, Unseen
  <2> QED
    BY <2>1, <2>2, <2>4, <2>5 DEF TypeOK
<1>2. TypeOK /\ [Next]_vars => TypeOK'
  <2> SUFFICES ASSUME TypeOK, [Next]_vars PROVE TypeOK'
    OBVIOUS
  <2> USE DEF breakers, bound, local
  <2>1. ASSUME NEW u \in Urls, Grow(u) PROVE TypeOK'
    <3>1. PICK h \in (height[u] + 1)..MaxHeight : height' = [height EXCEPT ![u] = h]
      BY <2>1 DEF Grow
    <3>2. height[u] \in Nat
      BY DEF TypeOK
    <3>3. h \in 0..MaxHeight
      BY <3>2
    <3>4. height' \in [Urls -> 0..MaxHeight]
      BY <3>1, <3>3 DEF TypeOK
    <3> QED
      BY <2>1, <3>4 DEF Grow, TypeOK
  <2>2. ASSUME NEW u \in Urls, CoolDown(u) PROVE TypeOK'
    BY <2>2 DEF CoolDown, TypeOK
  <2>3. CASE Reset
    BY <2>3 DEF Reset, TypeOK, None
  <2>4. ASSUME NEW c \in Callers, NEW m \in Modes, Prepare(c, m) PROVE TypeOK'
    <3>1. answer' \in [Callers -> [Urls -> {"unasked", "pending", "ok", "failed", "quota"}]]
      BY <2>4 DEF Prepare, TypeOK
    <3>2. calls' \in 0..MaxCalls
      BY <2>4 DEF Prepare, TypeOK
    <3> QED
      BY <2>4, <3>1, <3>2 DEF Prepare, TypeOK
  <2>5. ASSUME NEW c \in Callers, NEW u \in Urls, Fetch(c, u) PROVE TypeOK'
    <3>1. PICK a \in {"ok", "failed", "quota"} :
             /\ answer' = [answer EXCEPT ![c][u] = a]
             /\ seen' = [seen EXCEPT ![c][u] = IF a = "ok" THEN height[u] ELSE 0]
      BY <2>5 DEF Fetch
    <3>2. answer' \in [Callers -> [Urls -> {"unasked", "pending", "ok", "failed", "quota"}]]
      BY <3>1 DEF TypeOK
    <3>3. 0 \in 0..MaxHeight /\ height[u] \in 0..MaxHeight
      BY DEF TypeOK
    <3>4. CASE a = "ok"
      BY <3>1, <3>2, <3>3, <3>4, <2>5 DEF Fetch, TypeOK
    <3>5. CASE a # "ok"
      BY <3>1, <3>2, <3>3, <3>5, <2>5 DEF Fetch, TypeOK
    <3> QED
      BY <3>4, <3>5
  <2>6. ASSUME NEW c \in Callers, RaiseQuota(c) PROVE TypeOK'
    BY <2>6, LeaveType DEF RaiseQuota, TypeOK
  <2>7. ASSUME NEW c \in Callers, RaiseUnavailable(c) PROVE TypeOK'
    BY <2>7, LeaveType, OutcomeType DEF RaiseUnavailable, TypeOK
  <2>8. ASSUME NEW c \in Callers, RaiseDiverged(c) PROVE TypeOK'
    BY <2>8, LeaveType, OutcomeType DEF RaiseDiverged, TypeOK
  <2>9. ASSUME NEW c \in Callers, Agree(c) PROVE TypeOK'
    <3>1. PICK u \in Best(c) : Bind(c, u)
      BY <2>9 DEF Agree
    <3>2. u \in Urls
      BY <3>1 DEF Best, Succeeded
    <3>3. {syncWeb3', asyncWeb3', lastUrl'} \subseteq Urls \cup {None}
      BY <3>1, <3>2 DEF Bind
    <3>4. PICK h \in Highest(c) : block' = [block EXCEPT ![c] = h]
      BY <2>9 DEF Agree
    <3>5. h \in 0..MaxHeight
      BY <3>4 DEF Highest, Heights, Succeeded, TypeOK
    <3>6. block' \in [Callers -> 0..MaxHeight]
      BY <3>4, <3>5 DEF TypeOK
    <3>7. holder' \in SUBSET Callers
      BY <2>9 DEF Agree, TypeOK
    <3>8. pc' \in [Callers -> {"idle", "fetching", "hook", "ready"}]
      BY <2>9 DEF Agree, TypeOK
    <3>9. lastError' \in {"none", "partial_failure", "height_spread", "tolerated"}
      BY <2>9 DEF Agree
    <3> QED
      BY <2>9, <3>3, <3>6, <3>7, <3>8, <3>9, OutcomeType DEF Agree, TypeOK
  <2>10. ASSUME NEW c \in Callers, HookReturns(c) PROVE TypeOK'
    <3>1. CASE Return(c)
      BY <2>10, <3>1, ReturnType DEF HookReturns, TypeOK
    <3>2. CASE Leave(c)
      BY <2>10, <3>2, LeaveType DEF HookReturns, TypeOK
    <3> QED
      BY <2>10, <3>1, <3>2 DEF HookReturns
  <2>11. ASSUME NEW c \in Callers, TakeWeb3(c) PROVE TypeOK'
    BY <2>11, LeaveType DEF TakeWeb3, TypeOK
  <2>12. ASSUME NEW c \in Callers, MissWeb3(c) PROVE TypeOK'
    BY <2>12, LeaveType DEF MissWeb3, TypeOK
  <2>13. CASE UNCHANGED vars
    BY <2>13 DEF vars, TypeOK
  <2> QED
    BY <2>1, <2>2, <2>3, <2>4, <2>5, <2>6, <2>7, <2>8, <2>9, <2>10, <2>11, <2>12, <2>13
       DEF Next, Proceed, Conclude
<1> QED
  BY <1>1, <1>2, PTL DEF Spec

-----------------------------------------------------------------------------
(***************************************************************************)
(* The breakers                                                            *)
(***************************************************************************)

\* What one step may do to the breakers: reset them, let one cool down, record
\* the outcome of a reconcile, or leave them alone.
LEMMA BreakerSteps ==
    ASSUME [Next]_vars
    PROVE  \/ Reset
           \/ \E u \in Urls : CoolDown(u)
           \/ \E c \in Callers : RecordOutcome(c)
           \/ UNCHANGED breakers
BY DEF Next, Proceed, vars, breakers, Grow, Prepare, Fetch, Conclude, RaiseQuota, RaiseUnavailable,
       RaiseDiverged, Agree, HookReturns, TakeWeb3, MissWeb3

\* A breaker is open exactly when its endpoint failed FailureThreshold times or more,
\* and cools down only when open.
THEOREM BreakersMatch == Spec => []BreakerMatchesFailures
<1>1. Init => BreakerMatchesFailures
  BY DEF Init, BreakerMatchesFailures
<1>2. TypeOK /\ BreakerMatchesFailures /\ [Next]_vars => BreakerMatchesFailures'
  <2> SUFFICES ASSUME TypeOK, BreakerMatchesFailures, [Next]_vars
               PROVE  BreakerMatchesFailures'
    OBVIOUS
  <2>1. CASE Reset
    BY <2>1 DEF Reset, BreakerMatchesFailures
  <2>2. ASSUME NEW v \in Urls, CoolDown(v) PROVE BreakerMatchesFailures'
    BY <2>2 DEF CoolDown, BreakerMatchesFailures, TypeOK
  <2>3. ASSUME NEW c \in Callers, RecordOutcome(c) PROVE BreakerMatchesFailures'
    <3> SUFFICES ASSUME NEW u \in Urls
                 PROVE  /\ open'[u] <=> failures'[u] >= FailureThreshold
                        /\ cooling'[u] => open'[u]
      BY DEF BreakerMatchesFailures
    <3>1. /\ failures[u] \in Nat
          /\ open[u] \in BOOLEAN
          /\ cooling[u] \in BOOLEAN
          /\ open[u] <=> failures[u] >= FailureThreshold
          /\ cooling[u] => open[u]
      BY DEF TypeOK, BreakerMatchesFailures
    <3>2. /\ failures'[u] = IF Closes(c, u) THEN 0
                            ELSE IF answer[c][u] = "failed" THEN failures[u] + 1
                            ELSE failures[u]
          /\ open'[u] = (Trips(c, u) \/ (open[u] /\ ~Closes(c, u)))
          /\ cooling'[u] = (Trips(c, u) \/ cooling[u])
      BY <2>3 DEF RecordOutcome
    <3>3. CASE answer[c][u] = "ok"
      BY <3>1, <3>2, <3>3 DEF Closes, Trips
    <3>4. CASE answer[c][u] = "failed"
      <4>1. ~Closes(c, u) /\ (Trips(c, u) <=> failures[u] + 1 >= FailureThreshold)
        BY <3>4 DEF Closes, Trips
      <4>2. failures'[u] = failures[u] + 1
        BY <3>2, <3>4, <4>1
      <4>3. failures[u] >= FailureThreshold => failures[u] + 1 >= FailureThreshold
        BY <3>1
      <4> QED
        BY <3>1, <3>2, <4>1, <4>2, <4>3
    <3>5. CASE answer[c][u] \notin {"ok", "failed"}
      BY <3>1, <3>2, <3>5 DEF Closes, Trips
    <3> QED
      BY <3>3, <3>4, <3>5
  <2>4. CASE UNCHANGED breakers
    BY <2>4 DEF breakers, BreakerMatchesFailures
  <2> QED
    BY <2>1, <2>2, <2>3, <2>4, BreakerSteps
<1> QED
  BY <1>1, <1>2, TypeCorrect, PTL DEF Spec

\* The manager's breakers implement those of Breaker: Init maps to its Init and
\* every step to one of its steps or a stutter.
THEOREM BreakersImplement == Spec => BreakerSpec
<1>1. Init => Abstract!Init
  BY DEF Init, Abstract!Init, BreakerStatus
<1>2. TypeOK /\ BreakerMatchesFailures /\ [Next]_vars => [Abstract!Next]_BreakerStatus
  <2> SUFFICES ASSUME TypeOK, BreakerMatchesFailures, [Next]_vars
               PROVE  [Abstract!Next]_BreakerStatus
    OBVIOUS
  <2>1. CASE Reset
    BY <2>1 DEF Reset, Abstract!Next, Abstract!Reset, BreakerStatus
  <2>2. ASSUME \A u \in Urls :
                  \/ open'[u] = open[u] /\ cooling'[u] = cooling[u]
                  \/ <<BreakerStatus[u], BreakerStatus'[u]>> \in Abstract!Moves
        PROVE  Abstract!Observe
    <3>1. BreakerStatus' \in [Urls -> Abstract!States]
      BY DEF BreakerStatus, Abstract!States
    <3>2. \A u \in Urls : \/ BreakerStatus'[u] = BreakerStatus[u]
                          \/ <<BreakerStatus[u], BreakerStatus'[u]>> \in Abstract!Moves
      BY <2>2 DEF BreakerStatus
    <3> QED
      BY <3>1, <3>2 DEF Abstract!Observe
  <2>3. ASSUME NEW v \in Urls, CoolDown(v) PROVE Abstract!Observe
    <3>1. BreakerStatus[v] = "tripped" /\ BreakerStatus'[v] = "cooled"
      BY <2>3 DEF CoolDown, BreakerStatus, BreakerMatchesFailures, TypeOK
    <3>2. \A u \in Urls \ {v} : open'[u] = open[u] /\ cooling'[u] = cooling[u]
      BY <2>3 DEF CoolDown, TypeOK
    <3> QED
      BY <2>2, <3>1, <3>2 DEF Abstract!Moves
  <2>4. ASSUME NEW c \in Callers, RecordOutcome(c)
        PROVE  Abstract!Observe \/ UNCHANGED BreakerStatus
    <3>1. ASSUME NEW u \in Urls
          PROVE  \/ BreakerStatus'[u] = BreakerStatus[u]
                 \/ <<BreakerStatus[u], BreakerStatus'[u]>> \in Abstract!Moves
      <4>1. /\ open[u] \in BOOLEAN
            /\ cooling[u] \in BOOLEAN
            /\ cooling[u] => open[u]
        BY DEF TypeOK, BreakerMatchesFailures
      <4>2. /\ open'[u] = (Trips(c, u) \/ (open[u] /\ ~Closes(c, u)))
            /\ cooling'[u] = (Trips(c, u) \/ cooling[u])
        BY <2>4 DEF RecordOutcome
      <4>3. BreakerStatus[u] = IF ~open[u] THEN "closed"
                               ELSE IF cooling[u] THEN "tripped" ELSE "cooled"
        BY DEF BreakerStatus
      <4>4. BreakerStatus'[u] = IF ~open'[u] THEN "closed"
                                ELSE IF cooling'[u] THEN "tripped" ELSE "cooled"
        BY DEF BreakerStatus
      <4>5. CASE Trips(c, u)
        BY <4>1, <4>2, <4>3, <4>4, <4>5 DEF Abstract!Moves
      <4>6. CASE ~Trips(c, u) /\ Closes(c, u)
        BY <4>1, <4>2, <4>3, <4>4, <4>6 DEF Abstract!Moves, Closes
      <4>7. CASE ~Trips(c, u) /\ ~Closes(c, u)
        BY <4>1, <4>2, <4>3, <4>4, <4>7
      <4> QED
        BY <4>5, <4>6, <4>7
    <3>2. BreakerStatus' \in [Urls -> Abstract!States]
      BY DEF BreakerStatus, Abstract!States
    <3> QED
      BY <3>1, <3>2 DEF Abstract!Observe
  <2>5. CASE UNCHANGED breakers
    BY <2>5 DEF breakers, BreakerStatus
  <2> QED
    BY <2>1, <2>3, <2>4, <2>5, BreakerSteps DEF Abstract!Next
<1> QED
  BY <1>1, <1>2, TypeCorrect, BreakersMatch, PTL DEF Spec, BreakerSpec, Abstract!Spec

-----------------------------------------------------------------------------
(***************************************************************************)
(* The bound client                                                        *)
(***************************************************************************)

\* A caller in a reconcile has called one of the two methods.
BusyHasMode == \A c \in Callers : pc[c] # "idle" => mode[c] \in Modes

LEMMA BusyMode == Spec => []BusyHasMode
<1>1. Init => BusyHasMode
  BY DEF Init, BusyHasMode
<1>2. TypeOK /\ BusyHasMode /\ [Next]_vars => BusyHasMode'
  <2> SUFFICES ASSUME TypeOK, BusyHasMode, [Next]_vars PROVE BusyHasMode'
    OBVIOUS
  <2>1. ASSUME NEW c \in Callers, NEW m \in Modes, Prepare(c, m) PROVE BusyHasMode'
    BY <2>1 DEF Prepare, BusyHasMode, TypeOK
  <2>2. ASSUME NEW c \in Callers, Leave(c) PROVE BusyHasMode'
    BY <2>2 DEF Leave, BusyHasMode, TypeOK
  <2>3. ASSUME NEW c \in Callers, Agree(c) PROVE BusyHasMode'
    BY <2>3 DEF Agree, Concluding, BusyHasMode, TypeOK
  <2>4. ASSUME NEW c \in Callers, HookReturns(c), Return(c) PROVE BusyHasMode'
    BY <2>4 DEF HookReturns, Return, BusyHasMode, TypeOK
  <2>5. CASE UNCHANGED <<pc, mode>>
    BY <2>5 DEF BusyHasMode
  <2> QED
    BY <2>1, <2>2, <2>3, <2>4, <2>5
       DEF Next, Proceed, vars, local, Grow, CoolDown, Reset, Fetch, Conclude, RaiseQuota,
           RaiseUnavailable, RaiseDiverged, HookReturns, TakeWeb3, MissWeb3
<1> QED
  BY <1>1, <1>2, TypeCorrect, PTL DEF Spec


\* At most one client is bound, the one the evidence names.
THEOREM OneBindingHolds == Spec => []OneBinding
<1>1. Init => OneBinding
  BY DEF Init, OneBinding
<1>2. TypeOK /\ BusyHasMode /\ OneBinding /\ [Next]_vars => OneBinding'
  <2> SUFFICES ASSUME TypeOK, BusyHasMode, OneBinding, [Next]_vars PROVE OneBinding'
    OBVIOUS
  <2>1. CASE Reset
    BY <2>1 DEF Reset, OneBinding
  <2>2. ASSUME NEW c \in Callers, Agree(c) PROVE OneBinding'
    <3>1. PICK u \in Best(c) : Bind(c, u)
      BY <2>2 DEF Agree
    <3>2. u \in Urls /\ u # None
      BY <3>1 DEF Best, Succeeded, Urls, None
    <3>3. mode[c] \in {"sync", "async"}
      BY <2>2, RPCAssumption DEF Agree, Concluding, BusyHasMode
    <3> QED
      BY <3>1, <3>2, <3>3 DEF Bind, OneBinding
  <2>3. CASE UNCHANGED bound
    BY <2>3 DEF bound, OneBinding
  <2> QED
    BY <2>1, <2>2, <2>3
       DEF Next, Proceed, vars, bound, Grow, CoolDown, Prepare, Fetch, Conclude, RaiseQuota,
           RaiseUnavailable, RaiseDiverged, HookReturns, TakeWeb3, MissWeb3
<1> QED
  BY <1>1, <1>2, TypeCorrect, BusyMode, PTL DEF Spec

-----------------------------------------------------------------------------
(***************************************************************************)
(* The node behind the bound client                                        *)
(***************************************************************************)

\* What an endpoint answered is a height it has passed, and the caller in its
\* hook is the one that holds the lock, so that nobody binds another client.
SeenIsPast == \A c \in Callers, u \in Urls : seen[c][u] <= height[u]

HookHoldsLock == \A c \in Callers : pc[c] = "hook" => holder = {c}

BlockInv == SeenIsPast /\ HookHoldsLock /\ BoundHasBlock

\* The endpoint with the greatest answered height has the block a reconcile returns.
LEMMA BestHasHighest ==
    ASSUME TypeOK, SeenIsPast, NEW c \in Callers, NEW u \in Best(c), NEW h \in Highest(c)
    PROVE  u \in Urls /\ u # None /\ h <= height[u]
<1>1. u \in Succeeded(c) /\ u \in Urls
  BY DEF Best, Succeeded
<1>2. PICK w \in Succeeded(c) : h = seen[c][w]
  BY DEF Highest, Heights
<1>3. w \in Urls
  BY DEF Succeeded
<1>4. seen[c][u] \in Nat /\ seen[c][w] \in Nat /\ height[u] \in Nat
  BY <1>1, <1>3 DEF TypeOK
<1>5. seen[c][w] <= seen[c][u]
  BY <1>2, <1>4 DEF Best
<1>6. seen[c][u] <= height[u]
  BY <1>1 DEF SeenIsPast
<1> QED
  BY <1>1, <1>2, <1>4, <1>5, <1>6 DEF Urls, None

\* A caller that leaves, or returns, forgets what it saw.
LEMMA ForgetKeepsBlockInv ==
    ASSUME TypeOK, BlockInv, NEW c \in Callers, Leave(c) \/ Return(c),
           UNCHANGED <<height, lastUrl>>,
           holder' = holder \/ (pc[c] = "hook" /\ holder' = {})
    PROVE  BlockInv'
<1>1. pc' = [pc EXCEPT ![c] = "idle"] \/ pc' = [pc EXCEPT ![c] = "ready"]
  BY DEF Leave, Return
<1>2. ASSUME NEW d \in Callers, pc'[d] = "hook"
      PROVE  d # c /\ pc[d] = "hook" /\ holder' = {d} /\ block'[d] = block[d]
  <2>1. d # c /\ pc[d] = "hook"
    BY <1>1, <1>2 DEF TypeOK
  <2>2. holder = {d}
    BY <2>1 DEF BlockInv, HookHoldsLock
  <2>3. pc[c] # "hook"
    BY <2>1, <2>2 DEF BlockInv, HookHoldsLock
  <2> QED
    BY <2>1, <2>2, <2>3 DEF Leave, Return, TypeOK
<1>3. HookHoldsLock' /\ BoundHasBlock'
  BY <1>2 DEF HookHoldsLock, BoundHasBlock, BlockInv
<1>4. SeenIsPast'
  <2> SUFFICES ASSUME NEW d \in Callers, NEW u \in Urls PROVE seen'[d][u] <= height'[u]
    BY DEF SeenIsPast
  <2>1. height[u] \in Nat
    BY DEF TypeOK
  <2>2. CASE d = c
    BY <2>1, <2>2 DEF Leave, Return, Unseen, TypeOK
  <2>3. CASE d # c
    BY <2>3 DEF Leave, Return, BlockInv, SeenIsPast, TypeOK
  <2> QED
    BY <2>2, <2>3
<1> QED
  BY <1>3, <1>4 DEF BlockInv

\* While a caller holds the lock the bound client is connected to a node that
\* has the block its reconcile returned: for any number of callers and
\* endpoints, whatever fails and however fast the nodes import blocks.
THEOREM BoundHasBlockHolds == Spec => []BoundHasBlock
<1>1. Init => BlockInv
  <2> SUFFICES ASSUME Init PROVE BlockInv
    OBVIOUS
  <2>1. \A u \in Urls : height[u] \in Nat
    BY DEF Init
  <2> QED
    BY <2>1 DEF Init, Unseen, BlockInv, SeenIsPast, HookHoldsLock, BoundHasBlock
<1>2. TypeOK /\ BlockInv /\ [Next]_vars => BlockInv'
  <2> SUFFICES ASSUME TypeOK, BlockInv, [Next]_vars PROVE BlockInv'
    OBVIOUS
  <2> USE DEF breakers, bound, local
  <2>1. ASSUME NEW u \in Urls, Grow(u) PROVE BlockInv'
    <3>1. \A v \in Urls : height[v] \in Nat /\ height'[v] \in Nat /\ height[v] <= height'[v]
      BY <2>1 DEF Grow, TypeOK
    <3>2. SeenIsPast'
      BY <2>1, <3>1 DEF Grow, BlockInv, SeenIsPast, TypeOK
    <3>3. HookHoldsLock'
      BY <2>1 DEF Grow, BlockInv, HookHoldsLock
    <3>4. BoundHasBlock'
      <4> SUFFICES ASSUME NEW d \in Callers, pc'[d] = "hook"
                   PROVE  lastUrl' # None /\ height'[lastUrl'] >= block'[d]
        BY DEF BoundHasBlock
      <4>1. lastUrl # None /\ height[lastUrl] >= block[d]
        BY <2>1 DEF Grow, BlockInv, BoundHasBlock
      <4>2. lastUrl \in Urls /\ block[d] \in Nat
        BY <4>1 DEF TypeOK
      <4> QED
        BY <2>1, <3>1, <4>1, <4>2 DEF Grow
    <3> QED
      BY <3>2, <3>3, <3>4 DEF BlockInv
  <2>2. ASSUME NEW u \in Urls, CoolDown(u) PROVE BlockInv'
    BY <2>2 DEF CoolDown, BlockInv, SeenIsPast, HookHoldsLock, BoundHasBlock
  <2>3. CASE Reset
    BY <2>3 DEF Reset, BlockInv, SeenIsPast, HookHoldsLock, BoundHasBlock
  <2>4. ASSUME NEW c \in Callers, NEW m \in Modes, Prepare(c, m) PROVE BlockInv'
    BY <2>4 DEF Prepare, BlockInv, SeenIsPast, HookHoldsLock, BoundHasBlock, TypeOK
  <2>5. ASSUME NEW c \in Callers, NEW u \in Urls, Fetch(c, u) PROVE BlockInv'
    <3>1. HookHoldsLock' /\ BoundHasBlock'
      BY <2>5 DEF Fetch, BlockInv, HookHoldsLock, BoundHasBlock
    <3>2. PICK a \in {"ok", "failed", "quota"} :
             seen' = [seen EXCEPT ![c][u] = IF a = "ok" THEN height[u] ELSE 0]
      BY <2>5 DEF Fetch
    <3>3. \A v \in Urls : height[v] \in Nat
      BY DEF TypeOK
    <3>4. SeenIsPast'
      BY <2>5, <3>2, <3>3 DEF Fetch, BlockInv, SeenIsPast, TypeOK
    <3> QED
      BY <3>1, <3>4 DEF BlockInv
  <2>6. ASSUME NEW c \in Callers, RaiseQuota(c) PROVE BlockInv'
    BY <2>6, ForgetKeepsBlockInv DEF RaiseQuota
  <2>7. ASSUME NEW c \in Callers, RaiseUnavailable(c) PROVE BlockInv'
    BY <2>7, ForgetKeepsBlockInv DEF RaiseUnavailable
  <2>8. ASSUME NEW c \in Callers, RaiseDiverged(c) PROVE BlockInv'
    BY <2>8, ForgetKeepsBlockInv DEF RaiseDiverged
  <2>9. ASSUME NEW c \in Callers, Agree(c) PROVE BlockInv'
    <3>1. PICK u \in Best(c) : Bind(c, u)
      BY <2>9 DEF Agree
    <3>2. PICK h \in Highest(c) : block' = [block EXCEPT ![c] = h]
      BY <2>9 DEF Agree
    <3>3. u \in Urls /\ u # None /\ h <= height[u]
      BY <3>1, <3>2, BestHasHighest DEF BlockInv
    <3>4. \A d \in Callers : pc'[d] = "hook" => d = c
      BY <2>9 DEF Agree, Concluding, BlockInv, HookHoldsLock, TypeOK
    <3>5. SeenIsPast' /\ HookHoldsLock'
      BY <2>9, <3>4 DEF Agree, BlockInv, SeenIsPast, HookHoldsLock
    <3>6. block'[c] = h /\ lastUrl' = u /\ height' = height
      BY <2>9, <3>1, <3>2 DEF Agree, Bind, TypeOK
    <3>7. h \in Nat /\ height[u] \in Nat
      BY <3>2, <3>3 DEF Highest, Heights, Succeeded, TypeOK
    <3>8. BoundHasBlock'
      BY <3>3, <3>4, <3>6, <3>7 DEF BoundHasBlock
    <3> QED
      BY <3>5, <3>8 DEF BlockInv
  <2>10. ASSUME NEW c \in Callers, HookReturns(c) PROVE BlockInv'
    BY <2>10, ForgetKeepsBlockInv DEF HookReturns
  <2>11. ASSUME NEW c \in Callers, TakeWeb3(c) PROVE BlockInv'
    BY <2>11, ForgetKeepsBlockInv DEF TakeWeb3
  <2>12. ASSUME NEW c \in Callers, MissWeb3(c) PROVE BlockInv'
    BY <2>12, ForgetKeepsBlockInv DEF MissWeb3
  <2>13. CASE UNCHANGED vars
    BY <2>13 DEF vars, BlockInv, SeenIsPast, HookHoldsLock, BoundHasBlock
  <2> QED
    BY <2>1, <2>2, <2>3, <2>4, <2>5, <2>6, <2>7, <2>8, <2>9, <2>10, <2>11, <2>12, <2>13
       DEF Next, Proceed, Conclude
<1>3. BlockInv => BoundHasBlock
  BY DEF BlockInv
<1> QED
  BY <1>1, <1>2, <1>3, TypeCorrect, PTL DEF Spec

=============================================================================
