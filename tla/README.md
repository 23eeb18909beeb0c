# Lirix in TLA+

Lirix is a Python library that validates and simulates the EVM transactions an AI agent
drafts, and fails closed: a request either ends with an approved envelope, backed by a
trace and a recorded decision, or with an exception whose decision is recorded as blocked.
The program is `src/lirix/` (61 files, about 11,600 lines). This directory holds TLA+
modules of its core: the parts where order, interleaving and partial failure matter, and
the checks that decide over a request; TLC
configurations for small instances, and TLAPS proofs for every value of the constants.

`PROJECT.json` lists, in a form tools can read, the components, the runs, the source lines
each definition stands for, the mutants that show each property can fail, the hazards and
the theorems.

Paths below are relative to `src/lirix/` unless they start with `docs/` or `tests/`.

## 1. The system

### Components

| Component | Source | State | Operations | Hard behaviour |
|---|---|---|---|---|
| Validation session | `core/session.py`, `core/session_fsm.py`, `core/status_aggregation.py` | `_lifecycle`, `timeline`, `state` (outcome, plan, decision), correlation ids, an `RLock` | `link_trace`, `record_trace`, `record_event`, `bind_execution_plan`, `record_decision`, `finalize`, `replay_bundle` | several OS threads; checks before the lock; readers without the lock; a bounded look-back |
| Request pipeline | `core/orchestrator.py`, `_facade.py`, `core/trace_recorder.py`, `core/client_components.py` | per request: draft, trace, correlation id; per session: gate `l1_l3_ok` | `validate_only`, `simulate_only`, `validate_and_simulate`, `_record_failure`, `extract_broadcast_fields` | concurrent asyncio tasks; cancellation; a failure path that can fail; sessions shared with their owner |
| Hook manager | `core/hook_manager.py`, `core/hook_contract.py` | callbacks per point, contract mode, one recorder per client, a context variable | register, clear, `invoke_hooks`, `ainvoke_hooks`, both `_isolated`, `bind_trace_recorder` | threads that outlive their timeout; an executor with few workers; a registry that changes during a call; patches |
| RPC manager | `layers/l4_rpc_manager.py` | `_failures`, `_open`, `_cooldown_until`, bound Web3 client, `_last_error` | `sync_reconcile`, `async_reconcile`, `sync_web3`, `async_web3`, `reset_circuit_breakers` | the lock is dropped while endpoints are asked; a hook runs with the lock held |
| Async quorum provider | same file, from line 633 | best endpoint and height | `refresh_quorum`, `eth_call`, `quorum_eth_call` | coroutines that share it; a quorum over all endpoints |
| ABI cache and proxy piercer | `layers/l3_proxy_piercer.py` | LRU in memory and SQLite, janitor thread; an inspection cache | `fetch_abi`, `inspect_target`, `invalidate`, `close` | fetch without a lock; one file and several processes; several reads of a proxy that is upgraded |
| DeFi parser | `layers/l3_defi_parser.py`, `core/decoder_registry.py` | the addresses collected in one walk | decode and check calldata | two walks that call each other over nested batches; plugins in front |
| Intent and schema validators | `layers/l1_*`, `layers/l2_*` | none | accept or reject a draft | none of their own |
| Shadow auditor | `layers/l5_shadow_auditor.py` | none | resolve a policy, audit, report | selection, rollback and overrides in one order; resolved twice |
| Sandbox simulator | `layers/l5_sandbox_simulator.py`, `shield/` | none | one `eth_call` on a copy of the draft | pinning the block |
| Configuration, governance, registries | `core/config*.py`, `_client_facade.py`, `core/registry_*.py`, `core/chain_adapter.py` | frozen after construction | build a client, rebuild it for a profile | precedence of sources; patches that change what limits patches |
| Multicall and calldata builders | `core/multicall.py`, `_multicall_facade.py`, `core/calldata_builder.py` | none | `atomic_multicall`, ABI encoding | callbacks that hold the encoded batch while it is checked |
| Forensic verifier | `core/forensic_verifier.py` | none | verify a bundle | none |
| Audit logger, CLI, integrations | `audit/`, `cli.py`, `integrations/` | a stream | output; callers of the pipeline | none of their own |
| Repository tools | `src/tools/` | none | checks of the repository's text in CI | not part of the program |

### How they interact

A client method opens a request: it links a fresh correlation id to the session (the
caller's or one the pipeline manages), normalizes the draft and binds a trace recorder to
the client. Then the stages follow: pre-hooks, L1 to L3, the gate mark, pre-simulation
hooks and, in a full run, a second L1-L3 pass; L4 asks the endpoints of an `RPCManager` and
takes the client it binds, L5 executes the draft on that client, policies audit the
outcome, post-hooks run. The trace is digested into the session (`record_trace`), then
the decision, then, for a managed session, `finalize`. An exception anywhere goes to
`_record_failure`, which records the trace as rejected and the decision as blocked, and
enriches the exception. A `finally` clause unbinds the recorder.

The actors that interleave are: tasks on one event loop, which switch at awaits; executor
threads that run function hooks; OS threads that use a session or an RPC manager directly;
the owner of a session; and the world, that is the endpoints, the clock and an operator.

### What makes each correct

* Session: the record closes on finalize, agent events come in order, the outcome hides no
  rejection, a bundle that is handed out verifies.
* Pipeline: what the caller is told is what is recorded, once; an approval's evidence is
  its own and complete; only validated drafts are simulated; every request ends; what is
  approved was allowed by every layer and can be signed.
* Hook manager: only patches, and only where the contract lets them, change a payload; every
  callback has its result; the trace is not better than the results; a job that was given up
  never runs; calls with a timeout end.
* RPC manager: breakers follow the recorded failures, no answer closes one before its cooldown
  is over, one client is bound, it has the reconciled block, every reconcile ends.
* ABI cache, piercer: no value comes back behind a newer one or an invalidation, every copy of a
  value expires with it, an inspection is right for some moment of its validity.
* Parser, validators: no address and no swap of an accepted payload escapes the checks however
  it is nested.
* Policies: what is enforced is one verified active policy and its overrides, and the report
  tells all of it.
* Configuration: tags tell where a value came from; a strict configuration cannot be loosened;
  a patch cannot let itself in.
* Multicall: a batch is packed whole, and what is returned is what was checked.

## 2. Modules

| Module | Models | EXTENDS / composes |
|---|---|---|
| `Selection` | what is left of a sequence when entries are dropped: timelines without traces, caches without rows | - |
| `SelectionProofs` | lemmas: least elements of sets of naturals, what `Kept` keeps | `Selection` |
| `SessionFSM` | `session_fsm.py`, the status order: the guards of a timeline | - |
| `ValidationSession` | one session used by threads | `SessionFSM`, `Selection` |
| `ValidationSessionProofs` | theorems | `ValidationSession`, `SelectionProofs` |
| `Pipeline`, `MCPipeline` | requests, hooks and sessions together | `SessionFSM` (the same guards) |
| `PipelineProofs` | theorems: types, recorders, drafts and gate, then verdicts, managed sessions and evidence | `Pipeline` |
| `Hooks`, `MCHooks` | the hook manager on its own, with its executor | - |
| `HooksProofs` | theorems | `Hooks` |
| `Breaker` | what a circuit breaker promises | - |
| `RPCManager` | one manager used by callers | refines `Breaker` |
| `RPCManagerProofs` | theorems | `RPCManager` |
| `AbiCache`, `MCAbiCache` | ABI caches of two processes over one file, and `fetch_abi` | `Selection` |
| `AbiCacheProofs` | theorems | `AbiCache`, `SelectionProofs` |
| `ProxyInspect`, `MCProxyInspect` | `inspect_target` against a chain that moves on | `Selection` |
| `ProxyInspectProofs` | theorem | `ProxyInspect`, `SelectionProofs` |
| `Configuration` | how a client's configuration is built, and rebuilt | - |
| `PayloadChecks` | L1, L2 and L3 on one payload | `Configuration` |
| `AtomicMulticall` | a batch packed, hooked and checked | `PayloadChecks` |
| `PolicyAudit` | which policy an audit enforces, and what | - |
| `Decision`, `MCDecision` | one client and one request through all of them | `AtomicMulticall`, `PolicyAudit` |
| `DecisionProofs` | theorems: configurations and policies, then the walk, batches, approval | `Decision`, `SelectionProofs` |

The `MC` modules hold values of constants that a `.cfg` cannot write; the other modules get
sets of model values and numbers.

**Names starting with `MUT_`** are altered forms of the definition they precede. Nothing
in the specifications uses them; `PROJECT.json` says which property each one breaks.

### ValidationSession

An entry of the timeline is `[ev, st, tag]`: the kind of event, its status, and what else
the properties tell apart (the config fingerprint of a trace, the plan, the verdict).
Mutators hold `_mutation_lock` from the first check to the last assignment, so each is one
action, with `record_event`'s checks (`ValidateAppend`), the append and the fold of the
outcome in it. Two methods are not:

* `record_decision` scans for prerequisites before `record_event` takes the lock: actions
  `BeginDecision` and `RecordDecision`, with any other thread in between;
* `replay_bundle` takes no lock and walks the timeline and the state several times: one
  action per walk.

A call that raises changes nothing and is no step, except `bind_execution_plan`, which
has stored the plan when `record_event` refuses the event.

Digests are left out: a digest agrees with what it was taken of, so `VerifyReplayBundle`
compares sizes, counts and fingerprints, the parts that can disagree.

### Pipeline

`pc[r]` is the stage of request `r`; `Stages` lists the stages of the three kinds of
request in the order of `run_validate`, `run_simulate` and `run_full`. At a hook point
with function callbacks, `job[r]` is with the executor until `RunHooks(r)`, and
`recorder[c]` decides whose trace gets the step: that is the attribute of the client's
`HookManager`, which executor threads fall back to because they have no context
variable. `Coroutines` are the points where a coroutine callback makes the hook manager
await in the task itself. `zombie[r]` is a hook thread past its 0.5 s that still holds the
draft; `LateWrite` is its late assignment. `F_TRACE`, `F_DECISION` and `F_ENRICH` are the
steps of `_record_failure`. A step is what happens between two awaits, so no other task
runs inside one. `Cancel` runs only the `finally` clause.

L1-L3 is a set `Valid` of drafts it accepts; L4, L5 and the policies pass or raise.

### RPCManager

Endpoints are `1..NumUrls` in string order, which settles ties between equal heights.
`Prepare` picks the eligible endpoints under the lock; `Fetch` is an answer, a failure or
an HTTP 429, with the lock free; then one of

* `RaiseQuota`: a 429 raises before any outcome is recorded,
* `RaiseUnavailable`: outcome recorded, too few answers,
* `RaiseDiverged`: outcome recorded, heights too far apart,
* `Agree`: outcome recorded, the best of the highest nodes bound, the hook started with the
  lock held (`holder`). A manager without callbacks passes the same step at once.

`HookReturns` releases the lock; `TakeWeb3` and `MissWeb3` are the separate call that takes
whatever is bound by then. `Grow`, `CoolDown` and `Reset` are the chain, the clock and the
operator. What a call held in locals (`mode`, `answer`, `seen`, `block`) is gone once it
returns.

`RecordOutcome` is the code's: a success resets the count and closes a breaker unless its
cooldown is running, a failure counts up and trips at the threshold. An open breaker is
never asked again, so a `cooled` breaker closes only by an answer to a request sent before
it tripped, or by the reset. Every `RPCManager` of the pipeline lives for one request
(`_layer_factories.py:20-21`); the class is public, and its lock and breakers are for
callers that share it, which is what `rpc_shared` is about.

**Breaker** is the abstract specification: per endpoint `closed`, `tripped` or `cooled`.
`RPCManager` implements it under `BreakerStatus`, which maps `_open` and the clock's
position relative to `_cooldown_until` to these three.

### Hooks

A call of one of the four entry points takes a snapshot of the registry and works through it,
`Len(results[c])` callbacks so far. `run[c][i]` says where callback `i` is: on the caller's
thread or task, on a thread of its own or on a worker of the executor (`held`, `queue`).
`TimeOut` gives up on one: a task is cancelled, a job that waits for a worker is dropped, and
anything else runs on. `Write` is a callback's assignment into the payload it holds, `draft`
remembers whose change reached the caller's. A callback returns one of `ReturnsOf`, and
`Fatal`, `Level` and `OkResult` say what each contract mode makes of it. An
isolated asynchronous call with functions only is submitted to the executor whole
(`submitted`), and there reads the registry a second time, as the code does.

### AbiCache and ProxyInspect

Each method of `AbiLRUCache` holds the instance's lock and is one action; instances share
only the rows of the file. `_memory` is the set of entries `memory[c]` and their order of
use, `order[c]`. `fetch_abi` is three actions, the explorer being asked with no lock
held. A value is known by the order in which it was stored, so that "older" has a meaning;
`known` is the specification's memory of what a cache served or invalidated last.

`inspect_target` reads the clock, looks its target up, reads four slots, perhaps calls the
beacon, and stores; the chain moves on between any two. `truth` records which resolutions
were right at which time, `changes` how many changes fell into a read.

### Configuration, PayloadChecks, AtomicMulticall, PolicyAudit, Decision

`Configuration` builds a client in the order of the constructor: `merge` (profile, inferred
and preset values under the given ones), `patch`, `validate`, `guard`, `register`; a sequence of
constructor calls rebuilds it, each from what the one before left. `history` keeps the bases and
patches so that properties can speak of them.

`PayloadChecks` takes one payload through L1, L2 and L3. Calldata is a tree of calls; the two
mutually recursive walks of the parser are one stack machine, and `DownTo`, a recursive function,
lists the calls of the tree that the properties speak of. What libraries decode is given in the
payload, with a flag where decoding fails.

`AtomicMulticall` packs a batch with the encoder's rules, shows it to callbacks which may write
to it, in time or late, and hands it to `PayloadChecks`. `PolicyAudit` resolves every kind of
`security_policy` argument and enforces and reports the result. `Decision` is the chain of these
for one client and one request, with the simulation between, and the envelope at the end.

## 3. Runs

TLC finishes each on two workers in less than four minutes. A run asks one question;
"Bounds" names what makes it finite.

| Run | Question | Bounds | Distinct states |
|---|---|---|---|
| `session_direct` | Do the record, the lifecycle and the outcome agree, whatever two threads call? (`TypeOK`, `FinalizeCloses`, `OutcomeIsWorst`) | 4 entries, 2 threads | 2,024,352 |
| `session_strict` | Is the agent order kept with `record_decision`'s early check, are the decision and the plan the session keeps the last ones, and is finalize recorded once, also as an event? (`WorkflowOrder`, `StateIsLast`, `FinalizeOnce`) | 6 entries, 2 threads, 2 plans | 2,794,585 |
| `session_bundle` | Do bundles of an agent session with a single owner verify, and agree with their own timeline? (`BundleVerifies`) | 6 entries | 1,791,613 |
| `pipeline_coroutines` | Is the evidence of concurrent requests with coroutine hooks their own, is only what was validated simulated, does a managed session end closed, does every request end? (`TypeOK`, `EvidenceIsOwn`, `SimulatedIsValid`, `GateIsEarned`, `ManagedTimeline`, `Ends`) | 3 requests of three kinds, 2 at a time | 505,214 |
| `pipeline_concurrent` | Is what is told what is recorded, once and with evidence, with function hooks that outlive their timeout, cancellation and an owner that closes the session? (`VerdictIsRecorded`, `RecorderReleased`) | 2 requests on a prepared agent session | 3,965,360 |
| `rpc_shared` | Breakers, binding, the bound node's block and termination with two callers, both modes, hook, cooldowns and operator (`TypeOK`, `BreakerMatchesFailures`, `OneBinding`, `BoundHasBlock`, `BreakerSpec`, `CallsEnd`) | 2 endpoints, heights to 2, 3 reconciles, threshold 2, spread 1 | 465,539 |
| `abi_cache` | Does any cache go back behind what it served or forgot, do the copies of a value expire together, do expired rows go? (`TypeOK`, `NeverBack`, `OneExpiry`, `ExpiredRowsGo`) | 2 caches over one file, 2 keys, 2 threads, one entry per memory, TTL 2, 2 stores | 567,546 |
| `proxy_inspect` | Was an inspection right at some moment of its validity? (`Fresh`) | 2 inspectors, 2 proxies and a beacon, TTL 1, 2 upgrades, one cached row | 2,163,955 |
| `decision` | Is what is approved allowed by every layer, whatever is nested, patched, rebuilt or rolled back? (`EveryAddressVetted`, `EverySwapBounded`, `ApprovedByAll`, `BatchIsWhole`, `BundlePolicyIsSound`, `ReportTellsAll`, `TagTellsSource`, `PatchesStayInBounds`, `Decides`) | the cases of `MCDecision`, nesting to 3 with a limit of 2, a uint of one bit, batches of 2, bundles of 2 versions, one rebuild, one write of a callback | 943,600 |
| `hooks` | Do only patches arrive, are results and trace honest, does a dropped job never run, and do calls with a timeout end? (`TypeOK`, `OnlyPatchesArrive`, `ResultsAreHonest`, `TimedOutNeverStarts`, `TimedCallsEnd`) | 2 calls, 2 callbacks per point, 1 worker, 1 change of the registry | 294,964 |

Why these are enough:

* *Session.* Four entries hold a finalize, what comes before and after it, and a plan event
  that replaces another; six hold the chain plan, draft, tool_call, decision with traces or
  a second decision. Two threads suffice for a check that another thread overtakes: the
  properties compare one thread's check with one intervening change, and two plans for a bound
  plan that another replaces. The theorems remove the bounds. `TailLimit` is 25, as in the code;
  no run has timelines that long (see "Other divergences").
* *Pipeline.* Two requests of one client is the smallest case where the client's recorder
  is contended; three of different kinds on a shared and a managed session cover the gate.
  `Drafts` has one accepted and one rejected draft, which is all that L1-L3 tell apart.
* *RPC manager.* The threshold is 2 (the code has 3): the count then passes through an
  intermediate value and reaches the threshold within three reconciles. Two endpoints let
  one fail and one succeed; heights to 2 with a spread of 1 make agreeing, unequal and
  diverging answers. The theorems have none of these bounds.
* *AbiCache.* Two caches, two keys and a memory of one entry make a load, a trim and a reload
  from the row another process wrote; a TTL of 2 lets a row expire under a copy, and two stores
  make an older and a newer value. Only one cache's DELETE may fail, so one janitor can die
  while the other lives.
* *ProxyInspect.* Two changes are the least that tear an inspection, and `Fresh` says so; a TTL
  of one tick has a row in and out of its time. Inspectors are symmetric.
* *Decision.* The two walks keep no state but the depth, the set of addresses and the
  kind of the frame, so batches of two entries, nested one deeper than the limit, meet every
  case of either walk inside the other and of an entry after an inner batch. The properties
  compute from the whole tree what the walks find one by one.
* *Hooks.* One worker is the executor at its limit; two calls are one that holds it and
  one that waits; a registry change between the two reads of the fast path needs one change.
* *Deadlock* is checked where the system runs until nothing is left to do: `Pipeline` has
  an explicit `Quiet` step for that. The other runs stop when a bound (`MaxTimeline`,
  `MaxCalls`, `MaxStores`, `MaxTime`) is used up, or when the calls or the request they are
  about have ended, and set `CHECK_DEADLOCK FALSE`; where it matters that nothing waits for
  ever a liveness property says so.

### Fairness

* `Pipeline`: weak fairness of every `Step(r)` and `RunHooks(r)`. The event loop runs each
  ready task and the executor each job; hooks are cut off after 0.5 s and RPC calls at the
  provider's timeout, so no await lasts for ever. Nothing is assumed of cancellation, the
  owner of a session, late hook threads or the start of a request. A default executor
  whose workers are all taken by blocking callbacks would break the assumption: `Hooks` models
  that executor, and `TimedCallsEnd` says exactly when the assumption fails.
* `RPCManager`: weak fairness of `Proceed(c)`, the steps of caller `c`. The lock is not assumed
  fair; with finitely many calls (`MaxCalls`) nobody is overtaken for ever. The hook's timeout
  is what makes `HookReturns` fair, since the hook holds the lock.
* `Hooks`: timers strike, workers take jobs, and a callback ends unless it is one of `Hanging`.
  Nothing is assumed of registrations, of writes or of the start of a call.
* `AbiCache`: the janitor of each cache sweeps and, once its cache is closed, retires. Nothing is
  assumed of the threads that fetch.
* `Decision`: one coroutine with no rival: some step is taken while one can be.

### Runs that show a disagreement

Each checks one statement a doc, comment or docstring makes and finds it violated.

| Run | Statement | What the code does |
|---|---|---|
| `pipeline_evidence_mixed` | a per-invocation recorder guarantees hook-to-trace recording (`hook_manager.py:196-197`) | function hooks of concurrent requests of one client record into the recorder bound last |
| `broadcast_fields` | `extract_broadcast_fields` on an approved result gives what to sign (README.md:95-114 of the repository) | the payload of an approved envelope has no `to` and no `data`, so it raises on every one of them |

`EvidenceIsOwn` holds with coroutine hooks, which `pipeline_coroutines` checks.

### Other divergences met while modelling

No run shows these; they follow from a look at the lines, or from a counterexample TLC gave
to a stronger property that was then stated as it holds.

*Session and pipeline*

* "public calls from several OS threads serialize safely" (`session.py:108-111`):
  `replay_bundle` walks the timeline without the lock, so with a second thread a bundle's sizes
  and counts can disagree with its timeline. `BundleVerifies` is checked and proved for a single owner.
* A bare `record_event("finalize")` closes the timeline and leaves the session open: a later
  `bind_execution_plan` stores its plan, and then its event is refused (`session.py:540-548`), so
  the session keeps a plan that is not on record. `StateIsLast` leaves the plan out in this case.
* "finalize is at most once" (`session_fsm.py:60`): the first is looked for in the last 25 entries
  only. `FinalizeOnceInWindow` has the hypothesis this needs.
* "blocks L4/L5 if validation regresses post-hook" (`orchestrator.py:550-551`): in legacy mode a
  hook that timed out changes the draft after the second pass. `SimulatedIsValid` is checked
  outside legacy mode.
* On an agent session without its plan and draft, `record_decision("blocked")` raises inside
  `_record_failure` (`orchestrator.py:252`): no decision is recorded and the exception is
  not enriched, where `docs/audit_path_map.md:139` says both happen. `FailDecision` has this
  branch (`told[r] = "raw"`); `ManagedTimeline` excludes it for sessions the pipeline owns.
* Two clients that share a session and differ in configuration: the `replay_bundle` of a `validate_only`
  that is already approved on record finds traces of the other's fingerprint and raises, and
  `_record_failure` then records a second decision, blocked, for the same request.
  `VerdictIsRecorded` is checked for one client per session, and proved under that hypothesis.
* The bridge of the sync entry points (`_facade.py:483`) gives up after 30 s, then, on leaving
  its `with` block, waits until the request has ended, and raises `TimeoutError` although the
  request may be approved.

*RPC manager*

* In strict mode the quorum is of the endpoints whose breaker is closed
  (`l4_rpc_manager.py:221`), on a manager that outlives three failures of one of them;
  `config_governance.py:34` speaks of the full quorum.
* `async_reconcile` fails for want of answers without setting `_last_error`, where
  `sync_reconcile` sets it (`l4_rpc_manager.py:403-408` and 531); its docstring says that
  the two have the same semantics. `RaiseUnavailable` has both branches.
* Of two callers that share a manager one can be handed the client the other bound, or none:
  `BoundHasBlock` speaks of the time the lock is held only.

*Hooks*

* `constants.py:49` says the timeout keeps agents from being dragged down by slow plugins. A
  function that hangs at a point it shares with a coroutine holds an executor worker for ever, and
  a call with functions only waits for a worker without a timeout: the exception in
  `TimedCallsEnd`.
* The read-only payload of the contract modes is a shallow copy made when the call starts: a
  callback does not see the patches of those before it.
* In warn mode a patch is applied although the payload lacks required fields; a fatal
  `HookDecision` in warn mode gives a result that is ok with level fatal; a coroutine registered
  between the two reads of the registry gets the result for a coroutine on a thread.

*Layers*

* `EIP1822_PROXIABLE_SLOT` (`l3_proxy_piercer.py:42`) has 63 hex digits, so a UUPS proxy is looked
  up at another slot.
* `swapExactTokensForETH` and `swapExactETHForTokens` are decoded inside a batch only, not as the
  outer call; V3 and Moe swaps inside a batch need not go to the router, and are refused in
  `aggregate3Value`.
* The schema validates a payload's `assertions`, and nothing in the pipeline evaluates them; the
  policy of a pipeline never sees a slippage, and `int()` cuts the one of a direct audit.
* A policy override of `None` widens targets to `"ANY"` and clears the forbidden methods (the
  report tells both); one malformed version refuses a whole bundle.
* `build_for_chain_profile` always passes `rpc_urls`, an empty list for none, which erases those of
  its `base_config`; a rebuild keeps the router of the old profile, tagged "profile". A
  configuration that is not strict and whose allowlist includes `runtime_patch_allowlist` can
  be widened patch by patch.
* `atomic_multicall` asks no profile for the Multicall3 address, where the parser does; the presets
  of `for_mantle` allow no aggregate function name, so L1 refuses every `atomic_multicall` with
  one; a pack callback that overran its timeout can change what is returned after it was checked
  (the exception in `BatchIsWhole`).

## 4. Proofs

| Theorem | Says |
|---|---|
| `ValidationSessionProofs!TypeCorrect` | `TypeOK` |
| `WorkflowOrderHolds` | the agent order, for any number of threads |
| `FinalizeIsFinal` | nothing but annotations follows a finalize event, and the lifecycle agrees (`FinalizeCloses`) |
| `FinalizeOnceInWindow` | at most one finalize in a timeline no longer than the window |
| `OutcomeIsWorstHolds` | the outcome is the worst status of the timeline |
| `StateIsLastHolds` | the decision kept is the last one recorded, and the plan the last one bound (`StateIsLast`) |
| `BundleVerifiesHolds` | a single owner's bundle is accepted by `verify_replay_bundle`, tells its one configuration and hides no status |
| `RPCManagerProofs!TypeCorrect` | `TypeOK` |
| `BreakersMatch` | breakers agree with the failure counts |
| `BreakersImplement` | `RPCManager` implements `Breaker` |
| `OneBindingHolds` | at most one client is bound, the one the evidence names |
| `BoundHasBlockHolds` | while a caller holds the lock in its hook, the bound node has the block it reconciled |
| `AbiCacheProofs!TypeCorrect` | `TypeOK`; a memory has one entry for each key of its eviction order, within the limit |
| `NeverBackHolds` | no cache finds anything older than what it served or invalidated |
| `OneExpiryHolds` | all copies of a stored ABI expire together |
| `ProxyInspectProofs!FreshHolds` | an inspection was right while it read or in the TTL before the call, unless the chain changed twice in one read |
| `HooksProofs!TypeCorrect` | `TypeOK`; no more jobs run than the executor has workers |
| `TimedOutNeverStartsHolds` | a callback given up before a worker took it never runs |
| `ResultsAreHonestHolds` | good results are of callbacks that ended by themselves, one per callback, and the trace says no better |
| `OnlyPatchesArriveHolds` | in the contract modes only an allowed patch, returned in time, changes the caller's payload |
| `PipelineProofs!TypeCorrect` | `TypeOK`; a request is only ever at a stage of its kind |
| `RecorderReleasedHolds` | when nothing runs, no recorder is bound |
| `SimulatedIsValidHolds` | only what L1-L3 accept is executed |
| `GateIsEarnedHolds` | behind the gate, a simulation follows an L1-L3 pass in its session |
| `VerdictIsRecordedHolds` | one decision per request, after a trace of its status, and the caller is told the same |
| `ManagedTimelineHolds` | a session of the pipeline ends with trace, decision, finalize |
| `EvidenceIsOwnHolds` | the evidence of an approval is complete and its own |
| `DecisionProofs!TagTellsSourceHolds` | the tag of an address tells where it came from, after any rebuilds |
| `PatchesStayInBoundsHolds` | no patches and rebuilds get around an allowlist or a strict configuration |
| `BundlePolicyIsSoundHolds` | the policy out of a bundle is of one of its active, unaltered versions, in the right environment |
| `ReportTellsAllHolds` | the report of a resolution names every override, fallback and rollback |
| `EveryAddressVettedHolds` | no address of an accepted payload escapes the lists, however it is nested |
| `EverySwapBoundedHolds` | no decoded swap without a minimum, no batch elsewhere or too deep |
| `BatchIsWholeHolds` | an accepted batch is the whole batch, and is returned as it was checked |
| `ApprovedByAllHolds` | configuration and policy hold together of the payload that is approved |

Assumptions: `SessionAssumption`, `TailLimitAssumption`, `RPCAssumption`, `CacheAssumption`,
`InspectAssumption`, `HooksAssumption`, `PipelineAssumption`, `ConfigAssumption`, `ChecksAssumption`, `AuditAssumption`
and `DecisionAssumption`, which give the constants their types. The last four say of the inputs of
`Decision` what Python's types, pydantic and ABI decoding say: a configuration has the fields of
`LirixConfig`, a policy has lists and no `None` for them, batches are finite lists of entries whose
calls are of the same kind (`Trees`), and a client comes with a payload or with a batch. Seven theorems
assume more, and must:

* `FinalizeIsFinal`: sessions are closed with `finalize()` and never with
  `record_event("finalize")`; `FinalizeOnceInWindow`: the timeline fits in the window;
  `StateIsLastHolds`: one of the two. Without it a plan can be bound after a finalize event that
  the tail no longer shows. `BundleVerifiesHolds`: the same, and that one thread uses the session, for
  `replay_bundle` reads without the lock.
* `SimulatedIsValidHolds` assumes `DraftIsWrapped`: the contract mode wraps what callbacks get, or
  there are hooks of L5 only, which get the simulation. In legacy mode a late hook changes the draft.
* `VerdictIsRecordedHolds` assumes `OneClientPerSession`.
* `EvidenceIsOwnHolds` assumes `FindsRecorder`: every hook point has a coroutine, or no client has
  two requests. `pipeline_evidence_mixed` is the counterexample without it.

The runs that check these properties meet the hypotheses.

**The session.** `StepExtends` reduces every step to two cases: the log is unchanged, or
it is extended by one entry that `validate_append` admitted (`Extends`). Each theorem is
then one induction over that case split on top of `TypeOK`, whatever the threads do;
`RecordDecision` needs no case of its own because the guard is evaluated again under the
lock. `FinalizeCloses` has two halves that are inductive only together: the code refuses later
events because of the *lifecycle*, not of the event. `FinalizeOnce` is proved with the bound of
the timeline, from which the tail is the whole timeline. `StateIsLast` needs the order of the
record: `StepFollows` says what each step does to state and log at once, `PlanRefused` that the one
step that stores a plan and appends nothing was refused because of a finalize event.
`BundleVerifies` asks two things of the timeline. `Replayable`: every event has before it what its kind
presupposes, and nothing but traces and annotations follows a finalize event. `EventsReplay`: this
survives passing over the traces, because `Placed` gives each event that is left its place in the
timeline. `Bundled` is what a bundle holds at each of its stages.

**The manager.** `BreakerSteps` says which steps touch the breakers: a reset, the end of a
cooldown, and the recorded outcome of a reconcile. `BreakerMatchesFailures` is inductive on
`TypeOK`: a failure that reaches the threshold trips in the step that counts it, and
a success resets the count exactly when it closes. The refinement needs it, because a
breaker that is not open must not be cooling for `BreakerStatus` to map steps to the
abstract moves. `OneBinding` needs that a busy call has a mode (`BusyHasMode`).

`BoundHasBlock` is not inductive: that the bound node has the block rests on what the caller saw
while it held no lock. The strengthening adds that what any call has seen of an endpoint is no
higher than the endpoint is now (`SeenIsPast`, since chains only grow), and that whoever is in its
hook holds the lock (`HookHoldsLock`), so that nobody binds another client meanwhile.
`BestHasHighest` is the arithmetic: the node chosen has the highest block among the answers, and
the block returned is no higher.

**The cache.** `NeverBack` is not inductive: a hit in memory tells a cache of a value, and the
row could be older. The strengthening `FileIsNewest` says that it never is, since whoever
stores writes the row too and nobody else writes one; `Issued` adds that a store is newer
than all there is and than what any cache invalidated. Every action that only removes
copies (the sweeps, a miss, a purge, the clock, closing) is one lemma, `ShrinkKeeps`.
`TypeOK` says that a memory and its order of use hold the same keys, each once: `Tracks` gives for
each place of the order the one entry with that key. Deletions keep it (`TracksLeft`), and so does the
new entry at the recent end after a trim (`TracksRemembered`).

**The inspection.** `Fresh` speaks of the result of a call, so the invariant has to follow the
read. `Seen`: as long as the chain changed once at most inside a read, some chain that was since the
read began explains it, which means (`Explains`) that it holds what was read so far and, where nothing
was read yet, what the chain holds now. A change touches one slot or one beacon, so it is of something
that was read or of something that was not (`SparesTheRest`, `SparesTheRead`), and the chain of before
or the chain of after explains the read. A second change ends the claim, as in `Fresh`. `Sound`
carries it into the cache: a row was right some time after the inspection that stored it began, which
is one TTL before it expires.

**The hook manager.** `CallsAreLocal`: a step of a call leaves every other call as it is, except for
the queue and the workers. What the calls share is in `QueueIsWaitedFor`: the executor's queue
holds a job once, and only while its call waits for it. A job that was timed out is therefore in
no queue, and what is in none and on no worker cannot be taken; `NothingYet`, that nothing is
known of callbacks a call has not come to, completes the induction. Its name is `CourseOK`, and the
other theorems are inductive on it: results by what each way to end a callback appends, the
payload by following where its last change came from.

**The pipeline.** Its next-state relation has nineteen disjuncts, so the proofs rest on lemmas
that say once what a step can touch. `ActsAreLocal`: a step of a request leaves the stage,
draft, trace and result of every other as they are, except the trace its hooks write to.
`ActsOnTimelines`: what a step appends to a timeline is of its own request or, from the owner, of
none. `StepTyped` carries `TypeOK` with `AtOwnStage`; without the latter `NextStage` has no value.

* `RecorderReleased`: `RecorderOwned` says that what is bound belongs to a request of that client
  which has not ended; its converse is not needed.
* `SimulatedIsValid`: `DraftChecked` follows the draft from the second pass on. `GateIsEarned`:
  `GateRests` says that an open gate has a pass in some trace behind it, and traces only grow.
* `JobIsCurrent`: the hook job a request waits for is of the stage it is at. The recorder a late job
  writes to, and the stage it would pass, rest on this.
* `VerdictIsRecorded` speaks of ended calls. `Reached(r)` says for every stage, the three of the failure
  path included, which traces and decisions of `r` are on record then, and `TracesOwned` that
  all traces of a session have the fingerprint of its one client, so `replay_bundle` does not raise.
* `ManagedTimeline`: `ManagedCourse` gives the whole timeline at every stage. Nobody else reaches the
  session, so no check of `validate_append` refuses anything.
* `EvidenceIsOwn`: `EvidenceSoFar` gives the whole trace at every stage, `RecorderBound` that if
  no client has two requests, a running request's recorder is the one its client has bound.

**The decision.** One coroutine runs, but for late callbacks; what is hard is the data, sequences of rebuilds and
trees of any depth.

* *Configuration.* `ConfigOK` holds at every step of the constructor. The two properties need of
  each other's past that `history` records the base and the patch of the build under way as soon as
  something was merged, that a strict base of an earlier build has all its critical fields in the
  present *base* as well (`StrictStays`), and that a strict base protects those fields
  (`BaseGoverned`), which `Governed` established when the build before was validated.
  `MergeIs` is what two overlays do to two addresses.
* *Policy.* `SelectIs` and `RolledBackIs`: a version that is chosen is one of the bundle, in the
  environment asked for or the first of all, and a rollback stays there. `OverridesTold`: what differs
  after the overrides and their normalization is what `Overridden` reports.
* *The walk.* `WalkedTo`: there is a set of calls with the outer one in it, each of them met as
  the two properties ask, and what each holds is in the set or pending in a frame of the stack.
  Taking an entry adds a call to the set, entering a batch puts what it holds on the stack
  (`AdvancedIs`, `EnterIs`), returning from one loses nothing. With an empty stack the set is closed,
  so all of `DownTo` is in it (`AllAreMet`).
* *Induction.* The induction theorems of the library cannot be cited, for they take an operator.
  `LeastExists` of `SelectionProofs`, that every non-empty set of naturals has a least element, follows from
  finite subsets being well founded, which takes a set; the least counterexample then
  does what induction would: that `DownTo` and `Kept` are what their equations say (`DownToIs`, `KeptIs`),
  and `AllAreMet`.
* *Batches.* `PackingOK` follows the dictionary from the encoder through the callbacks to the
  payload and, for one that overruns, beyond. `RequestOK`: the subject audited is of the payload
  that was simulated; `ApprovedByAll` is that and what L1 to L3 and the auditor left behind.

TLC checked each of these invariants on the instances of the runs before it was proved, `WalkedTo`,
whose set it has to compute, on 850,000 of the states of `decision`.

**Checked by TLC only.** Liveness (`Ends`, `CallsEnd`, `TimedCallsEnd`, `ExpiredRowsGo`, `Decides`),
which is, with ENABLED, out of the prover's reach. Every safety property of a passing run is a
theorem.

## 5. Not modelled, and why

* The 30 s bridge of the sync entry points (`_facade.py:483`): the request goes on in its
  thread after the caller gave up; nothing interleaves with it that `Pipeline` does not have.
* `AsyncQuorumProvider` (`l4_rpc_manager.py:633-948`): a secondary path by its own warning, and
  used by nothing in the pipeline. Two hazards of it are listed: `quorum_eth_call` gathers without
  `return_exceptions`, and `best_url` is written without a lock.
* `forensic_bundle`, the forensic verifier and digests: a digest agrees with what it was taken of,
  and only its mismatch would be of interest.
* ABI encoding and decoding, JSON schemas: libraries; a flag in the payload says whether they
  succeed. Taxonomy, signatures, error codes, registries: tables.
* `shield/simulator.py` and the synchronous twins of asynchronous methods: the same decisions.
* `StateDeltaValidator`: no code of the pipeline calls it.
* The audit logger, CLI, integrations: output, and callers without state of their own.
* Repository tools (`src/tools/`, 2,600 lines): checks of the repository's text in CI.

## 6. Plan

The modules of the first plan are written, except for `AsyncQuorum` and `ForensicVerifier` (see
section 5). What is left is proof, in this order:

1. An abstract request (open, then told exactly once what is recorded) that `Pipeline` implements.
2. `AsyncQuorum`, if the pipeline comes to use it.
