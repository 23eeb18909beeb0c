------------------------------- MODULE Decision -------------------------------
(***************************************************************************)
(* A client and one request of Lirix.validate_and_simulate as a chain of   *)
(* decisions: the constructor, the checks L1 to L3, the eth_call of        *)
(* SandboxSimulator.simulate_async, and the audit of the policy.  Clients  *)
(* may also be built without a request, or be asked for an atomic_multicall*)
(* in place of it, and audits made without a client.                       *)
(***************************************************************************)
EXTENDS AtomicMulticall, PolicyAudit

CONSTANTS
    Cases,             \* <<constructor calls, payload or Absent, batch or Absent>>
    PipelineArguments  \* the security_policy arguments of the requests

\* a client may come with a payload, or with a batch to pack
ASSUME DecisionAssumption ==
    /\ \A c \in Cases : Absent \in {c[2], c[3]}
    /\ \A calls \in {c[1] : c \in Cases} : Callable(calls)
    /\ \A p \in {c[2] : c \in Cases} \ {Absent} : Whole(p.call)
    /\ \A b \in {c[3] : c \in Cases} \ {Absent} : Listed(b.entries)
    /\ \A r \in PackRewrites : "call" \in DOMAIN r => Whole(r.call)
    /\ PipelineArguments \subseteq Arguments

VARIABLE simulation  \* "none", "ok", "reverted", "paused", "unavailable", or "alone"

vars == <<config, checks, packing, audit, simulation>>

\* a client with or without a request, or ShadowAuditor on its own: any slippage
Init ==
    /\ InitAudit
    /\ \/ /\ phase = "none"
          /\ simulation = "none"
          /\ \E c \in Cases : InitConfig(c[1]) /\ InitChecks(c[2]) /\ InitPacking(c[3])
       \/ /\ phase = "resolve"
          /\ simulation = "alone"
          /\ InitConfig(<<[config |-> Absent, urls |-> Absent, patch |-> <<>>, unknown |-> FALSE]>>)
          /\ InitChecks(Absent)
          /\ InitPacking(Absent)

\* _translate_revert_signature: a revert that names a pause or a blacklist is told apart
Outcome(reverts, paused) ==
    IF ~reverts THEN "ok" ELSE IF paused THEN "paused" ELSE "reverted"

\* simulate_async: eth_call on the block that was agreed on
Simulate ==
    /\ stage = "accepted"
    /\ batch = Absent
    /\ simulation = "none"
    /\ \/ \E reverts, paused \in BOOLEAN : simulation' = Outcome(reverts, paused)
       \/ simulation' = "unavailable"
    /\ UNCHANGED <<config, checks, packing, audit>>

\* _extract_simulation_metrics reads a key of the payload that the schema forbids, so
\* the policy of a pipeline never sees a slippage
AuditRequest ==
    /\ simulation = "ok"
    /\ \E a \in PipelineArguments :
          BeginAudit(a, [to |-> payload.to, function_name |-> payload.function_name,
                         sel |-> payload.call.sel, slippage |-> NoValue])
    /\ UNCHANGED <<config, checks, packing, simulation>>

Next ==
    \/ /\ simulation = "none" /\ stage = "L1"
       /\ NextConfig
       /\ UNCHANGED <<checks, packing, audit, simulation>>
    \/ /\ step = "ready" /\ payload # Absent
       /\ NextChecks
       /\ UNCHANGED <<config, packing, audit, simulation>>
    \/ /\ step = "ready"
       /\ NextPacking
       /\ UNCHANGED <<config, audit, simulation>>
    \/ Simulate
    \/ AuditRequest
    \/ NextAudit /\ UNCHANGED <<config, checks, packing, simulation>>

Spec == Init /\ [][Next]_vars

\* one coroutine, with nothing to wait for but the node
FairSpec == Spec /\ WF_vars(Next)

-----------------------------------------------------------------------------
(***************************************************************************)
(* The envelope of an approved request, and what a signer is told to take  *)
(* from it.  An envelope is its verdict and the keys of its payload; no    *)
(* callback of the L5 hook writes into the result of the simulation.       *)
(***************************************************************************)

\* the dictionary simulate_async returns
SimulationResult ==
    {"layer", "simulation_ok", "block_number", "return_data", "metrics", "backend_profile"}

\* _simulation_payload(out, validated=True, policy_decision=auditor)
SimulationPayload ==
    SimulationResult \cup {"simulation_ok", "simulation_outcome", "validated", "policy_decision"}

\* build_base_result copies the payload; a request that is blocked raises instead
Envelope == [status |-> "approved", decision |-> "approved", payload |-> SimulationPayload]

\* Does extract_broadcast_fields return to, data and value, or raise?  The form of
\* the two strings matters only when they are there.
Extractable(envelope) ==
    /\ envelope.status = "approved"
    /\ envelope.decision = "approved"
    /\ "to" \in envelope.payload
    /\ "data" \in envelope.payload /\ payload.data_form = "hex"

-----------------------------------------------------------------------------
\* Every client is built or refused and every request decided: the two walks end on
\* every tree of calls, whatever is nested in what, and every policy argument resolves
\* or is refused.
Decides == <>(\/ step = "refused"
              \/ step = "ready" /\ payload = Absent /\ batch = Absent
              \/ stage = "accepted" /\ batch # Absent
              \/ stage = "refused" \/ phase \in {"approved", "blocked"}
              \/ simulation \notin {"none", "ok", "alone"})

\* A request that is approved went through every layer on the same payload, so that the
\* lists of the configuration and the policy hold of it together.
ApprovedByAll ==
    phase = "approved" /\ simulation # "alone" =>
        /\ stage = "accepted"
        /\ payload.to \in cfg.allowed_to_addresses \ cfg.blacklisted_addresses
        /\ policy.targets = {"ANY"} \/ payload.to \in policy.targets
        /\ {payload.call.sel, payload.function_name} \cap policy.forbidden = {}
        /\ DOMAIN IntentSelectors \cap {payload.intent} # {} =>
              payload.call.sel \in IntentSelectors[payload.intent] \cup {"none"}

\* "Use Lirix.extract_broadcast_fields(result) only after both decision and status
\* are approved. The signer should receive the extracted broadcast fields"
\* (README.md): an envelope with both approved has them.
ApprovedIsBroadcastable ==
    phase = "approved" /\ simulation # "alone" => Extractable(Envelope)

=============================================================================
