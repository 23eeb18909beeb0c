------------------------------ MODULE PolicyAudit ------------------------------
(***************************************************************************)
(* ShadowAuditor of lirix/layers/l5_shadow_auditor.py: which policy an     *)
(* audit enforces, out of a default, a policy object, or a mapping with a  *)
(* bundle of versions and overrides, and what it enforces.                 *)
(*                                                                         *)
(* The digest of a policy is modelled by the policy it was taken of.       *)
(***************************************************************************)
EXTENDS Integers, FiniteSets, SequencesExt

CONSTANTS
    DefaultPolicy,  \* _DEFAULT_POLICY
    Arguments,      \* the security_policy arguments
    Subjects,       \* what is audited: target, selector, function name, slippage
    NoValue,        \* None
    MaxBps,         \* the largest max_slippage_bps, 10000
    BadEntry        \* no address, no method, a selector that is not four bytes

Keys == {"max", "targets", "forbidden"}

\* what ShadowPolicySchema makes of a policy: no list is None
IsPolicy(p) ==
    /\ p = [k \in Keys |-> p[k]]
    /\ NoValue \notin {p.targets, p.forbidden}

\* an argument: nothing, a policy object, or a mapping with the three keys as overrides
IsArgument(a) ==
    /\ a.kind \in {"default", "direct", "mapping"}
    /\ a.kind = "mapping" =>
          /\ DOMAIN a.overrides \subseteq Keys
          /\ a.bundle # NoValue =>
                /\ a.bundle.versions \in Seq(ToSet(a.bundle.versions))
                /\ \A v \in ToSet(a.bundle.versions) : v # NoValue /\ IsPolicy(v.policy)

ASSUME AuditAssumption ==
    /\ IsPolicy(DefaultPolicy)
    /\ \A a \in Arguments : IsArgument(a)

VARIABLES
    job,       \* the audit under way
    phase,     \* "none", "resolve", "enforce", "report", "approved" or "blocked"
    selected,  \* the version taken out of the bundle
    policy,    \* the policy enforced
    report     \* the report of the resolution

audit == <<job, phase, selected, policy, report>>

NoReport == [source |-> "none", rollback |-> FALSE, conflicts |-> {}]

\* before the call of audit, and right after one
InitAudit ==
    /\ \/ phase = "none" /\ job = NoValue
       \/ phase = "resolve" /\ job \in [arg : Arguments, subject : Subjects]
    /\ selected = NoValue
    /\ policy = NoValue
    /\ report = NoReport

BeginAudit(a, subject) ==
    /\ phase = "none"
    /\ job' = [arg |-> a, subject |-> subject]
    /\ phase' = "resolve"
    /\ UNCHANGED <<selected, policy, report>>

Block ==
    /\ phase' = "blocked"
    /\ UNCHANGED <<job, selected, policy, report>>

-----------------------------------------------------------------------------
(***************************************************************************)
(* _resolve_policy_with_report                                             *)
(***************************************************************************)

\* the version a bundle without versions stands for
Placeholder == [version |-> "default", environment |-> "default", status |-> "active",
                rollback_to |-> NoValue, digest |-> NoValue, policy |-> DefaultPolicy]

\* _select_bundle_version: the preferred, the active, any of the environment, any
Select(b, environment, preferred) ==
    LET There == {n \in DOMAIN b.versions : b.versions[n].environment = environment}
        Named(name) == {n \in There : name # NoValue /\ b.versions[n].version = name}
        Or(S, T) == IF S # {} THEN S ELSE T
        choice == Or(Or(Named(preferred), Named(b.active_version)), Or(There, {1}))
    IN  IF b.versions = <<>> THEN Placeholder ELSE b.versions[Min(choice)]

\* the rollbacks of a version that is not active, in its own environment
RolledBack(b, v) ==
    IF v.status = "active" \/ v.rollback_to = NoValue THEN {}
    ELSE {n \in DOMAIN b.versions : /\ b.versions[n].version = v.rollback_to
                                    /\ b.versions[n].environment = v.environment}

MUT_Sound(v) == v.digest = v.policy

\* the checks of digest_verified, the only lifecycle mode left: no second rollback
Sound(v) == v.status = "active" /\ v.digest # NoValue /\ v.digest = v.policy

Conflict(key, expected, observed, reason) ==
    [key |-> key, expected |-> expected, observed |-> observed, reason |-> reason]

When(condition, conflict) == IF condition THEN {conflict} ELSE {}

\* the before-validators of ShadowPolicySchema read None as "ANY" and as no methods
Normalized(k, value) ==
    IF value # NoValue THEN value
    ELSE IF k = "targets" THEN {"ANY"} ELSE IF k = "forbidden" THEN {} ELSE NoValue

\* ShadowPolicySchema.model_validate
PolicyOk(p) ==
    /\ p.max # NoValue => p.max \in 0..MaxBps
    /\ BadEntry \notin Normalized("targets", p.targets) \cup Normalized("forbidden", p.forbidden)

\* the keys of the mapping replace those of the base
WithOverrides(base, overrides) ==
    [k \in DOMAIN base |-> IF k \in DOMAIN overrides THEN overrides[k] ELSE base[k]]

Normal(p) == [k \in DOMAIN p |-> Normalized(k, p[k])]

MUT_Overridden(base, overrides) ==
    {Conflict(k, base[k], overrides[k], "override_applied") :
        k \in {k \in DOMAIN overrides : overrides[k] \notin {NoValue, base[k]}}}

Overridden(base, overrides) ==
    {Conflict(k, base[k], overrides[k], "override_applied") :
        k \in {k \in DOMAIN overrides : base[k] # overrides[k]}}

\* no argument, or a policy object
ResolveDirect ==
    /\ phase = "resolve"
    /\ job.arg.kind \in {"default", "direct"}
    /\ policy' = IF job.arg.kind = "default" THEN DefaultPolicy ELSE job.arg.direct
    /\ report' = [NoReport EXCEPT !.source = job.arg.kind]
    /\ phase' = "enforce"
    /\ UNCHANGED <<job, selected>>

\* what is enforced if the schema accepts it
Merged(base) == WithOverrides(base, job.arg.overrides)

\* a mapping that names the lifecycle mode, or an unknown key, is refused, and so is a
\* bundle with one malformed version, chosen or not
Restricted ==
    \/ job.arg.restricted
    \/ /\ job.arg.bundle # NoValue
       /\ \E n \in DOMAIN job.arg.bundle.versions : ~PolicyOk(job.arg.bundle.versions[n].policy)

ResolveRefused ==
    /\ phase = "resolve"
    /\ job.arg.kind = "mapping"
    /\ Restricted
    /\ Block

\* a mapping without a bundle
ResolveMapping ==
    /\ phase = "resolve"
    /\ job.arg.kind = "mapping"
    /\ ~Restricted
    /\ job.arg.bundle = NoValue
    /\ \/ ~PolicyOk(Merged(DefaultPolicy)) /\ Block
       \/ /\ PolicyOk(Merged(DefaultPolicy))
          /\ policy' = Normal(Merged(DefaultPolicy))
          /\ report' = [source |-> "mapping_override", rollback |-> FALSE,
                        conflicts |-> Overridden(DefaultPolicy, job.arg.overrides)]
          /\ phase' = "enforce"
          /\ UNCHANGED <<job, selected>>

\* a mapping with a bundle
ResolveBundle ==
    LET wanted == Select(job.arg.bundle, job.arg.environment, job.arg.preferred)
        rolled == RolledBack(job.arg.bundle, wanted)
        chosen == IF rolled = {} THEN wanted ELSE job.arg.bundle.versions[Min(rolled)]
    IN  /\ phase = "resolve"
        /\ job.arg.kind = "mapping"
        /\ ~Restricted
        /\ job.arg.bundle # NoValue
        /\ \/ ~(Sound(chosen) /\ PolicyOk(Merged(chosen.policy))) /\ Block
           \/ /\ Sound(chosen) /\ PolicyOk(Merged(chosen.policy))
              /\ selected' = chosen
              /\ policy' = Normal(Merged(chosen.policy))
              /\ report' = [source |-> "bundle", rollback |-> rolled # {},
                            conflicts |->
                               When(rolled # {},
                                    Conflict("policy_version", wanted.version, chosen.version,
                                             "rollback_applied"))
                               \cup When(chosen.environment # job.arg.environment,
                                         Conflict("environment", job.arg.environment,
                                                  chosen.environment, "fallback_used"))
                               \cup Overridden(chosen.policy, job.arg.overrides)]
              /\ phase' = "enforce"
              /\ UNCHANGED job

-----------------------------------------------------------------------------
(***************************************************************************)
(* audit                                                                   *)
(***************************************************************************)

\* _enforce_target_contract
TargetAllowed == policy.targets = {"ANY"} \/ job.subject.to \in policy.targets

\* _enforce_forbidden_method: by selector or by name
MethodAllowed == {job.subject.sel, job.subject.function_name} \cap policy.forbidden = {}

\* _enforce_slippage: in hundredths of a basis point, cut to whole ones
SlippageAllowed ==
    NoValue \notin {policy.max, job.subject.slippage} => job.subject.slippage \div 100 <= policy.max

EnforcePolicy ==
    /\ phase = "enforce"
    /\ \/ /\ TargetAllowed /\ MethodAllowed /\ SlippageAllowed
          /\ phase' = "report"
          /\ UNCHANGED <<job, selected, policy, report>>
       \/ /\ ~(TargetAllowed /\ MethodAllowed /\ SlippageAllowed)
          /\ Block

\* decision_report resolves the same argument once more
Report ==
    /\ phase = "report"
    /\ phase' = "approved"
    /\ UNCHANGED <<job, selected, policy, report>>

NextAudit ==
    \/ ResolveDirect
    \/ ResolveRefused
    \/ ResolveMapping
    \/ ResolveBundle
    \/ EnforcePolicy
    \/ Report

-----------------------------------------------------------------------------
(***************************************************************************)
(* Properties                                                              *)
(***************************************************************************)

\* No retired or altered version is ever enforced, nor one of another environment where
\* there is one of the environment asked for: the policy of a bundle is that of one of its
\* own active versions whose digest is right, even after a rollback, outside its overrides
\* nothing of it changes, and a rollback stays in the environment of what it replaces.
BundlePolicyIsSound ==
    phase \in {"enforce", "report", "approved"} /\ report.source = "bundle" =>
        LET versions == job.arg.bundle.versions
        IN  /\ selected.status = "active"
            /\ selected.digest = selected.policy
            /\ selected \in ToSet(versions)
            /\ \A k \in Keys \ DOMAIN job.arg.overrides : policy[k] = selected.policy[k]
            /\ \/ selected.environment = job.arg.environment
               \/ /\ \A v \in ToSet(versions) : v.environment # job.arg.environment
                  /\ selected.environment = versions[1].environment

\* The report tells all: whoever reads it can compute the enforced policy from the
\* verified one, knows of every key that was overridden, of another environment than the
\* one asked for, and that it was a rollback that was applied.
ReportTellsAll ==
    phase \in {"enforce", "report", "approved"} /\ report.source \in {"bundle", "mapping_override"} =>
        LET base == IF selected = NoValue THEN DefaultPolicy ELSE selected.policy
            told == {c \in report.conflicts : c.reason = "override_applied"}
        IN  /\ \A k \in Keys : policy[k] # base[k] => \E c \in told : c.key = k
            /\ \A c \in told : /\ c.expected = base[c.key]
                              /\ Normalized(c.key, c.observed) = policy[c.key]
            /\ selected # NoValue =>
                  /\ selected.environment # job.arg.environment <=>
                        \E c \in report.conflicts : c.key = "environment"
                  /\ report.rollback <=> \E c \in report.conflicts : c.key = "policy_version"

=============================================================================
