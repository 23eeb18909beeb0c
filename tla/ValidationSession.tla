-------------------------- MODULE ValidationSession --------------------------
(***************************************************************************)
(* lirix/core/session.py: one ValidationSession shared by OS threads.      *)
(*                                                                         *)
(* Writers call the mutating methods, which hold _mutation_lock from the   *)
(* first check to the last assignment and so are one action each, except   *)
(* record_decision, which reads the timeline for its prerequisites before  *)
(* record_event takes the lock.  Readers call replay_bundle, which takes   *)
(* no lock and walks timeline and state several times: one action per      *)
(* walk.  A call that raises changes nothing and is no step, except        *)
(* bind_execution_plan, which has stored the plan by the time              *)
(* record_event refuses the event.                                         *)
(***************************************************************************)
EXTENDS SessionFSM, FiniteSets, Selection

CONSTANTS
    Writers,       \* threads that mutate the session
    Readers,       \* threads that build replay bundles (may share members with Writers)
    Strict,        \* _effective_workflow_strict()
    Ops,           \* the public operations the environment calls
    Corrs,         \* correlation ids of the requests linked to the session
    Fps,           \* config fingerprints (of the clients that record traces)
    Plans,         \* execution plans
    TraceOutcomes, \* aggregate step statuses of the traces that are recorded
    MaxTimeline    \* bound on the length of the timeline

None == "none"

Verdicts == {"approved", "blocked", "info"}

AllOps == {"link_trace", "trace", "record_plan", "plan", "draft", "tool_call", "decision",
           "annotation", "finalize", "record_finalize"}

ASSUME SessionAssumption ==
    /\ Strict \in BOOLEAN
    /\ Ops \subseteq AllOps
    /\ TraceOutcomes \subseteq Statuses
    /\ None \notin Fps \cup Plans \cup Verdicts
    /\ MaxTimeline \in Nat

VARIABLES
    lifecycle,       \* _lifecycle
    timeline,        \* timeline
    outcome,         \* state["session_outcome"]
    decisionState,   \* state["workflow_decision_state"]
    executionPlan,   \* state["execution_plan"]
    correlationIds,  \* correlation_ids
    pc,              \* where each thread is
    pending,         \* pending[t]: the verdict t is about to record
    bundle           \* bundle[t]: the replay bundle t has built so far

vars == <<lifecycle, timeline, outcome, decisionState, executionPlan,
          correlationIds, pc, pending, bundle>>

log == <<lifecycle, timeline, outcome, decisionState>>
local == <<pc, pending, bundle>>

Threads == Writers \cup Readers

Tags == Fps \cup Plans \cup Verdicts \cup {None}

Entry == [ev : Kinds, st : Statuses, tag : Tags]

Bundle == [timeline : Seq(Entry), outcome : Statuses, fp : Tags, size : Nat, decisions : Nat]

NoBundle == [timeline |-> <<>>, outcome |-> "info", fp |-> None,
             size |-> 0, decisions |-> 0]

Init ==
    /\ lifecycle = "open"
    /\ timeline = <<>>
    /\ outcome = "info"
    /\ decisionState = None
    /\ executionPlan = None
    /\ correlationIds = <<>>
    /\ pc = [t \in Threads |-> "idle"]
    /\ pending = [t \in Threads |-> None]
    /\ bundle = [t \in Threads |-> NoBundle]

-----------------------------------------------------------------------------
(***************************************************************************)
(* Mutating methods                                                        *)
(***************************************************************************)

Calls(t, op) == t \in Writers /\ pc[t] = "idle" /\ op \in Ops

\* a method that is about to append finds room (bound)
Room == Len(timeline) < MaxTimeline

\* timeline.append(item); state["session_outcome"] = aggregate([prev, status])
AppendEntry(e) ==
    /\ timeline' = Append(timeline, e)
    /\ outcome' = Aggregate(outcome, e.st)

MUT_RecordEvent(e) ==
    /\ Room
    /\ ValidateAppend(lifecycle, timeline, e.ev, Strict)
    /\ AppendEntry(e)
    /\ decisionState' = IF e.ev = "decision" /\ decisionState = None
                          THEN e.tag ELSE decisionState

\* record_event, entered with the lock held; lifecycle is left alone
RecordEvent(e) ==
    /\ Room
    /\ ValidateAppend(lifecycle, timeline, e.ev, Strict)
    /\ AppendEntry(e)
    /\ decisionState' = IF e.ev = "decision" /\ Strict THEN e.tag ELSE decisionState

LinkTrace(t, c) ==
    /\ Calls(t, "link_trace")
    /\ lifecycle # "finalized"
    /\ \A i \in 1..Len(correlationIds) : correlationIds[i] # c
    /\ correlationIds' = Append(correlationIds, c)
    /\ UNCHANGED <<log, executionPlan, local>>

RecordTrace(t, st, fp) ==
    /\ Calls(t, "trace")
    /\ Room
    /\ lifecycle # "finalized"
    /\ lifecycle' = "running"
    /\ ValidateAppend(lifecycle', timeline, "trace", FALSE)
    /\ AppendEntry([ev |-> "trace", st |-> st, tag |-> fp])
    /\ UNCHANGED <<decisionState, executionPlan, correlationIds, local>>

\* The plan is stored before record_event can refuse the plan event.
BindExecutionPlan(t, p) ==
    /\ Calls(t, "plan")
    /\ lifecycle # "finalized"
    /\ executionPlan' = p
    /\ \/ RecordEvent([ev |-> "plan", st |-> "info", tag |-> p])
       \/ /\ ~ValidateAppend(lifecycle, timeline, "plan", Strict)
          /\ UNCHANGED <<timeline, outcome, decisionState>>
    /\ UNCHANGED <<lifecycle, correlationIds, local>>

\* record_plan, which leaves the stored plan alone
RecordPlan(t) ==
    /\ Calls(t, "record_plan")
    /\ RecordEvent([ev |-> "plan", st |-> "info", tag |-> None])
    /\ UNCHANGED <<lifecycle, executionPlan, correlationIds, local>>

RecordDraft(t) ==
    /\ Calls(t, "draft")
    /\ RecordEvent([ev |-> "draft", st |-> "info", tag |-> None])
    /\ UNCHANGED <<lifecycle, executionPlan, correlationIds, local>>

RecordToolCall(t, ok) ==
    /\ Calls(t, "tool_call")
    /\ RecordEvent([ev |-> "tool_call", st |-> IF ok THEN "ok" ELSE "rejected", tag |-> None])
    /\ UNCHANGED <<lifecycle, executionPlan, correlationIds, local>>

\* record_event("annotation", ...), the one session event allowed once finalized
Annotate(t, st) ==
    /\ Calls(t, "annotation")
    /\ RecordEvent([ev |-> "annotation", st |-> st, tag |-> None])
    /\ UNCHANGED <<lifecycle, executionPlan, correlationIds, local>>

DecisionStatus(verdict) ==
    IF verdict = "info" THEN "info"
    ELSE IF verdict = "approved" THEN "ok" ELSE "rejected"

MUT_BeginDecision(t, verdict) ==
    /\ Calls(t, "decision")
    /\ Strict => {"plan", "draft"} \subseteq EventsSeen(timeline)
    /\ pc' = [pc EXCEPT ![t] = "deciding"]
    /\ pending' = [pending EXCEPT ![t] = DecisionStatus(verdict)]
    /\ UNCHANGED <<log, executionPlan, correlationIds, bundle>>

\* record_decision up to the lock: prerequisites and verdict
BeginDecision(t, verdict) ==
    /\ Calls(t, "decision")
    /\ Strict => {"plan", "draft"} \subseteq EventsSeen(timeline)
    /\ pc' = [pc EXCEPT ![t] = "deciding"]
    /\ pending' = [pending EXCEPT ![t] = verdict]
    /\ UNCHANGED <<log, executionPlan, correlationIds, bundle>>

\* record_decision's record_event, which may find the session changed and raise
RecordDecision(t) ==
    /\ pc[t] = "deciding"
    /\ \/ RecordEvent([ev |-> "decision", st |-> DecisionStatus(pending[t]),
                       tag |-> pending[t]])
       \/ /\ ~ValidateAppend(lifecycle, timeline, "decision", Strict)
          /\ UNCHANGED <<timeline, outcome, decisionState>>
    /\ pc' = [pc EXCEPT ![t] = "idle"]
    /\ pending' = [pending EXCEPT ![t] = None]
    /\ UNCHANGED <<lifecycle, executionPlan, correlationIds, bundle>>

\* record_event("finalize", ...) called directly: the event without the lifecycle
RecordFinalizeEvent(t, ok) ==
    /\ Calls(t, "record_finalize")
    /\ RecordEvent([ev |-> "finalize", st |-> IF ok THEN "ok" ELSE "rejected", tag |-> None])
    /\ UNCHANGED <<lifecycle, executionPlan, correlationIds, local>>

MUT_Finalize(t, ok) ==
    /\ Calls(t, "finalize")
    /\ lifecycle # "finalized"
    /\ RecordEvent([ev |-> "finalize", st |-> IF ok THEN "ok" ELSE "rejected", tag |-> None])
    /\ UNCHANGED <<lifecycle, executionPlan, correlationIds, local>>

Finalize(t, ok) ==
    /\ Calls(t, "finalize")
    /\ lifecycle # "finalized"
    /\ RecordEvent([ev |-> "finalize", st |-> IF ok THEN "ok" ELSE "rejected", tag |-> None])
    /\ lifecycle' = "finalized"
    /\ UNCHANGED <<executionPlan, correlationIds, local>>

-----------------------------------------------------------------------------
(***************************************************************************)
(* replay_bundle, without the lock                                         *)
(***************************************************************************)

Traces(tl) == {i \in 1..Len(tl) : tl[i].ev = "trace"}

Fingerprints(tl) == {tl[i].tag : i \in Traces(tl)}

\* _last_trace_metadata
LastFingerprint(tl) ==
    LET last == {i \in Traces(tl) : \A j \in Traces(tl) : j <= i}
    IN  IF last = {} THEN None ELSE tl[CHOOSE i \in last : TRUE].tag

\* decision_log
DecisionLog(tl) == {i \in 1..Len(tl) : tl[i].ev = "decision"}

ReadStep(t, from, to) ==
    /\ t \in Readers
    /\ pc[t] = from
    /\ pc' = [pc EXCEPT ![t] = to]
    /\ UNCHANGED <<log, executionPlan, correlationIds, pending>>

\* raises replay_bundle_metadata_drift when two traces disagree
ScanDrift(t) ==
    /\ Cardinality(Fingerprints(timeline)) <= 1
    /\ ReadStep(t, "idle", "scanned")
    /\ UNCHANGED bundle

CopyTimeline(t) ==
    /\ ReadStep(t, "scanned", "copied")
    /\ bundle' = [bundle EXCEPT ![t].timeline = timeline]

CopyState(t) ==
    /\ ReadStep(t, "copied", "payload")
    /\ bundle' = [bundle EXCEPT ![t].outcome = outcome]

ReadMetadata(t) ==
    /\ ReadStep(t, "payload", "metadata")
    /\ bundle' = [bundle EXCEPT ![t].fp = LastFingerprint(timeline)]

ReadSize(t) ==
    /\ ReadStep(t, "metadata", "sized")
    /\ bundle' = [bundle EXCEPT ![t].size = Len(timeline)]

MUT_ReadDecisions(t) ==
    /\ ReadStep(t, "sized", "built")
    /\ bundle' = [bundle EXCEPT ![t].decisions =
                     Cardinality({i \in DecisionLog(timeline) : timeline[i].st # "info"})]

ReadDecisions(t) ==
    /\ ReadStep(t, "sized", "built")
    /\ bundle' = [bundle EXCEPT ![t].decisions = Cardinality(DecisionLog(timeline))]

\* the caller takes the bundle away
Return(t) ==
    /\ ReadStep(t, "built", "idle")
    /\ bundle' = [bundle EXCEPT ![t] = NoBundle]

BuildBundle(t) ==
    \/ ScanDrift(t)
    \/ CopyTimeline(t)
    \/ CopyState(t)
    \/ ReadMetadata(t)
    \/ ReadSize(t)
    \/ ReadDecisions(t)
    \/ Return(t)

Next ==
    \/ \E t \in Writers :
        \/ \E c \in Corrs : LinkTrace(t, c)
        \/ \E st \in TraceOutcomes, fp \in Fps : RecordTrace(t, st, fp)
        \/ \E p \in Plans : BindExecutionPlan(t, p)
        \/ RecordPlan(t)
        \/ RecordDraft(t)
        \/ \E ok \in BOOLEAN : RecordToolCall(t, ok)
        \/ \E st \in {"info", "ok", "rejected"} : Annotate(t, st)
        \/ \E v \in Verdicts : BeginDecision(t, v)
        \/ RecordDecision(t)
        \/ \E ok \in BOOLEAN : RecordFinalizeEvent(t, ok)
        \/ \E ok \in BOOLEAN : Finalize(t, ok)
    \/ \E t \in Readers : BuildBundle(t)

Spec == Init /\ [][Next]_vars

-----------------------------------------------------------------------------
(***************************************************************************)
(* verify_replay_bundle                                                    *)
(***************************************************************************)

SessionEvents(tl) == Kept(tl, {i \in 1..Len(tl) : tl[i].ev # "trace"})

\* Is the bundle accepted?  The digest is recomputed from the fields it was
\* computed from, so it always matches and is left out.
VerifyReplayBundle(b) ==
    LET tl == b.timeline
        ev == SessionEvents(tl)
    IN  /\ Strict => \A i \in 1..Len(ev) :
                        ValidateAppend("running", SubSeq(ev, 1, i - 1), ev[i].ev, TRUE)
        /\ \A i, j \in 1..Len(ev) :
              i < j /\ ev[i].ev = "finalize" => ev[j].ev = "annotation"
        /\ b.size = Len(tl)
        /\ b.decisions = Cardinality(DecisionLog(tl))

-----------------------------------------------------------------------------
(***************************************************************************)
(* Properties                                                              *)
(***************************************************************************)

TypeOK ==
    /\ lifecycle \in {"open", "running", "finalized"}
    /\ timeline \in Seq(Entry)
    /\ outcome \in Statuses
    /\ decisionState \in Verdicts \cup {None}
    /\ executionPlan \in Plans \cup {None}
    /\ correlationIds \in Seq(Corrs)
    /\ pc \in [Threads -> {"idle", "deciding", "scanned", "copied", "payload",
                           "metadata", "sized", "built"}]
    /\ pending \in [Threads -> Verdicts \cup {None}]
    /\ bundle \in [Threads -> Bundle]

\* the events entry i of a timeline presupposes are before it, in order
InOrder(tl, i) ==
    /\ tl[i].ev = "draft" => \E j \in 1..(i - 1) : tl[j].ev = "plan"
    /\ tl[i].ev = "tool_call" =>
          \E j, k \in 1..(i - 1) :
             j < k /\ tl[j].ev = "plan" /\ tl[k].ev = "draft"
    /\ tl[i].ev = "decision" =>
          \E j, k, l \in 1..(i - 1) :
             /\ j < k /\ k < l
             /\ tl[j].ev = "plan"
             /\ tl[k].ev = "draft"
             /\ tl[l].ev = "tool_call"

\* In a strict (agent) session every event is preceded by the chain of events
\* it presupposes, plan then draft then tool call then decision, whatever
\* threads recorded them and whatever traces came between.
WorkflowOrder == Strict => \A i \in 1..Len(timeline) : InOrder(timeline, i)

\* Finalizing closes the record: nothing but annotations follows a finalize
\* event, so there is at most one, and no decision taken by another thread
\* before finalize got the lock lands behind it; and the session is finalized
\* exactly when its timeline says so.
FinalizeCloses ==
    /\ \A i, j \in 1..Len(timeline) :
          i < j /\ timeline[i].ev = "finalize" => timeline[j].ev = "annotation"
    /\ lifecycle = "finalized" <=> \E i \in 1..Len(timeline) : timeline[i].ev = "finalize"

\* "Enforces that finalize is at most once" (session_fsm.py).
FinalizeOnce ==
    \A i, j \in 1..Len(timeline) :
        timeline[i].ev = "finalize" /\ timeline[j].ev = "finalize" => i = j

\* session_outcome is the worst status of the whole timeline, so a rejection
\* anywhere in it, of any thread, is never hidden by what is recorded later.
OutcomeIsWorst ==
    /\ \A i \in 1..Len(timeline) : Rank[timeline[i].st] <= Rank[outcome]
    /\ outcome # "info" => \E i \in 1..Len(timeline) : timeline[i].st = outcome

\* the decision state is the verdict of the last decision of a strict session
DecisionIsLast ==
    LET D == DecisionLog(timeline)
    IN  decisionState = IF Strict /\ D # {}
                          THEN timeline[CHOOSE i \in D : \A j \in D : j <= i].tag
                          ELSE None

\* the stored plan is that of the last plan event that bound one
PlanIsLast ==
    executionPlan # None =>
        \E i \in 1..Len(timeline) :
            /\ timeline[i].ev = "plan"
            /\ timeline[i].tag = executionPlan
            /\ \A j \in (i + 1)..Len(timeline) :
                  timeline[j].ev = "plan" => timeline[j].tag = None

\* What the session keeps beside its timeline is what the timeline says, in the
\* order the lock serialised the threads: the decision state, and the plan, although
\* it is stored before the event.  Where finalize was recorded as a bare event the
\* session still takes a plan and refuses its event, so the plan is left out then.
StateIsLast ==
    /\ DecisionIsLast
    /\ (lifecycle = "finalized" \/ \A i \in 1..Len(timeline) : timeline[i].ev # "finalize")
          => PlanIsLast

\* A replay bundle a session hands out is one verify_replay_bundle accepts, and what
\* it says of the client configuration and of the outcome is what its own timeline
\* says: one fingerprint, the one in the header, and no status worse than the outcome.
BundleVerifies ==
    \A t \in Readers : pc[t] = "built" =>
        LET tl == bundle[t].timeline
        IN  /\ VerifyReplayBundle(bundle[t])
            /\ Fingerprints(tl) = {bundle[t].fp} \ {None}
            /\ \A i \in 1..Len(tl) : Rank[tl[i].st] <= Rank[bundle[t].outcome]

=============================================================================
