----------------------------- MODULE SessionFSM -----------------------------
(***************************************************************************)
(* The rules a ValidationSession timeline obeys: the status lattice of     *)
(* lirix/core/status_aggregation.py and SessionFSM.validate_append of      *)
(* lirix/core/session_fsm.py, as operators over a lifecycle and a          *)
(* timeline.  No state of its own: ValidationSession and Pipeline use it.  *)
(*                                                                         *)
(* A timeline entry is a record [ev, st, tag].  ev is "trace" for the six  *)
(* TRACE_RECORD_KINDS and the event_type of a session_event otherwise; st  *)
(* is the status that is folded into session_outcome (of a trace, its      *)
(* trace_overall_status); tag is the one datum the properties look at.     *)
(***************************************************************************)
EXTENDS Integers, Sequences

CONSTANT TailLimit    \* limit=25 of _tail_event_types

ASSUME TailLimitAssumption == TailLimit \in Nat \ {0}

Statuses == {"info", "ok", "degraded", "rejected"}

EventTypes == {"plan", "draft", "tool_call", "decision", "finalize", "annotation"}

Kinds == EventTypes \cup {"trace"}

\* _PRECEDENCE
Rank == [info |-> 0, ok |-> 1, degraded |-> 2, rejected |-> 3]

MUT_Aggregate(a, b) == b

\* aggregate_statuses([a, b])
Aggregate(a, b) == IF Rank[b] > Rank[a] THEN b ELSE a

MUT_Prereqs ==
    [plan |-> {}, draft |-> {"plan"}, tool_call |-> {"plan"}, decision |-> {"tool_call"},
     finalize |-> {"decision"}, annotation |-> {}, trace |-> {}]

\* _WORKFLOW_PREREQS
Prereqs ==
    [plan |-> {}, draft |-> {"plan"}, tool_call |-> {"draft"}, decision |-> {"tool_call"},
     finalize |-> {"decision"}, annotation |-> {}, trace |-> {}]

\* _session_workflow_events_seen: the whole timeline, traces left out
EventsSeen(tl) == {tl[i].ev : i \in {j \in 1..Len(tl) : tl[j].ev # "trace"}}

\* "finalize" in _tail_event_types(timeline): only the last TailLimit entries,
\* traces included in the count, are looked at
FinalizeInTail(tl) ==
    \E i \in 1..Len(tl) : i > Len(tl) - TailLimit /\ tl[i].ev = "finalize"

MUT_ValidateAppend(lc, tl, ev, strict) ==
    /\ lc = "finalized" => ev \in {"annotation", "trace"}
    /\ strict => Prereqs[ev] \subseteq EventsSeen(tl)
    /\ ev \in {"plan", "draft", "tool_call", "decision"} => ~FinalizeInTail(tl)

\* SessionFSM.validate_append does not raise
ValidateAppend(lc, tl, ev, strict) ==
    /\ lc = "finalized" => ev = "annotation"
    /\ strict => Prereqs[ev] \subseteq EventsSeen(tl)
    /\ ev \in {"plan", "draft", "tool_call", "decision", "finalize"}
         => ~FinalizeInTail(tl)

=============================================================================
