CONSTANTS
    TailLimit = 25
    Writers = {w1, w2}
    Readers = {}
    Strict = FALSE
    Ops = {"link_trace", "trace", "record_plan", "plan", "draft", "tool_call", "decision", "annotation", "finalize"}
    Corrs = {c1}
    Fps = {f1}
    Plans = {p1, p2}
    TraceOutcomes = {"ok", "degraded", "rejected"}
    MaxTimeline = 4
SPECIFICATION Spec
INVARIANTS
    TypeOK
    FinalizeCloses
    OutcomeIsWorst
CHECK_DEADLOCK FALSE
