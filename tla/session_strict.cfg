CONSTANTS
    TailLimit = 25
    Writers = {w1, w2}
    Readers = {}
    Strict = TRUE
    Ops = {"trace", "plan", "record_plan", "draft", "tool_call", "decision", "annotation", "finalize", "record_finalize"}
    Corrs = {c1}
    Fps = {f1}
    Plans = {p1, p2}
    TraceOutcomes = {"degraded"}
    MaxTimeline = 6
SPECIFICATION Spec
INVARIANTS
    WorkflowOrder
    StateIsLast
    
CHECK_DEADLOCK FALSE
