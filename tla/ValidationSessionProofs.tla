----------------------- MODULE ValidationSessionProofs -----------------------
(***************************************************************************)
(* Theorems about ValidationSession, for any threads, operations, traces   *)
(* and any bound on the timeline.                                          *)
(***************************************************************************)
EXTENDS ValidationSession, SelectionProofs

USE SessionAssumption, TailLimitAssumption

\* what a session that took a finalize event takes no more
Closable == {"plan", "draft", "tool_call", "decision", "finalize"}

\* What a step may do to the log: append one entry that validate_append let
\* through, and finalize the session only with a finalize entry.
Extends(e) ==
    /\ e \in Entry
    /\ Room
    /\ AppendEntry(e)
    /\ Strict => Prereqs[e.ev] \subseteq EventsSeen(timeline)
    /\ lifecycle = "finalized" => e.ev = "annotation"
    /\ e.ev \in Closable => ~FinalizeInTail(timeline)
    /\ e.ev = "trace" => e.tag \in Fps
    /\ \/ lifecycle' = "finalized" /\ e.ev = "finalize"
       \/ /\ e.ev = "finalize" => "record_finalize" \in Ops
          /\ lifecycle' = "finalized" <=> lifecycle = "finalized"

\* Every entry record_event appends was admitted by validate_append.
LEMMA RecordEventExtends ==
    ASSUME NEW e \in Entry, e.ev # "trace", RecordEvent(e),
           \/ lifecycle' = "finalized" /\ e.ev = "finalize"
           \/ /\ lifecycle' = lifecycle
              /\ e.ev = "finalize" => "record_finalize" \in Ops
    PROVE  Extends(e)
BY DEF RecordEvent, Extends, ValidateAppend, Closable

\* Every step leaves the log alone or extends it by one admitted entry.
LEMMA StepExtends ==
    ASSUME TypeOK, [Next]_vars
    PROVE  \/ UNCHANGED <<lifecycle, timeline, outcome>>
           \/ \E e \in Entry : Extends(e)
<1> USE DEF TypeOK, Entry, Tags, Kinds, EventTypes, Verdicts, Statuses
<1>1. ASSUME NEW t \in Writers, NEW c \in Corrs, LinkTrace(t, c)
      PROVE  UNCHANGED <<lifecycle, timeline, outcome>>
  BY <1>1 DEF LinkTrace, log
<1>2. ASSUME NEW t \in Writers, NEW st \in TraceOutcomes, NEW fp \in Fps,
             RecordTrace(t, st, fp)
      PROVE  \E e \in Entry : Extends(e)
  <2> DEFINE e == [ev |-> "trace", st |-> st, tag |-> fp]
  <2>1. e \in Entry
    OBVIOUS
  <2>2. Extends(e)
    BY <1>2, <2>1 DEF RecordTrace, Extends, ValidateAppend, Prereqs, Closable
  <2>3. QED
    BY <2>1, <2>2
<1>3. ASSUME NEW t \in Writers, NEW p \in Plans, BindExecutionPlan(t, p)
      PROVE  \/ UNCHANGED <<lifecycle, timeline, outcome>>
             \/ \E e \in Entry : Extends(e)
  <2> DEFINE e == [ev |-> "plan", st |-> "info", tag |-> p]
  <2>1. e \in Entry
    OBVIOUS
  <2>2. CASE RecordEvent(e)
    <3>1. Extends(e)
      BY <1>3, <2>1, <2>2, RecordEventExtends DEF BindExecutionPlan
    <3>2. QED
      BY <2>1, <3>1
  <2>3. CASE ~RecordEvent(e)
    BY <1>3, <2>3 DEF BindExecutionPlan
  <2>4. QED
    BY <2>2, <2>3
<1>4a. ASSUME NEW t \in Writers, RecordPlan(t)
       PROVE  \E e \in Entry : Extends(e)
  <2> DEFINE e == [ev |-> "plan", st |-> "info", tag |-> None]
  <2>1. e \in Entry
    OBVIOUS
  <2>2. Extends(e)
    BY <1>4a, <2>1, RecordEventExtends DEF RecordPlan
  <2>3. QED
    BY <2>1, <2>2
<1>4. ASSUME NEW t \in Writers, RecordDraft(t)
      PROVE  \E e \in Entry : Extends(e)
  <2> DEFINE e == [ev |-> "draft", st |-> "info", tag |-> None]
  <2>1. e \in Entry
    OBVIOUS
  <2>2. Extends(e)
    BY <1>4, <2>1, RecordEventExtends DEF RecordDraft
  <2>3. QED
    BY <2>1, <2>2
<1>5. ASSUME NEW t \in Writers, NEW ok \in BOOLEAN, RecordToolCall(t, ok)
      PROVE  \E e \in Entry : Extends(e)
  <2> DEFINE e == [ev |-> "tool_call", st |-> IF ok THEN "ok" ELSE "rejected", tag |-> None]
  <2>1. e \in Entry
    OBVIOUS
  <2>2. Extends(e)
    BY <1>5, <2>1, RecordEventExtends DEF RecordToolCall
  <2>3. QED
    BY <2>1, <2>2
<1>6. ASSUME NEW t \in Writers, NEW st \in {"info", "ok", "rejected"}, Annotate(t, st)
      PROVE  \E e \in Entry : Extends(e)
  <2> DEFINE e == [ev |-> "annotation", st |-> st, tag |-> None]
  <2>1. e \in Entry
    OBVIOUS
  <2>2. Extends(e)
    BY <1>6, <2>1, RecordEventExtends DEF Annotate
  <2>3. QED
    BY <2>1, <2>2
<1>7. ASSUME NEW t \in Writers, NEW v \in Verdicts, BeginDecision(t, v)
      PROVE  UNCHANGED <<lifecycle, timeline, outcome>>
  BY <1>7 DEF BeginDecision, log
<1>8. ASSUME NEW t \in Writers, RecordDecision(t)
      PROVE  \/ UNCHANGED <<lifecycle, timeline, outcome>>
             \/ \E e \in Entry : Extends(e)
  <2> DEFINE e == [ev |-> "decision", st |-> DecisionStatus(pending[t]), tag |-> pending[t]]
  <2>1. pending[t] \in Verdicts \cup {None} /\ DecisionStatus(pending[t]) \in Statuses
    BY DEF Threads, DecisionStatus
  <2>2. e \in Entry
    BY <2>1
  <2>3. CASE RecordEvent(e)
    <3>1. Extends(e)
      BY <1>8, <2>2, <2>3, RecordEventExtends DEF RecordDecision
    <3>2. QED
      BY <2>2, <3>1
  <2>4. CASE ~RecordEvent(e)
    BY <1>8, <2>4 DEF RecordDecision
  <2>5. QED
    BY <2>3, <2>4
<1>9. ASSUME NEW t \in Writers, NEW ok \in BOOLEAN, RecordFinalizeEvent(t, ok)
      PROVE  \E e \in Entry : Extends(e)
  <2> DEFINE e == [ev |-> "finalize", st |-> IF ok THEN "ok" ELSE "rejected", tag |-> None]
  <2>1. e \in Entry
    OBVIOUS
  <2>2. Extends(e)
    BY <1>9, <2>1, RecordEventExtends DEF RecordFinalizeEvent, Calls
  <2>3. QED
    BY <2>1, <2>2
<1>10. ASSUME NEW t \in Writers, NEW ok \in BOOLEAN, Finalize(t, ok)
       PROVE  \E e \in Entry : Extends(e)
  <2> DEFINE e == [ev |-> "finalize", st |-> IF ok THEN "ok" ELSE "rejected", tag |-> None]
  <2>1. e \in Entry
    OBVIOUS
  <2>2. Extends(e)
    BY <1>10, <2>1, RecordEventExtends DEF Finalize
  <2>3. QED
    BY <2>1, <2>2
<1>11. ASSUME NEW t \in Readers, BuildBundle(t)
       PROVE  UNCHANGED <<lifecycle, timeline, outcome>>
  BY <1>11 DEF BuildBundle, ScanDrift, CopyTimeline, CopyState, ReadMetadata,
               ReadSize, ReadDecisions, Return, ReadStep, log
<1>12. ASSUME UNCHANGED vars
       PROVE  UNCHANGED <<lifecycle, timeline, outcome>>
  BY <1>12 DEF vars
<1>13. QED
  BY <1>1, <1>2, <1>3, <1>4a, <1>4, <1>5, <1>6, <1>7, <1>8, <1>9, <1>10, <1>11, <1>12 DEF Next

-----------------------------------------------------------------------------
(***************************************************************************)
(* Type correctness                                                        *)
(***************************************************************************)

\* Recording an event keeps the log well-typed.
LEMMA RecordEventType ==
    ASSUME TypeOK, NEW e \in Entry, e.ev = "decision" => e.tag \in Verdicts \cup {None},
           RecordEvent(e)
    PROVE  /\ timeline' \in Seq(Entry)
           /\ outcome' \in Statuses
           /\ decisionState' \in Verdicts \cup {None}
BY DEF TypeOK, RecordEvent, AppendEntry, Aggregate, Entry

\* replay_bundle's header is a datum of some entry, or none.
LEMMA LastFingerprintType ==
    ASSUME NEW tl \in Seq(Entry)
    PROVE  LastFingerprint(tl) \in Tags
<1> DEFINE last == {i \in Traces(tl) : \A j \in Traces(tl) : j <= i}
           i == CHOOSE k \in last : TRUE
<1>1. CASE last = {}
  BY <1>1 DEF LastFingerprint, Tags
<1>2. CASE last # {}
  <2>1. i \in last
    BY <1>2
  <2>2. i \in 1..Len(tl)
    BY <2>1 DEF Traces
  <2>3. tl[i] \in Entry
    <3> HIDE DEF i
    <3>1. QED
      BY <2>2
  <2>4. tl[i].tag \in Tags
    <3> HIDE DEF i
    <3>1. QED
      BY <2>3 DEF Entry
  <2>5. QED
    BY <1>2, <2>4 DEF LastFingerprint
<1>3. QED
  BY <1>1, <1>2

\* A timeline has finitely many decisions to count.
LEMMA DecisionCount ==
    ASSUME NEW tl \in Seq(Entry)
    PROVE  Len(tl) \in Nat /\ Cardinality(DecisionLog(tl)) \in Nat
<1>1. Len(tl) \in Nat /\ 1 \in Int /\ Len(tl) \in Int
  OBVIOUS
<1>2. IsFiniteSet(1..Len(tl))
  BY <1>1, FS_Interval, Zenon
<1>3. DecisionLog(tl) \in SUBSET (1..Len(tl))
  BY DEF DecisionLog
<1>4. IsFiniteSet(DecisionLog(tl))
  BY <1>2, <1>3, FS_Subset, Zenon
<1>5. QED
  BY <1>1, <1>4, FS_CardinalityType

\* ValidationSession is well-typed: every event any method records, and every
\* bundle a reader builds, has the shape the rest of the module relies on.
THEOREM TypeCorrect == Spec => []TypeOK
<1> USE DEF Entry, Tags, Kinds, EventTypes, Verdicts, Statuses
<1>1. Init => TypeOK
  BY DEF Init, TypeOK, NoBundle, Bundle
<1>2. TypeOK /\ [Next]_vars => TypeOK'
  <2> SUFFICES ASSUME TypeOK, [Next]_vars
               PROVE  TypeOK'
    OBVIOUS
  <2> USE DEF TypeOK
  <2>1. ASSUME NEW t \in Writers, NEW c \in Corrs, LinkTrace(t, c)
        PROVE  TypeOK'
    <3>1. correlationIds' \in Seq(Corrs)
      BY <2>1 DEF LinkTrace
    <3>2. QED
      BY <2>1, <3>1 DEF LinkTrace, log, local
  <2>2. ASSUME NEW t \in Writers, NEW st \in TraceOutcomes, NEW fp \in Fps,
               RecordTrace(t, st, fp)
        PROVE  TypeOK'
    <3> DEFINE e == [ev |-> "trace", st |-> st, tag |-> fp]
    <3>1. e \in Entry
      OBVIOUS
    <3>2. timeline' = Append(timeline, e) /\ outcome' \in Statuses
      BY <2>2 DEF RecordTrace, AppendEntry, Aggregate
    <3>3. timeline' \in Seq(Entry)
      BY <3>1, <3>2
    <3>4. QED
      BY <2>2, <3>2, <3>3 DEF RecordTrace, local
  <2>3. ASSUME NEW t \in Writers, NEW p \in Plans, BindExecutionPlan(t, p)
        PROVE  TypeOK'
    <3>1. [ev |-> "plan", st |-> "info", tag |-> p] \in Entry
      OBVIOUS
    <3>2. /\ timeline' \in Seq(Entry)
          /\ outcome' \in Statuses
          /\ decisionState' \in Verdicts \cup {None}
      BY <2>3, <3>1, RecordEventType DEF BindExecutionPlan
    <3>3. QED
      BY <2>3, <3>2 DEF BindExecutionPlan, local
  <2>4a. ASSUME NEW t \in Writers, RecordPlan(t)
         PROVE  TypeOK'
    <3>1. [ev |-> "plan", st |-> "info", tag |-> None] \in Entry
      OBVIOUS
    <3>2. QED
      BY <2>4a, <3>1, RecordEventType DEF RecordPlan, local
  <2>4. ASSUME NEW t \in Writers, RecordDraft(t)
        PROVE  TypeOK'
    <3>1. [ev |-> "draft", st |-> "info", tag |-> None] \in Entry
      OBVIOUS
    <3>2. QED
      BY <2>4, <3>1, RecordEventType DEF RecordDraft, local
  <2>5. ASSUME NEW t \in Writers, NEW ok \in BOOLEAN, RecordToolCall(t, ok)
        PROVE  TypeOK'
    <3>1. [ev |-> "tool_call", st |-> IF ok THEN "ok" ELSE "rejected", tag |-> None] \in Entry
      OBVIOUS
    <3>2. QED
      BY <2>5, <3>1, RecordEventType DEF RecordToolCall, local
  <2>6. ASSUME NEW t \in Writers, NEW st \in {"info", "ok", "rejected"}, Annotate(t, st)
        PROVE  TypeOK'
    <3>1. [ev |-> "annotation", st |-> st, tag |-> None] \in Entry
      OBVIOUS
    <3>2. QED
      BY <2>6, <3>1, RecordEventType DEF Annotate, local
  <2>7. ASSUME NEW t \in Writers, NEW v \in Verdicts, BeginDecision(t, v)
        PROVE  TypeOK'
    BY <2>7 DEF BeginDecision, log, Threads
  <2>8. ASSUME NEW t \in Writers, RecordDecision(t)
        PROVE  TypeOK'
    <3> DEFINE e == [ev |-> "decision", st |-> DecisionStatus(pending[t]), tag |-> pending[t]]
    <3>1. pending[t] \in Verdicts \cup {None} /\ DecisionStatus(pending[t]) \in Statuses
      BY DEF Threads, DecisionStatus
    <3>2. e \in Entry /\ e.tag \in Verdicts \cup {None}
      BY <3>1
    <3>3. /\ timeline' \in Seq(Entry)
          /\ outcome' \in Statuses
          /\ decisionState' \in Verdicts \cup {None}
      BY <2>8, <3>2, RecordEventType DEF RecordDecision
    <3>4. QED
      BY <2>8, <3>3 DEF RecordDecision, Threads
  <2>9. ASSUME NEW t \in Writers, NEW ok \in BOOLEAN, RecordFinalizeEvent(t, ok)
        PROVE  TypeOK'
    <3>1. [ev |-> "finalize", st |-> IF ok THEN "ok" ELSE "rejected", tag |-> None] \in Entry
      OBVIOUS
    <3>2. QED
      BY <2>9, <3>1, RecordEventType DEF RecordFinalizeEvent, local
  <2>10. ASSUME NEW t \in Writers, NEW ok \in BOOLEAN, Finalize(t, ok)
         PROVE  TypeOK'
    <3>1. [ev |-> "finalize", st |-> IF ok THEN "ok" ELSE "rejected", tag |-> None] \in Entry
      OBVIOUS
    <3>2. QED
      BY <2>10, <3>1, RecordEventType DEF Finalize, local
  <2>11. ASSUME NEW t \in Readers, BuildBundle(t)
         PROVE  TypeOK'
    <3>1. /\ bundle[t] \in Bundle
          /\ outcome \in Statuses
      BY DEF Threads
    <3>2. LastFingerprint(timeline) \in Tags
      BY LastFingerprintType
    <3>3. /\ Len(timeline) \in Nat
          /\ Cardinality(DecisionLog(timeline)) \in Nat
      BY DecisionCount
    <3>4. bundle' \in [Threads -> Bundle]
      <4>1. CASE CopyTimeline(t)
        BY <3>1, <4>1 DEF CopyTimeline, Bundle
      <4>2. CASE CopyState(t)
        BY <3>1, <4>2 DEF CopyState, Bundle
      <4>3. CASE ReadMetadata(t)
        BY <3>1, <3>2, <4>3 DEF ReadMetadata, Bundle
      <4>4. CASE ReadSize(t)
        BY <3>1, <3>3, <4>4 DEF ReadSize, Bundle
      <4>5. CASE ReadDecisions(t)
        BY <3>1, <3>3, <4>5 DEF ReadDecisions, Bundle
      <4>6. CASE Return(t)
        <5>1. NoBundle \in Bundle
          BY DEF NoBundle, Bundle
        <5>2. QED
          BY <4>6, <5>1 DEF Return
      <4>7. CASE ScanDrift(t)
        BY <4>7 DEF ScanDrift
      <4>8. QED
        BY <2>11, <4>1, <4>2, <4>3, <4>4, <4>5, <4>6, <4>7 DEF BuildBundle
    <3>5. /\ UNCHANGED <<log, executionPlan, correlationIds, pending>>
          /\ pc' \in [Threads -> {"idle", "deciding", "scanned", "copied", "payload",
                                  "metadata", "sized", "built"}]
      BY <2>11 DEF BuildBundle, ScanDrift, CopyTimeline, CopyState, ReadMetadata,
                   ReadSize, ReadDecisions, Return, ReadStep
    <3>6. QED
      BY <3>4, <3>5 DEF log
  <2>12. CASE UNCHANGED vars
    BY <2>12 DEF vars
  <2>13. QED
    BY <2>1, <2>2, <2>3, <2>4a, <2>4, <2>5, <2>6, <2>7, <2>8, <2>9, <2>10, <2>11, <2>12 DEF Next
<1>3. QED
  BY <1>1, <1>2, PTL DEF Spec

-----------------------------------------------------------------------------
(***************************************************************************)
(* The order of the record                                                 *)
(***************************************************************************)

\* What appending one entry does to the timeline, seen index by index.
LEMMA ExtendsTimeline ==
    ASSUME TypeOK, NEW e \in Entry, Extends(e)
    PROVE  /\ Len(timeline) \in Nat
           /\ Len(timeline') = Len(timeline) + 1
           /\ \A i \in 1..Len(timeline) : timeline'[i] = timeline[i] /\ timeline[i] \in Entry
           /\ timeline'[Len(timeline) + 1] = e
BY DEF TypeOK, Extends, AppendEntry

\* What an admitted entry presupposes is on the timeline.
LEMMA PrereqsSeen ==
    ASSUME NEW e \in Entry, Extends(e), Strict, NEW p \in Prereqs[e.ev]
    PROVE  \E j \in 1..Len(timeline) : timeline[j].ev = p
BY DEF Extends, EventsSeen

\* In a strict session no thread can record a draft, a tool call or a decision
\* before the events it presupposes, however calls interleave.
THEOREM WorkflowOrderHolds == Spec => []WorkflowOrder
<1>1. Init => WorkflowOrder
  BY DEF Init, WorkflowOrder
<1>2. TypeOK /\ WorkflowOrder /\ [Next]_vars => WorkflowOrder'
  <2> SUFFICES ASSUME TypeOK, WorkflowOrder, [Next]_vars
               PROVE  WorkflowOrder'
    OBVIOUS
  <2>1. CASE UNCHANGED <<lifecycle, timeline, outcome>>
    BY <2>1 DEF WorkflowOrder
  <2>2. ASSUME NEW e \in Entry, Extends(e)
        PROVE  WorkflowOrder'
    <3> DEFINE n == Len(timeline)
    <3>1. /\ n \in Nat
          /\ Len(timeline') = n + 1
          /\ \A i \in 1..n : timeline'[i] = timeline[i]
          /\ timeline'[n + 1] = e
      BY <2>2, ExtendsTimeline
    <3>2. Strict => /\ e.ev = "draft" => \E j \in 1..n : timeline[j].ev = "plan"
                    /\ e.ev = "tool_call" => \E k \in 1..n : timeline[k].ev = "draft"
                    /\ e.ev = "decision" => \E l \in 1..n : timeline[l].ev = "tool_call"
      BY <2>2, PrereqsSeen DEF Prereqs
    <3>3. Strict => /\ e.ev = "tool_call"
                         => \E j, k \in 1..n : j < k /\ timeline[j].ev = "plan"
                                                     /\ timeline[k].ev = "draft"
                    /\ e.ev = "decision"
                         => \E j, k, l \in 1..n :
                               /\ j < k /\ k < l
                               /\ timeline[j].ev = "plan"
                               /\ timeline[k].ev = "draft"
                               /\ timeline[l].ev = "tool_call"
      <4>1. ASSUME Strict, NEW k \in 1..n, timeline[k].ev = "draft"
            PROVE  \E j \in 1..n : j < k /\ timeline[j].ev = "plan"
        BY <3>1, <4>1 DEF WorkflowOrder, InOrder
      <4>2. ASSUME Strict, NEW l \in 1..n, timeline[l].ev = "tool_call"
            PROVE  \E j, k \in 1..n : /\ j < k /\ k < l
                                      /\ timeline[j].ev = "plan"
                                      /\ timeline[k].ev = "draft"
        BY <3>1, <4>2 DEF WorkflowOrder, InOrder
      <4> HIDE DEF n
      <4> QED
        BY <3>2, <4>1, <4>2
    <3> HIDE DEF n
    <3>4. SUFFICES ASSUME Strict, NEW i \in 1..(n + 1)
                   PROVE  InOrder(timeline', i)
      BY <3>1 DEF WorkflowOrder
    <3>5. CASE i = n + 1
      BY <3>1, <3>2, <3>3, <3>4, <3>5 DEF InOrder
    <3>6. CASE i # n + 1
      <4>1. i \in 1..n
        BY <3>1, <3>6
      <4>2. \A j \in 1..(i - 1) : j \in 1..n /\ timeline'[j] = timeline[j]
        BY <3>1, <4>1
      <4>3. timeline'[i] = timeline[i]
        BY <3>1, <4>1
      <4>4. InOrder(timeline, i)
        BY <3>4, <4>1 DEF WorkflowOrder, n
      <4>5. QED
        BY <4>2, <4>3, <4>4 DEF InOrder
    <3>7. QED
      BY <3>5, <3>6
  <2>3. QED
    BY <2>1, <2>2, StepExtends
<1>3. QED
  BY <1>1, <1>2, TypeCorrect, PTL DEF Spec

-----------------------------------------------------------------------------
(***************************************************************************)
(* Finalizing                                                              *)
(***************************************************************************)

\* As long as sessions are finalized through finalize() and never by handing
\* record_event a "finalize", whatever the length of the timeline: nothing but
\* annotations follows the finalize event, and the lifecycle says so.  Neither
\* half is inductive alone: validate_append stops what comes after a finalize
\* event by the lifecycle, not by the event.
THEOREM FinalizeIsFinal ==
    ASSUME "record_finalize" \notin Ops
    PROVE  Spec => []FinalizeCloses
<1>1. Init => FinalizeCloses
  BY DEF Init, FinalizeCloses
<1>2. TypeOK /\ FinalizeCloses /\ [Next]_vars => FinalizeCloses'
  <2> SUFFICES ASSUME TypeOK, FinalizeCloses, [Next]_vars
               PROVE  FinalizeCloses'
    OBVIOUS
  <2> USE DEF FinalizeCloses
  <2>1. CASE UNCHANGED <<lifecycle, timeline, outcome>>
    BY <2>1
  <2>2. ASSUME NEW e \in Entry, Extends(e)
        PROVE  FinalizeCloses'
    <3>1. /\ Len(timeline) \in Nat
          /\ Len(timeline') = Len(timeline) + 1
          /\ \A i \in 1..Len(timeline) : timeline'[i] = timeline[i]
          /\ timeline'[Len(timeline) + 1] = e
      BY <2>2, ExtendsTimeline
    <3>2. /\ lifecycle = "finalized" => e.ev = "annotation"
          /\ lifecycle' = "finalized" <=> (lifecycle = "finalized" \/ e.ev = "finalize")
      BY <2>2 DEF Extends
    <3>3. ASSUME NEW i \in 1..Len(timeline'), NEW j \in 1..Len(timeline'),
                 i < j, timeline'[i].ev = "finalize"
          PROVE  timeline'[j].ev = "annotation"
      BY <3>1, <3>2, <3>3
    <3>4. lifecycle' = "finalized" <=> \E i \in 1..Len(timeline') : timeline'[i].ev = "finalize"
      BY <3>1, <3>2
    <3>5. QED
      BY <3>3, <3>4
  <2>3. QED
    BY <2>1, <2>2, StepExtends
<1>3. QED
  BY <1>1, <1>2, TypeCorrect, PTL DEF Spec

\* With record_event("finalize") in play too, finalize is recorded at most once
\* as long as the timeline is no longer than the window validate_append looks at.
THEOREM FinalizeOnceInWindow ==
    ASSUME MaxTimeline <= TailLimit
    PROVE  Spec => []FinalizeOnce
<1> DEFINE IInv == FinalizeOnce /\ Len(timeline) <= MaxTimeline
<1>1. Init => IInv
  BY DEF Init, FinalizeOnce
<1>2. TypeOK /\ IInv /\ [Next]_vars => IInv'
  <2> SUFFICES ASSUME TypeOK, IInv, [Next]_vars
               PROVE  IInv'
    OBVIOUS
  <2>1. CASE UNCHANGED <<lifecycle, timeline, outcome>>
    BY <2>1 DEF FinalizeOnce
  <2>2. ASSUME NEW e \in Entry, Extends(e)
        PROVE  IInv'
    <3>1. /\ Len(timeline) \in Nat
          /\ Len(timeline') = Len(timeline) + 1
          /\ \A i \in 1..Len(timeline) : timeline'[i] = timeline[i]
          /\ timeline'[Len(timeline) + 1] = e
      BY <2>2, ExtendsTimeline
    <3>2. e.ev = "finalize" => \A i \in 1..Len(timeline) : timeline[i].ev # "finalize"
      BY <2>2, <3>1 DEF Extends, FinalizeInTail, Closable
    <3>3. Len(timeline') <= MaxTimeline
      BY <2>2, <3>1 DEF Extends, Room
    <3>4. FinalizeOnce'
      BY <3>1, <3>2 DEF FinalizeOnce
    <3>5. QED
      BY <3>3, <3>4
  <2>3. QED
    BY <2>1, <2>2, StepExtends
<1>3. QED
  BY <1>1, <1>2, TypeCorrect, PTL DEF Spec

-----------------------------------------------------------------------------
(***************************************************************************)
(* The session outcome                                                     *)
(***************************************************************************)

\* session_outcome is the worst status of everything recorded: a rejection
\* stays visible whatever any thread records after it.
THEOREM OutcomeIsWorstHolds == Spec => []OutcomeIsWorst
<1>1. Init => OutcomeIsWorst
  BY DEF Init, OutcomeIsWorst
<1>2. TypeOK /\ OutcomeIsWorst /\ [Next]_vars => OutcomeIsWorst'
  <2> SUFFICES ASSUME TypeOK, OutcomeIsWorst, [Next]_vars
               PROVE  OutcomeIsWorst'
    OBVIOUS
  <2>1. CASE UNCHANGED <<lifecycle, timeline, outcome>>
    BY <2>1 DEF OutcomeIsWorst
  <2>2. ASSUME NEW e \in Entry, Extends(e)
        PROVE  OutcomeIsWorst'
    <3>1. /\ Len(timeline) \in Nat
          /\ Len(timeline') = Len(timeline) + 1
          /\ \A i \in 1..Len(timeline) : timeline'[i] = timeline[i] /\ timeline[i] \in Entry
          /\ timeline'[Len(timeline) + 1] = e
      BY <2>2, ExtendsTimeline
    <3>2. outcome' = Aggregate(outcome, e.st) /\ outcome \in Statuses /\ e.st \in Statuses
      BY <2>2 DEF Extends, AppendEntry, TypeOK, Entry
    <3>3. /\ Rank[outcome] <= Rank[outcome']
          /\ Rank[e.st] <= Rank[outcome']
          /\ outcome' \in {outcome, e.st}
      BY <3>2 DEF Aggregate, Rank, Statuses
    <3>4. \A s \in Statuses : Rank[s] \in Nat
      BY DEF Rank, Statuses
    <3>5. outcome' \in Statuses /\ \A i \in 1..Len(timeline) : timeline[i].st \in Statuses
      BY <3>1, <3>2, <3>3 DEF Entry
    <3>6. \A i \in 1..Len(timeline') : Rank[timeline'[i].st] <= Rank[outcome']
      <4>1. ASSUME NEW i \in 1..Len(timeline)
            PROVE  Rank[timeline[i].st] <= Rank[outcome']
        <5>1. Rank[timeline[i].st] <= Rank[outcome]
          BY <4>1 DEF OutcomeIsWorst
        <5>2. /\ Rank[timeline[i].st] \in Nat
              /\ Rank[outcome] \in Nat
              /\ Rank[outcome'] \in Nat
          BY <3>2, <3>4, <3>5, <4>1
        <5>3. QED
          BY <3>3, <5>1, <5>2
      <4>2. QED
        BY <3>1, <3>3, <4>1
    <3>7. outcome' # "info" => \E i \in 1..Len(timeline') : timeline'[i].st = outcome'
      BY <3>1, <3>3 DEF OutcomeIsWorst
    <3>8. QED
      BY <3>6, <3>7 DEF OutcomeIsWorst
  <2>3. QED
    BY <2>1, <2>2, StepExtends
<1>3. QED
  BY <1>1, <1>2, TypeCorrect, PTL DEF Spec

-----------------------------------------------------------------------------
(***************************************************************************)
(* What is kept beside the timeline                                        *)
(***************************************************************************)

\* e is a plan event that bound a plan
Binds(e) == e.ev = "plan" /\ e.tag # None

\* What a step may do to the state beside the timeline: it follows the entry that is
\* appended, if there is one; a plan may be stored whose event is refused.
Follows(e) ==
    /\ AppendEntry(e)
    /\ decisionState' = IF e.ev = "decision" /\ Strict THEN e.tag ELSE decisionState
    /\ executionPlan' = IF Binds(e) THEN e.tag ELSE executionPlan

PlanRefused ==
    /\ UNCHANGED <<timeline, decisionState>>
    /\ lifecycle # "finalized"
    /\ ~ValidateAppend(lifecycle, timeline, "plan", Strict)

\* Every step appends an entry and keeps the state in line with it, changes none of
\* them, or is a refused plan.
LEMMA StepFollows ==
    ASSUME TypeOK, [Next]_vars
    PROVE  \/ UNCHANGED <<timeline, decisionState, executionPlan>>
           \/ PlanRefused
           \/ \E e \in Entry : Follows(e)
<1> USE DEF Entry, Tags, Kinds, EventTypes, Verdicts, Statuses, Binds
<1>1. ASSUME NEW t \in Writers, NEW c \in Corrs, LinkTrace(t, c)
      PROVE  UNCHANGED <<timeline, decisionState, executionPlan>>
  BY <1>1 DEF LinkTrace, log
<1>2. ASSUME NEW t \in Writers, NEW st \in TraceOutcomes, NEW fp \in Fps, RecordTrace(t, st, fp)
      PROVE  \E e \in Entry : Follows(e)
  <2> DEFINE e == [ev |-> "trace", st |-> st, tag |-> fp]
  <2>1. e \in Entry /\ Follows(e)
    BY <1>2 DEF RecordTrace, Follows
  <2> QED
    BY <2>1
<1>3. ASSUME NEW t \in Writers, NEW p \in Plans, BindExecutionPlan(t, p)
      PROVE  PlanRefused \/ \E e \in Entry : Follows(e)
  <2> DEFINE e == [ev |-> "plan", st |-> "info", tag |-> p]
  <2>1. e \in Entry /\ (RecordEvent(e) => Follows(e))
    BY <1>3 DEF BindExecutionPlan, RecordEvent, Follows
  <2> QED
    BY <1>3, <2>1 DEF BindExecutionPlan, PlanRefused
<1>4. ASSUME NEW t \in Writers, RecordPlan(t) \/ RecordDraft(t)
      PROVE  \E e \in Entry : Follows(e)
  <2>1. PICK ev \in {"plan", "draft"} :
            /\ RecordEvent([ev |-> ev, st |-> "info", tag |-> None])
            /\ executionPlan' = executionPlan
    BY <1>4 DEF RecordPlan, RecordDraft
  <2> DEFINE e == [ev |-> ev, st |-> "info", tag |-> None]
  <2>2. e \in Entry /\ Follows(e)
    BY <2>1 DEF RecordEvent, Follows
  <2> QED
    BY <2>2
<1>5. ASSUME NEW t \in Writers,
             \/ \E ok \in BOOLEAN : \/ RecordToolCall(t, ok)
                                    \/ RecordFinalizeEvent(t, ok)
                                    \/ Finalize(t, ok)
             \/ \E st \in {"info", "ok", "rejected"} : Annotate(t, st)
      PROVE  \E e \in Entry : Follows(e)
  <2>1. PICK ev \in {"tool_call", "finalize", "annotation"}, st \in {"info", "ok", "rejected"} :
            /\ RecordEvent([ev |-> ev, st |-> st, tag |-> None])
            /\ executionPlan' = executionPlan
    BY <1>5 DEF RecordToolCall, RecordFinalizeEvent, Finalize, Annotate
  <2> DEFINE e == [ev |-> ev, st |-> st, tag |-> None]
  <2>2. e \in Entry /\ Follows(e)
    BY <2>1 DEF RecordEvent, Follows
  <2> QED
    BY <2>2
<1>6. ASSUME NEW t \in Writers, NEW v \in Verdicts, BeginDecision(t, v)
      PROVE  UNCHANGED <<timeline, decisionState, executionPlan>>
  BY <1>6 DEF BeginDecision, log
<1>7. ASSUME NEW t \in Writers, RecordDecision(t)
      PROVE  \/ UNCHANGED <<timeline, decisionState, executionPlan>>
             \/ \E e \in Entry : Follows(e)
  <2> DEFINE e == [ev |-> "decision", st |-> DecisionStatus(pending[t]), tag |-> pending[t]]
  <2>1. pending[t] \in Verdicts \cup {None} /\ DecisionStatus(pending[t]) \in Statuses
    BY DEF Threads, DecisionStatus, TypeOK
  <2>2. e \in Entry
    BY <2>1
  <2>3. RecordEvent(e) => Follows(e)
    BY <1>7 DEF RecordEvent, Follows, RecordDecision
  <2> QED
    BY <1>7, <2>2, <2>3 DEF RecordDecision
<1>8. ASSUME NEW t \in Readers, BuildBundle(t)
      PROVE  UNCHANGED <<timeline, decisionState, executionPlan>>
  BY <1>8 DEF BuildBundle, ScanDrift, CopyTimeline, CopyState, ReadMetadata,
              ReadSize, ReadDecisions, Return, ReadStep, log
<1>9. CASE UNCHANGED vars
  BY <1>9 DEF vars
<1> QED
  BY <1>1, <1>2, <1>3, <1>4, <1>5, <1>6, <1>7, <1>8, <1>9 DEF Next

\* there is a last decision if there is one
HasLastDecision ==
    LET D == DecisionLog(timeline)
    IN  D # {} => \E i \in D : \A j \in D : j <= i

\* The decision state is the verdict of the last decision, whatever threads recorded them.
LEMMA DecisionFollows ==
    ASSUME TypeOK, DecisionIsLast, HasLastDecision, NEW e \in Entry, Follows(e)
    PROVE  DecisionIsLast' /\ HasLastDecision'
<1> DEFINE n == Len(timeline)
           D == DecisionLog(timeline)
           E == DecisionLog(timeline')
           Last(S) == CHOOSE i \in S : \A j \in S : j <= i
<1>1. /\ n \in Nat /\ Len(timeline') = n + 1 /\ timeline'[n + 1] = e
      /\ \A i \in 1..n : timeline'[i] = timeline[i]
  BY DEF Follows, AppendEntry, TypeOK
<1>2. CASE e.ev = "decision"
  <2>1. n + 1 \in E /\ \A i \in E : i \in Int /\ i <= n + 1
    BY <1>1, <1>2 DEF DecisionLog
  <2>2. Last(E) = n + 1
    <3> HIDE DEF E, n
    <3>1. \A i \in E : (\A j \in E : j <= i) => i = n + 1
      BY <1>1, <2>1
    <3> QED
      BY <2>1, <3>1
  <2>3. timeline'[Last(E)].tag = e.tag /\ E # {}
    BY <1>1, <2>1, <2>2
  <2> HIDE DEF E, n
  <2> QED
    BY <1>2, <2>1, <2>3 DEF DecisionIsLast, HasLastDecision, Follows, E
<1>3. CASE e.ev # "decision"
  <2>1. E = D
    BY <1>1, <1>3 DEF DecisionLog
  <2>2. decisionState' = decisionState
    BY <1>3 DEF Follows
  <2>3. CASE D = {}
    BY <2>1, <2>2, <2>3 DEF DecisionIsLast, HasLastDecision
  <2>4. CASE D # {}
    <3>1. DecisionIsLast <=> decisionState = IF Strict THEN timeline[Last(D)].tag ELSE None
      BY <2>4 DEF DecisionIsLast
    <3>2. DecisionIsLast' <=> decisionState' = IF Strict THEN timeline'[Last(D)].tag ELSE None
      BY <2>1, <2>4 DEF DecisionIsLast
    <3>3. Last(D) \in D
      BY <2>4 DEF HasLastDecision
    <3>4. timeline'[Last(D)] = timeline[Last(D)]
      BY <1>1, <3>3 DEF DecisionLog
    <3> QED
      BY <2>1, <2>2, <3>1, <3>2, <3>4 DEF HasLastDecision
  <2> QED
    BY <2>3, <2>4
<1> QED
  BY <1>2, <1>3


\* The plan that is stored is that of the last plan event, as long as none is refused.
LEMMA PlanFollows ==
    ASSUME TypeOK, PlanIsLast, NEW e \in Entry, Follows(e)
    PROVE  PlanIsLast'
<1> DEFINE n == Len(timeline)
<1>1. /\ n \in Nat /\ Len(timeline') = n + 1 /\ timeline'[n + 1] = e
      /\ \A i \in 1..n : timeline'[i] = timeline[i]
  BY DEF Follows, AppendEntry, TypeOK
<1> HIDE DEF n
<1>2. CASE Binds(e)
  <2>1. /\ n + 1 \in 1..Len(timeline') /\ timeline'[n + 1].ev = "plan"
        /\ timeline'[n + 1].tag = executionPlan'
        /\ \A j \in (n + 2)..Len(timeline') : FALSE
    BY <1>1, <1>2 DEF Binds, Follows
  <2> QED
    BY <1>1, <2>1 DEF PlanIsLast
<1>3. CASE ~Binds(e)
  <2> SUFFICES ASSUME executionPlan' # None
               PROVE  \E i \in 1..Len(timeline') :
                         /\ timeline'[i].ev = "plan"
                         /\ timeline'[i].tag = executionPlan'
                         /\ \A j \in (i + 1)..Len(timeline') :
                               timeline'[j].ev = "plan" => timeline'[j].tag = None
    BY DEF PlanIsLast
  <2>1. executionPlan' = executionPlan
    BY <1>3 DEF Follows
  <2>2. PICK i \in 1..n : /\ timeline[i].ev = "plan"
                          /\ timeline[i].tag = executionPlan
                          /\ \A j \in (i + 1)..n :
                                timeline[j].ev = "plan" => timeline[j].tag = None
    BY <2>1 DEF PlanIsLast, n
  <2>3. ASSUME NEW j \in (i + 1)..Len(timeline'), timeline'[j].ev = "plan"
        PROVE  timeline'[j].tag = None
    <3>1. CASE j = n + 1
      BY <1>1, <1>3, <2>3, <3>1 DEF Binds
    <3>2. CASE j # n + 1
      <4>1. j \in (i + 1)..n /\ j \in 1..n
        BY <1>1, <3>2
      <4> QED
        BY <1>1, <2>2, <2>3, <4>1
    <3> QED
      BY <3>1, <3>2
  <2> QED
    BY <1>1, <2>1, <2>2, <2>3
<1> QED
  BY <1>2, <1>3

HasFinalize == \E i \in 1..Len(timeline) : timeline[i].ev = "finalize"

\* What validate_append sees of a finalize event: the lifecycle, or all of the timeline
FinalizeSeen ==
    /\ Len(timeline) <= MaxTimeline
    /\ "record_finalize" \notin Ops => FinalizeCloses

LEMMA FinalizeSeenHolds == Spec => []FinalizeSeen
<1>1. Init => Len(timeline) <= MaxTimeline
  BY DEF Init
<1>2. TypeOK /\ Len(timeline) <= MaxTimeline /\ [Next]_vars => (Len(timeline) <= MaxTimeline)'
  <2> SUFFICES ASSUME TypeOK, Len(timeline) <= MaxTimeline, [Next]_vars
               PROVE  Len(timeline') <= MaxTimeline
    OBVIOUS
  <2>1. \A e \in Entry : Extends(e) => Len(timeline') <= MaxTimeline
    BY ExtendsTimeline DEF Extends, Room
  <2> QED
    BY <2>1, StepExtends
<1>3. CASE "record_finalize" \notin Ops
  <2>1. Len(timeline) <= MaxTimeline /\ FinalizeCloses => FinalizeSeen
    BY DEF FinalizeSeen
  <2> QED
    BY <1>1, <1>2, <1>3, <2>1, TypeCorrect, FinalizeIsFinal, PTL DEF Spec
<1>4. CASE "record_finalize" \in Ops
  <2>1. Len(timeline) <= MaxTimeline => FinalizeSeen
    BY <1>4 DEF FinalizeSeen
  <2> QED
    BY <1>1, <1>2, <2>1, TypeCorrect, PTL DEF Spec
<1> QED
  BY <1>3, <1>4

\* What the session keeps beside its timeline is what the timeline says, for sessions that
\* are closed with finalize(), or whose timeline fits in the window validate_append looks
\* at: a plan that is stored and refused comes after a finalize event only, and nothing
\* finalizes the session after that.
THEOREM StateIsLastHolds ==
    ASSUME "record_finalize" \notin Ops \/ MaxTimeline <= TailLimit
    PROVE  Spec => []StateIsLast
<1> DEFINE IInv == StateIsLast /\ HasLastDecision
           Open == lifecycle = "finalized" \/ ~HasFinalize
<1>1. Init => IInv
  BY DEF Init, StateIsLast, DecisionIsLast, HasLastDecision, PlanIsLast, DecisionLog
<1>2. TypeOK /\ FinalizeSeen /\ IInv /\ [Next]_vars => IInv'
  <2> SUFFICES ASSUME TypeOK, FinalizeSeen, IInv, [Next]_vars PROVE IInv'
    OBVIOUS
  <2>1. DecisionIsLast /\ HasLastDecision /\ (Open => PlanIsLast)
    BY DEF StateIsLast, HasFinalize
  <2>2. SUFFICES /\ DecisionIsLast' /\ HasLastDecision'
                 /\ Open' => PlanIsLast'
    BY DEF StateIsLast, HasFinalize
  <2>3. Len(timeline) \in Nat /\ MaxTimeline \in Nat /\ TailLimit \in Nat
    BY DEF TypeOK
  <2>4. HasFinalize => lifecycle = "finalized" \/ FinalizeInTail(timeline)
    BY <2>3 DEF HasFinalize, FinalizeSeen, FinalizeCloses, FinalizeInTail
  <2>5. CASE UNCHANGED timeline
    <3>1. UNCHANGED lifecycle
      BY <2>3, <2>5, ExtendsTimeline, StepExtends
    <3>2. CASE UNCHANGED <<decisionState, executionPlan>>
      BY <2>1, <2>5, <3>1, <3>2 DEF DecisionIsLast, HasLastDecision, PlanIsLast, HasFinalize
    <3>3. CASE PlanRefused
      <4>1. FinalizeInTail(timeline) /\ lifecycle # "finalized"
        BY <3>3 DEF PlanRefused, ValidateAppend, Prereqs
      <4>2. ~Open'
        BY <2>5, <3>1, <4>1 DEF HasFinalize, FinalizeInTail
      <4> QED
        BY <2>1, <2>5, <3>3, <4>2 DEF DecisionIsLast, HasLastDecision, PlanRefused
    <3>4. ~\E e \in Entry : Follows(e)
      BY <2>3, <2>5 DEF Follows, AppendEntry, TypeOK
    <3> QED
      BY <3>2, <3>3, <3>4, StepFollows
  <2>6. ASSUME NEW e \in Entry, Follows(e)
        PROVE  DecisionIsLast' /\ HasLastDecision' /\ (Open' => PlanIsLast')
    <3>1. DecisionIsLast' /\ HasLastDecision'
      BY <2>1, <2>6, DecisionFollows
    <3>2. PICK d \in Entry : Extends(d)
      BY <2>3, <2>6, StepExtends DEF Follows, AppendEntry, TypeOK
    <3>3. /\ Len(timeline') = Len(timeline) + 1 /\ timeline'[Len(timeline) + 1] = d
          /\ \A i \in 1..Len(timeline) : timeline'[i] = timeline[i]
      BY <3>2, ExtendsTimeline
    <3>4. Open' => Open
      <4> SUFFICES ASSUME Open', HasFinalize, lifecycle # "finalized" PROVE FALSE
        BY DEF HasFinalize
      <4>1. HasFinalize'
        BY <2>3, <3>3 DEF HasFinalize
      <4>2. lifecycle' = "finalized" /\ d.ev = "finalize" /\ ~FinalizeInTail(timeline)
        BY <3>2, <4>1 DEF Extends, Closable
      <4> QED
        BY <2>4, <4>2
    <3>5. PlanIsLast => PlanIsLast'
      BY <2>6, PlanFollows
    <3> QED
      BY <2>1, <3>1, <3>4, <3>5
  <2>7. ~UNCHANGED timeline => \E e \in Entry : Follows(e)
    BY StepFollows DEF PlanRefused
  <2> QED
    BY <2>5, <2>6, <2>7
<1> QED
  BY <1>1, <1>2, TypeCorrect, FinalizeSeenHolds, PTL DEF Spec

-----------------------------------------------------------------------------
(***************************************************************************)
(* Replay bundles                                                          *)
(***************************************************************************)

\* every event comes after those its kind presupposes
Ordered(tl) ==
    \A i \in 1..Len(tl) : \A p \in Prereqs[tl[i].ev] : \E j \in 1..(i - 1) : tl[j].ev = p

\* nothing but traces and annotations comes after a finalize event
Closed(tl) ==
    \A i, j \in 1..Len(tl) :
        i < j /\ tl[i].ev = "finalize" => tl[j].ev \in {"annotation", "trace"}

\* every trace tells the configuration of a client
Fingerprinted(tl) == \A i \in Traces(tl) : tl[i].tag \in Fps

\* what verify_replay_bundle asks of the events of a timeline
Replayable == (Strict => Ordered(timeline)) /\ Closed(timeline) /\ Fingerprinted(timeline)

LEMMA ReplayableHolds ==
    ASSUME "record_finalize" \notin Ops \/ MaxTimeline <= TailLimit
    PROVE  Spec => []Replayable
<1>1. Init => Replayable
  BY DEF Init, Replayable, Ordered, Closed, Fingerprinted, Traces
<1>2. TypeOK /\ FinalizeSeen /\ Replayable /\ [Next]_vars => Replayable'
  <2> SUFFICES ASSUME TypeOK, FinalizeSeen, Replayable, [Next]_vars PROVE Replayable'
    OBVIOUS
  <2>1. CASE UNCHANGED timeline
    BY <2>1 DEF Replayable
  <2>2. ASSUME NEW e \in Entry, Extends(e)
        PROVE  Replayable'
    <3> DEFINE n == Len(timeline)
    <3>1. /\ n \in Nat /\ Len(timeline') = n + 1 /\ timeline'[n + 1] = e
          /\ \A i \in 1..n : timeline'[i] = timeline[i]
      BY <2>2, ExtendsTimeline
    <3>2. e.ev \in Closable => \A i \in 1..n : timeline[i].ev # "finalize"
      <4> SUFFICES ASSUME e.ev \in Closable, NEW i \in 1..n, timeline[i].ev = "finalize"
                   PROVE  FALSE
        OBVIOUS
      <4>1. e.ev # "annotation" /\ lifecycle # "finalized" /\ ~FinalizeInTail(timeline)
        BY <2>2 DEF Extends, Closable
      <4>2. "record_finalize" \in Ops
        BY <4>1 DEF FinalizeSeen, FinalizeCloses
      <4>3. n <= TailLimit /\ n \in Nat /\ TailLimit \in Nat
        BY <3>1, <4>2 DEF FinalizeSeen
      <4> QED
        BY <4>1, <4>3 DEF FinalizeInTail
    <3>3. e.ev \in Closable \cup {"annotation", "trace"}
      BY DEF Entry, Kinds, EventTypes, Closable
    <3>4. Strict => \A p \in Prereqs[e.ev] : \E j \in 1..n : timeline[j].ev = p
      BY <2>2, PrereqsSeen
    <3>5. e.ev = "trace" => e.tag \in Fps
      BY <2>2 DEF Extends
    <3> HIDE DEF n
    <3>6. \A i \in 1..(n + 1) : i = n + 1 \/ i \in 1..n
      BY <3>1
    <3>7. Strict => Ordered(timeline')
      <4> SUFFICES ASSUME Strict, NEW i \in 1..(n + 1), NEW p \in Prereqs[timeline'[i].ev]
                   PROVE  \E j \in 1..(i - 1) : timeline'[j].ev = p
        BY <3>1 DEF Ordered
      <4>1. CASE i = n + 1
        BY <3>1, <3>4, <4>1
      <4>2. CASE i \in 1..n
        <5>1. PICK j \in 1..(i - 1) : timeline[j].ev = p
          BY <3>1, <4>2 DEF Replayable, Ordered, n
        <5>2. j \in 1..n
          BY <3>1, <4>2
        <5> QED
          BY <3>1, <5>1, <5>2
      <4> QED
        BY <3>6, <4>1, <4>2
    <3>8. Closed(timeline')
      <4> SUFFICES ASSUME NEW i \in 1..(n + 1), NEW j \in 1..(n + 1), i < j,
                          timeline'[i].ev = "finalize"
                   PROVE  timeline'[j].ev \in {"annotation", "trace"}
        BY <3>1 DEF Closed
      <4>1. i \in 1..n /\ timeline[i].ev = "finalize"
        BY <3>1
      <4>2. CASE j = n + 1
        BY <3>1, <3>2, <3>3, <4>1, <4>2
      <4>3. CASE j \in 1..n
        BY <3>1, <4>1, <4>3 DEF Replayable, Closed, n
      <4> QED
        BY <3>6, <4>2, <4>3
    <3>9. Fingerprinted(timeline')
      <4> SUFFICES ASSUME NEW i \in 1..(n + 1), timeline'[i].ev = "trace"
                   PROVE  timeline'[i].tag \in Fps
        BY <3>1 DEF Fingerprinted, Traces
      <4>1. CASE i = n + 1
        BY <3>1, <3>5, <4>1
      <4>2. CASE i \in 1..n
        BY <3>1, <4>2 DEF Replayable, Fingerprinted, Traces, n
      <4> QED
        BY <3>6, <4>1, <4>2
    <3> QED
      BY <3>7, <3>8, <3>9 DEF Replayable
  <2> QED
    BY <2>1, <2>2, StepExtends
<1> QED
  BY <1>1, <1>2, TypeCorrect, FinalizeSeenHolds, PTL DEF Spec

\* The session events of such a timeline, its traces passed over, are what a session could
\* have recorded: each presupposed event is still there and still before.
LEMMA EventsReplay ==
    ASSUME NEW tl \in Seq(Entry), Strict => Ordered(tl), Closed(tl)
    PROVE  LET ev == SessionEvents(tl)
           IN  /\ Strict => \A i \in 1..Len(ev) :
                        ValidateAppend("running", SubSeq(ev, 1, i - 1), ev[i].ev, TRUE)
               /\ \A i, j \in 1..Len(ev) :
                     i < j /\ ev[i].ev = "finalize" => ev[j].ev = "annotation"
<1> DEFINE ev == SessionEvents(tl)
           K == {i \in 1..Len(tl) : tl[i].ev # "trace"}
<1>1. ev \in Seq(Entry) /\ Placed(ev, Len(tl), tl, K)
  BY KeptIs DEF SessionEvents
<1>2. PICK place \in [1..Len(ev) -> 1..Len(tl)] :
        /\ \A i \in 1..Len(ev) : place[i] \in K /\ ev[i] = tl[place[i]]
        /\ \A i, j \in 1..Len(ev) : i < j => place[i] < place[j]
        /\ \A n \in 1..Len(tl) : n \in K => \E i \in 1..Len(ev) : place[i] = n
  BY <1>1 DEF Placed
<1>3. Len(ev) \in Nat /\ Len(tl) \in Nat /\ \A i \in 1..Len(ev) : ev[i] \in Entry
  BY <1>1
<1> HIDE DEF ev
<1>4. \A i \in 1..Len(ev) : place[i] \in 1..Len(tl) /\ ev[i].ev # "trace"
  BY <1>2
<1>5. \A i, j \in 1..Len(ev) : i < j /\ ev[i].ev = "finalize" => ev[j].ev = "annotation"
  BY <1>2, <1>4 DEF Closed
<1>6. ASSUME Strict, NEW i \in 1..Len(ev)
      PROVE  ValidateAppend("running", SubSeq(ev, 1, i - 1), ev[i].ev, TRUE)
  <2> DEFINE before == SubSeq(ev, 1, i - 1)
  <2>1. Len(before) = i - 1 /\ \A j \in 1..(i - 1) : before[j] = ev[j] /\ j \in 1..Len(ev)
    BY <1>1, <1>3
  <2> HIDE DEF before
  <2>2. ASSUME NEW p \in Prereqs[ev[i].ev] PROVE p \in EventsSeen(before)
    <3>1. PICK n \in 1..(place[i] - 1) : tl[n].ev = p
      BY <1>2, <1>4, <1>6, <2>2 DEF Ordered
    <3>2. p # "trace"
      BY <1>3, <2>2 DEF Prereqs, Entry, Kinds, EventTypes
    <3>3. n \in 1..Len(tl) /\ n < place[i]
      BY <1>3, <1>4
    <3>4. PICK j \in 1..Len(ev) : place[j] = n
      BY <1>2, <3>1, <3>2, <3>3
    <3>5. j < i
      <4>1. j # i /\ ~(i < j)
        BY <1>2, <1>4, <3>3, <3>4
      <4> QED
        BY <1>3, <4>1
    <3>6. j \in 1..Len(before) /\ before[j].ev = p
      BY <1>2, <1>3, <2>1, <3>1, <3>4, <3>5
    <3> QED
      BY <3>2, <3>6 DEF EventsSeen
  <2>3. ev[i].ev \in Closable => ~FinalizeInTail(before)
    <3>1. \A j \in 1..(i - 1) : ev[j].ev = "finalize" => ev[i].ev = "annotation"
      BY <1>3, <1>5, <2>1
    <3> QED
      BY <2>1, <3>1 DEF FinalizeInTail, Closable
  <2> QED
    BY <2>2, <2>3 DEF ValidateAppend, Closable, before
<1> QED
  BY <1>5, <1>6 DEF ev

\* The header of a bundle is the fingerprint of all traces, if they agree.
LEMMA HeaderIsCommon ==
    ASSUME NEW tl \in Seq(Entry), Fingerprinted(tl), Cardinality(Fingerprints(tl)) <= 1
    PROVE  Fingerprints(tl) = {LastFingerprint(tl)} \ {None}
<1> DEFINE T == Traces(tl)
           F == Fingerprints(tl)
           last == {i \in T : \A j \in T : j <= i}
           i == CHOOSE k \in last : TRUE
<1>1. Len(tl) \in Nat /\ T \subseteq 1..Len(tl)
  BY DEF Traces
<1>2. F = {tl[k].tag : k \in T} /\ None \notin F
  BY DEF Fingerprints, Fingerprinted
<1>3. LastFingerprint(tl) = IF last = {} THEN None ELSE tl[i].tag
  BY DEF LastFingerprint
<1>t. F = Fingerprints(tl) /\ Cardinality(F) <= 1
  OBVIOUS
<1>l. last \subseteq T /\ (last # {} => i \in last)
  OBVIOUS
<1> HIDE DEF T, F, i
<1>4. CASE T = {}
  <2>1. last = {} /\ F = {}
    BY <1>2, <1>l, <1>4
  <2> HIDE DEF last
  <2> QED
    BY <1>3, <1>t, <2>1
<1>5. CASE T # {}
  <2>1. last # {}
    <3> DEFINE U == {Len(tl) - k : k \in T}
    <3>1. U \subseteq Nat /\ U # {}
      <4>1. \A k \in T : k \in 1..Len(tl) /\ Len(tl) - k \in Nat
        BY <1>1
      <4> QED
        BY <1>5, <4>1
    <3> HIDE DEF U
    <3>2. PICK m \in U : \A n \in U : m <= n
      BY <3>1, LeastExists
    <3>3. PICK k \in T : m = Len(tl) - k
      BY <3>2 DEF U
    <3>4. ASSUME NEW j \in T PROVE j <= k
      <4>1. Len(tl) - j \in U /\ j \in Int /\ k \in Int
        BY <1>1 DEF U
      <4> QED
        BY <1>1, <3>2, <3>3, <4>1
    <3> QED
      BY <3>4
  <2>2. i \in T
    BY <1>l, <2>1
  <2>3. tl[i].tag \in F
    BY <1>2, <2>2
  <2>4. IsFiniteSet(F)
    <3>1. IsFiniteSet(1..Len(tl))
      BY <1>1, FS_Interval
    <3>2. IsFiniteSet(T)
      BY <1>1, <3>1, FS_Subset
    <3> DEFINE tags == [k \in T |-> tl[k].tag]
    <3>3. tags \in Surjection(T, F)
      BY <1>2 DEF Surjection
    <3> QED
      BY <3>2, <3>3, FS_Surjection
  <2>5. \A a, b \in F : a = b
    <3> SUFFICES ASSUME NEW a \in F, NEW b \in F, a # b PROVE FALSE
      OBVIOUS
    <3> DEFINE ab == {a} \cup {b}
    <3>1. Cardinality(ab) = 2
      <4>1. b \notin {a} /\ IsFiniteSet({a}) /\ Cardinality({a}) = 1
        BY FS_Singleton
      <4>2. Cardinality(ab) = Cardinality({a}) + 1
        BY <4>1, FS_AddElement
      <4> HIDE DEF ab
      <4> QED
        BY <4>1, <4>2
    <3>2. ab \in SUBSET F
      OBVIOUS
    <3> HIDE DEF ab
    <3>3. Cardinality(ab) <= Cardinality(F)
      BY <2>4, <3>2, FS_Subset
    <3>4. Cardinality(F) \in Nat /\ Cardinality(F) <= 1
      BY <1>t, <2>4, FS_CardinalityType
    <3> QED
      BY <3>1, <3>3, <3>4
  <2> HIDE DEF last
  <2> QED
    BY <1>2, <1>3, <1>t, <2>1, <2>3, <2>5
<1> QED
  BY <1>4, <1>5

\* What a bundle holds at each stage of its making, where nobody else uses the session
Bundled ==
    \A t \in Readers :
        /\ pc[t] \in {"scanned", "copied", "payload", "metadata", "sized", "built"}
              => Cardinality(Fingerprints(timeline)) <= 1
        /\ pc[t] \in {"copied", "payload", "metadata", "sized", "built"}
              => bundle[t].timeline = timeline
        /\ pc[t] \in {"payload", "metadata", "sized", "built"} => bundle[t].outcome = outcome
        /\ pc[t] \in {"metadata", "sized", "built"} => bundle[t].fp = LastFingerprint(timeline)
        /\ pc[t] \in {"sized", "built"} => bundle[t].size = Len(timeline)
        /\ pc[t] = "built" => bundle[t].decisions = Cardinality(DecisionLog(timeline))

\* A bundle is made while no method of its thread runs, and the other way round.
LEMMA WriterIsNoReader ==
    ASSUME TypeOK, [Next]_vars,
           ~\E t \in Readers : BuildBundle(t), ~UNCHANGED vars
    PROVE  \E t \in Writers : pc'[t] \in {"idle", "deciding"}
<1>1. PICK t \in Writers :
        \/ \E c \in Corrs : LinkTrace(t, c)
        \/ \E st \in TraceOutcomes, fp \in Fps : RecordTrace(t, st, fp)
        \/ \E p \in Plans : BindExecutionPlan(t, p)
        \/ RecordPlan(t)
        \/ RecordDraft(t)
        \/ \E ok \in BOOLEAN : RecordToolCall(t, ok)
        \/ \E st \in {"info", "ok", "rejected"} : Annotate(t, st)
        \/ \E v \in Verdicts : BeginDecision(t, v)
        \/ RecordDecision(t)
        \/ \E ok \in BOOLEAN : RecordFinalizeEvent(t, ok)
        \/ \E ok \in BOOLEAN : Finalize(t, ok)
  BY DEF Next
<1>2. t \in Threads /\ pc \in [Threads -> {"idle", "deciding", "scanned", "copied", "payload",
                                          "metadata", "sized", "built"}]
  BY DEF TypeOK, Threads
<1>3. CASE (\E v \in Verdicts : BeginDecision(t, v)) \/ RecordDecision(t)
  BY <1>2, <1>3 DEF BeginDecision, RecordDecision
<1>4. CASE ~((\E v \in Verdicts : BeginDecision(t, v)) \/ RecordDecision(t))
  <2>1. pc[t] = "idle" /\ pc' = pc
    BY <1>1, <1>4 DEF Calls, local, LinkTrace, RecordTrace, BindExecutionPlan, RecordPlan,
                      RecordDraft, RecordToolCall, Annotate, RecordFinalizeEvent, Finalize
  <2> QED
    BY <2>1
<1> QED
  BY <1>3, <1>4

LEMMA BundledHolds ==
    ASSUME \A t, u \in Threads : t = u
    PROVE  Spec => []Bundled
<1>1. Init => Bundled
  BY DEF Init, Bundled, Threads
<1>2. TypeOK /\ Bundled /\ [Next]_vars => Bundled'
  <2> SUFFICES ASSUME TypeOK, Bundled, [Next]_vars PROVE Bundled'
    OBVIOUS
  <2>1. CASE UNCHANGED vars
    BY <2>1 DEF vars, Bundled
  <2>2. ASSUME NEW t \in Readers, BuildBundle(t)
        PROVE  Bundled'
    <3>1. /\ t \in Threads /\ pc \in [Threads -> {"idle", "deciding", "scanned", "copied",
                                                  "payload", "metadata", "sized", "built"}]
          /\ bundle \in [Threads -> Bundle]
      BY DEF TypeOK, Threads
    <3>2. \A u \in Readers : u = t
      BY <3>1 DEF Threads
    <3>3. bundle[t] \in Bundle
      BY <3>1
    <3>4. UNCHANGED <<timeline, outcome>>
      BY <2>2 DEF BuildBundle, ScanDrift, CopyTimeline, CopyState, ReadMetadata, ReadSize,
                  ReadDecisions, Return, ReadStep, log
    <3>5. CASE ScanDrift(t)
      BY <3>1, <3>2, <3>4, <3>5 DEF ScanDrift, ReadStep, Bundled
    <3>6. CASE CopyTimeline(t)
      BY <3>1, <3>2, <3>3, <3>4, <3>6 DEF CopyTimeline, ReadStep, Bundled, Bundle
    <3>7. CASE CopyState(t)
      BY <3>1, <3>2, <3>3, <3>4, <3>7 DEF CopyState, ReadStep, Bundled, Bundle
    <3>8. CASE ReadMetadata(t)
      BY <3>1, <3>2, <3>3, <3>4, <3>8 DEF ReadMetadata, ReadStep, Bundled, Bundle
    <3>9. CASE ReadSize(t)
      BY <3>1, <3>2, <3>3, <3>4, <3>9 DEF ReadSize, ReadStep, Bundled, Bundle
    <3>10. CASE ReadDecisions(t)
      BY <3>1, <3>2, <3>3, <3>4, <3>10 DEF ReadDecisions, ReadStep, Bundled, Bundle
    <3>11. CASE Return(t)
      BY <3>1, <3>2, <3>11 DEF Return, ReadStep, Bundled
    <3> QED
      BY <2>2, <3>5, <3>6, <3>7, <3>8, <3>9, <3>10, <3>11 DEF BuildBundle
  <2>3. ASSUME NEW t \in Writers, pc'[t] \in {"idle", "deciding"}
        PROVE  Bundled'
    <3>1. \A u \in Readers : u = t
      BY DEF Threads
    <3> QED
      BY <2>3, <3>1 DEF Bundled
  <2> QED
    BY <2>1, <2>2, <2>3, WriterIsNoReader
<1> QED
  BY <1>1, <1>2, TypeCorrect, PTL DEF Spec

\* A bundle that the only thread of a session makes of it is one that verify_replay_bundle
\* accepts, with the one configuration of its traces and an outcome that hides none of its
\* statuses.  The session is closed with finalize(), or its timeline fits in the window
\* that validate_append looks at.
THEOREM BundleVerifiesHolds ==
    ASSUME \A t, u \in Threads : t = u,
           "record_finalize" \notin Ops \/ MaxTimeline <= TailLimit
    PROVE  Spec => []BundleVerifies
<1>1. TypeOK /\ Bundled /\ Replayable /\ OutcomeIsWorst => BundleVerifies
  <2> SUFFICES ASSUME TypeOK, Bundled, Replayable, OutcomeIsWorst,
                      NEW t \in Readers, pc[t] = "built"
               PROVE  /\ VerifyReplayBundle(bundle[t])
                      /\ Fingerprints(bundle[t].timeline) = {bundle[t].fp} \ {None}
                      /\ \A i \in 1..Len(bundle[t].timeline) :
                            Rank[bundle[t].timeline[i].st] <= Rank[bundle[t].outcome]
    BY DEF BundleVerifies
  <2>1. /\ bundle[t].timeline = timeline
        /\ bundle[t].outcome = outcome
        /\ bundle[t].fp = LastFingerprint(timeline)
        /\ bundle[t].size = Len(timeline)
        /\ bundle[t].decisions = Cardinality(DecisionLog(timeline))
        /\ Cardinality(Fingerprints(timeline)) <= 1
    BY DEF Bundled
  <2>2. /\ timeline \in Seq(Entry)
        /\ Strict => Ordered(timeline)
        /\ Closed(timeline)
        /\ Fingerprinted(timeline)
    BY DEF TypeOK, Replayable
  <2>3. VerifyReplayBundle(bundle[t])
    BY <2>1, <2>2, EventsReplay DEF VerifyReplayBundle
  <2>4. Fingerprints(timeline) = {LastFingerprint(timeline)} \ {None}
    BY <2>1, <2>2, HeaderIsCommon
  <2> QED
    BY <2>1, <2>3, <2>4 DEF OutcomeIsWorst
<1> QED
  BY <1>1, TypeCorrect, BundledHolds, ReplayableHolds, OutcomeIsWorstHolds, PTL
===============================================================================
