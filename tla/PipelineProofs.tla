---------------------------- MODULE PipelineProofs ----------------------------
(***************************************************************************)
(* Theorems about Pipeline, for any requests, clients, sessions, drafts    *)
(* and hooks: what a request does, and from "Verdicts in a timeline" on    *)
(* what it leaves behind, the steps of its trace and the entries of its    *)
(* session.                                                                *)
(***************************************************************************)
EXTENDS Pipeline, FiniteSetTheorems, SequenceTheorems, TLAPS

USE PipelineAssumption

-----------------------------------------------------------------------------
(***************************************************************************)
(* The stages                                                              *)
(***************************************************************************)

\* What follows each stage, as a table.
After ==
    [validate |-> [PRE_VALIDATE |-> "L1L3", L1L3 |-> "POST_VALIDATE", POST_VALIDATE |-> "MARK",
                   MARK |-> "TRACE", TRACE |-> "DECISION", DECISION |-> "RESULT"],
     simulate |-> [PRE_SIMULATION |-> "L4", L4 |-> "L5", L5 |-> "LAYER_L5",
                   LAYER_L5 |-> "POST_SIMULATION", POST_SIMULATION |-> "TRACE",
                   TRACE |-> "DECISION", DECISION |-> "RESULT"],
     full     |-> [PRE_VALIDATE |-> "L1L3", L1L3 |-> "MARK", MARK |-> "PRE_SIMULATION",
                   PRE_SIMULATION |-> "RECHECK", RECHECK |-> "L4", L4 |-> "L5",
                   L5 |-> "LAYER_L5", LAYER_L5 |-> "POLICY", POLICY |-> "POST_SIMULATION",
                   POST_SIMULATION |-> "POST_VALIDATE", POST_VALIDATE |-> "TRACE",
                   TRACE |-> "DECISION", DECISION |-> "RESULT"]]

StagesOf(k) == {Stages[k][i] : i \in 1..Len(Stages[k])}

\* No stage occurs twice in a kind of request, so Position finds the one there is.
LEMMA StagesDiffer ==
    ASSUME NEW k \in {"validate", "simulate", "full"},
           NEW i \in 1..Len(Stages[k]), NEW j \in 1..Len(Stages[k]),
           Stages[k][i] = Stages[k][j]
    PROVE  i = j
<1>1. CASE k = "validate"
  BY <1>1 DEF Stages
<1>2. CASE k = "simulate"
  BY <1>2 DEF Stages
<1>3. CASE k = "full"
  BY <1>3 DEF Stages
<1>4. QED
  BY <1>1, <1>2, <1>3

LEMMA FollowingNext ==
    ASSUME NEW r \in Requests, NEW i \in 1..Len(Stages[Kind[r]]), pc[r] = Stages[Kind[r]][i]
    PROVE  Following(r) = Stages[Kind[r]][i + 1]
  BY StagesDiffer DEF Following, Position

LEMMA AfterNext ==
    ASSUME NEW k \in {"validate", "simulate", "full"},
           NEW i \in 1..Len(Stages[k]), Stages[k][i] # "RESULT"
    PROVE  Stages[k][i + 1] = After[k][Stages[k][i]]
<1>1. CASE k = "validate"
  <2>1. i \in 1..6
    BY <1>1 DEF Stages
  <2>2. QED
    BY <1>1, <2>1 DEF Stages, After
<1>2. CASE k = "simulate"
  <2>1. i \in 1..7
    BY <1>2 DEF Stages
  <2>2. QED
    BY <1>2, <2>1 DEF Stages, After
<1>3. CASE k = "full"
  <2>1. i \in 1..13
    BY <1>3 DEF Stages
  <2>2. QED
    BY <1>3, <2>1 DEF Stages, After
<1>4. QED
  BY <1>1, <1>2, <1>3

LEMMA FollowingIs ==
    ASSUME NEW r \in Requests, pc[r] \in StagesOf(Kind[r]) \ {"RESULT"}
    PROVE  Following(r) = After[Kind[r]][pc[r]]
<1>1. PICK i \in 1..Len(Stages[Kind[r]]) : pc[r] = Stages[Kind[r]][i]
  BY DEF StagesOf
<1>2. QED
  BY <1>1, FollowingNext, AfterNext

\* A request passes through the stages of its kind only.
LEMMA AfterType ==
    ASSUME NEW k \in {"validate", "simulate", "full"}, NEW st \in StagesOf(k) \ {"RESULT"}
    PROVE  After[k][st] \in StagesOf(k) \ {"PRE_VALIDATE"}
<1>1. PICK i \in 1..Len(Stages[k]) : st = Stages[k][i]
  BY DEF StagesOf
<1>2. After[k][st] = Stages[k][i + 1]
  BY <1>1, AfterNext
<1>3. CASE k = "validate"
  BY <1>1, <1>2, <1>3 DEF Stages, StagesOf
<1>4. CASE k = "simulate"
  BY <1>1, <1>2, <1>4 DEF Stages, StagesOf
<1>5. CASE k = "full"
  BY <1>1, <1>2, <1>5 DEF Stages, StagesOf
<1>6. QED
  BY <1>3, <1>4, <1>5


LEMMA StageNamesAre ==
    ASSUME NEW k \in {"validate", "simulate", "full"}
    PROVE  /\ StagesOf(k) \subseteq StageNames
           /\ "idle" \notin StagesOf(k) /\ "done" \notin StagesOf(k)
           /\ FailureStages \cap StagesOf(k) = {}
<1>1. DOMAIN Stages = {"validate", "simulate", "full"}
  BY DEF Stages
<1>2. StagesOf(k) \subseteq StageNames
  BY <1>1 DEF StagesOf, StageNames
<1>3. CASE k = "validate"
  BY <1>2, <1>3 DEF Stages, StagesOf, FailureStages
<1>4. CASE k = "simulate"
  BY <1>2, <1>4 DEF Stages, StagesOf, FailureStages
<1>5. CASE k = "full"
  BY <1>2, <1>5 DEF Stages, StagesOf, FailureStages
<1>6. QED
  BY <1>3, <1>4, <1>5

LEMMA HookPointsAreStages == HookPoints \subseteq StageNames
<1>1. StagesOf("full") \subseteq StageNames /\ StagesOf("simulate") \subseteq StageNames
  BY StageNamesAre
<1>2. HookPoints \subseteq StagesOf("full")
  <2>1. /\ Stages["full"][1] = "PRE_VALIDATE" /\ Stages["full"][4] = "PRE_SIMULATION"
        /\ Stages["full"][8] = "LAYER_L5" /\ Stages["full"][10] = "POST_SIMULATION"
        /\ Stages["full"][11] = "POST_VALIDATE" /\ Len(Stages["full"]) = 14
    BY DEF Stages
  <2>2. QED
    BY <2>1 DEF HookPoints, StagesOf
<1>3. QED
  BY <1>1, <1>2

-----------------------------------------------------------------------------
(***************************************************************************)
(* Type correctness                                                        *)
(***************************************************************************)

\* a request is at a stage of its own kind
AtOwnStage ==
    \A r \in Requests : pc[r] \in StagesOf(Kind[r]) \cup FailureStages \cup {"idle", "done"}

Typed == TypeOK /\ AtOwnStage

Ledger == Seq([ev : Kinds, st : Statuses, by : Requests \cup {None}, client : Clients \cup {None}])

LEMMA EnterType ==
    ASSUME Typed, NEW r \in Requests, NEW st \in StagesOf(Kind[r]) \cup FailureStages,
           Enter(r, st)
    PROVE  /\ pc' \in [Requests -> StageNames \cup FailureStages \cup {"idle", "done"}]
           /\ job' \in [Requests -> HookPoints \cup {None}]
           /\ result' \in [Requests -> {"passed", "blocked", "raised", None}]
           /\ AtOwnStage'
<1>1. st \in StageNames \cup FailureStages
  BY StageNamesAre
<1>2. QED
  BY <1>1 DEF Typed, TypeOK, AtOwnStage, Enter

\* r goes on: its stage is one of its kind that has a successor
LEMMA ForwardType ==
    ASSUME Typed, NEW r \in Requests, pc[r] \in StagesOf(Kind[r]) \ {"RESULT"},
           Enter(r, Following(r))
    PROVE  /\ pc' \in [Requests -> StageNames \cup FailureStages \cup {"idle", "done"}]
           /\ job' \in [Requests -> HookPoints \cup {None}]
           /\ result' \in [Requests -> {"passed", "blocked", "raised", None}]
           /\ AtOwnStage'
<1>1. Following(r) \in StagesOf(Kind[r])
  BY FollowingIs, AfterType
<1>2. QED
  BY <1>1, EnterType

LEMMA RaiseType ==
    ASSUME Typed, NEW r \in Requests, Raise(r)
    PROVE  /\ pc' \in [Requests -> StageNames \cup FailureStages \cup {"idle", "done"}]
           /\ job' \in [Requests -> HookPoints \cup {None}]
           /\ result' \in [Requests -> {"passed", "blocked", "raised", None}]
           /\ AtOwnStage'
  BY EnterType DEF Raise, FailureStages

LEMMA EndType ==
    ASSUME Typed, NEW r \in Requests,
           NEW how \in {"approved", "blocked", "raw", "refused", "cancelled"}, End(r, how)
    PROVE  /\ pc' \in [Requests -> StageNames \cup FailureStages \cup {"idle", "done"}]
           /\ told' \in [Requests -> {"approved", "blocked", "raw", "refused", "cancelled", None}]
           /\ recorder' \in [Clients -> Requests \cup {None}]
           /\ AtOwnStage'
  BY DEF Typed, TypeOK, AtOwnStage, End

LEMMA RecordStepType ==
    ASSUME Typed, NEW rec \in Requests \cup {None}, NEW step \in Steps, RecordStep(rec, step)
    PROVE  trace' \in [Requests -> Seq(Steps)]
<1>1. CASE rec = None
  BY <1>1 DEF RecordStep, Typed, TypeOK
<1>2. CASE rec # None
  <2>1. Append(trace[rec], step) \in Seq(Steps)
    BY <1>2 DEF Typed, TypeOK
  <2>2. QED
    BY <1>2, <2>1 DEF RecordStep, Typed, TypeOK
<1>3. QED
  BY <1>1, <1>2

LEMMA EntryType ==
    ASSUME NEW r \in Requests, NEW ev \in Kinds, NEW st \in Statuses
    PROVE  Entry(r, ev, st) \in [ev : Kinds, st : Statuses, by : Requests \cup {None},
                                 client : Clients \cup {None}]
  BY DEF Entry

SessionRecord ==
    [lifecycle : {"open", "running", "finalized"},
     timeline : Seq([ev : Kinds, st : Statuses, by : Requests \cup {None},
                     client : Clients \cup {None}]),
     gate : BOOLEAN]

LEMMA LedgerAppend ==
    ASSUME NEW tl \in Ledger, NEW r \in Requests, NEW ev \in Kinds, NEW st \in Statuses
    PROVE  Append(tl, Entry(r, ev, st)) \in Ledger
<1> DEFINE e == Entry(r, ev, st)
<1>1. e \in [ev : Kinds, st : Statuses, by : Requests \cup {None}, client : Clients \cup {None}]
  BY EntryType
<1> HIDE DEF e
<1>2. Append(tl, e) \in Ledger
  BY <1>1 DEF Ledger
<1>3. QED
  BY <1>2 DEF e

\* What the session effects do: RecordTrace and Decided append to one timeline.
LEMMA RecordTraceDoes ==
    ASSUME Typed, NEW r \in Requests, NEW st \in Statuses, NEW steps, RecordTrace(r, st, steps)
    PROVE  /\ session' \in [Sessions -> SessionRecord]
           /\ \A s \in Sessions \ {SessionOf[r]} : session'[s] = session[s]
           /\ session'[SessionOf[r]].timeline = Append(Timeline(r), Entry(r, "trace", st))
           /\ session'[SessionOf[r]].lifecycle = "running"
           /\ session'[SessionOf[r]].gate = session[SessionOf[r]].gate
<1> DEFINE s == SessionOf[r]
           tl == Append(Timeline(r), Entry(r, "trace", st))
           h == [[session[s] EXCEPT !.timeline = tl] EXCEPT !.lifecycle = "running"]
<1>1. s \in Sessions
  BY DEF Sessions
<1>2. session \in [Sessions -> SessionRecord]
  BY DEF Typed, TypeOK, SessionRecord
<1>3. tl \in Ledger
  <2>1. Timeline(r) \in Ledger
    BY <1>1, <1>2 DEF Timeline, Ledger, SessionRecord
  <2>2. QED
    BY <2>1, LedgerAppend DEF Kinds
<1>4. session' = [session EXCEPT ![s].timeline = tl, ![s].lifecycle = "running"]
  BY Zenon DEF RecordTrace, Timeline
<1> HIDE DEF tl
<1>5. session' = [session EXCEPT ![s] = h]
  BY <1>1, <1>2, <1>4
<1>6. session[s] \in SessionRecord
  BY <1>1, <1>2
<1>7. h \in SessionRecord /\ h.timeline = tl /\ h.lifecycle = "running" /\ h.gate = session[s].gate
  BY <1>3, <1>6 DEF SessionRecord, Ledger
<1> HIDE DEF h
<1>8. QED
  BY <1>1, <1>2, <1>5, <1>7 DEF tl

LEMMA DecidedDoes ==
    ASSUME Typed, NEW r \in Requests, NEW st \in Statuses, session' = Decided(r, st)
    PROVE  LET decided == Append(Timeline(r), Entry(r, "decision", st))
           IN  /\ session' \in [Sessions -> SessionRecord]
               /\ \A s \in Sessions \ {SessionOf[r]} : session'[s] = session[s]
               /\ session'[SessionOf[r]].timeline =
                     IF Managed(r) THEN Append(decided, Entry(r, "finalize", st)) ELSE decided
               /\ session'[SessionOf[r]].lifecycle =
                     IF Managed(r) THEN "finalized" ELSE session[SessionOf[r]].lifecycle
               /\ session'[SessionOf[r]].gate = session[SessionOf[r]].gate
<1> DEFINE s == SessionOf[r]
           decided == Append(Timeline(r), Entry(r, "decision", st))
           closed == Append(decided, Entry(r, "finalize", st))
           h == [[session[s] EXCEPT !.timeline = closed] EXCEPT !.lifecycle = "finalized"]
           g == [session[s] EXCEPT !.timeline = decided]
<1>1. s \in Sessions
  BY DEF Sessions
<1>2. session \in [Sessions -> SessionRecord]
  BY DEF Typed, TypeOK, SessionRecord
<1>3. decided \in Ledger
  <2>1. Timeline(r) \in Ledger
    BY <1>1, <1>2 DEF Timeline, Ledger, SessionRecord
  <2>2. QED
    BY <2>1, LedgerAppend DEF Kinds, EventTypes
<1>4. closed \in Ledger
  BY <1>3, LedgerAppend DEF Kinds, EventTypes
<1>5. session' = IF Managed(r)
                   THEN [session EXCEPT ![s].timeline = closed, ![s].lifecycle = "finalized"]
                   ELSE [session EXCEPT ![s].timeline = decided]
  BY Zenon DEF Decided, Timeline
<1> HIDE DEF decided, closed
<1>6. session[s] \in SessionRecord
  BY <1>1, <1>2
<1>7. /\ h \in SessionRecord /\ h.timeline = closed
      /\ h.lifecycle = "finalized" /\ h.gate = session[s].gate
  BY <1>4, <1>6 DEF SessionRecord, Ledger
<1>8. /\ g \in SessionRecord /\ g.timeline = decided
      /\ g.lifecycle = session[s].lifecycle /\ g.gate = session[s].gate
  BY <1>3, <1>6 DEF SessionRecord, Ledger
<1>9. CASE Managed(r)
  <2>1. session' = [session EXCEPT ![s] = h]
    BY <1>1, <1>2, <1>5, <1>9
  <2> HIDE DEF h
  <2>2. QED
    BY <1>1, <1>2, <1>7, <1>9, <2>1 DEF closed, decided
<1>10. CASE ~Managed(r)
  <2>1. session' = [session EXCEPT ![s] = g]
    BY <1>1, <1>2, <1>5, <1>10
  <2> HIDE DEF g
  <2>2. QED
    BY <1>1, <1>2, <1>8, <1>10, <2>1 DEF decided
<1>11. QED
  BY <1>9, <1>10


LEMMA MarkGateDoes ==
    ASSUME Typed, NEW r \in Requests, MarkGate(r)
    PROVE  /\ session' \in [Sessions -> SessionRecord]
           /\ \A s \in Sessions :
                 /\ session'[s].timeline = session[s].timeline
                 /\ session'[s].lifecycle = session[s].lifecycle
           /\ \A s \in Sessions \ {SessionOf[r]} : session'[s].gate = session[s].gate
<1> DEFINE s == SessionOf[r]
           h == [session[s] EXCEPT !.gate = TRUE]
<1>1. s \in Sessions
  BY DEF Sessions
<1>2. session \in [Sessions -> SessionRecord]
  BY DEF Typed, TypeOK, SessionRecord
<1>3. session[s] \in SessionRecord
  BY <1>1, <1>2
<1>4. /\ h \in SessionRecord
      /\ h.timeline = session[s].timeline
      /\ h.lifecycle = session[s].lifecycle
  BY <1>3 DEF SessionRecord
<1>5. session' = [session EXCEPT ![s] = h]
  BY <1>1, <1>2 DEF MarkGate
<1> HIDE DEF h
<1>6. QED
  BY <1>1, <1>2, <1>4, <1>5

LEMMA CloseSessionDoes ==
    ASSUME Typed, NEW s \in Shared, CloseSession(s)
    PROVE  /\ session' \in [Sessions -> SessionRecord]
           /\ \A x \in Sessions \ {s} : session'[x] = session[x]
           /\ session'[s].timeline = Append(session[s].timeline, OwnerEntry("finalize"))
           /\ session'[s].gate = session[s].gate
<1> DEFINE tl == Append(session[s].timeline, OwnerEntry("finalize"))
           h == [[session[s] EXCEPT !.timeline = tl] EXCEPT !.lifecycle = "finalized"]
<1>1. s \in Sessions
  BY DEF Sessions
<1>2. session \in [Sessions -> SessionRecord]
  BY DEF Typed, TypeOK, SessionRecord
<1>3. session[s] \in SessionRecord
  BY <1>1, <1>2
<1>4. tl \in Ledger
  <2>1. OwnerEntry("finalize") \in [ev : Kinds, st : Statuses, by : Requests \cup {None},
                                    client : Clients \cup {None}]
    BY DEF OwnerEntry, Kinds, EventTypes, Statuses
  <2>2. session[s].timeline \in Ledger
    BY <1>3 DEF SessionRecord, Ledger
  <2> DEFINE e == OwnerEntry("finalize")
  <2> HIDE DEF e
  <2>3. Append(session[s].timeline, e) \in Ledger
    BY <2>1, <2>2 DEF Ledger, e
  <2>4. QED
    BY <2>3 DEF e
<1>5. session' = [session EXCEPT ![s].timeline = tl, ![s].lifecycle = "finalized"]
  BY Zenon DEF CloseSession
<1> HIDE DEF tl
<1>6. session' = [session EXCEPT ![s] = h]
  BY <1>1, <1>2, <1>5
<1>7. h \in SessionRecord /\ h.timeline = tl /\ h.gate = session[s].gate
  BY <1>3, <1>4 DEF SessionRecord, Ledger
<1> HIDE DEF h
<1>8. QED
  BY <1>1, <1>2, <1>6, <1>7 DEF tl

LEMMA InitTyped == Init => Typed
<1> SUFFICES ASSUME Init
             PROVE  Typed
  OBVIOUS
<1>1. session \in [Sessions -> SessionRecord]
  <2> DEFINE tl(s) == IF s \in Agent /\ Prepared
                        THEN <<OwnerEntry("plan"), OwnerEntry("draft"), OwnerEntry("tool_call")>>
                        ELSE <<>>
  <2>1. \A s \in Sessions : tl(s) \in Ledger
    <3>1. \A ev \in EventTypes :
             OwnerEntry(ev) \in [ev : Kinds, st : Statuses, by : Requests \cup {None},
                                client : Clients \cup {None}]
      BY DEF OwnerEntry, Kinds, Statuses
    <3>2. <<OwnerEntry("plan"), OwnerEntry("draft"), OwnerEntry("tool_call")>> \in Ledger
      BY <3>1 DEF Ledger, EventTypes
    <3>3. <<>> \in Ledger
      BY DEF Ledger
    <3>4. QED
      BY <3>2, <3>3
  <2>2. session = [s \in Sessions |-> [lifecycle |-> "open", timeline |-> tl(s), gate |-> FALSE]]
    BY DEF Init
  <2> HIDE DEF tl
  <2>3. QED
    BY <2>1, <2>2 DEF SessionRecord, Ledger
<1>2. /\ trace \in [Requests -> Seq(Steps)]
      /\ recorded \in [Requests -> Seq(Steps)]
  BY DEF Init
<1>3. QED
  BY <1>1, <1>2 DEF Init, Typed, TypeOK, AtOwnStage, SessionRecord

\* the start of a request: its first stage is one of its kind
LEMMA FirstStage ==
    ASSUME NEW k \in {"validate", "simulate", "full"}
    PROVE  Stages[k][1] \in StagesOf(k) /\ Stages[k][1] \in {"PRE_VALIDATE", "PRE_SIMULATION"}
<1>1. CASE k = "validate"
  BY <1>1 DEF Stages, StagesOf
<1>2. CASE k = "simulate"
  BY <1>2 DEF Stages, StagesOf
<1>3. CASE k = "full"
  BY <1>3 DEF Stages, StagesOf
<1>4. QED
  BY <1>1, <1>2, <1>3

LEMMA TouchType ==
    ASSUME Typed, NEW r \in Requests, NEW point, HooksTouchDraft(r, point)
    PROVE  draft' \in [Requests -> Drafts] /\ zombie' \in [Requests -> BOOLEAN]
  BY DEF Typed, TypeOK, HooksTouchDraft

LEMMA StepTyped ==
    ASSUME Typed, [Next]_vars
    PROVE  Typed'
<1>1. ASSUME NEW r \in Requests, Start(r)
      PROVE  Typed'
  <2>1. Enter(r, Stages[Kind[r]][1])
    BY <1>1 DEF Start
  <2>2. /\ pc' \in [Requests -> StageNames \cup FailureStages \cup {"idle", "done"}]
        /\ job' \in [Requests -> HookPoints \cup {None}]
        /\ result' \in [Requests -> {"passed", "blocked", "raised", None}]
        /\ AtOwnStage'
    BY <2>1, FirstStage, EnterType
  <2>3. recorder' \in [Clients -> Requests \cup {None}]
    BY <1>1 DEF Start, Typed, TypeOK
  <2>4. QED
    BY <1>1, <2>2, <2>3 DEF Start, Typed, TypeOK
<1>2. ASSUME NEW r \in Requests, Refuse(r)
      PROVE  Typed'
  BY <1>2 DEF Refuse, Typed, TypeOK, AtOwnStage, hooks
<1>3. ASSUME NEW r \in Requests, RunHooks(r)
      PROVE  Typed'
  <2>1. job[r] \in HookPoints /\ job[r] \in StageNames
    BY <1>3, HookPointsAreStages DEF RunHooks, Typed, TypeOK
  <2>2. job' \in [Requests -> HookPoints \cup {None}]
    BY <1>3 DEF RunHooks, Typed, TypeOK
  <2>3. PICK how \in Outcomes(job[r]) :
          /\ result' = [result EXCEPT ![r] = IF pc[r] = "done" THEN None ELSE how]
          /\ IF how = "raised" THEN UNCHANGED trace
             ELSE RecordStep(HookRecorder(r), [by |-> r, stage |-> job[r]])
    BY <1>3 DEF RunHooks
  <2>4. result' \in [Requests -> {"passed", "blocked", "raised", None}]
    BY <2>3 DEF Outcomes, Typed, TypeOK
  <2>5. trace' \in [Requests -> Seq(Steps)]
    <3>1. HookRecorder(r) \in Requests \cup {None}
      BY DEF HookRecorder, Typed, TypeOK
    <3>2. [by |-> r, stage |-> job[r]] \in Steps
      BY <2>1 DEF Steps
    <3>3. QED
      BY <2>3, <3>1, <3>2, RecordStepType DEF Typed, TypeOK
  <2>6. draft' \in [Requests -> Drafts] /\ zombie' \in [Requests -> BOOLEAN]
    BY <1>3, TouchType DEF RunHooks
  <2>7. QED
    BY <1>3, <2>2, <2>4, <2>5, <2>6 DEF RunHooks, Typed, TypeOK, AtOwnStage
<1>4. ASSUME NEW r \in Requests, LateWrite(r)
      PROVE  Typed'
  <2>1. PICK d \in Drafts : draft' = [draft EXCEPT ![r] = d]
    BY <1>4 DEF LateWrite
  <2>2. draft' \in [Requests -> Drafts] /\ zombie' \in [Requests -> BOOLEAN]
    BY <1>4, <2>1 DEF LateWrite, Typed, TypeOK
  <2>3. QED
    BY <1>4, <2>2 DEF LateWrite, Typed, TypeOK, AtOwnStage
<1>5. ASSUME NEW r \in Requests, AfterHooks(r)
      PROVE  Typed'
  <2>1. pc[r] \in StagesOf(Kind[r]) \ {"RESULT"}
    BY <1>5 DEF AfterHooks, HookPoints, Typed, AtOwnStage, FailureStages
  <2>2. /\ pc' \in [Requests -> StageNames \cup FailureStages \cup {"idle", "done"}]
        /\ job' \in [Requests -> HookPoints \cup {None}]
        /\ result' \in [Requests -> {"passed", "blocked", "raised", None}]
        /\ AtOwnStage'
    BY <1>5, <2>1, ForwardType, RaiseType DEF AfterHooks
  <2>3. trace' \in [Requests -> Seq(Steps)]
    <3>1. "L5" \in StageNames
      <4>1. "L5" \in StagesOf("full")
        <5>1. Stages["full"][7] = "L5" /\ Len(Stages["full"]) = 14
          BY DEF Stages
        <5>2. QED
          BY <5>1 DEF StagesOf
      <4>2. QED
        BY <4>1, StageNamesAre
    <3>2. [by |-> r, stage |-> "L5"] \in Steps
      BY <3>1 DEF Steps
    <3>3. QED
      BY <1>5, <3>2, RecordStepType DEF AfterHooks, Typed, TypeOK
  <2>4. QED
    BY <1>5, <2>2, <2>3 DEF AfterHooks, Typed, TypeOK
<1>6. ASSUME NEW r \in Requests, Validate(r)
      PROVE  Typed'
  <2>1. pc[r] \in StagesOf(Kind[r]) \ {"RESULT"} /\ pc[r] \in StageNames
    BY <1>6, StageNamesAre DEF Validate, Typed, AtOwnStage, FailureStages
  <2>2. /\ pc' \in [Requests -> StageNames \cup FailureStages \cup {"idle", "done"}]
        /\ job' \in [Requests -> HookPoints \cup {None}]
        /\ result' \in [Requests -> {"passed", "blocked", "raised", None}]
        /\ AtOwnStage'
    BY <1>6, <2>1, ForwardType, RaiseType DEF Validate
  <2>3. trace' \in [Requests -> Seq(Steps)]
    <3>1. [by |-> r, stage |-> pc[r]] \in Steps
      BY <2>1 DEF Steps
    <3>2. QED
      BY <1>6, <3>1, RecordStepType DEF Validate, Typed, TypeOK
  <2>4. draft' \in [Requests -> Drafts] /\ zombie' \in [Requests -> BOOLEAN]
    BY <1>6, TouchType DEF Validate
  <2>5. QED
    BY <1>6, <2>2, <2>3, <2>4 DEF Validate, Typed, TypeOK
<1>7. ASSUME NEW r \in Requests, MarkGate(r)
      PROVE  Typed'
  <2>1. pc[r] \in StagesOf(Kind[r]) \ {"RESULT"}
    BY <1>7 DEF MarkGate, Typed, AtOwnStage, FailureStages
  <2>2. /\ pc' \in [Requests -> StageNames \cup FailureStages \cup {"idle", "done"}]
        /\ job' \in [Requests -> HookPoints \cup {None}]
        /\ result' \in [Requests -> {"passed", "blocked", "raised", None}]
        /\ AtOwnStage'
    BY <1>7, <2>1, ForwardType DEF MarkGate
  <2>3. session' \in [Sessions -> SessionRecord]
    BY <1>7, MarkGateDoes
  <2>4. QED
    BY <1>7, <2>2, <2>3 DEF MarkGate, Typed, TypeOK, SessionRecord
<1>8. ASSUME NEW r \in Requests, Reconcile(r)
      PROVE  Typed'
  <2>1. pc[r] \in StagesOf(Kind[r]) \ {"RESULT"} /\ "L4" \in StageNames
    BY <1>8, StageNamesAre DEF Reconcile, Typed, AtOwnStage, FailureStages
  <2>2. /\ pc' \in [Requests -> StageNames \cup FailureStages \cup {"idle", "done"}]
        /\ job' \in [Requests -> HookPoints \cup {None}]
        /\ result' \in [Requests -> {"passed", "blocked", "raised", None}]
        /\ AtOwnStage'
    BY <1>8, <2>1, ForwardType, RaiseType DEF Reconcile
  <2>3. trace' \in [Requests -> Seq(Steps)]
    <3>1. [by |-> r, stage |-> "L4"] \in Steps
      BY <2>1 DEF Steps
    <3>2. QED
      BY <1>8, <3>1, RecordStepType DEF Reconcile, Typed, TypeOK
  <2>4. QED
    BY <1>8, <2>2, <2>3 DEF Reconcile, Typed, TypeOK
<1>9. ASSUME NEW r \in Requests, Simulate(r)
      PROVE  Typed'
  <2>1. pc[r] \in StagesOf(Kind[r]) \ {"RESULT"}
    BY <1>9 DEF Simulate, Typed, AtOwnStage, FailureStages
  <2>2. /\ pc' \in [Requests -> StageNames \cup FailureStages \cup {"idle", "done"}]
        /\ job' \in [Requests -> HookPoints \cup {None}]
        /\ result' \in [Requests -> {"passed", "blocked", "raised", None}]
        /\ AtOwnStage'
    BY <1>9, <2>1, ForwardType, RaiseType DEF Simulate
  <2>3. simulated' \in [Requests -> Drafts \cup {None}]
    BY <1>9 DEF Simulate, Typed, TypeOK
  <2>4. QED
    BY <1>9, <2>2, <2>3 DEF Simulate, Typed, TypeOK
<1>10. ASSUME NEW r \in Requests, AuditPolicy(r)
       PROVE  Typed'
  <2>1. pc[r] \in StagesOf(Kind[r]) \ {"RESULT"}
    BY <1>10 DEF AuditPolicy, Typed, AtOwnStage, FailureStages
  <2>2. QED
    BY <1>10, <2>1, ForwardType, RaiseType DEF AuditPolicy, Typed, TypeOK
<1>11. ASSUME NEW r \in Requests, CommitTrace(r)
       PROVE  Typed'
  <2>1. pc[r] \in StagesOf(Kind[r]) \ {"RESULT"}
    BY <1>11 DEF CommitTrace, Typed, AtOwnStage, FailureStages
  <2>2. /\ pc' \in [Requests -> StageNames \cup FailureStages \cup {"idle", "done"}]
        /\ job' \in [Requests -> HookPoints \cup {None}]
        /\ result' \in [Requests -> {"passed", "blocked", "raised", None}]
        /\ AtOwnStage'
    BY <1>11, <2>1, ForwardType, RaiseType DEF CommitTrace
  <2>3. /\ session' \in [Sessions -> SessionRecord]
        /\ recorded' \in [Requests -> Seq(Steps)]
    <3>1. CASE RecordTrace(r, "ok", trace[r])
      BY <3>1, RecordTraceDoes DEF Statuses, RecordTrace, Typed, TypeOK
    <3>2. CASE UNCHANGED <<session, recorded>>
      BY <3>2 DEF Typed, TypeOK, SessionRecord
    <3>3. QED
      BY <1>11, <3>1, <3>2 DEF CommitTrace
  <2>4. QED
    BY <1>11, <2>2, <2>3 DEF CommitTrace, Typed, TypeOK, SessionRecord
<1>12. ASSUME NEW r \in Requests, CommitDecision(r)
       PROVE  Typed'
  <2>1. pc[r] \in StagesOf(Kind[r]) \ {"RESULT"}
    BY <1>12 DEF CommitDecision, Typed, AtOwnStage, FailureStages
  <2>2. /\ pc' \in [Requests -> StageNames \cup FailureStages \cup {"idle", "done"}]
        /\ job' \in [Requests -> HookPoints \cup {None}]
        /\ result' \in [Requests -> {"passed", "blocked", "raised", None}]
        /\ AtOwnStage'
    BY <1>12, <2>1, ForwardType, RaiseType DEF CommitDecision
  <2>3. session' \in [Sessions -> SessionRecord]
    <3>1. CASE session' = Decided(r, "ok")
      BY <3>1, DecidedDoes DEF Statuses
    <3>2. CASE UNCHANGED session
      BY <3>2 DEF Typed, TypeOK, SessionRecord
    <3>3. QED
      BY <1>12, <3>1, <3>2 DEF CommitDecision
  <2>4. QED
    BY <1>12, <2>2, <2>3 DEF CommitDecision, Typed, TypeOK, SessionRecord
<1>13. ASSUME NEW r \in Requests, Return(r)
       PROVE  Typed'
  BY <1>13, EndType, RaiseType DEF Return, Typed, TypeOK
<1>14. ASSUME NEW r \in Requests, FailTrace(r)
       PROVE  Typed'
  <2> DEFINE steps == Append(trace[r], [by |-> r, stage |-> "failed"])
  <2>1. steps \in Seq(Steps)
    <3>1. [by |-> r, stage |-> "failed"] \in Steps
      BY DEF Steps
    <3>2. trace[r] \in Seq(Steps)
      BY DEF Typed, TypeOK
    <3>3. QED
      BY <3>1, <3>2
  <2>2. /\ trace' = [trace EXCEPT ![r] = steps]
        /\ UNCHANGED <<draft, zombie, simulated>>
        /\ \/ /\ RecordTrace(r, "rejected", steps)
              /\ Enter(r, "F_DECISION")
              /\ UNCHANGED <<told, recorder>>
           \/ End(r, "raw") /\ UNCHANGED <<session, recorded, job, result>>
    BY <1>14 DEF FailTrace
  <2> HIDE DEF steps
  <2>3. trace' \in [Requests -> Seq(Steps)]
    BY <2>1, <2>2 DEF Typed, TypeOK
  <2>4. CASE /\ RecordTrace(r, "rejected", steps)
             /\ Enter(r, "F_DECISION")
             /\ UNCHANGED <<told, recorder>>
    <3>1. session' \in [Sessions -> SessionRecord]
      BY <2>4, RecordTraceDoes DEF Statuses
    <3>2. recorded' \in [Requests -> Seq(Steps)]
      BY <2>1, <2>4 DEF RecordTrace, Typed, TypeOK
    <3>3. /\ pc' \in [Requests -> StageNames \cup FailureStages \cup {"idle", "done"}]
          /\ job' \in [Requests -> HookPoints \cup {None}]
          /\ result' \in [Requests -> {"passed", "blocked", "raised", None}]
          /\ AtOwnStage'
      BY <2>4, EnterType DEF FailureStages
    <3>4. QED
      BY <2>2, <2>3, <2>4, <3>1, <3>2, <3>3 DEF Typed, TypeOK, SessionRecord
  <2>5. CASE End(r, "raw") /\ UNCHANGED <<session, recorded, job, result>>
    BY <2>2, <2>3, <2>5, EndType DEF Typed, TypeOK
  <2>6. QED
    BY <2>2, <2>4, <2>5
<1>15. ASSUME NEW r \in Requests, FailDecision(r)
       PROVE  Typed'
  <2>1. CASE session' = Decided(r, "rejected") /\ Enter(r, "F_ENRICH") /\ UNCHANGED <<told, recorder>>
    <3>1. session' \in [Sessions -> SessionRecord]
      BY <2>1, DecidedDoes DEF Statuses
    <3>2. /\ pc' \in [Requests -> StageNames \cup FailureStages \cup {"idle", "done"}]
          /\ job' \in [Requests -> HookPoints \cup {None}]
          /\ result' \in [Requests -> {"passed", "blocked", "raised", None}]
          /\ AtOwnStage'
      BY <2>1, EnterType DEF FailureStages
    <3>3. QED
      BY <1>15, <2>1, <3>1, <3>2 DEF FailDecision, Typed, TypeOK, SessionRecord
  <2>2. CASE End(r, "raw") /\ UNCHANGED <<session, job, result>>
    BY <1>15, <2>2, EndType DEF FailDecision, Typed, TypeOK
  <2>3. QED
    BY <1>15, <2>1, <2>2 DEF FailDecision
<1>16. ASSUME NEW r \in Requests, FailEnrich(r)
       PROVE  Typed'
  BY <1>16, EndType DEF FailEnrich, Typed, TypeOK, hooks
<1>17. ASSUME NEW r \in Requests, Cancel(r)
       PROVE  Typed'
  <2>1. job' \in [Requests -> HookPoints \cup {None}]
    BY <1>17 DEF Cancel, Typed, TypeOK
  <2>2. result' \in [Requests -> {"passed", "blocked", "raised", None}]
    BY <1>17 DEF Cancel, Typed, TypeOK
  <2>3. QED
    BY <1>17, <2>1, <2>2, EndType DEF Cancel, Typed, TypeOK
<1>18. ASSUME NEW s \in Shared, CloseSession(s)
       PROVE  Typed'
  BY <1>18, CloseSessionDoes DEF CloseSession, Typed, TypeOK, AtOwnStage, hooks, SessionRecord
<1>19. CASE UNCHANGED vars
  BY <1>19 DEF vars, Typed, TypeOK, AtOwnStage
<1>20. QED
  BY <1>1, <1>2, <1>3, <1>4, <1>5, <1>6, <1>7, <1>8, <1>9, <1>10, <1>11, <1>12, <1>13, <1>14,
     <1>15, <1>16, <1>17, <1>18, <1>19 DEF Next, Step, Quiet

LEMMA TypedHolds == Spec => []Typed
  BY InitTyped, StepTyped, PTL DEF Spec

\* Every variable of the pipeline keeps its type, for any number of requests, clients
\* and sessions: a request is only ever at a stage of its kind, and what the session
\* holds is a timeline of well-formed entries.
THEOREM TypeCorrect == Spec => []TypeOK
  BY TypedHolds, PTL DEF Typed

-----------------------------------------------------------------------------
(***************************************************************************)
(* The recorder of a client                                                *)
(***************************************************************************)

\* a bound recorder is that of a request of this client that still runs
RecorderOwned ==
    \A c \in Clients : recorder[c] # None =>
        recorder[c] \in Running /\ ClientOf[recorder[c]] = c

LEMMA EnterRuns ==
    ASSUME Typed, NEW r \in Requests, NEW st \in StagesOf(Kind[r]) \cup FailureStages,
           Enter(r, st)
    PROVE  Running' = Running \cup {r}
<1>1. st \notin {"idle", "done"}
  BY StageNamesAre DEF FailureStages
<1>2. QED
  BY <1>1 DEF Enter, Running, Typed, TypeOK

LEMMA ForwardRuns ==
    ASSUME Typed, NEW r \in Requests, pc[r] \in StagesOf(Kind[r]) \ {"RESULT"},
           Enter(r, Following(r))
    PROVE  Running' = Running \cup {r}
<1>1. Following(r) \in StagesOf(Kind[r])
  BY FollowingIs, AfterType
<1>2. QED
  BY <1>1, EnterRuns

\* What a step may do to the recorders: bind one as a request starts, release one as a
\* request ends, or nothing.
LEMMA RecorderSteps ==
    ASSUME Typed, [Next]_vars
    PROVE  \/ UNCHANGED recorder /\ Running' = Running
           \/ \E r \in Requests :
                 /\ recorder' = [recorder EXCEPT ![ClientOf[r]] = r]
                 /\ Running' = Running \cup {r}
           \/ \E r \in Requests :
                 /\ recorder' = [recorder EXCEPT ![ClientOf[r]] = None]
                 /\ Running' = Running \ {r}
<1> DEFINE Kept == UNCHANGED recorder /\ Running' = Running
           Bound(r) == /\ recorder' = [recorder EXCEPT ![ClientOf[r]] = r]
                       /\ Running' = Running \cup {r}
           Released(r) == /\ recorder' = [recorder EXCEPT ![ClientOf[r]] = None]
                          /\ Running' = Running \ {r}
<1>a. ASSUME NEW r \in Requests, NEW how, End(r, how)
      PROVE  Released(r)
  BY <1>a DEF End, Running, Typed, TypeOK
<1>b. ASSUME NEW r \in Requests, Raise(r)
      PROVE  Running' = Running \cup {r}
  BY <1>b, EnterRuns DEF Raise, FailureStages
<1>c. ASSUME NEW r \in Requests, pc[r] \notin {"idle", "done"}, Running' = Running \cup {r}
      PROVE  Running' = Running
  BY <1>c DEF Running
<1>1. ASSUME NEW r \in Requests, Start(r)
      PROVE  Bound(r)
  BY <1>1, FirstStage, EnterRuns DEF Start
<1>2. ASSUME NEW r \in Requests, Refuse(r)
      PROVE  Kept
  BY <1>2 DEF Refuse, Running, Typed, TypeOK
<1>3. ASSUME NEW r \in Requests, RunHooks(r) \/ LateWrite(r)
      PROVE  Kept
  BY <1>3 DEF RunHooks, LateWrite, Running
<1>4. ASSUME NEW r \in Requests, \/ AfterHooks(r) \/ Validate(r) \/ MarkGate(r) \/ Reconcile(r)
                                 \/ Simulate(r) \/ AuditPolicy(r) \/ CommitTrace(r)
                                 \/ CommitDecision(r)
      PROVE  Kept
  <2>1. pc[r] \in StagesOf(Kind[r]) \ {"RESULT"}
    BY <1>4 DEF AfterHooks, Validate, MarkGate, Reconcile, Simulate, AuditPolicy, CommitTrace,
                CommitDecision, HookPoints, Typed, AtOwnStage, FailureStages
  <2>2. UNCHANGED recorder /\ (Enter(r, Following(r)) \/ Raise(r))
    BY <1>4 DEF AfterHooks, Validate, MarkGate, Reconcile, Simulate, AuditPolicy, CommitTrace,
                CommitDecision
  <2>3. pc[r] \notin {"idle", "done"}
    BY <2>1, StageNamesAre
  <2>4. Running' = Running \cup {r}
    BY <1>b, <2>1, <2>2, ForwardRuns
  <2>5. QED
    BY <1>c, <2>2, <2>3, <2>4
<1>5. ASSUME NEW r \in Requests, Return(r)
      PROVE  Kept \/ Released(r)
  <2>1. pc[r] \notin {"idle", "done"} /\ (End(r, "approved") \/ (Raise(r) /\ UNCHANGED recorder))
    BY <1>5 DEF Return
  <2>2. QED
    BY <1>a, <1>b, <1>c, <2>1
<1>6. ASSUME NEW r \in Requests, FailTrace(r)
      PROVE  Kept \/ Released(r)
  <2>1. CASE End(r, "raw")
    BY <1>a, <2>1
  <2>2. CASE Enter(r, "F_DECISION") /\ UNCHANGED recorder
    <3>1. Running' = Running \cup {r}
      BY <2>2, EnterRuns DEF FailureStages
    <3>2. pc[r] \notin {"idle", "done"}
      BY <1>6 DEF FailTrace
    <3>3. QED
      BY <1>c, <2>2, <3>1, <3>2
  <2>3. QED
    BY <1>6, <2>1, <2>2 DEF FailTrace
<1>7. ASSUME NEW r \in Requests, FailDecision(r)
      PROVE  Kept \/ Released(r)
  <2>1. CASE End(r, "raw")
    BY <1>a, <2>1
  <2>2. CASE Enter(r, "F_ENRICH") /\ UNCHANGED recorder
    <3>1. Running' = Running \cup {r}
      BY <2>2, EnterRuns DEF FailureStages
    <3>2. pc[r] \notin {"idle", "done"}
      BY <1>7 DEF FailDecision
    <3>3. QED
      BY <1>c, <2>2, <3>1, <3>2
  <2>3. QED
    BY <1>7, <2>1, <2>2 DEF FailDecision
<1>8. ASSUME NEW r \in Requests, FailEnrich(r) \/ Cancel(r)
      PROVE  Released(r)
  BY <1>8, <1>a DEF FailEnrich, Cancel
<1>9. ASSUME NEW s \in Shared, CloseSession(s)
      PROVE  Kept
  BY <1>9 DEF CloseSession, Running
<1>10. ASSUME UNCHANGED vars
       PROVE  Kept
  BY <1>10 DEF vars, Running
<1> HIDE DEF Kept, Bound, Released
<1>11. ASSUME NEW r \in Requests,
              Start(r) \/ Refuse(r) \/ RunHooks(r) \/ LateWrite(r) \/ Step(r) \/ Cancel(r)
       PROVE  Kept \/ Bound(r) \/ Released(r)
  BY <1>1, <1>2, <1>3, <1>4, <1>5, <1>6, <1>7, <1>8, <1>11 DEF Step
<1>12. Kept \/ \E r \in Requests : Bound(r) \/ Released(r)
  BY <1>9, <1>10, <1>11 DEF Next, Quiet
<1>13. QED
  BY <1>12 DEF Kept, Bound, Released

LEMMA RecorderOwnedHolds == Spec => [](Typed /\ RecorderOwned)
<1>1. Init => RecorderOwned
  BY DEF Init, RecorderOwned
<1>2. ASSUME Typed, RecorderOwned, [Next]_vars
      PROVE  RecorderOwned'
  <2>1. CASE UNCHANGED recorder /\ Running' = Running
    BY <1>2, <2>1 DEF RecorderOwned
  <2>2. ASSUME NEW r \in Requests,
               recorder' = [recorder EXCEPT ![ClientOf[r]] = r],
               Running' = Running \cup {r}
        PROVE  RecorderOwned'
    BY <1>2, <2>2 DEF RecorderOwned, Typed, TypeOK
  <2>3. ASSUME NEW r \in Requests,
               recorder' = [recorder EXCEPT ![ClientOf[r]] = None],
               Running' = Running \ {r}
        PROVE  RecorderOwned'
    BY <1>2, <2>3 DEF RecorderOwned, Typed, TypeOK
  <2>4. QED
    BY <1>2, <2>1, <2>2, <2>3, RecorderSteps
<1>3. QED
  BY <1>1, <1>2, TypedHolds, PTL DEF Spec

\* When nothing runs no recorder is bound, however the requests of a client overlap,
\* fail or are cancelled: what is bound belongs to a request that still runs.
THEOREM RecorderReleasedHolds == Spec => []RecorderReleased
<1>1. RecorderOwned => RecorderReleased
  BY DEF RecorderOwned, RecorderReleased
<1>2. QED
  BY <1>1, RecorderOwnedHolds, PTL

-----------------------------------------------------------------------------
(***************************************************************************)
(* What a step of one request leaves alone                                 *)
(***************************************************************************)

Acts(r) == Start(r) \/ Refuse(r) \/ RunHooks(r) \/ LateWrite(r) \/ Step(r) \/ Cancel(r)

\* the variables of q that only q's own steps change
Untouched(q) ==
    /\ pc'[q] = pc[q] /\ draft'[q] = draft[q] /\ job'[q] = job[q]
    /\ result'[q] = result[q] /\ zombie'[q] = zombie[q] /\ recorded'[q] = recorded[q]
    /\ simulated'[q] = simulated[q] /\ told'[q] = told[q]

LEMMA ActsAreLocal ==
    ASSUME Typed, NEW r \in Requests, Acts(r), NEW q \in Requests \ {r}
    PROVE  Untouched(q)
<1> USE DEF Untouched, Typed, TypeOK
<1>1. ASSUME NEW how, End(r, how)
      PROVE  pc'[q] = pc[q] /\ told'[q] = told[q]
  BY <1>1 DEF End
<1>2. ASSUME NEW st, Enter(r, st)
      PROVE  pc'[q] = pc[q] /\ job'[q] = job[q] /\ result'[q] = result[q]
  BY <1>2 DEF Enter
<1>3. ASSUME NEW point, HooksTouchDraft(r, point)
      PROVE  draft'[q] = draft[q] /\ zombie'[q] = zombie[q]
  BY <1>3 DEF HooksTouchDraft
<1>4. CASE Start(r) \/ AfterHooks(r) \/ MarkGate(r) \/ Reconcile(r) \/ AuditPolicy(r)
           \/ CommitDecision(r)
  BY <1>2, <1>4 DEF Start, AfterHooks, MarkGate, Reconcile, AuditPolicy, CommitDecision, Raise
<1>5. CASE Refuse(r) \/ RunHooks(r) \/ LateWrite(r)
  BY <1>3, <1>5 DEF Refuse, RunHooks, LateWrite, hooks
<1>6. CASE Validate(r) \/ Simulate(r)
  BY <1>2, <1>3, <1>6 DEF Validate, Simulate, Raise
<1>7. CASE CommitTrace(r) \/ FailTrace(r)
  BY <1>1, <1>2, <1>7 DEF CommitTrace, FailTrace, Raise, RecordTrace
<1>8. CASE Return(r) \/ FailDecision(r) \/ FailEnrich(r) \/ Cancel(r)
  <2>1. CASE Return(r) \/ FailDecision(r) \/ FailEnrich(r)
    BY <1>1, <1>2, <2>1 DEF Return, FailDecision, FailEnrich, Raise, hooks
  <2>2. CASE Cancel(r)
    BY <1>1, <2>2 DEF Cancel
  <2>3. QED
    BY <1>8, <2>1, <2>2
<1>9. QED
  BY <1>4, <1>5, <1>6, <1>7, <1>8 DEF Acts, Step

\* A step is of one request, of the owner of a session, or of nobody.
LEMMA NextIs ==
    ASSUME [Next]_vars
    PROVE  \/ \E r \in Requests : Acts(r)
           \/ \E s \in Shared : CloseSession(s)
           \/ UNCHANGED vars
  BY DEF Next, Quiet, Acts

-----------------------------------------------------------------------------
(***************************************************************************)
(* Hook jobs and the draft                                                 *)
(***************************************************************************)

\* an executor job is that of the stage its request waits at, unless the request has
\* been cancelled; a result is there only at a hook stage
JobIsCurrent ==
    \A r \in Requests :
        /\ job[r] # None => (pc[r] = job[r] /\ result[r] = None) \/ pc[r] = "done"
        /\ result[r] # None => pc[r] \in HookPoints
        /\ told[r] # None => pc[r] = "done"

LEMMA EnterJob ==
    ASSUME Typed, NEW r \in Requests, job[r] = None, NEW st, Enter(r, st)
    PROVE  /\ job'[r] # None => pc'[r] = job'[r]
           /\ result'[r] = None
           /\ pc'[r] = st
  BY DEF Enter, Typed, TypeOK

LEMMA JobActs ==
    ASSUME Typed, JobIsCurrent, NEW r \in Requests, Acts(r)
    PROVE  JobIsCurrent'
<1> DEFINE Own == /\ job'[r] # None => (pc'[r] = job'[r] /\ result'[r] = None) \/ pc'[r] = "done"
                  /\ result'[r] # None => pc'[r] \in HookPoints
                  /\ told'[r] # None => pc'[r] = "done"
<1>1. SUFFICES Own
  BY ActsAreLocal DEF JobIsCurrent, Untouched
<1> USE DEF Typed, TypeOK
<1>2. ASSUME NEW st, Enter(r, st), job[r] = None, UNCHANGED told, pc[r] # "done"
      PROVE  Own
  BY <1>2, EnterJob DEF JobIsCurrent
<1>3. ASSUME NEW how, End(r, how), UNCHANGED <<job, result>>, pc[r] \notin HookPoints
      PROVE  Own
  BY <1>3 DEF End, JobIsCurrent
<1>4. CASE Start(r)
  <2>1. job[r] = None
    <3>1. pc[r] = "idle"
      BY <1>4 DEF Start
    <3>2. job[r] \in HookPoints \cup {None}
      OBVIOUS
    <3>3. QED
      BY <3>1, <3>2 DEF JobIsCurrent, HookPoints
  <2>2. Enter(r, Stages[Kind[r]][1]) /\ UNCHANGED told /\ pc[r] # "done"
    BY <1>4 DEF Start
  <2>3. QED
    BY <1>2, <2>1, <2>2
<1>5. CASE Refuse(r)
  <2>1. result[r] = None
    BY <1>5 DEF Refuse, JobIsCurrent, HookPoints
  <2>2. QED
    BY <1>5, <2>1 DEF Refuse, hooks
<1>6. CASE RunHooks(r)
  <2>1. pc[r] = "done" \/ pc[r] \in HookPoints
    BY <1>6 DEF RunHooks, JobIsCurrent
  <2>2. QED
    BY <1>6, <2>1 DEF RunHooks, JobIsCurrent
<1>7. CASE LateWrite(r)
  BY <1>7 DEF LateWrite, JobIsCurrent
<1>8. CASE AfterHooks(r)
  <2>1. job[r] = None /\ pc[r] # "done"
    BY <1>8 DEF AfterHooks, JobIsCurrent, HookPoints
  <2>2. QED
    BY <1>2, <1>8, <2>1 DEF AfterHooks, Raise
<1>9. CASE \/ Validate(r) \/ MarkGate(r) \/ Reconcile(r) \/ Simulate(r) \/ AuditPolicy(r)
           \/ CommitTrace(r) \/ CommitDecision(r) \/ Return(r) \/ FailTrace(r)
           \/ FailDecision(r) \/ FailEnrich(r)
  <2>1. pc[r] \notin HookPoints /\ pc[r] # "done"
    BY <1>9 DEF Validate, MarkGate, Reconcile, Simulate, AuditPolicy, CommitTrace,
                CommitDecision, Return, FailTrace, FailDecision, FailEnrich, HookPoints
  <2>2. job[r] = None
    BY <2>1 DEF JobIsCurrent
  <2>3. \/ \E st : Enter(r, st) /\ UNCHANGED told
        \/ \E how : End(r, how) /\ UNCHANGED <<job, result>>
    <3>1. CASE Validate(r) \/ MarkGate(r) \/ Reconcile(r)
      BY <3>1 DEF Validate, MarkGate, Reconcile, Raise
    <3>2. CASE Simulate(r) \/ AuditPolicy(r) \/ CommitTrace(r) \/ CommitDecision(r)
      BY <3>2 DEF Simulate, AuditPolicy, CommitTrace, CommitDecision, Raise
    <3>3. CASE Return(r) \/ FailDecision(r)
      BY <3>3 DEF Return, FailDecision, Raise
    <3>4. CASE FailTrace(r)
      BY <3>4 DEF FailTrace
    <3>5. CASE FailEnrich(r)
      BY <3>5 DEF FailEnrich, hooks
    <3>6. QED
      BY <1>9, <3>1, <3>2, <3>3, <3>4, <3>5
  <2>4. QED
    BY <1>2, <1>3, <2>1, <2>2, <2>3
<1>10. CASE Cancel(r)
  BY <1>10 DEF Cancel, End
<1>11. QED
  BY <1>4, <1>5, <1>6, <1>7, <1>8, <1>9, <1>10 DEF Acts, Step

LEMMA JobHolds == Spec => [](Typed /\ JobIsCurrent)
<1>1. Init => JobIsCurrent
  BY DEF Init, JobIsCurrent
<1>2. ASSUME Typed, JobIsCurrent, [Next]_vars
      PROVE  JobIsCurrent'
  <2>1. CASE \E s \in Shared : CloseSession(s)
    BY <1>2, <2>1 DEF CloseSession, JobIsCurrent, hooks
  <2>2. CASE UNCHANGED vars
    BY <1>2, <2>2 DEF vars, JobIsCurrent
  <2>3. QED
    BY <1>2, <2>1, <2>2, NextIs, JobActs
<1>3. QED
  BY <1>1, <1>2, TypedHolds, PTL DEF Spec

-----------------------------------------------------------------------------
(***************************************************************************)
(* The draft that is simulated                                             *)
(***************************************************************************)

\* No callback holds the draft itself: the mode wraps it, or the only hooks are those of
\* L5, which get the simulation.
DraftIsWrapped == HookMode = "legacy" => Registered \subseteq {"LAYER_L5"}

\* from the second L1-L3 pass on the draft of a full request stays what was checked
DraftChecked ==
    \A r \in Requests :
        /\ ~zombie[r]
        /\ Kind[r] = "full" =>
              /\ pc[r] \in {"L4", "L5"} => draft[r] \in Valid
              /\ simulated[r] # None => simulated[r] \in Valid

LEMMA WrappedTouch ==
    ASSUME DraftIsWrapped, Typed, NEW r \in Requests, ~zombie[r], NEW point,
           HooksTouchDraft(r, point)
    PROVE  /\ ~zombie'[r]
           /\ point \notin {"PRE_VALIDATE", "PRE_SIMULATION"} => draft'[r] = draft[r]
<1>1. ~HoldsDraft(point)
  BY DEF HoldsDraft, DraftIsWrapped
<1>2. point \notin {"PRE_VALIDATE", "PRE_SIMULATION"} => ~CanWrite(point)
  BY <1>1 DEF CanWrite
<1>3. QED
  BY <1>1, <1>2 DEF HooksTouchDraft, Typed, TypeOK

\* L4 follows the second L1-L3 pass of a full request, and L5 follows L4.
LEMMA FullBeforeRpc ==
    ASSUME NEW r \in Requests, Kind[r] = "full", pc[r] \in StagesOf("full") \ {"RESULT"}
    PROVE  /\ Following(r) = "L4" => pc[r] = "RECHECK"
           /\ Following(r) = "L5" => pc[r] = "L4"
<1>1. Following(r) = After["full"][pc[r]]
  BY FollowingIs
<1>2. pc[r] \in {"PRE_VALIDATE", "L1L3", "MARK", "PRE_SIMULATION", "RECHECK", "L4", "L5", "LAYER_L5",
                "POLICY", "POST_SIMULATION", "POST_VALIDATE", "TRACE", "DECISION"}
  BY DEF StagesOf, Stages
<1>3. QED
  BY <1>1, <1>2 DEF After

LEMMA DraftActs ==
    ASSUME DraftIsWrapped, Typed, JobIsCurrent, DraftChecked, NEW r \in Requests, Acts(r)
    PROVE  DraftChecked'
<1> DEFINE Own == /\ ~zombie'[r]
                  /\ Kind[r] = "full" =>
                        /\ pc'[r] \in {"L4", "L5"} => draft'[r] \in Valid
                        /\ simulated'[r] # None => simulated'[r] \in Valid
<1>1. SUFFICES Own
  BY ActsAreLocal DEF DraftChecked, Untouched
<1> USE DEF Typed, TypeOK
<1>2. ASSUME NEW st, Enter(r, st)
      PROVE  pc'[r] = st
  BY <1>2 DEF Enter
<1>3. ASSUME Raise(r)
      PROVE  pc'[r] = "F_TRACE"
  BY <1>2, <1>3 DEF Raise
<1>4. ASSUME NEW how, End(r, how)
      PROVE  pc'[r] = "done"
  BY <1>4 DEF End
<1>5. ASSUME Kind[r] = "full", pc[r] \in StagesOf("full") \ {"RESULT"}, pc[r] \notin {"RECHECK", "L4"},
             pc'[r] \in {Following(r), "F_TRACE"}
      PROVE  pc'[r] \notin {"L4", "L5"}
  BY <1>5, FullBeforeRpc
<1>6. CASE Start(r)
  <2>1. pc'[r] \notin {"L4", "L5"}
    BY <1>2, <1>6, FirstStage DEF Start
  <2>2. QED
    BY <1>6, <2>1 DEF Start, DraftChecked
<1>7. CASE Refuse(r)
  BY <1>7 DEF Refuse, DraftChecked, hooks
<1>8. CASE RunHooks(r)
  <2>1. pc[r] \notin {"L4", "L5"}
    <3>1. job[r] \in HookPoints
      BY <1>8 DEF RunHooks
    <3>2. QED
      BY <3>1 DEF JobIsCurrent, HookPoints, None
  <2>2. ~zombie'[r]
    BY <1>8, WrappedTouch DEF RunHooks, DraftChecked
  <2>3. QED
    BY <1>8, <2>1, <2>2 DEF RunHooks, DraftChecked
<1>9. CASE LateWrite(r)
  BY <1>9 DEF LateWrite, DraftChecked
<1>10. CASE \/ AfterHooks(r) \/ MarkGate(r) \/ AuditPolicy(r) \/ CommitTrace(r) \/ CommitDecision(r)
  <2>1. /\ pc[r] \in HookPoints \cup {"MARK", "POLICY", "TRACE", "DECISION"}
        /\ pc'[r] \in {Following(r), "F_TRACE"}
        /\ UNCHANGED <<draft, zombie, simulated>>
    BY <1>2, <1>3, <1>10 DEF AfterHooks, MarkGate, AuditPolicy, CommitTrace, CommitDecision, HookPoints
  <2>2. Kind[r] = "full" => pc[r] \in StagesOf("full") \ {"RESULT"}
    BY <2>1 DEF AtOwnStage, HookPoints, FailureStages
  <2>3. QED
    BY <1>5, <2>1, <2>2 DEF DraftChecked, HookPoints
<1>11. CASE Validate(r)
  <2>1. ~zombie'[r] /\ draft'[r] = draft[r] /\ UNCHANGED simulated
    BY <1>11, WrappedTouch DEF Validate, DraftChecked
  <2>2. ~HoldsDraft("LAYERS")
    BY DEF HoldsDraft, DraftIsWrapped
  <2>3. pc'[r] = "F_TRACE" \/ (pc'[r] = Following(r) /\ draft[r] \in Valid)
    <3>1. (Enter(r, Following(r)) /\ draft[r] \in Valid) \/ Raise(r)
      BY <1>11, <2>2 DEF Validate
    <3>2. QED
      BY <3>1 DEF Enter, Raise
  <2>4. pc'[r] \in {"L4", "L5"} => draft'[r] \in Valid
    BY <2>1, <2>3
  <2>5. Kind[r] = "full" => (simulated'[r] # None => simulated'[r] \in Valid)
    BY <2>1 DEF DraftChecked
  <2>6. QED
    BY <2>1, <2>4, <2>5
<1>12. CASE Reconcile(r)
  <2>1. pc[r] = "L4" /\ UNCHANGED <<draft, zombie, simulated>>
    BY <1>12 DEF Reconcile
  <2>2. QED
    BY <2>1 DEF DraftChecked
<1>13. CASE Simulate(r)
  <2>1. /\ pc[r] = "L5" /\ UNCHANGED <<draft, zombie>>
        /\ simulated'[r] = draft[r]
    BY <1>13 DEF Simulate
  <2>2. QED
    BY <2>1 DEF DraftChecked
<1>14. CASE Return(r) \/ FailTrace(r) \/ FailDecision(r) \/ FailEnrich(r) \/ Cancel(r)
  <2>1. UNCHANGED <<draft, zombie, simulated>>
    BY <1>14 DEF Return, FailTrace, FailDecision, FailEnrich, Cancel, hooks
  <2>2. pc'[r] \in {"F_TRACE", "F_DECISION", "F_ENRICH", "done"}
    <3>1. CASE Return(r) \/ FailEnrich(r) \/ Cancel(r)
      BY <1>3, <1>4, <3>1 DEF Return, FailEnrich, Cancel
    <3>2. CASE FailTrace(r)
      BY <1>2, <1>4, <3>2 DEF FailTrace
    <3>3. CASE FailDecision(r)
      BY <1>2, <1>4, <3>3 DEF FailDecision
    <3>4. QED
      BY <1>14, <3>1, <3>2, <3>3
  <2>3. QED
    BY <2>1, <2>2 DEF DraftChecked
<1>15. QED
  BY <1>6, <1>7, <1>8, <1>9, <1>10, <1>11, <1>12, <1>13, <1>14 DEF Acts, Step

\* The full pipeline executes only drafts L1-L3 accept, whatever the hooks of the other
\* stages do and however requests overlap, as long as no hook is given the draft itself:
\* between the second pass and the eth_call nothing else writes to it.
THEOREM SimulatedIsValidHolds == ASSUME DraftIsWrapped PROVE Spec => []SimulatedIsValid
<1>1. Init => DraftChecked
  BY DEF Init, DraftChecked
<1>2. ASSUME Typed, JobIsCurrent, DraftChecked, [Next]_vars
      PROVE  DraftChecked'
  <2>1. CASE \E s \in Shared : CloseSession(s)
    BY <1>2, <2>1 DEF CloseSession, DraftChecked, hooks
  <2>2. CASE UNCHANGED vars
    BY <1>2, <2>2 DEF vars, DraftChecked
  <2>3. QED
    BY <1>2, <2>1, <2>2, NextIs, DraftActs
<1>3. DraftChecked => SimulatedIsValid
  BY DEF DraftChecked, SimulatedIsValid
<1>4. QED
  BY <1>1, <1>2, <1>3, JobHolds, PTL DEF Spec

-----------------------------------------------------------------------------
(***************************************************************************)
(* The gate of simulate-only requests                                      *)
(***************************************************************************)

\* Where a step takes its request: on to the next stage of its kind, or out.
LEMMA Moves ==
    ASSUME Typed, NEW r \in Requests, Acts(r)
    PROVE  \/ pc'[r] = pc[r] /\ (RunHooks(r) \/ LateWrite(r))
           \/ pc'[r] = Stages[Kind[r]][1] /\ Start(r)
           \/ /\ pc[r] \in StagesOf(Kind[r]) \ {"RESULT"}
              /\ pc'[r] = After[Kind[r]][pc[r]]
              /\ Step(r)
           \/ pc'[r] \in FailureStages \cup {"done"}
<1> USE DEF Typed, TypeOK
<1>1. ASSUME NEW st, Enter(r, st)
      PROVE  pc'[r] = st
  BY <1>1 DEF Enter
<1>2. ASSUME Raise(r)
      PROVE  pc'[r] \in FailureStages
  BY <1>1, <1>2 DEF Raise, FailureStages
<1>3. ASSUME NEW how, End(r, how)
      PROVE  pc'[r] = "done"
  BY <1>3 DEF End
<1>4. CASE RunHooks(r) \/ LateWrite(r)
  BY <1>4 DEF RunHooks, LateWrite
<1>5. CASE Start(r)
  BY <1>1, <1>5 DEF Start
<1>6. CASE Refuse(r)
  BY <1>6 DEF Refuse
<1>7. CASE \/ AfterHooks(r) \/ Validate(r) \/ MarkGate(r) \/ Reconcile(r) \/ Simulate(r)
           \/ AuditPolicy(r) \/ CommitTrace(r) \/ CommitDecision(r)
  <2>1. pc[r] \in StagesOf(Kind[r]) \ {"RESULT"}
    BY <1>7 DEF AfterHooks, Validate, MarkGate, Reconcile, Simulate, AuditPolicy, CommitTrace,
                CommitDecision, HookPoints, AtOwnStage, FailureStages
  <2>2. Enter(r, Following(r)) \/ Raise(r)
    BY <1>7 DEF AfterHooks, Validate, MarkGate, Reconcile, Simulate, AuditPolicy, CommitTrace,
                CommitDecision
  <2>3. pc'[r] = Following(r) \/ pc'[r] \in FailureStages
    BY <1>1, <1>2, <2>2
  <2>4. QED
    BY <1>7, <2>1, <2>3, FollowingIs DEF Step
<1>8. CASE Return(r) \/ FailEnrich(r) \/ Cancel(r)
  BY <1>2, <1>3, <1>8 DEF Return, FailEnrich, Cancel
<1>9. CASE FailTrace(r)
  BY <1>1, <1>3, <1>9 DEF FailTrace, FailureStages
<1>10. CASE FailDecision(r)
  BY <1>1, <1>3, <1>10 DEF FailDecision, FailureStages
<1>11. QED
  BY <1>4, <1>5, <1>6, <1>7, <1>8, <1>9, <1>10 DEF Acts, Step

\* A trace only grows, a step at a time.
LEMMA TraceGrows ==
    ASSUME Typed, [Next]_vars, NEW q \in Requests
    PROVE  trace'[q] = trace[q] \/ \E step : trace'[q] = Append(trace[q], step)
<1> DEFINE Grown == trace'[q] = trace[q] \/ \E step : trace'[q] = Append(trace[q], step)
<1> USE DEF Typed, TypeOK
<1>1. ASSUME NEW rec, NEW step, RecordStep(rec, step)
      PROVE  Grown
  BY <1>1 DEF RecordStep
<1>2. ASSUME UNCHANGED trace
      PROVE  Grown
  BY <1>2
<1>3. ASSUME NEW r \in Requests, Acts(r)
      PROVE  Grown
  <2>1. CASE FailTrace(r)
    BY <2>1 DEF FailTrace
  <2>2. CASE RunHooks(r) \/ AfterHooks(r) \/ Validate(r) \/ Reconcile(r)
    <3>1. UNCHANGED trace \/ \E rec, step : RecordStep(rec, step)
      BY <2>2 DEF RunHooks, AfterHooks, Validate, Reconcile
    <3> HIDE DEF Grown
    <3>2. QED
      BY <1>1, <1>2, <3>1
  <2>3. CASE \/ Start(r) \/ Refuse(r) \/ LateWrite(r) \/ MarkGate(r) \/ Simulate(r)
             \/ AuditPolicy(r) \/ CommitTrace(r) \/ CommitDecision(r) \/ Return(r)
             \/ FailDecision(r) \/ FailEnrich(r) \/ Cancel(r)
    BY <2>3 DEF Start, Refuse, LateWrite, MarkGate, Simulate, AuditPolicy, CommitTrace,
                CommitDecision, Return, FailDecision, FailEnrich, Cancel
  <2>4. QED
    BY <1>3, <2>1, <2>2, <2>3 DEF Acts, Step
<1>4. ASSUME NEW s \in Shared, CloseSession(s)
      PROVE  Grown
  BY <1>4 DEF CloseSession
<1>5. ASSUME UNCHANGED vars
      PROVE  Grown
  BY <1>5 DEF vars
<1>6. QED
  BY <1>3, <1>4, <1>5, NextIs

\* the trace of q has an L1-L3 pass
HasPass(q) == \E i \in 1..Len(trace[q]) : trace[q][i] = [by |-> q, stage |-> "L1L3"]

LEMMA PassStays ==
    ASSUME Typed, [Next]_vars, NEW q \in Requests, HasPass(q)
    PROVE  HasPass(q)'
<1>1. PICK i \in 1..Len(trace[q]) : trace[q][i] = [by |-> q, stage |-> "L1L3"]
  BY DEF HasPass
<1>2. trace[q] \in Seq(Steps)
  BY DEF Typed, TypeOK
<1>3. CASE trace'[q] = trace[q]
  BY <1>1, <1>3 DEF HasPass
<1>4. ASSUME NEW step, trace'[q] = Append(trace[q], step)
      PROVE  HasPass(q)'
  <2>1. i \in 1..Len(trace'[q]) /\ trace'[q][i] = trace[q][i]
    BY <1>1, <1>2, <1>4
  <2>2. QED
    BY <1>1, <2>1 DEF HasPass
<1>5. QED
  BY <1>3, <1>4, TraceGrows

\* a gate that is open, and a request about to open one, rest on a pass on record
GateRests ==
    /\ \A s \in Sessions : session[s].gate => \E q \in Requests : SessionOf[q] = s /\ HasPass(q)
    /\ \A r \in Requests :
          pc[r] = "MARK" \/ (Kind[r] = "validate" /\ pc[r] = "POST_VALIDATE") => HasPass(r)

\* only MarkGate opens a gate
LEMMA GateOpens ==
    ASSUME Typed, [Next]_vars, NEW s \in Sessions, session'[s].gate
    PROVE  session[s].gate \/ \E r \in Requests : MarkGate(r) /\ SessionOf[r] = s
<1> DEFINE Opened == session[s].gate \/ \E r \in Requests : MarkGate(r) /\ SessionOf[r] = s
<1>1. ASSUME NEW r \in Requests, Acts(r)
      PROVE  Opened
  <2>1. CASE MarkGate(r)
    BY <2>1, MarkGateDoes
  <2>2. CASE CommitTrace(r) \/ FailTrace(r)
    <3>1. UNCHANGED session \/ \E st \in Statuses : \E steps : RecordTrace(r, st, steps)
      BY <2>2 DEF CommitTrace, FailTrace, Statuses
    <3>2. QED
      BY <3>1, RecordTraceDoes
  <2>3. CASE CommitDecision(r) \/ FailDecision(r)
    <3>1. UNCHANGED session \/ \E st \in Statuses : session' = Decided(r, st)
      BY <2>3 DEF CommitDecision, FailDecision, Statuses
    <3>2. QED
      BY <3>1, DecidedDoes
  <2>4. CASE \/ Start(r) \/ Refuse(r) \/ RunHooks(r) \/ LateWrite(r) \/ AfterHooks(r) \/ Validate(r)
             \/ Reconcile(r) \/ Simulate(r) \/ AuditPolicy(r) \/ Return(r) \/ FailEnrich(r)
             \/ Cancel(r)
    <3>1. UNCHANGED session
      BY <2>4 DEF Start, Refuse, RunHooks, LateWrite, AfterHooks, Validate, Reconcile, Simulate,
                  AuditPolicy, Return, FailEnrich, Cancel
    <3>2. QED
      BY <3>1
  <2>5. QED
    BY <1>1, <2>1, <2>2, <2>3, <2>4 DEF Acts, Step
<1>2. ASSUME NEW x \in Shared, CloseSession(x)
      PROVE  Opened
  BY <1>2, CloseSessionDoes
<1>3. ASSUME UNCHANGED vars
      PROVE  Opened
  BY <1>3 DEF vars
<1>4. QED
  BY <1>1, <1>2, <1>3, NextIs

\* A request comes to MARK only from its L1-L3 pass, directly or after the hooks.
LEMMA BeforeMark ==
    ASSUME NEW k \in {"validate", "simulate", "full"}, NEW st \in StagesOf(k) \ {"RESULT"}
    PROVE  /\ After[k][st] = "MARK" => st = "L1L3" \/ (k = "validate" /\ st = "POST_VALIDATE")
           /\ k = "validate" /\ After[k][st] = "POST_VALIDATE" => st = "L1L3"
<1>1. CASE k = "validate"
  <2>1. st \in {"PRE_VALIDATE", "L1L3", "POST_VALIDATE", "MARK", "TRACE", "DECISION"}
    BY <1>1 DEF StagesOf, Stages
  <2>2. QED
    BY <1>1, <2>1 DEF After
<1>2. CASE k = "simulate"
  <2>1. st \in {"PRE_SIMULATION", "L4", "L5", "LAYER_L5", "POST_SIMULATION", "TRACE", "DECISION"}
    BY <1>2 DEF StagesOf, Stages
  <2>2. QED
    BY <1>2, <2>1 DEF After
<1>3. CASE k = "full"
  <2>1. st \in {"PRE_VALIDATE", "L1L3", "MARK", "PRE_SIMULATION", "RECHECK", "L4", "L5", "LAYER_L5",
                "POLICY", "POST_SIMULATION", "POST_VALIDATE", "TRACE", "DECISION"}
    BY <1>3 DEF StagesOf, Stages
  <2>2. QED
    BY <1>3, <2>1 DEF After
<1>4. QED
  BY <1>1, <1>2, <1>3

LEMMA PassBeforeMark ==
    ASSUME Typed, GateRests, NEW r \in Requests, Acts(r),
           pc'[r] = "MARK" \/ (Kind[r] = "validate" /\ pc'[r] = "POST_VALIDATE")
    PROVE  HasPass(r)'
<1> DEFINE k == Kind[r]
<1>0. [Next]_vars
  BY DEF Next, Acts
<1>1. CASE HasPass(r)
  BY <1>0, <1>1, PassStays
<1>2. ASSUME ~HasPass(r)
      PROVE  pc[r] = "L1L3" /\ pc[r] \in StagesOf(k) \ {"RESULT"} /\ pc'[r] = After[k][pc[r]] /\ Step(r)
  <2>1. pc'[r] # Stages[k][1] /\ pc'[r] \notin FailureStages \cup {"done"}
    BY FirstStage DEF FailureStages
  <2>2. pc'[r] # pc[r]
    BY <1>2 DEF GateRests
  <2>3. pc[r] \in StagesOf(k) \ {"RESULT"} /\ pc'[r] = After[k][pc[r]] /\ Step(r)
    BY <2>1, <2>2, Moves
  <2>4. pc[r] = "L1L3" \/ (k = "validate" /\ pc[r] = "POST_VALIDATE")
    BY <2>3, BeforeMark
  <2>5. QED
    BY <1>2, <2>3, <2>4 DEF GateRests
<1>3. ASSUME ~HasPass(r)
      PROVE  HasPass(r)'
  <2>1. Validate(r) /\ pc[r] = "L1L3"
    BY <1>2, <1>3 DEF Step, AfterHooks, MarkGate, Reconcile, Simulate, AuditPolicy, CommitTrace,
                      CommitDecision, Return, FailTrace, FailDecision, FailEnrich, HookPoints
  <2>2. ~Raise(r)
    BY DEF Raise, Enter, Typed, TypeOK
  <2>3. RecordStep(r, [by |-> r, stage |-> "L1L3"])
    BY <2>1, <2>2 DEF Validate
  <2> DEFINE step == [by |-> r, stage |-> "L1L3"]
  <2>4. trace'[r] = Append(trace[r], step) /\ trace[r] \in Seq(Steps)
    BY <2>3 DEF RecordStep, Typed, TypeOK
  <2> HIDE DEF step
  <2>5. Len(trace'[r]) \in 1..Len(trace'[r]) /\ trace'[r][Len(trace'[r])] = step
    BY <2>4
  <2>6. QED
    BY <2>5 DEF HasPass, step
<1>4. QED
  BY <1>1, <1>3

LEMMA GateRestsStep ==
    ASSUME Typed, GateRests, [Next]_vars
    PROVE  GateRests'
<1>1. ASSUME NEW s \in Sessions, session'[s].gate
      PROVE  \E q \in Requests : SessionOf[q] = s /\ HasPass(q)'
  <2>1. CASE session[s].gate
    BY <2>1, PassStays DEF GateRests
  <2>2. ASSUME NEW r \in Requests, MarkGate(r), SessionOf[r] = s
        PROVE  HasPass(r)'
    BY <2>2, PassStays DEF MarkGate, GateRests
  <2>3. QED
    BY <1>1, <2>1, <2>2, GateOpens
<1>2. ASSUME NEW r \in Requests,
             pc'[r] = "MARK" \/ (Kind[r] = "validate" /\ pc'[r] = "POST_VALIDATE")
      PROVE  HasPass(r)'
  <2>1. CASE Acts(r)
    BY <1>2, <2>1, PassBeforeMark
  <2>2. CASE pc'[r] = pc[r]
    BY <1>2, <2>2, PassStays DEF GateRests
  <2>3. ASSUME NEW q \in Requests \ {r}, Acts(q)
        PROVE  pc'[r] = pc[r]
    BY <2>3, ActsAreLocal DEF Untouched
  <2>4. ASSUME NEW s \in Shared, CloseSession(s)
        PROVE  pc'[r] = pc[r]
    BY <2>4 DEF CloseSession
  <2>5. QED
    BY <2>1, <2>2, <2>3, <2>4, NextIs DEF vars
<1>3. QED
  BY <1>1, <1>2 DEF GateRests

\* the pass that let simulate-only request r through
Earned(r) == \E q \in Requests : SessionOf[q] = SessionOf[r] /\ HasPass(q)

LEMMA GateIsEarnedStep ==
    ASSUME Typed, JobIsCurrent, GateRests, GateIsEarned, [Next]_vars
    PROVE  GateIsEarned'
<1>1. SUFFICES ASSUME RequireGate, NEW r \in Requests,
                      Kind[r] = "simulate", pc'[r] # "idle", told'[r] # "refused"
               PROVE  Earned(r)'
  BY DEF GateIsEarned, Earned, HasPass
<1>2. CASE Earned(r)
  BY <1>2, PassStays DEF Earned
<1>3. ASSUME pc[r] # "idle", told[r] # "refused"
      PROVE  Earned(r)
  BY <1>1, <1>3 DEF GateIsEarned, Earned, HasPass
<1>4. CASE Start(r)
  <2>1. session[SessionOf[r]].gate /\ SessionOf[r] \in Sessions
    BY <1>1, <1>4 DEF Start, GatePassed, Sessions
  <2>2. Earned(r)
    BY <2>1 DEF GateRests, Earned
  <2>3. QED
    BY <1>2, <2>2
<1>5. ASSUME ~Start(r)
      PROVE  pc[r] # "idle" /\ told[r] # "refused"
  <2>1. CASE pc'[r] = pc[r] /\ told'[r] = told[r]
    BY <1>1, <2>1
  <2>2. CASE Acts(r)
    <3>1. ~Refuse(r)
      BY <1>1 DEF Refuse, Typed, TypeOK
    <3>2. pc[r] # "idle" \/ RunHooks(r) \/ LateWrite(r)
      BY <1>5, <2>2, <3>1 DEF Acts, Step, AfterHooks, Validate, MarkGate, Reconcile, Simulate,
              AuditPolicy, CommitTrace, CommitDecision, Return, FailTrace, FailDecision,
              FailEnrich, Cancel, HookPoints
    <3>3. pc[r] # "idle"
      BY <1>1, <3>2 DEF RunHooks, LateWrite
    <3>4. told[r] # "refused"
      <4>1. pc[r] = "done" => UNCHANGED told
        BY <1>5, <2>2, <3>1 DEF Acts, Step, AfterHooks, Validate, MarkGate, Reconcile, Simulate,
              AuditPolicy, CommitTrace, CommitDecision, Return, FailTrace, FailDecision,
              FailEnrich, Cancel, HookPoints, RunHooks, LateWrite
      <4>2. QED
        BY <1>1, <4>1 DEF JobIsCurrent, None
    <3>5. QED
      BY <3>3, <3>4
  <2>3. ASSUME NEW q \in Requests \ {r}, Acts(q)
        PROVE  pc'[r] = pc[r] /\ told'[r] = told[r]
    BY <2>3, ActsAreLocal DEF Untouched
  <2>4. ASSUME NEW s \in Shared, CloseSession(s)
        PROVE  pc'[r] = pc[r] /\ told'[r] = told[r]
    BY <2>4 DEF CloseSession
  <2>5. QED
    BY <2>1, <2>2, <2>3, <2>4, NextIs DEF vars
<1>6. QED
  BY <1>2, <1>3, <1>4, <1>5


\* With simulate_only_requires_prior_validate, a simulation runs only in a session in
\* which some request has an L1-L3 pass in its trace, in any interleaving: the gate is
\* opened by nothing else, and traces only grow.
THEOREM GateIsEarnedHolds == Spec => []GateIsEarned
<1>1. Init => GateRests /\ GateIsEarned
  BY DEF Init, GateRests, GateIsEarned
<1>2. ASSUME Typed, JobIsCurrent, GateRests, GateIsEarned, [Next]_vars
      PROVE  GateRests' /\ GateIsEarned'
  BY <1>2, GateRestsStep, GateIsEarnedStep
<1>3. QED
  BY <1>1, <1>2, JobHolds, PTL DEF Spec

-----------------------------------------------------------------------------
(***************************************************************************)
(* Verdicts in a timeline                                                  *)
(***************************************************************************)

\* the indices in timeline T of the entries of kind ev that r wrote
Own(T, r, ev) == {i \in 1..Len(T) : T[i].by = r /\ T[i].ev = ev}

Undecided(T, r) == Own(T, r, "decision") = {}

\* the last trace of r in T has status st
LastTrace(T, r, st) ==
    \E i \in Own(T, r, "trace") : T[i].st = st /\ \A k \in Own(T, r, "trace") : k <= i

\* T holds one decision of r, of status st, and so is the last trace of r before it
Verdict(T, r, st) ==
    \E j \in Own(T, r, "decision") :
        /\ \A k \in Own(T, r, "decision") : k = j
        /\ T[j].st = st
        /\ \E i \in Own(T, r, "trace") :
              /\ i < j
              /\ T[i].st = st
              /\ \A k \in Own(T, r, "trace") : k < j => k <= i

\* No session is used by requests of two clients: record and verdict part where it is
\* (section 3 of the README).
OneClientPerSession ==
    \A q, r \in Requests : SessionOf[q] = SessionOf[r] => ClientOf[q] = ClientOf[r]

\* a trace in a session is one of a request that uses it, of that request's client
TracesOwned ==
    \A s \in Sessions : \A i \in 1..Len(session[s].timeline) :
        LET e == session[s].timeline[i]
        IN  e.ev = "trace" => /\ e.by \in Requests
                              /\ SessionOf[e.by] = s
                              /\ e.client = ClientOf[e.by]

\* the verdict of r, at each point of its course
Reached(r) ==
    LET T == Timeline(r)
    IN  /\ pc[r] \notin {"RESULT", "F_ENRICH", "done"} => Undecided(T, r)
        /\ pc[r] = "DECISION" => LastTrace(T, r, "ok")
        /\ pc[r] = "F_DECISION" => LastTrace(T, r, "rejected")
        /\ pc[r] = "RESULT" => Verdict(T, r, "ok")
        /\ pc[r] = "F_ENRICH" => Verdict(T, r, "rejected")
        /\ pc[r] = "done" =>
              /\ told[r] = "approved" => Verdict(T, r, "ok")
              /\ told[r] = "blocked" => Verdict(T, r, "rejected")
              /\ told[r] \notin {"approved", "blocked"} => Undecided(T, r)

VerdictReached == TracesOwned /\ \A r \in Requests : Reached(r)

ClosedAs(r, st) ==
    /\ session[r].lifecycle = "finalized"
    /\ Timeline(r) = <<Entry(r, "trace", st), Entry(r, "decision", st), Entry(r, "finalize", st)>>

\* the session of a request that has its own, at each point of its course
ManagedCourse ==
    \A r \in Requests : Managed(r) =>
        /\ pc[r] \notin {"DECISION", "RESULT", "F_DECISION", "F_ENRICH", "done"} =>
              session[r].lifecycle = "open" /\ Timeline(r) = <<>>
        /\ pc[r] = "DECISION" =>
              session[r].lifecycle = "running" /\ Timeline(r) = <<Entry(r, "trace", "ok")>>
        /\ pc[r] = "F_DECISION" =>
              session[r].lifecycle = "running" /\ Timeline(r) = <<Entry(r, "trace", "rejected")>>
        /\ pc[r] = "RESULT" => ClosedAs(r, "ok")
        /\ pc[r] = "F_ENRICH" => ClosedAs(r, "rejected")
        /\ pc[r] = "done" =>
              /\ told[r] = "approved" => ClosedAs(r, "ok")
              /\ told[r] = "blocked" => ClosedAs(r, "rejected")
              /\ told[r] \in {"approved", "blocked", "refused", "cancelled"}

\* how many steps the trace of a request of each kind has when it comes to a stage
Count ==
    [validate |-> [PRE_VALIDATE |-> 0, L1L3 |-> 1, POST_VALIDATE |-> 2, MARK |-> 3,
                   TRACE |-> 3, DECISION |-> 3, RESULT |-> 3],
     simulate |-> [PRE_SIMULATION |-> 0, L4 |-> 1, L5 |-> 2, LAYER_L5 |-> 2,
                   POST_SIMULATION |-> 4, TRACE |-> 5, DECISION |-> 5, RESULT |-> 5],
     full     |-> [PRE_VALIDATE |-> 0, L1L3 |-> 1, MARK |-> 2, PRE_SIMULATION |-> 2,
                   RECHECK |-> 3, L4 |-> 4, L5 |-> 5, LAYER_L5 |-> 5, POLICY |-> 7,
                   POST_SIMULATION |-> 7, POST_VALIDATE |-> 8, TRACE |-> 9,
                   DECISION |-> 9, RESULT |-> 9]]

\* the first n steps of the evidence of r
Evidence(r, n) == [i \in 1..n |-> [by |-> r, stage |-> EvidenceOf[Kind[r]][i]]]

AllEvidence(r) == Evidence(r, Len(EvidenceOf[Kind[r]]))

\* the trace of r holds the steps so far, that of the hooks it waits for included
EvidenceSoFar ==
    \A r \in Requests :
        /\ pc[r] = "idle" => trace[r] = Evidence(r, 0)
        /\ pc[r] \in StagesOf(Kind[r]) =>
              trace[r] = Evidence(r, Count[Kind[r]][pc[r]]
                                     + IF result[r] \in {"passed", "blocked"} THEN 1 ELSE 0)
        /\ pc[r] \in {"DECISION", "RESULT"} \/ told[r] = "approved" =>
              recorded[r] = AllEvidence(r)

\* the hooks of a request find its recorder: in the context of its task, or bound to a
\* client that has no other request
FindsRecorder ==
    \/ HookPoints \subseteq Coroutines
    \/ \A q, r \in Requests : ClientOf[q] = ClientOf[r] => q = r

-----------------------------------------------------------------------------
(***************************************************************************)
(* What a step adds to a timeline                                          *)
(***************************************************************************)

\* q adds to T one trace, one decision, or a decision with the finalize after it
Adds(q, T, U) ==
    \E st \in Statuses :
        \/ U = Append(T, Entry(q, "trace", st))
        \/ U = Append(T, Entry(q, "decision", st))
        \/ U = Append(Append(T, Entry(q, "decision", st)), Entry(q, "finalize", st))

LEMMA TimelineType ==
    ASSUME Typed, NEW s \in Sessions
    PROVE  session[s].timeline \in Ledger /\ session[s] \in SessionRecord
  BY DEF Typed, TypeOK, SessionRecord, Ledger

\* A request writes to its own session only.
LEMMA ActsOnTimelines ==
    ASSUME Typed, NEW q \in Requests, Acts(q), NEW s \in Sessions
    PROVE  \/ session'[s].timeline = session[s].timeline
           \/ s = SessionOf[q] /\ Adds(q, session[s].timeline, session'[s].timeline)
<1> DEFINE Good == \/ session'[s].timeline = session[s].timeline
                   \/ s = SessionOf[q] /\ Adds(q, session[s].timeline, session'[s].timeline)
<1>1. CASE MarkGate(q)
  BY <1>1, MarkGateDoes
<1>2. ASSUME NEW st \in Statuses, NEW steps, RecordTrace(q, st, steps)
      PROVE  Good
  BY <1>2, RecordTraceDoes DEF Adds, Timeline
<1>3. ASSUME NEW st \in Statuses, session' = Decided(q, st)
      PROVE  Good
  <2>1. CASE s = SessionOf[q]
    <3> DEFINE T == session[s].timeline
               U == session'[s].timeline
               d == Entry(q, "decision", st)
    <3>1. U = IF Managed(q) THEN Append(Append(T, d), Entry(q, "finalize", st)) ELSE Append(T, d)
      BY <1>3, <2>1, DecidedDoes DEF Timeline
    <3> HIDE DEF T, U
    <3>2. Adds(q, T, U)
      BY <3>1 DEF Adds
    <3>3. QED
      BY <2>1, <3>2 DEF T, U
  <2>2. CASE s # SessionOf[q]
    BY <1>3, <2>2, DecidedDoes
  <2>3. QED
    BY <2>1, <2>2
<1>4. ASSUME UNCHANGED session
      PROVE  Good
  BY <1>4
<1>5. CASE CommitTrace(q) \/ FailTrace(q)
  <2>1. UNCHANGED session \/ \E st \in Statuses : \E steps : RecordTrace(q, st, steps)
    BY <1>5 DEF CommitTrace, FailTrace, Statuses
  <2>2. QED
    BY <1>2, <1>4, <2>1
<1>6. CASE CommitDecision(q) \/ FailDecision(q)
  <2>1. UNCHANGED session \/ \E st \in Statuses : session' = Decided(q, st)
    BY <1>6 DEF CommitDecision, FailDecision, Statuses
  <2>2. QED
    BY <1>3, <1>4, <2>1
<1>7. CASE \/ Start(q) \/ Refuse(q) \/ RunHooks(q) \/ LateWrite(q) \/ AfterHooks(q) \/ Validate(q)
           \/ Reconcile(q) \/ Simulate(q) \/ AuditPolicy(q) \/ Return(q) \/ FailEnrich(q)
           \/ Cancel(q)
  <2>1. UNCHANGED session
    BY <1>7 DEF Start, Refuse, RunHooks, LateWrite, AfterHooks, Validate, Reconcile, Simulate,
                AuditPolicy, Return, FailEnrich, Cancel
  <2>2. QED
    BY <1>4, <2>1
<1>8. QED
  BY <1>1, <1>5, <1>6, <1>7 DEF Acts, Step

\* U is T with entries after it that are neither a trace nor a decision of r
Extends(T, U, r) ==
    /\ Len(T) \in Nat /\ Len(U) \in Nat /\ Len(T) <= Len(U)
    /\ \A i \in 1..Len(T) : U[i] = T[i]
    /\ \A i \in 1..Len(U) : i > Len(T) => U[i].by # r \/ U[i].ev \notin {"trace", "decision"}

LEMMA ExtendsOwn ==
    ASSUME NEW T, NEW U, NEW r, Extends(T, U, r), NEW ev \in {"trace", "decision"}
    PROVE  Own(U, r, ev) = Own(T, r, ev)
  BY DEF Extends, Own

\* What others write, and what is no trace or decision, changes no verdict.
LEMMA ExtendsKeeps ==
    ASSUME NEW T, NEW U, NEW r, Extends(T, U, r)
    PROVE  /\ Undecided(T, r) => Undecided(U, r)
           /\ \A st : LastTrace(T, r, st) => LastTrace(U, r, st)
           /\ \A st : Verdict(T, r, st) => Verdict(U, r, st)
<1>1. Own(U, r, "trace") = Own(T, r, "trace") /\ Own(U, r, "decision") = Own(T, r, "decision")
  BY ExtendsOwn
<1>2. \A ev : \A i \in Own(T, r, ev) : U[i] = T[i]
  BY DEF Own, Extends
<1>3. QED
  BY <1>1, <1>2 DEF Undecided, LastTrace, Verdict

LEMMA AppendExtends ==
    ASSUME NEW T \in Ledger, NEW r, NEW e, e.by # r \/ e.ev \notin {"trace", "decision"}
    PROVE  Extends(T, Append(T, e), r)
  BY DEF Extends, Ledger

LEMMA AppendGives ==
    ASSUME NEW T \in Ledger, NEW e
    PROVE  /\ Len(T) \in Nat
           /\ Len(Append(T, e)) = Len(T) + 1
           /\ Append(T, e)[Len(T) + 1] = e
           /\ \A i \in 1..Len(T) : Append(T, e)[i] = T[i]
  BY DEF Ledger

\* A trace is the last one of its request; a decision after it is a verdict.
LEMMA AppendTrace ==
    ASSUME NEW T \in Ledger, NEW r \in Requests, NEW st \in Statuses, Undecided(T, r),
           NEW U, U = Append(T, Entry(r, "trace", st))
    PROVE  Undecided(U, r) /\ LastTrace(U, r, st)
<1> DEFINE e == Entry(r, "trace", st)
           n == Len(T) + 1
<1>1. e.by = r /\ e.ev = "trace" /\ e.st = st
  BY DEF Entry
<1>2. n - 1 \in Nat /\ n - 1 = Len(T) /\ Len(U) = n /\ U[n] = e /\ \A i \in 1..(n - 1) : U[i] = T[i]
  BY AppendGives
<1> HIDE DEF e, n
<1>3. Own(U, r, "decision") = Own(T, r, "decision")
  BY <1>1, <1>2 DEF Own
<1>4. Own(U, r, "trace") = Own(T, r, "trace") \cup {n}
  BY <1>1, <1>2 DEF Own
<1>5. \A k \in Own(T, r, "trace") : k <= n
  BY <1>2 DEF Own
<1>6. QED
  BY <1>1, <1>2, <1>3, <1>4, <1>5 DEF Undecided, LastTrace

LEMMA AppendDecision ==
    ASSUME NEW T \in Ledger, NEW r \in Requests, NEW st \in Statuses, Undecided(T, r),
           LastTrace(T, r, st), NEW U, U = Append(T, Entry(r, "decision", st))
    PROVE  Verdict(U, r, st)
<1> DEFINE e == Entry(r, "decision", st)
           n == Len(T) + 1
<1>1. e.by = r /\ e.ev = "decision" /\ e.st = st
  BY DEF Entry
<1>2. n - 1 \in Nat /\ n - 1 = Len(T) /\ Len(U) = n /\ U[n] = e /\ \A i \in 1..(n - 1) : U[i] = T[i]
  BY AppendGives
<1> HIDE DEF e, n
<1>3. Own(U, r, "decision") = {n}
  BY <1>1, <1>2 DEF Own, Undecided
<1>4. Own(U, r, "trace") = Own(T, r, "trace")
  BY <1>1, <1>2 DEF Own
<1>5. PICK i \in Own(T, r, "trace") : T[i].st = st /\ \A k \in Own(T, r, "trace") : k <= i
  BY DEF LastTrace
<1>6. i \in 1..(n - 1) /\ i < n
  BY <1>2, <1>5 DEF Own
<1>7. QED
  BY <1>1, <1>2, <1>3, <1>4, <1>5, <1>6 DEF Verdict

\* An act of q extends the timeline of any other request.
LEMMA OthersExtend ==
    ASSUME Typed, Typed', NEW q \in Requests, Acts(q), NEW r \in Requests \ {q}
    PROVE  Extends(Timeline(r), Timeline(r)', r)
<1> DEFINE T == Timeline(r)
           U == Timeline(r)'
<1>1. SessionOf[r] \in Sessions
  BY DEF Sessions
<1>2. T \in Ledger /\ U \in Ledger
  BY <1>1, TimelineType DEF Timeline, Typed, TypeOK, Ledger
<1>3. U = T \/ Adds(q, T, U)
  BY <1>1, ActsOnTimelines DEF Timeline
<1>4. \A ev, st : Entry(q, ev, st).by # r
  BY DEF Entry
<1> HIDE DEF T, U
<1>5. ASSUME U = T
      PROVE  Extends(T, U, r)
  <2>1. Len(T) \in Nat
    BY <1>2 DEF Ledger
  <2>2. QED
    BY <1>5, <2>1 DEF Extends
<1>6. ASSUME NEW ev, NEW st, U = Append(T, Entry(q, ev, st))
      PROVE  Extends(T, U, r)
  BY <1>2, <1>4, <1>6, AppendExtends
<1>7. ASSUME NEW d, NEW f, d.by # r, f.by # r, U = Append(Append(T, d), f)
      PROVE  Extends(T, U, r)
  BY <1>2, <1>7 DEF Extends, Ledger
<1>8. Extends(T, U, r)
  <2>1. CASE Adds(q, T, U)
    <3>1. PICK st \in Statuses :
             \/ U = Append(T, Entry(q, "trace", st))
             \/ U = Append(T, Entry(q, "decision", st))
             \/ U = Append(Append(T, Entry(q, "decision", st)), Entry(q, "finalize", st))
      BY <2>1 DEF Adds
    <3>2. CASE \E ev : U = Append(T, Entry(q, ev, st))
      BY <1>6, <3>2
    <3>3. CASE U = Append(Append(T, Entry(q, "decision", st)), Entry(q, "finalize", st))
      BY <1>4, <1>7, <3>3
    <3>4. QED
      BY <3>1, <3>2, <3>3
  <2>2. QED
    BY <1>3, <1>5, <2>1
<1>9. QED
  BY <1>8 DEF T, U

-----------------------------------------------------------------------------
(***************************************************************************)
(* The verdict of a request                                                *)
(***************************************************************************)

\* where the last stages of every kind lead
LEMMA RecordStages ==
    ASSUME NEW k \in {"validate", "simulate", "full"}
    PROVE  /\ {"TRACE", "DECISION", "RESULT"} \subseteq StagesOf(k)
           /\ After[k]["TRACE"] = "DECISION" /\ After[k]["DECISION"] = "RESULT"
           /\ \A st \in StagesOf(k) \ {"TRACE", "DECISION", "RESULT"} :
                 After[k][st] \notin {"DECISION", "RESULT"}
<1>1. CASE k = "validate"
  <2>1. StagesOf(k) = {"PRE_VALIDATE", "L1L3", "POST_VALIDATE", "MARK", "TRACE", "DECISION", "RESULT"}
    BY <1>1 DEF StagesOf, Stages
  <2>2. QED
    BY <1>1, <2>1 DEF After
<1>2. CASE k = "simulate"
  <2>1. StagesOf(k) = {"PRE_SIMULATION", "L4", "L5", "LAYER_L5", "POST_SIMULATION", "TRACE",
                       "DECISION", "RESULT"}
    BY <1>2 DEF StagesOf, Stages
  <2>2. QED
    BY <1>2, <2>1 DEF After
<1>3. CASE k = "full"
  <2>1. StagesOf(k) = {"PRE_VALIDATE", "L1L3", "MARK", "PRE_SIMULATION", "RECHECK", "L4", "L5",
                       "LAYER_L5", "POLICY", "POST_SIMULATION", "POST_VALIDATE", "TRACE",
                       "DECISION", "RESULT"}
    BY <1>3 DEF StagesOf, Stages
  <2>2. QED
    BY <1>3, <2>1 DEF After
<1>4. QED
  BY <1>1, <1>2, <1>3

Records(r) ==
    \/ CommitTrace(r) \/ CommitDecision(r) \/ Return(r)
    \/ FailTrace(r) \/ FailDecision(r) \/ FailEnrich(r)

\* An act that records nothing leaves the session's timeline alone, and comes to none of
\* the stages at which something is on record, unless to an end without a verdict.
LEMMA OtherActs ==
    ASSUME Typed, JobIsCurrent, NEW r \in Requests, Acts(r), ~Records(r)
    PROVE  /\ Timeline(r)' = Timeline(r)
           /\ session'[SessionOf[r]].lifecycle = session[SessionOf[r]].lifecycle
           /\ \/ pc'[r] = pc[r] /\ told'[r] = told[r]
              \/ /\ pc[r] \notin {"DECISION", "RESULT", "F_DECISION", "F_ENRICH", "done"}
                 /\ \/ pc'[r] \notin {"DECISION", "RESULT", "F_DECISION", "F_ENRICH", "done"}
                    \/ pc'[r] = "done" /\ told'[r] \in {"refused", "cancelled"}
<1> DEFINE Late == {"DECISION", "RESULT", "F_DECISION", "F_ENRICH", "done"}
<1>1. SessionOf[r] \in Sessions
  BY DEF Sessions
<1>2. /\ Timeline(r)' = Timeline(r)
      /\ session'[SessionOf[r]].lifecycle = session[SessionOf[r]].lifecycle
  <2>1. CASE MarkGate(r)
    BY <1>1, <2>1, MarkGateDoes DEF Timeline
  <2>2. CASE ~MarkGate(r)
    <3>1. UNCHANGED session
      BY <2>2 DEF Acts, Step, Records, Start, Refuse, RunHooks, LateWrite, AfterHooks, Validate,
                  Reconcile, Simulate, AuditPolicy, Cancel
    <3>2. QED
      BY <3>1 DEF Timeline
  <2>3. QED
    BY <2>1, <2>2
<1>3. CASE RunHooks(r) \/ LateWrite(r)
  BY <1>2, <1>3 DEF RunHooks, LateWrite
<1>4. CASE Start(r)
  <2>1. pc[r] = "idle" /\ pc'[r] = Stages[Kind[r]][1]
    BY <1>4 DEF Start, Enter, Typed, TypeOK
  <2>2. pc'[r] \in {"PRE_VALIDATE", "PRE_SIMULATION"}
    BY <2>1, FirstStage
  <2>3. QED
    BY <1>2, <2>1, <2>2
<1>5. CASE Refuse(r)
  BY <1>2, <1>5 DEF Refuse, Typed, TypeOK
<1>6. CASE Cancel(r)
  BY <1>2, <1>6 DEF Cancel, End, HookPoints, Typed, TypeOK
<1>7. CASE \/ AfterHooks(r) \/ Validate(r) \/ MarkGate(r) \/ Reconcile(r) \/ Simulate(r)
           \/ AuditPolicy(r)
  <2>1. pc[r] \in HookPoints \cup {"L1L3", "RECHECK", "MARK", "L4", "L5", "POLICY"}
    BY <1>7 DEF AfterHooks, Validate, MarkGate, Reconcile, Simulate, AuditPolicy
  <2>2. pc[r] \in StagesOf(Kind[r]) \ {"TRACE", "DECISION", "RESULT"}
    BY <2>1 DEF HookPoints, Typed, AtOwnStage, FailureStages
  <2>3. Enter(r, Following(r)) \/ Raise(r)
    BY <1>7 DEF AfterHooks, Validate, MarkGate, Reconcile, Simulate, AuditPolicy
  <2>4. pc'[r] = Following(r) \/ pc'[r] = "F_TRACE"
    BY <2>3 DEF Enter, Raise, Typed, TypeOK
  <2>5. Following(r) = After[Kind[r]][pc[r]]
    BY <2>2, FollowingIs
  <2>6. Following(r) \in StagesOf(Kind[r]) /\ Following(r) \notin {"DECISION", "RESULT"}
    BY <2>2, <2>5, RecordStages, AfterType
  <2>7. pc'[r] \notin Late
    BY <2>4, <2>6, StageNamesAre DEF FailureStages
  <2>8. pc[r] \notin Late
    BY <2>1 DEF HookPoints
  <2>9. QED
    BY <1>2, <2>7, <2>8
<1>8. QED
  BY <1>3, <1>4, <1>5, <1>6, <1>7 DEF Acts, Step, Records

LEMMA TracesOwnedStep ==
    ASSUME Typed, TracesOwned, [Next]_vars
    PROVE  TracesOwned'
<1> DEFINE Fits(e, s) == e.ev = "trace" => /\ e.by \in Requests
                                           /\ SessionOf[e.by] = s
                                           /\ e.client = ClientOf[e.by]
<1>1. SUFFICES ASSUME NEW s \in Sessions
               PROVE  \A i \in 1..Len(session'[s].timeline) : Fits(session'[s].timeline[i], s)
  BY DEF TracesOwned
<1> DEFINE T == session[s].timeline
           U == session'[s].timeline
<1>2. T \in Ledger /\ \A i \in 1..Len(T) : Fits(T[i], s)
  BY TimelineType DEF TracesOwned
<1>3. /\ \A q \in Requests : SessionOf[q] = s => \A ev, st : Fits(Entry(q, ev, st), s)
      /\ Fits(OwnerEntry("finalize"), s)
  BY DEF Entry, OwnerEntry
<1> HIDE DEF T, Fits
<1>4. ASSUME NEW V \in Ledger, \A i \in 1..Len(V) : Fits(V[i], s), NEW e, Fits(e, s)
      PROVE  \A i \in 1..Len(Append(V, e)) : Fits(Append(V, e)[i], s)
  <2>1. \A i \in 1..Len(Append(V, e)) : i \in 1..Len(V) \/ i = Len(V) + 1
    BY AppendGives
  <2>2. QED
    BY <1>4, <2>1, AppendGives
<1>5. CASE U = T
  BY <1>2, <1>5
<1>6. ASSUME NEW q \in Requests, SessionOf[q] = s, Adds(q, T, U)
      PROVE  \A i \in 1..Len(U) : Fits(U[i], s)
  <2>1. PICK st \in Statuses :
           \/ U = Append(T, Entry(q, "trace", st))
           \/ U = Append(T, Entry(q, "decision", st))
           \/ U = Append(Append(T, Entry(q, "decision", st)), Entry(q, "finalize", st))
    BY <1>6 DEF Adds
  <2> HIDE DEF U
  <2>2. CASE U = Append(T, Entry(q, "trace", st)) \/ U = Append(T, Entry(q, "decision", st))
    BY <1>2, <1>3, <1>4, <1>6, <2>2
  <2>3. CASE U = Append(Append(T, Entry(q, "decision", st)), Entry(q, "finalize", st))
    <3> DEFINE V == Append(T, Entry(q, "decision", st))
    <3>1. V \in Ledger
      BY <1>2, LedgerAppend DEF Kinds, EventTypes
    <3>2. \A i \in 1..Len(V) : Fits(V[i], s)
      BY <1>2, <1>3, <1>4, <1>6
    <3> HIDE DEF V
    <3>3. U = Append(V, Entry(q, "finalize", st))
      BY <2>3 DEF V
    <3>4. QED
      BY <1>3, <1>4, <1>6, <3>1, <3>2, <3>3
  <2>4. QED
    BY <2>1, <2>2, <2>3
<1>7. ASSUME NEW q \in Requests, Acts(q)
      PROVE  \A i \in 1..Len(U) : Fits(U[i], s)
  BY <1>5, <1>6, <1>7, ActsOnTimelines DEF T
<1>8. ASSUME NEW x \in Shared, CloseSession(x)
      PROVE  \A i \in 1..Len(U) : Fits(U[i], s)
  <2>1. U = T \/ U = Append(T, OwnerEntry("finalize"))
    BY <1>8, CloseSessionDoes DEF T
  <2> HIDE DEF U
  <2>2. QED
    BY <1>2, <1>3, <1>4, <1>5, <2>1
<1>9. CASE UNCHANGED vars
  BY <1>5, <1>9 DEF vars, T
<1>10. QED
  BY <1>7, <1>8, <1>9, NextIs

LEMMA BundleWorks ==
    ASSUME OneClientPerSession, TracesOwned, NEW r \in Requests
    PROVE  CanBundle(SessionOf[r])
<1>1. SessionOf[r] \in Sessions
  BY DEF Sessions
<1>2. QED
  BY <1>1 DEF CanBundle, TracesOwned, OneClientPerSession

LEMMA ReachedOwn ==
    ASSUME OneClientPerSession, Typed, JobIsCurrent, VerdictReached, NEW r \in Requests, Acts(r)
    PROVE  Reached(r)'
<1> DEFINE T == Timeline(r)
           U == Timeline(r)'
           Now(V, p, t) ==
               /\ p \notin {"RESULT", "F_ENRICH", "done"} => Undecided(V, r)
               /\ p = "DECISION" => LastTrace(V, r, "ok")
               /\ p = "F_DECISION" => LastTrace(V, r, "rejected")
               /\ p = "RESULT" => Verdict(V, r, "ok")
               /\ p = "F_ENRICH" => Verdict(V, r, "rejected")
               /\ p = "done" =>
                     /\ t = "approved" => Verdict(V, r, "ok")
                     /\ t = "blocked" => Verdict(V, r, "rejected")
                     /\ t \notin {"approved", "blocked"} => Undecided(V, r)
<1>1. Now(T, pc[r], told[r])
  BY DEF VerdictReached, Reached
<1>2. SUFFICES Now(U, pc'[r], told'[r])
  BY DEF Reached
<1>3. T \in Ledger /\ SessionOf[r] \in Sessions
  BY TimelineType DEF Timeline, Sessions
<1>4. CanBundle(SessionOf[r])
  BY BundleWorks DEF VerdictReached
<1>5. ASSUME NEW st, Enter(r, st)
      PROVE  pc'[r] = st
  BY <1>5 DEF Enter, Typed, TypeOK
<1>6. ASSUME NEW how, End(r, how)
      PROVE  pc'[r] = "done" /\ told'[r] = how
  BY <1>6 DEF End, Typed, TypeOK
<1>7. ASSUME Raise(r)
      PROVE  pc'[r] = "F_TRACE"
  BY <1>5, <1>7 DEF Raise
<1>8. ASSUME UNCHANGED session
      PROVE  U = T
  BY <1>8 DEF Timeline
<1>9. ASSUME NEW st \in Statuses, NEW steps, RecordTrace(r, st, steps)
      PROVE  U = Append(T, Entry(r, "trace", st))
  BY <1>9, RecordTraceDoes DEF Timeline
<1>10. ASSUME NEW st \in {"ok", "rejected"}, session' = Decided(r, st), Undecided(T, r),
              LastTrace(T, r, st)
       PROVE  Verdict(U, r, st)
  <2> DEFINE V == Append(T, Entry(r, "decision", st))
             f == Entry(r, "finalize", st)
  <2>1. U = IF Managed(r) THEN Append(V, f) ELSE V
    BY <1>10, DecidedDoes DEF Timeline, Statuses
  <2>2. Verdict(V, r, st) /\ V \in Ledger
    <3>1. st \in Statuses
      BY <1>10 DEF Statuses
    <3>2. V \in Ledger
      BY <1>3, <3>1, LedgerAppend DEF Kinds, EventTypes
    <3> HIDE DEF T
    <3>3. Verdict(V, r, st)
      BY <1>3, <1>10, <3>1, AppendDecision
    <3>4. QED
      BY <3>2, <3>3
  <2>3. f.ev = "finalize"
    BY DEF Entry
  <2> HIDE DEF V, f
  <2>4. Extends(V, Append(V, f), r)
    BY <2>2, <2>3, AppendExtends
  <2>5. Verdict(Append(V, f), r, st)
    BY <2>2, <2>4, ExtendsKeeps
  <2> HIDE DEF U
  <2>6. QED
    BY <2>1, <2>2, <2>5
<1>11. CASE ~Records(r)
  <2>1. /\ U = T
        /\ \/ pc'[r] = pc[r] /\ told'[r] = told[r]
           \/ /\ pc[r] \notin {"DECISION", "RESULT", "F_DECISION", "F_ENRICH", "done"}
              /\ \/ pc'[r] \notin {"DECISION", "RESULT", "F_DECISION", "F_ENRICH", "done"}
                 \/ pc'[r] = "done" /\ told'[r] \in {"refused", "cancelled"}
    BY <1>11, OtherActs
  <2> HIDE DEF T, U
  <2>2. QED
    BY <1>1, <2>1
<1>12. CASE CommitTrace(r)
  <2>1. pc[r] = "TRACE"
    BY <1>12 DEF CommitTrace
  <2>2. Following(r) = "DECISION"
    BY <2>1, FollowingIs, RecordStages
  <2>3. \/ U = Append(T, Entry(r, "trace", "ok")) /\ pc'[r] = "DECISION"
        \/ U = T /\ pc'[r] = "F_TRACE"
    BY <1>5, <1>7, <1>8, <1>9, <1>12, <2>2 DEF CommitTrace, Statuses
  <2> HIDE DEF T, U
  <2>4. Undecided(T, r)
    BY <1>1, <2>1
  <2>5. QED
    BY <1>3, <2>3, <2>4, AppendTrace DEF Statuses
<1>13. CASE CommitDecision(r)
  <2>1. pc[r] = "DECISION"
    BY <1>13 DEF CommitDecision
  <2>2. Following(r) = "RESULT"
    BY <2>1, FollowingIs, RecordStages
  <2>3. Undecided(T, r) /\ LastTrace(T, r, "ok")
    BY <1>1, <2>1
  <2>4. \/ Verdict(U, r, "ok") /\ pc'[r] = "RESULT"
        \/ U = T /\ pc'[r] = "F_TRACE"
    BY <1>5, <1>7, <1>8, <1>10, <1>13, <2>2, <2>3 DEF CommitDecision
  <2> HIDE DEF T, U
  <2>5. QED
    BY <2>3, <2>4
<1>14. CASE Return(r)
  <2>1. pc[r] = "RESULT" /\ End(r, "approved") /\ U = T
    BY <1>4, <1>8, <1>14 DEF Return
  <2>2. pc'[r] = "done" /\ told'[r] = "approved"
    BY <1>6, <2>1
  <2> HIDE DEF T, U
  <2>3. QED
    BY <1>1, <2>1, <2>2
<1>15. CASE FailTrace(r)
  <2>1. pc[r] = "F_TRACE"
    BY <1>15 DEF FailTrace
  <2>2. \/ U = Append(T, Entry(r, "trace", "rejected")) /\ pc'[r] = "F_DECISION"
        \/ U = T /\ pc'[r] = "done" /\ told'[r] = "raw"
    <3>1. CASE CanTrace(SessionOf[r])
      <4>1. Enter(r, "F_DECISION") /\ \E steps : RecordTrace(r, "rejected", steps)
        BY <1>15, <3>1 DEF FailTrace
      <4>2. QED
        BY <1>5, <1>9, <4>1 DEF Statuses
    <3>2. CASE ~CanTrace(SessionOf[r])
      BY <1>6, <1>8, <1>15, <3>2 DEF FailTrace
    <3>3. QED
      BY <3>1, <3>2
  <2> HIDE DEF T, U
  <2>3. Undecided(T, r)
    BY <1>1, <2>1
  <2>4. QED
    BY <1>3, <2>2, <2>3, AppendTrace DEF Statuses
<1>16. CASE FailDecision(r)
  <2>1. pc[r] = "F_DECISION"
    BY <1>16 DEF FailDecision
  <2>2. Undecided(T, r) /\ LastTrace(T, r, "rejected")
    BY <1>1, <2>1
  <2>3. \/ Verdict(U, r, "rejected") /\ pc'[r] = "F_ENRICH"
        \/ U = T /\ pc'[r] = "done" /\ told'[r] = "raw"
    BY <1>5, <1>6, <1>8, <1>10, <1>16, <2>2 DEF FailDecision
  <2> HIDE DEF T, U
  <2>4. QED
    BY <2>2, <2>3
<1>17. CASE FailEnrich(r)
  <2>1. pc[r] = "F_ENRICH" /\ End(r, "blocked") /\ U = T
    BY <1>4, <1>8, <1>17 DEF FailEnrich
  <2>2. pc'[r] = "done" /\ told'[r] = "blocked"
    BY <1>6, <2>1
  <2> HIDE DEF T, U
  <2>3. QED
    BY <1>1, <2>1, <2>2
<1>18. QED
  BY <1>11, <1>12, <1>13, <1>14, <1>15, <1>16, <1>17 DEF Records

\* What another request or the owner of the session writes leaves the verdict of r alone.
LEMMA ReachedOther ==
    ASSUME Typed, Typed', VerdictReached, [Next]_vars, NEW r \in Requests, ~Acts(r)
    PROVE  Reached(r)'
<1>1. Extends(Timeline(r), Timeline(r)', r) /\ pc'[r] = pc[r] /\ told'[r] = told[r]
  <2>1. SessionOf[r] \in Sessions /\ Timeline(r) \in Ledger
    BY TimelineType DEF Timeline, Sessions
  <2>2. ASSUME NEW q \in Requests, Acts(q)
        PROVE  /\ Extends(Timeline(r), Timeline(r)', r)
               /\ pc'[r] = pc[r] /\ told'[r] = told[r]
    BY <2>2, OthersExtend, ActsAreLocal DEF Untouched
  <2>3. ASSUME Timeline(r)' = Timeline(r)
        PROVE  Extends(Timeline(r), Timeline(r)', r)
    BY <2>1, <2>3 DEF Extends, Ledger
  <2>4. ASSUME NEW s \in Shared, CloseSession(s)
        PROVE  Extends(Timeline(r), Timeline(r)', r)
    <3>1. OwnerEntry("finalize").ev = "finalize"
      BY DEF OwnerEntry
    <3>2. \/ Timeline(r)' = Timeline(r)
          \/ Timeline(r)' = Append(Timeline(r), OwnerEntry("finalize"))
      BY <2>1, <2>4, CloseSessionDoes DEF Timeline
    <3>3. CASE Timeline(r)' = Append(Timeline(r), OwnerEntry("finalize"))
      BY <2>1, <3>1, <3>3, AppendExtends
    <3>4. QED
      BY <2>3, <3>2, <3>3
  <2>5. ASSUME UNCHANGED vars
        PROVE  Extends(Timeline(r), Timeline(r)', r)
    BY <2>3, <2>5 DEF vars, Timeline
  <2>6. QED
    BY <2>2, <2>4, <2>5, NextIs DEF CloseSession, vars
<1>2. /\ Undecided(Timeline(r), r) => Undecided(Timeline(r)', r)
      /\ \A st : LastTrace(Timeline(r), r, st) => LastTrace(Timeline(r)', r, st)
      /\ \A st : Verdict(Timeline(r), r, st) => Verdict(Timeline(r)', r, st)
  BY <1>1, ExtendsKeeps
<1>3. QED
  BY <1>1, <1>2 DEF VerdictReached, Reached

LEMMA VerdictInit == Init => VerdictReached
<1> SUFFICES ASSUME Init
             PROVE  VerdictReached
  OBVIOUS
<1>1. \A s \in Sessions : \A i \in 1..Len(session[s].timeline) :
         session[s].timeline[i].ev \notin {"trace", "decision"}
  BY DEF Init, OwnerEntry
<1>2. TracesOwned
  BY <1>1 DEF TracesOwned
<1>3. ASSUME NEW r \in Requests
      PROVE  Reached(r)
  <2>1. SessionOf[r] \in Sessions /\ pc[r] = "idle"
    BY DEF Sessions, Init
  <2>2. Undecided(Timeline(r), r)
    BY <1>1, <2>1 DEF Undecided, Own, Timeline
  <2>3. QED
    BY <2>1, <2>2 DEF Reached
<1>4. QED
  BY <1>2, <1>3 DEF VerdictReached

LEMMA VerdictGives ==
    ASSUME VerdictReached, Typed
    PROVE  VerdictIsRecorded
<1> SUFFICES ASSUME NEW r \in Requests
             PROVE  /\ pc[r] = "done" =>
                          {Timeline(r)[i].st : i \in Entries(r, "decision")} =
                              CASE told[r] = "approved" -> {"ok"}
                                [] told[r] = "blocked"  -> {"rejected"}
                                [] OTHER                -> {}
                    /\ Cardinality(Entries(r, "decision")) <= 1
                    /\ \A j \in Entries(r, "decision") :
                          \E i \in Entries(r, "trace") :
                              /\ i < j
                              /\ Timeline(r)[i].st = Timeline(r)[j].st
                              /\ \A k \in Entries(r, "trace") : k < j => k <= i
  BY DEF VerdictIsRecorded
<1> DEFINE T == Timeline(r)
<1>1. \A ev : Entries(r, ev) = Own(T, r, ev)
  BY DEF Entries, Own
<1>2. Undecided(T, r) \/ \E st : Verdict(T, r, st)
  BY DEF VerdictReached, Reached
<1>3. Cardinality(Own(T, r, "decision")) <= 1
  <2>1. CASE Undecided(T, r)
    BY <2>1, FS_EmptySet DEF Undecided
  <2>2. CASE \E st : Verdict(T, r, st)
    <3>1. PICK j : Own(T, r, "decision") = {j}
      BY <2>2 DEF Verdict
    <3>2. Cardinality({j}) = 1
      BY FS_Singleton, Zenon
    <3>3. QED
      BY <3>1, <3>2
  <2>3. QED
    BY <1>2, <2>1, <2>2
<1>4. \A j \in Own(T, r, "decision") :
         \E i \in Own(T, r, "trace") :
             /\ i < j
             /\ T[i].st = T[j].st
             /\ \A k \in Own(T, r, "trace") : k < j => k <= i
  BY <1>2 DEF Undecided, Verdict
<1>5. \A st : Verdict(T, r, st) => {T[i].st : i \in Own(T, r, "decision")} = {st}
  BY DEF Verdict
<1>6. Undecided(T, r) => {T[i].st : i \in Own(T, r, "decision")} = {}
  BY DEF Undecided
<1>7. pc[r] = "done" =>
          {T[i].st : i \in Own(T, r, "decision")} =
              CASE told[r] = "approved" -> {"ok"}
                [] told[r] = "blocked"  -> {"rejected"}
                [] OTHER                -> {}
  BY <1>5, <1>6 DEF VerdictReached, Reached
<1>8. Entries(r, "decision") = Own(T, r, "decision") /\ Entries(r, "trace") = Own(T, r, "trace")
  BY <1>1
<1>9. Cardinality(Entries(r, "decision")) <= 1
  BY <1>3, <1>8
<1>10. {T[i].st : i \in Entries(r, "decision")} = {T[i].st : i \in Own(T, r, "decision")}
  BY <1>8
<1>11. QED
  BY <1>4, <1>7, <1>8, <1>9, <1>10

\* The record and the caller agree, however requests share a session, whatever its owner
\* does to it and whichever steps fail: at every moment each request has at most one
\* decision on record, with a trace of the same status before it, and when its call ends
\* the decision is what the caller is told.
THEOREM VerdictIsRecordedHolds == ASSUME OneClientPerSession PROVE Spec => []VerdictIsRecorded
<1>1. ASSUME Typed, Typed', JobIsCurrent, VerdictReached, [Next]_vars
      PROVE  VerdictReached'
  <2>1. TracesOwned'
    BY <1>1, TracesOwnedStep DEF VerdictReached
  <2>2. ASSUME NEW r \in Requests
        PROVE  Reached(r)'
    BY <1>1, ReachedOwn, ReachedOther
  <2>3. QED
    BY <2>1, <2>2 DEF VerdictReached
<1>2. QED
  BY <1>1, VerdictInit, VerdictGives, JobHolds, PTL DEF Spec

-----------------------------------------------------------------------------
(***************************************************************************)
(* Sessions the pipeline owns                                              *)
(***************************************************************************)

\* A managed session is that of one request, is nobody else's and is not strict.
LEMMA ManagedAlone ==
    ASSUME NEW r \in Requests, Managed(r)
    PROVE  /\ r \in Sessions /\ ~Strict(r)
           /\ \A q \in Requests : SessionOf[q] = r => q = r
           /\ r \notin Shared
  BY DEF Managed, Sessions, Strict

\* A step of another request or of an owner does not touch it.
LEMMA ManagedApart ==
    ASSUME Typed, NEW r \in Requests, Managed(r), [Next]_vars, ~Acts(r)
    PROVE  session'[r] = session[r] /\ pc'[r] = pc[r] /\ told'[r] = told[r]
<1>1. r \in Sessions /\ r \notin Shared
  BY ManagedAlone
<1>2. ASSUME NEW q \in Requests \ {r}, Acts(q)
      PROVE  session'[r] = session[r]
  <2>1. SessionOf[q] # r
    BY ManagedAlone
  <2>2. CASE MarkGate(q)
    BY <1>1, <2>1, <2>2 DEF MarkGate, Typed, TypeOK
  <2>3. CASE CommitTrace(q) \/ FailTrace(q)
    <3>1. UNCHANGED session \/ \E st \in Statuses : \E steps : RecordTrace(q, st, steps)
      BY <2>3 DEF CommitTrace, FailTrace, Statuses
    <3>2. QED
      BY <1>1, <2>1, <3>1, RecordTraceDoes
  <2>4. CASE CommitDecision(q) \/ FailDecision(q)
    <3>1. UNCHANGED session \/ \E st \in Statuses : session' = Decided(q, st)
      BY <2>4 DEF CommitDecision, FailDecision, Statuses
    <3>2. QED
      BY <1>1, <2>1, <3>1, DecidedDoes
  <2>5. CASE ~(MarkGate(q) \/ CommitTrace(q) \/ FailTrace(q) \/ CommitDecision(q) \/ FailDecision(q))
    BY <1>2, <2>5 DEF Acts, Step, Start, Refuse, RunHooks, LateWrite, AfterHooks, Validate, Reconcile,
                      Simulate, AuditPolicy, Return, FailEnrich, Cancel
  <2>6. QED
    BY <2>2, <2>3, <2>4, <2>5
<1>3. ASSUME NEW s \in Shared, CloseSession(s)
      PROVE  session'[r] = session[r] /\ pc'[r] = pc[r] /\ told'[r] = told[r]
  <2>1. \A x \in Sessions \ {s} : session'[x] = session[x]
    BY <1>3, CloseSessionDoes
  <2>2. QED
    BY <1>1, <1>3, <2>1 DEF CloseSession
<1>4. ASSUME UNCHANGED vars
      PROVE  session'[r] = session[r] /\ pc'[r] = pc[r] /\ told'[r] = told[r]
  BY <1>4 DEF vars
<1>5. ASSUME NEW q \in Requests, Acts(q)
      PROVE  session'[r] = session[r] /\ pc'[r] = pc[r] /\ told'[r] = told[r]
  BY <1>2, <1>5, ActsAreLocal DEF Untouched
<1>6. QED
  BY <1>3, <1>4, <1>5, NextIs

\* With one trace in it, a session that is not strict takes a decision, and its bundle
\* can be made before and after.
LEMMA OneTraceDecides ==
    ASSUME NEW r \in Requests, Managed(r), NEW st, session[r].lifecycle = "running",
           Timeline(r) = <<Entry(r, "trace", st)>>
    PROVE  CanDecide(r)
<1>1. session[r].timeline = <<Entry(r, "trace", st)>>
  BY DEF Timeline, Managed
<1>2. <<Entry(r, "trace", st)>>[1].ev = "trace"
  BY DEF Entry
<1>3. ~FinalizeInTail(session[r].timeline)
  BY <1>1, <1>2 DEF FinalizeInTail
<1>4. QED
  BY <1>3, ManagedAlone DEF CanDecide, ValidateAppend

LEMMA ClosedBundles ==
    ASSUME NEW r \in Requests, Managed(r), NEW st, ClosedAs(r, st)
    PROVE  CanBundle(r)
<1>1. session[r].timeline = <<Entry(r, "trace", st), Entry(r, "decision", st), Entry(r, "finalize", st)>>
  BY DEF ClosedAs, Timeline, Managed
<1>2. \A ev : Entry(r, ev, st).client = ClientOf[r]
  BY DEF Entry
<1>3. \A i \in 1..Len(session[r].timeline) : session[r].timeline[i].client = ClientOf[r]
  BY <1>1, <1>2
<1>4. QED
  BY <1>3 DEF CanBundle

LEMMA AppendTwo ==
    ASSUME NEW a, NEW d, NEW f
    PROVE  Append(Append(<<a>>, d), f) = <<a, d, f>>
<1> DEFINE S == {a, d, f}
           s == Append(Append(<<a>>, d), f)
           t == <<a, d, f>>
<1>1. s \in Seq(S) /\ t \in Seq(S)
  OBVIOUS
<1>2. Len(s) = 3 /\ Len(t) = 3
  OBVIOUS
<1>3. s[1] = t[1] /\ s[2] = t[2] /\ s[3] = t[3]
  OBVIOUS
<1> HIDE DEF s, t, S
<1>4. s = t
  BY <1>1, <1>2, <1>3, SeqEqual
<1>5. QED
  BY <1>4 DEF s, t

LEMMA ManagedActs ==
    ASSUME Typed, JobIsCurrent, ManagedCourse, NEW r \in Requests, Managed(r), Acts(r)
    PROVE  /\ pc'[r] \notin {"DECISION", "RESULT", "F_DECISION", "F_ENRICH", "done"} =>
                 session'[r].lifecycle = "open" /\ Timeline(r)' = <<>>
           /\ pc'[r] = "DECISION" =>
                 session'[r].lifecycle = "running" /\ Timeline(r)' = <<Entry(r, "trace", "ok")>>
           /\ pc'[r] = "F_DECISION" =>
                 session'[r].lifecycle = "running" /\ Timeline(r)' = <<Entry(r, "trace", "rejected")>>
           /\ pc'[r] = "RESULT" => ClosedAs(r, "ok")'
           /\ pc'[r] = "F_ENRICH" => ClosedAs(r, "rejected")'
           /\ pc'[r] = "done" =>
                 /\ told'[r] = "approved" => ClosedAs(r, "ok")'
                 /\ told'[r] = "blocked" => ClosedAs(r, "rejected")'
                 /\ told'[r] \in {"approved", "blocked", "refused", "cancelled"}
<1> DEFINE T == Timeline(r)
           U == Timeline(r)'
           Closed(V, l, st) ==
               /\ l = "finalized"
               /\ V = <<Entry(r, "trace", st), Entry(r, "decision", st), Entry(r, "finalize", st)>>
           Now(V, l, p, t) ==
               /\ p \notin {"DECISION", "RESULT", "F_DECISION", "F_ENRICH", "done"} =>
                     l = "open" /\ V = <<>>
               /\ p = "DECISION" => l = "running" /\ V = <<Entry(r, "trace", "ok")>>
               /\ p = "F_DECISION" => l = "running" /\ V = <<Entry(r, "trace", "rejected")>>
               /\ p = "RESULT" => Closed(V, l, "ok")
               /\ p = "F_ENRICH" => Closed(V, l, "rejected")
               /\ p = "done" =>
                     /\ t = "approved" => Closed(V, l, "ok")
                     /\ t = "blocked" => Closed(V, l, "rejected")
                     /\ t \in {"approved", "blocked", "refused", "cancelled"}
<1>1. Now(T, session[r].lifecycle, pc[r], told[r])
  BY DEF ManagedCourse, ClosedAs
<1>2. SUFFICES Now(U, session'[r].lifecycle, pc'[r], told'[r])
  BY DEF ClosedAs
<1>3. SessionOf[r] = r /\ r \in Sessions
  BY ManagedAlone DEF Managed
<1>4. ASSUME NEW st, Enter(r, st)
      PROVE  pc'[r] = st
  BY <1>4 DEF Enter, Typed, TypeOK
<1>5. ASSUME NEW how, End(r, how)
      PROVE  pc'[r] = "done" /\ told'[r] = how
  BY <1>5 DEF End, Typed, TypeOK
<1>6. ASSUME NEW st \in Statuses, NEW steps, RecordTrace(r, st, steps), T = <<>>
      PROVE  U = <<Entry(r, "trace", st)>> /\ session'[r].lifecycle = "running"
  <2>1. U = Append(T, Entry(r, "trace", st)) /\ session'[r].lifecycle = "running"
    BY <1>3, <1>6, RecordTraceDoes DEF Timeline
  <2> HIDE DEF T, U
  <2>2. QED
    BY <1>6, <2>1
<1>7. ASSUME NEW st \in {"ok", "rejected"}, session' = Decided(r, st), T = <<Entry(r, "trace", st)>>
      PROVE  Closed(U, session'[r].lifecycle, st)
  <2> DEFINE d == Entry(r, "decision", st)
             f == Entry(r, "finalize", st)
  <2>1. U = Append(Append(T, d), f) /\ session'[r].lifecycle = "finalized"
    BY <1>3, <1>7, DecidedDoes DEF Timeline, Statuses
  <2> HIDE DEF T, U, d, f
  <2>2. U = <<Entry(r, "trace", st), d, f>>
    BY <1>7, <2>1, AppendTwo
  <2>3. QED
    BY <2>1, <2>2 DEF d, f
<1>8. CASE ~Records(r)
  <2>1. /\ U = T /\ session'[r].lifecycle = session[r].lifecycle
        /\ \/ pc'[r] = pc[r] /\ told'[r] = told[r]
           \/ /\ pc[r] \notin {"DECISION", "RESULT", "F_DECISION", "F_ENRICH", "done"}
              /\ \/ pc'[r] \notin {"DECISION", "RESULT", "F_DECISION", "F_ENRICH", "done"}
                 \/ pc'[r] = "done" /\ told'[r] \in {"refused", "cancelled"}
    BY <1>3, <1>8, OtherActs
  <2> HIDE DEF T, U, Closed
  <2>2. QED
    BY <1>1, <2>1
<1>9. CASE CommitTrace(r)
  <2>1. pc[r] = "TRACE" /\ CanTrace(r)
    BY <1>1, <1>9 DEF CommitTrace, CanTrace
  <2>2. T = <<>>
    BY <1>1, <2>1
  <2>3. Following(r) = "DECISION"
    BY <2>1, FollowingIs, RecordStages
  <2>4. /\ pc'[r] = "DECISION"
        /\ U = <<Entry(r, "trace", "ok")>> /\ session'[r].lifecycle = "running"
    BY <1>3, <1>4, <1>6, <1>9, <2>1, <2>2, <2>3 DEF CommitTrace, Statuses
  <2> HIDE DEF T, U, Closed
  <2>5. QED
    BY <2>4
<1>10. CASE CommitDecision(r)
  <2>1. /\ pc[r] = "DECISION" /\ session[r].lifecycle = "running"
        /\ T = <<Entry(r, "trace", "ok")>>
    BY <1>1, <1>10 DEF CommitDecision
  <2>2. CanDecide(r)
    BY <2>1, OneTraceDecides
  <2>3. Following(r) = "RESULT"
    BY <2>1, FollowingIs, RecordStages
  <2>4. pc'[r] = "RESULT" /\ session' = Decided(r, "ok")
    BY <1>3, <1>4, <1>10, <2>2, <2>3 DEF CommitDecision
  <2>5. Closed(U, session'[r].lifecycle, "ok")
    BY <1>7, <2>1, <2>4
  <2> HIDE DEF T, U, Closed
  <2>6. QED
    BY <2>4, <2>5
<1>11. CASE Return(r)
  <2>1. pc[r] = "RESULT" /\ UNCHANGED session
    BY <1>11 DEF Return
  <2>2. ClosedAs(r, "ok")
    BY <2>1 DEF ManagedCourse
  <2>3. End(r, "approved")
    BY <1>3, <1>11, <2>2, ClosedBundles DEF Return
  <2>4. /\ pc'[r] = "done" /\ told'[r] = "approved"
        /\ U = T /\ session'[r].lifecycle = session[r].lifecycle
    BY <1>5, <2>1, <2>3 DEF Timeline
  <2> HIDE DEF T, U, Closed
  <2>5. QED
    BY <1>1, <2>1, <2>4
<1>12. CASE FailTrace(r)
  <2>1. pc[r] = "F_TRACE" /\ CanTrace(r)
    BY <1>1, <1>12 DEF FailTrace, CanTrace
  <2>2. T = <<>>
    BY <1>1, <2>1
  <2>3. Enter(r, "F_DECISION") /\ \E steps : RecordTrace(r, "rejected", steps)
    BY <1>3, <1>12, <2>1 DEF FailTrace
  <2>4. /\ pc'[r] = "F_DECISION"
        /\ U = <<Entry(r, "trace", "rejected")>> /\ session'[r].lifecycle = "running"
    BY <1>4, <1>6, <2>2, <2>3 DEF Statuses
  <2> HIDE DEF T, U, Closed
  <2>5. QED
    BY <2>4
<1>13. CASE FailDecision(r)
  <2>1. /\ pc[r] = "F_DECISION" /\ session[r].lifecycle = "running"
        /\ T = <<Entry(r, "trace", "rejected")>>
    BY <1>1, <1>13 DEF FailDecision
  <2>2. CanDecide(r)
    BY <2>1, OneTraceDecides
  <2>3. pc'[r] = "F_ENRICH" /\ session' = Decided(r, "rejected")
    BY <1>3, <1>4, <1>13, <2>2 DEF FailDecision
  <2>4. Closed(U, session'[r].lifecycle, "rejected")
    BY <1>7, <2>1, <2>3
  <2> HIDE DEF T, U, Closed
  <2>5. QED
    BY <2>3, <2>4
<1>14. CASE FailEnrich(r)
  <2>1. pc[r] = "F_ENRICH" /\ UNCHANGED session
    BY <1>14 DEF FailEnrich
  <2>2. ClosedAs(r, "rejected")
    BY <2>1 DEF ManagedCourse
  <2>3. End(r, "blocked")
    BY <1>3, <1>14, <2>2, ClosedBundles DEF FailEnrich
  <2>4. /\ pc'[r] = "done" /\ told'[r] = "blocked"
        /\ U = T /\ session'[r].lifecycle = session[r].lifecycle
    BY <1>5, <2>1, <2>3 DEF Timeline
  <2> HIDE DEF T, U, Closed
  <2>5. QED
    BY <1>1, <2>1, <2>4
<1>15. QED
  BY <1>8, <1>9, <1>10, <1>11, <1>12, <1>13, <1>14 DEF Records

\* A session the pipeline owns ends closed, with one trace, one decision and one finalize
\* of the same status, in this order, and a call that fails on one is never left with a
\* bare exception: nobody else reaches it, so no step of recording can fail.
THEOREM ManagedTimelineHolds == Spec => []ManagedTimeline
<1>1. Init => ManagedCourse
  <2> SUFFICES ASSUME Init, NEW r \in Requests, Managed(r)
               PROVE  pc[r] = "idle" /\ session[r].lifecycle = "open" /\ Timeline(r) = <<>>
    BY DEF ManagedCourse
  <2>1. r \in Sessions /\ r \notin Agent /\ SessionOf[r] = r
    BY ManagedAlone DEF Strict, Managed
  <2>2. QED
    BY <2>1 DEF Init, Timeline
<1>2. ASSUME Typed, JobIsCurrent, ManagedCourse, [Next]_vars
      PROVE  ManagedCourse'
  <2>1. ASSUME NEW r \in Requests, Managed(r), ~Acts(r)
        PROVE  session'[r] = session[r] /\ pc'[r] = pc[r] /\ told'[r] = told[r]
    BY <1>2, <2>1, ManagedApart
  <2>2. QED
    BY <1>2, <2>1, ManagedActs DEF ManagedCourse, ClosedAs, Timeline, Managed
<1>3. JobIsCurrent /\ ManagedCourse => ManagedTimeline
  BY DEF JobIsCurrent, ManagedCourse, ManagedTimeline, ClosedAs
<1>4. QED
  BY <1>1, <1>2, <1>3, JobHolds, PTL DEF Spec

-----------------------------------------------------------------------------
(***************************************************************************)
(* The evidence of a request                                               *)
(***************************************************************************)

\* Each stage that records adds the next step of the evidence, LAYER_L5 two, the others none.
LEMMA CountSteps ==
    ASSUME NEW k \in {"validate", "simulate", "full"}, NEW st \in StagesOf(k)
    PROVE  LET n == Count[k][st]
               m == Count[k][After[k][st]]
               ev == EvidenceOf[k]
           IN  /\ n \in 0..Len(ev)
               /\ st \in HookPoints \cup {"L1L3", "RECHECK", "L4"} => n + 1 <= Len(ev) /\ ev[n + 1] = st
               /\ st \in (HookPoints \ {"LAYER_L5"}) \cup {"L1L3", "RECHECK", "L4"} => m = n + 1
               /\ st = "LAYER_L5" => m = n + 2 /\ m <= Len(ev) /\ ev[n + 2] = "L5"
               /\ st \in {"MARK", "L5", "POLICY", "TRACE", "DECISION"} => m = n
               /\ st = "TRACE" => n = Len(ev)
               /\ st = Stages[k][1] => n = 0
<1>1. CASE k = "validate"
  <2>1. st \in {"PRE_VALIDATE", "L1L3", "POST_VALIDATE", "MARK", "TRACE", "DECISION", "RESULT"}
    BY <1>1 DEF StagesOf, Stages
  <2>2. QED
    BY <1>1, <2>1 DEF After, Count, EvidenceOf, HookPoints, Stages
<1>2. CASE k = "simulate"
  <2>1. st \in {"PRE_SIMULATION", "L4", "L5", "LAYER_L5", "POST_SIMULATION", "TRACE",
                "DECISION", "RESULT"}
    BY <1>2 DEF StagesOf, Stages
  <2>2. QED
    BY <1>2, <2>1 DEF After, Count, EvidenceOf, HookPoints, Stages
<1>3. CASE k = "full"
  <2>1. st \in {"PRE_VALIDATE", "L1L3", "MARK", "PRE_SIMULATION", "RECHECK", "L4", "L5",
                "LAYER_L5", "POLICY", "POST_SIMULATION", "POST_VALIDATE", "TRACE",
                "DECISION", "RESULT"}
    BY <1>3 DEF StagesOf, Stages
  <2>2. QED
    BY <1>3, <2>1 DEF After, Count, EvidenceOf, HookPoints, Stages
<1>4. QED
  BY <1>1, <1>2, <1>3

LEMMA EvidenceGrows ==
    ASSUME NEW r \in Requests, NEW n \in Nat
    PROVE  Append(Evidence(r, n), [by |-> r, stage |-> EvidenceOf[Kind[r]][n + 1]]) =
               Evidence(r, n + 1)
<1> DEFINE e(i) == [by |-> r, stage |-> EvidenceOf[Kind[r]][i]]
           S == {e(i) : i \in 1..(n + 1)}
           s == [i \in 1..n |-> e(i)]
           t == [i \in 1..(n + 1) |-> e(i)]
<1>1. \A i \in 1..(n + 1) : e(i) \in S
  OBVIOUS
<1>2. e(n + 1) \in S
  BY <1>1
<1> HIDE DEF e, S
<1>3. s \in Seq(S) /\ Len(s) = n
  BY <1>1, IsASeq
<1>4. t \in Seq(S) /\ Len(t) = n + 1
  BY <1>1, IsASeq
<1>5. Append(s, e(n + 1)) \in Seq(S) /\ Len(Append(s, e(n + 1))) = n + 1
  BY <1>2, <1>3
<1>6. \A i \in 1..(n + 1) : Append(s, e(n + 1))[i] = t[i]
  BY <1>3
<1>7. Append(s, e(n + 1)) = t
  BY <1>4, <1>5, <1>6, SeqEqual
<1>8. QED
  BY <1>7 DEF Evidence, e

LEMMA NoEvidence ==
    ASSUME NEW r \in Requests
    PROVE  Evidence(r, 0) = <<>>
<1>1. Evidence(r, 0) \in Seq({}) /\ Len(Evidence(r, 0)) = 0
  BY IsASeq DEF Evidence
<1>2. <<>> \in Seq({}) /\ Len(<<>>) = 0
  OBVIOUS
<1>3. QED
  BY <1>1, <1>2, SeqEqual

\* a client with one request has bound the recorder of that request as long as it runs
RecorderBound ==
    (\A q, r \in Requests : ClientOf[q] = ClientOf[r] => q = r)
        => \A r \in Running : recorder[ClientOf[r]] = r

LEMMA RecorderBoundStep ==
    ASSUME Typed, RecorderBound, [Next]_vars
    PROVE  RecorderBound'
<1> SUFFICES ASSUME \A q, r \in Requests : ClientOf[q] = ClientOf[r] => q = r
             PROVE  \A r \in Running' : recorder'[ClientOf[r]] = r
  BY DEF RecorderBound
<1>1. \A r \in Running : recorder[ClientOf[r]] = r
  BY DEF RecorderBound
<1>2. Running \subseteq Requests /\ recorder \in [Clients -> Requests \cup {None}]
  BY DEF Running, Typed, TypeOK
<1>3. ASSUME NEW r \in Requests, recorder' = [recorder EXCEPT ![ClientOf[r]] = r],
             Running' = Running \cup {r}
      PROVE  \A q \in Running' : recorder'[ClientOf[q]] = q
  BY <1>1, <1>2, <1>3
<1>4. ASSUME NEW r \in Requests, recorder' = [recorder EXCEPT ![ClientOf[r]] = None],
             Running' = Running \ {r}
      PROVE  \A q \in Running' : recorder'[ClientOf[q]] = q
  BY <1>1, <1>2, <1>4
<1>5. QED
  BY <1>1, <1>3, <1>4, RecorderSteps

\* The hooks of a request record into its own trace or, once it has ended, nowhere.
LEMMA HooksFind ==
    ASSUME FindsRecorder, Typed, RecorderOwned, RecorderBound, NEW r \in Requests, job[r] # None
    PROVE  /\ HookRecorder(r) \in {r, None}
           /\ r \in Running => HookRecorder(r) = r
<1>1. job[r] \in HookPoints
  BY DEF Typed, TypeOK
<1>2. CASE HookPoints \subseteq Coroutines
  BY <1>1, <1>2 DEF HookRecorder
<1>3. CASE \A q, x \in Requests : ClientOf[q] = ClientOf[x] => q = x
  <2>1. recorder[ClientOf[r]] \in {r, None}
    BY <1>3 DEF RecorderOwned, Running
  <2>2. r \in Running => recorder[ClientOf[r]] = r
    BY <1>3 DEF RecorderBound
  <2>3. QED
    BY <2>1, <2>2 DEF HookRecorder
<1>4. QED
  BY <1>2, <1>3 DEF FindsRecorder

LEMMA OthersTrace ==
    ASSUME FindsRecorder, Typed, RecorderOwned, RecorderBound,
           NEW q \in Requests, Acts(q), NEW r \in Requests \ {q}
    PROVE  trace'[r] = trace[r]
<1> USE DEF Typed, TypeOK
<1>1. r # None
  OBVIOUS
<1>2. ASSUME NEW rec \in {q, None}, NEW step, RecordStep(rec, step)
      PROVE  trace'[r] = trace[r]
  BY <1>1, <1>2 DEF RecordStep
<1>3. CASE RunHooks(q)
  <2>1. HookRecorder(q) \in {q, None}
    BY <1>3, HooksFind DEF RunHooks
  <2>2. UNCHANGED trace \/ \E step : RecordStep(HookRecorder(q), step)
    BY <1>3 DEF RunHooks
  <2>3. QED
    BY <1>2, <2>1, <2>2
<1>4. CASE AfterHooks(q) \/ Validate(q) \/ Reconcile(q)
  <2>1. UNCHANGED trace \/ \E step : RecordStep(q, step)
    BY <1>4 DEF AfterHooks, Validate, Reconcile
  <2>2. QED
    BY <1>2, <2>1
<1>5. CASE FailTrace(q)
  BY <1>5 DEF FailTrace
<1>6. CASE ~(RunHooks(q) \/ AfterHooks(q) \/ Validate(q) \/ Reconcile(q) \/ FailTrace(q))
  BY <1>6 DEF Acts, Step, Start, Refuse, LateWrite, MarkGate, Simulate, AuditPolicy, CommitTrace,
              CommitDecision, Return, FailDecision, FailEnrich, Cancel
<1>7. QED
  BY <1>3, <1>4, <1>5, <1>6

LEMMA EvidenceActs ==
    ASSUME FindsRecorder, Typed, JobIsCurrent, RecorderOwned, RecorderBound, EvidenceSoFar,
           NEW r \in Requests, Acts(r)
    PROVE  /\ pc'[r] = "idle" => trace'[r] = Evidence(r, 0)
           /\ pc'[r] \in StagesOf(Kind[r]) =>
                 trace'[r] = Evidence(r, Count[Kind[r]][pc'[r]]
                                         + IF result'[r] \in {"passed", "blocked"} THEN 1 ELSE 0)
           /\ pc'[r] \in {"DECISION", "RESULT"} \/ told'[r] = "approved" =>
                 recorded'[r] = AllEvidence(r)
<1> DEFINE k == Kind[r]
           ev == EvidenceOf[k]
           n == Count[k][pc[r]]
           m == Count[k][After[k][pc[r]]]
           step(st) == [by |-> r, stage |-> st]
           Has(t, p, res) == t = Evidence(r, Count[k][p] + IF res \in {"passed", "blocked"} THEN 1 ELSE 0)
           Good == /\ pc'[r] = "idle" => trace'[r] = Evidence(r, 0)
                   /\ pc'[r] \in StagesOf(k) => Has(trace'[r], pc'[r], result'[r])
                   /\ pc'[r] \in {"DECISION", "RESULT"} \/ told'[r] = "approved" =>
                         recorded'[r] = AllEvidence(r)
<1>1. SUFFICES Good
  OBVIOUS
<1>2. k \in {"validate", "simulate", "full"}
  OBVIOUS
<1>3. /\ pc[r] = "idle" => trace[r] = Evidence(r, 0)
      /\ pc[r] \in StagesOf(k) => Has(trace[r], pc[r], result[r])
      /\ pc[r] \in {"DECISION", "RESULT"} \/ told[r] = "approved" => recorded[r] = AllEvidence(r)
  BY DEF EvidenceSoFar
<1>4. /\ result[r] # None => pc[r] \in HookPoints
      /\ told[r] # None => pc[r] = "done"
      /\ job[r] # None => (pc[r] = job[r] /\ result[r] = None) \/ pc[r] = "done"
  BY DEF JobIsCurrent
<1>5. ASSUME NEW st, Enter(r, st)
      PROVE  pc'[r] = st /\ result'[r] = None
  BY <1>5 DEF Enter, Typed, TypeOK
<1>6. ASSUME NEW how, End(r, how)
      PROVE  pc'[r] = "done" /\ told'[r] = how
  BY <1>6 DEF End, Typed, TypeOK
<1>7. ASSUME NEW st, RecordStep(r, step(st))
      PROVE  trace'[r] = Append(trace[r], step(st))
  BY <1>7 DEF RecordStep, Typed, TypeOK
<1>8. "done" \notin StagesOf(k) /\ "idle" \notin StagesOf(k) /\ FailureStages \cap StagesOf(k) = {}
  BY <1>2, StageNamesAre
<1> HIDE DEF Has, k
<1>9. \A t, p : Has(t, p, None) <=> t = Evidence(r, Count[k][p] + 0)
  BY DEF Has, None
<1>10. \A t, p, res : res \in {"passed", "blocked"} => (Has(t, p, res) <=> t = Evidence(r, Count[k][p] + 1))
  BY DEF Has
<1>11. \A st : st \in StagesOf(k) => Count[k][st] \in Nat
  BY <1>2, CountSteps
<1>. HIDE DEF Good
<1>12. ASSUME pc'[r] \in FailureStages \/ (pc'[r] = "done" /\ told'[r] # "approved"),
              UNCHANGED told \/ pc'[r] = "done", pc[r] # "done"
       PROVE  Good
  <2>1. told'[r] # "approved"
    BY <1>4, <1>12 DEF FailureStages, None
  <2>2. pc'[r] \notin {"idle", "DECISION", "RESULT"}
    BY <1>12 DEF FailureStages
  <2>3. pc'[r] \notin StagesOf(k)
    BY <1>8, <1>12
  <2>4. QED
    BY <2>1, <2>2, <2>3 DEF Good
\* on to the next stage, with the trace it needs
<1>13. ASSUME pc[r] \in StagesOf(k) \ {"TRACE", "DECISION", "RESULT"}, Enter(r, Following(r)),
              UNCHANGED told, trace'[r] = Evidence(r, m)
       PROVE  Good
  <2>1. pc'[r] = After[k][pc[r]] /\ result'[r] = None
    BY <1>5, <1>13, FollowingIs DEF k
  <2>2. pc'[r] \in StagesOf(k)
    BY <1>2, <1>13, <2>1, AfterType
  <2>3. pc'[r] \notin {"DECISION", "RESULT"}
    BY <1>2, <1>13, <2>1, RecordStages
  <2>4. told'[r] # "approved"
    BY <1>4, <1>8, <1>13 DEF None
  <2>5. Count[k][pc'[r]] + 0 = m
    BY <1>11, <2>1, <2>2
  <2>6. Has(trace'[r], pc'[r], result'[r])
    BY <1>9, <1>13, <2>1, <2>5
  <2>7. QED
    BY <1>8, <2>2, <2>3, <2>4, <2>6 DEF Good
<1>14. CASE Start(r)
  <2>1. pc[r] = "idle" /\ Enter(r, Stages[k][1]) /\ UNCHANGED <<trace, told, recorded>>
    BY <1>14 DEF Start, k
  <2>2. pc'[r] = Stages[k][1] /\ result'[r] = None
    BY <1>5, <2>1
  <2>3. pc'[r] \in StagesOf(k) /\ pc'[r] \in {"PRE_VALIDATE", "PRE_SIMULATION"}
    BY <1>2, <2>2, FirstStage
  <2>4. Count[k][pc'[r]] = 0
    BY <1>2, <2>2, <2>3, CountSteps
  <2>5. Has(trace'[r], pc'[r], result'[r])
    BY <1>3, <1>9, <2>1, <2>2, <2>4
  <2>6. told'[r] # "approved"
    BY <1>4, <2>1 DEF None
  <2>7. QED
    BY <1>8, <2>3, <2>5, <2>6 DEF Good
<1>15. CASE Refuse(r)
  BY <1>12, <1>15 DEF Refuse, Typed, TypeOK
<1>16. CASE RunHooks(r)
  <2>1. UNCHANGED <<pc, told, recorded>> /\ job[r] \in HookPoints
    BY <1>16 DEF RunHooks, Typed, TypeOK
  <2>2. CASE pc[r] = "done"
    BY <1>3, <1>8, <2>1, <2>2 DEF Good
  <2>3. CASE pc[r] # "done"
    <3>1. pc[r] = job[r] /\ result[r] = None
      BY <1>4, <1>16, <2>3 DEF RunHooks
    <3>2. pc[r] \in StagesOf(k) /\ r \in Running
      BY <2>1, <3>1 DEF k, Typed, AtOwnStage, HookPoints, FailureStages, Running
    <3>3. HookRecorder(r) = r
      BY <1>16, <3>2, HooksFind DEF RunHooks
    <3>4. trace[r] = Evidence(r, n) /\ n \in Nat
      BY <1>3, <1>9, <1>11, <3>1, <3>2
    <3>5. ev[n + 1] = pc[r]
      BY <1>2, <2>1, <3>1, <3>2, CountSteps
    <3>6. PICK how \in Outcomes(job[r]) :
             /\ result' = [result EXCEPT ![r] = how]
             /\ IF how = "raised" THEN UNCHANGED trace
                ELSE RecordStep(HookRecorder(r), [by |-> r, stage |-> job[r]])
      BY <1>16, <2>3 DEF RunHooks
    <3>7. result'[r] = how /\ how \in {"passed", "blocked", "raised"}
      BY <3>6 DEF Outcomes, Typed, TypeOK
    <3>8. CASE how = "raised"
      <4>1. trace'[r] = Evidence(r, Count[k][pc'[r]] + 0)
        BY <2>1, <3>4, <3>6, <3>8
      <4>2. Has(trace'[r], pc'[r], result'[r])
        BY <3>7, <3>8, <4>1 DEF Has
      <4>3. QED
        BY <1>3, <1>8, <2>1, <3>2, <4>2 DEF Good
    <3>9. CASE how \in {"passed", "blocked"}
      <4>1. trace'[r] = Append(trace[r], step(ev[n + 1]))
        BY <1>7, <3>1, <3>3, <3>5, <3>6, <3>9
      <4>2. trace'[r] = Evidence(r, n + 1)
        BY <3>4, <4>1, EvidenceGrows DEF k
      <4>3. Has(trace'[r], pc'[r], result'[r])
        BY <1>10, <2>1, <3>7, <3>9, <4>2
      <4>4. QED
        BY <1>3, <1>8, <2>1, <3>2, <4>3 DEF Good
    <3>10. QED
      BY <3>7, <3>8, <3>9
  <2>4. QED
    BY <2>2, <2>3
<1>17. CASE LateWrite(r)
  BY <1>3, <1>17 DEF LateWrite, Good
<1>18. CASE AfterHooks(r)
  <2>1. pc[r] \in HookPoints /\ UNCHANGED told /\ pc[r] # "done"
    BY <1>18 DEF AfterHooks, HookPoints
  <2>2. CASE Raise(r)
    <3>1. pc'[r] \in FailureStages
      BY <1>5, <2>2 DEF Raise, FailureStages
    <3>2. QED
      BY <1>12, <2>1, <3>1
  <2>3. CASE ~Raise(r)
    <3>1. pc[r] \in StagesOf(k) \ {"TRACE", "DECISION", "RESULT"}
      BY <2>1 DEF k, Typed, AtOwnStage, HookPoints, FailureStages
    <3>2. /\ result[r] \in {"passed", "blocked"}
          /\ Enter(r, Following(r))
          /\ IF pc[r] = "LAYER_L5" THEN RecordStep(r, step("L5")) ELSE UNCHANGED trace
      BY <1>18, <2>3 DEF AfterHooks, HooksPassed
    <3>3. trace[r] = Evidence(r, n + 1) /\ n \in Nat
      BY <1>3, <1>10, <1>11, <3>1, <3>2
    <3>4. trace'[r] = Evidence(r, m)
      <4>1. CASE pc[r] = "LAYER_L5"
        <5>1. m = n + 2 /\ ev[n + 2] = "L5"
          BY <1>2, <3>1, <4>1, CountSteps
        <5>2. trace'[r] = Append(trace[r], step("L5"))
          BY <1>7, <3>2, <4>1
        <5>3. trace'[r] = Append(Evidence(r, n + 1), step(ev[(n + 1) + 1]))
          BY <3>3, <5>1, <5>2
        <5>4. trace'[r] = Evidence(r, (n + 1) + 1)
          BY <3>3, <5>3, EvidenceGrows DEF k
        <5>5. QED
          BY <3>3, <5>1, <5>4
      <4>2. CASE pc[r] # "LAYER_L5"
        <5>1. m = n + 1
          BY <1>2, <2>1, <3>1, <4>2, CountSteps
        <5>2. QED
          BY <3>2, <3>3, <4>2, <5>1
      <4>3. QED
        BY <4>1, <4>2
    <3>5. QED
      BY <1>13, <2>1, <3>1, <3>2, <3>4
  <2>4. QED
    BY <2>2, <2>3
<1>19. CASE Validate(r) \/ Reconcile(r)
  <2>1. pc[r] \in {"L1L3", "RECHECK", "L4"} /\ UNCHANGED told
    BY <1>19 DEF Validate, Reconcile
  <2>2. CASE Raise(r)
    <3>1. pc'[r] \in FailureStages
      BY <1>5, <2>2 DEF Raise, FailureStages
    <3>2. QED
      BY <1>12, <2>1, <3>1
  <2>3. CASE ~Raise(r)
    <3>1. pc[r] \in StagesOf(k) \ {"TRACE", "DECISION", "RESULT"} /\ result[r] = None
      BY <1>4, <2>1 DEF k, Typed, AtOwnStage, HookPoints, FailureStages
    <3>2. Enter(r, Following(r)) /\ RecordStep(r, step(pc[r]))
      BY <1>19, <2>3 DEF Validate, Reconcile
    <3>3. trace[r] = Evidence(r, n) /\ n \in Nat
      BY <1>3, <1>9, <1>11, <3>1
    <3>4. m = n + 1 /\ ev[n + 1] = pc[r]
      BY <1>2, <2>1, <3>1, CountSteps
    <3>5. trace'[r] = Append(Evidence(r, n), step(ev[n + 1]))
      BY <1>7, <3>2, <3>3, <3>4
    <3>6. trace'[r] = Evidence(r, m)
      BY <3>3, <3>4, <3>5, EvidenceGrows DEF k
    <3>7. QED
      BY <1>13, <2>1, <3>1, <3>2, <3>6
  <2>4. QED
    BY <2>2, <2>3
<1>20. CASE MarkGate(r) \/ Simulate(r) \/ AuditPolicy(r)
  <2>1. pc[r] \in {"MARK", "L5", "POLICY"} /\ UNCHANGED <<told, trace>>
    BY <1>20 DEF MarkGate, Simulate, AuditPolicy
  <2>2. CASE Raise(r)
    <3>1. pc'[r] \in FailureStages
      BY <1>5, <2>2 DEF Raise, FailureStages
    <3>2. QED
      BY <1>12, <2>1, <3>1
  <2>3. CASE ~Raise(r)
    <3>1. pc[r] \in StagesOf(k) \ {"TRACE", "DECISION", "RESULT"} /\ result[r] = None
      BY <1>4, <2>1 DEF k, Typed, AtOwnStage, HookPoints, FailureStages
    <3>2. Enter(r, Following(r))
      BY <1>20, <2>3 DEF MarkGate, Simulate, AuditPolicy
    <3>3. trace[r] = Evidence(r, n) /\ n \in Nat
      BY <1>3, <1>9, <1>11, <3>1
    <3>4. m = n
      BY <1>2, <2>1, <3>1, CountSteps
    <3>5. QED
      BY <1>13, <2>1, <3>1, <3>2, <3>3, <3>4
  <2>4. QED
    BY <2>2, <2>3
<1>21. CASE CommitTrace(r) \/ CommitDecision(r)
  <2>1. pc[r] \in {"TRACE", "DECISION"} /\ UNCHANGED <<told, trace>>
    BY <1>21 DEF CommitTrace, CommitDecision
  <2>2. CASE Raise(r)
    <3>1. pc'[r] \in FailureStages
      BY <1>5, <2>2 DEF Raise, FailureStages
    <3>2. QED
      BY <1>12, <2>1, <3>1
  <2>3. CASE ~Raise(r)
    <3>1. pc[r] \in StagesOf(k) \ {"RESULT"} /\ result[r] = None
      BY <1>2, <1>4, <2>1, RecordStages DEF HookPoints
    <3>2. /\ Enter(r, Following(r))
          /\ pc[r] = "TRACE" => recorded'[r] = trace[r]
          /\ pc[r] = "DECISION" => recorded' = recorded
      BY <1>21, <2>3 DEF CommitTrace, CommitDecision, RecordTrace, Typed, TypeOK
    <3>3. trace[r] = Evidence(r, n) /\ n \in Nat
      BY <1>3, <1>9, <1>11, <3>1
    <3>4. m = n /\ (pc[r] = "TRACE" => n = Len(ev))
      BY <1>2, <2>1, <3>1, CountSteps
    <3>5. recorded'[r] = AllEvidence(r)
      BY <1>3, <2>1, <3>2, <3>3, <3>4 DEF AllEvidence, k
    <3>6. pc'[r] = After[k][pc[r]] /\ result'[r] = None
      BY <1>5, <3>1, <3>2, FollowingIs DEF k
    <3>7. pc'[r] \in StagesOf(k)
      BY <1>2, <3>1, <3>6, AfterType
    <3>8. Count[k][pc'[r]] + 0 = n
      BY <3>3, <3>4, <3>6
    <3>9. Has(trace'[r], pc'[r], result'[r])
      BY <1>9, <2>1, <3>3, <3>6, <3>8
    <3>10. QED
      BY <1>8, <3>5, <3>7, <3>9 DEF Good
  <2>4. QED
    BY <2>2, <2>3
<1>22. CASE Return(r)
  <2>1. pc[r] = "RESULT" /\ UNCHANGED recorded /\ ((Raise(r) /\ UNCHANGED told) \/ End(r, "approved"))
    BY <1>22 DEF Return
  <2>2. CASE End(r, "approved")
    <3>1. pc'[r] = "done" /\ recorded'[r] = AllEvidence(r)
      BY <1>3, <1>6, <2>1, <2>2
    <3>2. QED
      BY <1>8, <3>1 DEF Good
  <2>3. CASE Raise(r) /\ UNCHANGED told
    <3>1. pc'[r] \in FailureStages
      BY <1>5, <2>3 DEF Raise, FailureStages
    <3>2. QED
      BY <1>12, <2>1, <2>3, <3>1
  <2>4. QED
    BY <2>1, <2>2, <2>3
<1>23. CASE FailTrace(r) \/ FailDecision(r)
  <2>1. pc[r] # "done"
    BY <1>23 DEF FailTrace, FailDecision
  <2>2. \/ (Enter(r, "F_DECISION") \/ Enter(r, "F_ENRICH")) /\ UNCHANGED told
        \/ End(r, "raw")
    <3>1. CASE FailTrace(r)
      BY <3>1 DEF FailTrace
    <3>2. CASE FailDecision(r)
      BY <3>2 DEF FailDecision
    <3>3. QED
      BY <1>23, <3>1, <3>2
  <2>3. CASE End(r, "raw")
    BY <1>6, <1>12, <2>1, <2>3
  <2>4. CASE (Enter(r, "F_DECISION") \/ Enter(r, "F_ENRICH")) /\ UNCHANGED told
    <3>1. pc'[r] \in FailureStages
      BY <1>5, <2>4 DEF FailureStages
    <3>2. QED
      BY <1>12, <2>1, <2>4, <3>1
  <2>5. QED
    BY <2>2, <2>3, <2>4
<1>24. CASE FailEnrich(r) \/ Cancel(r)
  <2>1. pc[r] # "done" /\ \E how \in {"blocked", "raw", "cancelled"} : End(r, how)
    BY <1>24 DEF FailEnrich, Cancel, HookPoints
  <2>2. pc'[r] = "done" /\ told'[r] # "approved"
    BY <1>6, <2>1
  <2>3. QED
    BY <1>12, <2>1, <2>2
<1>25. QED
  BY <1>14, <1>15, <1>16, <1>17, <1>18, <1>19, <1>20, <1>21, <1>22, <1>23, <1>24 DEF Acts, Step

LEMMA EvidenceStep ==
    ASSUME FindsRecorder, Typed, JobIsCurrent, RecorderOwned, RecorderBound, EvidenceSoFar,
           [Next]_vars
    PROVE  EvidenceSoFar'
<1>1. SUFFICES ASSUME NEW r \in Requests
               PROVE  /\ pc'[r] = "idle" => trace'[r] = Evidence(r, 0)
                      /\ pc'[r] \in StagesOf(Kind[r]) =>
                            trace'[r] = Evidence(r, Count[Kind[r]][pc'[r]]
                                  + IF result'[r] \in {"passed", "blocked"} THEN 1 ELSE 0)
                      /\ pc'[r] \in {"DECISION", "RESULT"} \/ told'[r] = "approved" =>
                            recorded'[r] = AllEvidence(r)
  BY DEF EvidenceSoFar, Evidence, AllEvidence
<1>2. CASE Acts(r)
  BY <1>2, EvidenceActs
<1>3. ASSUME ~Acts(r)
      PROVE  /\ pc'[r] = pc[r] /\ trace'[r] = trace[r] /\ result'[r] = result[r]
             /\ told'[r] = told[r] /\ recorded'[r] = recorded[r]
  <2>1. ASSUME NEW q \in Requests \ {r}, Acts(q)
        PROVE  /\ pc'[r] = pc[r] /\ trace'[r] = trace[r] /\ result'[r] = result[r]
               /\ told'[r] = told[r] /\ recorded'[r] = recorded[r]
    BY <2>1, OthersTrace, ActsAreLocal DEF Untouched
  <2>2. QED
    BY <1>3, <2>1, NextIs DEF CloseSession, vars, hooks
<1>4. CASE ~Acts(r)
  BY <1>3, <1>4 DEF EvidenceSoFar
<1>5. QED
  BY <1>2, <1>4

\* "Lirix binds a per-invocation recorder to guarantee hook-to-trace truth-source
\* recording in production flows" (hook_manager.py): the trace digested for an approved
\* call holds a step of each of its own stages, in order, and no other, if each hook point
\* has a coroutine or if no client has two requests.
THEOREM EvidenceIsOwnHolds == ASSUME FindsRecorder PROVE Spec => []EvidenceIsOwn
<1>1. Init => RecorderBound /\ EvidenceSoFar
  <2> SUFFICES ASSUME Init
               PROVE  RecorderBound /\ EvidenceSoFar
    OBVIOUS
  <2>1. RecorderBound
    BY DEF Init, RecorderBound, Running
  <2>2. ASSUME NEW r \in Requests
        PROVE  /\ pc[r] = "idle" /\ told[r] = None /\ trace[r] = Evidence(r, 0)
               /\ pc[r] \notin StagesOf(Kind[r])
    BY <2>2, NoEvidence, StageNamesAre DEF Init
  <2>3. QED
    BY <2>1, <2>2 DEF EvidenceSoFar, None
<1>2. ASSUME Typed, JobIsCurrent, RecorderOwned, RecorderBound, EvidenceSoFar, [Next]_vars
      PROVE  RecorderBound' /\ EvidenceSoFar'
  BY <1>2, RecorderBoundStep, EvidenceStep
<1>3. EvidenceSoFar => EvidenceIsOwn
  BY DEF EvidenceSoFar, EvidenceIsOwn, AllEvidence, Evidence
<1>4. QED
  BY <1>1, <1>2, <1>3, JobHolds, RecorderOwnedHolds, PTL DEF Spec
===============================================================================
