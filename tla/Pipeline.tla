------------------------------- MODULE Pipeline -------------------------------
(***************************************************************************)
(* lirix/core/orchestrator.py and the parts of lirix/_facade.py and        *)
(* lirix/core/hook_manager.py it drives: requests of Lirix clients running *)
(* concurrently, from link_trace to the verdict their caller is told.      *)
(*                                                                         *)
(* A request walks the stages of its kind.  At a hook stage the callbacks  *)
(* run in an executor thread (the job of the request) while the request    *)
(* awaits; the thread has no context variable and records into the         *)
(* recorder last bound to its client.  Everything else records into the    *)
(* request's own trace.  A stage that raises sends the request down        *)
(* _record_failure, F_TRACE to F_ENRICH, each step of which can raise      *)
(* again.  The finally clause unbinds the client's recorder.               *)
(***************************************************************************)
EXTENDS SessionFSM, FiniteSets

CONSTANTS
    Requests,      \* the calls; a request is its own correlation id
    Kind,          \* Kind[r]: "validate", "simulate" or "full"
    Clients,       \* Lirix instances; each has a config fingerprint of its own
    ClientOf,      \* ClientOf[r]
    Shared,        \* sessions the callers own and pass in
    SessionOf,     \* SessionOf[r]: a shared session, or r itself when managed
    Agent,         \* the shared sessions with workflow_mode "agent"
    Prepared,      \* is plan, draft, tool_call recorded in the agent sessions?
    HookMode,      \* config.hook_contract_mode
    Registered,    \* the hook points that have callbacks; LAYERS is L1 to L3
    Coroutines,    \* those of them with a coroutine function among the callbacks
    RequireGate,   \* config.simulate_only_requires_prior_validate
    Drafts,        \* contents of a draft
    Valid,         \* the drafts L1-L3 accept
    Cancels,       \* can the task of a request be cancelled?
    OwnerCloses,   \* can the owner of a shared session finalize it?
    MaxInFlight    \* requests that run at the same time

None == "none"

Sessions == Shared \cup Requests

ASSUME PipelineAssumption ==
    /\ Kind \in [Requests -> {"validate", "simulate", "full"}]
    /\ ClientOf \in [Requests -> Clients]
    /\ Requests \cap Shared = {}
    /\ \A r \in Requests : SessionOf[r] \in Shared \cup {r}
    /\ DOMAIN SessionOf = Requests
    /\ Agent \subseteq Shared
    /\ HookMode \in {"legacy", "warn", "shadow", "enforce"}
    /\ Registered \subseteq {"PRE_VALIDATE", "POST_VALIDATE", "PRE_SIMULATION",
                             "POST_SIMULATION", "LAYER_L5", "LAYERS"}
    /\ Coroutines \subseteq Registered \ {"LAYERS"}
    /\ {Prepared, RequireGate, Cancels, OwnerCloses} \subseteq BOOLEAN
    /\ Valid \subseteq Drafts
    /\ MaxInFlight \in Nat
    /\ None \notin Requests

VARIABLES
    pc,        \* pc[r]: the stage r is in
    draft,     \* draft[r]: request.draft_payload
    job,       \* job[r]: the hook point whose callbacks the executor has to run
    result,    \* result[r]: what they returned
    zombie,    \* r has a timed-out hook thread that still holds the raw draft
    trace,     \* trace[r]: the steps of r's SecurityTrace
    recorded,  \* recorded[r]: trace[r] as record_trace digested it
    simulated, \* simulated[r]: the draft L5 executed
    told,      \* told[r]: how the call ended for its caller
    recorder,  \* recorder[c]: HookManager._trace_recorder of c, as a request
    session    \* session[s]: [lifecycle, timeline, gate]

vars == <<pc, draft, job, result, zombie, trace, recorded, simulated, told,
          recorder, session>>

hooks == <<job, result, zombie>>

-----------------------------------------------------------------------------
(***************************************************************************)
(* Stages                                                                  *)
(***************************************************************************)

HookPoints == {"PRE_VALIDATE", "POST_VALIDATE", "PRE_SIMULATION", "POST_SIMULATION",
               "LAYER_L5"}

MUT_Stages ==
    [validate |-> <<"PRE_VALIDATE", "L1L3", "POST_VALIDATE", "MARK",
                    "TRACE", "DECISION", "RESULT">>,
     simulate |-> <<"PRE_SIMULATION", "L4", "L5", "LAYER_L5", "POST_SIMULATION",
                    "TRACE", "DECISION", "RESULT">>,
     full     |-> <<"PRE_VALIDATE", "L1L3", "MARK", "PRE_SIMULATION",
                    "L4", "L5", "LAYER_L5", "POLICY", "POST_SIMULATION", "POST_VALIDATE",
                    "TRACE", "DECISION", "RESULT">>]

\* The bodies of run_validate, run_simulate and run_full.
Stages ==
    [validate |-> <<"PRE_VALIDATE", "L1L3", "POST_VALIDATE", "MARK",
                    "TRACE", "DECISION", "RESULT">>,
     simulate |-> <<"PRE_SIMULATION", "L4", "L5", "LAYER_L5", "POST_SIMULATION",
                    "TRACE", "DECISION", "RESULT">>,
     full     |-> <<"PRE_VALIDATE", "L1L3", "MARK", "PRE_SIMULATION", "RECHECK",
                    "L4", "L5", "LAYER_L5", "POLICY", "POST_SIMULATION", "POST_VALIDATE",
                    "TRACE", "DECISION", "RESULT">>]

StageNames == UNION {{Stages[k][i] : i \in 1..Len(Stages[k])} : k \in DOMAIN Stages}

FailureStages == {"F_TRACE", "F_DECISION", "F_ENRICH"}

Position(r) == CHOOSE i \in 1..Len(Stages[Kind[r]]) : Stages[Kind[r]][i] = pc[r]

Following(r) == Stages[Kind[r]][Position(r) + 1]

\* r goes on to stage st; a hook stage hands its callbacks to the executor
Enter(r, st) ==
    /\ pc' = [pc EXCEPT ![r] = st]
    /\ job' = [job EXCEPT ![r] = IF st \in HookPoints THEN st ELSE @]
    /\ result' = [result EXCEPT ![r] = None]

Raise(r) == Enter(r, "F_TRACE")

MUT_End(r, how) ==
    /\ pc' = [pc EXCEPT ![r] = "done"]
    /\ told' = [told EXCEPT ![r] = how]
    /\ recorder' = [recorder EXCEPT ![ClientOf[r]] = IF how = "approved" THEN None ELSE @]

\* the call returns or raises, through the finally clause
End(r, how) ==
    /\ pc' = [pc EXCEPT ![r] = "done"]
    /\ told' = [told EXCEPT ![r] = how]
    /\ recorder' = [recorder EXCEPT ![ClientOf[r]] = None]

Managed(r) == SessionOf[r] = r

Strict(s) == s \in Agent

-----------------------------------------------------------------------------
(***************************************************************************)
(* Session effects                                                         *)
(***************************************************************************)

Appended(s, e) == [session EXCEPT ![s].timeline = Append(@, e)]

CanTrace(s) == session[s].lifecycle # "finalized"

MUT_Entry(r, ev, st) == [ev |-> ev, st |-> st, by |-> ClientOf[r], client |-> r]

\* st is the status field of the entry itself (the outcome is ValidationSession's)
Entry(r, ev, st) == [ev |-> ev, st |-> st, by |-> r, client |-> ClientOf[r]]

\* record_trace; the trace is digested as it stands now
RecordTrace(r, st, steps) ==
    /\ session' = [session EXCEPT
         ![SessionOf[r]].timeline = Append(@, Entry(r, "trace", st)),
         ![SessionOf[r]].lifecycle = "running"]
    /\ recorded' = [recorded EXCEPT ![r] = steps]

\* record_decision does not raise
CanDecide(s) ==
    /\ Strict(s) => {"plan", "draft"} \subseteq EventsSeen(session[s].timeline)
    /\ ValidateAppend(session[s].lifecycle, session[s].timeline, "decision", Strict(s))

MUT_Decided(r, st) ==
    LET s == SessionOf[r]
        decided == Append(session[s].timeline, Entry(r, "decision", st))
    IN  IF Managed(r) /\ st = "ok"
        THEN [session EXCEPT ![s].timeline = Append(decided, Entry(r, "finalize", st)),
                             ![s].lifecycle = "finalized"]
        ELSE [session EXCEPT ![s].timeline = decided]

\* record_decision and, for a managed session, finalize
Decided(r, st) ==
    LET s == SessionOf[r]
        decided == Append(session[s].timeline, Entry(r, "decision", st))
    IN  IF Managed(r)
        THEN [session EXCEPT ![s].timeline = Append(decided, Entry(r, "finalize", st)),
                             ![s].lifecycle = "finalized"]
        ELSE [session EXCEPT ![s].timeline = decided]

MUT_CanBundle(s) ==
    LET tl == session[s].timeline
    IN  \A i, j \in 1..Len(tl) :
            tl[i].ev = "trace" /\ tl[j].ev = "trace" => tl[i].by = tl[j].by

\* replay_bundle does not raise: the traces agree on the config fingerprint
CanBundle(s) ==
    LET tl == session[s].timeline
    IN  \A i, j \in 1..Len(tl) :
            tl[i].ev = "trace" /\ tl[j].ev = "trace" => tl[i].client = tl[j].client

-----------------------------------------------------------------------------
(***************************************************************************)
(* Actions                                                                 *)
(***************************************************************************)

OwnerEntry(ev) == [ev |-> ev, st |-> IF ev = "tool_call" THEN "ok" ELSE "info",
                   by |-> None, client |-> None]

Init ==
    /\ pc = [r \in Requests |-> "idle"]
    /\ draft \in [Requests -> Drafts]
    /\ job = [r \in Requests |-> None]
    /\ result = [r \in Requests |-> None]
    /\ zombie = [r \in Requests |-> FALSE]
    /\ trace = [r \in Requests |-> <<>>]
    /\ recorded = [r \in Requests |-> <<>>]
    /\ simulated = [r \in Requests |-> None]
    /\ told = [r \in Requests |-> None]
    /\ recorder = [c \in Clients |-> None]
    /\ session = [s \in Sessions |->
         [lifecycle |-> "open",
          timeline |-> IF s \in Agent /\ Prepared
                         THEN <<OwnerEntry("plan"), OwnerEntry("draft"), OwnerEntry("tool_call")>>
                         ELSE <<>>,
          gate |-> FALSE]]

Running == {r \in Requests : pc[r] \notin {"idle", "done"}}

MUT_Start(r) ==
    /\ pc[r] = "idle"
    /\ Cardinality(Running) < MaxInFlight
    /\ CanTrace(SessionOf[r])
    /\ Enter(r, Stages[Kind[r]][1])
    /\ recorder' = [recorder EXCEPT ![ClientOf[r]] = r]
    /\ UNCHANGED <<draft, zombie, trace, recorded, simulated, told, session>>

GatePassed(r) == Kind[r] = "simulate" /\ RequireGate => session[SessionOf[r]].gate

\* link_trace, request_normalization and bind_trace_recorder
Start(r) ==
    /\ pc[r] = "idle"
    /\ Cardinality(Running) < MaxInFlight
    /\ GatePassed(r)
    /\ CanTrace(SessionOf[r])
    /\ Enter(r, Stages[Kind[r]][1])
    /\ recorder' = [recorder EXCEPT ![ClientOf[r]] = r]
    /\ UNCHANGED <<draft, zombie, trace, recorded, simulated, told, session>>

\* _ensure_simulate_only_precondition or link_trace raises, outside the try
Refuse(r) ==
    /\ pc[r] = "idle"
    /\ ~(GatePassed(r) /\ CanTrace(SessionOf[r]))
    /\ pc' = [pc EXCEPT ![r] = "done"]
    /\ told' = [told EXCEPT ![r] = "refused"]
    /\ UNCHANGED <<draft, hooks, trace, recorded, simulated, recorder, session>>

\* Do the callbacks at a point hold the draft itself?  All modes but legacy wrap
\* it, and the L5 hook gets the simulation instead.
HoldsDraft(point) ==
    point \in Registered \ {"LAYER_L5"} /\ HookMode = "legacy"

\* May they change it?  Also by a HookPatch where mode and point allow one.
CanWrite(point) ==
    \/ HoldsDraft(point)
    \/ /\ point \in Registered \cap {"PRE_VALIDATE", "PRE_SIMULATION"}
       /\ HookMode \in {"warn", "enforce"}

\* What the callbacks do to the draft: now, and, where they hold it, later from
\* a thread that outlived its timeout.
HooksTouchDraft(r, point) ==
    /\ \E d \in Drafts : /\ d # draft[r] => CanWrite(point)
                         /\ draft' = [draft EXCEPT ![r] = d]
    /\ \E late \in BOOLEAN : /\ late => HoldsDraft(point)
                             /\ zombie' = [zombie EXCEPT ![r] = @ \/ late]

\* How the callbacks at a point can come out.  A LirixSecurityException passes
\* through; only enforce turns a rejection or a violation into a fatal result.
Outcomes(point) ==
    {"passed"} \cup IF point \in Registered
                     THEN {"raised"} \cup IF HookMode = "enforce" THEN {"blocked"} ELSE {}
                     ELSE {}

MUT_NoContext(r) == recorder[ClientOf[r]]

\* _active_trace_recorder.  With a coroutine among them the callbacks are awaited
\* in the task of the request, which has its recorder in a context variable; if
\* all are functions, invoke_hooks_isolated runs in the executor, without one.
HookRecorder(r) == IF job[r] \in Coroutines THEN r ELSE recorder[ClientOf[r]]

RecordStep(rec, step) ==
    trace' = IF rec = None THEN trace ELSE [trace EXCEPT ![rec] = Append(@, step)]

\* invoke_hooks_isolated in the executor, even after the request was cancelled
RunHooks(r) ==
    /\ job[r] # None
    /\ job' = [job EXCEPT ![r] = None]
    /\ \E how \in Outcomes(job[r]) :
          /\ result' = [result EXCEPT ![r] = IF pc[r] = "done" THEN None ELSE how]
          /\ IF how = "raised" THEN UNCHANGED trace
             ELSE RecordStep(HookRecorder(r), [by |-> r, stage |-> job[r]])
    /\ HooksTouchDraft(r, job[r])
    /\ UNCHANGED <<pc, recorded, simulated, told, recorder, session>>

\* a hook thread that outlived its 0.5 s writes to the raw draft
LateWrite(r) ==
    /\ zombie[r]
    /\ \E d \in Drafts \ {draft[r]} : draft' = [draft EXCEPT ![r] = d]
    /\ zombie' = [zombie EXCEPT ![r] = FALSE]
    /\ UNCHANGED <<pc, job, result, trace, recorded, simulated, told, recorder, session>>

\* the results of the L5 hook are not looked at
HooksPassed(r) ==
    \/ result[r] = "passed"
    \/ result[r] = "blocked" /\ pc[r] = "LAYER_L5"

MUT_AfterHooks(r) ==
    /\ pc[r] \in HookPoints
    /\ result[r] # None
    /\ Enter(r, IF HooksPassed(r) THEN Following(r) ELSE pc[r])
    /\ IF pc[r] = "LAYER_L5" /\ HooksPassed(r)
         THEN RecordStep(r, [by |-> r, stage |-> "L5"]) ELSE UNCHANGED trace
    /\ UNCHANGED <<draft, zombie, recorded, simulated, told, recorder, session>>

\* the await returns: _raise_if_hook_blocked, or the L5 step after its hook
AfterHooks(r) ==
    /\ pc[r] \in HookPoints
    /\ result[r] # None
    /\ \/ /\ HooksPassed(r)
          /\ Enter(r, Following(r))
          /\ IF pc[r] = "LAYER_L5" THEN RecordStep(r, [by |-> r, stage |-> "L5"])
                                   ELSE UNCHANGED trace
       \/ /\ ~HooksPassed(r)
          /\ Raise(r)
          /\ UNCHANGED trace
    /\ UNCHANGED <<draft, zombie, recorded, simulated, told, recorder, session>>

\* _run_l1_l3_validation rejects an invalid draft; a layer hook can also raise
\* or, in enforce, block, and one that holds the draft can change it between
\* two layers or after the last.  The step stands for those of the layer hooks;
\* the ones of a rejected pass are left out.
Validate(r) ==
    /\ pc[r] \in {"L1L3", "RECHECK"}
    /\ \/ /\ draft[r] \in Valid \/ HoldsDraft("LAYERS")
          /\ RecordStep(r, [by |-> r, stage |-> pc[r]])
          /\ Enter(r, Following(r))
       \/ /\ draft[r] \notin Valid \/ "LAYERS" \in Registered
          /\ Raise(r)
          /\ UNCHANGED trace
    /\ HooksTouchDraft(r, "LAYERS")
    /\ UNCHANGED <<recorded, simulated, told, recorder, session>>

MarkGate(r) ==
    /\ pc[r] = "MARK"
    /\ session' = [session EXCEPT ![SessionOf[r]].gate = TRUE]
    /\ Enter(r, Following(r))
    /\ UNCHANGED <<draft, zombie, trace, recorded, simulated, told, recorder>>

\* reconcile, get_web3 and the L4 step; quorum or transport errors raise
Reconcile(r) ==
    /\ pc[r] = "L4"
    /\ \/ RecordStep(r, [by |-> r, stage |-> "L4"]) /\ Enter(r, Following(r))
       \/ Raise(r) /\ UNCHANGED trace
    /\ UNCHANGED <<draft, zombie, recorded, simulated, told, recorder, session>>

\* the eth_call of simulate_async; a revert or an RPC error raises
Simulate(r) ==
    /\ pc[r] = "L5"
    /\ simulated' = [simulated EXCEPT ![r] = draft[r]]
    /\ Enter(r, Following(r)) \/ Raise(r)
    /\ UNCHANGED <<draft, zombie, trace, recorded, told, recorder, session>>

\* _run_policy_audit
AuditPolicy(r) ==
    /\ pc[r] = "POLICY"
    /\ Enter(r, Following(r)) \/ Raise(r)
    /\ UNCHANGED <<draft, zombie, trace, recorded, simulated, told, recorder, session>>

\* record_trace(status="ok")
CommitTrace(r) ==
    /\ pc[r] = "TRACE"
    /\ IF CanTrace(SessionOf[r])
         THEN RecordTrace(r, "ok", trace[r]) /\ Enter(r, Following(r))
         ELSE Raise(r) /\ UNCHANGED <<session, recorded>>
    /\ UNCHANGED <<draft, zombie, trace, simulated, told, recorder>>

\* record_decision("approved"), then finalize
CommitDecision(r) ==
    /\ pc[r] = "DECISION"
    /\ IF CanDecide(SessionOf[r])
         THEN session' = Decided(r, "ok") /\ Enter(r, Following(r))
         ELSE Raise(r) /\ UNCHANGED session
    /\ UNCHANGED <<draft, zombie, trace, recorded, simulated, told, recorder>>

\* the result is built around replay_bundle and returned
Return(r) ==
    /\ pc[r] = "RESULT"
    /\ IF CanBundle(SessionOf[r])
         THEN End(r, "approved") /\ UNCHANGED <<job, result>>
         ELSE Raise(r) /\ UNCHANGED <<told, recorder>>
    /\ UNCHANGED <<draft, zombie, trace, recorded, simulated, session>>

\* _record_failure: the failed step, then record_trace(status="rejected")
FailTrace(r) ==
    /\ pc[r] = "F_TRACE"
    /\ LET steps == Append(trace[r], [by |-> r, stage |-> "failed"])
       IN  /\ trace' = [trace EXCEPT ![r] = steps]
           /\ IF CanTrace(SessionOf[r])
                THEN /\ RecordTrace(r, "rejected", steps)
                     /\ Enter(r, "F_DECISION")
                     /\ UNCHANGED <<told, recorder>>
                ELSE End(r, "raw") /\ UNCHANGED <<session, recorded, job, result>>
    /\ UNCHANGED <<draft, zombie, simulated>>

\* record_decision("blocked"), then finalize
FailDecision(r) ==
    /\ pc[r] = "F_DECISION"
    /\ IF CanDecide(SessionOf[r])
         THEN /\ session' = Decided(r, "rejected")
              /\ Enter(r, "F_ENRICH")
              /\ UNCHANGED <<told, recorder>>
         ELSE End(r, "raw") /\ UNCHANGED <<session, job, result>>
    /\ UNCHANGED <<draft, zombie, trace, recorded, simulated>>

\* failures.enrich around replay_bundle and forensic_bundle; raise exc
FailEnrich(r) ==
    /\ pc[r] = "F_ENRICH"
    /\ End(r, IF CanBundle(SessionOf[r]) THEN "blocked" ELSE "raw")
    /\ UNCHANGED <<draft, hooks, trace, recorded, simulated, session>>

\* CancelledError at an await: not a LirixBaseException, so only finally runs.
\* It takes back a job the executor has not begun, and coroutines, but no other.
Cancel(r) ==
    /\ Cancels
    /\ pc[r] \in HookPoints \cup {"L4", "L5"}
    /\ End(r, "cancelled")
    /\ \E begun \in BOOLEAN :
          /\ begun => job[r] \notin Coroutines
          /\ job' = IF begun THEN job ELSE [job EXCEPT ![r] = None]
    /\ result' = [result EXCEPT ![r] = None]
    /\ UNCHANGED <<draft, zombie, trace, recorded, simulated, session>>

\* the owner of a shared session calls finalize
CloseSession(s) ==
    /\ OwnerCloses
    /\ ValidateAppend(session[s].lifecycle, session[s].timeline, "finalize", Strict(s))
    /\ session' = [session EXCEPT ![s].timeline = Append(@, OwnerEntry("finalize")),
                                  ![s].lifecycle = "finalized"]
    /\ UNCHANGED <<pc, draft, hooks, trace, recorded, simulated, told, recorder>>

Step(r) ==
    \/ AfterHooks(r)
    \/ Validate(r)
    \/ MarkGate(r)
    \/ Reconcile(r)
    \/ Simulate(r)
    \/ AuditPolicy(r)
    \/ CommitTrace(r)
    \/ CommitDecision(r)
    \/ Return(r)
    \/ FailTrace(r)
    \/ FailDecision(r)
    \/ FailEnrich(r)

\* every request has ended and no thread of theirs is left
Quiet ==
    /\ \A r \in Requests : pc[r] = "done" /\ job[r] = None
    /\ UNCHANGED vars

Next ==
    \/ \E r \in Requests :
        \/ Start(r)
        \/ Refuse(r)
        \/ RunHooks(r)
        \/ LateWrite(r)
        \/ Step(r)
        \/ Cancel(r)
    \/ \E s \in Shared : CloseSession(s)
    \/ Quiet

Spec == Init /\ [][Next]_vars

\* The event loop runs every task that is ready and the executor every job
\* submitted; hooks are cut off at HOOK_ISOLATED_TIMEOUT_SEC and RPC calls at
\* the provider's request timeout, so every await returns.
Fairness == \A r \in Requests : WF_vars(Step(r)) /\ WF_vars(RunHooks(r))

FairSpec == Spec /\ Fairness

-----------------------------------------------------------------------------
(***************************************************************************)
(* Properties                                                              *)
(***************************************************************************)

Steps == [by : Requests, stage : StageNames \cup {"failed"}]

TypeOK ==
    /\ pc \in [Requests -> StageNames \cup FailureStages \cup {"idle", "done"}]
    /\ draft \in [Requests -> Drafts]
    /\ job \in [Requests -> HookPoints \cup {None}]
    /\ result \in [Requests -> {"passed", "blocked", "raised", None}]
    /\ zombie \in [Requests -> BOOLEAN]
    /\ trace \in [Requests -> Seq(Steps)]
    /\ recorded \in [Requests -> Seq(Steps)]
    /\ simulated \in [Requests -> Drafts \cup {None}]
    /\ told \in [Requests -> {"approved", "blocked", "raw", "refused", "cancelled", None}]
    /\ recorder \in [Clients -> Requests \cup {None}]
    /\ session \in [Sessions ->
         [lifecycle : {"open", "running", "finalized"},
          timeline : Seq([ev : Kinds, st : Statuses, by : Requests \cup {None},
                          client : Clients \cup {None}]),
          gate : BOOLEAN]]

Timeline(r) == session[SessionOf[r]].timeline

\* the indices of r's entries of kind ev
Entries(r, ev) == {i \in 1..Len(Timeline(r)) : Timeline(r)[i].by = r /\ Timeline(r)[i].ev = ev}

\* The record and the caller agree: a call that returns approved left exactly one
\* decision, approved; one that raises with an enriched context exactly one,
\* blocked; and no decision is left behind for a caller told something else.
\* No correlation id ever has two verdicts, and each rests on evidence: the last
\* trace the request recorded before it has its status, whoever else used the session.
VerdictIsRecorded ==
    \A r \in Requests :
        /\ pc[r] = "done" =>
              {Timeline(r)[i].st : i \in Entries(r, "decision")} =
                  CASE told[r] = "approved" -> {"ok"}
                    [] told[r] = "blocked"  -> {"rejected"}
                    [] OTHER                -> {}
        /\ Cardinality(Entries(r, "decision")) <= 1
        /\ \A j \in Entries(r, "decision") :
              \E i \in Entries(r, "trace") :
                  /\ i < j
                  /\ Timeline(r)[i].st = Timeline(r)[j].st
                  /\ \A k \in Entries(r, "trace") : k < j => k <= i

\* A session the pipeline owns ends closed, with one trace, one decision and one
\* finalize of the same status, in this order; a call that fails on one is never left
\* with a bare exception: "_record_failure records rejected validation_session.timeline
\* entry, blocked decision, and enriched exception.context" (docs/audit_path_map.md).
ManagedTimeline ==
    \A r \in Requests :
        Managed(r) /\ told[r] \notin {None, "refused", "cancelled"} =>
            LET st == IF told[r] = "approved" THEN "ok" ELSE "rejected"
            IN  /\ told[r] \in {"approved", "blocked"}
                /\ session[r].lifecycle = "finalized"
                /\ Timeline(r) = <<Entry(r, "trace", st), Entry(r, "decision", st),
                                   Entry(r, "finalize", st)>>

EvidenceOf ==
    [validate |-> <<"PRE_VALIDATE", "L1L3", "POST_VALIDATE">>,
     simulate |-> <<"PRE_SIMULATION", "L4", "LAYER_L5", "L5", "POST_SIMULATION">>,
     full     |-> <<"PRE_VALIDATE", "L1L3", "PRE_SIMULATION", "RECHECK", "L4", "LAYER_L5",
                    "L5", "POST_SIMULATION", "POST_VALIDATE">>]

\* "Lirix binds a per-invocation recorder to guarantee hook-to-trace truth-source
\* recording in production flows" (hook_manager.py): the trace digested for an
\* approved call holds a step of each of its own stages, in order, and no other.
EvidenceIsOwn ==
    \A r \in Requests : told[r] = "approved" =>
        LET stages == EvidenceOf[Kind[r]]
        IN  recorded[r] = [i \in 1..Len(stages) |-> [by |-> r, stage |-> stages[i]]]

\* "Re-run L1-L3 on the same normalized draft after pre-simulation hooks.
\* Fail-closed: blocks L4/L5 if validation regresses post-hook"
\* (orchestrator.py): the full pipeline simulates only drafts L1-L3 accept.
SimulatedIsValid ==
    \A r \in Requests : Kind[r] = "full" /\ simulated[r] # None => simulated[r] \in Valid

\* With simulate_only_requires_prior_validate, a simulation runs only in a session
\* where some request got an L1-L3 pass on record.
GateIsEarned ==
    RequireGate => \A r \in Requests :
        Kind[r] = "simulate" /\ pc[r] # "idle" /\ told[r] # "refused" =>
            \E q \in Requests :
                /\ SessionOf[q] = SessionOf[r]
                /\ \E i \in 1..Len(trace[q]) : trace[q][i] = [by |-> q, stage |-> "L1L3"]

\* When nothing runs, no recorder stays bound, so a later standalone use of the
\* hooks cannot write into the trace of a finished request.
RecorderReleased == Running = {} => \A c \in Clients : recorder[c] = None

\* Every request that starts ends, whatever its hooks, its RPC and the owner of
\* its session do.
Ends == \A r \in Requests : pc[r] # "idle" ~> pc[r] = "done"

=============================================================================
