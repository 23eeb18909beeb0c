--------------------------------- MODULE Hooks ---------------------------------
(***************************************************************************)
(* HookManager of lirix/core/hook_manager.py: calls that run the callbacks *)
(* of a hook point one after the other, with and without isolation, from   *)
(* threads and from event loops, and the default executor they share.      *)
(*                                                                         *)
(* A callback runs on the caller's own thread or task, on a daemon thread  *)
(* of its own, or on a worker of the executor.  One that is cut off by its *)
(* timeout runs on where it is, unless it is a task, which is cancelled,   *)
(* or still waits for a worker, which makes it never run.  What a callback *)
(* returns is one of ReturnsOf; the messages, codes and annotations of the *)
(* results are left out.                                                   *)
(***************************************************************************)
EXTENDS Integers, FiniteSets, SequencesExt

CONSTANTS
    Calls,       \* calls of the four entry points
    Plans,       \* kind is one of these functions from Calls to CallKinds
    Modes,       \* contract_mode is one of these
    Points,      \* hook points
    Bare,        \* the points whose callers pass no payload dictionary
    PatchPoints, \* HOOK_PATCH_ALLOWED_POINTS
    TracePoints, \* those with the capability requires_trace
    Callbacks,
    Coroutines,  \* the callbacks that are coroutine functions
    Hanging,     \* the functions that need never return
    ReturnsOf,   \* ReturnsOf[cb]: the outcomes of callback cb
    Registries,  \* the registry at the start is one of these
    Addable,     \* the registrations that may still happen, [point, callback]
    MaxChanges,  \* bound on the changes of the registry
    MaxLength,   \* bound on the callbacks of a point
    Workers      \* max_workers of the default executor

Entries == {"invoke_hooks", "invoke_hooks_isolated", "ainvoke_hooks", "ainvoke_hooks_isolated"}
ContractModes == {"warn", "shadow", "enforce"}

\* None or an annotation, a patch of the payload, a patch of anything else, a
\* rejection with failure_level fatal, a value of another type; the exceptions
Outcomes == {"none", "patch", "mistarget", "reject", "junk"} \cup {"error", "lirix"}

\* complete: the payload has the required fields of the point
CallKinds == [entry : Entries, point : Points, timed : BOOLEAN, complete : BOOLEAN]

ASSUME HooksAssumption ==
    /\ Plans \subseteq [Calls -> CallKinds]
    /\ Modes \subseteq ContractModes \cup {"legacy"}
    /\ PatchPoints \cup TracePoints \cup Bare \subseteq Points
    /\ Coroutines \subseteq Callbacks /\ Hanging \subseteq Callbacks \ Coroutines
    /\ ReturnsOf \in [Callbacks -> SUBSET Outcomes]
    /\ Registries \subseteq [Points -> Seq(Callbacks)]
    /\ \A known \in Registries : \A p \in Points : Len(known[p]) <= MaxLength
    /\ Addable \subseteq Points \X Callbacks
    /\ MaxChanges \in Nat /\ MaxLength \in Nat /\ Workers \in Nat \ {0}

VARIABLES
    mode,      \* _contract_mode
    registry,  \* _registry
    changes,   \* how often it has changed
    pc,        \* pc[c]: "idle", "submitted", "ready", "waiting", "returned", "raised"
    kind,      \* kind[c]: what call c is
    callbacks, \* callbacks[c]: the snapshot of the registry it works through
    results,   \* results[c]: the results so far
    run,       \* run[c][i]: the state of its i-th callback
    queue,     \* jobs that wait for a worker: <<c, i>>, or <<c, 0>> for the whole call
    held,      \* jobs that hold a worker
    draft,     \* draft[c]: which callback wrote a field of the payload last, 0 for none
    trace      \* trace[c]: the status of its step in the trace, "none" without

vars == <<mode, registry, changes, pc, kind, callbacks, results, run, queue, held, draft, trace>>

pool == <<queue, held>>
hooks == <<mode, registry, changes>>

Init ==
    /\ mode \in Modes
    /\ registry \in Registries
    /\ changes = 0
    /\ pc = [c \in Calls |-> "idle"]
    /\ kind \in Plans
    /\ callbacks = [c \in Calls |-> <<>>]
    /\ results = [c \in Calls |-> <<>>]
    /\ run = [c \in Calls |-> [i \in 1..MaxLength |-> "none"]]
    /\ queue = <<>>
    /\ held = {}
    /\ draft = [c \in Calls |-> 0]
    /\ trace = [c \in Calls |-> "none"]

Isolated(c) == kind[c].entry \in {"invoke_hooks_isolated", "ainvoke_hooks_isolated"}
OnLoop(c) == kind[c].entry \in {"ainvoke_hooks", "ainvoke_hooks_isolated"}

\* ainvoke_hooks has a timeout of its own, invoke_hooks has none
Timed(c) ==
    \/ kind[c].entry = "ainvoke_hooks"
    \/ Isolated(c) /\ kind[c].timed

Ended(c) == pc[c] \in {"returned", "raised"}

\* the callback the call waits for, or is about to start
Current(c) == Len(results[c]) + 1

OnTask(c, i) == OnLoop(c) /\ callbacks[c][i] \in Coroutines
OnWorker(c, i) == OnLoop(c) /\ callbacks[c][i] \notin Coroutines /\ Timed(c)

-----------------------------------------------------------------------------
(***************************************************************************)
(* The registry                                                            *)
(***************************************************************************)

\* register_hook; the signature of the callback is not modelled
RegisterHook(p, cb) ==
    /\ changes < MaxChanges
    /\ Len(registry[p]) < MaxLength
    /\ registry' = [registry EXCEPT ![p] = Append(@, cb)]
    /\ changes' = changes + 1
    /\ UNCHANGED <<mode, pc, kind, callbacks, results, run, pool, draft, trace>>

\* clear, of some points or of all
Clear(ps) ==
    /\ changes < MaxChanges
    /\ \E p \in ps : registry[p] # <<>>
    /\ registry' = [p \in Points |-> IF p \in ps THEN <<>> ELSE registry[p]]
    /\ changes' = changes + 1
    /\ UNCHANGED <<mode, pc, kind, callbacks, results, run, pool, draft, trace>>

-----------------------------------------------------------------------------
(***************************************************************************)
(* Results                                                                 *)
(***************************************************************************)

PatchAllowed(c) == kind[c].point \in PatchPoints /\ mode # "shadow"

\* _result_contract_state and _payload_contract_state
ContractOk(c, out) == kind[c].complete /\ out # "junk"

Forbidden(c, out) == out = "mistarget" \/ (out = "patch" /\ ~PatchAllowed(c))

\* the contract violations and rejections that _hook_ok_result makes errors
Fatal(c, out) ==
    /\ mode = "enforce"
    /\ Forbidden(c, out) \/ out = "reject" \/ ~ContractOk(c, out)

\* a contract warning has a level of its own, a decision keeps the one it states
Level(c, out) ==
    IF Fatal(c, out) THEN "fatal"
    ELSE IF out = "mistarget" \/ (mode # "legacy" /\ (Forbidden(c, out) \/ ~ContractOk(c, out)))
         THEN IF mode = "shadow" THEN "shadow_only" ELSE "observe_only"
         ELSE IF out = "reject" THEN "fatal" ELSE "soft"

\* _hook_error_result
ErrorResult(out, level) == [out |-> out, ok |-> FALSE, level |-> level, patched |-> FALSE]

\* _hook_ok_result, and whether the call applies the patch then
OkResult(c, out) ==
    [out |-> out, ok |-> ~Fatal(c, out), level |-> Level(c, out),
     patched |-> /\ out = "patch" /\ ~Fatal(c, out) /\ PatchAllowed(c)
                 /\ kind[c].point \notin Bare]

Results ==
    [out : Outcomes \cup {"async", "timeout"}, ok : BOOLEAN,
     level : {"fatal", "shadow_only", "observe_only", "soft"}, patched : BOOLEAN]

\* without isolation the result is the value the callback returned
PlainResult(out) == [out |-> out, ok |-> TRUE, level |-> "soft", patched |-> FALSE]

\* aggregate_statuses over the results; a fatal one counts as degraded too
TraceStatus(rs) ==
    CASE rs = <<>> -> "info"
      [] \E i \in 1..Len(rs) : ~rs[i].ok -> "degraded"
      [] OTHER -> "ok"

-----------------------------------------------------------------------------
(***************************************************************************)
(* A call                                                                  *)
(***************************************************************************)

\* the exception drops the results and the trace, not the patches applied before
Raise(c) ==
    /\ pc' = [pc EXCEPT ![c] = "raised"]
    /\ UNCHANGED <<results, draft>>

\* the result of the current callback is r; a patch goes into the payload
Conclude(c, r) ==
    /\ pc' = [pc EXCEPT ![c] = "ready"]
    /\ results' = [results EXCEPT ![c] = Append(@, r)]
    /\ draft' = IF r.patched THEN [draft EXCEPT ![c] = Current(c)] ELSE draft

\* ainvoke_hooks_isolated hands a call without coroutines to the executor, and
\* waits for it without a timeout
Begin(c) ==
    LET found == registry[kind[c].point]
        fast == /\ kind[c].entry = "ainvoke_hooks_isolated"
                /\ ToSet(found) \cap Coroutines = {}
    IN  /\ pc[c] = "idle"
        /\ pc' = [pc EXCEPT ![c] = IF fast THEN "submitted" ELSE "ready"]
        /\ queue' = IF fast THEN Append(queue, <<c, 0>>) ELSE queue
        /\ callbacks' = IF fast THEN callbacks ELSE [callbacks EXCEPT ![c] = found]
        /\ UNCHANGED <<hooks, kind, results, run, held, draft, trace>>

MUT_FreeWorker == Cardinality(held) <= Workers

FreeWorker == Cardinality(held) < Workers

\* a worker takes the next job: for a call, invoke_hooks_isolated, which looks at
\* the registry again, for a callback of a call on a loop, the callback
TakeJob ==
    /\ queue # <<>> /\ FreeWorker
    /\ queue' = Tail(queue)
    /\ held' = held \cup {Head(queue)}
    /\ LET c == Head(queue)[1]
           i == Head(queue)[2]
       IN  IF i = 0
           THEN /\ pc' = [pc EXCEPT ![c] = "ready"]
                /\ kind' = [kind EXCEPT ![c].entry = "invoke_hooks_isolated"]
                /\ callbacks' = [callbacks EXCEPT ![c] = registry[kind[c].point]]
                /\ UNCHANGED run
           ELSE /\ run' = [run EXCEPT ![c][i] = "running"]
                /\ UNCHANGED <<pc, kind, callbacks>>
    /\ UNCHANGED <<hooks, results, draft, trace>>

\* the next callback; a thread cannot run a coroutine
StartNext(c) ==
    LET i == Current(c)
    IN  /\ pc[c] = "ready" /\ i <= Len(callbacks[c])
        /\ IF ~OnLoop(c) /\ callbacks[c][i] \in Coroutines
           THEN /\ \/ Isolated(c) /\ Conclude(c, ErrorResult("async", "soft"))
                   \/ ~Isolated(c) /\ Raise(c)
                /\ UNCHANGED <<run, pool>>
           ELSE /\ pc' = [pc EXCEPT ![c] = "waiting"]
                /\ run' = [run EXCEPT ![c][i] = IF OnWorker(c, i) THEN "queued" ELSE "running"]
                /\ queue' = IF OnWorker(c, i) THEN Append(queue, <<c, i>>) ELSE queue
                /\ UNCHANGED <<held, results, draft>>
        /\ UNCHANGED <<hooks, kind, callbacks, trace>>

MUT_Write(c, i) ==
    /\ run[c][i] = "running" /\ kind[c].point \notin Bare
    /\ ~Isolated(c) \/ mode \in {"legacy", "warn"}
    /\ draft' = [draft EXCEPT ![c] = i]
    /\ UNCHANGED <<hooks, pc, kind, callbacks, results, run, pool, trace>>

\* a running callback writes to the dictionary it was given; isolated and in a
\* contract mode it has a read-only view of a copy, made when the call began
Write(c, i) ==
    /\ run[c][i] = "running" /\ kind[c].point \notin Bare
    /\ ~Isolated(c) \/ mode = "legacy"
    /\ draft' = [draft EXCEPT ![c] = i]
    /\ UNCHANGED <<hooks, pc, kind, callbacks, results, run, pool, trace>>

\* the call still waits for callback i
Heard(c, i) == pc[c] = "waiting" /\ i = Current(c)

\* callback i of the call ends with out; nobody hears one that ends too late
Finish(c, i) ==
    /\ run[c][i] = "running"
    /\ run' = [run EXCEPT ![c][i] = "over"]
    /\ \E out \in ReturnsOf[callbacks[c][i]] :
        LET raises == Heard(c, i) /\ (out = "lirix" \/ (out = "error" /\ ~Isolated(c)))
        IN  /\ held' = held \ ({<<c, i>>} \cup IF raises THEN {<<c, 0>>} ELSE {})
            /\ \/ raises /\ Raise(c)
               \/ /\ Heard(c, i) /\ ~raises
                  /\ Conclude(c, IF ~Isolated(c) THEN PlainResult(out)
                                 ELSE IF out = "error" THEN ErrorResult(out, "soft")
                                      ELSE OkResult(c, out))
               \/ ~Heard(c, i) /\ UNCHANGED <<pc, results, draft>>
    /\ UNCHANGED <<hooks, kind, callbacks, queue, trace>>

MUT_CutOff(c, i) ==
    /\ run' = [run EXCEPT ![c][i] = IF OnTask(c, i) THEN "over" ELSE @]
    /\ UNCHANGED queue

\* what is under way when the timeout strikes: wait_for cancels a task and takes a
\* job that still waits out of the queue, a thread that runs runs on
CutOff(c, i) ==
    /\ run' = [run EXCEPT ![c][i] =
                  IF OnTask(c, i) THEN "over" ELSE IF @ = "queued" THEN "dropped" ELSE @]
    /\ queue' = RemoveFirst(queue, <<c, i>>)

MUT_TimeOutResult == [ErrorResult("timeout", "soft") EXCEPT !.ok = TRUE]

\* reported, and written to the audit log by emit_system_event, which runs no hooks
TimeOutResult == ErrorResult("timeout", "soft")

MUT_TimeOut(c) ==
    /\ pc[c] = "waiting" /\ Timed(c) /\ OnLoop(c)
    /\ CutOff(c, Current(c))
    /\ \/ Isolated(c) /\ Conclude(c, TimeOutResult)
       \/ ~Isolated(c) /\ Raise(c)
    /\ UNCHANGED <<hooks, kind, callbacks, held, trace>>

\* the join or wait_for of the current callback times out
TimeOut(c) ==
    /\ pc[c] = "waiting" /\ Timed(c)
    /\ CutOff(c, Current(c))
    /\ \/ Isolated(c) /\ Conclude(c, TimeOutResult)
       \/ ~Isolated(c) /\ Raise(c)
    /\ UNCHANGED <<hooks, kind, callbacks, held, trace>>

\* all have been called; _maybe_record_hook_trace
Return(c) ==
    /\ pc[c] = "ready" /\ Current(c) > Len(callbacks[c])
    /\ pc' = [pc EXCEPT ![c] = "returned"]
    /\ held' = held \ {<<c, 0>>}
    /\ trace' = IF Isolated(c) /\ kind[c].point \in TracePoints
                THEN [trace EXCEPT ![c] = TraceStatus(results[c])] ELSE trace
    /\ UNCHANGED <<hooks, kind, callbacks, results, run, queue, draft>>

Next ==
    \/ \E a \in Addable : RegisterHook(a[1], a[2])
    \/ \E ps \in {{p} : p \in Points} \cup {Points} : Clear(ps)
    \/ TakeJob
    \/ \E c \in Calls :
        \/ Begin(c) \/ StartNext(c) \/ TimeOut(c) \/ Return(c)
        \/ \E i \in 1..MaxLength : Write(c, i) \/ Finish(c, i)

\* the program and its timers run, and a callback ends that is not Hanging
Fairness ==
    /\ WF_vars(TakeJob)
    /\ \A c \in Calls :
        /\ WF_vars(StartNext(c)) /\ WF_vars(TimeOut(c)) /\ WF_vars(Return(c))
        /\ \A i \in 1..MaxLength :
            WF_vars(run[c][i] = "running" /\ callbacks[c][i] \notin Hanging /\ Finish(c, i))

Spec == Init /\ [][Next]_vars
FairSpec == Spec /\ Fairness

-----------------------------------------------------------------------------
(***************************************************************************)
(* Properties                                                              *)
(***************************************************************************)

\* The variables have their types, and no more jobs run than there are workers.
TypeOK ==
    /\ mode \in Modes
    /\ registry \in [Points -> Seq(Callbacks)]
    /\ \A p \in Points : Len(registry[p]) <= MaxLength
    /\ changes \in 0..MaxChanges
    /\ pc \in [Calls -> {"idle", "submitted", "ready", "waiting", "returned", "raised"}]
    /\ kind \in [Calls -> CallKinds]
    /\ callbacks \in [Calls -> Seq(Callbacks)]
    /\ \A c \in Calls : Len(callbacks[c]) <= MaxLength
    /\ results \in [Calls -> Seq(Results)]
    /\ run \in [Calls -> [1..MaxLength -> {"none", "queued", "running", "over", "dropped"}]]
    /\ queue \in Seq(Calls \X (0..MaxLength))
    /\ held \subseteq Calls \X (0..MaxLength)
    /\ Cardinality(held) <= Workers
    /\ draft \in [Calls -> 0..MaxLength]
    /\ trace \in [Calls -> {"none", "info", "ok", "degraded"}]

\* In the contract modes a callback called with isolation gets its changes into the
\* fields of the payload only as a patch: one that it returned in time, at a point
\* that allows patches, not in shadow mode and, under enforcement, from a payload
\* and with a result that keep to the contract.  A callback that runs on after its
\* timeout, or after the call has ended, changes nothing.
OnlyPatchesArrive ==
    \A c \in Calls : LET i == draft[c] IN
        (i # 0 /\ Isolated(c) /\ mode # "legacy") =>
            /\ kind[c].point \in PatchPoints /\ mode # "shadow"
            /\ i <= Len(results[c]) /\ results[c][i].out = "patch" /\ results[c][i].ok
            /\ mode = "enforce" => kind[c].complete

\* Results and trace are honest: a call that returns has a result for each callback it
\* found, a good one only for a callback that had ended by itself, so that an error, a
\* timeout or a rejection of one keeps no other from being called; the trace calls the
\* point ok only if they all are good, and a call that raised leaves no trace.
ResultsAreHonest ==
    \A c \in Calls :
        /\ pc[c] = "returned" => Len(results[c]) = Len(callbacks[c])
        /\ \A i \in 1..Len(results[c]) :
            results[c][i].ok => run[c][i] = "over" /\ results[c][i].out \in ReturnsOf[callbacks[c][i]]
        /\ trace[c] = "ok" => \A i \in 1..Len(results[c]) : results[c][i].ok
        /\ trace[c] # "none" => pc[c] = "returned"

\* A callback that was reported as timed out before it got a worker never runs.
TimedOutNeverStarts ==
    [][\A c \in Calls : \A i \in 1..Len(results[c]) :
        run[c][i] # "running" => run'[c][i] # "running"]_vars

\* Every call with a timeout ends, unless callbacks that never return hold all the
\* workers.
TimedCallsEnd ==
    \A c \in Calls :
        (pc[c] # "idle" /\ Timed(c)) ~>
            (Ended(c) \/ /\ Cardinality(held) = Workers
                         /\ \A j \in held : j[2] # 0 /\ callbacks[j[1]][j[2]] \in Hanging)
================================================================================
