------------------------------ MODULE HooksProofs ------------------------------
(***************************************************************************)
(* Theorems about Hooks, for any number of calls, callbacks and workers    *)
(* and any registries: what runs where, what reaches the payload and what  *)
(* the results say.                                                        *)
(***************************************************************************)
EXTENDS Hooks, TLAPS, FiniteSetTheorems, SequenceTheorems

Jobs == Calls \X (0..MaxLength)

\* a call has no more results than callbacks, and waits for one that is there
InCallbacks ==
    \A c \in Calls :
        /\ Len(results[c]) <= Len(callbacks[c])
        /\ pc[c] = "waiting" => Current(c) <= Len(callbacks[c])

Typed == TypeOK /\ InCallbacks /\ IsFiniteSet(held)

Distinct(q) == \A k, l \in 1..Len(q) : q[k] = q[l] => k = l

\* Waits(j): job j may wait for a worker, since its call waits for it
Waits(j) ==
    IF j[2] = 0 THEN pc[j[1]] = "submitted"
    ELSE Heard(j[1], j[2]) /\ run[j[1]][j[2]] = "queued"

\* the queue holds a job once, and none that was given up
QueueIsWaitedFor == Distinct(queue) /\ \A k \in 1..Len(queue) : Waits(queue[k])

\* before a call has its callbacks nothing of it runs or has changed
NothingYet ==
    \A c \in Calls :
        /\ pc[c] \in {"idle", "submitted"} =>
              /\ results[c] = <<>> /\ draft[c] = 0 /\ trace[c] = "none"
              /\ \A i \in 1..MaxLength : run[c][i] = "none"
        /\ pc[c] = "submitted" => kind[c].entry = "ainvoke_hooks_isolated"

CourseOK == Typed /\ QueueIsWaitedFor /\ NothingYet

-----------------------------------------------------------------------------
(***************************************************************************)
(* The queue                                                               *)
(***************************************************************************)

\* Taking a job out of a queue that holds it at most once takes it out, and no other.
LEMMA RemoveFirstIs ==
    ASSUME NEW S, NEW q \in Seq(S), Distinct(q), NEW e
    PROVE  LET p == RemoveFirst(q, e)
           IN  /\ p \in Seq(S) /\ Distinct(p)
               /\ \A k \in 1..Len(p) : p[k] # e /\ \E l \in 1..Len(q) : q[l] = p[k]
<1>1. CASE ~\E i \in 1..Len(q) : q[i] = e
  BY <1>1 DEF RemoveFirst
<1>2. ASSUME NEW i \in 1..Len(q), q[i] = e
      PROVE  LET p == RemoveFirst(q, e)
             IN  /\ p \in Seq(S) /\ Distinct(p)
                 /\ \A k \in 1..Len(p) : p[k] # e /\ \E l \in 1..Len(q) : q[l] = p[k]
  <2> DEFINE I == {k \in 1..Len(q) : q[k] = e}
             p == RemoveAt(q, i)
  <2>1. I = {i}
    BY <1>2 DEF Distinct
  <2>2. Min(I) = i
    <3> SUFFICES Min({i}) = i
      BY <2>1
    <3>1. Min({i}) \in {i}
      BY DEF Min
    <3> QED
      BY <3>1
  <2>3. RemoveFirst(q, e) = p
    BY <1>2, <2>1, <2>2 DEF RemoveFirst, SelectInSeq
  <2>4. /\ p \in Seq(S) /\ Len(p) = Len(q) - 1
        /\ \A k \in 1..Len(p) : p[k] = IF k < i THEN q[k] ELSE q[k + 1]
    <3> DEFINE a == SubSeq(q, 1, i - 1)
               b == SubSeq(q, i + 1, Len(q))
    <3>1. a \in Seq(S) /\ Len(a) = i - 1 /\ \A k \in 1..(i - 1) : a[k] = q[k]
      BY <1>2
    <3>2. /\ b \in Seq(S) /\ Len(b) = Len(q) - i
          /\ \A k \in 1..(Len(q) - i) : b[k] = q[k + i]
      BY <1>2
    <3>3. p = a \o b
      BY DEF RemoveAt
    <3> HIDE DEF a, b, p
    <3>4. /\ p \in Seq(S) /\ Len(p) = Len(a) + Len(b)
          /\ \A k \in 1..(Len(a) + Len(b)) : p[k] = IF k <= Len(a) THEN a[k] ELSE b[k - Len(a)]
      <4>1. a \in Seq(S) /\ b \in Seq(S)
        BY <3>1, <3>2
      <4> QED
        BY <3>3, <4>1, ConcatProperties, Zenon
    <3>5. Len(q) \in Nat /\ Len(p) = Len(q) - 1
      BY <3>1, <3>2, <3>4
    <3>6. ASSUME NEW k \in 1..Len(p) PROVE p[k] = IF k < i THEN q[k] ELSE q[k + 1]
      <4>1. CASE k < i
        BY <3>1, <3>4, <4>1
      <4>2. CASE ~(k < i)
        <5>1. k - (i - 1) \in 1..(Len(q) - i)
          BY <1>2, <3>5, <4>2
        <5>2. p[k] = b[k - (i - 1)]
          BY <3>1, <3>4, <4>2
        <5>3. b[k - (i - 1)] = q[k - (i - 1) + i]
          BY <3>2, <5>1
        <5> QED
          BY <4>2, <5>2, <5>3
      <4> QED
        BY <4>1, <4>2
    <3> QED
      BY <3>4, <3>5, <3>6
  <2> HIDE DEF p
  <2>5. Len(q) \in Nat
    OBVIOUS
  <2>6. \A k \in 1..Len(p) : \E l \in 1..Len(q) : l # i /\ q[l] = p[k]
    <3> TAKE k \in 1..Len(p)
    <3>1. CASE k < i
      BY <2>4, <2>5, <3>1
    <3>2. CASE ~(k < i)
      BY <2>4, <2>5, <3>2
    <3> QED
      BY <3>1, <3>2
  <2>7. Distinct(p)
    <3> SUFFICES ASSUME NEW k \in 1..Len(p), NEW l \in 1..Len(p), p[k] = p[l]
                 PROVE  k = l
      BY DEF Distinct
    <3>1. \A m, n \in 1..Len(q) : q[m] = q[n] => m = n
      BY DEF Distinct
    <3> QED
      BY <1>2, <2>4, <2>5, <3>1
  <2> QED
    BY <1>2, <2>3, <2>4, <2>6, <2>7 DEF Distinct
<1> QED
  BY <1>1, <1>2

LEMMA TailIs ==
    ASSUME NEW S, NEW q \in Seq(S), q # <<>>
    PROVE  /\ Tail(q) \in Seq(S) /\ Head(q) \in S /\ Head(q) = q[1]
           /\ Distinct(q) => /\ Distinct(Tail(q))
                             /\ \A k \in 1..Len(Tail(q)) : Tail(q)[k] # Head(q)
           /\ \A k \in 1..Len(Tail(q)) : \E l \in 1..Len(q) : q[l] = Tail(q)[k]
<1>1. /\ Tail(q) \in Seq(S) /\ Head(q) \in S /\ Head(q) = q[1] /\ Len(q) \in Nat \ {0}
      /\ Len(Tail(q)) = Len(q) - 1 /\ \A k \in 1..Len(Tail(q)) : Tail(q)[k] = q[k + 1]
  OBVIOUS
<1>2. \A k \in 1..Len(Tail(q)) : k + 1 \in 1..Len(q)
  BY <1>1
<1>3. Distinct(q) => Distinct(Tail(q)) /\ \A k \in 1..Len(Tail(q)) : Tail(q)[k] # Head(q)
  BY <1>1, <1>2 DEF Distinct
<1> QED
  BY <1>1, <1>2, <1>3

LEMMA AppendIs ==
    ASSUME NEW S, NEW q \in Seq(S), NEW e \in S
    PROVE  /\ Append(q, e) \in Seq(S) /\ Len(Append(q, e)) = Len(q) + 1
           /\ \A k \in 1..Len(Append(q, e)) :
                 Append(q, e)[k] = e \/ (k \in 1..Len(q) /\ Append(q, e)[k] = q[k])
           /\ Distinct(q) /\ (\A k \in 1..Len(q) : q[k] # e) => Distinct(Append(q, e))
<1>1. /\ Append(q, e) \in Seq(S) /\ Len(Append(q, e)) = Len(q) + 1 /\ Len(q) \in Nat
      /\ Append(q, e)[Len(q) + 1] = e
      /\ \A k \in 1..Len(q) : Append(q, e)[k] = q[k]
  OBVIOUS
<1>2. \A k \in 1..Len(Append(q, e)) : k = Len(q) + 1 \/ k \in 1..Len(q)
  BY <1>1
<1>3. Distinct(q) /\ (\A k \in 1..Len(q) : q[k] # e) => Distinct(Append(q, e))
  BY <1>1, <1>2 DEF Distinct
<1> QED
  BY <1>1, <1>2, <1>3

-----------------------------------------------------------------------------
(***************************************************************************)
(* Types                                                                   *)
(***************************************************************************)

\* The results a call can get are results, and a good one of a callback is one of
\* its outcomes.
LEMMA ResultsAre ==
    ASSUME NEW c \in Calls, NEW out \in Outcomes
    PROVE  /\ OkResult(c, out) \in Results /\ PlainResult(out) \in Results
           /\ ErrorResult(out, "soft") \in Results
<1>1. Level(c, out) \in {"fatal", "shadow_only", "observe_only", "soft"}
  BY DEF Level
<1>2. Fatal(c, out) \in BOOLEAN /\ PatchAllowed(c) \in BOOLEAN
  BY DEF Fatal, PatchAllowed
<1>3. \A b, p \in BOOLEAN : \A l \in {"fatal", "shadow_only", "observe_only", "soft"} :
        [out |-> out, ok |-> b, level |-> l, patched |-> p] \in Results
  BY DEF Results
<1> QED
  BY <1>1, <1>2, <1>3 DEF OkResult, PlainResult, ErrorResult

LEMMA OwnResultsAre ==
    /\ ErrorResult("async", "soft") \in Results /\ ~ErrorResult("async", "soft").patched
    /\ TimeOutResult \in Results /\ ~TimeOutResult.patched
  BY DEF ErrorResult, TimeOutResult, Results

LEMMA ConcludeTyped ==
    ASSUME Typed, NEW c \in Calls, Current(c) <= Len(callbacks[c]),
           NEW r \in Results, Conclude(c, r)
    PROVE  /\ pc' = [pc EXCEPT ![c] = "ready"]
           /\ results' \in [Calls -> Seq(Results)]
           /\ Len(results'[c]) = Len(results[c]) + 1 /\ results'[c][Current(c)] = r
           /\ \A i \in 1..Len(results[c]) : results'[c][i] = results[c][i]
           /\ \A d \in Calls \ {c} : results'[d] = results[d] /\ draft'[d] = draft[d]
           /\ draft' \in [Calls -> 0..MaxLength]
           /\ draft'[c] = IF r.patched THEN Current(c) ELSE draft[c]
<1>1. /\ results \in [Calls -> Seq(Results)] /\ draft \in [Calls -> 0..MaxLength]
      /\ callbacks[c] \in Seq(Callbacks) /\ Len(callbacks[c]) <= MaxLength /\ MaxLength \in Nat
  BY HooksAssumption DEF Typed, TypeOK
<1>2. results'[c] = Append(results[c], r) /\ results[c] \in Seq(Results)
  BY <1>1 DEF Conclude
<1>3. /\ Len(results'[c]) = Len(results[c]) + 1 /\ results'[c][Current(c)] = r
      /\ \A i \in 1..Len(results[c]) : results'[c][i] = results[c][i]
      /\ results'[c] \in Seq(Results)
  BY <1>2 DEF Current
<1>4. \A d \in Calls \ {c} : results'[d] = results[d] /\ draft'[d] = draft[d]
  BY <1>1 DEF Conclude
<1>5. results' \in [Calls -> Seq(Results)]
  BY <1>1, <1>3 DEF Conclude
<1>6. Current(c) \in 0..MaxLength
  BY <1>1, <1>2 DEF Current
<1>7. /\ draft' \in [Calls -> 0..MaxLength]
      /\ draft'[c] = IF r.patched THEN Current(c) ELSE draft[c]
  BY <1>1, <1>6 DEF Conclude
<1> QED
  BY <1>3, <1>4, <1>5, <1>7 DEF Conclude

LEMMA HeldShrinks ==
    ASSUME Typed, NEW jobs, held' = held \ jobs
    PROVE  /\ held' \subseteq Jobs /\ IsFiniteSet(held') /\ Cardinality(held') <= Workers
<1>1. /\ held \subseteq Jobs /\ IsFiniteSet(held) /\ Cardinality(held) <= Workers
      /\ Workers \in Nat
  BY HooksAssumption DEF Typed, TypeOK, Jobs
<1>2. /\ IsFiniteSet(held') /\ Cardinality(held') <= Cardinality(held)
      /\ Cardinality(held') \in Nat /\ Cardinality(held) \in Nat
  BY <1>1, FS_Subset, FS_CardinalityType
<1> QED
  BY <1>1, <1>2

LEMMA InitTyped == Init => Typed
<1> SUFFICES ASSUME Init PROVE Typed
  OBVIOUS
<1>1. /\ registry \in [Points -> Seq(Callbacks)] /\ kind \in [Calls -> CallKinds]
      /\ \A p \in Points : Len(registry[p]) <= MaxLength
      /\ mode \in Modes /\ changes \in 0..MaxChanges
  BY HooksAssumption DEF Init
<1>2. /\ IsFiniteSet(held) /\ Cardinality(held) = 0 /\ Workers \in Nat /\ MaxLength \in Nat
  BY HooksAssumption, FS_EmptySet DEF Init
<1>3. /\ callbacks \in [Calls -> Seq(Callbacks)] /\ results \in [Calls -> Seq(Results)]
      /\ \A c \in Calls : Len(callbacks[c]) = 0 /\ Len(results[c]) = 0
      /\ queue \in Seq(Jobs)
  BY DEF Init
<1>4. TypeOK
  BY <1>1, <1>2, <1>3 DEF Init, TypeOK, Jobs
<1>5. InCallbacks
  BY <1>3 DEF Init, InCallbacks
<1> QED
  BY <1>2, <1>4, <1>5 DEF Typed

\* The facts about a call that the steps below need.
LEMMA CallTyped ==
    ASSUME Typed, NEW c \in Calls
    PROVE  /\ kind[c] \in CallKinds /\ callbacks[c] \in Seq(Callbacks)
           /\ results[c] \in Seq(Results) /\ Len(results[c]) \in Nat
           /\ Len(callbacks[c]) \in 0..MaxLength /\ Len(results[c]) <= Len(callbacks[c])
           /\ Current(c) = Len(results[c]) + 1
           /\ registry[kind[c].point] \in Seq(Callbacks)
           /\ Len(registry[kind[c].point]) \in 0..MaxLength
<1>1. /\ kind \in [Calls -> CallKinds] /\ callbacks \in [Calls -> Seq(Callbacks)]
      /\ results \in [Calls -> Seq(Results)] /\ Len(callbacks[c]) <= MaxLength
      /\ Len(results[c]) <= Len(callbacks[c]) /\ MaxLength \in Nat
      /\ registry \in [Points -> Seq(Callbacks)]
      /\ \A p \in Points : Len(registry[p]) <= MaxLength
  BY HooksAssumption DEF Typed, TypeOK, InCallbacks
<1>2. kind[c].point \in Points
  BY <1>1 DEF CallKinds
<1> QED
  BY <1>1, <1>2 DEF Current

LEMMA RegistryTyped ==
    ASSUME Typed,
           \/ \E a \in Addable : RegisterHook(a[1], a[2])
           \/ \E ps \in {{p} : p \in Points} \cup {Points} : Clear(ps)
    PROVE  Typed'
<1>1. /\ registry \in [Points -> Seq(Callbacks)] /\ changes \in 0..MaxChanges
      /\ \A p \in Points : Len(registry[p]) <= MaxLength
      /\ MaxChanges \in Nat /\ MaxLength \in Nat /\ Addable \subseteq Points \X Callbacks
  BY HooksAssumption DEF Typed, TypeOK
<1>2. /\ registry' \in [Points -> Seq(Callbacks)] /\ changes' \in 0..MaxChanges
      /\ \A p \in Points : Len(registry'[p]) <= MaxLength
  <2>1. ASSUME NEW a \in Addable, RegisterHook(a[1], a[2])
        PROVE  /\ registry' \in [Points -> Seq(Callbacks)] /\ changes' \in 0..MaxChanges
               /\ \A p \in Points : Len(registry'[p]) <= MaxLength
    <3>1. a[1] \in Points /\ a[2] \in Callbacks
      BY <1>1
    <3>2. /\ Append(registry[a[1]], a[2]) \in Seq(Callbacks)
          /\ Len(Append(registry[a[1]], a[2])) = Len(registry[a[1]]) + 1
          /\ Len(registry[a[1]]) \in Nat
      BY <1>1, <3>1
    <3> QED
      BY <1>1, <2>1, <3>1, <3>2 DEF RegisterHook
  <2>2. ASSUME NEW ps, Clear(ps)
        PROVE  /\ registry' \in [Points -> Seq(Callbacks)] /\ changes' \in 0..MaxChanges
               /\ \A p \in Points : Len(registry'[p]) <= MaxLength
    BY <1>1, <2>2 DEF Clear
  <2> QED
    BY <2>1, <2>2
<1>3. UNCHANGED <<mode, pc, kind, callbacks, results, run, pool, draft, trace>>
  BY DEF RegisterHook, Clear
<1> QED
  BY <1>2, <1>3 DEF Typed, TypeOK, InCallbacks, Current, pool

\* A call gets callbacks, that is, of a point of the registry.
LEMMA CallbacksTyped ==
    ASSUME Typed, NEW c \in Calls,
           callbacks' = [callbacks EXCEPT ![c] = registry[kind[c].point]]
    PROVE  /\ callbacks' \in [Calls -> Seq(Callbacks)]
           /\ \A d \in Calls : Len(callbacks'[d]) <= MaxLength
           /\ callbacks'[c] = registry[kind[c].point]
           /\ \A d \in Calls \ {c} : callbacks'[d] = callbacks[d]
<1>1. /\ callbacks \in [Calls -> Seq(Callbacks)] /\ MaxLength \in Nat
      /\ \A d \in Calls : Len(callbacks[d]) <= MaxLength
  BY HooksAssumption DEF Typed, TypeOK
<1> QED
  BY <1>1, CallTyped

LEMMA BeginTyped ==
    ASSUME Typed, NothingYet, NEW c \in Calls, Begin(c)
    PROVE  Typed'
<1> DEFINE found == registry[kind[c].point]
           fast == /\ kind[c].entry = "ainvoke_hooks_isolated"
                   /\ ToSet(found) \cap Coroutines = {}
<1>1. pc[c] = "idle" /\ results[c] = <<>> /\ MaxLength \in Nat
  BY HooksAssumption DEF Begin, NothingYet
<1>2. CASE fast
  <2>1. /\ queue' = Append(queue, <<c, 0>>) /\ pc' = [pc EXCEPT ![c] = "submitted"]
        /\ UNCHANGED <<callbacks, hooks, kind, results, run, held, draft, trace>>
    BY <1>2 DEF Begin
  <2>2. queue' \in Seq(Jobs) /\ pc'[c] = "submitted"
    BY <1>1, <2>1, AppendIs DEF Typed, TypeOK, Jobs
  <2> QED
    BY <2>1, <2>2 DEF Typed, TypeOK, InCallbacks, Current, hooks, Jobs
<1>3. CASE ~fast
  <2>1. /\ pc' = [pc EXCEPT ![c] = "ready"]
        /\ callbacks' = [callbacks EXCEPT ![c] = registry[kind[c].point]]
        /\ UNCHANGED <<queue, hooks, kind, results, run, held, draft, trace>>
    BY <1>3 DEF Begin
  <2>2. TypeOK'
    BY <2>1, CallbacksTyped DEF Typed, TypeOK, hooks
  <2>3. InCallbacks'
    <3> SUFFICES ASSUME NEW d \in Calls
                 PROVE  /\ Len(results'[d]) <= Len(callbacks'[d])
                        /\ pc'[d] = "waiting" => Len(results'[d]) + 1 <= Len(callbacks'[d])
      BY DEF InCallbacks, Current
    <3>1. CASE d = c
      <4>1. Len(results'[c]) = 0 /\ Len(callbacks'[c]) \in Nat /\ pc'[c] = "ready"
        BY <1>1, <2>1, CallTyped, CallbacksTyped DEF Typed, TypeOK
      <4> QED
        BY <3>1, <4>1
    <3>2. CASE d # c
      BY <2>1, <3>2, CallbacksTyped DEF Typed, TypeOK, InCallbacks, Current
    <3> QED
      BY <3>1, <3>2
  <2> QED
    BY <2>1, <2>2, <2>3 DEF Typed
<1> QED
  BY <1>2, <1>3

LEMMA TakeJobTyped ==
    ASSUME Typed, QueueIsWaitedFor, NothingYet, TakeJob
    PROVE  Typed'
<1> DEFINE j == Head(queue)
           c == j[1]
           i == j[2]
<1>1. /\ queue \in Seq(Jobs) /\ queue # <<>> /\ held \subseteq Jobs /\ IsFiniteSet(held)
      /\ Cardinality(held) < Workers /\ Workers \in Nat /\ MaxLength \in Nat
  BY HooksAssumption DEF TakeJob, FreeWorker, Typed, TypeOK, Jobs
<1>2. /\ queue' \in Seq(Jobs) /\ j \in Jobs /\ 1 \in 1..Len(queue) /\ j = queue[1]
  <2>1. queue' = Tail(queue)
    BY DEF TakeJob
  <2> QED
    BY <1>1, <2>1, TailIs
<1>3. c \in Calls /\ i \in 0..MaxLength
  BY <1>2 DEF Jobs
<1>4. held' \subseteq Jobs /\ IsFiniteSet(held') /\ Cardinality(held') <= Workers
  <2>1. held' = held \cup {j}
    BY DEF TakeJob
  <2>2. Cardinality(held) \in Nat
    BY <1>1, FS_CardinalityType
  <2>3. /\ IsFiniteSet(held \cup {j})
        /\ Cardinality(held \cup {j}) = IF j \in held THEN Cardinality(held)
                                        ELSE Cardinality(held) + 1
    BY <1>1, FS_AddElement, Zenon
  <2> HIDE DEF j
  <2> QED
    BY <1>1, <1>2, <2>1, <2>2, <2>3
<1>5. UNCHANGED <<hooks, results, draft, trace>>
  BY DEF TakeJob
<1>6. CASE i = 0
  <2>1. /\ pc' = [pc EXCEPT ![c] = "ready"] /\ run' = run
        /\ kind' = [kind EXCEPT ![c].entry = "invoke_hooks_isolated"]
        /\ callbacks' = [callbacks EXCEPT ![c] = registry[kind[c].point]]
    BY <1>6 DEF TakeJob
  <2> HIDE DEF c, i, j
  <2>2. pc[c] = "submitted"
    BY <1>2, <1>6 DEF QueueIsWaitedFor, Waits, c, i
  <2>3. results[c] = <<>>
    BY <1>3, <2>2 DEF NothingYet
  <2>4. kind' \in [Calls -> CallKinds]
    <3>1. kind \in [Calls -> CallKinds]
      BY DEF Typed, TypeOK
    <3> QED
      BY <1>3, <2>1, <3>1 DEF CallKinds, Entries
  <2>5. TypeOK'
    BY <1>2, <1>3, <1>4, <1>5, <2>1, <2>4, CallbacksTyped DEF Typed, TypeOK, hooks, Jobs
  <2>6. InCallbacks'
    <3> SUFFICES ASSUME NEW d \in Calls
                 PROVE  /\ Len(results'[d]) <= Len(callbacks'[d])
                        /\ pc'[d] = "waiting" => Len(results'[d]) + 1 <= Len(callbacks'[d])
      BY DEF InCallbacks, Current
    <3>1. CASE d = c
      <4>1. Len(results'[c]) = 0 /\ Len(callbacks'[c]) \in Nat /\ pc'[c] = "ready"
        BY <1>3, <1>5, <2>1, <2>3, CallTyped, CallbacksTyped DEF Typed, TypeOK
      <4> QED
        BY <3>1, <4>1
    <3>2. CASE d # c
      BY <1>3, <1>5, <2>1, <3>2, CallbacksTyped DEF Typed, TypeOK, InCallbacks, Current
    <3> QED
      BY <3>1, <3>2
  <2> QED
    BY <1>4, <2>5, <2>6 DEF Typed
<1>7. CASE i # 0
  <2>1. /\ run' = [run EXCEPT ![c][i] = "running"]
        /\ UNCHANGED <<pc, kind, callbacks>>
    BY <1>7 DEF TakeJob
  <2> HIDE DEF c, i, j
  <2>2. run' \in [Calls -> [1..MaxLength -> {"none", "queued", "running", "over", "dropped"}]]
    BY <1>3, <1>7, <2>1 DEF Typed, TypeOK
  <2> QED
    BY <1>2, <1>4, <1>5, <2>1, <2>2 DEF Typed, TypeOK, InCallbacks, Current, hooks, Jobs
<1> QED
  BY <1>6, <1>7

LEMMA StartNextTyped ==
    ASSUME Typed, NEW c \in Calls, StartNext(c)
    PROVE  Typed'
<1> DEFINE i == Current(c)
<1>1. /\ pc[c] = "ready" /\ i <= Len(callbacks[c]) /\ i \in 1..MaxLength
      /\ UNCHANGED <<hooks, kind, callbacks, trace>>
  <2>1. /\ pc[c] = "ready" /\ i <= Len(callbacks[c])
        /\ UNCHANGED <<hooks, kind, callbacks, trace>>
    BY DEF StartNext
  <2>2. /\ Current(c) = Len(results[c]) + 1 /\ Len(results[c]) \in Nat
        /\ Len(callbacks[c]) \in 0..MaxLength /\ MaxLength \in Nat
    BY CallTyped, HooksAssumption
  <2> QED
    BY <2>1, <2>2
<1>2. ASSUME NEW r \in Results, Conclude(c, r), UNCHANGED <<run, pool>>
      PROVE  Typed'
  <2>1. TypeOK'
    BY <1>1, <1>2, ConcludeTyped DEF Typed, TypeOK, hooks, pool
  <2>2. InCallbacks'
    <3>1. /\ Len(results'[c]) = Len(results[c]) + 1 /\ Current(c) = Len(results[c]) + 1
          /\ pc' = [pc EXCEPT ![c] = "ready"]
          /\ \A d \in Calls \ {c} : results'[d] = results[d]
      BY <1>1, <1>2, ConcludeTyped, CallTyped
    <3> QED
      BY <1>1, <3>1 DEF Typed, TypeOK, InCallbacks, Current
  <2> QED
    BY <1>2, <2>1, <2>2 DEF Typed, pool
<1>3. ASSUME Raise(c), UNCHANGED <<run, pool>>
      PROVE  Typed'
  BY <1>1, <1>3 DEF Raise, Typed, TypeOK, InCallbacks, Current, hooks, pool
<1>4. ASSUME pc' = [pc EXCEPT ![c] = "waiting"],
             run' = [run EXCEPT ![c][i] = IF OnWorker(c, i) THEN "queued" ELSE "running"],
             queue' = IF OnWorker(c, i) THEN Append(queue, <<c, i>>) ELSE queue,
             UNCHANGED <<held, results, draft>>
      PROVE  Typed'
  <2>1. run' \in [Calls -> [1..MaxLength -> {"none", "queued", "running", "over", "dropped"}]]
    BY <1>1, <1>4 DEF Typed, TypeOK
  <2>2. queue' \in Seq(Jobs)
    <3>1. queue \in Seq(Jobs) /\ <<c, i>> \in Jobs
      BY <1>1 DEF Typed, TypeOK, Jobs
    <3> QED
      BY <1>4, <3>1, AppendIs
  <2>3. pc' \in [Calls -> {"idle", "submitted", "ready", "waiting", "returned", "raised"}]
    BY <1>4 DEF Typed, TypeOK
  <2>4. InCallbacks'
    BY <1>1, <1>4 DEF Typed, TypeOK, InCallbacks, Current
  <2> QED
    BY <1>1, <1>4, <2>1, <2>2, <2>3, <2>4 DEF Typed, TypeOK, hooks, Jobs
<1> QED
  BY <1>2, <1>3, <1>4, OwnResultsAre DEF StartNext

LEMMA WriteTyped ==
    ASSUME Typed, NEW c \in Calls, NEW i \in 1..MaxLength, Write(c, i)
    PROVE  Typed'
<1>1. draft' \in [Calls -> 0..MaxLength]
  BY DEF Write, Typed, TypeOK
<1> QED
  BY <1>1 DEF Write, Typed, TypeOK, InCallbacks, Current, hooks, pool

LEMMA FinishTyped ==
    ASSUME Typed, NEW c \in Calls, NEW i \in 1..MaxLength, Finish(c, i)
    PROVE  Typed'
<1>1. UNCHANGED <<hooks, kind, callbacks, queue, trace>>
  BY DEF Finish
<1>2. run' \in [Calls -> [1..MaxLength -> {"none", "queued", "running", "over", "dropped"}]]
  BY DEF Finish, Typed, TypeOK
<1>3. held' \subseteq Jobs /\ IsFiniteSet(held') /\ Cardinality(held') <= Workers
  BY HeldShrinks DEF Finish
<1>4. ASSUME NEW r \in Results, Heard(c, i), Conclude(c, r)
      PROVE  Typed'
  <2>1. Current(c) <= Len(callbacks[c]) /\ pc[c] = "waiting"
    BY <1>4 DEF Heard, Typed, InCallbacks
  <2>2. TypeOK'
    BY <1>1, <1>2, <1>3, <1>4, <2>1, ConcludeTyped DEF Typed, TypeOK, hooks, Jobs
  <2>3. InCallbacks'
    BY <1>1, <1>4, <2>1, ConcludeTyped, CallTyped DEF Typed, TypeOK, InCallbacks, Current
  <2> QED
    BY <1>3, <2>2, <2>3 DEF Typed
<1>5. CASE Raise(c) \/ UNCHANGED <<pc, results, draft>>
  BY <1>1, <1>2, <1>3, <1>5 DEF Raise, Typed, TypeOK, InCallbacks, Current, hooks, Jobs
<1>6. PICK out \in ReturnsOf[callbacks[c][i]] :
        \/ Raise(c) \/ UNCHANGED <<pc, results, draft>>
        \/ /\ Heard(c, i)
           /\ Conclude(c, IF ~Isolated(c) THEN PlainResult(out)
                          ELSE IF out = "error" THEN ErrorResult(out, "soft")
                               ELSE OkResult(c, out))
  BY DEF Finish
<1>7. CASE Heard(c, i)
  <2>1. callbacks[c][i] \in Callbacks
    BY <1>7, CallTyped DEF Heard, Typed, InCallbacks
  <2>2. out \in Outcomes
    BY <2>1, HooksAssumption
  <2> QED
    BY <1>4, <1>5, <1>6, <1>7, <2>2, ResultsAre
<1> QED
  BY <1>5, <1>6, <1>7

LEMMA TimeOutTyped ==
    ASSUME Typed, QueueIsWaitedFor, NEW c \in Calls, TimeOut(c)
    PROVE  Typed'
<1> DEFINE i == Current(c)
<1>1. /\ pc[c] = "waiting" /\ i <= Len(callbacks[c]) /\ i \in 1..MaxLength
      /\ UNCHANGED <<hooks, kind, callbacks, held, trace>>
  <2>1. /\ pc[c] = "waiting" /\ i <= Len(callbacks[c])
        /\ UNCHANGED <<hooks, kind, callbacks, held, trace>>
    BY DEF TimeOut, Typed, InCallbacks
  <2>2. /\ Current(c) = Len(results[c]) + 1 /\ Len(results[c]) \in Nat
        /\ Len(callbacks[c]) \in 0..MaxLength /\ MaxLength \in Nat
    BY CallTyped, HooksAssumption
  <2> QED
    BY <2>1, <2>2
<1>2. /\ queue' \in Seq(Jobs)
      /\ run' \in [Calls -> [1..MaxLength -> {"none", "queued", "running", "over", "dropped"}]]
  <2>1. queue' = RemoveFirst(queue, <<c, i>>)
    BY DEF TimeOut, CutOff
  <2>2. queue \in Seq(Jobs) /\ Distinct(queue)
    BY DEF Typed, TypeOK, Jobs, QueueIsWaitedFor
  <2>3. queue' \in Seq(Jobs)
    BY <2>1, <2>2, RemoveFirstIs
  <2>4. run' \in [Calls -> [1..MaxLength -> {"none", "queued", "running", "over", "dropped"}]]
    BY <1>1 DEF TimeOut, CutOff, Typed, TypeOK
  <2> QED
    BY <2>3, <2>4
<1>3. CASE Conclude(c, TimeOutResult)
  <2>1. TypeOK'
    BY <1>1, <1>2, <1>3, ConcludeTyped, OwnResultsAre DEF Typed, TypeOK, hooks, Jobs
  <2>2. InCallbacks'
    BY <1>1, <1>3, ConcludeTyped, CallTyped, OwnResultsAre DEF Typed, TypeOK, InCallbacks, Current
  <2> QED
    BY <1>1, <2>1, <2>2 DEF Typed
<1>4. CASE Raise(c)
  BY <1>1, <1>2, <1>4 DEF Raise, Typed, TypeOK, InCallbacks, Current, hooks, Jobs
<1> QED
  BY <1>3, <1>4 DEF TimeOut

LEMMA ReturnTyped ==
    ASSUME Typed, NEW c \in Calls, Return(c)
    PROVE  Typed'
<1>1. held' \subseteq Jobs /\ IsFiniteSet(held') /\ Cardinality(held') <= Workers
  BY HeldShrinks DEF Return
<1>2. trace' \in [Calls -> {"none", "info", "ok", "degraded"}]
  BY DEF Return, TraceStatus, Typed, TypeOK
<1> QED
  BY <1>1, <1>2 DEF Return, Typed, TypeOK, InCallbacks, Current, hooks, Jobs

-----------------------------------------------------------------------------
(***************************************************************************)
(* What a step can touch                                                   *)
(***************************************************************************)

CallActs(c) ==
    \/ Begin(c) \/ StartNext(c) \/ TimeOut(c) \/ Return(c)
    \/ \E i \in 1..MaxLength : Write(c, i) \/ Finish(c, i)
    \/ TakeJob /\ c = Head(queue)[1]

\* the variables of d that only d's own steps change
Untouched(d) ==
    /\ pc'[d] = pc[d] /\ kind'[d] = kind[d] /\ callbacks'[d] = callbacks[d]
    /\ results'[d] = results[d] /\ run'[d] = run[d] /\ draft'[d] = draft[d]
    /\ trace'[d] = trace[d]

\* A step of a call leaves every other call as it is, but for the queue and the workers.
LEMMA CallsAreLocal ==
    ASSUME Typed, NEW c \in Calls, CallActs(c), NEW d \in Calls \ {c}
    PROVE  Untouched(d)
<1> USE DEF Typed, TypeOK, Untouched
<1>1. ASSUME NEW r, Conclude(c, r)
      PROVE  pc'[d] = pc[d] /\ results'[d] = results[d] /\ draft'[d] = draft[d]
  BY <1>1 DEF Conclude
<1>2. ASSUME Raise(c)
      PROVE  pc'[d] = pc[d] /\ results'[d] = results[d] /\ draft'[d] = draft[d]
  BY <1>2 DEF Raise
<1>3. CASE Begin(c)
  BY <1>3 DEF Begin, hooks
<1>4. CASE StartNext(c)
  BY <1>1, <1>2, <1>4 DEF StartNext, hooks, pool
<1>5. CASE TimeOut(c)
  BY <1>1, <1>2, <1>5 DEF TimeOut, CutOff, hooks
<1>6. CASE Return(c)
  BY <1>6 DEF Return, hooks
<1>7. CASE \E i \in 1..MaxLength : Write(c, i)
  BY <1>7 DEF Write, hooks, pool
<1>8. CASE \E i \in 1..MaxLength : Finish(c, i)
  <2>1. PICK i \in 1..MaxLength : Finish(c, i)
    BY <1>8
  <2> QED
    BY <1>1, <1>2, <2>1 DEF Finish, hooks
<1>9. CASE TakeJob /\ c = Head(queue)[1]
  BY <1>9 DEF TakeJob, hooks
<1> QED
  BY <1>3, <1>4, <1>5, <1>6, <1>7, <1>8, <1>9 DEF CallActs

LEMMA HeadIsAJob ==
    ASSUME Typed, TakeJob
    PROVE  Head(queue) \in Jobs /\ Head(queue)[1] \in Calls
<1>1. queue \in Seq(Jobs) /\ queue # <<>>
  BY DEF Typed, TypeOK, TakeJob, Jobs
<1>2. Head(queue) \in Jobs
  BY <1>1, TailIs
<1> QED
  BY <1>2 DEF Jobs

\* Every step is one of a call or changes nothing but the registry.
LEMMA NextIs ==
    ASSUME Typed, [Next]_vars
    PROVE  \/ \E c \in Calls : CallActs(c)
           \/ UNCHANGED <<mode, pc, kind, callbacks, results, run, pool, draft, trace>>
<1>1. CASE \E a \in Addable : RegisterHook(a[1], a[2])
  BY <1>1 DEF RegisterHook
<1>2. CASE \E ps \in {{p} : p \in Points} \cup {Points} : Clear(ps)
  BY <1>2 DEF Clear
<1>3. CASE TakeJob
  BY <1>3, HeadIsAJob DEF CallActs
<1>4. CASE UNCHANGED vars
  BY <1>4 DEF vars, pool
<1> QED
  BY <1>1, <1>2, <1>3, <1>4 DEF Next, CallActs

-----------------------------------------------------------------------------
(***************************************************************************)
(* Before a call has its callbacks                                         *)
(***************************************************************************)

LEMMA NothingYetStep ==
    ASSUME Typed, QueueIsWaitedFor, NothingYet, NEW c \in Calls, CallActs(c)
    PROVE  NothingYet'
<1> USE DEF Typed, TypeOK
<1>1. SUFFICES /\ pc'[c] \in {"idle", "submitted"} =>
                    /\ results'[c] = <<>> /\ draft'[c] = 0 /\ trace'[c] = "none"
                    /\ \A i \in 1..MaxLength : run'[c][i] = "none"
               /\ pc'[c] = "submitted" => kind'[c].entry = "ainvoke_hooks_isolated"
  <2>1. \A d \in Calls \ {c} : Untouched(d)
    BY CallsAreLocal
  <2>2. ASSUME NEW d \in Calls \ {c}
        PROVE  /\ pc'[d] \in {"idle", "submitted"} =>
                     /\ results'[d] = <<>> /\ draft'[d] = 0 /\ trace'[d] = "none"
                     /\ \A i \in 1..MaxLength : run'[d][i] = "none"
               /\ pc'[d] = "submitted" => kind'[d].entry = "ainvoke_hooks_isolated"
    BY <2>1 DEF NothingYet, Untouched
  <2> HIDE DEF Typed, TypeOK
  <2> QED
    BY <2>2 DEF NothingYet
<1>2. ASSUME NEW r, Conclude(c, r) PROVE pc'[c] = "ready"
  BY <1>2 DEF Conclude
<1>3. ASSUME Raise(c) PROVE pc'[c] = "raised"
  BY <1>3 DEF Raise
<1>4. CASE Begin(c)
  BY <1>4 DEF Begin, NothingYet, hooks
<1>5. CASE StartNext(c)
  BY <1>2, <1>3, <1>5 DEF StartNext
<1>6. CASE TimeOut(c)
  BY <1>2, <1>3, <1>6 DEF TimeOut
<1>7. CASE Return(c)
  BY <1>7 DEF Return
<1>8. ASSUME NEW i \in 1..MaxLength, Write(c, i) \/ Finish(c, i)
      PROVE  pc'[c] \notin {"idle", "submitted"}
  <2>1. run[c][i] = "running" /\ pc[c] \notin {"idle", "submitted"}
    BY <1>8 DEF Write, Finish, NothingYet
  <2> QED
    BY <1>2, <1>3, <1>8, <2>1 DEF Write, Finish
<1>9. CASE TakeJob /\ c = Head(queue)[1]
  <2>1. Head(queue) = queue[1] /\ 1 \in 1..Len(queue)
    <3>1. queue \in Seq(Jobs) /\ queue # <<>>
      BY <1>9 DEF TakeJob, Jobs
    <3> QED
      BY <3>1
  <2>2. Waits(Head(queue))
    BY <2>1 DEF QueueIsWaitedFor
  <2>3. pc'[c] \in {"ready", "waiting"}
    BY <1>9, <2>2 DEF TakeJob, Waits, Heard
  <2> QED
    BY <2>3
<1> QED
  BY <1>4, <1>5, <1>6, <1>7, <1>8, <1>9 DEF CallActs

-----------------------------------------------------------------------------
(***************************************************************************)
(* The jobs that wait                                                      *)
(***************************************************************************)

\* A job of another call waits on while a call takes its steps.
LEMMA OthersWait ==
    ASSUME Typed, NEW c \in Calls, CallActs(c), NEW j \in Jobs, j[1] # c, Waits(j)
    PROVE  Waits(j)'
<1>1. Untouched(j[1])
  BY CallsAreLocal DEF Jobs
<1> QED
  BY <1>1 DEF Untouched, Waits, Heard, Current

\* The queue stays waited for if what is left or added is.
LEMMA QueueSteps ==
    ASSUME Typed, QueueIsWaitedFor, NEW c \in Calls, CallActs(c), queue' \in Seq(Jobs),
           Distinct(queue'),
           \A k \in 1..Len(queue') :
               \/ \E l \in 1..Len(queue) : queue[l] = queue'[k]
               \/ queue'[k][1] = c,
           \A j \in Jobs : j[1] = c /\ (\E k \in 1..Len(queue') : queue'[k] = j) => Waits(j)'
    PROVE  QueueIsWaitedFor'
<1>1. ASSUME NEW k \in 1..Len(queue'), NEW j \in Jobs, queue'[k] = j PROVE Waits(j)'
  <2>1. CASE j[1] = c
    BY <1>1, <2>1
  <2>2. CASE j[1] # c
    <3>1. PICK l \in 1..Len(queue) : queue[l] = j
      BY <1>1, <2>2
    <3>2. Waits(j)
      BY <3>1 DEF QueueIsWaitedFor
    <3> QED
      BY <2>2, <3>2, OthersWait
  <2> QED
    BY <2>1, <2>2
<1>2. \A k \in 1..Len(queue') : queue'[k] \in Jobs
  OBVIOUS
<1>3. \A k \in 1..Len(queue') : \E j \in Jobs : queue'[k] = j /\ Waits(j)'
  BY <1>1, <1>2
<1> QED
  BY <1>3 DEF QueueIsWaitedFor

LEMMA QueueIs ==
    ASSUME Typed, QueueIsWaitedFor
    PROVE  /\ queue \in Seq(Jobs) /\ Distinct(queue)
           /\ \A k \in 1..Len(queue) : queue[k] \in Jobs /\ Waits(queue[k])
  BY DEF Typed, TypeOK, QueueIsWaitedFor, Jobs

\* A call whose only change to the queue, if any, is a new job at its end: it had none
\* there, so it is waited for if that one is.
LEMMA QueueGrows ==
    ASSUME Typed, QueueIsWaitedFor, NEW c \in Calls, CallActs(c),
           pc[c] \notin {"submitted", "waiting"},
           \/ queue' = queue
           \/ \E i \in 0..MaxLength : queue' = Append(queue, <<c, i>>) /\ Waits(<<c, i>>)'
    PROVE  QueueIsWaitedFor'
<1>1. \A k \in 1..Len(queue) : queue[k][1] # c
  BY QueueIs DEF Waits, Heard
<1>2. CASE queue' = queue
  <2>1. queue' \in Seq(Jobs) /\ Distinct(queue')
    BY <1>2, QueueIs
  <2>2. \A k \in 1..Len(queue') : queue'[k] = queue[k] /\ queue'[k][1] # c /\ k \in 1..Len(queue)
    BY <1>1, <1>2
  <2> QED
    BY <2>1, <2>2, QueueSteps
<1>3. ASSUME NEW i \in 0..MaxLength, queue' = Append(queue, <<c, i>>), Waits(<<c, i>>)'
      PROVE  QueueIsWaitedFor'
  <2>1. <<c, i>> \in Jobs
    BY DEF Jobs
  <2>2. /\ queue' \in Seq(Jobs) /\ Distinct(queue')
        /\ \A k \in 1..Len(queue') :
              queue'[k] = <<c, i>> \/ (k \in 1..Len(queue) /\ queue'[k] = queue[k])
    <3>1. \A k \in 1..Len(queue) : queue[k] # <<c, i>>
      BY <1>1
    <3>2. queue \in Seq(Jobs) /\ Distinct(queue)
      BY QueueIs
    <3> DEFINE e == <<c, i>>
    <3>3. e \in Jobs /\ queue' = Append(queue, e) /\ \A k \in 1..Len(queue) : queue[k] # e
      BY <1>3, <2>1, <3>1
    <3> HIDE DEF e
    <3>4. /\ queue' \in Seq(Jobs) /\ Distinct(queue')
          /\ \A k \in 1..Len(queue') : queue'[k] = e \/ (k \in 1..Len(queue) /\ queue'[k] = queue[k])
      BY <3>2, <3>3, AppendIs
    <3> QED
      BY <3>4 DEF e
  <2>3. \A j \in Jobs : j[1] = c /\ (\E k \in 1..Len(queue') : queue'[k] = j) => j = <<c, i>>
    BY <1>1, <2>2
  <2>4. \A j \in Jobs : j[1] = c /\ (\E k \in 1..Len(queue') : queue'[k] = j) => Waits(j)'
    BY <1>3, <2>3
  <2>5. \A k \in 1..Len(queue') :
            (\E l \in 1..Len(queue) : queue[l] = queue'[k]) \/ queue'[k][1] = c
    BY <2>2
  <2> QED
    BY <2>2, <2>4, <2>5, QueueSteps
<1> QED
  BY <1>2, <1>3

LEMMA QueueStep ==
    ASSUME Typed, QueueIsWaitedFor, NothingYet, NEW c \in Calls, CallActs(c)
    PROVE  QueueIsWaitedFor'
<1> USE DEF Typed, TypeOK
<1>1. MaxLength \in Nat /\ \A j \in Jobs : j[1] \in Calls /\ j = <<j[1], j[2]>>
  BY HooksAssumption DEF Jobs
<1>2. CASE Begin(c)
  <2>1. pc[c] = "idle"
    BY <1>2 DEF Begin
  <2>2. \/ queue' = queue
        \/ queue' = Append(queue, <<c, 0>>) /\ pc'[c] = "submitted"
    BY <1>2 DEF Begin
  <2>3. 0 \in 0..MaxLength /\ (pc'[c] = "submitted" => Waits(<<c, 0>>)')
    BY <1>1 DEF Waits
  <2> HIDE DEF Typed, TypeOK
  <2> QED
    BY <2>1, <2>2, <2>3, QueueGrows
<1>3. CASE StartNext(c)
  <2>1. pc[c] = "ready" /\ Current(c) \in 1..MaxLength
    <3>1. pc[c] = "ready" /\ Current(c) <= Len(callbacks[c])
      BY <1>3 DEF StartNext
    <3> HIDE DEF Typed, TypeOK
    <3>2. Current(c) = Len(results[c]) + 1 /\ Len(results[c]) \in Nat /\ Len(callbacks[c]) \in 0..MaxLength
      BY CallTyped
    <3> QED
      BY <1>1, <3>1, <3>2
  <2>2. PICK i \in 1..MaxLength : i = Current(c)
    BY <2>1
  <2>3. \/ queue' = queue
        \/ /\ queue' = Append(queue, <<c, i>>) /\ UNCHANGED results
           /\ pc' = [pc EXCEPT ![c] = "waiting"] /\ run' = [run EXCEPT ![c][i] = "queued"]
    BY <1>3, <2>2 DEF StartNext, pool
  <2>4. ASSUME UNCHANGED results, pc' = [pc EXCEPT ![c] = "waiting"],
               run' = [run EXCEPT ![c][i] = "queued"]
        PROVE  Waits(<<c, i>>)'
    <3>1. /\ pc \in [Calls -> {"idle", "submitted", "ready", "waiting", "returned", "raised"}]
          /\ run \in [Calls -> [1..MaxLength -> {"none", "queued", "running", "over", "dropped"}]]
      OBVIOUS
    <3> HIDE DEF Typed, TypeOK
    <3>2. pc'[c] = "waiting" /\ run'[c][i] = "queued" /\ i = Len(results'[c]) + 1 /\ i # 0
      BY <1>1, <2>2, <2>4, <3>1 DEF Current
    <3> QED
      BY <3>2 DEF Waits, Heard, Current
  <2>5. i \in 0..MaxLength /\ pc[c] \notin {"submitted", "waiting"}
    BY <1>1, <2>1
  <2> HIDE DEF Typed, TypeOK
  <2> QED
    BY <2>3, <2>4, <2>5, QueueGrows
<1>4. CASE Return(c)
  <2>1. pc[c] = "ready" /\ queue' = queue
    BY <1>4 DEF Return
  <2> QED
    BY <2>1, QueueGrows
<1>5. CASE TimeOut(c)
  <2>1. pc[c] = "waiting" /\ queue' = RemoveFirst(queue, <<c, Current(c)>>)
    BY <1>5 DEF TimeOut, CutOff
  <2>2. /\ queue' \in Seq(Jobs) /\ Distinct(queue')
        /\ \A k \in 1..Len(queue') : /\ queue'[k] # <<c, Current(c)>>
                                     /\ \E l \in 1..Len(queue) : queue[l] = queue'[k]
    <3> DEFINE e == <<c, Current(c)>>
    <3> HIDE DEF e
    <3>1. queue' = RemoveFirst(queue, e) /\ queue \in Seq(Jobs) /\ Distinct(queue)
      BY <2>1, QueueIs DEF e
    <3> HIDE DEF Typed, TypeOK
    <3>2. LET p == RemoveFirst(queue, e)
          IN  /\ p \in Seq(Jobs) /\ Distinct(p)
              /\ \A k \in 1..Len(p) : p[k] # e /\ \E l \in 1..Len(queue) : queue[l] = p[k]
      BY <3>1, RemoveFirstIs
    <3> QED
      BY <3>1, <3>2 DEF e
  <2>3. \A j \in Jobs : j[1] = c /\ Waits(j) => j = <<c, Current(c)>>
    BY <1>1, <2>1 DEF Waits, Heard
  <2>4. \A k \in 1..Len(queue') : queue'[k][1] # c
    BY <2>2, <2>3, QueueIs
  <2> HIDE DEF Typed, TypeOK
  <2> QED
    BY <2>2, <2>4, QueueSteps
<1>6. ASSUME NEW i \in 1..MaxLength, Write(c, i) \/ Finish(c, i)
      PROVE  QueueIsWaitedFor'
  <2>1. queue' = queue /\ run[c][i] = "running"
    BY <1>6 DEF Write, Finish, pool
  <2>2. ASSUME NEW j \in Jobs, j[1] = c, Waits(j) PROVE Waits(j)'
    <3>1. j[2] # 0 /\ Heard(c, j[2]) /\ run[c][j[2]] = "queued" /\ j[2] # i
      BY <2>1, <2>2 DEF Waits, NothingYet
    <3>2. ~Heard(c, i)
      BY <3>1 DEF Heard
    <3>3. UNCHANGED <<pc, results>>
      BY <1>6, <3>2 DEF Write, Finish
    <3>4. run' = run \/ run' = [run EXCEPT ![c][i] = "over"]
      BY <1>6 DEF Write, Finish
    <3>5. run'[c][j[2]] = run[c][j[2]]
      <4>1. run \in [Calls -> [1..MaxLength -> {"none", "queued", "running", "over", "dropped"}]]
        OBVIOUS
      <4> HIDE DEF Typed, TypeOK
      <4>2. \A k : k # i => [run EXCEPT ![c][i] = "over"][c][k] = run[c][k]
        BY <4>1
      <4> QED
        BY <3>1, <3>4, <4>2
    <3> QED
      BY <2>2, <3>1, <3>3, <3>5 DEF Waits, Heard, Current
  <2> HIDE DEF Typed, TypeOK
  <2>3. \A j \in Jobs : j[1] = c /\ (\E k \in 1..Len(queue') : queue'[k] = j) => Waits(j)'
    BY <2>1, <2>2, QueueIs
  <2>4. queue' \in Seq(Jobs) /\ Distinct(queue')
    BY <2>1, QueueIs
  <2>5. \A k \in 1..Len(queue') : \E l \in 1..Len(queue) : queue[l] = queue'[k]
    BY <2>1
  <2> QED
    BY <2>3, <2>4, <2>5, QueueSteps
<1>7. CASE TakeJob /\ c = Head(queue)[1]
  <2> DEFINE h == Head(queue)
  <2>1. queue' = Tail(queue) /\ queue # <<>> /\ h[1] = c
    BY <1>7 DEF TakeJob
  <2>2. /\ queue' \in Seq(Jobs) /\ Distinct(queue') /\ h \in Jobs /\ h = queue[1]
        /\ \A k \in 1..Len(queue') : /\ queue'[k] # h
                                     /\ \E l \in 1..Len(queue) : queue[l] = queue'[k]
    BY <2>1, QueueIs, TailIs
  <2>3. 1 \in 1..Len(queue)
    BY <2>1, QueueIs
  <2>4. Waits(h)
    BY <2>2, <2>3, QueueIs
  <2>5. ASSUME NEW j \in Jobs, j[1] = c, Waits(j) PROVE j = h
    <3>1. j = <<c, j[2]>> /\ h = <<c, h[2]>>
      BY <1>1, <2>1, <2>2, <2>5
    <3>2. \/ pc[c] = "submitted" /\ j[2] = 0
          \/ pc[c] = "waiting" /\ j[2] = Current(c)
      BY <2>5 DEF Waits, Heard
    <3>3. \/ pc[c] = "submitted" /\ h[2] = 0
          \/ pc[c] = "waiting" /\ h[2] = Current(c)
      BY <2>1, <2>4 DEF Waits, Heard
    <3> HIDE DEF h
    <3>4. j[2] = h[2]
      BY <3>2, <3>3
    <3> QED
      BY <3>1, <3>4
  <2>6. \A k \in 1..Len(queue') : queue'[k][1] # c
    BY <2>2, <2>5, QueueIs
  <2> HIDE DEF Typed, TypeOK
  <2> QED
    BY <2>2, <2>6, QueueSteps
<1> QED
  BY <1>2, <1>3, <1>4, <1>5, <1>6, <1>7 DEF CallActs

-----------------------------------------------------------------------------
(***************************************************************************)
(* The course of a call                                                    *)
(***************************************************************************)

LEMMA InitCourse == Init => CourseOK
<1> SUFFICES ASSUME Init PROVE CourseOK
  OBVIOUS
<1>1. Typed
  BY InitTyped
<1>2. QueueIsWaitedFor /\ NothingYet
  BY DEF Init, QueueIsWaitedFor, NothingYet, Distinct
<1> QED
  BY <1>1, <1>2 DEF CourseOK

LEMMA StepCourse == CourseOK /\ [Next]_vars => CourseOK'
<1> SUFFICES ASSUME CourseOK, [Next]_vars PROVE CourseOK'
  OBVIOUS
<1> USE DEF CourseOK
<1>1. CASE \/ \E a \in Addable : RegisterHook(a[1], a[2])
           \/ \E ps \in {{p} : p \in Points} \cup {Points} : Clear(ps)
  <2>1. UNCHANGED <<mode, pc, kind, callbacks, results, run, pool, draft, trace>>
    BY <1>1 DEF RegisterHook, Clear
  <2> QED
    BY <1>1, <2>1, RegistryTyped
       DEF QueueIsWaitedFor, NothingYet, Waits, Heard, Current, Distinct, pool
<1>2. CASE UNCHANGED vars
  <2>1. Typed'
    <3>1. TypeOK'
      BY <1>2 DEF vars, Typed, TypeOK
    <3>2. InCallbacks' /\ IsFiniteSet(held')
      BY <1>2 DEF vars, Typed, InCallbacks, Current
    <3> QED
      BY <3>1, <3>2 DEF Typed
  <2>2. QueueIsWaitedFor'
    BY <1>2 DEF vars, QueueIsWaitedFor, Waits, Heard, Current, Distinct
  <2>3. NothingYet'
    BY <1>2 DEF vars, NothingYet
  <2> QED
    BY <2>1, <2>2, <2>3
<1>3. ASSUME NEW c \in Calls, CallActs(c), Typed' PROVE CourseOK'
  BY <1>3, QueueStep, NothingYetStep
<1>4. CASE TakeJob
  BY <1>3, <1>4, HeadIsAJob, TakeJobTyped DEF CallActs
<1>5. ASSUME NEW c \in Calls,
             \/ Begin(c) \/ StartNext(c) \/ TimeOut(c) \/ Return(c)
             \/ \E i \in 1..MaxLength : Write(c, i) \/ Finish(c, i)
      PROVE  CourseOK'
  <2>1. CallActs(c)
    BY <1>5 DEF CallActs
  <2>2. Typed'
    BY <1>5, BeginTyped, StartNextTyped, TimeOutTyped, ReturnTyped, WriteTyped, FinishTyped
  <2> QED
    BY <1>3, <2>1, <2>2
<1> QED
  BY <1>1, <1>2, <1>4, <1>5 DEF Next

LEMMA CourseHolds == Spec => []CourseOK
  BY InitCourse, StepCourse, PTL DEF Spec

\* The variables have their types, no call has more results than callbacks, and no more
\* jobs run than the executor has workers, for any number of calls and workers.
THEOREM TypeCorrect == Spec => []TypeOK
<1>1. CourseOK => TypeOK
  BY DEF CourseOK, Typed
<1> QED
  BY <1>1, CourseHolds, PTL

\* A callback that was reported as timed out before a worker took it never runs: its job
\* left the queue with the report, and the queue never held it twice.
THEOREM TimedOutNeverStartsHolds == Spec => TimedOutNeverStarts
<1> DEFINE Resting == \A c \in Calls : \A i \in 1..Len(results[c]) :
                         run[c][i] # "running" => run'[c][i] # "running"
<1>1. ASSUME CourseOK, [Next]_vars PROVE [Resting]_vars
  <2> SUFFICES ASSUME NEW c \in Calls, NEW i \in 1..Len(results[c]), run[c][i] # "running"
               PROVE  run'[c][i] # "running"
    OBVIOUS
  <2>1. Typed /\ QueueIsWaitedFor
    BY <1>1 DEF CourseOK
  <2>2. CASE UNCHANGED run
    BY <2>2
  <2>3. /\ run \in [Calls -> [1..MaxLength -> {"none", "queued", "running", "over", "dropped"}]]
        /\ i # Current(c) /\ i \in 1..MaxLength
    <3>1. /\ Len(results[c]) \in Nat /\ Len(callbacks[c]) \in 0..MaxLength
          /\ Len(results[c]) <= Len(callbacks[c]) /\ Current(c) = Len(results[c]) + 1
      BY <2>1, CallTyped
    <3>2. MaxLength \in Nat /\ i \in 1..Len(results[c])
      BY HooksAssumption
    <3>3. i # Current(c) /\ i \in 1..MaxLength
      BY <3>1, <3>2
    <3> QED
      BY <2>1, <3>3 DEF Typed, TypeOK
  <2>4. CASE StartNext(c) \/ TimeOut(c)
    <3>1. \/ UNCHANGED run
          \/ \E s \in {"queued", "running", "over", "dropped", run[c][Current(c)]} :
                run' = [run EXCEPT ![c][Current(c)] = s]
      BY <2>4 DEF StartNext, TimeOut, CutOff
    <3> QED
      BY <2>3, <3>1
  <2>5. ASSUME NEW k \in 1..MaxLength, Finish(c, k) PROVE run'[c][i] # "running"
    BY <2>3, <2>5 DEF Finish
  <2>6. CASE TakeJob /\ c = Head(queue)[1]
    <3>1. Head(queue) = queue[1] /\ 1 \in 1..Len(queue)
      BY <2>1, <2>6, QueueIs, TailIs DEF TakeJob
    <3>2. Waits(Head(queue))
      BY <2>1, <3>1, QueueIs
    <3>3. run' = run \/ run' = [run EXCEPT ![c][Current(c)] = "running"]
      BY <2>6, <3>2 DEF TakeJob, Waits, Heard
    <3> QED
      BY <2>3, <3>3
  <2>7. ASSUME NEW d \in Calls \ {c}, CallActs(d) PROVE run'[c][i] # "running"
    BY <2>1, <2>7, CallsAreLocal DEF Untouched
  <2>8. CASE CallActs(c)
    BY <2>2, <2>4, <2>5, <2>6, <2>8 DEF CallActs, Begin, Return, Write, hooks, pool
  <2> QED
    BY <1>1, <2>1, <2>2, <2>7, <2>8, NextIs
<1> QED
  BY <1>1, CourseHolds, PTL DEF Spec, TimedOutNeverStarts

-----------------------------------------------------------------------------
(***************************************************************************)
(* What the results say                                                    *)
(***************************************************************************)

\* A callback a call has the result of keeps its state if it has ended.
LEMMA OverStays ==
    ASSUME Typed, QueueIsWaitedFor, NEW c \in Calls, CallActs(c),
           NEW i \in 1..MaxLength, run[c][i] = "over"
    PROVE  i <= Len(results[c]) => run'[c][i] = "over"
<1> SUFFICES ASSUME i <= Len(results[c]) PROVE run'[c][i] = "over"
  OBVIOUS
<1>1. /\ run \in [Calls -> [1..MaxLength -> {"none", "queued", "running", "over", "dropped"}]]
      /\ i # Current(c)
  BY CallTyped DEF Typed, TypeOK
<1>2. CASE UNCHANGED run
  BY <1>2
<1>3. CASE StartNext(c) \/ TimeOut(c)
  <2>1. \/ UNCHANGED run
        \/ \E s \in {"queued", "running", "over", "dropped", run[c][Current(c)]} :
              run' = [run EXCEPT ![c][Current(c)] = s]
    BY <1>3 DEF StartNext, TimeOut, CutOff
  <2> QED
    BY <1>1, <2>1
<1>4. ASSUME NEW k \in 1..MaxLength, Finish(c, k) PROVE run'[c][i] = "over"
  BY <1>1, <1>4 DEF Finish
<1>5. CASE TakeJob /\ c = Head(queue)[1]
  <2>1. Head(queue) = queue[1] /\ 1 \in 1..Len(queue)
    BY <1>5, QueueIs, TailIs DEF TakeJob
  <2>2. Waits(Head(queue))
    BY <2>1, QueueIs
  <2>3. run' = run \/ run' = [run EXCEPT ![c][Current(c)] = "running"]
    BY <1>5, <2>2 DEF TakeJob, Waits, Heard
  <2> QED
    BY <1>1, <2>3
<1> QED
  BY <1>2, <1>3, <1>4, <1>5 DEF CallActs, Begin, Return, Write, hooks, pool

HonestResults(c) ==
    \A i \in 1..Len(results[c]) :
        results[c][i].ok => run[c][i] = "over" /\ results[c][i].out \in ReturnsOf[callbacks[c][i]]

HonestTrace(c) ==
    /\ pc[c] = "returned" => Len(results[c]) = Len(callbacks[c])
    /\ trace[c] = "ok" => \A i \in 1..Len(results[c]) : results[c][i].ok
    /\ trace[c] # "none" => pc[c] = "returned"

\* A step that concludes nothing keeps the results honest.
LEMMA ResultsKept ==
    ASSUME Typed, QueueIsWaitedFor, NEW c \in Calls, CallActs(c), HonestResults(c),
           results'[c] = results[c], callbacks'[c] = callbacks[c] \/ results[c] = <<>>
    PROVE  HonestResults(c)'
<1>1. Len(results[c]) \in Nat /\ Len(results[c]) <= MaxLength /\ MaxLength \in Nat
  BY CallTyped, HooksAssumption
<1>2. \A i \in 1..Len(results[c]) : i \in 1..MaxLength /\ i <= Len(results[c])
  BY <1>1
<1> QED
  BY <1>2, OverStays DEF HonestResults

\* A step that gives the current callback the result r keeps them honest if r is.
LEMMA ResultAdded ==
    ASSUME Typed, QueueIsWaitedFor, NEW c \in Calls, CallActs(c), HonestResults(c),
           callbacks'[c] = callbacks[c], Current(c) <= Len(callbacks[c]),
           NEW r \in Results, Conclude(c, r),
           r.ok => /\ run'[c][Current(c)] = "over"
                   /\ r.out \in ReturnsOf[callbacks[c][Current(c)]]
    PROVE  HonestResults(c)'
<1>1. /\ Len(results[c]) \in Nat /\ Len(results[c]) <= MaxLength /\ MaxLength \in Nat
      /\ Current(c) = Len(results[c]) + 1
  BY CallTyped, HooksAssumption
<1>2. /\ Len(results'[c]) = Len(results[c]) + 1 /\ results'[c][Current(c)] = r
      /\ \A i \in 1..Len(results[c]) : results'[c][i] = results[c][i]
  BY ConcludeTyped
<1>3. ASSUME NEW i \in 1..Len(results'[c]), results'[c][i].ok
      PROVE  run'[c][i] = "over" /\ results'[c][i].out \in ReturnsOf[callbacks[c][i]]
  <2>1. CASE i = Current(c)
    BY <1>2, <1>3, <2>1
  <2>2. CASE i # Current(c)
    <3>1. i \in 1..Len(results[c]) /\ i \in 1..MaxLength
      BY <1>1, <1>2, <2>2
    <3> QED
      BY <1>2, <1>3, <3>1, OverStays DEF HonestResults
  <2> QED
    BY <2>1, <2>2
<1> QED
  BY <1>3 DEF HonestResults

LEMMA HonestResultsStep ==
    ASSUME Typed, QueueIsWaitedFor, NothingYet, NEW c \in Calls, CallActs(c), HonestResults(c)
    PROVE  HonestResults(c)'
<1>1. CASE Begin(c)
  <2>1. results' = results /\ results[c] = <<>>
    BY <1>1 DEF Begin, NothingYet
  <2> QED
    BY <2>1, ResultsKept
<1>2. CASE TakeJob /\ c = Head(queue)[1]
  <2>1. Head(queue) = queue[1] /\ 1 \in 1..Len(queue)
    BY <1>2, QueueIs, TailIs DEF TakeJob
  <2>2. Waits(Head(queue))
    BY <2>1, QueueIs
  <2>3. results' = results /\ (callbacks' = callbacks \/ results[c] = <<>>)
    BY <1>2, <2>2 DEF TakeJob, Waits, NothingYet
  <2> QED
    BY <2>3, ResultsKept
<1>3. CASE Return(c) \/ \E i \in 1..MaxLength : Write(c, i)
  <2>1. results' = results /\ callbacks' = callbacks
    BY <1>3 DEF Return, Write
  <2> QED
    BY <2>1, ResultsKept
<1>4. CASE StartNext(c)
  <2>1. callbacks' = callbacks /\ Current(c) <= Len(callbacks[c])
    BY <1>4 DEF StartNext
  <2>2. results' = results \/ Conclude(c, ErrorResult("async", "soft"))
    BY <1>4 DEF StartNext, Raise
  <2>3. ~ErrorResult("async", "soft").ok
    BY DEF ErrorResult
  <2> QED
    BY <2>1, <2>2, <2>3, ResultsKept, ResultAdded, OwnResultsAre
<1>5. CASE TimeOut(c)
  <2>1. callbacks' = callbacks /\ Current(c) <= Len(callbacks[c])
    BY <1>5 DEF TimeOut, Typed, InCallbacks
  <2>2. results' = results \/ Conclude(c, TimeOutResult)
    BY <1>5 DEF TimeOut, Raise
  <2>3. ~TimeOutResult.ok
    BY DEF TimeOutResult, ErrorResult
  <2> QED
    BY <2>1, <2>2, <2>3, ResultsKept, ResultAdded, OwnResultsAre
<1>6. ASSUME NEW i \in 1..MaxLength, Finish(c, i)
      PROVE  HonestResults(c)'
  <2>1. PICK out \in ReturnsOf[callbacks[c][i]] :
          \/ results' = results
          \/ /\ Heard(c, i)
             /\ Conclude(c, IF ~Isolated(c) THEN PlainResult(out)
                            ELSE IF out = "error" THEN ErrorResult(out, "soft")
                                 ELSE OkResult(c, out))
    BY <1>6 DEF Finish, Raise
  <2>2. callbacks' = callbacks
    BY <1>6 DEF Finish
  <2>3. CASE results' = results
    BY <2>2, <2>3, ResultsKept
  <2>4. CASE Heard(c, i) /\ results' # results
    <3>1. i = Current(c) /\ Current(c) <= Len(callbacks[c]) /\ callbacks[c][i] \in Callbacks
      BY <2>4, CallTyped DEF Heard, Typed, InCallbacks
    <3>2. out \in Outcomes
      BY <3>1, HooksAssumption
    <3>3. PICK r \in Results : Conclude(c, r) /\ r.out = out
      <4>1. /\ PlainResult(out).out = out /\ ErrorResult(out, "soft").out = out
            /\ OkResult(c, out).out = out
        BY DEF PlainResult, ErrorResult, OkResult
      <4> QED
        BY <2>1, <2>4, <3>2, <4>1, ResultsAre
    <3>4. run'[c][Current(c)] = "over"
      BY <1>6, <3>1 DEF Finish, Typed, TypeOK
    <3> QED
      BY <2>2, <3>1, <3>3, <3>4, ResultAdded
  <2> QED
    BY <2>1, <2>3, <2>4
<1> QED
  BY <1>1, <1>2, <1>3, <1>4, <1>5, <1>6 DEF CallActs

LEMMA HonestTraceStep ==
    ASSUME Typed, QueueIsWaitedFor, NothingYet, NEW c \in Calls, CallActs(c), HonestTrace(c)
    PROVE  HonestTrace(c)'
<1> USE DEF HonestTrace
<1>1. trace \in [Calls -> {"none", "info", "ok", "degraded"}] /\ pc \in [Calls -> {"idle", "submitted", "ready", "waiting", "returned", "raised"}]
  BY DEF Typed, TypeOK
<1>2. CASE Return(c)
  <2>1. /\ pc' = [pc EXCEPT ![c] = "returned"] /\ results' = results /\ callbacks' = callbacks
        /\ pc[c] = "ready" /\ Current(c) > Len(callbacks[c])
        /\ trace'[c] = trace[c] \/ trace'[c] = TraceStatus(results[c])
    BY <1>1, <1>2 DEF Return, hooks
  <2>2. Len(results[c]) = Len(callbacks[c])
    BY <2>1, CallTyped
  <2>3. TraceStatus(results[c]) = "ok" => \A i \in 1..Len(results[c]) : results[c][i].ok
    BY DEF TraceStatus
  <2> QED
    BY <1>1, <2>1, <2>2, <2>3
<1>3. ASSUME trace' = trace, pc[c] # "returned", pc'[c] # "returned"
      PROVE  HonestTrace(c)'
  BY <1>1, <1>3
<1>4. ASSUME UNCHANGED <<trace, pc, results, callbacks>>
      PROVE  HonestTrace(c)'
  BY <1>4
<1>5. \A r : Conclude(c, r) => pc'[c] = "ready"
  BY <1>1 DEF Conclude
<1>6. Raise(c) => pc'[c] = "raised"
  BY <1>1 DEF Raise
<1>7. CASE Begin(c) \/ StartNext(c) \/ TimeOut(c)
  <2>1. trace' = trace /\ pc[c] # "returned" /\ pc'[c] # "returned"
    BY <1>1, <1>5, <1>6, <1>7 DEF Begin, StartNext, TimeOut
  <2> QED
    BY <1>3, <2>1
<1>8. ASSUME NEW i \in 1..MaxLength, Write(c, i) \/ Finish(c, i)
      PROVE  HonestTrace(c)'
  <2>1. CASE Heard(c, i) /\ pc' # pc
    <3>1. trace' = trace /\ pc[c] # "returned" /\ pc'[c] # "returned"
      BY <1>5, <1>6, <1>8, <2>1 DEF Write, Finish, Heard
    <3> QED
      BY <1>3, <3>1
  <2>2. CASE ~Heard(c, i)
    BY <1>4, <1>8, <2>2 DEF Write, Finish
  <2>3. CASE Heard(c, i) /\ pc' = pc
    <3>1. trace' = trace /\ pc[c] # "returned" /\ pc'[c] # "returned"
      BY <1>8, <2>3 DEF Write, Finish, Heard
    <3> QED
      BY <1>3, <3>1
  <2> QED
    BY <2>1, <2>2, <2>3
<1>9. CASE TakeJob /\ c = Head(queue)[1]
  <2>1. Head(queue) = queue[1] /\ 1 \in 1..Len(queue)
    BY <1>9, QueueIs, TailIs DEF TakeJob
  <2>2. Waits(Head(queue))
    BY <2>1, QueueIs
  <2>3. trace' = trace /\ pc[c] # "returned" /\ pc'[c] # "returned"
    BY <1>1, <1>9, <2>2 DEF TakeJob, Waits, Heard
  <2> QED
    BY <1>3, <2>3
<1> QED
  BY <1>2, <1>7, <1>8, <1>9 DEF CallActs

\* Results and trace are honest, whatever runs late, is dropped or raises: a call that
\* returns has a result for each callback it found, a good one only of a callback that
\* ended by itself, and its trace is ok only if all of them are good.
THEOREM ResultsAreHonestHolds == Spec => []ResultsAreHonest
<1>1. ResultsAreHonest <=> \A c \in Calls : HonestResults(c) /\ HonestTrace(c)
  BY DEF ResultsAreHonest, HonestResults, HonestTrace
<1>2. Init => ResultsAreHonest
  BY DEF Init, ResultsAreHonest
<1>3. ASSUME CourseOK, ResultsAreHonest, [Next]_vars PROVE ResultsAreHonest'
  <2>1. ASSUME NEW c \in Calls, CallActs(c), NEW d \in Calls
        PROVE  HonestResults(d)' /\ HonestTrace(d)'
    <3>1. CASE d = c
      BY <1>1, <1>3, <2>1, <3>1, HonestResultsStep, HonestTraceStep DEF CourseOK
    <3>2. CASE d # c
      <4>1. Untouched(d)
        BY <1>3, <2>1, <3>2, CallsAreLocal DEF CourseOK
      <4> QED
        BY <1>1, <1>3, <4>1 DEF Untouched, HonestResults, HonestTrace
    <3> QED
      BY <3>1, <3>2
  <2>2. CASE UNCHANGED <<mode, pc, kind, callbacks, results, run, pool, draft, trace>>
    BY <1>3, <2>2 DEF ResultsAreHonest
  <2>3. CASE \E c \in Calls : CallActs(c)
    <3>1. \A d \in Calls : HonestResults(d)' /\ HonestTrace(d)'
      BY <2>1, <2>3
    <3> QED
      BY <3>1 DEF ResultsAreHonest, HonestResults, HonestTrace
  <2> QED
    BY <1>3, <2>2, <2>3, NextIs DEF CourseOK
<1> QED
  BY <1>2, <1>3, CourseHolds, PTL DEF Spec

-----------------------------------------------------------------------------
(***************************************************************************)
(* What reaches the payload                                                *)
(***************************************************************************)

\* a result whose patch the call applies
Patches(c, r) ==
    /\ kind[c].point \in PatchPoints /\ mode # "shadow"
    /\ r.out = "patch" /\ r.ok
    /\ mode = "enforce" => kind[c].complete

FromPatch(c) ==
    (draft[c] # 0 /\ Isolated(c) /\ mode # "legacy") =>
        draft[c] <= Len(results[c]) /\ Patches(c, results[c][draft[c]])

\* A step that neither writes to the payload nor patches it keeps its origin.
LEMMA OriginKept ==
    ASSUME Typed, NEW c \in Calls, FromPatch(c), mode' = mode, kind' = kind,
           \/ draft' = draft /\ results' = results
           \/ \E r \in Results : Conclude(c, r) /\ (r.patched => Patches(c, r)),
           Current(c) <= Len(callbacks[c]) \/ results' = results
    PROVE  FromPatch(c)'
<1>1. CASE draft' = draft /\ results' = results
  BY <1>1 DEF FromPatch, Isolated, Patches
<1>2. ASSUME NEW r \in Results, Conclude(c, r), r.patched => Patches(c, r),
             Current(c) <= Len(callbacks[c])
      PROVE  FromPatch(c)'
  <2>1. /\ Len(results'[c]) = Len(results[c]) + 1 /\ results'[c][Current(c)] = r
        /\ \A i \in 1..Len(results[c]) : results'[c][i] = results[c][i]
        /\ draft'[c] = IF r.patched THEN Current(c) ELSE draft[c]
    BY <1>2, ConcludeTyped
  <2>2. /\ Current(c) = Len(results[c]) + 1 /\ Len(results[c]) \in Nat
        /\ draft[c] \in 0..MaxLength /\ MaxLength \in Nat
    BY CallTyped, HooksAssumption DEF Typed, TypeOK
  <2>3. SUFFICES ASSUME draft'[c] # 0, Isolated(c), mode # "legacy"
                 PROVE  draft'[c] <= Len(results'[c]) /\ Patches(c, results'[c][draft'[c]])
    BY DEF FromPatch, Isolated, Patches
  <2>4. CASE r.patched
    BY <1>2, <2>1, <2>2, <2>4
  <2>5. CASE ~r.patched
    <3>1. draft'[c] = draft[c] /\ draft[c] \in 1..Len(results[c])
      BY <2>1, <2>2, <2>3, <2>5 DEF FromPatch
    <3> QED
      BY <2>1, <2>2, <2>3, <3>1 DEF FromPatch
  <2> QED
    BY <2>4, <2>5
<1>3. results' # results \/ draft' = draft \/ ~\E r \in Results : Conclude(c, r)
  <2>1. ASSUME NEW r \in Results, Conclude(c, r), results' = results PROVE FALSE
    <3>1. results[c] \in Seq(Results) /\ results' = [results EXCEPT ![c] = Append(@, r)]
          /\ c \in DOMAIN results
      BY <2>1, CallTyped DEF Conclude, Typed, TypeOK
    <3>2. Len(Append(results[c], r)) = Len(results[c]) + 1 /\ Len(results[c]) \in Nat
      BY <3>1
    <3> QED
      BY <2>1, <3>1, <3>2
  <2> QED
    BY <2>1
<1> QED
  BY <1>1, <1>2, <1>3

LEMMA OkPatches ==
    ASSUME NEW c, NEW out, OkResult(c, out).patched
    PROVE  Patches(c, OkResult(c, out))
  BY DEF OkResult, Patches, PatchAllowed, Fatal, ContractOk

LEMMA FromPatchStep ==
    ASSUME Typed, QueueIsWaitedFor, NothingYet, NEW c \in Calls, CallActs(c), FromPatch(c)
    PROVE  FromPatch(c)'
<1>1. CASE Begin(c) \/ Return(c)
  <2>1. UNCHANGED <<mode, kind, draft, results>>
    BY <1>1 DEF Begin, Return, hooks
  <2> QED
    BY <2>1, OriginKept
<1>2. CASE TakeJob /\ c = Head(queue)[1]
  <2>1. Head(queue) = queue[1] /\ 1 \in 1..Len(queue)
    BY <1>2, QueueIs, TailIs DEF TakeJob
  <2>2. Waits(Head(queue))
    BY <2>1, QueueIs
  <2>3. UNCHANGED <<mode, draft, results>> /\ (kind' = kind \/ draft[c] = 0)
    BY <1>2, <2>2 DEF TakeJob, Waits, NothingYet, hooks
  <2> QED
    BY <2>3, OriginKept DEF FromPatch
<1>3. CASE StartNext(c)
  <2>1. UNCHANGED <<mode, kind>> /\ Current(c) <= Len(callbacks[c])
    BY <1>3 DEF StartNext, hooks
  <2>2. \/ draft' = draft /\ results' = results
        \/ Conclude(c, ErrorResult("async", "soft"))
    BY <1>3 DEF StartNext, Raise
  <2> QED
    BY <2>1, <2>2, OriginKept, OwnResultsAre
<1>4. CASE TimeOut(c)
  <2>1. UNCHANGED <<mode, kind>> /\ Current(c) <= Len(callbacks[c])
    BY <1>4 DEF TimeOut, Typed, InCallbacks, hooks
  <2>2. \/ draft' = draft /\ results' = results
        \/ Conclude(c, TimeOutResult)
    BY <1>4 DEF TimeOut, Raise
  <2> QED
    BY <2>1, <2>2, OriginKept, OwnResultsAre
<1>5. ASSUME NEW i \in 1..MaxLength, Write(c, i) PROVE FromPatch(c)'
  BY <1>5 DEF Write, FromPatch, Isolated, hooks
<1>6. ASSUME NEW i \in 1..MaxLength, Finish(c, i) PROVE FromPatch(c)'
  <2>1. UNCHANGED <<mode, kind>>
    BY <1>6 DEF Finish, hooks
  <2>2. PICK out \in ReturnsOf[callbacks[c][i]] :
          \/ draft' = draft /\ results' = results
          \/ /\ Heard(c, i)
             /\ Conclude(c, IF ~Isolated(c) THEN PlainResult(out)
                            ELSE IF out = "error" THEN ErrorResult(out, "soft")
                                 ELSE OkResult(c, out))
    BY <1>6 DEF Finish, Raise
  <2>3. CASE Heard(c, i)
    <3>1. Current(c) <= Len(callbacks[c]) /\ callbacks[c][i] \in Callbacks
      BY <2>3, CallTyped DEF Heard, Typed, InCallbacks
    <3>2. out \in Outcomes
      BY <3>1, HooksAssumption
    <3>3. ~PlainResult(out).patched /\ ~ErrorResult(out, "soft").patched
      BY DEF PlainResult, ErrorResult
    <3> QED
      BY <2>1, <2>2, <3>1, <3>2, <3>3, OriginKept, OkPatches, ResultsAre
  <2> QED
    BY <2>1, <2>2, <2>3, OriginKept
<1> QED
  BY <1>1, <1>2, <1>3, <1>4, <1>5, <1>6 DEF CallActs

\* In the contract modes a callback called with isolation changes the payload by a patch
\* only that it returned in time, where patches are allowed: what a late or rejected
\* callback does never arrives.
THEOREM OnlyPatchesArriveHolds == Spec => []OnlyPatchesArrive
<1>1. OnlyPatchesArrive <=> \A c \in Calls : FromPatch(c)
  BY DEF OnlyPatchesArrive, FromPatch, Patches
<1>2. Init => OnlyPatchesArrive
  BY DEF Init, OnlyPatchesArrive
<1>3. ASSUME CourseOK, OnlyPatchesArrive, [Next]_vars PROVE OnlyPatchesArrive'
  <2>1. ASSUME NEW c \in Calls, CallActs(c), NEW d \in Calls
        PROVE  FromPatch(d)'
    <3>1. CASE d = c
      BY <1>1, <1>3, <2>1, <3>1, FromPatchStep DEF CourseOK
    <3>2. CASE d # c
      <4>1. Untouched(d)
        BY <1>3, <2>1, <3>2, CallsAreLocal DEF CourseOK
      <4>2. mode' = mode
        BY <2>1 DEF CallActs, Begin, StartNext, TimeOut, Return, Write, Finish, TakeJob, hooks
      <4> QED
        BY <1>1, <1>3, <4>1, <4>2 DEF Untouched, FromPatch, Patches, Isolated
    <3> QED
      BY <3>1, <3>2
  <2>2. CASE UNCHANGED <<mode, pc, kind, callbacks, results, run, pool, draft, trace>>
    BY <1>3, <2>2 DEF OnlyPatchesArrive, Isolated
  <2>3. CASE \E c \in Calls : CallActs(c)
    <3>1. \A d \in Calls : FromPatch(d)'
      BY <2>1, <2>3
    <3> QED
      BY <3>1 DEF OnlyPatchesArrive, FromPatch, Patches
  <2> QED
    BY <1>3, <2>2, <2>3, NextIs DEF CourseOK
<1> QED
  BY <1>2, <1>3, CourseHolds, PTL DEF Spec
===============================================================================
