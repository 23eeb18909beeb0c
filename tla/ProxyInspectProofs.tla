--------------------------- MODULE ProxyInspectProofs --------------------------
(***************************************************************************)
(* What inspect_target returns was on chain, for every set of proxies,     *)
(* beacons and threads, any order of upgrades, and any TTL and cache size. *)
(*                                                                         *)
(* The invariant of a running inspection, Seen, is a chain that once was,  *)
(* not before the inspection began, of which every slot it has read is a   *)
(* part, and which still agrees with the chain of now on everything it     *)
(* has yet to read.  An entry of the cache was right at or after the time  *)
(* it counts its expiry from.                                              *)
(***************************************************************************)
EXTENDS ProxyInspect, SelectionProofs

LEMMA TrimIs ==
    ASSUME NEW T, NEW c \in Seq(T)
    PROVE  Trim(c) \in Seq(T)
BY InspectAssumption DEF Trim

-----------------------------------------------------------------------------
(***************************************************************************)
(* What the inductive invariant says                                       *)
(***************************************************************************)

SlotNames == {"admin", "implementation", "beacon", "uups"}

\* the slots that an inspection at p has read
Done(p) ==
    CASE p = "admin" -> {}
      [] p = "implementation" -> {"admin"}
      [] p = "beacon" -> {"admin", "implementation"}
      [] p = "uups" -> {"admin", "implementation", "beacon"}
      [] OTHER -> SlotNames

Typed ==
    /\ now \in 0..MaxTime
    /\ chain = [t \in Targets |-> chain[t]]
    /\ \A t \in Targets : chain[t] = [s \in SlotNames \cup {"facet"} |-> chain[t][s]]
    /\ behind = [b \in Beacons |-> behind[b]]
    /\ truth = [t \in Targets |-> truth[t]]
    /\ \A t \in Targets : truth[t] = [n \in 0..MaxTime |-> truth[t][n]]
    /\ pc \in [Inspectors -> {"idle", "lookup", "call", "store"} \cup SlotNames]
    /\ target = [i \in Inspectors |-> target[i]]
    /\ start \in [Inspectors -> Nat]
    /\ read = [i \in Inspectors |-> read[i]]
    /\ changes \in [Inspectors -> 0..2]
    /\ \A i \in Inspectors :
          /\ read[i] = [s \in SlotNames \cup {"answer"} |-> read[i][s]]
          /\ start[i] <= now
          /\ pc[i] # "idle" => target[i] \in Targets
          /\ ~Inspecting(i) => changes[i] = 0

\* the chain c, with b behind its beacons, is what inspection i may have seen: all it has
\* read, and what it has not read yet is as now
Explains(c, b, i) ==
    LET t == target[i]
    IN  /\ \A s \in Done(pc[i]) : read[i][s] = c[t][s]
        /\ \A s \in SlotNames \ Done(pc[i]) : chain[t][s] = c[t][s]
        /\ pc[i] # "store" => chain[t].facet = c[t].facet /\ behind = b
        /\ pc[i] = "store" => read[i].answer = Answer(t, read[i], c, b)

\* a chain that once was, since the inspection began, explains it
Seen(i) ==
    \E c, b :
        /\ \E n \in start[i]..now : RightNow(target[i], c, b) \in truth[target[i]][n]
        /\ changes[i] = 0 => c = chain /\ b = behind
        /\ Explains(c, b, i)

\* an entry was right when or after the inspection that stored it began
Sound(e) ==
    /\ e.target \in Targets
    /\ e.expires \in Int
    /\ ~e.torn => RightSince(e, e.expires - TTL)

CacheOK == \E T : cache \in Seq(T) /\ \A e \in T : Sound(e)

InspectOK ==
    /\ Typed
    /\ \A t \in Targets : RightNow(t, chain, behind) \in truth[t][now]
    /\ CacheOK
    /\ \A i \in Inspectors : Inspecting(i) /\ changes[i] < 2 => Seen(i)

-----------------------------------------------------------------------------
(***************************************************************************)
(* Resolutions                                                             *)
(***************************************************************************)

\* what the reads and the answer resolve to is all that a resolution depends on
LEMMA ResolutionOf ==
    ASSUME NEW t, NEW r, NEW q,
           \A s \in SlotNames \cup {"answer"} : r[s] = q[s]
    PROVE  Resolution(t, r) = Resolution(t, q)
<1>1. /\ r.admin = q.admin /\ r.implementation = q.implementation /\ r.beacon = q.beacon
      /\ r.uups = q.uups /\ r.answer = q.answer
  BY DEF SlotNames
<1> QED
  BY <1>1 DEF Resolution

\* who is asked depends on the slots only, and the answer on nobody else
LEMMA AnswerOf ==
    ASSUME NEW t, NEW r, NEW q, NEW c, NEW d, NEW b,
           \A s \in SlotNames : r[s] = q[s],
           c[t].facet = d[t].facet
    PROVE  Answer(t, r, c, b) = Answer(t, q, d, b)
<1>1. r.implementation = q.implementation /\ r.beacon = q.beacon /\ r.uups = q.uups
  BY DEF SlotNames
<1>2. AskedOf(t, r) = AskedOf(t, q)
  BY <1>1 DEF AskedOf
<1> QED
  BY <1>1, <1>2 DEF Answer

\* reads that agree with a chain, and its answer, give the resolution of that chain
LEMMA ReadsAgree ==
    ASSUME NEW t, NEW r, NEW c, NEW b,
           \A s \in SlotNames : r[s] = c[t][s],
           r.answer = Answer(t, r, c, b)
    PROVE  Resolution(t, r) = RightNow(t, c, b)
<1> DEFINE q == [s \in SlotNames |-> c[t][s]]
           all == [admin |-> q.admin, implementation |-> q.implementation,
                   beacon |-> q.beacon, uups |-> q.uups, answer |-> Answer(t, q, c, b)]
<1>1. RightNow(t, c, b) = Resolution(t, all)
  BY DEF RightNow, SlotNames
<1>2. Answer(t, q, c, b) = Answer(t, r, c, b)
  <2>1. \A s \in SlotNames : r[s] = q[s]
    OBVIOUS
  <2> HIDE DEF q
  <2> QED
    BY <2>1, AnswerOf
<1>3. \A s \in SlotNames \cup {"answer"} : r[s] = all[s]
  BY <1>2 DEF SlotNames
<1> HIDE DEF all
<1> QED
  BY <1>1, <1>3, ResolutionOf

-----------------------------------------------------------------------------
(***************************************************************************)
(* What was right stays so                                                 *)
(***************************************************************************)

\* time goes on, and no resolution that was right at a time past is forgotten
Grows ==
    /\ now' \in Nat
    /\ now <= now'
    /\ \A t \in Targets : \A n \in 0..now : truth[t][n] \subseteq truth'[t][n]

LEMMA StandsStill == ASSUME Typed, UNCHANGED <<now, truth>> PROVE Grows
BY InspectAssumption DEF Typed, Grows

LEMMA SoundStays ==
    ASSUME Typed, Grows, NEW e, Sound(e)
    PROVE  Sound(e)'
<1>1. SUFFICES ASSUME ~e.torn PROVE RightSince(e, e.expires - TTL)'
  BY DEF Sound
<1>2. PICK n \in 0..now : n >= e.expires - TTL /\ e.resolution \in truth[e.target][n]
  BY <1>1 DEF Sound, RightSince
<1>3. n \in 0..now' /\ e.resolution \in truth'[e.target][n]
  BY <1>2, InspectAssumption DEF Typed, Grows, Sound
<1> QED
  BY <1>2, <1>3 DEF RightSince

LEMMA CacheStays == ASSUME Typed, Grows, CacheOK, UNCHANGED cache PROVE CacheOK'
<1>1. PICK T : cache \in Seq(T) /\ \A e \in T : Sound(e)
  BY DEF CacheOK
<1>2. \A e \in T : Sound(e)'
  BY <1>1, SoundStays
<1> QED
  BY <1>1, <1>2 DEF CacheOK

\* what an inspection may have seen, while it does nothing and the chain stands still
LEMMA SeenStays ==
    ASSUME Typed, Grows, UNCHANGED <<chain, behind>>, NEW i \in Inspectors, pc[i] # "idle",
           pc'[i] = pc[i], target'[i] = target[i], start'[i] = start[i], read'[i] = read[i],
           changes'[i] = changes[i], Seen(i)
    PROVE  Seen(i)'
<1>1. PICK c, b : /\ \E n \in start[i]..now : RightNow(target[i], c, b) \in truth[target[i]][n]
                  /\ changes[i] = 0 => c = chain /\ b = behind
                  /\ Explains(c, b, i)
  BY DEF Seen
<1>2. Explains(c, b, i)'
  BY <1>1 DEF Explains
<1>3. \E n \in start[i]..now' : RightNow(target[i], c, b) \in truth'[target[i]][n]
  <2>1. PICK n \in start[i]..now : RightNow(target[i], c, b) \in truth[target[i]][n]
    BY <1>1
  <2>2. target[i] \in Targets /\ n \in 0..now /\ n \in start[i]..now'
    BY InspectAssumption DEF Typed, Grows
  <2> QED
    BY <2>1, <2>2 DEF Grows
<1> QED
  BY <1>1, <1>2, <1>3 DEF Seen

LEMMA TimeIs ==
    ASSUME Typed
    PROVE  now \in Nat /\ now \in 0..MaxTime /\ \A n \in 0..now : n \in 0..MaxTime
<1>1. now \in 0..MaxTime
  BY DEF Typed
<1> QED
  BY <1>1, InspectAssumption

-----------------------------------------------------------------------------
(***************************************************************************)
(* The chain moves on                                                      *)
(***************************************************************************)

LEMMA InitOK == Init => InspectOK
<1> SUFFICES ASSUME Init PROVE InspectOK
  OBVIOUS
<1>1. PICK born \in Born : chain = born[1] /\ behind = born[2]
  BY DEF Init
<1>2. chain \in [Targets -> Contract] /\ behind \in [Beacons -> {None} \cup Impls]
  BY <1>1, InspectAssumption
<1>3. \A c \in Contract : c = [s \in SlotNames \cup {"facet"} |-> c[s]]
  BY DEF Contract, SlotNames
<1>4. 0 \in 0..MaxTime /\ now = 0
  BY InspectAssumption DEF Init
<1>5. \A t \in Targets : RightNow(t, chain, behind) \in truth[t][now]
  BY <1>4 DEF Init
<1>6. Typed
  <2>1. \A i \in Inspectors : read[i] = [s \in SlotNames \cup {"answer"} |-> read[i][s]]
    BY DEF Init, Nothing, SlotNames
  <2>2. \A t \in Targets : chain[t] = [s \in SlotNames \cup {"facet"} |-> chain[t][s]]
    BY <1>2, <1>3
  <2>3. chain = [t \in Targets |-> chain[t]] /\ behind = [b \in Beacons |-> behind[b]]
    BY <1>2
  <2>4. /\ truth = [t \in Targets |-> truth[t]]
        /\ \A t \in Targets : truth[t] = [n \in 0..MaxTime |-> truth[t][n]]
    BY DEF Init
  <2>5. /\ pc = [i \in Inspectors |-> "idle"] /\ target = [i \in Inspectors |-> None]
        /\ start = [i \in Inspectors |-> 0] /\ changes = [i \in Inspectors |-> 0]
        /\ read = [i \in Inspectors |-> Nothing]
    BY DEF Init
  <2>6. /\ pc \in [Inspectors -> {"idle", "lookup", "call", "store"} \cup SlotNames]
        /\ start \in [Inspectors -> Nat]
        /\ changes \in [Inspectors -> 0..2]
    BY <2>5
  <2>7. target = [i \in Inspectors |-> target[i]] /\ read = [i \in Inspectors |-> read[i]]
    BY <2>5
  <2>8. \A i \in Inspectors : start[i] <= now /\ changes[i] = 0 /\ pc[i] = "idle"
    BY <1>4, <2>5
  <2> HIDE DEF Init
  <2> QED
    BY <1>4, <2>1, <2>2, <2>3, <2>4, <2>6, <2>7, <2>8 DEF Typed
<1>7. CacheOK
  <2>1. cache \in Seq({})
    BY DEF Init
  <2> QED
    BY <2>1 DEF CacheOK
<1> QED
  BY <1>5, <1>6, <1>7 DEF InspectOK, Init, Inspecting

LEMMA TickStep == ASSUME InspectOK, Tick PROVE InspectOK'
<1>1. Typed
  BY DEF InspectOK
<1>2. /\ now \in Nat /\ now' = now + 1 /\ now' \in 0..MaxTime
      /\ \A n \in 0..now : n \in 0..MaxTime /\ n # now'
  BY <1>1, TimeIs, InspectAssumption DEF Tick
<1>3. \A t \in Targets : /\ truth'[t] = [truth[t] EXCEPT ![now'] = {RightNow(t, chain, behind)}]
                         /\ truth'[t] = [n \in 0..MaxTime |-> truth'[t][n]]
                         /\ \A n \in 0..now : truth'[t][n] = truth[t][n]
                         /\ truth'[t][now'] = {RightNow(t, chain, behind)}
  BY <1>1, <1>2 DEF Typed, Tick
<1>4. Grows
  <2>1. now' \in Nat /\ now <= now'
    BY <1>2
  <2>2. \A t \in Targets : \A n \in 0..now : truth[t][n] \subseteq truth'[t][n]
    BY <1>3
  <2> QED
    BY <2>1, <2>2 DEF Grows
<1>5. Typed'
  <2>1. truth' = [t \in Targets |-> truth'[t]]
    BY DEF Tick
  <2>2. start \in [Inspectors -> Nat] /\ \A i \in Inspectors : start[i] <= now
    BY <1>1 DEF Typed
  <2>3. \A i \in Inspectors : start[i] <= now'
    BY <1>2, <2>2
  <2>4. \A t \in Targets : truth'[t] = [n \in 0..MaxTime |-> truth'[t][n]]
    BY <1>3
  <2>5. UNCHANGED <<chain, behind, pc, target, start, read, changes>>
    BY DEF Tick
  <2> QED
    BY <1>1, <1>2, <2>1, <2>3, <2>4, <2>5 DEF Typed, Inspecting
<1>6. CacheOK'
  BY <1>1, <1>4, CacheStays DEF InspectOK, Tick
<1>7. ASSUME NEW i \in Inspectors, Inspecting(i)', changes'[i] < 2 PROVE Seen(i)'
  <2>1. Seen(i)
    BY <1>7 DEF InspectOK, Tick, Inspecting
  <2>2. pc[i] # "idle"
    BY <1>7 DEF Tick, Inspecting
  <2> QED
    BY <1>1, <1>4, <2>1, <2>2, SeenStays DEF Tick
<1>8. \A t \in Targets : RightNow(t, chain, behind)' \in truth'[t][now']
  BY <1>3 DEF Tick
<1> QED
  BY <1>5, <1>6, <1>7, <1>8 DEF InspectOK

\* nothing changes that an inspection has yet to read
SparesTheRest(c, b, i) ==
    LET t == target[i]
    IN  /\ \A s \in SlotNames \ Done(pc[i]) : c[t][s] = chain[t][s]
        /\ c[t].facet = chain[t].facet
        /\ b = behind

\* nothing changes that it has read
SparesTheRead(c, i) == \A s \in Done(pc[i]) : c[target[i]][s] = chain[target[i]][s]

\* Of the first change while it reads, an inspection has seen nothing, or it will see
\* nothing: the chain of before explains it, or the chain of after.
LEMMA ChangedStep ==
    ASSUME InspectOK, NEW c, NEW b, Changed(c, b),
           c = [t \in Targets |-> c[t]], b = [k \in Beacons |-> b[k]],
           \A t \in Targets : c[t] = [s \in SlotNames \cup {"facet"} |-> c[t][s]],
           \A i \in Inspectors :
              Inspecting(i) => SparesTheRest(c, b, i) \/ SparesTheRead(c, i)
    PROVE  InspectOK'
<1>1. Typed
  BY DEF InspectOK
<1> now \in Nat /\ now \in 0..MaxTime /\ \A n \in 0..now : n \in 0..MaxTime
  BY <1>1, TimeIs
<1>2. \A t \in Targets : /\ truth'[t] = [n \in 0..MaxTime |-> truth'[t][n]]
                         /\ \A n \in 0..now : truth[t][n] \subseteq truth'[t][n]
                         /\ RightNow(t, c, b) \in truth'[t][now]
  <2> SUFFICES ASSUME NEW t \in Targets
               PROVE  /\ truth'[t] = [n \in 0..MaxTime |-> truth'[t][n]]
                      /\ \A n \in 0..now : truth[t][n] \subseteq truth'[t][n]
                      /\ RightNow(t, c, b) \in truth'[t][now]
    OBVIOUS
  <2>1. truth'[t] = [truth[t] EXCEPT ![now] = @ \cup {RightNow(t, c, b)}]
    BY DEF Changed
  <2>2. truth[t] = [n \in 0..MaxTime |-> truth[t][n]]
    BY <1>1 DEF Typed
  <2> QED
    BY <1>1, <2>1, <2>2
<1>3. Grows
  BY <1>1, <1>2 DEF Grows, Changed
<1>4. Typed'
  <2>1. truth' = [t \in Targets |-> truth'[t]]
    BY DEF Changed
  <2>2. /\ changes' \in [Inspectors -> 0..2]
        /\ \A i \in Inspectors : ~Inspecting(i) => changes'[i] = 0
    BY <1>1 DEF Typed, Changed
  <2>3. UNCHANGED <<now, pc, target, start, read>> /\ chain' = c /\ behind' = b
    BY DEF Changed
  <2>4. \A t \in Targets : truth'[t] = [n \in 0..MaxTime |-> truth'[t][n]]
    BY <1>2
  <2> QED
    BY <1>1, <2>1, <2>2, <2>3, <2>4 DEF Typed, Inspecting
<1>5. CacheOK'
  BY <1>1, <1>3, CacheStays DEF InspectOK, Changed
<1>6. ASSUME NEW i \in Inspectors, Inspecting(i)', changes'[i] < 2 PROVE Seen(i)'
  <2>1. Inspecting(i) /\ changes[i] = 0 /\ changes'[i] = 1
    <3>1. Inspecting(i)
      BY <1>6 DEF Changed, Inspecting
    <3>2. changes'[i] = IF changes[i] < 2 THEN changes[i] + 1 ELSE changes[i]
      BY <3>1 DEF Changed
    <3>3. changes[i] \in 0..2
      BY <1>1 DEF Typed
    <3> QED
      BY <1>6, <3>1, <3>2, <3>3
  <2>2. /\ target[i] \in Targets
        /\ start[i] \in Nat /\ start[i] <= now
    BY <1>1, <2>1 DEF Typed, Inspecting
  <2>3. Explains(chain, behind, i)
    BY <2>1 DEF InspectOK, Seen
  <2>4. /\ RightNow(target[i], chain, behind) \in truth'[target[i]][now]
        /\ RightNow(target[i], c, b) \in truth'[target[i]][now]
        /\ now \in start[i]..now
    <3>1. RightNow(target[i], chain, behind) \in truth[target[i]][now]
      BY <2>2 DEF InspectOK
    <3>2. now \in 0..now
      OBVIOUS
    <3>3. now \in start[i]..now
      BY <2>2
    <3>4. truth[target[i]][now] \subseteq truth'[target[i]][now]
      BY <1>2, <2>2, <3>2
    <3>5. RightNow(target[i], c, b) \in truth'[target[i]][now]
      BY <1>2, <2>2
    <3> QED
      BY <3>1, <3>3, <3>4, <3>5
  <2> UNCHANGED <<now, pc, target, start, read>> /\ chain' = c /\ behind' = b
    BY DEF Changed
  <2>5. CASE pc[i] = "store" \/ SparesTheRest(c, b, i)
    <3> DEFINE t == target[i]
    <3>1. \A s \in Done(pc[i]) : read[i][s] = chain[t][s]
      BY <2>3 DEF Explains
    <3>2. \A s \in SlotNames \ Done(pc[i]) : c[t][s] = chain[t][s]
      BY <2>5 DEF SparesTheRest, Done
    <3>3. pc[i] # "store" => c[t].facet = chain[t].facet /\ b = behind
      BY <2>5 DEF SparesTheRest
    <3>4. pc[i] = "store" => read[i].answer = Answer(t, read[i], chain, behind)
      BY <2>3 DEF Explains
    <3>5. \E d, e : d = chain /\ e = behind
      OBVIOUS
    <3>6. PICK d, e : d = chain /\ e = behind
      BY <3>5
    <3>7. Explains(d, e, i)'
      BY <3>1, <3>2, <3>3, <3>4, <3>6 DEF Explains
    <3>8. \E n \in start[i]..now : RightNow(target[i], d, e) \in truth'[target[i]][n]
      BY <2>4, <3>6
    <3> QED
      BY <2>1, <3>7, <3>8 DEF Seen
  <2>6. CASE pc[i] # "store" /\ SparesTheRead(c, i)
    <3> DEFINE t == target[i]
    <3>1. \A s \in Done(pc[i]) : read[i][s] = c[t][s]
      BY <2>3, <2>6 DEF Explains, SparesTheRead
    <3>2. Explains(c, b, i)'
      BY <2>6, <3>1 DEF Explains
    <3>3. \E n \in start[i]..now : RightNow(target[i], c, b) \in truth'[target[i]][n]
      BY <2>4
    <3> QED
      BY <2>1, <3>2, <3>3 DEF Seen
  <2>7. SparesTheRest(c, b, i) \/ SparesTheRead(c, i)
    BY <2>1
  <2> QED
    BY <2>5, <2>6, <2>7
<1>7. \A t \in Targets : RightNow(t, chain, behind)' \in truth'[t][now']
  BY <1>2 DEF Changed
<1> QED
  BY <1>4, <1>5, <1>6, <1>7 DEF InspectOK

LEMMA UpgradeStep == ASSUME InspectOK, Upgrade PROVE InspectOK'
<1>1. Typed
  BY DEF InspectOK
<1>2. CASE \E t \in Targets, s \in DOMAIN Holds \cup {"facet"} :
              \E v : Changed([chain EXCEPT ![t][s] = v], behind)
  <2>0. PICK t \in Targets, s \in DOMAIN Holds \cup {"facet"} :
              \E v : Changed([chain EXCEPT ![t][s] = v], behind)
    BY <1>2
  <2>1. PICK v : Changed([chain EXCEPT ![t][s] = v], behind)
    BY <2>0
  <2> DEFINE c == [chain EXCEPT ![t][s] = v]
  <2>2. s \in SlotNames \cup {"facet"}
    BY DEF Holds, SlotNames
  <2>3. /\ c = [k \in Targets |-> c[k]]
        /\ \A k \in Targets \ {t} : c[k] = chain[k]
        /\ c[t] = [chain[t] EXCEPT ![s] = v]
    BY <1>1 DEF Typed
  <2>4. /\ c[t] = [k \in SlotNames \cup {"facet"} |-> c[t][k]]
        /\ \A k \in (SlotNames \cup {"facet"}) \ {s} : c[t][k] = chain[t][k]
    <3>1. chain[t] = [k \in SlotNames \cup {"facet"} |-> chain[t][k]]
      BY <1>1 DEF Typed
    <3> HIDE DEF c
    <3> QED
      BY <2>2, <2>3, <3>1
  <2> HIDE DEF c
  <2>5. \A k \in Targets : c[k] = [n \in SlotNames \cup {"facet"} |-> c[k][n]]
    <3>1. ASSUME NEW k \in Targets \ {t}
          PROVE  c[k] = [n \in SlotNames \cup {"facet"} |-> c[k][n]]
      <4>1. c[k] = chain[k] /\ chain[k] = [n \in SlotNames \cup {"facet"} |-> chain[k][n]]
        BY <1>1, <2>3 DEF Typed
      <4> QED
        BY <4>1
    <3> QED
      BY <2>4, <3>1
  <2>6. behind = [k \in Beacons |-> behind[k]]
    BY <1>1 DEF Typed
  <2>7. ASSUME NEW i \in Inspectors, Inspecting(i)
        PROVE  SparesTheRest(c, behind, i) \/ SparesTheRead(c, i)
    <3>1. Done(pc[i]) \subseteq SlotNames /\ "facet" \notin SlotNames
      BY DEF Done, SlotNames
    <3>2. CASE target[i] = t /\ s \in Done(pc[i])
      BY <2>4, <3>1, <3>2 DEF SparesTheRest
    <3>3. CASE target[i] = t /\ s \notin Done(pc[i])
      BY <2>4, <3>1, <3>3 DEF SparesTheRead
    <3>4. CASE target[i] # t /\ target[i] \in Targets
      BY <2>3, <3>4 DEF SparesTheRead
    <3>5. target[i] \in Targets
      BY <1>1, <2>7 DEF Typed, Inspecting
    <3> QED
      BY <3>2, <3>3, <3>4, <3>5
  <2>8. Changed(c, behind)
    BY <2>1 DEF c
  <2> QED
    BY <2>3, <2>5, <2>6, <2>7, <2>8, ChangedStep
<1>3. CASE \E k \in Beacons : \E v : Changed(chain, [behind EXCEPT ![k] = v])
  <2>0. PICK k \in Beacons : \E v : Changed(chain, [behind EXCEPT ![k] = v])
    BY <1>3
  <2>1. PICK v : Changed(chain, [behind EXCEPT ![k] = v])
    BY <2>0
  <2> DEFINE b == [behind EXCEPT ![k] = v]
  <2>2. b = [n \in Beacons |-> b[n]]
    BY <1>1 DEF Typed
  <2>3. \A i \in Inspectors : SparesTheRead(chain, i)
    BY DEF SparesTheRead
  <2>4. /\ chain = [t \in Targets |-> chain[t]]
        /\ \A t \in Targets : chain[t] = [s \in SlotNames \cup {"facet"} |-> chain[t][s]]
    BY <1>1 DEF Typed
  <2> HIDE DEF b
  <2>5. Changed(chain, b)
    BY <2>1 DEF b
  <2> QED
    BY <2>2, <2>3, <2>4, <2>5, ChangedStep
<1> QED
  BY <1>2, <1>3 DEF Upgrade

-----------------------------------------------------------------------------
(***************************************************************************)
(* The calls                                                               *)
(***************************************************************************)

\* A step of inspection i leaves the chain and the others alone.  What has to be shown of
\* it is its own part.
LEMMA OwnStep ==
    ASSUME InspectOK, NEW i \in Inspectors, UNCHANGED outside,
           pc' \in [Inspectors -> {"idle", "lookup", "call", "store"} \cup SlotNames],
           target' = [j \in Inspectors |-> target'[j]],
           start' \in [Inspectors -> Nat],
           read' = [j \in Inspectors |-> read'[j]],
           changes' \in [Inspectors -> 0..2],
           \A j \in Inspectors \ {i} :
              /\ pc'[j] = pc[j] /\ target'[j] = target[j] /\ start'[j] = start[j]
              /\ read'[j] = read[j] /\ changes'[j] = changes[j],
           read'[i] = [s \in SlotNames \cup {"answer"} |-> read'[i][s]],
           start'[i] <= now,
           pc'[i] # "idle" => target'[i] \in Targets,
           ~Inspecting(i)' => changes'[i] = 0,
           CacheOK',
           Inspecting(i)' /\ changes'[i] < 2 => Seen(i)'
    PROVE  InspectOK'
<1>1. Typed /\ Grows /\ UNCHANGED <<now, chain, behind, truth>>
  BY StandsStill DEF InspectOK, outside
<1>2. Typed'
  BY <1>1 DEF Typed, Inspecting
<1>3. ASSUME NEW j \in Inspectors, Inspecting(j)', changes'[j] < 2 PROVE Seen(j)'
  <2>1. CASE j = i
    BY <1>3, <2>1
  <2>2. CASE j # i
    <3>1. Inspecting(j) /\ changes[j] < 2 /\ pc[j] # "idle"
      BY <1>3, <2>2 DEF Inspecting
    <3>2. Seen(j)
      BY <3>1 DEF InspectOK
    <3> QED
      BY <1>1, <2>2, <3>1, <3>2, SeenStays
  <2> QED
    BY <2>1, <2>2
<1>4. \A t \in Targets : RightNow(t, chain, behind)' \in truth'[t][now']
  BY <1>1 DEF InspectOK
<1> QED
  BY <1>2, <1>3, <1>4 DEF InspectOK

\* A call that ends.
LEMMA EndsStep ==
    ASSUME InspectOK, NEW i \in Inspectors, UNCHANGED outside, Ends(i), CacheOK'
    PROVE  InspectOK'
<1>1. Typed
  BY DEF InspectOK
<1>2. /\ pc'[i] = "idle" /\ start'[i] = 0 /\ read'[i] = Nothing /\ changes'[i] = 0
      /\ \A j \in Inspectors \ {i} :
            /\ pc'[j] = pc[j] /\ target'[j] = target[j] /\ start'[j] = start[j]
            /\ read'[j] = read[j] /\ changes'[j] = changes[j]
  BY <1>1 DEF Typed, Ends
<1>3. /\ pc' \in [Inspectors -> {"idle", "lookup", "call", "store"} \cup SlotNames]
      /\ target' = [j \in Inspectors |-> target'[j]]
      /\ start' \in [Inspectors -> Nat]
      /\ read' = [j \in Inspectors |-> read'[j]]
      /\ changes' \in [Inspectors -> 0..2]
  <2>1. /\ pc \in [Inspectors -> {"idle", "lookup", "call", "store"} \cup SlotNames]
        /\ start \in [Inspectors -> Nat] /\ changes \in [Inspectors -> 0..2]
    BY <1>1 DEF Typed
  <2>2. target = [j \in Inspectors |-> target[j]] /\ read = [j \in Inspectors |-> read[j]]
    BY <1>1 DEF Typed
  <2>3. /\ target' = [j \in Inspectors |-> target'[j]]
        /\ read' = [j \in Inspectors |-> read'[j]]
    BY <2>2 DEF Ends
  <2> QED
    BY <2>1, <2>3 DEF Ends
<1>4. read'[i] = [s \in SlotNames \cup {"answer"} |-> read'[i][s]]
  BY <1>2 DEF Nothing, SlotNames
<1>5. start'[i] <= now
  BY <1>1, <1>2, TimeIs
<1> QED
  BY <1>2, <1>3, <1>4, <1>5, OwnStep DEF Inspecting

\* The caches that the calls leave.
LEMMA CacheKept ==
    ASSUME InspectOK, UNCHANGED outside, NEW K, cache' = Kept(cache, K)
    PROVE  CacheOK'
<1>1. Typed /\ Grows
  BY StandsStill DEF InspectOK, outside
<1>2. PICK T : cache \in Seq(T) /\ \A e \in T : Sound(e)
  BY DEF InspectOK, CacheOK
<1>3. cache' \in Seq(T) /\ \A e \in T : Sound(e)'
  BY <1>1, <1>2, KeptIs, SoundStays
<1> QED
  BY <1>3 DEF CacheOK

LEMMA EnterStep ==
    ASSUME InspectOK, NEW i \in Inspectors, NEW t \in Targets, Enter(i, t)
    PROVE  InspectOK'
<1>1. Typed /\ UNCHANGED outside
  BY DEF InspectOK, Enter
<1>2. /\ pc'[i] = "lookup" /\ target'[i] = t /\ start'[i] = now
      /\ UNCHANGED <<read, changes>> /\ changes[i] = 0
      /\ \A j \in Inspectors \ {i} :
            pc'[j] = pc[j] /\ target'[j] = target[j] /\ start'[j] = start[j]
  BY <1>1 DEF Typed, Enter, Inspecting
<1>3. /\ pc' \in [Inspectors -> {"idle", "lookup", "call", "store"} \cup SlotNames]
      /\ target' = [j \in Inspectors |-> target'[j]]
      /\ start' \in [Inspectors -> Nat]
  <2>1. now \in Nat
    BY <1>1, TimeIs
  <2> QED
    BY <1>1, <2>1 DEF Typed, Enter
<1>4. CacheOK'
  BY <1>1, StandsStill, CacheStays DEF InspectOK, Enter, outside
<1>5. start'[i] <= now
  BY <1>1, <1>2, TimeIs
<1> QED
  BY <1>1, <1>2, <1>3, <1>4, <1>5, OwnStep DEF Inspecting, Typed

LEMMA HitStep == ASSUME InspectOK, NEW i \in Inspectors, Hit(i) PROVE InspectOK'
<1>1. PICK n \in Cached(target[i]) :
            cache' = Append(Without(cache, target[i]), cache[n]) /\ Ends(i)
  BY DEF Hit
<1>2. Typed /\ Grows /\ UNCHANGED outside
  BY StandsStill DEF InspectOK, Hit, outside
<1>3. PICK T : cache \in Seq(T) /\ \A e \in T : Sound(e)
  BY DEF InspectOK, CacheOK
<1>4. n \in 1..Len(cache) /\ cache[n] \in T
  BY <1>3 DEF Cached
<1>5. Without(cache, target[i]) \in Seq(T)
  BY <1>3, KeptIs DEF Without
<1>6. cache' \in Seq(T) /\ \A e \in T : Sound(e)'
  BY <1>1, <1>2, <1>3, <1>4, <1>5, SoundStays
<1> QED
  BY <1>1, <1>2, <1>6, EndsStep DEF CacheOK

LEMMA MissStep == ASSUME InspectOK, NEW i \in Inspectors, Miss(i) PROVE InspectOK'
<1>1. Typed /\ UNCHANGED outside /\ UNCHANGED <<target, start, read, changes>>
  BY DEF InspectOK, Miss
<1>2. pc[i] = "lookup" /\ pc'[i] = "admin" /\ target[i] \in Targets /\ changes[i] = 0
  BY <1>1 DEF Typed, Miss, Inspecting
<1>3. /\ pc' \in [Inspectors -> {"idle", "lookup", "call", "store"} \cup SlotNames]
      /\ \A j \in Inspectors \ {i} : pc'[j] = pc[j]
  BY <1>1 DEF Typed, Miss, SlotNames
<1>4. CacheOK'
  BY <1>1, CacheKept DEF Miss, Without
<1>5. Seen(i)'
  <2>1. UNCHANGED <<now, chain, behind, truth>>
    BY <1>1 DEF outside
  <2>2. Explains(chain, behind, i)'
    BY <1>2, <2>1 DEF Explains, Done
  <2>3. now \in start[i]..now /\ RightNow(target[i], chain, behind) \in truth[target[i]][now]
    <3>1. now \in Nat /\ start[i] \in Nat /\ start[i] <= now
      BY <1>1, TimeIs DEF Typed
    <3>2. now \in start[i]..now
      BY <3>1
    <3> QED
      BY <1>2, <3>2 DEF InspectOK
  <2>4. PICK c, b : c = chain /\ b = behind
    OBVIOUS
  <2>5. Explains(c, b, i)'
    BY <2>1, <2>2, <2>4 DEF Explains
  <2> QED
    BY <1>1, <2>1, <2>3, <2>4, <2>5 DEF Seen
<1>6. start'[i] <= now /\ read'[i] = [s \in SlotNames \cup {"answer"} |-> read'[i][s]]
  BY <1>1 DEF Typed
<1> QED
  BY <1>1, <1>2, <1>3, <1>4, <1>5, <1>6, OwnStep DEF Inspecting, Typed

\* A read goes on to the next slot, or to the call.
LEMMA ReadSlotIs ==
    ASSUME NEW i \in Inspectors, ReadSlot(i)
    PROVE  \E s \in SlotNames, p \in (SlotNames \cup {"call"}) \ {"admin"} :
              /\ pc[i] = s
              /\ read' = [read EXCEPT ![i][s] = chain[target[i]][s]]
              /\ pc' = [pc EXCEPT ![i] = p]
              /\ Done(p) = Done(s) \cup {s}
<1>1. PICK n \in 1..Len(Slots) :
          /\ pc[i] = Slots[n]
          /\ read' = [read EXCEPT ![i][Slots[n]] = chain[target[i]][Slots[n]]]
          /\ pc' = [pc EXCEPT ![i] = IF n < Len(Slots) THEN Slots[n + 1] ELSE "call"]
  BY DEF ReadSlot
<1>2. /\ Len(Slots) = 4
      /\ Slots[1] = "admin" /\ Slots[2] = "implementation" /\ Slots[3] = "beacon"
      /\ Slots[4] = "uups"
  BY DEF Slots
<1>3. /\ Done("implementation") = Done("admin") \cup {"admin"}
      /\ Done("beacon") = Done("implementation") \cup {"implementation"}
      /\ Done("uups") = Done("beacon") \cup {"beacon"}
      /\ Done("call") = Done("uups") \cup {"uups"}
  BY DEF Done, SlotNames
<1> DEFINE Reads(s, p) == /\ pc[i] = s
                          /\ read' = [read EXCEPT ![i][s] = chain[target[i]][s]]
                          /\ pc' = [pc EXCEPT ![i] = p]
<1>4. PICK s, p : s = Slots[n] /\ p = IF n < Len(Slots) THEN Slots[n + 1] ELSE "call"
  OBVIOUS
<1>5. Reads(s, p)
  BY <1>1, <1>4
<1>6. <<s, p>> \in {<<"admin", "implementation">>, <<"implementation", "beacon">>,
                    <<"beacon", "uups">>, <<"uups", "call">>}
  <2>1. n \in 1..4
    BY <1>2
  <2> QED
    BY <1>2, <1>4, <2>1
<1>7. Done(p) = Done(s) \cup {s}
  BY <1>3, <1>6
<1>8. s \in SlotNames /\ p \in (SlotNames \cup {"call"}) \ {"admin"}
  BY <1>6 DEF SlotNames
<1> QED
  BY <1>5, <1>7, <1>8

LEMMA ReadSlotStep == ASSUME InspectOK, NEW i \in Inspectors, ReadSlot(i) PROVE InspectOK'
<1>1. /\ Typed /\ Grows /\ UNCHANGED outside /\ UNCHANGED <<cache, target, start, changes>>
      /\ UNCHANGED <<now, chain, behind, truth>>
  BY StandsStill DEF InspectOK, ReadSlot, outside
<1>2. PICK s \in SlotNames, p \in (SlotNames \cup {"call"}) \ {"admin"} :
            /\ pc[i] = s
            /\ read' = [read EXCEPT ![i][s] = chain[target[i]][s]]
            /\ pc' = [pc EXCEPT ![i] = p]
            /\ Done(p) = Done(s) \cup {s}
  BY ReadSlotIs
<1>3. /\ s \notin {"idle", "lookup", "store"} /\ p \notin {"idle", "lookup", "store"}
      /\ Inspecting(i) /\ target[i] \in Targets
  BY <1>1, <1>2 DEF Typed, Inspecting, SlotNames
<1>4. /\ pc' \in [Inspectors -> {"idle", "lookup", "call", "store"} \cup SlotNames]
      /\ pc'[i] = p
      /\ \A j \in Inspectors \ {i} : pc'[j] = pc[j]
  BY <1>1, <1>2 DEF Typed
<1>5. /\ read' = [j \in Inspectors |-> read'[j]]
      /\ read'[i] = [read[i] EXCEPT ![s] = chain[target[i]][s]]
      /\ \A j \in Inspectors \ {i} : read'[j] = read[j]
  BY <1>1, <1>2 DEF Typed
<1>6. /\ read'[i] = [k \in SlotNames \cup {"answer"} |-> read'[i][k]]
      /\ read'[i][s] = chain[target[i]][s]
      /\ \A k \in SlotNames \ {s} : read'[i][k] = read[i][k]
  <2>1. read[i] = [k \in SlotNames \cup {"answer"} |-> read[i][k]]
    BY <1>1 DEF Typed
  <2> QED
    BY <1>5, <2>1
<1>7. CacheOK'
  BY <1>1, CacheStays DEF InspectOK
<1>8. ASSUME changes[i] < 2 PROVE Seen(i)'
  <2>1. PICK c, b :
            /\ \E n \in start[i]..now : RightNow(target[i], c, b) \in truth[target[i]][n]
            /\ changes[i] = 0 => c = chain /\ b = behind
            /\ Explains(c, b, i)
    BY <1>3, <1>8 DEF InspectOK, Seen
  <2>2. s \notin Done(s) /\ s \in SlotNames /\ Done(s) \subseteq SlotNames
    BY DEF Done, SlotNames
  <2>3. chain[target[i]][s] = c[target[i]][s]
    BY <1>2, <2>1, <2>2 DEF Explains
  <2>4. \A k \in Done(p) : read'[i][k] = c[target[i]][k]
    BY <1>2, <1>6, <2>1, <2>2, <2>3 DEF Explains
  <2>5. \A k \in SlotNames \ Done(p) : chain[target[i]][k] = c[target[i]][k]
    BY <1>2, <2>1 DEF Explains
  <2>6. chain[target[i]].facet = c[target[i]].facet /\ behind = b
    BY <1>2, <1>3, <2>1 DEF Explains
  <2>7. Explains(c, b, i)'
    BY <1>1, <1>3, <1>4, <2>4, <2>5, <2>6 DEF Explains
  <2> QED
    BY <1>1, <2>1, <2>7 DEF Seen
<1>9. start'[i] <= now
  BY <1>1 DEF Typed
<1> QED
  BY <1>1, <1>3, <1>4, <1>5, <1>6, <1>7, <1>8, <1>9, OwnStep DEF Inspecting, Typed

LEMMA CallStep == ASSUME InspectOK, NEW i \in Inspectors, Call(i) PROVE InspectOK'
<1>1. /\ Typed /\ Grows /\ UNCHANGED outside /\ UNCHANGED <<cache, target, start, changes>>
      /\ UNCHANGED <<now, chain, behind, truth>>
  BY StandsStill DEF InspectOK, Call, outside
<1>2. pc[i] = "call" /\ Inspecting(i) /\ target[i] \in Targets
  BY <1>1 DEF Typed, Call, Inspecting
<1>3. /\ pc' \in [Inspectors -> {"idle", "lookup", "call", "store"} \cup SlotNames]
      /\ pc'[i] = "store"
      /\ \A j \in Inspectors \ {i} : pc'[j] = pc[j]
  BY <1>1 DEF Typed, Call
<1> DEFINE answer == Answer(target[i], read[i], chain, behind)
<1>4. /\ read' = [j \in Inspectors |-> read'[j]]
      /\ read'[i] = [read[i] EXCEPT !.answer = answer]
      /\ \A j \in Inspectors \ {i} : read'[j] = read[j]
  BY <1>1 DEF Typed, Call
<1> HIDE DEF answer
<1>5. /\ read'[i] = [k \in SlotNames \cup {"answer"} |-> read'[i][k]]
      /\ read'[i].answer = answer
      /\ \A k \in SlotNames : read'[i][k] = read[i][k]
  <2>1. read[i] = [k \in SlotNames \cup {"answer"} |-> read[i][k]] /\ "answer" \notin SlotNames
    BY <1>1 DEF Typed, SlotNames
  <2> QED
    BY <1>4, <2>1
<1>6. CacheOK'
  BY <1>1, CacheStays DEF InspectOK
<1>7. ASSUME changes[i] < 2 PROVE Seen(i)'
  <2>1. PICK c, b :
            /\ \E n \in start[i]..now : RightNow(target[i], c, b) \in truth[target[i]][n]
            /\ changes[i] = 0 => c = chain /\ b = behind
            /\ Explains(c, b, i)
    BY <1>2, <1>7 DEF InspectOK, Seen
  <2>2. Done("call") = SlotNames /\ Done("store") = SlotNames
    BY DEF Done
  <2>3. \A k \in SlotNames : read'[i][k] = c[target[i]][k]
    BY <1>2, <1>5, <2>1, <2>2 DEF Explains
  <2>4. chain[target[i]].facet = c[target[i]].facet /\ behind = b
    BY <1>2, <2>1 DEF Explains
  <2>5. answer = Answer(target[i], read'[i], c, b)
    BY <1>5, <2>4, AnswerOf DEF answer
  <2>6. Explains(c, b, i)'
    BY <1>1, <1>3, <1>5, <2>2, <2>3, <2>5 DEF Explains
  <2> QED
    BY <1>1, <2>1, <2>6 DEF Seen
<1>8. start'[i] <= now
  BY <1>1 DEF Typed
<1> QED
  BY <1>1, <1>2, <1>3, <1>4, <1>5, <1>6, <1>7, <1>8, OwnStep DEF Inspecting, Typed

LEMMA FailStep == ASSUME InspectOK, NEW i \in Inspectors, Fail(i) PROVE InspectOK'
<1>1. Typed /\ Grows /\ UNCHANGED outside
  BY StandsStill DEF InspectOK, Fail, outside
<1>2. CacheOK'
  BY <1>1, CacheStays DEF InspectOK, Fail
<1> QED
  BY <1>1, <1>2, EndsStep DEF Fail

\* What an inspection that saw one change at most has put together was right while it ran.
LEMMA StoredIsRight ==
    ASSUME InspectOK, NEW i \in Inspectors, pc[i] = "store", changes[i] < 2
    PROVE  /\ target[i] \in Targets
           /\ \E n \in 0..now : /\ n >= start[i]
                               /\ Resolution(target[i], read[i]) \in truth[target[i]][n]
<1>1. Inspecting(i) /\ Typed
  BY DEF InspectOK, Inspecting
<1>2. PICK c, b :
          /\ \E n \in start[i]..now : RightNow(target[i], c, b) \in truth[target[i]][n]
          /\ Explains(c, b, i)
  BY <1>1 DEF InspectOK, Seen
<1>3. \A s \in SlotNames : read[i][s] = c[target[i]][s]
  BY <1>2 DEF Explains, Done
<1>4. read[i].answer = Answer(target[i], read[i], c, b)
  BY <1>2 DEF Explains
<1>5. Resolution(target[i], read[i]) = RightNow(target[i], c, b)
  BY <1>3, <1>4, ReadsAgree
<1>6. PICK n \in start[i]..now : RightNow(target[i], c, b) \in truth[target[i]][n]
  BY <1>2
<1>7. n \in 0..now /\ n >= start[i]
  BY <1>1, TimeIs DEF Typed
<1>8. target[i] \in Targets
  BY <1>1 DEF Typed
<1> QED
  BY <1>5, <1>6, <1>7, <1>8

LEMMA StoreStep == ASSUME InspectOK, NEW i \in Inspectors, Store(i) PROVE InspectOK'
<1> DEFINE e == [target |-> target[i], resolution |-> Resolution(target[i], read[i]),
                 expires |-> start[i] + TTL, torn |-> changes[i] > 1]
<1>1. /\ pc[i] = "store" /\ Ends(i) /\ UNCHANGED outside
      /\ cache' = Trim(Purged(Append(Without(cache, e.target), e), start[i]))
  BY DEF Store
<1>2. Typed /\ Grows
  BY <1>1, StandsStill DEF InspectOK, outside
<1>3. Sound(e)
  <2>1. target[i] \in Targets /\ start[i] \in Nat /\ changes[i] \in 0..2 /\ TTL \in Nat
    BY <1>1, <1>2, InspectAssumption DEF Typed
  <2>2. /\ e.target = target[i] /\ e.resolution = Resolution(target[i], read[i])
        /\ e.expires = start[i] + TTL
    OBVIOUS
  <2>3. e.torn <=> changes[i] > 1
    OBVIOUS
  <2> HIDE DEF e
  <2>4. e.expires \in Int /\ e.expires - TTL = start[i]
    BY <2>1, <2>2
  <2>5. ASSUME ~e.torn PROVE RightSince(e, e.expires - TTL)
    <3>1. changes[i] < 2
      BY <2>1, <2>3, <2>5
    <3> QED
      BY <1>1, <2>2, <2>4, <3>1, StoredIsRight DEF RightSince
  <2> QED
    BY <2>1, <2>2, <2>4, <2>5 DEF Sound
<1>4. PICK T : cache \in Seq(T) /\ \A f \in T : Sound(f)
  BY DEF InspectOK, CacheOK
<1> DEFINE U == T \cup {e}
<1> HIDE DEF e
<1>5. Without(cache, e.target) \in Seq(T)
  BY <1>4, KeptIs DEF Without
<1>6. Append(Without(cache, e.target), e) \in Seq(U)
  BY <1>5
<1> HIDE DEF U
<1>7. Purged(Append(Without(cache, e.target), e), start[i]) \in Seq(U)
  BY <1>6, KeptIs DEF Purged
<1>8. cache' \in Seq(U)
  BY <1>1, <1>7, TrimIs
<1>9. \A f \in U : Sound(f)'
  BY <1>2, <1>3, <1>4, SoundStays DEF U
<1>10. CacheOK'
  BY <1>8, <1>9 DEF CacheOK
<1> QED
  BY <1>1, <1>10, EndsStep

-----------------------------------------------------------------------------
(***************************************************************************)
(* The theorem                                                             *)
(***************************************************************************)

LEMMA InspectStep == InspectOK /\ [Next]_vars => InspectOK'
<1> SUFFICES ASSUME InspectOK, [Next]_vars PROVE InspectOK'
  OBVIOUS
<1>1. CASE Tick
  BY <1>1, TickStep
<1>2. CASE Upgrade
  BY <1>2, UpgradeStep
<1>3. ASSUME NEW i \in Inspectors,
             \/ \E t \in Targets : Enter(i, t)
             \/ Hit(i) \/ Miss(i) \/ ReadSlot(i) \/ Call(i) \/ Fail(i) \/ Store(i)
      PROVE  InspectOK'
  BY <1>3, EnterStep, HitStep, MissStep, ReadSlotStep, CallStep, FailStep, StoreStep
<1>4. CASE UNCHANGED vars
  <2>1. /\ Typed /\ Grows
        /\ UNCHANGED <<now, chain, behind, cache, pc, target, start, read, truth, changes>>
    BY <1>4, StandsStill DEF InspectOK, vars
  <2>2. Typed'
    BY <2>1 DEF Typed, Inspecting
  <2>3. CacheOK'
    BY <2>1, CacheStays DEF InspectOK
  <2>4. \A t \in Targets : RightNow(t, chain, behind)' \in truth'[t][now']
    BY <2>1 DEF InspectOK
  <2>5. ASSUME NEW i \in Inspectors, Inspecting(i)', changes'[i] < 2 PROVE Seen(i)'
    <3>1. Inspecting(i) /\ changes[i] < 2 /\ pc[i] # "idle"
      BY <2>1, <2>5 DEF Inspecting
    <3>2. Seen(i)
      BY <3>1 DEF InspectOK
    <3> QED
      BY <2>1, <3>1, <3>2, SeenStays
  <2> QED
    BY <2>2, <2>3, <2>4, <2>5 DEF InspectOK
<1> QED
  BY <1>1, <1>2, <1>3, <1>4 DEF Next

\* The theorem of ProxyInspect: what a call returns was right while it read, or, from the
\* cache, less than TTL before it began or since, unless the chain changed twice within one
\* inspection.
THEOREM FreshHolds == Spec => []Fresh
<1>1. Init => InspectOK
  BY InitOK
<1>2. InspectOK /\ [Next]_vars => InspectOK'
  BY InspectStep
<1>3. InspectOK => Fresh
  <2> SUFFICES ASSUME InspectOK, NEW i \in Inspectors
               PROVE  /\ pc[i] = "store" /\ changes[i] < 2 =>
                            RightSince([target |-> target[i],
                                        resolution |-> Resolution(target[i], read[i])], start[i])
                      /\ pc[i] = "lookup" =>
                            \A n \in Cached(target[i]) :
                               start[i] < cache[n].expires /\ ~cache[n].torn =>
                                  RightSince(cache[n], start[i] - TTL + 1)
    BY DEF Fresh
  <2>1. ASSUME pc[i] = "store", changes[i] < 2
        PROVE  RightSince([target |-> target[i],
                           resolution |-> Resolution(target[i], read[i])], start[i])
    BY <2>1, StoredIsRight DEF RightSince
  <2>2. ASSUME NEW n \in Cached(target[i]), start[i] < cache[n].expires, ~cache[n].torn
        PROVE  RightSince(cache[n], start[i] - TTL + 1)
    <3>1. PICK T : cache \in Seq(T) /\ \A e \in T : Sound(e)
      BY DEF InspectOK, CacheOK
    <3>2. cache[n] \in T
      BY <3>1 DEF Cached
    <3>3. Sound(cache[n])
      BY <3>1, <3>2
    <3>4. PICK m \in 0..now : /\ m >= cache[n].expires - TTL
                              /\ cache[n].resolution \in truth[cache[n].target][m]
      BY <2>2, <3>3 DEF Sound, RightSince
    <3>5. /\ cache[n].expires \in Int /\ start[i] \in Nat /\ TTL \in Nat
          /\ m \in Int
      BY <3>3, InspectAssumption DEF Sound, InspectOK, Typed
    <3>6. m >= start[i] - TTL + 1
      BY <2>2, <3>4, <3>5
    <3> QED
      BY <3>4, <3>6 DEF RightSince
  <2> QED
    BY <2>1, <2>2
<1> QED
  BY <1>1, <1>2, <1>3, PTL DEF Spec

=============================================================================
