----------------------------- MODULE ProxyInspect -----------------------------
(***************************************************************************)
(* ProxyPiercer.inspect_target of lirix/layers/l3_proxy_piercer.py: what a *)
(* proxy contract points at, read slot by slot while the chain moves on,   *)
(* and kept in a cache that threads share.                                 *)
(*                                                                         *)
(* _inspection_lock covers the lookup and the store but not the reads in   *)
(* between, nor the look at the clock before it.  Addresses are model      *)
(* values, None stands for an empty slot and for a call that returned no   *)
(* address.                                                                *)
(***************************************************************************)
EXTENDS Integers, Sequences, FiniteSets, Selection

CONSTANTS
    Targets,     \* contracts inspected
    Upgradable,  \* the slots that change: pairs <<target, slot or "facet">>
    Beacons,     \* beacon contracts
    Impls,       \* implementation contracts
    Admin,       \* the content of an admin slot that is set
    None,
    Inspectors,  \* threads
    Born,        \* what the targets and the beacons may hold at the start
    TTL,         \* INSPECTION_CACHE_TTL_SECONDS
    MaxEntries,  \* INSPECTION_CACHE_MAX_ENTRIES
    MaxTime,     \* bound on the clock
    MaxChanges   \* bound on the changes of slots

Slots == <<"admin", "implementation", "beacon", "uups">>

\* what a slot may hold
Holds ==
    [s \in {"admin", "implementation", "beacon", "uups"} |->
        {None} \cup CASE s = "admin" -> {Admin}
                      [] s = "beacon" -> Beacons
                      [] OTHER -> Impls]

Contract == [admin : Holds["admin"], implementation : Holds["implementation"],
             beacon : Holds["beacon"], uups : Holds["uups"], facet : {None} \cup Impls]

ASSUME InspectAssumption ==
    /\ Upgradable \subseteq Targets \X (DOMAIN Holds \cup {"facet"})
    /\ Born \subseteq [Targets -> Contract] \X [Beacons -> {None} \cup Impls]
    /\ {TTL, MaxEntries} \subseteq Nat \ {0}
    /\ {MaxTime, MaxChanges} \subseteq Nat

VARIABLES
    now,      \* time.monotonic()
    chain,    \* chain[t]: slots of t, and its answer to facetAddress
    behind,   \* behind[b]: the answer of beacon b to implementation()
    cache,    \* _inspection_cache, least recently used first
    pc,       \* pc[i]: "idle", "lookup", a slot to read, "call", "store"
    target,   \* target[i]: the target of the call, None between calls
    start,    \* start[i]: the clock when it began
    read,     \* read[i]: what it has read
    truth,    \* truth[t][n]: the resolutions of t that were right at time n
    changes,  \* changes[i]: changes while the inspection reads, 2 for more
    upgrades  \* changes so far

vars == <<now, chain, behind, cache, pc, target, start, read, truth, changes,
          upgrades>>

outside == <<now, chain, behind, truth, upgrades>>

Nothing == [admin |-> None, implementation |-> None, beacon |-> None, uups |-> None,
            answer |-> None]

-----------------------------------------------------------------------------
(***************************************************************************)
(* Resolution                                                              *)
(***************************************************************************)

\* Python's a or b
FirstOf(a, b) == IF a # None THEN a ELSE b

\* r: the slots and the answer of the beacon, or of the facet, that was asked
Resolution(t, r) ==
    LET kind == CASE r.beacon # None /\ r.answer # None -> "beacon"
                  [] r.beacon # None -> "beacon_unresolved"
                  [] r.implementation # None -> "eip1967"
                  [] r.uups # None -> "uups"
                  [] r.answer # None -> "diamond"
                  [] r.admin # None -> "admin_only_proxy"
                  [] OTHER -> "direct"
        resolved == CASE kind \in {"beacon", "diamond"} -> r.answer
                      [] kind = "beacon_unresolved" ->
                            FirstOf(FirstOf(r.implementation, r.uups), t)
                      [] kind = "eip1967" -> r.implementation
                      [] kind = "uups" -> r.uups
                      [] OTHER -> t
    IN  [proxy_kind |-> kind, resolved_target |-> resolved, admin |-> r.admin,
         implementation |-> IF kind = "diamond" THEN r.answer ELSE r.implementation]

\* who is asked once the slots are read: None, a beacon, or the target
AskedOf(t, r) ==
    IF r.beacon # None THEN r.beacon
    ELSE IF FirstOf(r.implementation, r.uups) = None THEN t ELSE None

Answer(t, r, c, b) ==
    CASE AskedOf(t, r) = None -> None
      [] AskedOf(t, r) = t -> c[t].facet
      [] OTHER -> b[r.beacon]

\* the resolution of t by a chain that stands still
RightNow(t, c, b) ==
    LET r == [s \in {"admin", "implementation", "beacon", "uups"} |-> c[t][s]]
        a == Answer(t, r, c, b)
    IN  Resolution(t, [admin |-> r.admin, implementation |-> r.implementation,
                       beacon |-> r.beacon, uups |-> r.uups, answer |-> a])

-----------------------------------------------------------------------------
Init ==
    /\ now = 0
    /\ \E born \in Born : chain = born[1] /\ behind = born[2]
    /\ cache = <<>>
    /\ pc = [i \in Inspectors |-> "idle"]
    /\ target = [i \in Inspectors |-> None]
    /\ start = [i \in Inspectors |-> 0]
    /\ read = [i \in Inspectors |-> Nothing]
    /\ truth = [t \in Targets |->
                   [n \in 0..MaxTime |-> IF n = 0 THEN {RightNow(t, chain, behind)} ELSE {}]]
    /\ changes = [i \in Inspectors |-> 0]
    /\ upgrades = 0

Tick ==
    /\ now < MaxTime
    /\ now' = now + 1
    /\ truth' = [t \in Targets |-> [truth[t] EXCEPT ![now + 1] = {RightNow(t, chain, behind)}]]
    /\ UNCHANGED <<chain, behind, cache, pc, target, start, read, changes,
                   upgrades>>

Inspecting(i) == pc[i] \notin {"idle", "lookup"}

\* a change on chain, which the running inspections may or may not see
Changed(c, b) ==
    /\ chain' = c
    /\ behind' = b
    /\ upgrades' = upgrades + 1
    /\ truth' = [t \in Targets |-> [truth[t] EXCEPT ![now] = @ \cup {RightNow(t, c, b)}]]
    /\ changes' = [i \in Inspectors |->
                      IF Inspecting(i) /\ changes[i] < 2 THEN changes[i] + 1 ELSE changes[i]]
    /\ UNCHANGED <<now, cache, pc, target, start, read>>

\* a transaction sets one slot of a proxy, its facet, or what a beacon points at
Upgrade ==
    /\ upgrades < MaxChanges
    /\ \/ \E t \in Targets, s \in DOMAIN Holds \cup {"facet"} :
             /\ <<t, s>> \in Upgradable
             /\ \E v \in (IF s = "facet" THEN {None} \cup Impls ELSE Holds[s]) \ {chain[t][s]} :
                    Changed([chain EXCEPT ![t][s] = v], behind)
       \/ \E b \in Beacons, v \in {None} \cup Impls :
             v # behind[b] /\ Changed(chain, [behind EXCEPT ![b] = v])

-----------------------------------------------------------------------------
(***************************************************************************)
(* The cache                                                               *)
(***************************************************************************)

Cached(t) == {n \in 1..Len(cache) : cache[n].target = t}

Without(c, t) == Kept(c, {n \in 1..Len(c) : c[n].target # t})

\* _purge_stale_inspection_cache_locked, by the clock of the inspection that stores
Purged(c, at) == Kept(c, {n \in 1..Len(c) : c[n].expires > at})

Trim(c) == IF Len(c) > MaxEntries THEN SubSeq(c, Len(c) - MaxEntries + 1, Len(c)) ELSE c

-----------------------------------------------------------------------------
(***************************************************************************)
(* inspect_target                                                          *)
(***************************************************************************)

\* the call returns, or raises
Ends(i) ==
    /\ pc' = [pc EXCEPT ![i] = "idle"]
    /\ target' = [target EXCEPT ![i] = None]
    /\ start' = [start EXCEPT ![i] = 0]
    /\ read' = [read EXCEPT ![i] = Nothing]
    /\ changes' = [changes EXCEPT ![i] = 0]

\* the clock is read before the lock is taken
Enter(i, t) ==
    /\ pc[i] = "idle"
    /\ pc' = [pc EXCEPT ![i] = "lookup"]
    /\ target' = [target EXCEPT ![i] = t]
    /\ start' = [start EXCEPT ![i] = now]
    /\ UNCHANGED <<outside, cache, read, changes>>

\* a live entry: it becomes the most recent one and keeps its expiry
Hit(i) ==
    /\ pc[i] = "lookup"
    /\ \E n \in Cached(target[i]) :
          /\ start[i] < cache[n].expires
          /\ cache' = Append(Without(cache, target[i]), cache[n])
          /\ Ends(i)
    /\ UNCHANGED outside

\* no entry, or a stale one, which is dropped
Miss(i) ==
    /\ pc[i] = "lookup"
    /\ \A n \in Cached(target[i]) : start[i] >= cache[n].expires
    /\ cache' = Without(cache, target[i])
    /\ pc' = [pc EXCEPT ![i] = "admin"]
    /\ UNCHANGED <<outside, target, start, read, changes>>

\* _read_slot_address, one slot after the other
ReadSlot(i) ==
    /\ \E n \in 1..Len(Slots) :
          /\ pc[i] = Slots[n]
          /\ read' = [read EXCEPT ![i][Slots[n]] = chain[target[i]][Slots[n]]]
          /\ pc' = [pc EXCEPT ![i] = IF n < Len(Slots) THEN Slots[n + 1] ELSE "call"]
    /\ UNCHANGED <<outside, cache, target, start, changes>>

\* _resolve_beacon_implementation, or _resolve_diamond_facet; a revert answers None
Call(i) ==
    /\ pc[i] = "call"
    /\ read' = [read EXCEPT ![i].answer = Answer(target[i], read[i], chain, behind)]
    /\ pc' = [pc EXCEPT ![i] = "store"]
    /\ UNCHANGED <<outside, cache, target, start, changes>>

\* the endpoint fails: LirixSecurityException or the error itself, nothing is stored
Fail(i) ==
    /\ Inspecting(i)
    /\ pc[i] # "store"
    /\ pc[i] = "call" => AskedOf(target[i], read[i]) # None
    /\ Ends(i)
    /\ UNCHANGED <<outside, cache>>

MUT_Store(i) ==
    LET e == [target |-> target[i], resolution |-> Resolution(target[i], read[i]),
              expires |-> now + TTL, torn |-> changes[i] > 1]
    IN  /\ pc[i] = "store"
        /\ cache' = Trim(Purged(Append(Without(cache, e.target), e), start[i]))
        /\ Ends(i)
        /\ UNCHANGED outside

\* _store_inspection_cache: the expiry counts from before the reads
Store(i) ==
    LET e == [target |-> target[i], resolution |-> Resolution(target[i], read[i]),
              expires |-> start[i] + TTL, torn |-> changes[i] > 1]
    IN  /\ pc[i] = "store"
        /\ cache' = Trim(Purged(Append(Without(cache, e.target), e), start[i]))
        /\ Ends(i)
        /\ UNCHANGED outside

Next ==
    \/ Tick
    \/ Upgrade
    \/ \E i \in Inspectors :
        \/ \E t \in Targets : Enter(i, t)
        \/ Hit(i)
        \/ Miss(i)
        \/ ReadSlot(i)
        \/ Call(i)
        \/ Fail(i)
        \/ Store(i)

Spec == Init /\ [][Next]_vars

-----------------------------------------------------------------------------
(***************************************************************************)
(* Properties                                                              *)
(***************************************************************************)

RightSince(e, from) ==
    \E n \in 0..now : n >= from /\ e.resolution \in truth[e.target][n]

\* What a call returns was what the chain said during the call if it reads it, and at a
\* time less than TTL before the call, or since, if the cache serves it: the four slots
\* and the answer are read apart with the lock free meanwhile, and the entry may come
\* late, from another thread.  It takes two changes within one inspection to return a
\* resolution that never was.
Fresh ==
    \A i \in Inspectors :
        /\ pc[i] = "store" /\ changes[i] < 2 =>
              RightSince([target |-> target[i], resolution |-> Resolution(target[i], read[i])],
                         start[i])
        /\ pc[i] = "lookup" =>
              \A n \in Cached(target[i]) :
                  start[i] < cache[n].expires /\ ~cache[n].torn =>
                      RightSince(cache[n], start[i] - TTL + 1)

=============================================================================
