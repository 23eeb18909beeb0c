------------------------------- MODULE AbiCache -------------------------------
(***************************************************************************)
(* AbiLRUCache of lirix/layers/l3_proxy_piercer.py, and the half of        *)
(* ProxyPiercer.fetch_abi that uses it: caches, each with a memory and a   *)
(* janitor thread of its own, over one SQLite file.                        *)
(*                                                                         *)
(* Each method holds the cache's _lock throughout and is one action; the   *)
(* caches share no lock, only the rows.  fetch_abi sweeps, looks up, asks  *)
(* the explorer with no lock held, and stores.  A value is known by the    *)
(* order in which it was stored; touched_at, which nothing reads but the   *)
(* throttle of its own update, is left out.                                *)
(***************************************************************************)
EXTENDS Integers, FiniteSets, SequencesExt, Selection

CONSTANTS
    Caches,     \* AbiLRUCache instances (processes) on the same file
    NoKey,      \* not an address
    Keys,       \* contract addresses
    Users,      \* threads that call fetch_abi
    CacheOf,    \* CacheOf[t]: the instance thread t uses
    MaxEntries, \* max_entries
    TTL,        \* ttl_seconds
    Faulty,     \* the caches whose DELETE of stale rows may find the file locked
    MaxTime,    \* bound on the clock
    MaxStores   \* bound on the number of stores

ASSUME CacheAssumption ==
    /\ CacheOf \in [Users -> Caches]
    /\ {MaxEntries, TTL} \subseteq Nat \ {0}
    /\ {MaxTime, MaxStores} \subseteq Nat
    /\ Faulty \subseteq Caches

VARIABLES
    now,      \* time_fn()
    stores,   \* how many values have been stored
    memory,   \* memory[c]: the entries of _memory, one of a key at most
    order,    \* order[c]: its keys, least recently used first
    db,       \* db[k]: the set of rows of address k, one at most
    closed,   \* _closed
    janitor,  \* janitor[c]: is the thread of _invalidation_loop alive?
    pc,       \* pc[t]: where t is in fetch_abi
    key,      \* key[t]: the resolved target of its call, NoKey between calls
    known     \* known[c][k]: how many stores the last value of k served by c, or the
              \* last invalidate(k) on c, is behind: c may never serve an older one; 0s once c is closed

vars == <<now, stores, memory, order, db, closed, janitor, pc, key, known>>

table == <<memory, order, db>>
calls == <<pc, key>>

Entry == [key : Keys, stamp : 1..MaxStores, expires : 0..(MaxTime + TTL)]

Init ==
    /\ now = 0
    /\ stores = 0
    /\ memory = [c \in Caches |-> {}]
    /\ order = [c \in Caches |-> <<>>]
    /\ db = [k \in Keys |-> {}]
    /\ closed = [c \in Caches |-> FALSE]
    /\ janitor = [c \in Caches |-> TRUE]
    /\ pc = [t \in Users |-> "idle"]
    /\ key = [t \in Users |-> NoKey]
    /\ known = [c \in Caches |-> [k \in Keys |-> 0]]

Tick ==
    /\ now < MaxTime
    /\ now' = now + 1
    /\ UNCHANGED <<stores, table, closed, janitor, calls, known>>

-----------------------------------------------------------------------------
(***************************************************************************)
(* What the methods do to memory and file                                  *)
(***************************************************************************)

\* _is_stale
Stale(e) == e.expires <= now

Cached(c, k) == {e \in memory[c] : e.key = k}

Without(entries, k) == {e \in entries : e.key # k}

MUT_Trim(keys) == keys

\* the least recently used key goes first; at most one is too many
Trim(keys) == IF Len(keys) > MaxEntries THEN Tail(keys) ELSE keys

\* what is left of keys when those gone are deleted
Left(keys, gone) == Kept(keys, {n \in 1..Len(keys) : keys[n] \notin gone})

\* e moves to the recent end, or is inserted there
Remember(c, e) ==
    LET kept == Trim(Append(Left(order[c], {e.key}), e.key))
    IN  /\ order' = [order EXCEPT ![c] = kept]
        /\ memory' = [memory EXCEPT ![c] = {f \in Without(@, e.key) \cup {e} : f.key \in ToSet(kept)}]

Forget(c, keys) == order' = [order EXCEPT ![c] = Left(@, keys)]

\* _purge_locked: the row goes whatever its own expiry
Purge(c, k) ==
    /\ memory' = [memory EXCEPT ![c] = Without(@, k)]
    /\ Forget(c, {k})
    /\ db' = [db EXCEPT ![k] = {}]

\* _invalidate_stale_locked
SweepMemory(c) ==
    /\ memory' = [memory EXCEPT ![c] = {e \in @ : ~Stale(e)}]
    /\ Forget(c, {e.key : e \in {e \in memory[c] : Stale(e)}})

MUT_SweepRows == db' = [k \in Keys |-> {e \in db[k] : e.expires >= now}]

SweepRows == db' = [k \in Keys |-> {e \in db[k] : ~Stale(e)}]

\* the entry get finds first: in memory, else in the file
Found(c, k) ==
    IF Cached(c, k) # {} THEN Cached(c, k) ELSE db[k]

MUT_Load(e) == [e EXCEPT !.expires = now + TTL]

\* a row comes into memory with the expiry it was stored with
Load(e) == e

-----------------------------------------------------------------------------
(***************************************************************************)
(* fetch_abi                                                               *)
(***************************************************************************)

\* fetch_abi once the target is resolved: invalidate_stale
Fetch(t, k) ==
    LET c == CacheOf[t]
    IN  /\ pc[t] = "idle"
        /\ ~closed[c]
        /\ SweepMemory(c)
        /\ \/ /\ SweepRows
              /\ pc' = [pc EXCEPT ![t] = "swept"]
              /\ key' = [key EXCEPT ![t] = k]
           \/ /\ c \in Faulty             \* sqlite3.OperationalError to the caller
              /\ UNCHANGED <<db, pc, key>>
        /\ UNCHANGED <<now, stores, closed, janitor, known>>

Returns(t) ==
    /\ pc' = [pc EXCEPT ![t] = "idle"]
    /\ key' = [key EXCEPT ![t] = NoKey]

\* get: a hit
Hit(t) ==
    LET c == CacheOf[t]
        k == key[t]
    IN  /\ pc[t] = "swept"
        /\ ~closed[c]
        /\ \E e \in Found(c, k) :
              /\ ~Stale(e)
              /\ Remember(c, Load(e))
              /\ known' = [known EXCEPT ![c][k] = e.stamp]
        /\ Returns(t)
        /\ UNCHANGED <<now, stores, db, closed, janitor>>

\* get: nothing there, or something stale, which is purged
Miss(t) ==
    LET c == CacheOf[t]
        k == key[t]
    IN  /\ pc[t] = "swept"
        /\ ~closed[c]
        /\ \/ Found(c, k) = {} /\ UNCHANGED table
           \/ \E e \in Found(c, k) : Stale(e) /\ Purge(c, k)
        /\ pc' = [pc EXCEPT ![t] = "fetching"]
        /\ UNCHANGED <<now, stores, closed, janitor, key, known>>

\* the explorer answered: set
Store(t) ==
    LET c == CacheOf[t]
        e == [key |-> key[t], stamp |-> stores + 1, expires |-> now + TTL]
    IN  /\ pc[t] = "fetching"
        /\ ~closed[c]
        /\ stores < MaxStores
        /\ stores' = stores + 1
        /\ Remember(c, e)
        /\ db' = [db EXCEPT ![e.key] = {e}]
        /\ known' = [known EXCEPT ![c][e.key] = e.stamp]
        /\ Returns(t)
        /\ UNCHANGED <<now, closed, janitor>>

\* the explorer raised, or the cache is closed: the call raises
Raise(t) ==
    /\ pc[t] = "fetching" \/ (pc[t] = "swept" /\ closed[CacheOf[t]])
    /\ Returns(t)
    /\ UNCHANGED <<now, stores, table, closed, janitor, known>>

-----------------------------------------------------------------------------
(***************************************************************************)
(* The other methods and the janitor                                       *)
(***************************************************************************)

MUT_Invalidate(c, k) ==
    /\ ~closed[c]
    /\ memory' = [memory EXCEPT ![c] = Without(@, k)]
    /\ Forget(c, {k})
    /\ known' = [known EXCEPT ![c][k] = stores + 1]
    /\ UNCHANGED <<now, stores, db, closed, janitor, calls>>

\* invalidate
Invalidate(c, k) ==
    /\ ~closed[c]
    /\ Purge(c, k)
    /\ known' = [known EXCEPT ![c][k] = stores + 1]
    /\ UNCHANGED <<now, stores, closed, janitor, calls>>

\* one round of _invalidation_loop; an error of the DELETE ends the thread
Sweep(c) ==
    /\ janitor[c]
    /\ ~closed[c]
    /\ SweepMemory(c)
    /\ \/ SweepRows /\ UNCHANGED janitor
       \/ /\ c \in Faulty
          /\ janitor' = [janitor EXCEPT ![c] = FALSE]
          /\ UNCHANGED db
    /\ UNCHANGED <<now, stores, closed, calls, known>>

\* the stop event is set, or the lock is taken once _closed is
Retire(c) ==
    /\ janitor[c]
    /\ closed[c]
    /\ janitor' = [janitor EXCEPT ![c] = FALSE]
    /\ UNCHANGED <<now, stores, table, closed, calls, known>>

\* close
Close(c) ==
    /\ ~closed[c]
    /\ closed' = [closed EXCEPT ![c] = TRUE]
    /\ known' = [known EXCEPT ![c] = [k \in Keys |-> 0]]
    /\ UNCHANGED <<now, stores, table, janitor, calls>>

Next ==
    \/ Tick
    \/ \E t \in Users :
        \/ \E k \in Keys : Fetch(t, k)
        \/ Hit(t)
        \/ Miss(t)
        \/ Store(t)
        \/ Raise(t)
    \/ \E c \in Caches :
        \/ \E k \in Keys : Invalidate(c, k)
        \/ Sweep(c)
        \/ Retire(c)
        \/ Close(c)

Spec == Init /\ [][Next]_vars

\* Event.wait returns after invalidation_interval_seconds, or at once when set.
Fairness == \A c \in Caches : WF_vars(Sweep(c)) /\ WF_vars(Retire(c))

FairSpec == Spec /\ Fairness

-----------------------------------------------------------------------------
(***************************************************************************)
(* Properties                                                              *)
(***************************************************************************)

TypeOK ==
    /\ now \in 0..MaxTime
    /\ stores \in 0..MaxStores
    /\ memory \in [Caches -> SUBSET Entry]
    /\ \A c \in Caches :
          /\ Len(order[c]) <= MaxEntries
          /\ {e.key : e \in memory[c]} = ToSet(order[c])
          /\ Cardinality(memory[c]) = Len(order[c])
    /\ db \in [Keys -> SUBSET Entry]
    /\ closed \in [Caches -> BOOLEAN]
    /\ janitor \in [Caches -> BOOLEAN]
    /\ pc \in [Users -> {"idle", "swept", "fetching"}]
    /\ key \in [Users -> Keys \cup {NoKey}]
    /\ known \in [Caches -> [Keys -> 0..(MaxStores + 1)]]

\* A cache never goes back: once it served a value, or invalidated an address, no
\* older value can reach it, neither from its memory nor from a row that another
\* process left or wrote, whatever was trimmed, purged or reloaded in between.
NeverBack ==
    \A c \in Caches, k \in Keys :
        \A e \in Cached(c, k) \cup db[k] : e.stamp >= known[c][k]

\* all copies of all values
Copies == (UNION {memory[c] : c \in Caches}) \cup (UNION {db[k] : k \in Keys})

\* An ABI lives TTL from when it was stored, not from when it was last loaded or
\* used: the copies of a value in the memories and the file expire together.
OneExpiry == \A e, f \in Copies : e.stamp = f.stamp => e.expires = f.expires

\* An expired row does not stay as long as some cache still has its janitor.
ExpiredRowsGo ==
    \A k \in Keys :
        (\E e \in db[k] : Stale(e)) ~> (\/ \A e \in db[k] : ~Stale(e)
                                        \/ \A c \in Caches : ~janitor[c])

=============================================================================
