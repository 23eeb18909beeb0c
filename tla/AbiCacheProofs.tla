---------------------------- MODULE AbiCacheProofs ----------------------------
(***************************************************************************)
(* No cache of AbiCache goes back, the copies of a value expire together,  *)
(* and _memory stays within its size, for any caches, keys, threads, sizes *)
(* and clock.                                                              *)
(***************************************************************************)
EXTENDS AbiCache, SelectionProofs

USE CacheAssumption

\* the part of the types that the proofs need: a thread that is past its lookup
\* knows its address, and a row holds a value of its own address
Typed ==
    /\ now \in 0..MaxTime
    /\ stores \in 0..MaxStores
    /\ memory \in [Caches -> SUBSET Entry]
    /\ db \in [Keys -> SUBSET Entry]
    /\ pc \in [Users -> {"idle", "swept", "fetching"}]
    /\ key \in [Users -> Keys \cup {NoKey}]
    /\ known \in [Caches -> [Keys -> 0..(MaxStores + 1)]]
    /\ \A t \in Users : pc[t] # "idle" => key[t] \in Keys
    /\ \A k \in Keys : \A e, f \in db[k] : e.key = k /\ e = f

\* nothing is newer than the last store, and what a cache knows no newer than the next
Issued ==
    /\ \A c \in Caches : \A e \in memory[c] : e.stamp <= stores
    /\ \A k \in Keys : \A e \in db[k] : e.stamp <= stores
    /\ \A c \in Caches, k \in Keys : known[c][k] <= stores + 1

\* no memory holds a value newer than the row, so that a hit in memory, which tells
\* the cache of an older value than the row's, leaves the row admissible
FileIsNewest ==
    \A c \in Caches, k \in Keys : \A e \in Cached(c, k), f \in db[k] : e.stamp <= f.stamp

IInv == Typed /\ Issued /\ FileIsNewest /\ OneExpiry /\ NeverBack

-----------------------------------------------------------------------------
(***************************************************************************)
(* What the helpers do                                                     *)
(***************************************************************************)

\* A memory that takes a value in holds nothing else that is new, and no other
\* value of the same address.
LEMMA RememberType ==
    ASSUME memory \in [Caches -> SUBSET Entry],
           NEW c \in Caches, NEW e \in Entry, Remember(c, e)
    PROVE  /\ memory' \in [Caches -> SUBSET Entry]
           /\ memory'[c] \subseteq Without(memory[c], e.key) \cup {e}
           /\ \A d \in Caches \ {c} : memory'[d] = memory[d]
  BY DEF Remember, Without

\* A sweep of a memory only removes.
LEMMA SweepMemoryType ==
    ASSUME memory \in [Caches -> SUBSET Entry], NEW c \in Caches, SweepMemory(c)
    PROVE  /\ memory' \in [Caches -> SUBSET Entry]
           /\ \A d \in Caches : memory'[d] \subseteq memory[d]
  BY DEF SweepMemory

LEMMA SweepRowsType ==
    ASSUME db \in [Keys -> SUBSET Entry], SweepRows
    PROVE  /\ db' \in [Keys -> SUBSET Entry]
           /\ \A k \in Keys : db'[k] \subseteq db[k]
  BY DEF SweepRows

\* So does a purge, and it leaves nothing of the address in the memory and the file.
LEMMA PurgeType ==
    ASSUME memory \in [Caches -> SUBSET Entry], db \in [Keys -> SUBSET Entry],
           NEW c \in Caches, NEW k \in Keys, Purge(c, k)
    PROVE  /\ memory' \in [Caches -> SUBSET Entry]
           /\ db' \in [Keys -> SUBSET Entry]
           /\ \A d \in Caches : memory'[d] \subseteq memory[d]
           /\ \A j \in Keys : db'[j] \subseteq db[j]
           /\ \A e \in memory'[c] : e.key # k
           /\ db'[k] = {}
  BY DEF Purge, Without

\* Where a step only removes copies, and tells no cache of anything, all stays well.
LEMMA ShrinkKeeps ==
    ASSUME IInv, Typed', stores' = stores,
           \A c \in Caches : memory'[c] \subseteq memory[c],
           \A k \in Keys : db'[k] \subseteq db[k],
           \A c \in Caches, k \in Keys : known'[c][k] \in {0, known[c][k]}
    PROVE  IInv'
<1> USE DEF IInv
<1>1. Issued'
  <2>1. \A c \in Caches, k \in Keys : known'[c][k] <= stores + 1
    <3> SUFFICES ASSUME NEW c \in Caches, NEW k \in Keys
                 PROVE  known'[c][k] <= stores + 1
      OBVIOUS
    <3>1. stores \in Nat /\ known[c][k] <= stores + 1
      BY DEF Issued, Typed
    <3>2. QED
      BY <3>1
  <2>2. QED
    BY <2>1 DEF Issued
<1>2. FileIsNewest'
  BY DEF FileIsNewest, Cached
<1>3. OneExpiry'
  BY DEF OneExpiry, Copies
<1>4. NeverBack'
  <2> SUFFICES ASSUME NEW c \in Caches, NEW k \in Keys,
                      NEW e \in (Cached(c, k) \cup db[k])'
               PROVE  e.stamp >= known'[c][k]
    BY DEF NeverBack
  <2>1. e \in Cached(c, k) \cup db[k]
    BY DEF Cached
  <2>2. e.stamp \in Nat /\ e.stamp >= known[c][k]
    BY <2>1 DEF NeverBack, Typed, Entry, Cached
  <2>3. QED
    BY <2>2
<1>5. QED
  BY <1>1, <1>2, <1>3, <1>4

-----------------------------------------------------------------------------
(***************************************************************************)
(* The actions                                                             *)
(***************************************************************************)

\* An invalidation tells one cache of a value still to come: the file has no row of
\* the address left, and the memory no entry.
LEMMA InvalidateKeeps ==
    ASSUME IInv, NEW c \in Caches, NEW k \in Keys, Invalidate(c, k)
    PROVE  IInv'
<1> USE DEF IInv
<1>1. /\ memory' \in [Caches -> SUBSET Entry]
      /\ db' \in [Keys -> SUBSET Entry]
      /\ \A d \in Caches : memory'[d] \subseteq memory[d]
      /\ \A j \in Keys : db'[j] \subseteq db[j]
      /\ \A e \in memory'[c] : e.key # k
      /\ db'[k] = {}
  BY PurgeType DEF Invalidate, Typed
<1>2. /\ known' = [known EXCEPT ![c][k] = stores + 1]
      /\ stores' = stores /\ now' = now /\ pc' = pc /\ key' = key
  BY DEF Invalidate, calls
<1>3. Typed'
  BY <1>1, <1>2 DEF Typed
<1>4. \A d \in Caches, j \in Keys :
          known'[d][j] = IF d = c /\ j = k THEN stores + 1 ELSE known[d][j]
  BY <1>2 DEF Typed
<1>5. Issued'
  BY <1>1, <1>2, <1>4 DEF Issued, Typed
<1>6. FileIsNewest'
  BY <1>1 DEF FileIsNewest, Cached
<1>7. OneExpiry'
  BY <1>1 DEF OneExpiry, Copies
<1>8. NeverBack'
  <2> SUFFICES ASSUME NEW d \in Caches, NEW j \in Keys,
                      NEW e \in (Cached(d, j) \cup db[j])'
               PROVE  e.stamp >= known'[d][j]
    BY DEF NeverBack
  <2>1. e \in Cached(d, j) \cup db[j]
    BY <1>1 DEF Cached
  <2>2. ~(d = c /\ j = k)
    BY <1>1 DEF Cached
  <2>3. QED
    BY <1>4, <2>1, <2>2 DEF NeverBack
<1>9. QED
  BY <1>3, <1>5, <1>6, <1>7, <1>8

\* A hit serves a copy there is: from the memory, where the row is no older, or from
\* the row.
LEMMA HitKeeps ==
    ASSUME IInv, NEW t \in Users, Hit(t)
    PROVE  IInv'
<1> USE DEF IInv
<1> DEFINE c == CacheOf[t]
           k == key[t]
<1>1. c \in Caches /\ k \in Keys
  BY DEF Hit, Typed
<1>2. PICK e \in Found(c, k) : Remember(c, e) /\ known' = [known EXCEPT ![c][k] = e.stamp]
  BY DEF Hit, Load
<1>3. /\ e \in Entry /\ e.key = k /\ e \in Copies
      /\ \A f \in db[k] : e.stamp <= f.stamp
      /\ e.stamp <= stores
  <2>1. CASE e \in Cached(c, k)
    BY <1>1, <2>1 DEF Cached, Typed, Copies, FileIsNewest, Issued
  <2>2. CASE e \in db[k]
    <3>1. e \in Entry /\ e.key = k /\ e.stamp \in Int /\ e.stamp <= stores
      BY <1>1, <2>2 DEF Typed, Entry, Issued
    <3>2. e \in Copies
      BY <1>1, <2>2 DEF Copies
    <3>3. \A f \in db[k] : f = e
      BY <1>1, <2>2 DEF Typed
    <3>4. QED
      BY <3>1, <3>2, <3>3
  <2>3. QED
    BY <1>2, <2>1, <2>2 DEF Found
<1>4. /\ memory' \in [Caches -> SUBSET Entry]
      /\ memory'[c] \subseteq Without(memory[c], k) \cup {e}
      /\ \A d \in Caches \ {c} : memory'[d] = memory[d]
  BY <1>1, <1>2, <1>3, RememberType DEF Typed
<1>5. /\ known' = [known EXCEPT ![c][k] = e.stamp]
      /\ pc' = [pc EXCEPT ![t] = "idle"] /\ key' = [key EXCEPT ![t] = NoKey]
      /\ now' = now /\ stores' = stores /\ db' = db
  BY <1>2 DEF Hit, Returns
<1>6. Typed'
  <2>1. e.stamp \in 0..(MaxStores + 1)
    BY <1>3 DEF Entry
  <2>2. known' \in [Caches -> [Keys -> 0..(MaxStores + 1)]]
    BY <1>1, <1>5, <2>1 DEF Typed
  <2>3. /\ pc' \in [Users -> {"idle", "swept", "fetching"}]
        /\ key' \in [Users -> Keys \cup {NoKey}]
        /\ \A u \in Users : pc'[u] # "idle" => key'[u] \in Keys
    BY <1>5 DEF Typed
  <2>4. QED
    BY <1>4, <1>5, <2>2, <2>3 DEF Typed
<1>7. \A d \in Caches, j \in Keys :
          known'[d][j] = IF d = c /\ j = k THEN e.stamp ELSE known[d][j]
  BY <1>1, <1>5 DEF Typed
<1>8. Issued'
  BY <1>1, <1>3, <1>4, <1>5, <1>7 DEF Issued, Typed, Without, Entry
<1>9. FileIsNewest'
  BY <1>1, <1>3, <1>4, <1>5 DEF FileIsNewest, Cached, Without
<1>10. OneExpiry'
  BY <1>1, <1>3, <1>4, <1>5 DEF OneExpiry, Copies, Without
<1>11. NeverBack'
  <2> SUFFICES ASSUME NEW d \in Caches, NEW j \in Keys,
                      NEW f \in (Cached(d, j) \cup db[j])'
               PROVE  f.stamp >= known'[d][j]
    BY DEF NeverBack
  <2>1. CASE d = c /\ j = k
    BY <1>1, <1>3, <1>4, <1>5, <1>7, <2>1 DEF Cached, Without, Typed, Entry
  <2>2. CASE ~(d = c /\ j = k)
    <3>1. f \in Cached(d, j) \cup db[j]
      BY <1>1, <1>3, <1>4, <1>5, <2>2 DEF Cached, Without
    <3>2. QED
      BY <1>7, <2>2, <3>1 DEF NeverBack
  <2>3. QED
    BY <2>1, <2>2
<1>12. QED
  BY <1>6, <1>8, <1>9, <1>10, <1>11

\* A store is newer than all there is, and replaces the row.
LEMMA StoreKeeps ==
    ASSUME IInv, NEW t \in Users, Store(t)
    PROVE  IInv'
<1> USE DEF IInv
<1> DEFINE c == CacheOf[t]
           k == key[t]
           e == [key |-> k, stamp |-> stores + 1, expires |-> now + TTL]
<1>1. c \in Caches /\ k \in Keys
  BY DEF Store, Typed
<1>2. /\ Remember(c, e) /\ stores < MaxStores /\ stores' = stores + 1
      /\ known' = [known EXCEPT ![c][k] = stores + 1]
      /\ db' = [db EXCEPT ![k] = {e}]
      /\ pc' = [pc EXCEPT ![t] = "idle"] /\ key' = [key EXCEPT ![t] = NoKey]
      /\ now' = now
  BY DEF Store, Returns
<1>3. e \in Entry
  BY <1>1, <1>2 DEF Typed, Entry
<1>4. /\ e.key = k /\ e.stamp = stores + 1 /\ e.expires = now + TTL
  OBVIOUS
<1>5. /\ memory' \in [Caches -> SUBSET Entry]
      /\ memory'[c] \subseteq Without(memory[c], k) \cup {e}
      /\ \A d \in Caches \ {c} : memory'[d] = memory[d]
  BY <1>1, <1>2, <1>3, <1>4, RememberType DEF Typed
<1> HIDE DEF e
<1>6. \A j \in Keys : db'[j] = IF j = k THEN {e} ELSE db[j]
  BY <1>1, <1>2 DEF Typed
<1>7. \A d \in Caches, j \in Keys :
          known'[d][j] = IF d = c /\ j = k THEN stores + 1 ELSE known[d][j]
  BY <1>1, <1>2 DEF Typed
<1>8. Typed'
  <2>1. stores' \in 0..MaxStores /\ now' \in 0..MaxTime
    BY <1>2 DEF Typed
  <2>2. known' \in [Caches -> [Keys -> 0..(MaxStores + 1)]]
    <3>1. stores + 1 \in 0..(MaxStores + 1)
      BY <1>2 DEF Typed
    <3>2. QED
      BY <1>1, <1>2, <3>1 DEF Typed
  <2>3. /\ db' \in [Keys -> SUBSET Entry]
        /\ \A j \in Keys : \A f, g \in db'[j] : f.key = j /\ f = g
    BY <1>1, <1>2, <1>3, <1>4, <1>6 DEF Typed
  <2>4. /\ pc' \in [Users -> {"idle", "swept", "fetching"}]
        /\ key' \in [Users -> Keys \cup {NoKey}]
        /\ \A u \in Users : pc'[u] # "idle" => key'[u] \in Keys
    BY <1>2 DEF Typed
  <2>5. QED
    BY <1>5, <2>1, <2>2, <2>3, <2>4 DEF Typed
<1>9. stores \in Nat
  BY DEF Typed
<1>10. \A d \in Caches : \A f \in memory[d] : f.stamp \in Nat /\ f.stamp <= stores
  BY DEF Issued, Typed, Entry
<1>11. \A j \in Keys : \A f \in db[j] : f.stamp \in Nat /\ f.stamp <= stores
  BY DEF Issued, Typed, Entry
<1>12. \A d \in Caches : \A f \in memory'[d] : f = e \/ f \in memory[d]
  BY <1>5 DEF Without
<1>13. Issued'
  <2>1. \A d \in Caches, j \in Keys : known[d][j] \in Nat /\ known[d][j] <= stores + 1
    BY DEF Issued, Typed
  <2>2. QED
    BY <1>2, <1>4, <1>6, <1>7, <1>9, <1>10, <1>11, <1>12, <2>1 DEF Issued
<1>14. FileIsNewest'
  <2> SUFFICES ASSUME NEW d \in Caches, NEW j \in Keys, NEW f \in Cached(d, j)', NEW g \in db'[j]
               PROVE  f.stamp <= g.stamp
    BY DEF FileIsNewest
  <2>1. f \in memory'[d] /\ f.key = j
    BY DEF Cached
  <2>2. CASE j = k
    BY <1>4, <1>6, <1>9, <1>10, <1>12, <2>1, <2>2
  <2>3. CASE j # k
    BY <1>4, <1>6, <1>12, <2>1, <2>3 DEF FileIsNewest, Cached
  <2>4. QED
    BY <2>2, <2>3
<1>15. OneExpiry'
  <2> SUFFICES ASSUME NEW f \in Copies', NEW g \in Copies', f.stamp = g.stamp
               PROVE  f.expires = g.expires
    BY DEF OneExpiry
  <2>1. \A h \in Copies' : h = e \/ (h \in Copies /\ h.stamp <= stores /\ h.stamp \in Nat)
    BY <1>6, <1>10, <1>11, <1>12 DEF Copies
  <2>2. QED
    BY <1>4, <1>9, <2>1 DEF OneExpiry
<1>16. NeverBack'
  <2> SUFFICES ASSUME NEW d \in Caches, NEW j \in Keys,
                      NEW f \in (Cached(d, j) \cup db[j])'
               PROVE  f.stamp >= known'[d][j]
    BY DEF NeverBack
  <2>1. known[d][j] \in Nat /\ known[d][j] <= stores + 1
    BY DEF Issued, Typed
  <2>2. CASE f = e
    BY <1>4, <1>7, <1>9, <2>1, <2>2
  <2>3. CASE f # e
    <3>1. f \in Cached(d, j) \cup db[j]
      BY <1>6, <1>12, <2>3 DEF Cached
    <3>2. ~(d = c /\ j = k)
      BY <1>1, <1>5, <1>6, <2>3 DEF Cached, Without
    <3>3. QED
      BY <1>7, <3>1, <3>2 DEF NeverBack
  <2>4. QED
    BY <2>2, <2>3
<1>17. QED
  BY <1>8, <1>13, <1>14, <1>15, <1>16

LEMMA TickKeeps ==
    ASSUME IInv, Tick
    PROVE  IInv'
<1>1. Typed'
  BY DEF IInv, Typed, Tick, table, calls
<1>2. QED
  BY <1>1, ShrinkKeeps DEF Tick, table, IInv, Typed

LEMMA FetchKeeps ==
    ASSUME IInv, NEW t \in Users, NEW k \in Keys, Fetch(t, k)
    PROVE  IInv'
<1> USE DEF IInv
<1>1. CacheOf[t] \in Caches
  OBVIOUS
<1>2. /\ memory' \in [Caches -> SUBSET Entry]
      /\ \A d \in Caches : memory'[d] \subseteq memory[d]
  BY <1>1, SweepMemoryType DEF Fetch, Typed
<1>3. /\ db' \in [Keys -> SUBSET Entry]
      /\ \A j \in Keys : db'[j] \subseteq db[j]
  BY SweepRowsType DEF Fetch, Typed
<1>4. /\ now' = now /\ stores' = stores /\ known' = known
      /\ \/ pc' = [pc EXCEPT ![t] = "swept"] /\ key' = [key EXCEPT ![t] = k]
         \/ pc' = pc /\ key' = key
  BY DEF Fetch
<1>5. /\ pc' \in [Users -> {"idle", "swept", "fetching"}]
      /\ key' \in [Users -> Keys \cup {NoKey}]
      /\ \A u \in Users : pc'[u] # "idle" => key'[u] \in Keys
  <2>1. CASE pc' = [pc EXCEPT ![t] = "swept"] /\ key' = [key EXCEPT ![t] = k]
    BY <2>1 DEF Typed
  <2>2. CASE pc' = pc /\ key' = key
    BY <2>2 DEF Typed
  <2>3. QED
    BY <1>4, <2>1, <2>2
<1>6. Typed'
  BY <1>2, <1>3, <1>4, <1>5 DEF Typed
<1>7. QED
  BY <1>2, <1>3, <1>4, <1>6, ShrinkKeeps

LEMMA MissKeeps ==
    ASSUME IInv, NEW t \in Users, Miss(t)
    PROVE  IInv'
<1> USE DEF IInv
<1>1. CacheOf[t] \in Caches /\ key[t] \in Keys
  BY DEF Miss, Typed
<1>2. /\ memory' \in [Caches -> SUBSET Entry] /\ db' \in [Keys -> SUBSET Entry]
      /\ \A d \in Caches : memory'[d] \subseteq memory[d]
      /\ \A j \in Keys : db'[j] \subseteq db[j]
  <2>1. CASE UNCHANGED table
    BY <2>1 DEF table, Typed
  <2>2. CASE Purge(CacheOf[t], key[t])
    BY <1>1, <2>2, PurgeType DEF Typed
  <2>3. QED
    BY <2>1, <2>2 DEF Miss
<1>3. /\ now' = now /\ stores' = stores /\ known' = known
      /\ pc' = [pc EXCEPT ![t] = "fetching"] /\ key' = key
  BY DEF Miss
<1>4. Typed'
  BY <1>1, <1>2, <1>3 DEF Typed
<1>5. QED
  BY <1>2, <1>3, <1>4, ShrinkKeeps

LEMMA RaiseKeeps ==
    ASSUME IInv, NEW t \in Users, Raise(t)
    PROVE  IInv'
<1>1. Typed'
  BY DEF IInv, Typed, Raise, Returns, table
<1>2. QED
  BY <1>1, ShrinkKeeps DEF Raise, table

LEMMA SweepKeeps ==
    ASSUME IInv, NEW c \in Caches, Sweep(c)
    PROVE  IInv'
<1> USE DEF IInv
<1>1. /\ memory' \in [Caches -> SUBSET Entry]
      /\ \A d \in Caches : memory'[d] \subseteq memory[d]
  BY SweepMemoryType DEF Sweep, Typed
<1>2. /\ db' \in [Keys -> SUBSET Entry]
      /\ \A j \in Keys : db'[j] \subseteq db[j]
  BY SweepRowsType DEF Sweep, Typed
<1>3. now' = now /\ stores' = stores /\ known' = known /\ pc' = pc /\ key' = key
  BY DEF Sweep, calls
<1>4. Typed'
  BY <1>1, <1>2, <1>3 DEF Typed
<1>5. QED
  BY <1>1, <1>2, <1>3, <1>4, ShrinkKeeps

LEMMA RetireKeeps ==
    ASSUME IInv, NEW c \in Caches, Retire(c)
    PROVE  IInv'
<1>1. Typed'
  BY DEF IInv, Typed, Retire, table, calls
<1>2. QED
  BY <1>1, ShrinkKeeps DEF Retire, table

LEMMA CloseKeeps ==
    ASSUME IInv, NEW c \in Caches, Close(c)
    PROVE  IInv'
<1> USE DEF IInv
<1>1. /\ now' = now /\ stores' = stores /\ memory' = memory /\ db' = db
      /\ pc' = pc /\ key' = key
      /\ known' = [known EXCEPT ![c] = [k \in Keys |-> 0]]
  BY DEF Close, table, calls
<1>2. known' \in [Caches -> [Keys -> 0..(MaxStores + 1)]]
  BY <1>1 DEF Typed
<1>3. Typed'
  BY <1>1, <1>2 DEF Typed
<1>4. \A d \in Caches, k \in Keys : known'[d][k] \in {0, known[d][k]}
  BY <1>1 DEF Typed
<1>5. QED
  BY <1>1, <1>3, <1>4, ShrinkKeeps

-----------------------------------------------------------------------------
(***************************************************************************)
(* The theorems                                                            *)
(***************************************************************************)

LEMMA InitHolds == Init => IInv
  BY DEF Init, IInv, Typed, Issued, FileIsNewest, OneExpiry, NeverBack, Copies, Cached

LEMMA StepKeeps ==
    ASSUME IInv, [Next]_vars
    PROVE  IInv'
<1>1. CASE UNCHANGED vars
  <2>1. Typed'
    BY <1>1 DEF IInv, Typed, vars
  <2>2. QED
    BY <1>1, <2>1, ShrinkKeeps DEF vars
<1>2. CASE Next
  BY <1>2, TickKeeps, FetchKeeps, HitKeeps, MissKeeps, StoreKeeps, RaiseKeeps,
     InvalidateKeeps, SweepKeeps, RetireKeeps, CloseKeeps DEF Next
<1>3. QED
  BY <1>1, <1>2

LEMMA IInvHolds == Spec => []IInv
  BY InitHolds, StepKeeps, PTL DEF Spec

-----------------------------------------------------------------------------
(***************************************************************************)
(* A memory and its order                                                  *)
(***************************************************************************)

\* keys are the addresses of entries, each once, and no more than fit
Tracks(keys, entries) ==
    /\ keys \in Seq(Keys)
    /\ \A i, j \in 1..Len(keys) : keys[i] = keys[j] => i = j
    /\ Len(keys) <= MaxEntries
    /\ \A e \in entries : \E i \in 1..Len(keys) : keys[i] = e.key
    /\ \A i \in 1..Len(keys) : \E e \in entries : e.key = keys[i]
    /\ \A e, f \in entries : e.key = f.key => e = f

LEMMA ElementsAre ==
    ASSUME NEW keys \in Seq(Keys), NEW k
    PROVE  k \in ToSet(keys) <=> \E i \in 1..Len(keys) : keys[i] = k
  BY DEF ToSet

\* There is one entry for each key.
LEMMA TracksCounts ==
    ASSUME NEW keys, NEW entries, Tracks(keys, entries)
    PROVE  Cardinality(entries) = Len(keys)
<1> DEFINE at == [i \in 1..Len(keys) |-> CHOOSE e \in entries : e.key = keys[i]]
<1>1. Len(keys) \in Nat
  BY DEF Tracks
<1>2. \A i \in 1..Len(keys) : at[i] \in entries /\ at[i].key = keys[i]
  <2> SUFFICES ASSUME NEW i \in 1..Len(keys) PROVE at[i] \in entries /\ at[i].key = keys[i]
    OBVIOUS
  <2>1. \E e \in entries : e.key = keys[i]
    BY DEF Tracks
  <2> QED
    BY <2>1
<1>3. at = [i \in 1..Len(keys) |-> at[i]]
  OBVIOUS
<1> HIDE DEF at
<1>4. \A i, j \in 1..Len(keys) : at[i] = at[j] => i = j
  BY <1>2 DEF Tracks
<1>5. \A e \in entries : \E i \in 1..Len(keys) : at[i] = e
  <2> SUFFICES ASSUME NEW e \in entries PROVE \E i \in 1..Len(keys) : at[i] = e
    OBVIOUS
  <2>1. PICK i \in 1..Len(keys) : keys[i] = e.key
    BY DEF Tracks
  <2>2. at[i] \in entries /\ at[i].key = e.key
    BY <1>2, <2>1
  <2>3. at[i] = e
    BY <2>2 DEF Tracks
  <2> QED
    BY <2>3
<1>6. at \in Bijection(1..Len(keys), entries)
  BY <1>2, <1>3, <1>4, <1>5 DEF Bijection, Injection, Surjection, IsInjective
<1> QED
  BY <1>1, <1>6, FS_CountingElements DEF ExistsBijection

\* Keys that are deleted are gone, and nothing else is.
LEMMA LeftIs ==
    ASSUME NEW keys \in Seq(Keys), NEW gone,
           \A i, j \in 1..Len(keys) : keys[i] = keys[j] => i = j
    PROVE  LET left == Left(keys, gone)
           IN  /\ left \in Seq(Keys)
               /\ Len(left) <= Len(keys)
               /\ \A i, j \in 1..Len(left) : left[i] = left[j] => i = j
               /\ \A i \in 1..Len(left) :
                     \E j \in 1..Len(keys) : keys[j] \notin gone /\ left[i] = keys[j]
               /\ \A j \in 1..Len(keys) :
                     keys[j] \notin gone => \E i \in 1..Len(left) : left[i] = keys[j]
<1> DEFINE left == Left(keys, gone)
           K == {n \in 1..Len(keys) : keys[n] \notin gone}
<1>1. left \in Seq(Keys) /\ Len(left) <= Len(keys) /\ Placed(left, Len(keys), keys, K)
  BY KeptIs, KeptIsShort DEF Left
<1> HIDE DEF left
<1>2. PICK place \in [1..Len(left) -> 1..Len(keys)] :
        /\ \A i \in 1..Len(left) : place[i] \in K /\ left[i] = keys[place[i]]
        /\ \A i, j \in 1..Len(left) : i < j => place[i] < place[j]
        /\ \A n \in 1..Len(keys) : n \in K => \E i \in 1..Len(left) : place[i] = n
  BY <1>1 DEF Placed
<1>3. \A i \in 1..Len(left) : place[i] \in 1..Len(keys)
  OBVIOUS
<1>4. ASSUME NEW i \in 1..Len(left), NEW j \in 1..Len(left), left[i] = left[j] PROVE i = j
  <2>1. place[i] = place[j]
    BY <1>2, <1>3, <1>4
  <2>2. place[i] \in Int /\ ~(i < j) /\ ~(j < i)
    BY <1>2, <1>3, <2>1
  <2> QED
    BY <2>2
<1>5. \A i \in 1..Len(left) : \E j \in 1..Len(keys) : keys[j] \notin gone /\ left[i] = keys[j]
  BY <1>2, <1>3
<1>6. \A j \in 1..Len(keys) : keys[j] \notin gone => \E i \in 1..Len(left) : left[i] = keys[j]
  BY <1>2
<1> QED
  BY <1>1, <1>4, <1>5, <1>6 DEF left

LEMMA TracksLeft ==
    ASSUME NEW keys, NEW entries, NEW gone, NEW rest, Tracks(keys, entries),
           rest = {e \in entries : e.key \notin gone}
    PROVE  Tracks(Left(keys, gone), rest)
<1> DEFINE left == Left(keys, gone)
<1>1. /\ left \in Seq(Keys) /\ Len(left) <= Len(keys)
      /\ \A i, j \in 1..Len(left) : left[i] = left[j] => i = j
      /\ \A i \in 1..Len(left) :
            \E j \in 1..Len(keys) : keys[j] \notin gone /\ left[i] = keys[j]
      /\ \A j \in 1..Len(keys) :
            keys[j] \notin gone => \E i \in 1..Len(left) : left[i] = keys[j]
  BY LeftIs DEF Tracks
<1>2. Len(keys) \in Nat /\ Len(keys) <= MaxEntries
  BY DEF Tracks
<1> HIDE DEF left
<1>3. /\ \A e \in rest : \E i \in 1..Len(left) : left[i] = e.key
      /\ \A i \in 1..Len(left) : \E e \in rest : e.key = left[i]
  <2>1. ASSUME NEW e \in rest PROVE \E i \in 1..Len(left) : left[i] = e.key
    <3>1. PICK j \in 1..Len(keys) : keys[j] = e.key
      BY DEF Tracks
    <3> QED
      BY <1>1, <3>1
  <2>2. ASSUME NEW i \in 1..Len(left) PROVE \E e \in rest : e.key = left[i]
    <3>1. PICK j \in 1..Len(keys) : keys[j] \notin gone /\ left[i] = keys[j]
      BY <1>1
    <3>2. PICK e \in entries : e.key = keys[j]
      BY DEF Tracks
    <3> QED
      BY <3>1, <3>2
  <2> QED
    BY <2>1, <2>2
<1>4. Len(left) <= MaxEntries
  BY <1>1, <1>2
<1>5. \A e, f \in rest : e.key = f.key => e = f
  BY DEF Tracks
<1>6. Tracks(left, rest)
  BY <1>1, <1>3, <1>4, <1>5 DEF Tracks
<1> QED
  BY <1>6 DEF left

\* The new entry is the most recent, and the least recent goes if there is no room.
LEMMA TracksRemembered ==
    ASSUME NEW keys, NEW entries, Tracks(keys, entries), NEW e, e.key \in Keys,
           NEW kept, kept = Trim(Append(Left(keys, {e.key}), e.key)),
           NEW next, next = {f \in Without(entries, e.key) \cup {e} : f.key \in ToSet(kept)}
    PROVE  Tracks(kept, next)
<1> DEFINE left == Left(keys, {e.key})
           others == Without(entries, e.key)
           all == Append(left, e.key)
<1>1. kept = Trim(all) /\ next = {f \in others \cup {e} : f.key \in ToSet(kept)}
  OBVIOUS
<1>2. Tracks(left, others) /\ \A f \in others : f.key # e.key
  BY TracksLeft DEF Without
<1> HIDE DEF left, others
<1>3. left \in Seq(Keys) /\ Len(left) \in Nat /\ Len(left) <= MaxEntries
  BY <1>2 DEF Tracks
<1>4. \A i \in 1..Len(left) : left[i] # e.key
  BY <1>2 DEF Tracks
<1>5. /\ all \in Seq(Keys) /\ Len(all) = Len(left) + 1 /\ all[Len(all)] = e.key
      /\ \A i \in 1..Len(left) : all[i] = left[i]
  BY <1>3
<1> HIDE DEF all
<1>6. /\ \A i \in 1..Len(all) : i = Len(all) \/ i \in 1..Len(left)
      /\ Len(all) \in 1..Len(all)
      /\ \A i \in 1..Len(left) : i \in 1..Len(all)
  BY <1>3, <1>5
<1>7. \A i, j \in 1..Len(all) : all[i] = all[j] => i = j
  <2>1. \A i, j \in 1..Len(left) : left[i] = left[j] => i = j
    BY <1>2 DEF Tracks
  <2> QED
    BY <1>4, <1>5, <1>6, <2>1
<1>8. \A i \in 1..Len(all) : \E f \in others \cup {e} : f.key = all[i]
  BY <1>2, <1>5, <1>6 DEF Tracks
<1>9. \A f, g \in others \cup {e} : f.key = g.key => f = g
  BY <1>2 DEF Tracks
<1>10. /\ kept \in Seq(Keys) /\ Len(kept) <= MaxEntries
       /\ \A i, j \in 1..Len(kept) : kept[i] = kept[j] => i = j
       /\ \A i \in 1..Len(kept) : \E j \in 1..Len(all) : kept[i] = all[j]
  <2>1. CASE Len(all) > MaxEntries
    <3>0. kept = Tail(all)
      BY <1>1, <2>1 DEF Trim
    <3>1. Len(all) >= 1
      BY <1>3, <1>5
    <3>2. /\ kept \in Seq(Keys) /\ Len(kept) = Len(all) - 1
          /\ \A i \in 1..Len(kept) : i + 1 \in 1..Len(all) /\ kept[i] = all[i + 1]
      <4>1. Tail(all) \in Seq(Keys) /\ Len(Tail(all)) = Len(all) - 1
        BY <1>5, <3>1
      <4>2. \A i \in 1..(Len(all) - 1) : i + 1 \in 1..Len(all) /\ Tail(all)[i] = all[i + 1]
        BY <1>5, <3>1
      <4> QED
        BY <3>0, <4>1, <4>2
    <3>3. Len(kept) <= MaxEntries
      BY <1>3, <1>5, <3>2
    <3>4. ASSUME NEW i \in 1..Len(kept), NEW j \in 1..Len(kept), kept[i] = kept[j]
          PROVE  i = j
      <4>1. i + 1 = j + 1
        BY <1>7, <3>2, <3>4
      <4> QED
        BY <4>1
    <3> QED
      BY <3>2, <3>3, <3>4
  <2>2. CASE ~(Len(all) > MaxEntries)
    <3>1. kept = all
      BY <1>1, <2>2 DEF Trim
    <3>2. Len(kept) <= MaxEntries
      BY <1>3, <1>5, <2>2, <3>1
    <3> QED
      BY <1>5, <1>7, <3>1, <3>2
  <2> QED
    BY <2>1, <2>2
<1>11. \A f \in next : \E i \in 1..Len(kept) : kept[i] = f.key
  BY <1>1, <1>10, ElementsAre
<1>12. \A i \in 1..Len(kept) : \E f \in next : f.key = kept[i]
  <2> SUFFICES ASSUME NEW i \in 1..Len(kept) PROVE \E f \in next : f.key = kept[i]
    OBVIOUS
  <2>1. PICK f \in others \cup {e} : f.key = kept[i]
    <3>1. PICK j \in 1..Len(all) : kept[i] = all[j]
      BY <1>10
    <3> QED
      BY <1>8, <3>1
  <2>2. f.key \in ToSet(kept)
    BY <1>10, <2>1, ElementsAre
  <2> QED
    BY <1>1, <2>1, <2>2
<1>13. \A f, g \in next : f.key = g.key => f = g
  BY <1>1, <1>9
<1> QED
  BY <1>10, <1>11, <1>12, <1>13 DEF Tracks

Tracked ==
    /\ order = [c \in Caches |-> order[c]]
    /\ \A c \in Caches : Tracks(order[c], memory[c])

\* the order is not part of Typed, for the other theorems do without it
AllTyped ==
    /\ IInv
    /\ Tracked
    /\ closed \in [Caches -> BOOLEAN]
    /\ janitor \in [Caches -> BOOLEAN]

LEMMA RememberTracks ==
    ASSUME Typed, Tracked, NEW c \in Caches, NEW e \in Entry, Remember(c, e)
    PROVE  Tracked'
<1> DEFINE kept == Trim(Append(Left(order[c], {e.key}), e.key))
           next == {f \in Without(memory[c], e.key) \cup {e} : f.key \in ToSet(kept)}
<1>1. order' = [order EXCEPT ![c] = kept] /\ memory' = [memory EXCEPT ![c] = next]
  BY DEF Remember
<1>2. Tracks(kept, next)
  <2>1. Tracks(order[c], memory[c]) /\ e.key \in Keys
    BY DEF Tracked, Entry
  <2> QED
    BY <2>1, TracksRemembered
<1> HIDE DEF kept, next
<1>3. /\ order' = [d \in Caches |-> order'[d]]
      /\ order'[c] = kept /\ memory'[c] = next
      /\ \A d \in Caches \ {c} : order'[d] = order[d] /\ memory'[d] = memory[d]
  BY <1>1 DEF Tracked, Typed
<1> QED
  BY <1>2, <1>3 DEF Tracked

\* Where keys are deleted, their entries go, and no others.
LEMMA ForgetTracks ==
    ASSUME Typed, Tracked, NEW c \in Caches, NEW gone, Forget(c, gone),
           memory' = [memory EXCEPT ![c] = {e \in memory[c] : e.key \notin gone}]
    PROVE  Tracked'
<1> DEFINE rest == {e \in memory[c] : e.key \notin gone}
<1>1. Tracks(Left(order[c], gone), rest)
  BY TracksLeft DEF Tracked
<1> HIDE DEF rest
<1>2. /\ order' = [d \in Caches |-> order'[d]]
      /\ order'[c] = Left(order[c], gone)
      /\ \A d \in Caches \ {c} : order'[d] = order[d]
  BY DEF Forget, Tracked
<1>3. /\ memory'[c] = rest
      /\ \A d \in Caches \ {c} : memory'[d] = memory[d]
  BY DEF Typed, rest
<1> QED
  BY <1>1, <1>2, <1>3 DEF Tracked

LEMMA PurgeTracks ==
    ASSUME Typed, Tracked, NEW c \in Caches, NEW k \in Keys, Purge(c, k)
    PROVE  Tracked'
<1>1. Without(memory[c], k) = {e \in memory[c] : e.key \notin {k}}
  BY DEF Without
<1> QED
  BY <1>1, ForgetTracks DEF Purge

LEMMA SweepMemoryTracks ==
    ASSUME Typed, Tracked, NEW c \in Caches, SweepMemory(c)
    PROVE  Tracked'
<1> DEFINE gone == {e.key : e \in {e \in memory[c] : Stale(e)}}
<1>1. \A e, f \in memory[c] : e.key = f.key => e = f
  BY DEF Tracked, Tracks
<1>2. {e \in memory[c] : ~Stale(e)} = {e \in memory[c] : e.key \notin gone}
  BY <1>1
<1>3. Forget(c, gone) /\ memory' = [memory EXCEPT ![c] = {e \in memory[c] : ~Stale(e)}]
  BY DEF SweepMemory
<1> HIDE DEF gone
<1> QED
  BY <1>2, <1>3, ForgetTracks

\* Each action leaves the order alone, or does what one of these says.
LEMMA StepTracks ==
    ASSUME AllTyped, [Next]_vars
    PROVE  Tracked'
<1>1. Typed /\ Tracked
  BY DEF AllTyped, IInv
<1>2. CASE UNCHANGED <<memory, order>>
  BY <1>1, <1>2 DEF Tracked
<1>3. ASSUME NEW c \in Caches, SweepMemory(c) PROVE Tracked'
  BY <1>1, <1>3, SweepMemoryTracks
<1>4. ASSUME NEW t \in Users, Hit(t) PROVE Tracked'
  <2>1. CacheOf[t] \in Caches /\ key[t] \in Keys
    BY <1>1, <1>4 DEF Hit, Typed
  <2>2. PICK e \in Found(CacheOf[t], key[t]) : Remember(CacheOf[t], e)
    BY <1>4 DEF Hit, Load
  <2>3. e \in Entry
    BY <1>1, <2>1 DEF Found, Cached, Typed
  <2> QED
    BY <1>1, <2>1, <2>2, <2>3, RememberTracks
<1>5. ASSUME NEW t \in Users, Miss(t) PROVE Tracked'
  <2>1. CacheOf[t] \in Caches /\ key[t] \in Keys
    BY <1>1, <1>5 DEF Miss, Typed
  <2>2. UNCHANGED table \/ Purge(CacheOf[t], key[t])
    BY <1>5 DEF Miss
  <2> QED
    BY <1>1, <1>2, <2>1, <2>2, PurgeTracks DEF table
<1>6. ASSUME NEW t \in Users, Store(t) PROVE Tracked'
  <2> DEFINE e == [key |-> key[t], stamp |-> stores + 1, expires |-> now + TTL]
  <2>1. CacheOf[t] \in Caches /\ key[t] \in Keys
    BY <1>1, <1>6 DEF Store, Typed
  <2>2. Remember(CacheOf[t], e) /\ stores < MaxStores
    BY <1>6 DEF Store
  <2>3. e \in Entry
    BY <1>1, <2>1, <2>2 DEF Entry, Typed
  <2> HIDE DEF e
  <2> QED
    BY <1>1, <2>1, <2>2, <2>3, RememberTracks
<1>7. ASSUME NEW t \in Users, NEW k \in Keys, Fetch(t, k) PROVE Tracked'
  <2>1. CacheOf[t] \in Caches /\ SweepMemory(CacheOf[t])
    BY <1>7 DEF Fetch
  <2> QED
    BY <1>3, <2>1
<1>8. ASSUME NEW c \in Caches, NEW k \in Keys, Invalidate(c, k) PROVE Tracked'
  BY <1>1, <1>8, PurgeTracks DEF Invalidate
<1>9. ASSUME NEW c \in Caches, Sweep(c) PROVE Tracked'
  BY <1>3, <1>9 DEF Sweep
<1>10. CASE Tick \/ (\E t \in Users : Raise(t)) \/ \E c \in Caches : Retire(c) \/ Close(c)
  <2>1. UNCHANGED <<memory, order>>
    BY <1>10 DEF Tick, Raise, Retire, Close, table
  <2> QED
    BY <1>2, <2>1
<1>11. CASE UNCHANGED vars
  <2>1. UNCHANGED <<memory, order>>
    BY <1>11 DEF vars
  <2> QED
    BY <1>2, <2>1
<1> QED
  BY <1>4, <1>5, <1>6, <1>7, <1>8, <1>9, <1>10, <1>11 DEF Next

LEMMA AllTypedKept ==
    ASSUME AllTyped, [Next]_vars
    PROVE  AllTyped'
<1>1. IInv'
  BY StepKeeps DEF AllTyped
<1>2. Tracked'
  BY StepTracks
<1>3. closed' \in [Caches -> BOOLEAN] /\ janitor' \in [Caches -> BOOLEAN]
  <2>1. /\ \/ closed' = closed
           \/ \E c \in Caches : closed' = [closed EXCEPT ![c] = TRUE]
        /\ \/ janitor' = janitor
           \/ \E c \in Caches : janitor' = [janitor EXCEPT ![c] = FALSE]
    BY DEF Next, vars, Tick, Fetch, Hit, Miss, Store, Raise, Invalidate, Sweep, Retire, Close
  <2> QED
    BY <2>1 DEF AllTyped
<1> QED
  BY <1>1, <1>2, <1>3 DEF AllTyped

-----------------------------------------------------------------------------
(***************************************************************************)
(* The theorems                                                            *)
(***************************************************************************)

\* However many caches share the file, and whatever is stored, trimmed, purged,
\* reloaded or expired: no cache finds a value older than one it served, or than its
\* last invalidation of the address.
THEOREM NeverBackHolds == Spec => []NeverBack
  BY IInvHolds, PTL DEF IInv

\* All copies of a stored ABI, in every memory and in the file, expire together: loading
\* or using one does not make it live longer.
THEOREM OneExpiryHolds == Spec => []OneExpiry
  BY IInvHolds, PTL DEF IInv

\* _memory holds no more than max_entries, and its order names what is in it, whatever two
\* processes load, store, sweep and invalidate; and the types.
THEOREM TypeCorrect == Spec => []TypeOK
<1>1. Init => AllTyped
  <2> SUFFICES ASSUME Init PROVE AllTyped
    OBVIOUS
  <2>1. IInv
    BY InitHolds
  <2>2. ASSUME NEW c \in Caches PROVE Tracks(order[c], memory[c])
    <3>1. order[c] = <<>> /\ memory[c] = {}
      BY DEF Init
    <3>2. <<>> \in Seq(Keys) /\ Len(<<>>) = 0 /\ \A i \in 1..0 : FALSE
      OBVIOUS
    <3> QED
      BY <3>1, <3>2 DEF Tracks
  <2>3. order = [c \in Caches |-> order[c]]
    BY DEF Init
  <2>4. closed \in [Caches -> BOOLEAN] /\ janitor \in [Caches -> BOOLEAN]
    BY DEF Init
  <2> QED
    BY <2>1, <2>2, <2>3, <2>4 DEF AllTyped, Tracked
<1>2. AllTyped /\ [Next]_vars => AllTyped'
  BY AllTypedKept
<1>3. AllTyped => TypeOK
  <2> SUFFICES ASSUME AllTyped PROVE TypeOK
    OBVIOUS
  <2>1. ASSUME NEW c \in Caches
        PROVE  /\ Len(order[c]) <= MaxEntries
               /\ {e.key : e \in memory[c]} = ToSet(order[c])
               /\ Cardinality(memory[c]) = Len(order[c])
    <3>1. Tracks(order[c], memory[c])
      BY DEF AllTyped, Tracked
    <3>2. Cardinality(memory[c]) = Len(order[c]) /\ Len(order[c]) <= MaxEntries
      BY <3>1, TracksCounts DEF Tracks
    <3>3. \A k : k \in ToSet(order[c]) <=> \E i \in 1..Len(order[c]) : order[c][i] = k
      BY <3>1, ElementsAre DEF Tracks
    <3>4. {e.key : e \in memory[c]} = ToSet(order[c])
      BY <3>1, <3>3 DEF Tracks
    <3> QED
      BY <3>2, <3>4
  <2> QED
    BY <2>1 DEF AllTyped, IInv, Typed, TypeOK
<1> QED
  BY <1>1, <1>2, <1>3, PTL DEF Spec

===============================================================================
