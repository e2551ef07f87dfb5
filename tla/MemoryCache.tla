----------------------------- MODULE MemoryCache -----------------------------
(***************************************************************************)
(* MemoryCacheService: a Map bounded by maxEntries whose entries live for  *)
(* their ttl.  The Map is the sequence of its entries in the order in      *)
(* which it enumerates them; a method runs without an await, so it is one  *)
(* operator from a store to a store.  live is expiresAt > Date.now().      *)
(***************************************************************************)
LOCAL INSTANCE Naturals
LOCAL INSTANCE Sequences

CacheEntry(K, V) == [key : K, value : V, live : BOOLEAN]

CachedKeys(store) == {store[i].key : i \in 1..Len(store)}

\* Where a key that is there has its entry.
PositionOf(store, k) == CHOOSE i \in 1..Len(store) : store[i].key = k

EntryOf(store, k) == store[PositionOf(store, k)]

CacheDel(store, k) ==
  LET i == PositionOf(store, k) IN
  IF k \in CachedKeys(store)
  THEN SubSeq(store, 1, i - 1) \o SubSeq(store, i + 1, Len(store)) ELSE store

\* Mutant: expiresAt is not looked at.
CacheHitLapsed(store, k) == k \in CachedKeys(store)

\* get finds an entry that has not expired ...
CacheHit(store, k) == k \in CachedKeys(store) /\ EntryOf(store, k).live

CacheValue(store, k) == EntryOf(store, k).value

\* ... and moves it to the end; one that has expired is deleted.
CacheGet(store, k) ==
  IF CacheHit(store, k) THEN Append(CacheDel(store, k), EntryOf(store, k))
                        ELSE CacheDel(store, k)

\* Mutant: the last entry makes room, the one just inserted or read.
CacheSetNewest(store, maxEntries, k, v) ==
  LET room  == IF Len(store) >= maxEntries /\ store # <<>>
                 THEN SubSeq(store, 1, Len(store) - 1) ELSE store
      entry == [key |-> k, value |-> v, live |-> TRUE]
  IN  IF k \in CachedKeys(room)
      THEN [i \in 1..Len(room) |-> IF room[i].key = k THEN entry ELSE room[i]]
      ELSE Append(room, entry)

\* set drops the first entry when the store is full, whether or not the key is
\* in it, and then writes: a key that is still there keeps its place.
CacheSet(store, maxEntries, k, v) ==
  LET room  == IF Len(store) >= maxEntries /\ store # <<>> THEN Tail(store) ELSE store
      entry == [key |-> k, value |-> v, live |-> TRUE]
  IN  IF k \in CachedKeys(room)
      THEN [i \in 1..Len(room) |-> IF room[i].key = k THEN entry ELSE room[i]]
      ELSE Append(room, entry)

\* The ttl of a key's entry runs out.
CacheLapse(store, k) ==
  [i \in 1..Len(store) |-> IF store[i].key = k THEN [store[i] EXCEPT !.live = FALSE]
                                               ELSE store[i]]

=============================================================================
