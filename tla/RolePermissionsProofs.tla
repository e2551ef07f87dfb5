------------------------ MODULE RolePermissionsProofs ------------------------
(***************************************************************************)
(* Proofs about RolePermissions and the MemoryCache it reads through, for  *)
(* any roles, keys, users and requests and a cache of any size.            *)
(*                                                                         *)
(* GrantsAreAsked is not inductive: a request stores in the cache, and     *)
(* signs into a token, what it read some statements ago.  The invariant    *)
(* says of what a request holds what GrantsAreAsked says of the cache      *)
(* (InFlight), and of a role no update has disturbed that one update at    *)
(* most is under way, between whose DELETE and INSERT nothing is there     *)
(* (Undisturbed).  What the cache keeps follows from lemmas about its      *)
(* methods, over the entries of a store.                                   *)
(***************************************************************************)
EXTENDS RolePermissions, SequenceTheorems, FiniteSetTheorems, TLAPS

-----------------------------------------------------------------------------
(* The invariant *)

Typed ==
  /\ roles \subseteq Roles /\ perms \subseteq Keys
  /\ grants \in [Roles -> SUBSET Keys]
  /\ assigned \in [Users -> SUBSET Roles]
  /\ claims \in [Users -> (SUBSET Keys) \cup {Null}]
  /\ req \in [Requests -> Request]
  /\ updates \in 0..MaxUpdates /\ fails \in 0..MaxFails
  /\ asked \in [Roles -> SUBSET SUBSET Keys]
  /\ answered \in [Roles -> SUBSET Keys]
  /\ disturbed \subseteq Roles

\* A Map has one entry at most for a key.
Stores(K, V) ==
  {store \in Seq(CacheEntry(K, V)) :
     \A i, j \in 1..Len(store) : store[i].key = store[j].key => i = j}

Cached == cache \in Stores(Users, SUBSET Keys) /\ Len(cache) <= MaxEntries

Unions(n) == {UNION S : S \in SUBSET asked[n]}

OfUser(u) == {{}} \cup UNION {Unions(n) : n \in assigned[u]}

Asked ==
  /\ \A n \in Roles : grants[n] \in Unions(n)
  /\ \A i \in 1..Len(cache) : cache[i].value \in OfUser(cache[i].key)
  /\ \A u \in Users : claims[u] # Null => claims[u] \in OfUser(u)

OneRole == \A u \in Users : assigned[u] = {} \/ \E n \in Roles : assigned[u] = {n}

\* What a request has read comes from what was asked for, like the cache it is
\* about to be stored in.
Remembers(q) ==
  /\ q.pc = "insertRole" => q.role \in Roles
  /\ q.pc \in {"delete", "insert"} => q.role \in Roles /\ q.keys \in asked[q.role]
  /\ q.pc \in {"readRoles", "readGrants", "store"} => q.user \in Users
  /\ q.pc = "readGrants" => q.got # {} /\ q.got = assigned[q.user]
  /\ q.pc = "store" => q.got \in OfUser(q.user)

InFlight == \A r \in Requests : Remembers(req[r])

\* A role whose updates never overlapped has one update under way at most,
\* which finds what the last one left and then leaves nothing until its INSERT.
Undisturbed ==
  \A n \in Roles \ disturbed :
    /\ \A r, x \in Updating(n) : r = x
    /\ \A r \in Updating(n) : req[r].pc = "insert" => grants[n] = {}
    /\ (\A r \in Updating(n) : req[r].pc # "insert") => grants[n] = answered[n]

IInv == Typed /\ Cached /\ Asked /\ OneRole /\ InFlight /\ Undisturbed
-----------------------------------------------------------------------------
(* The cache's methods *)

Entries(s) == {s[i] : i \in 1..Len(s)}

LEMMA StoreIs ==
  ASSUME NEW K, NEW V, NEW s \in Stores(K, V)
  PROVE  /\ s \in Seq(CacheEntry(K, V)) /\ Len(s) \in Nat
         /\ \A i \in 1..Len(s) : s[i] \in CacheEntry(K, V) /\ s[i].key \in K /\ s[i].value \in V
         /\ \A i, j \in 1..Len(s) : s[i].key = s[j].key => i = j
         /\ CachedKeys(s) = {e.key : e \in Entries(s)}
<1>1. s \in Seq(CacheEntry(K, V)) /\ \A i, j \in 1..Len(s) : s[i].key = s[j].key => i = j
  BY DEF Stores
<1>2. \A i \in 1..Len(s) : s[i] \in CacheEntry(K, V)
  BY <1>1
<1>3. CachedKeys(s) = {e.key : e \in Entries(s)}
  BY DEF CachedKeys, Entries
<1> QED BY <1>1, <1>2, <1>3 DEF CacheEntry

\* As many keys as entries.
LEMMA KeysOfStore ==
  ASSUME NEW K, NEW V, NEW s \in Stores(K, V)
  PROVE  Cardinality(CachedKeys(s)) = Len(s)
<1> DEFINE f == [i \in 1..Len(s) |-> s[i].key]
<1>1. Len(s) \in Nat /\ \A i, j \in 1..Len(s) : s[i].key = s[j].key => i = j
  BY StoreIs
<1>2. f \in Surjection(1..Len(s), CachedKeys(s))
  BY DEF Surjection, CachedKeys
<1>3. f \in Injection(1..Len(s), CachedKeys(s))
  BY <1>1 DEF Injection, IsInjective, CachedKeys
<1>4. IsFiniteSet(1..Len(s)) /\ Cardinality(1..Len(s)) = Len(s)
  <2>1. /\ IsFiniteSet(1..Len(s))
        /\ Cardinality(1..Len(s)) = IF 1 > Len(s) THEN 0 ELSE Len(s) - 1 + 1
    BY <1>1, FS_Interval
  <2> QED BY <1>1, <2>1
<1> HIDE DEF f
<1>5. Cardinality(CachedKeys(s)) = Cardinality(1..Len(s))
  BY <1>2, <1>3, <1>4, FS_Surjection
<1> QED BY <1>4, <1>5

LEMMA PositionIs ==
  ASSUME NEW K, NEW V, NEW s \in Stores(K, V), NEW k \in CachedKeys(s)
  PROVE  /\ PositionOf(s, k) \in 1..Len(s)
         /\ EntryOf(s, k) = s[PositionOf(s, k)] /\ EntryOf(s, k).key = k
         /\ EntryOf(s, k) \in CacheEntry(K, V) /\ EntryOf(s, k) \in Entries(s)
         /\ \A i \in 1..Len(s) : s[i].key = k => i = PositionOf(s, k)
<1>1. \E i \in 1..Len(s) : s[i].key = k
  BY DEF CachedKeys
<1>2. PositionOf(s, k) \in 1..Len(s) /\ s[PositionOf(s, k)].key = k
  BY <1>1 DEF PositionOf
<1>3. EntryOf(s, k) = s[PositionOf(s, k)]
  BY DEF EntryOf
<1>4. EntryOf(s, k) \in Entries(s)
  BY <1>2, <1>3 DEF Entries
<1> QED BY <1>2, <1>3, <1>4, StoreIs

\* del takes the key's entry out and leaves the others in their order.
LEMMA DelIs ==
  ASSUME NEW K, NEW V, NEW s \in Stores(K, V), NEW k
  PROVE  /\ CacheDel(s, k) \in Stores(K, V)
         /\ Entries(CacheDel(s, k)) = {e \in Entries(s) : e.key # k}
         /\ Len(CacheDel(s, k)) = IF k \in CachedKeys(s) THEN Len(s) - 1 ELSE Len(s)
<1> DEFINE d == CacheDel(s, k)
<1>1. /\ s \in Seq(CacheEntry(K, V)) /\ Len(s) \in Nat
      /\ \A i \in 1..Len(s) : s[i] \in CacheEntry(K, V)
      /\ \A i, j \in 1..Len(s) : s[i].key = s[j].key => i = j
      /\ CachedKeys(s) = {e.key : e \in Entries(s)}
  BY StoreIs
<1>2. CASE k \notin CachedKeys(s)
  BY <1>1, <1>2 DEF CacheDel
<1>3. CASE k \in CachedKeys(s)
  <2> PICK p : p = PositionOf(s, k)
    OBVIOUS
  <2>1. p \in 1..Len(s) /\ s[p].key = k /\ \A i \in 1..Len(s) : s[i].key = k => i = p
    BY <1>3, PositionIs
  <2> PICK a : a = SubSeq(s, 1, p - 1)
    OBVIOUS
  <2> PICK b : b = SubSeq(s, p + 1, Len(s))
    OBVIOUS
  <2>2. d = a \o b
    BY <1>3 DEF CacheDel
  <2>3. /\ a \in Seq(CacheEntry(K, V)) /\ Len(a) = p - 1 /\ \A i \in 1..(p - 1) : a[i] = s[i]
    <3>1. \A i \in 1..(p - 1) : s[i] \in CacheEntry(K, V)
      BY <1>1, <2>1
    <3> QED BY <2>1, <3>1, SubSeqProperties
  <2>4. /\ b \in Seq(CacheEntry(K, V)) /\ Len(b) = Len(s) - p
        /\ \A i \in 1..(Len(s) - p) : b[i] = s[p + i]
    <3>1. \A i \in (p + 1)..Len(s) : s[i] \in CacheEntry(K, V)
      BY <1>1, <2>1
    <3>2. /\ b \in Seq(CacheEntry(K, V))
          /\ Len(b) = IF p + 1 <= Len(s) THEN Len(s) - (p + 1) + 1 ELSE 0
          /\ \A i \in 1..(Len(s) - (p + 1) + 1) : b[i] = s[(p + 1) + i - 1]
      BY <1>1, <2>1, <3>1, SubSeqProperties
    <3> QED BY <1>1, <2>1, <3>2
  <2>5. /\ d \in Seq(CacheEntry(K, V)) /\ Len(d) = Len(s) - 1
        /\ \A i \in 1..(Len(s) - 1) : d[i] = IF i <= p - 1 THEN s[i] ELSE s[i + 1]
    <3>1. /\ d \in Seq(CacheEntry(K, V)) /\ Len(d) = Len(a) + Len(b)
          /\ \A i \in 1..(Len(a) + Len(b)) : d[i] = IF i <= Len(a) THEN a[i] ELSE b[i - Len(a)]
      BY <2>2, <2>3, <2>4, ConcatProperties
    <3> HIDE DEF d
    <3> PICK n : n = Len(s)
      OBVIOUS
    <3>2. n \in Nat /\ p \in 1..n /\ Len(a) + Len(b) = n - 1
      <4>1. n \in Nat /\ p \in 1..n
        BY <1>1, <2>1
      <4>2. p \in Nat /\ p <= n /\ p >= 1
        BY <4>1
      <4>3. Len(a) = p - 1 /\ Len(b) = n - p
        BY <2>3, <2>4
      <4>4. (p - 1) + (n - p) = n - 1
        BY <4>1, <4>2
      <4> QED BY <4>1, <4>3, <4>4
    <3>3. \A i \in 1..(n - 1) : d[i] = IF i <= p - 1 THEN a[i] ELSE b[i - (p - 1)]
      BY <2>3, <3>1, <3>2
    <3>4. ASSUME NEW i \in 1..(n - 1)
          PROVE  d[i] = IF i <= p - 1 THEN s[i] ELSE s[i + 1]
      <4>1. CASE i <= p - 1
        <5>1. i \in 1..(p - 1)
          BY <3>2, <4>1
        <5> QED BY <2>3, <3>3, <4>1, <5>1
      <4>2. CASE ~(i <= p - 1)
        <5>1. i - (p - 1) \in 1..(n - p) /\ p + (i - (p - 1)) = i + 1
          <6>1. n \in Int /\ i \in Int /\ p \in Int
            BY <3>2
          <6>2. i <= n - 1 /\ 1 <= p /\ p <= n
            BY <3>2, <6>1
          <6>3. i >= p
            BY <4>2, <6>1
          <6>4. i - (p - 1) >= 1 /\ i - (p - 1) <= n - p
            BY <6>1, <6>2, <6>3
          <6>5. p + (i - (p - 1)) = i + 1
            BY <6>1
          <6> QED BY <6>1, <6>4, <6>5
        <5>2. b[i - (p - 1)] = s[p + (i - (p - 1))]
          BY <2>4, <5>1
        <5> QED BY <3>3, <4>2, <5>1, <5>2
      <4> QED BY <4>1, <4>2
    <3> QED BY <3>1, <3>2, <3>4
  <2> HIDE DEF d
  <2>6. ASSUME NEW i \in 1..Len(d), NEW j \in 1..Len(d), d[i].key = d[j].key
        PROVE  i = j
    <3> PICK x : x = IF i <= p - 1 THEN i ELSE i + 1
      OBVIOUS
    <3> PICK y : y = IF j <= p - 1 THEN j ELSE j + 1
      OBVIOUS
    <3>1. x \in 1..Len(s) /\ y \in 1..Len(s) /\ d[i] = s[x] /\ d[j] = s[y]
      BY <1>1, <2>1, <2>5
    <3>2. x = y
      BY <1>1, <2>6, <3>1
    <3> QED BY <1>1, <2>1, <2>5, <3>2
  <2>7. ASSUME NEW i \in 1..Len(d)
        PROVE  d[i] \in {e \in Entries(s) : e.key # k}
    <3> PICK x : x = IF i <= p - 1 THEN i ELSE i + 1
      OBVIOUS
    <3>1. x \in 1..Len(s) /\ d[i] = s[x] /\ x # p
      BY <1>1, <2>1, <2>5
    <3> QED BY <2>1, <3>1 DEF Entries
  <2>8. ASSUME NEW x \in 1..Len(s), s[x].key # k
        PROVE  s[x] \in Entries(d)
    <3> PICK i : i = IF x <= p - 1 THEN x ELSE x - 1
      OBVIOUS
    <3>1. x # p
      BY <2>1, <2>8
    <3>2. i \in 1..Len(d) /\ d[i] = s[x]
      BY <1>1, <2>1, <2>5, <3>1
    <3> QED BY <3>2 DEF Entries
  <2>9. Entries(d) = {e \in Entries(s) : e.key # k}
    BY <2>7, <2>8 DEF Entries
  <2>10. d \in Stores(K, V)
    BY <2>5, <2>6 DEF Stores
  <2> QED BY <1>3, <2>5, <2>9, <2>10 DEF d
<1> QED BY <1>2, <1>3

LEMMA AppendIs ==
  ASSUME NEW K, NEW V, NEW s \in Stores(K, V), NEW e \in CacheEntry(K, V),
         e.key \notin CachedKeys(s)
  PROVE  /\ Append(s, e) \in Stores(K, V) /\ Len(Append(s, e)) = Len(s) + 1
         /\ Entries(Append(s, e)) = Entries(s) \cup {e}
         /\ \A i \in 1..Len(s) : Append(s, e)[i] = s[i]
<1> PICK c : c = Append(s, e)
  OBVIOUS
<1>1. /\ s \in Seq(CacheEntry(K, V)) /\ Len(s) \in Nat
      /\ \A i, j \in 1..Len(s) : s[i].key = s[j].key => i = j
      /\ CachedKeys(s) = {x.key : x \in Entries(s)}
  BY StoreIs
<1>2. /\ c \in Seq(CacheEntry(K, V)) /\ Len(c) = Len(s) + 1
      /\ \A i \in 1..Len(s) : c[i] = s[i]
      /\ c[Len(s) + 1] = e
  BY <1>1
<1>3. \A i \in 1..Len(s) : s[i].key # e.key
  BY <1>1 DEF Entries
<1>4. \A i \in 1..Len(c) : i \in 1..Len(s) \/ i = Len(s) + 1
  BY <1>1, <1>2
<1>5. \A i, j \in 1..Len(c) : c[i].key = c[j].key => i = j
  BY <1>1, <1>2, <1>3, <1>4
<1>6. Entries(c) = Entries(s) \cup {e}
  <2>1. Entries(c) \subseteq Entries(s) \cup {e}
    BY <1>2, <1>4 DEF Entries
  <2>2. Len(s) + 1 \in 1..Len(c) /\ \A i \in 1..Len(s) : i \in 1..Len(c)
    BY <1>1, <1>2
  <2>3. Entries(s) \cup {e} \subseteq Entries(c)
    BY <1>2, <2>2 DEF Entries
  <2> QED BY <2>1, <2>3
<1> QED BY <1>2, <1>5, <1>6 DEF Stores

\* Writing over entries in their places.
LEMMA OverwriteIs ==
  ASSUME NEW K, NEW V, NEW s \in Stores(K, V), NEW c \in [1..Len(s) -> CacheEntry(K, V)],
         \A i \in 1..Len(s) : c[i].key = s[i].key
  PROVE  c \in Stores(K, V) /\ Len(c) = Len(s) /\ CachedKeys(c) = CachedKeys(s)
<1>1. /\ Len(s) \in Nat
      /\ \A i, j \in 1..Len(s) : s[i].key = s[j].key => i = j
  BY StoreIs
<1>2. c \in Seq(CacheEntry(K, V)) /\ Len(c) = Len(s)
  BY <1>1
<1>3. CachedKeys(c) = CachedKeys(s)
  BY <1>2 DEF CachedKeys
<1> QED BY <1>1, <1>2, <1>3 DEF Stores

\* get loses nothing but an entry that has expired.
LEMMA GetIs ==
  ASSUME NEW K, NEW V, NEW s \in Stores(K, V), NEW k
  PROVE  /\ CacheGet(s, k) \in Stores(K, V) /\ Len(CacheGet(s, k)) <= Len(s)
         /\ Entries(CacheGet(s, k)) \subseteq Entries(s)
         /\ \A e \in Entries(s) : e.live => e \in Entries(CacheGet(s, k))
<1> PICK d : d = CacheDel(s, k)
  OBVIOUS
<1>1. /\ s \in Seq(CacheEntry(K, V)) /\ Len(s) \in Nat
      /\ CachedKeys(s) = {x.key : x \in Entries(s)}
  BY StoreIs
<1>2. /\ d \in Stores(K, V) /\ Entries(d) = {e \in Entries(s) : e.key # k}
      /\ Len(d) = IF k \in CachedKeys(s) THEN Len(s) - 1 ELSE Len(s)
  BY DelIs
<1>3. CASE CacheHit(s, k)
  <2> PICK e : e = EntryOf(s, k)
    OBVIOUS
  <2>1. k \in CachedKeys(s)
    BY <1>3 DEF CacheHit
  <2>2. /\ e \in CacheEntry(K, V) /\ e \in Entries(s) /\ e.key = k
        /\ PositionOf(s, k) \in 1..Len(s) /\ e = s[PositionOf(s, k)]
        /\ \A i \in 1..Len(s) : s[i].key = k => i = PositionOf(s, k)
    BY <2>1, PositionIs
  <2>3. k \notin CachedKeys(d)
    BY <1>2, StoreIs
  <2>4. CacheGet(s, k) = Append(d, e)
    BY <1>3 DEF CacheGet
  <2>5. /\ Append(d, e) \in Stores(K, V) /\ Len(Append(d, e)) = Len(d) + 1
        /\ Entries(Append(d, e)) = Entries(d) \cup {e}
    BY <1>2, <2>2, <2>3, AppendIs
  <2>6. \A x \in Entries(s) : x.key = k => x = e
    BY <2>2 DEF Entries
  <2>7. Len(d) + 1 = Len(s)
    BY <1>1, <1>2, <2>1
  <2> QED BY <1>1, <1>2, <2>2, <2>4, <2>5, <2>6, <2>7
<1>4. CASE ~CacheHit(s, k)
  <2>1. CacheGet(s, k) = d
    BY <1>4 DEF CacheGet
  <2>2. Len(d) <= Len(s)
    BY <1>1, <1>2
  <2>3. \A x \in Entries(s) : x.live => x.key # k
    <3>1. CASE k \in CachedKeys(s)
      <4>1. /\ EntryOf(s, k) = s[PositionOf(s, k)]
            /\ \A i \in 1..Len(s) : s[i].key = k => i = PositionOf(s, k)
        BY <3>1, PositionIs
      <4>2. ~EntryOf(s, k).live
        BY <1>4, <3>1 DEF CacheHit
      <4> QED BY <4>1, <4>2 DEF Entries
    <3>2. CASE k \notin CachedKeys(s)
      BY <1>1, <3>2
    <3> QED BY <3>1, <3>2
  <2> QED BY <1>2, <2>1, <2>2, <2>3
<1> QED BY <1>3, <1>4

\* A hit finds the value of the key's entry.
LEMMA HitIs ==
  ASSUME NEW K, NEW V, NEW s \in Stores(K, V), NEW k, CacheHit(s, k)
  PROVE  \E i \in 1..Len(s) : s[i].key = k /\ CacheValue(s, k) = s[i].value
<1>1. k \in CachedKeys(s)
  BY DEF CacheHit
<1> QED BY <1>1, PositionIs DEF CacheValue

\* set keeps the bound and drops nothing but the first entry of a full store.
LEMMA SetIs ==
  ASSUME NEW K, NEW V, NEW s \in Stores(K, V), NEW max \in Nat \ {0}, Len(s) <= max,
         NEW k \in K, NEW v \in V
  PROVE  /\ CacheSet(s, max, k, v) \in Stores(K, V) /\ Len(CacheSet(s, max, k, v)) <= max
         /\ Entries(CacheSet(s, max, k, v))
              \subseteq Entries(s) \cup {[key |-> k, value |-> v, live |-> TRUE]}
         /\ \A i \in 1..Len(s) : \/ s[i].key \in CachedKeys(CacheSet(s, max, k, v))
                                 \/ i = 1 /\ Len(s) = max
<1>entry. PICK entry : entry = [key |-> k, value |-> v, live |-> TRUE]
  OBVIOUS
<1>room. PICK room : room = IF Len(s) >= max /\ s # <<>> THEN Tail(s) ELSE s
  OBVIOUS
<1>c. PICK c : c = CacheSet(s, max, k, v)
  OBVIOUS
<1> SUFFICES /\ c \in Stores(K, V) /\ Len(c) <= max
             /\ Entries(c) \subseteq Entries(s) \cup {entry}
             /\ \A i \in 1..Len(s) : s[i].key \in CachedKeys(c) \/ (i = 1 /\ Len(s) = max)
  BY <1>entry, <1>c
<1>1. /\ s \in Seq(CacheEntry(K, V)) /\ Len(s) \in Nat
      /\ \A i, j \in 1..Len(s) : s[i].key = s[j].key => i = j
  BY StoreIs
<1>2. entry \in CacheEntry(K, V) /\ entry.key = k
  BY <1>entry DEF CacheEntry
<1>3. /\ room \in Stores(K, V) /\ Len(room) < max /\ Entries(room) \subseteq Entries(s)
      /\ \A i \in 1..Len(s) : s[i] \in Entries(room) \/ (i = 1 /\ Len(s) = max)
  <2>1. CASE Len(s) = max
    <3>1. s # <<>> /\ room = Tail(s)
      BY <1>1, <1>room, <2>1
    <3>2. /\ room \in Seq(CacheEntry(K, V)) /\ Len(room) = Len(s) - 1
          /\ \A i \in 1..Len(room) : room[i] = s[i + 1]
      BY <1>1, <3>1
    <3>3. \A i \in 1..Len(room) : i + 1 \in 1..Len(s)
      BY <1>1, <3>2
    <3>4. \A i, j \in 1..Len(room) : room[i].key = room[j].key => i = j
      <4> SUFFICES ASSUME NEW i \in 1..Len(room), NEW j \in 1..Len(room),
                          room[i].key = room[j].key
                   PROVE  i = j
        OBVIOUS
      <4>1. i + 1 = j + 1
        BY <1>1, <3>2, <3>3
      <4> QED BY <1>1, <3>2, <4>1
    <3>5. \A i \in 1..Len(s) : i # 1 => s[i] \in Entries(room)
      <4> SUFFICES ASSUME NEW i \in 1..Len(s), i # 1
                   PROVE  s[i] \in Entries(room)
        OBVIOUS
      <4>1. i - 1 \in 1..Len(room) /\ (i - 1) + 1 = i
        BY <1>1, <3>2
      <4>2. room[i - 1] = s[(i - 1) + 1]
        BY <3>2, <4>1
      <4> QED BY <4>1, <4>2 DEF Entries
    <3>6. Entries(room) \subseteq Entries(s)
      BY <3>2, <3>3 DEF Entries
    <3>7. Len(room) < max
      BY <1>1, <2>1, <3>2
    <3> QED BY <2>1, <3>2, <3>4, <3>5, <3>6, <3>7 DEF Stores
  <2>2. CASE Len(s) # max
    <3>1. room = s /\ Len(s) < max
      BY <1>1, <1>room, <2>2
    <3> QED BY <3>1 DEF Entries
  <2> QED BY <2>1, <2>2
<1>4. Len(room) \in Nat /\ CachedKeys(room) = {x.key : x \in Entries(room)}
  BY <1>3, StoreIs
<1>5. CASE k \in CachedKeys(room)
  <2>1. c = [i \in 1..Len(room) |-> IF room[i].key = k THEN entry ELSE room[i]]
    BY <1>5, <1>entry, <1>room, <1>c DEF CacheSet
  <2>2. \A i \in 1..Len(room) : room[i] \in CacheEntry(K, V)
    BY <1>3, StoreIs
  <2>3. c \in [1..Len(room) -> CacheEntry(K, V)]
    BY <1>2, <2>1, <2>2
  <2>4. \A i \in 1..Len(room) : c[i].key = room[i].key
    BY <1>2, <2>1
  <2>5. c \in Stores(K, V) /\ Len(c) = Len(room) /\ CachedKeys(c) = CachedKeys(room)
    <3>1. room \in Stores(K, V)
      BY <1>3
    <3> QED BY <2>3, <2>4, <3>1, OverwriteIs
  <2>6. Entries(c) \subseteq Entries(room) \cup {entry}
    BY <2>1, <2>5 DEF Entries
  <2>7. Len(c) <= max
    BY <1>3, <1>4, <2>5
  <2>8. \A x \in Entries(room) : x.key \in CachedKeys(c)
    BY <1>4, <2>5
  <2> QED BY <1>3, <2>5, <2>6, <2>7, <2>8
<1>6. CASE k \notin CachedKeys(room)
  <2>1. c = Append(room, entry)
    BY <1>6, <1>entry, <1>room, <1>c DEF CacheSet
  <2>2. /\ c \in Stores(K, V) /\ Len(c) = Len(room) + 1
        /\ Entries(c) = Entries(room) \cup {entry}
    <3>1. room \in Stores(K, V) /\ entry.key \notin CachedKeys(room)
      BY <1>2, <1>3, <1>6
    <3>2. /\ Append(room, entry) \in Stores(K, V) /\ Len(Append(room, entry)) = Len(room) + 1
          /\ Entries(Append(room, entry)) = Entries(room) \cup {entry}
      BY <1>2, <3>1, AppendIs
    <3> QED BY <2>1, <3>2
  <2>3. Len(c) <= max
    BY <1>3, <1>4, <2>2
  <2>4. CachedKeys(c) = {x.key : x \in Entries(c)}
    BY <2>2, StoreIs
  <2> QED BY <1>3, <2>2, <2>3, <2>4
<1> QED BY <1>5, <1>6

\* The end of an entry's ttl takes no key out.
LEMMA LapseIs ==
  ASSUME NEW K, NEW V, NEW s \in Stores(K, V), NEW k
  PROVE  /\ CacheLapse(s, k) \in Stores(K, V) /\ Len(CacheLapse(s, k)) = Len(s)
         /\ CachedKeys(CacheLapse(s, k)) = CachedKeys(s)
         /\ \A i \in 1..Len(s) : /\ CacheLapse(s, k)[i].key = s[i].key
                                 /\ CacheLapse(s, k)[i].value = s[i].value
<1> PICK c : c = CacheLapse(s, k)
  OBVIOUS
<1>1. \A i \in 1..Len(s) : s[i] \in CacheEntry(K, V)
  BY StoreIs
<1>2. /\ c \in [1..Len(s) -> CacheEntry(K, V)]
      /\ \A i \in 1..Len(s) : c[i].key = s[i].key /\ c[i].value = s[i].value
  BY <1>1 DEF CacheLapse, CacheEntry
<1> QED BY <1>2, OverwriteIs

-----------------------------------------------------------------------------
(* Requests, and what was asked for *)

UpdatePCs == {"delete", "insert"}

LEMMA IdleIs == Idle \in Request /\ Idle.pc = "idle"
BY DEF Idle, Request, PCs

LEMMA RequestIs ==
  ASSUME Typed, NEW r \in Requests
  PROVE  /\ req[r] \in Request /\ req[r].pc \in PCs /\ req[r].role \in Roles \cup {Null}
         /\ req[r].keys \in SUBSET Keys /\ req[r].user \in Users \cup {Null}
BY DEF Typed, Request

LEMMA EntryIs ==
  ASSUME Cached
  PROVE  /\ \A i \in 1..Len(cache) :
              /\ cache[i].key \in Users /\ cache[i].value \in SUBSET Keys
              /\ cache[i] \in CacheEntry(Users, SUBSET Keys)
         /\ CachedKeys(cache) \subseteq Users
<1>1. cache \in Stores(Users, SUBSET Keys)
  BY DEF Cached
<1>2. \A i \in 1..Len(cache) : /\ cache[i].key \in Users /\ cache[i].value \in SUBSET Keys
                               /\ cache[i] \in CacheEntry(Users, SUBSET Keys)
  BY <1>1, StoreIs
<1> QED BY <1>2 DEF CachedKeys

LEMMA OfUserTyped ==
  ASSUME Typed, NEW u \in Users
  PROVE  OfUser(u) \subseteq SUBSET Keys /\ {} \in OfUser(u) /\ Null \notin OfUser(u)
<1>1. \A n \in Roles : Unions(n) \subseteq SUBSET Keys
  BY DEF Typed, Unions
<1>2. assigned[u] \subseteq Roles
  BY DEF Typed
<1>3. OfUser(u) \subseteq SUBSET Keys
  BY <1>1, <1>2 DEF OfUser
<1> QED BY <1>3, NullAssumption DEF OfUser

\* What was asked for stays asked for, and roles stay assigned.
Grows ==
  /\ \A n \in Roles : asked[n] \subseteq asked'[n]
  /\ \A u \in Users : assigned[u] \subseteq assigned'[u]

LEMMA UnionsGrow ==
  ASSUME Typed, Grows
  PROVE  /\ \A n \in Roles : Unions(n) \subseteq Unions(n)'
         /\ \A u \in Users : OfUser(u) \subseteq OfUser(u)'
<1>1. \A n \in Roles : Unions(n) \subseteq Unions(n)'
  BY DEF Unions, Grows
<1>2. ASSUME NEW u \in Users
      PROVE  OfUser(u) \subseteq OfUser(u)'
  <2>1. assigned[u] \subseteq Roles /\ assigned[u] \subseteq assigned'[u]
    BY DEF Typed, Grows
  <2> QED BY <1>1, <2>1 DEF OfUser
<1> QED BY <1>1, <1>2

\* The union of the sets a user's roles have was asked for.
LEMMA ReadIsAsked ==
  ASSUME IInv, NEW u \in Users
  PROVE  UNION {grants[n] : n \in assigned[u]} \in OfUser(u)
<1>1. CASE assigned[u] = {}
  <2>1. UNION {grants[n] : n \in assigned[u]} = {}
    BY <1>1
  <2> QED BY <2>1 DEF OfUser
<1>2. ASSUME NEW n \in Roles, assigned[u] = {n}
      PROVE  UNION {grants[m] : m \in assigned[u]} \in OfUser(u)
  <2>1. UNION {grants[m] : m \in assigned[u]} = grants[n]
    BY <1>2
  <2>2. grants[n] \in Unions(n)
    BY DEF IInv, Asked
  <2> QED BY <1>2, <2>1, <2>2 DEF OfUser
<1> QED BY <1>1, <1>2 DEF IInv, OneRole

LEMMA UndisturbedStays ==
  ASSUME Undisturbed, grants' = grants, answered' = answered, disturbed' = disturbed,
         \A x \in Requests : \/ req'[x] = req[x]
                             \/ req[x].pc \notin UpdatePCs /\ req'[x].pc \notin UpdatePCs
  PROVE  Undisturbed'
<1>1. \A n : Updating(n)' = Updating(n)
  BY DEF Updating, UpdatePCs
<1>2. ASSUME NEW n, NEW x \in Updating(n)
      PROVE  req'[x] = req[x]
  BY DEF Updating, UpdatePCs
<1> QED BY <1>1, <1>2 DEF Undisturbed

\* A step that changes no role's permissions: what it stores in the cache or a
\* token is the user's, and requests remember where they are.
LEMMA CalmStep ==
  ASSUME IInv, UNCHANGED <<grants, assigned, asked, answered, disturbed>>,
         req' \in [Requests -> Request], \A x \in Requests : Remembers(req'[x]),
         \A x \in Requests : \/ req'[x] = req[x]
                             \/ req[x].pc \notin UpdatePCs /\ req'[x].pc \notin UpdatePCs,
         roles' \subseteq Roles, perms' \subseteq Keys,
         updates' \in 0..MaxUpdates, fails' \in 0..MaxFails, Cached',
         \A i \in 1..Len(cache') : cache'[i].value \in OfUser(cache'[i].key),
         claims' \in [Users -> (SUBSET Keys) \cup {Null}],
         \A u \in Users : claims'[u] # Null => claims'[u] \in OfUser(u)
  PROVE  IInv'
<1>2. Typed'
  BY DEF IInv, Typed
<1>3. \A n : Unions(n)' = Unions(n)
  BY DEF Unions
<1>4. \A u : OfUser(u)' = OfUser(u)
  BY DEF OfUser, Unions
<1>5. Asked'
  BY <1>3, <1>4 DEF IInv, Asked
<1>6. OneRole'
  BY DEF IInv, OneRole
<1>7. ASSUME NEW p, Remembers(p)
      PROVE  Remembers(p)'
  BY <1>4, <1>7 DEF Remembers
<1>8. InFlight'
  <2> SUFFICES ASSUME NEW x \in Requests PROVE Remembers(req[x])'
    BY DEF InFlight
  <2> PICK p : p = req'[x]
    OBVIOUS
  <2>1. Remembers(p)
    OBVIOUS
  <2>2. Remembers(p)'
    BY <1>7, <2>1
  <2> QED BY <1>4, <2>1 DEF Remembers
<1>9. Undisturbed'
  <2>1. Undisturbed
    BY DEF IInv
  <2> QED BY <2>1, UndisturbedStays
<1> QED BY <1>2, <1>5, <1>6, <1>8, <1>9 DEF IInv

\* The same for a step of one request.
LEMMA QuietStep ==
  ASSUME IInv, NEW r \in Requests, NEW q \in Request, req' = [req EXCEPT ![r] = q],
         req[r].pc \notin UpdatePCs, q.pc \notin UpdatePCs, Remembers(q),
         UNCHANGED <<grants, assigned, asked, answered, disturbed>>,
         roles' \subseteq Roles, perms' \subseteq Keys,
         updates' \in 0..MaxUpdates, fails' \in 0..MaxFails, Cached',
         \A i \in 1..Len(cache') : cache'[i].value \in OfUser(cache'[i].key),
         claims' \in [Users -> (SUBSET Keys) \cup {Null}],
         \A u \in Users : claims'[u] # Null => claims'[u] \in OfUser(u)
  PROVE  IInv'
<1>1. /\ req' \in [Requests -> Request] /\ req'[r] = q
      /\ \A x \in Requests : x # r => req'[x] = req[x]
  BY DEF IInv, Typed
<1>2. \A x \in Requests : Remembers(req'[x])
  BY <1>1 DEF IInv, InFlight
<1>3. \A x \in Requests : \/ req'[x] = req[x]
                          \/ req[x].pc \notin UpdatePCs /\ req'[x].pc \notin UpdatePCs
  BY <1>1
<1> QED BY <1>1, <1>2, <1>3, CalmStep

LEMMA CreateRoleInvariant ==
  ASSUME IInv, NEW r \in Requests, NEW n \in Roles, CreateRole(r, n)
  PROVE  IInv'
<1> PICK q : q = [Idle EXCEPT !.pc = "insertRole", !.role = n]
  OBVIOUS
<1>1. q \in Request /\ q.pc = "insertRole" /\ q.role = n
  BY IdleIs DEF Request, PCs, Idle
<1>2. Remembers(q)
  BY <1>1 DEF Remembers
<1>3. /\ req' = [req EXCEPT ![r] = q] /\ req[r].pc = "idle" /\ UNCHANGED <<tables, history>>
      /\ UNCHANGED <<cache, claims, updates, fails>>
  BY DEF CreateRole, At
<1> QED BY <1>1, <1>2, <1>3, QuietStep DEF UpdatePCs, tables, history, IInv, Typed, Cached, Asked

LEMMA CreatePermissionInvariant ==
  ASSUME IInv, NEW r \in Requests, NEW k \in Keys, CreatePermission(r, k)
  PROVE  IInv'
<1> PICK q : q = [Idle EXCEPT !.pc = "insertKey", !.keys = {k}]
  OBVIOUS
<1>1. q \in Request /\ q.pc = "insertKey"
  BY IdleIs DEF Request, PCs, Idle
<1>2. Remembers(q)
  BY <1>1 DEF Remembers
<1>3. /\ req' = [req EXCEPT ![r] = q] /\ req[r].pc = "idle" /\ UNCHANGED <<tables, history>>
      /\ UNCHANGED <<cache, claims, updates, fails>>
  BY DEF CreatePermission, At
<1> QED BY <1>1, <1>2, <1>3, QuietStep DEF UpdatePCs, tables, history, IInv, Typed, Cached, Asked

LEMMA IdleRemembers == Remembers(Idle)
BY IdleIs DEF Remembers

LEMMA InsertRoleInvariant ==
  ASSUME IInv, NEW r \in Requests, InsertRole(r)
  PROVE  IInv'
<1>1. req[r].role \in Roles
  BY DEF InsertRole, At, IInv, InFlight, Remembers
<1>2. /\ req' = [req EXCEPT ![r] = Idle] /\ req[r].pc = "insertRole"
      /\ roles' = roles \cup {req[r].role}
      /\ UNCHANGED <<perms, grants, assigned, history, cache, claims, updates, fails>>
  BY DEF InsertRole, At, Finish
<1>3. roles' \subseteq Roles
  BY <1>1, <1>2 DEF IInv, Typed
<1> QED BY <1>2, <1>3, IdleIs, IdleRemembers, QuietStep
        DEF UpdatePCs, history, IInv, Typed, Cached, Asked

LEMMA InsertKeyInvariant ==
  ASSUME IInv, NEW r \in Requests, InsertKey(r)
  PROVE  IInv'
<1>1. req[r].keys \in SUBSET Keys
  BY RequestIs DEF IInv
<1>2. /\ req' = [req EXCEPT ![r] = Idle] /\ req[r].pc = "insertKey"
      /\ perms' = perms \cup req[r].keys
      /\ UNCHANGED <<roles, grants, assigned, history, cache, claims, updates, fails>>
  BY DEF InsertKey, At, Finish
<1>3. perms' \subseteq Keys
  BY <1>1, <1>2 DEF IInv, Typed
<1> QED BY <1>2, <1>3, IdleIs, IdleRemembers, QuietStep
        DEF UpdatePCs, history, IInv, Typed, Cached, Asked

\* A call returns what was asked for: so has the token that is signed with it.
LEMMA ReturnIs ==
  ASSUME IInv, NEW r \in Requests, NEW u \in Users, NEW forToken \in BOOLEAN,
         NEW ps \in OfUser(u), Return(r, u, forToken, ps)
  PROVE  /\ req' = [req EXCEPT ![r] = Idle]
         /\ claims' \in [Users -> (SUBSET Keys) \cup {Null}]
         /\ \A x \in Users : claims'[x] # Null => claims'[x] \in OfUser(x)
<1>1. ps \in SUBSET Keys
  BY OfUserTyped DEF IInv
<1>2. claims \in [Users -> (SUBSET Keys) \cup {Null}]
  BY DEF IInv, Typed
<1>3. claims' = IF forToken THEN [claims EXCEPT ![u] = ps] ELSE claims
  BY DEF Return
<1>4. \A x \in Users : claims[x] # Null => claims[x] \in OfUser(x)
  BY DEF IInv, Asked
<1>5. claims' \in [Users -> (SUBSET Keys) \cup {Null}]
  BY <1>1, <1>2, <1>3
<1>6. ASSUME NEW x \in Users, claims'[x] # Null
      PROVE  claims'[x] \in OfUser(x)
  BY <1>2, <1>3, <1>4, <1>6
<1> QED BY <1>5, <1>6 DEF Return, Finish

LEMMA GetPermissionsInvariant ==
  ASSUME IInv, NEW r \in Requests, NEW u \in Users, NEW forToken \in BOOLEAN,
         GetPermissions(r, u, forToken)
  PROVE  IInv'
<1>1. cache \in Stores(Users, SUBSET Keys) /\ Len(cache) <= MaxEntries
  BY DEF IInv, Cached
<1>2. /\ cache' = CacheGet(cache, u) /\ req[r].pc = "idle"
      /\ UNCHANGED <<tables, updates, fails, history>>
  BY DEF GetPermissions, At
<1>3. /\ cache' \in Stores(Users, SUBSET Keys) /\ Len(cache') <= Len(cache)
      /\ Entries(cache') \subseteq Entries(cache)
  BY <1>1, <1>2, GetIs
<1>4. Cached'
  <2>1. Len(cache) \in Nat /\ Len(cache') \in Nat
    BY <1>1, <1>3, StoreIs
  <2> QED BY <1>1, <1>3, <2>1, BoundsAssumption DEF Cached
<1>5. \A i \in 1..Len(cache') : cache'[i].value \in OfUser(cache'[i].key)
  <2>1. \A e \in Entries(cache) : e.value \in OfUser(e.key)
    BY DEF IInv, Asked, Entries
  <2>2. \A i \in 1..Len(cache') : cache'[i] \in Entries(cache)
    BY <1>3 DEF Entries
  <2> QED BY <2>1, <2>2
<1>6. CASE CacheHit(cache, u)
  <2>1. Return(r, u, forToken, CacheValue(cache, u))
    BY <1>6 DEF GetPermissions
  <2>2. CacheValue(cache, u) \in OfUser(u)
    <3>1. PICK i \in 1..Len(cache) : cache[i].key = u /\ CacheValue(cache, u) = cache[i].value
      BY <1>1, <1>6, HitIs
    <3> QED BY <3>1 DEF IInv, Asked
  <2>3. /\ req' = [req EXCEPT ![r] = Idle]
        /\ claims' \in [Users -> (SUBSET Keys) \cup {Null}]
        /\ \A x \in Users : claims'[x] # Null => claims'[x] \in OfUser(x)
    BY <2>1, <2>2, ReturnIs
  <2> QED BY <1>2, <1>4, <1>5, <2>3, IdleIs, IdleRemembers, QuietStep
          DEF UpdatePCs, tables, history, IInv, Typed
<1>7. CASE ~CacheHit(cache, u)
  <2> PICK q : q = [Idle EXCEPT !.pc = "readRoles", !.user = u, !.forToken = forToken]
    OBVIOUS
  <2>1. q \in Request /\ q.pc = "readRoles" /\ q.user = u
    BY IdleIs DEF Request, PCs, Idle
  <2>2. Remembers(q)
    BY <2>1 DEF Remembers
  <2>3. req' = [req EXCEPT ![r] = q] /\ claims' = claims
    BY <1>7 DEF GetPermissions
  <2> QED BY <1>2, <1>4, <1>5, <2>1, <2>2, <2>3, QuietStep
          DEF UpdatePCs, tables, history, IInv, Typed, Asked
<1> QED BY <1>6, <1>7

LEMMA ReadRolesInvariant ==
  ASSUME IInv, NEW r \in Requests, ReadRoles(r)
  PROVE  IInv'
<1> PICK u : u = req[r].user
  OBVIOUS
<1>1. u \in Users /\ req[r].pc = "readRoles" /\ req[r] \in Request
  BY RequestIs DEF ReadRoles, At, IInv, InFlight, Remembers
<1>2. UNCHANGED <<tables, cache, updates, fails, history>> /\ Cached'
  BY DEF ReadRoles, IInv, Cached
<1>3. CASE assigned[u] = {}
  <2>1. Return(r, u, req[r].forToken, {})
    BY <1>3 DEF ReadRoles
  <2>2. {} \in OfUser(u) /\ req[r].forToken \in BOOLEAN
    BY <1>1 DEF OfUser, Request
  <2>3. /\ req' = [req EXCEPT ![r] = Idle]
        /\ claims' \in [Users -> (SUBSET Keys) \cup {Null}]
        /\ \A x \in Users : claims'[x] # Null => claims'[x] \in OfUser(x)
    BY <1>1, <2>1, <2>2, ReturnIs
  <2> QED BY <1>1, <1>2, <2>3, IdleIs, IdleRemembers, QuietStep
          DEF UpdatePCs, tables, history, IInv, Typed, Asked
<1>4. CASE assigned[u] # {}
  <2> PICK q : q = [req[r] EXCEPT !.pc = "readGrants", !.got = assigned[u]]
    OBVIOUS
  <2>1. q \in Request /\ q.pc = "readGrants" /\ q.user = u /\ q.got = assigned[u]
    <3>1. assigned[u] \in (SUBSET Keys) \cup SUBSET Roles /\ "readGrants" \in PCs
      BY <1>1 DEF IInv, Typed, PCs
    <3>2. q \in Request
      BY <1>1, <3>1 DEF Request
    <3> QED BY <1>1, <3>2 DEF Request
  <2>2. Remembers(q)
    BY <1>1, <1>4, <2>1 DEF Remembers
  <2>3. req' = [req EXCEPT ![r] = q] /\ claims' = claims
    <3>1. /\ req' = [req EXCEPT ![r].pc = "readGrants", ![r].got = assigned[u]]
          /\ claims' = claims
      BY <1>4 DEF ReadRoles
    <3> QED BY <3>1 DEF IInv, Typed
  <2> QED BY <1>1, <1>2, <2>1, <2>2, <2>3, QuietStep
          DEF UpdatePCs, tables, history, IInv, Typed, Asked
<1> QED BY <1>3, <1>4

LEMMA ReadGrantsInvariant ==
  ASSUME IInv, NEW r \in Requests, ReadGrants(r)
  PROVE  IInv'
<1> PICK u : u = req[r].user
  OBVIOUS
<1> PICK ps : ps = UNION {grants[n] : n \in req[r].got}
  OBVIOUS
<1>1. /\ u \in Users /\ req[r].pc = "readGrants" /\ req[r] \in Request
      /\ req[r].got = assigned[u]
  BY RequestIs DEF ReadGrants, At, IInv, InFlight, Remembers
<1>2. UNCHANGED <<tables, cache, updates, fails, history>> /\ Cached'
  BY DEF ReadGrants, IInv, Cached
<1>3. ps \in OfUser(u) /\ ps \in SUBSET Keys
  BY <1>1, ReadIsAsked, OfUserTyped DEF IInv
<1>4. CASE ps = {}
  <2>1. Return(r, u, req[r].forToken, {})
    BY <1>4 DEF ReadGrants
  <2>2. {} \in OfUser(u) /\ req[r].forToken \in BOOLEAN
    BY <1>1 DEF OfUser, Request
  <2>3. /\ req' = [req EXCEPT ![r] = Idle]
        /\ claims' \in [Users -> (SUBSET Keys) \cup {Null}]
        /\ \A x \in Users : claims'[x] # Null => claims'[x] \in OfUser(x)
    BY <1>1, <2>1, <2>2, ReturnIs
  <2> QED BY <1>1, <1>2, <2>3, IdleIs, IdleRemembers, QuietStep
          DEF UpdatePCs, tables, history, IInv, Typed, Asked
<1>5. CASE ps # {}
  <2> PICK q : q = [req[r] EXCEPT !.pc = "store", !.got = ps]
    OBVIOUS
  <2>1. q \in Request /\ q.pc = "store" /\ q.user = u /\ q.got = ps
    BY <1>1, <1>3 DEF Request, PCs
  <2>2. Remembers(q)
    BY <1>1, <1>3, <2>1 DEF Remembers
  <2>3. req' = [req EXCEPT ![r] = q] /\ claims' = claims
    <3>1. /\ req' = [req EXCEPT ![r].pc = "store", ![r].got = ps] /\ claims' = claims
      BY <1>5 DEF ReadGrants
    <3> QED BY <3>1 DEF IInv, Typed
  <2> QED BY <1>1, <1>2, <2>1, <2>2, <2>3, QuietStep
          DEF UpdatePCs, tables, history, IInv, Typed, Asked
<1> QED BY <1>4, <1>5

LEMMA StorePermissionsInvariant ==
  ASSUME IInv, NEW r \in Requests, StorePermissions(r)
  PROVE  IInv'
<1> PICK u : u = req[r].user
  OBVIOUS
<1> PICK ps : ps = req[r].got
  OBVIOUS
<1>1. u \in Users /\ req[r].pc = "store" /\ req[r] \in Request /\ ps \in OfUser(u)
  BY RequestIs DEF StorePermissions, At, IInv, InFlight, Remembers
<1>2. /\ cache' = CacheSet(cache, MaxEntries, u, ps) /\ Return(r, u, req[r].forToken, ps)
      /\ UNCHANGED <<tables, updates, fails, history>>
  BY DEF StorePermissions
<1>3. ps \in SUBSET Keys
  BY <1>1, OfUserTyped DEF IInv
<1>4. cache \in Stores(Users, SUBSET Keys) /\ Len(cache) <= MaxEntries
  BY DEF IInv, Cached
<1>5. /\ cache' \in Stores(Users, SUBSET Keys) /\ Len(cache') <= MaxEntries
      /\ Entries(cache') \subseteq Entries(cache) \cup {[key |-> u, value |-> ps, live |-> TRUE]}
  BY <1>1, <1>2, <1>3, <1>4, SetIs, BoundsAssumption
<1>6. \A i \in 1..Len(cache') : cache'[i].value \in OfUser(cache'[i].key)
  <2>1. \A e \in Entries(cache) : e.value \in OfUser(e.key)
    BY DEF IInv, Asked, Entries
  <2>2. \A e \in Entries(cache') : e.value \in OfUser(e.key)
    BY <1>1, <1>5, <2>1
  <2> QED BY <2>2 DEF Entries
<1>7. req[r].forToken \in BOOLEAN
  BY <1>1 DEF Request
<1>8. /\ req' = [req EXCEPT ![r] = Idle]
      /\ claims' \in [Users -> (SUBSET Keys) \cup {Null}]
      /\ \A x \in Users : claims'[x] # Null => claims'[x] \in OfUser(x)
  BY <1>1, <1>2, <1>7, ReturnIs
<1>9. Cached'
  BY <1>5 DEF Cached
<1> QED BY <1>1, <1>2, <1>6, <1>8, <1>9, IdleIs, IdleRemembers, QuietStep
        DEF UpdatePCs, tables, history, IInv, Typed

LEMMA AssignRoleInvariant ==
  ASSUME IInv, NEW u \in Users, NEW n \in Roles, AssignRole(u, n)
  PROVE  IInv'
<1>1. /\ assigned' = [assigned EXCEPT ![u] = {n}] /\ assigned[u] = {} /\ req' = req
      /\ UNCHANGED <<roles, perms, grants, cache, claims, updates, fails, history>>
  BY DEF AssignRole
<1>2. Typed'
  BY <1>1 DEF IInv, Typed, history
<1>3. Grows
  BY <1>1 DEF Grows, history, IInv, Typed
<1>4. /\ \A m \in Roles : Unions(m) \subseteq Unions(m)'
      /\ \A x \in Users : OfUser(x) \subseteq OfUser(x)'
  BY <1>3, UnionsGrow DEF IInv
<1>5. Cached'
  BY <1>1 DEF IInv, Cached
<1>6. Asked'
  <2>1. \A i \in 1..Len(cache) : cache[i].key \in Users
    BY EntryIs DEF IInv
  <2>2. /\ \A m \in Roles : grants[m] \in Unions(m)
        /\ \A i \in 1..Len(cache) : cache[i].value \in OfUser(cache[i].key)
        /\ \A x \in Users : claims[x] # Null => claims[x] \in OfUser(x)
    BY DEF IInv, Asked
  <2>3. \A m \in Roles : grants'[m] \in Unions(m)'
    BY <1>1, <1>4, <2>2
  <2>4. ASSUME NEW x \in Users, claims'[x] # Null PROVE claims'[x] \in OfUser(x)'
    BY <1>1, <1>4, <2>2, <2>4
  <2>5. ASSUME NEW i \in 1..Len(cache) PROVE cache[i].value \in OfUser(cache[i].key)'
    <3> PICK x : x = cache[i].key
      OBVIOUS
    <3>1. x \in Users /\ cache[i].value \in OfUser(x)
      BY <2>1, <2>2
    <3>2. cache[i].value \in OfUser(x)'
      BY <1>4, <3>1
    <3> QED BY <1>1, <3>2 DEF OfUser
  <2> QED BY <1>1, <2>3, <2>4, <2>5 DEF Asked
<1>7. OneRole'
  BY <1>1 DEF IInv, OneRole, Typed
<1>8. InFlight'
  <2> SUFFICES ASSUME NEW x \in Requests PROVE Remembers(req[x])'
    BY DEF InFlight
  <2>1. Remembers(req[x])
    BY DEF IInv, InFlight
  <2>2. req[x].pc = "readGrants" => req[x].user # u
    BY <1>1, <2>1 DEF Remembers
  <2>3. req[x].pc = "readGrants" => req[x].got = assigned'[req[x].user]
    BY <1>1, <2>1, <2>2 DEF Remembers, IInv, Typed
  <2>4. req[x].pc = "store" => req[x].got \in OfUser(req[x].user)'
    <3> PICK v : v = req[x].user
      OBVIOUS
    <3>1. req[x].pc = "store" => v \in Users /\ req[x].got \in OfUser(v)
      BY <2>1 DEF Remembers
    <3>2. req[x].pc = "store" => req[x].got \in OfUser(v)'
      BY <1>4, <3>1
    <3> QED BY <1>1, <3>2 DEF OfUser
  <2> QED BY <1>1, <2>1, <2>3, <2>4 DEF Remembers, history
<1>9. Undisturbed'
  BY <1>1, UndisturbedStays DEF IInv, history
<1> QED BY <1>2, <1>5, <1>6, <1>7, <1>8, <1>9 DEF IInv

LEMMA LapseEntryInvariant ==
  ASSUME IInv, NEW u \in Users, LapseEntry(u)
  PROVE  IInv'
<1>1. /\ cache' = CacheLapse(cache, u)
      /\ UNCHANGED <<roles, perms, grants, assigned, asked, answered, disturbed>>
      /\ UNCHANGED <<claims, req, updates, fails>>
  BY DEF LapseEntry, tables, history
<1>2. cache \in Stores(Users, SUBSET Keys) /\ Len(cache) <= MaxEntries
  BY DEF IInv, Cached
<1>3. /\ cache' \in Stores(Users, SUBSET Keys) /\ Len(cache') = Len(cache)
      /\ \A i \in 1..Len(cache) : /\ cache'[i].key = cache[i].key
                                  /\ cache'[i].value = cache[i].value
  BY <1>1, <1>2, LapseIs
<1>4. Cached'
  BY <1>2, <1>3 DEF Cached
<1>5. \A i \in 1..Len(cache') : cache'[i].value \in OfUser(cache'[i].key)
  BY <1>3 DEF IInv, Asked
<1>6. \A x \in Requests : Remembers(req'[x])
  BY <1>1 DEF IInv, InFlight
<1>7. \A x \in Users : claims'[x] # Null => claims'[x] \in OfUser(x)
  BY <1>1 DEF IInv, Asked
<1>8. Typed
  BY DEF IInv
<1> QED BY <1>1, <1>4, <1>5, <1>6, <1>7, <1>8, CalmStep DEF Typed

LEMMA LapseTokenInvariant ==
  ASSUME IInv, NEW u \in Users, LapseToken(u)
  PROVE  IInv'
<1>1. /\ claims' = [claims EXCEPT ![u] = Null]
      /\ UNCHANGED <<roles, perms, grants, assigned, asked, answered, disturbed>>
      /\ UNCHANGED <<cache, req, updates, fails>>
  BY DEF LapseToken, tables, history
<1>2. /\ claims' \in [Users -> (SUBSET Keys) \cup {Null}]
      /\ \A x \in Users : claims'[x] # Null => claims'[x] = claims[x]
  BY <1>1 DEF IInv, Typed
<1>3. Cached'
  BY <1>1 DEF IInv, Cached
<1>4. \A i \in 1..Len(cache') : cache'[i].value \in OfUser(cache'[i].key)
  BY <1>1 DEF IInv, Asked
<1>5. \A x \in Requests : Remembers(req'[x])
  BY <1>1 DEF IInv, InFlight
<1>6. \A x \in Users : claims'[x] # Null => claims'[x] \in OfUser(x)
  BY <1>2 DEF IInv, Asked
<1>7. Typed
  BY DEF IInv
<1> QED BY <1>1, <1>2, <1>3, <1>4, <1>5, <1>6, <1>7, CalmStep DEF Typed
LEMMA StutterInvariant ==
  ASSUME IInv, UNCHANGED vars
  PROVE  IInv'
<1>1. /\ UNCHANGED <<roles, perms, grants, assigned, asked, answered, disturbed>>
      /\ UNCHANGED <<cache, claims, req, updates, fails>>
  BY DEF vars, tables, history
<1>2. Cached'
  BY <1>1 DEF IInv, Cached
<1>3. /\ \A i \in 1..Len(cache') : cache'[i].value \in OfUser(cache'[i].key)
      /\ \A x \in Users : claims'[x] # Null => claims'[x] \in OfUser(x)
  BY <1>1 DEF IInv, Asked
<1>4. \A x \in Requests : Remembers(req'[x])
  BY <1>1 DEF IInv, InFlight
<1>5. Typed
  BY DEF IInv
<1> QED BY <1>1, <1>2, <1>3, <1>4, <1>5, CalmStep DEF Typed

-----------------------------------------------------------------------------
(* Setting a role's permissions *)

\* A step of an update: more may be asked for, cache and tokens stay.
LEMMA UpdateStep ==
  ASSUME IInv, NEW r \in Requests, NEW q \in Request, req' = [req EXCEPT ![r] = q],
         q.pc \in {"idle", "delete", "insert"},
         q.pc # "idle" => q.role \in Roles /\ q.keys \in asked'[q.role],
         UNCHANGED <<roles, perms, assigned, cache, claims>>,
         updates' \in 0..MaxUpdates, fails' \in 0..MaxFails,
         grants' \in [Roles -> SUBSET Keys], asked' \in [Roles -> SUBSET SUBSET Keys],
         answered' \in [Roles -> SUBSET Keys], disturbed' \subseteq Roles,
         \A n \in Roles : asked[n] \subseteq asked'[n],
         \A n \in Roles : grants'[n] \in Unions(n)'
  PROVE  Typed' /\ Cached' /\ Asked' /\ OneRole' /\ InFlight'
<1>1. /\ req' \in [Requests -> Request] /\ req'[r] = q
      /\ \A x \in Requests : x # r => req'[x] = req[x]
  BY DEF IInv, Typed
<1>2. Typed'
  BY <1>1 DEF IInv, Typed
<1>3. Cached' /\ OneRole'
  BY DEF IInv, Cached, OneRole
<1>4. \A x \in Users : OfUser(x) \subseteq OfUser(x)'
  <2>1. Grows
    BY DEF Grows
  <2> QED BY <2>1, UnionsGrow DEF IInv
<1>5. Asked'
  <2>1. \A i \in 1..Len(cache) : cache[i].key \in Users
    BY EntryIs DEF IInv
  <2>2. /\ \A i \in 1..Len(cache) : cache[i].value \in OfUser(cache[i].key)
        /\ \A x \in Users : claims[x] # Null => claims[x] \in OfUser(x)
    BY DEF IInv, Asked
  <2>3. ASSUME NEW x \in Users, claims'[x] # Null PROVE claims'[x] \in OfUser(x)'
    BY <1>4, <2>2, <2>3
  <2>4. ASSUME NEW i \in 1..Len(cache) PROVE cache[i].value \in OfUser(cache[i].key)'
    <3> PICK x : x = cache[i].key
      OBVIOUS
    <3>1. x \in Users /\ cache[i].value \in OfUser(x)
      BY <2>1, <2>2
    <3>2. cache[i].value \in OfUser(x)'
      BY <1>4, <3>1
    <3> QED BY <3>2 DEF OfUser
  <2> QED BY <2>3, <2>4 DEF Asked
<1>6. InFlight'
  <2> SUFFICES ASSUME NEW x \in Requests PROVE Remembers(req[x])'
    BY DEF InFlight
  <2>1. CASE x = r
    BY <1>1, <2>1 DEF Remembers
  <2>2. CASE x # r
    <3> PICK p : p = req[x]
      OBVIOUS
    <3>1. Remembers(p) /\ req'[x] = p
      BY <1>1, <2>2 DEF IInv, InFlight
    <3>2. p.pc = "store" => p.got \in OfUser(p.user)'
      <4>1. p.pc = "store" => p.user \in Users /\ p.got \in OfUser(p.user)
        BY <3>1 DEF Remembers
      <4> QED BY <1>4, <4>1
    <3>3. p.pc \in {"delete", "insert"} => p.keys \in asked'[p.role]
      BY <3>1 DEF Remembers
    <3>4. Remembers(p)'
      BY <3>1, <3>2, <3>3 DEF Remembers
    <3>5. OfUser(req[x].user)' = OfUser(p.user)'
      BY <3>1 DEF OfUser
    <3> QED BY <3>1, <3>4, <3>5 DEF Remembers
  <2> QED BY <2>1, <2>2
<1> QED BY <1>2, <1>3, <1>5, <1>6
LEMMA SetPermissionsInvariant ==
  ASSUME IInv, NEW r \in Requests, NEW n \in Roles, NEW ks \in SUBSET Keys,
         SetPermissions(r, n, ks)
  PROVE  IInv'
<1> PICK q : q = [Idle EXCEPT !.pc = "delete", !.role = n, !.keys = ks]
  OBVIOUS
<1>1. q \in Request /\ q.pc = "delete" /\ q.role = n /\ q.keys = ks
  BY DEF Idle, Request, PCs
<1>2. /\ req' = [req EXCEPT ![r] = q] /\ req[r].pc = "idle"
      /\ updates < MaxUpdates /\ updates' = updates + 1
      /\ asked' = [asked EXCEPT ![n] = @ \cup {ks}]
      /\ disturbed' = IF Updating(n) = {} THEN disturbed ELSE disturbed \cup {n}
      /\ UNCHANGED <<roles, perms, grants, assigned, cache, claims, fails, answered>>
  BY DEF SetPermissions, At, tables
<1>3. Typed /\ Undisturbed /\ req \in [Requests -> Request]
  BY DEF IInv, Typed
<1>4. /\ req'[r] = q
      /\ \A x \in Requests : x # r => req'[x] = req[x]
  BY <1>2, <1>3
<1>5. /\ asked' \in [Roles -> SUBSET SUBSET Keys]
      /\ \A m \in Roles : asked[m] \subseteq asked'[m]
      /\ ks \in asked'[n]
  BY <1>2, <1>3 DEF Typed
<1>6. \A m \in Roles : grants'[m] \in Unions(m)'
  <2>1. \A m \in Roles : grants[m] \in Unions(m)
    BY DEF IInv, Asked
  <2>2. \A m \in Roles : Unions(m) \subseteq Unions(m)'
    BY <1>5 DEF Unions
  <2> QED BY <1>2, <2>1, <2>2
<1>7. updates' \in 0..MaxUpdates
  BY <1>2, <1>3, BoundsAssumption DEF Typed
<1>8. disturbed' \subseteq Roles
  BY <1>2, <1>3 DEF Typed
<1>9. Typed' /\ Cached' /\ Asked' /\ OneRole' /\ InFlight'
  <2>1. /\ grants' \in [Roles -> SUBSET Keys] /\ answered' \in [Roles -> SUBSET Keys]
        /\ fails' \in 0..MaxFails
    BY <1>2, <1>3 DEF Typed
  <2>2. /\ q.pc \in {"idle", "delete", "insert"}
        /\ q.pc # "idle" => q.role \in Roles /\ q.keys \in asked'[q.role]
    BY <1>1, <1>5
  <2> QED BY <1>1, <1>2, <1>5, <1>6, <1>7, <1>8, <2>1, <2>2, UpdateStep
<1>10. Undisturbed'
  <2> SUFFICES ASSUME NEW m \in Roles \ disturbed'
               PROVE  /\ \A x, y \in Updating(m)' : x = y
                      /\ \A x \in Updating(m)' : req'[x].pc = "insert" => grants'[m] = {}
                      /\ (\A x \in Updating(m)' : req'[x].pc # "insert")
                            => grants'[m] = answered'[m]
    BY DEF Undisturbed
  <2>1. m \in Roles \ disturbed
    BY <1>2
  <2>2. CASE m # n
    <3>1. Updating(m)' = Updating(m) /\ r \notin Updating(m)
      BY <1>1, <1>2, <1>4, <2>2 DEF Updating
    <3> QED BY <1>2, <1>3, <1>4, <2>1, <3>1 DEF Undisturbed
  <2>3. CASE m = n
    <3>1. Updating(n) = {}
      BY <1>2, <2>3
    <3>2. Updating(n)' \subseteq {r}
      BY <1>4, <3>1 DEF Updating
    <3>3. grants[n] = answered[n]
      BY <1>3, <2>1, <2>3, <3>1 DEF Undisturbed
    <3> QED BY <1>1, <1>2, <1>4, <2>3, <3>2, <3>3
  <2> QED BY <2>2, <2>3
<1> QED BY <1>9, <1>10 DEF IInv

LEMMA DeleteGrantsInvariant ==
  ASSUME IInv, NEW r \in Requests, DeleteGrants(r)
  PROVE  IInv'
<1> PICK n : n = req[r].role
  OBVIOUS
<1> PICK q : q = [req[r] EXCEPT !.pc = "insert"]
  OBVIOUS
<1>1. Typed /\ Undisturbed /\ req \in [Requests -> Request] /\ req[r].pc = "delete"
  BY DEF IInv, Typed, DeleteGrants, At
<1>2. n \in Roles /\ req[r].keys \in asked[n]
  BY <1>1 DEF IInv, InFlight, Remembers
<1>3. q \in Request /\ q.pc = "insert" /\ q.role = n /\ q.keys = req[r].keys
  BY <1>1 DEF Request, PCs
<1>4. /\ grants' = [grants EXCEPT ![n] = {}] /\ req' = [req EXCEPT ![r] = q]
      /\ UNCHANGED <<roles, perms, assigned, cache, claims, updates, fails>>
      /\ UNCHANGED <<asked, answered, disturbed>>
  <2>1. req' = [req EXCEPT ![r].pc = "insert"]
    BY DEF DeleteGrants, Goto
  <2>2. req' = [req EXCEPT ![r] = q]
    BY <1>1, <2>1
  <2> QED BY <2>2 DEF DeleteGrants, history
<1>5. /\ req'[r] = q
      /\ \A x \in Requests : x # r => req'[x] = req[x]
  BY <1>1, <1>4
<1>6. /\ grants' \in [Roles -> SUBSET Keys] /\ grants'[n] = {}
      /\ \A m \in Roles : m # n => grants'[m] = grants[m]
  BY <1>1, <1>2, <1>4 DEF Typed
<1>7. \A m \in Roles : grants'[m] \in Unions(m)'
  <2>1. \A m \in Roles : grants[m] \in Unions(m)
    BY DEF IInv, Asked
  <2>2. \A m : Unions(m)' = Unions(m)
    BY <1>4 DEF Unions
  <2>3. {} \in Unions(n)
    <3>1. {} = UNION {} /\ {} \in SUBSET asked[n]
      OBVIOUS
    <3> QED BY <3>1 DEF Unions
  <2> QED BY <1>6, <2>1, <2>2, <2>3
<1>8. Typed' /\ Cached' /\ Asked' /\ OneRole' /\ InFlight'
  BY <1>1, <1>2, <1>3, <1>4, <1>6, <1>7, UpdateStep DEF Typed
<1>9. \A m : Updating(m)' = Updating(m)
  BY <1>1, <1>3, <1>4, <1>5 DEF Updating
<1>10. r \in Updating(n) /\ \A m : r \in Updating(m) => m = n
  BY <1>1 DEF Updating
<1>11. Undisturbed'
  <2> SUFFICES ASSUME NEW m \in Roles \ disturbed'
               PROVE  /\ \A x, y \in Updating(m)' : x = y
                      /\ \A x \in Updating(m)' : req'[x].pc = "insert" => grants'[m] = {}
                      /\ (\A x \in Updating(m)' : req'[x].pc # "insert")
                            => grants'[m] = answered'[m]
    BY DEF Undisturbed
  <2>1. m \in Roles \ disturbed
    BY <1>4
  <2>2. \A x, y \in Updating(m) : x = y
    BY <1>1, <2>1 DEF Undisturbed
  <2>3. CASE m = n
    BY <1>3, <1>5, <1>6, <1>9, <1>10, <2>2, <2>3
  <2>4. CASE m # n
    <3>1. \A x \in Updating(m) : req'[x] = req[x]
      BY <1>5, <1>10, <2>4 DEF Updating
    <3>2. grants'[m] = grants[m] /\ answered'[m] = answered[m]
      BY <1>4, <1>6, <2>4
    <3>3. /\ \A x \in Updating(m) : req[x].pc = "insert" => grants[m] = {}
          /\ (\A x \in Updating(m) : req[x].pc # "insert") => grants[m] = answered[m]
      BY <1>1, <2>1 DEF Undisturbed
    <3>4. /\ \A x \in Updating(m) : req'[x].pc = "insert" => grants'[m] = {}
          /\ (\A x \in Updating(m) : req'[x].pc # "insert") => grants'[m] = answered'[m]
      BY <3>1, <3>2, <3>3
    <3> QED BY <1>9, <2>2, <3>4
  <2> QED BY <2>3, <2>4
<1> QED BY <1>8, <1>11 DEF IInv
LEMMA InsertGrantsInvariant ==
  ASSUME IInv, NEW r \in Requests, InsertGrants(r)
  PROVE  IInv'
<1> PICK n : n = req[r].role
  OBVIOUS
<1> PICK ks : ks = req[r].keys
  OBVIOUS
<1>1. Typed /\ Undisturbed /\ req \in [Requests -> Request] /\ req[r].pc = "insert"
  BY DEF IInv, Typed, InsertGrants, At
<1>2. n \in Roles /\ ks \in asked[n] /\ ks \in SUBSET Keys
  BY <1>1, RequestIs DEF IInv, InFlight, Remembers
<1>3. /\ req' = [req EXCEPT ![r] = Idle]
      /\ grants' = IF ks \cap grants[n] # {} THEN grants ELSE [grants EXCEPT ![n] = @ \cup ks]
      /\ answered' = IF ks \cap grants[n] # {} THEN answered ELSE [answered EXCEPT ![n] = ks]
      /\ UNCHANGED <<roles, perms, assigned, cache, claims, updates, fails, asked, disturbed>>
  BY DEF InsertGrants, Finish
<1>4. /\ req'[r] = Idle
      /\ \A x \in Requests : x # r => req'[x] = req[x]
  BY <1>1, <1>3
<1>5. /\ grants' \in [Roles -> SUBSET Keys] /\ answered' \in [Roles -> SUBSET Keys]
      /\ \A m \in Roles : m # n => grants'[m] = grants[m] /\ answered'[m] = answered[m]
      /\ grants'[n] = grants[n] \/ grants'[n] = grants[n] \cup ks
  BY <1>1, <1>2, <1>3 DEF Typed
<1>6. \A m \in Roles : grants'[m] \in Unions(m)'
  <2>1. \A m \in Roles : grants[m] \in Unions(m)
    BY DEF IInv, Asked
  <2>2. \A m : Unions(m)' = Unions(m)
    BY <1>3 DEF Unions
  <2>3. grants[n] \cup ks \in Unions(n)
    <3>1. PICK S \in SUBSET asked[n] : grants[n] = UNION S
      BY <1>2, <2>1 DEF Unions
    <3>2. S \cup {ks} \in SUBSET asked[n] /\ UNION (S \cup {ks}) = grants[n] \cup ks
      BY <1>2, <3>1
    <3> QED BY <3>2 DEF Unions
  <2> QED BY <1>2, <1>5, <2>1, <2>2, <2>3
<1>7. Typed' /\ Cached' /\ Asked' /\ OneRole' /\ InFlight'
  <2>1. /\ asked' \in [Roles -> SUBSET SUBSET Keys] /\ disturbed' \subseteq Roles
        /\ updates' \in 0..MaxUpdates /\ fails' \in 0..MaxFails
        /\ \A m \in Roles : asked[m] \subseteq asked'[m]
    BY <1>1, <1>3 DEF Typed
  <2> QED BY <1>3, <1>5, <1>6, <2>1, IdleIs, UpdateStep
<1>8. r \in Updating(n) /\ \A m : r \in Updating(m) => m = n
  BY <1>1 DEF Updating
<1>9. \A m : Updating(m)' = Updating(m) \ {r}
  BY <1>1, <1>3, <1>4, IdleIs DEF Updating
<1>10. Undisturbed'
  <2> SUFFICES ASSUME NEW m \in Roles \ disturbed'
               PROVE  /\ \A x, y \in Updating(m)' : x = y
                      /\ \A x \in Updating(m)' : req'[x].pc = "insert" => grants'[m] = {}
                      /\ (\A x \in Updating(m)' : req'[x].pc # "insert")
                            => grants'[m] = answered'[m]
    BY DEF Undisturbed
  <2>1. m \in Roles \ disturbed
    BY <1>3
  <2>2. /\ \A x, y \in Updating(m) : x = y
        /\ \A x \in Updating(m) : req[x].pc = "insert" => grants[m] = {}
        /\ (\A x \in Updating(m) : req[x].pc # "insert") => grants[m] = answered[m]
    BY <1>1, <2>1 DEF Undisturbed
  <2>3. CASE m = n
    <3>1. Updating(m)' = {}
      BY <1>8, <1>9, <2>2, <2>3
    <3>2. grants[n] = {}
      BY <1>1, <1>8, <2>2, <2>3
    <3>3. grants'[n] = ks /\ answered'[n] = ks
      BY <1>1, <1>2, <1>3, <3>2 DEF Typed
    <3> QED BY <2>3, <3>1, <3>3
  <2>4. CASE m # n
    <3>1. /\ Updating(m)' = Updating(m)
          /\ \A x \in Updating(m) : req'[x] = req[x]
      BY <1>4, <1>8, <1>9, <2>4 DEF Updating
    <3>2. grants'[m] = grants[m] /\ answered'[m] = answered[m]
      BY <1>5, <2>4
    <3>3. /\ \A x \in Updating(m) : req'[x].pc = "insert" => grants'[m] = {}
          /\ (\A x \in Updating(m) : req'[x].pc # "insert") => grants'[m] = answered'[m]
      BY <2>2, <3>1, <3>2
    <3> QED BY <2>2, <3>1, <3>3
  <2> QED BY <2>3, <2>4
<1> QED BY <1>7, <1>10 DEF IInv

\* A request that dies between the DELETE and the INSERT has disturbed its role;
\* one that dies before the DELETE leaves what was there.
LEMMA FailInvariant ==
  ASSUME IInv, NEW r \in Requests, Fail(r)
  PROVE  IInv'
<1>1. Typed /\ Undisturbed /\ req \in [Requests -> Request] /\ grants \in [Roles -> SUBSET Keys]
  BY DEF IInv, Typed
<1>2. /\ req' = [req EXCEPT ![r] = Idle] /\ fails < MaxFails /\ fails' = fails + 1
      /\ disturbed' = IF req[r].pc = "insert" THEN disturbed \cup {req[r].role} ELSE disturbed
      /\ UNCHANGED <<roles, perms, grants, assigned, cache, claims, updates, asked, answered>>
  BY DEF Fail, At, Finish, tables
<1>3. /\ req'[r] = Idle
      /\ \A x \in Requests : x # r => req'[x] = req[x]
  BY <1>1, <1>2
<1>4. fails' \in 0..MaxFails
  BY <1>1, <1>2, BoundsAssumption DEF Typed
<1>5. disturbed' \subseteq Roles
  BY <1>1, <1>2 DEF IInv, InFlight, Remembers, Typed
<1>6. \A m \in Roles : grants'[m] \in Unions(m)'
  <2>1. \A m \in Roles : grants[m] \in Unions(m)
    BY DEF IInv, Asked
  <2>2. \A m : Unions(m)' = Unions(m)
    BY <1>2 DEF Unions
  <2> QED BY <1>2, <2>1, <2>2
<1>7. Typed' /\ Cached' /\ Asked' /\ OneRole' /\ InFlight'
  <2>1. /\ asked' \in [Roles -> SUBSET SUBSET Keys] /\ grants' \in [Roles -> SUBSET Keys]
        /\ answered' \in [Roles -> SUBSET Keys] /\ updates' \in 0..MaxUpdates
        /\ \A m \in Roles : asked[m] \subseteq asked'[m]
    BY <1>1, <1>2 DEF Typed
  <2> QED BY <1>2, <1>4, <1>5, <1>6, <2>1, IdleIs, UpdateStep
<1>8. \A m : Updating(m)' = Updating(m) \ {r}
  BY <1>1, <1>2, <1>3, IdleIs DEF Updating
<1>9. Undisturbed'
  <2> SUFFICES ASSUME NEW m \in Roles \ disturbed'
               PROVE  /\ \A x, y \in Updating(m)' : x = y
                      /\ \A x \in Updating(m)' : req'[x].pc = "insert" => grants'[m] = {}
                      /\ (\A x \in Updating(m)' : req'[x].pc # "insert")
                            => grants'[m] = answered'[m]
    BY DEF Undisturbed
  <2>1. m \in Roles \ disturbed
    BY <1>2
  <2>2. /\ \A x, y \in Updating(m) : x = y
        /\ \A x \in Updating(m) : req[x].pc = "insert" => grants[m] = {}
        /\ (\A x \in Updating(m) : req[x].pc # "insert") => grants[m] = answered[m]
    BY <1>1, <2>1 DEF Undisturbed
  <2>3. r \in Updating(m) => req[r].pc # "insert"
    BY <1>2 DEF Updating
  <2>4. grants'[m] = grants[m] /\ answered'[m] = answered[m]
    BY <1>2
  <2>5. \A x \in Updating(m) \ {r} : req'[x] = req[x]
    BY <1>3 DEF Updating
  <2>6. CASE r \in Updating(m)
    <3>1. Updating(m)' = {} /\ \A x \in Updating(m) : req[x].pc # "insert"
      BY <1>8, <2>2, <2>3, <2>6
    <3> QED BY <2>2, <2>4, <3>1
  <2>7. CASE r \notin Updating(m)
    <3>1. Updating(m)' = Updating(m) /\ \A x \in Updating(m) : req'[x] = req[x]
      BY <1>8, <2>5, <2>7
    <3>2. /\ \A x \in Updating(m) : req'[x].pc = "insert" => grants'[m] = {}
          /\ (\A x \in Updating(m) : req'[x].pc # "insert") => grants'[m] = answered'[m]
      BY <2>2, <2>4, <3>1
    <3> QED BY <2>2, <3>1, <3>2
  <2> QED BY <2>6, <2>7
<1> QED BY <1>7, <1>9 DEF IInv
-----------------------------------------------------------------------------
(* The invariant holds *)

LEMMA InitInvariant == Init => IInv
<1> SUFFICES ASSUME Init PROVE IInv
  OBVIOUS
<1>1. Typed
  BY IdleIs, BoundsAssumption DEF Init, Typed
<1>2. Cached
  BY BoundsAssumption DEF Init, Cached, Stores
<1>3. \A n \in Roles : grants[n] \in Unions(n)
  <2>1. {} = UNION {} /\ \A n \in Roles : {} \in SUBSET asked[n]
    OBVIOUS
  <2>2. \A n \in Roles : {} \in Unions(n)
    BY <2>1 DEF Unions
  <2> QED BY <2>2 DEF Init
<1>4. Asked
  BY <1>3 DEF Init, Asked
<1>5. OneRole
  BY DEF Init, OneRole
<1>6. InFlight
  BY IdleRemembers DEF Init, InFlight
<1>7. Undisturbed
  <2>1. \A n : Updating(n) = {}
    BY IdleIs DEF Init, Updating
  <2> QED BY <2>1 DEF Init, Undisturbed
<1> QED BY <1>1, <1>2, <1>4, <1>5, <1>6, <1>7 DEF IInv

LEMMA NextInvariant ==
  ASSUME IInv, [Next]_vars
  PROVE  IInv'
<1>1. ASSUME NEW r \in Requests, Arrive(r)
      PROVE  IInv'
  <2>1. ASSUME NEW n \in Roles, CreateRole(r, n)
        PROVE  IInv'
    BY <2>1, CreateRoleInvariant
  <2>2. ASSUME NEW k \in Keys, CreatePermission(r, k)
        PROVE  IInv'
    BY <2>2, CreatePermissionInvariant
  <2>3. ASSUME NEW n \in Roles, NEW ks \in KeySets, SetPermissions(r, n, ks)
        PROVE  IInv'
    BY <2>3, SetPermissionsInvariant, SubsetsAssumption
  <2>4. ASSUME NEW actor \in Users, NEW n \in Roles, NEW ks \in KeySets,
               UpdateRolePermissions(r, actor, n, ks)
        PROVE  IInv'
    BY <2>3, <2>4 DEF UpdateRolePermissions
  <2>5. ASSUME NEW u \in Users, AskForToken(r, u) \/ AskInGuard(r, u)
        PROVE  IInv'
    BY <2>5, GetPermissionsInvariant DEF AskForToken, AskInGuard
  <2> QED BY <1>1, <2>1, <2>2, <2>3, <2>4, <2>5 DEF Arrive
<1>2. ASSUME NEW r \in Requests, Advance(r)
      PROVE  IInv'
  BY <1>2, InsertRoleInvariant, InsertKeyInvariant, DeleteGrantsInvariant,
     InsertGrantsInvariant, ReadRolesInvariant, ReadGrantsInvariant,
     StorePermissionsInvariant
     DEF Advance
<1>3. ASSUME NEW r \in Requests, Fail(r)
      PROVE  IInv'
  BY <1>3, FailInvariant
<1>4. ASSUME NEW u \in Users, NEW n \in Roles, AssignRole(u, n)
      PROVE  IInv'
  BY <1>4, AssignRoleInvariant
<1>5. ASSUME NEW u \in Users, LapseEntry(u) \/ LapseToken(u)
      PROVE  IInv'
  BY <1>5, LapseEntryInvariant, LapseTokenInvariant
<1>6. CASE UNCHANGED vars
  BY <1>6, StutterInvariant
<1> QED BY <1>1, <1>2, <1>3, <1>4, <1>5, <1>6 DEF Next

\* The invariant holds in every state the handlers can reach.
THEOREM InvariantAlways == Spec => []IInv
<1>1. Init => IInv
  BY InitInvariant
<1>2. IInv /\ [Next]_vars => IInv'
  BY NextInvariant
<1> QED BY <1>1, <1>2, PTL DEF Spec

\* Tables, cache, claims and requests of the roles' handlers keep their types.
THEOREM TypeCorrect == Spec => []TypeOK
<1>1. IInv => TypeOK
  <2> SUFFICES ASSUME IInv PROVE TypeOK
    OBVIOUS
  <2>1. Typed /\ Cached
    BY DEF IInv
  <2>2. \A i \in 1..Len(cache) : cache[i] \in CacheEntry(Users, SUBSET Keys)
    BY <2>1, EntryIs
  <2>3. \A u \in Users : claims[u] = Null \/ claims[u] \in SUBSET Keys
    BY <2>1 DEF Typed
  <2> QED BY <2>1, <2>2, <2>3 DEF Typed, TypeOK
<1> QED BY <1>1, InvariantAlways, PTL

\* No interleaving or death of updates, and no fill of the cache that overlaps
\* them, gives a role, a cache entry or a token a part of a set of permissions
\* that somebody asked for; a role whose updates neither overlapped nor died has
\* exactly what the last one was answered for.
THEOREM GrantsAreAskedAlways == Spec => []GrantsAreAsked
<1>1. IInv => GrantsAreAsked
  <2> SUFFICES ASSUME IInv PROVE GrantsAreAsked
    OBVIOUS
  <2>1. Asked /\ Undisturbed
    BY DEF IInv
  <2>2. \A n \in Roles \ disturbed : Updating(n) = {} => grants[n] = answered[n]
    BY <2>1 DEF Undisturbed
  <2> QED BY <2>1, <2>2 DEF GrantsAreAsked, Asked, OfUser, Unions
<1> QED BY <1>1, InvariantAlways, PTL

-----------------------------------------------------------------------------
(* The cache *)

EvictsOldest ==
  /\ Len(cache') <= MaxEntries
  /\ Cardinality(CachedKeys(cache')) = Len(cache')
  /\ \A i \in 1..Len(cache) :
       (cache[i].live /\ cache[i].key \notin CachedKeys(cache'))
          => i = 1 /\ Len(cache) = MaxEntries

\* What a step does to the cache is one of its methods, or time.
LEMMA CacheSteps ==
  ASSUME IInv, [Next]_vars
  PROVE  \/ cache' = cache
         \/ \E u : cache' = CacheGet(cache, u) \/ cache' = CacheLapse(cache, u)
         \/ \E u \in Users, ps \in SUBSET Keys : cache' = CacheSet(cache, MaxEntries, u, ps)
<1>1. ASSUME NEW r \in Requests, Arrive(r)
      PROVE  cache' = cache \/ \E u : cache' = CacheGet(cache, u)
  BY <1>1 DEF Arrive, CreateRole, CreatePermission, SetPermissions, UpdateRolePermissions,
              AskForToken, AskInGuard, GetPermissions
<1>2. ASSUME NEW r \in Requests, StorePermissions(r)
      PROVE  \E u \in Users, ps \in SUBSET Keys : cache' = CacheSet(cache, MaxEntries, u, ps)
  <2> PICK u : u = req[r].user
    OBVIOUS
  <2> PICK ps : ps = req[r].got
    OBVIOUS
  <2>1. u \in Users /\ ps \in OfUser(u) /\ cache' = CacheSet(cache, MaxEntries, u, ps)
    BY <1>2 DEF StorePermissions, At, IInv, InFlight, Remembers
  <2>2. ps \in SUBSET Keys
    BY <2>1, OfUserTyped DEF IInv
  <2> QED BY <2>1, <2>2
<1>3. ASSUME NEW r \in Requests, Advance(r), ~StorePermissions(r)
      PROVE  cache' = cache
  BY <1>3 DEF Advance, InsertRole, InsertKey, DeleteGrants, InsertGrants, ReadRoles, ReadGrants
<1>4. ASSUME NEW r \in Requests, Fail(r)
      PROVE  cache' = cache
  BY <1>4 DEF Fail
<1>5. ASSUME NEW u \in Users, NEW n \in Roles, AssignRole(u, n)
      PROVE  cache' = cache
  BY <1>5 DEF AssignRole
<1>6. ASSUME NEW u \in Users, LapseEntry(u) \/ LapseToken(u)
      PROVE  cache' = cache \/ cache' = CacheLapse(cache, u)
  BY <1>6 DEF LapseEntry, LapseToken
<1>7. CASE UNCHANGED vars
  BY <1>7 DEF vars
<1> QED BY <1>1, <1>2, <1>3, <1>4, <1>5, <1>6, <1>7 DEF Next

LEMMA StepEvictsOldest ==
  ASSUME IInv, IInv', [Next]_vars
  PROVE  EvictsOldest
<1>1. cache \in Stores(Users, SUBSET Keys) /\ Len(cache) <= MaxEntries
  BY DEF IInv, Cached
<1>2. cache' \in Stores(Users, SUBSET Keys) /\ Len(cache') <= MaxEntries
  BY DEF IInv, Cached
<1>3. Cardinality(CachedKeys(cache')) = Len(cache')
  BY <1>2, KeysOfStore
<1>4. \A i \in 1..Len(cache) : cache[i] \in Entries(cache) /\ cache[i].key \in CachedKeys(cache)
  BY DEF Entries, CachedKeys
<1>5. ASSUME NEW i \in 1..Len(cache), cache[i].live
      PROVE  cache[i].key \in CachedKeys(cache') \/ (i = 1 /\ Len(cache) = MaxEntries)
  <2>1. CASE cache' = cache
    BY <1>4, <2>1
  <2>2. ASSUME NEW u, cache' = CacheGet(cache, u)
        PROVE  cache[i].key \in CachedKeys(cache')
    <3>1. cache[i] \in Entries(cache')
      BY <1>1, <1>4, <1>5, <2>2, GetIs
    <3>2. CachedKeys(cache') = {e.key : e \in Entries(cache')}
      BY <1>2, StoreIs
    <3> QED BY <3>1, <3>2
  <2>3. ASSUME NEW u, cache' = CacheLapse(cache, u)
        PROVE  cache[i].key \in CachedKeys(cache')
    BY <1>1, <1>4, <2>3, LapseIs
  <2>4. ASSUME NEW u \in Users, NEW ps \in SUBSET Keys,
               cache' = CacheSet(cache, MaxEntries, u, ps)
        PROVE  cache[i].key \in CachedKeys(cache') \/ (i = 1 /\ Len(cache) = MaxEntries)
    BY <1>1, <2>4, SetIs, BoundsAssumption
  <2> QED BY <2>1, <2>2, <2>3, <2>4, CacheSteps
<1> QED BY <1>2, <1>3, <1>5 DEF EvictsOldest

\* Whatever requests and the minute do, the MemoryCache stays within maxEntries
\* with one entry for a key, and loses an entry that has not expired only to make
\* room, and then the first.
THEOREM CacheEvictsOldestAlways == Spec => CacheEvictsOldest
<1>1. IInv /\ IInv' /\ [Next]_vars => [EvictsOldest]_vars
  BY StepEvictsOldest
<1>2. Spec => [][EvictsOldest]_vars
  BY <1>1, InvariantAlways, PTL DEF Spec
<1> QED BY <1>2 DEF CacheEvictsOldest, EvictsOldest

===============================================================================
