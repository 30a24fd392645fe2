--------------------------- MODULE DasdCache_proof ---------------------------
(***************************************************************************)
(* Proofs about DasdCache, for any number of entries and tracks, and for   *)
(* either of the uses in which the cache cannot be destroyed under a       *)
(* device: it never gets empty, or there is one device only.               *)
(***************************************************************************)
EXTENDS DasdCache, ChainOps_proof, FiniteSetTheorems

-----------------------------------------------------------------------------
(* The operations of cache.c keep the counters exact *)

EntryRec == [key : Key \cup {NoKey}, busy : BOOLEAN, image : {"disk", "new", "other"}]
CacheRec == [entry : [Entry -> EntryRec], age : Seq(Entry), busy : Int, empty : Int]

Busy(c) == {i \in Entry : IsBusy(c, i)}
Empty(c) == {i \in Entry : IsEmpty(c, i)}

\* A cache of the right shape, whose counters are exact.
Sound(c) ==
    /\ c \in CacheRec
    /\ c.busy = Cardinality(Busy(c)) /\ c.empty = Cardinality(Empty(c))

LEMMA EntryFinite == IsFiniteSet(Entry) /\ Cardinality(Entry) = Nbr /\ Nbr \in Nat /\ Nbr >= 1
<1>1. Nbr \in Nat /\ Nbr >= 1
    BY CacheAssumption
<1>2. IsFiniteSet(1..Nbr) /\ Cardinality(1..Nbr) = IF 1 > Nbr THEN 0 ELSE Nbr - 1 + 1
    BY <1>1, FS_Interval
<1> QED BY <1>1, <1>2 DEF Entry

\* The number of elements, when at most one of them comes or goes.
LEMMA CountOne ==
    ASSUME NEW S \in SUBSET Entry, NEW T \in SUBSET Entry, NEW i \in Entry,
           \A j \in Entry \ {i} : j \in T <=> j \in S
    PROVE  /\ Cardinality(S) \in Nat
           /\ Cardinality(T) = Cardinality(S) + (IF i \in T THEN 1 ELSE 0) - (IF i \in S THEN 1 ELSE 0)
<1>1. IsFiniteSet(S) /\ Cardinality(S) \in Nat
    BY EntryFinite, FS_Subset, FS_CardinalityType
<1>2. T = IF i \in T THEN S \cup {i} ELSE S \ {i}
    OBVIOUS
<1>3. /\ Cardinality(S \cup {i}) = IF i \in S THEN Cardinality(S) ELSE Cardinality(S) + 1
      /\ Cardinality(S \ {i}) = IF i \in S THEN Cardinality(S) - 1 ELSE Cardinality(S)
    BY <1>1, FS_AddElement, FS_RemoveElement
<1>4. CASE i \in T
  <2>1. Cardinality(T) = Cardinality(S \cup {i})
      BY <1>2, <1>4
  <2> QED BY <1>1, <1>3, <1>4, <2>1
<1>5. CASE i \notin T
  <2>1. Cardinality(T) = Cardinality(S \ {i})
      BY <1>2, <1>5
  <2> QED BY <1>1, <1>3, <1>5, <2>1
<1> QED BY <1>4, <1>5

\* The counters never leave the number of entries.
LEMMA SoundRange ==
    ASSUME NEW c, Sound(c)
    PROVE  c.busy \in 0..Nbr /\ c.empty \in 0..Nbr
<1>1. \A S \in SUBSET Entry : Cardinality(S) \in 0..Nbr
    BY EntryFinite, FS_Subset, FS_CardinalityType
<1> QED BY <1>1 DEF Sound, Busy, Empty

\* A change of one entry that counts by it.
LEMMA SoundMoves ==
    ASSUME NEW c, Sound(c), NEW n \in CacheRec, NEW i \in Entry,
           \A j \in Entry \ {i} : /\ IsBusy(n, j) <=> IsBusy(c, j)
                                  /\ IsEmpty(n, j) <=> IsEmpty(c, j),
           n.busy = c.busy + (IF IsBusy(n, i) THEN 1 ELSE 0) - (IF IsBusy(c, i) THEN 1 ELSE 0),
           n.empty = c.empty + (IF IsEmpty(n, i) THEN 1 ELSE 0) - (IF IsEmpty(c, i) THEN 1 ELSE 0)
    PROVE  Sound(n)
<1>1. Cardinality(Busy(n)) = Cardinality(Busy(c)) + (IF i \in Busy(n) THEN 1 ELSE 0)
                                                  - (IF i \in Busy(c) THEN 1 ELSE 0)
  <2>1. \A j \in Entry \ {i} : j \in Busy(n) <=> j \in Busy(c)
      BY DEF Busy
  <2>2. Busy(c) \in SUBSET Entry /\ Busy(n) \in SUBSET Entry
      BY DEF Busy
  <2> QED BY <2>1, <2>2, CountOne
<1>2. Cardinality(Empty(n)) = Cardinality(Empty(c)) + (IF i \in Empty(n) THEN 1 ELSE 0)
                                                    - (IF i \in Empty(c) THEN 1 ELSE 0)
  <2>1. \A j \in Entry \ {i} : j \in Empty(n) <=> j \in Empty(c)
      BY DEF Empty
  <2>2. Empty(c) \in SUBSET Entry /\ Empty(n) \in SUBSET Entry
      BY DEF Empty
  <2> QED BY <2>1, <2>2, CountOne
<1>3. /\ i \in Busy(n) <=> IsBusy(n, i)
      /\ i \in Busy(c) <=> IsBusy(c, i)
      /\ i \in Empty(n) <=> IsEmpty(n, i)
      /\ i \in Empty(c) <=> IsEmpty(c, i)
    BY DEF Busy, Empty
<1> QED BY <1>1, <1>2, <1>3 DEF Sound

\* What the operations make of a cache is a record with its fields.
LEMMA CacheForm ==
    ASSUME NEW A, NEW B, NEW C, NEW D, NEW c \in [entry : A, age : B, busy : C, empty : D],
           NEW n, NEW i, NEW v, NEW e, NEW a, NEW x, NEW y, NEW z, NEW w,
           \/ n = [[c EXCEPT !.entry[i].key = v] EXCEPT !.empty = @ + x - y]
           \/ n = [[c EXCEPT !.entry[i].busy = v] EXCEPT !.busy = @ + z - w, !.empty = @ + x - y]
           \/ n = [c EXCEPT !.age = a, !.empty = @ - x]
           \/ n = [c EXCEPT !.entry = e, !.age = a, !.empty = @ + x, !.busy = @ - z],
           n.entry \in A, n.age \in B, n.busy \in C, n.empty \in D
    PROVE  n \in [entry : A, age : B, busy : C, empty : D]
OBVIOUS

\* cache_setflag.
LEMMA SetFlagSound ==
    ASSUME NEW c, Sound(c), NEW i \in Entry, NEW b \in BOOLEAN
    PROVE  /\ Sound(SetFlag(c, i, b))
           /\ SetFlag(c, i, b).entry = [c.entry EXCEPT ![i].busy = b]
           /\ SetFlag(c, i, b).age = c.age
           /\ SetFlag(c, i, b).busy = c.busy + (IF b THEN 1 ELSE 0)
                                             - (IF c.entry[i].busy THEN 1 ELSE 0)
<1> DEFINE n == SetFlag(c, i, b)
<1>1. c \in CacheRec /\ c.busy \in Int /\ c.empty \in Int /\ c.entry \in [Entry -> EntryRec]
    BY DEF Sound, CacheRec
<1>2. /\ n.entry = [c.entry EXCEPT ![i].busy = b] /\ n.age = c.age
      /\ n.busy = c.busy + (IF b THEN 1 ELSE 0) - (IF c.entry[i].busy THEN 1 ELSE 0)
  <2>1. c.entry[i] \in EntryRec
      BY <1>1
  <2> QED BY <1>1, <2>1 DEF SetFlag, IsBusy, Count, CacheRec, EntryRec
<1>3. n.empty = c.empty + (IF IsEmpty(n, i) THEN 1 ELSE 0) - (IF IsEmpty(c, i) THEN 1 ELSE 0)
    BY <1>1 DEF SetFlag, IsBusy, IsEmpty, Count, CacheRec, EntryRec
<1>4. n \in CacheRec
  <2>1. n.entry \in [Entry -> EntryRec] /\ n.age \in Seq(Entry) /\ n.busy \in Int /\ n.empty \in Int
    <3>1. c.entry[i] \in EntryRec /\ c.age \in Seq(Entry)
        BY <1>1 DEF CacheRec
    <3>2. [c.entry[i] EXCEPT !.busy = b] \in EntryRec
        BY <3>1 DEF EntryRec
    <3> QED BY <1>1, <1>2, <1>3, <3>1, <3>2
  <2>2. n = [[c EXCEPT !.entry[i].busy = b] EXCEPT
                !.busy = @ + Count(IsBusy([c EXCEPT !.entry[i].busy = b], i)) - Count(IsBusy(c, i)),
                !.empty = @ + Count(IsEmpty([c EXCEPT !.entry[i].busy = b], i))
                            - Count(IsEmpty(c, i))]
      BY DEF SetFlag
  <2> HIDE DEF n
  <2> QED BY <1>1, <2>1, <2>2, CacheForm, Zenon DEF CacheRec
<1> HIDE DEF n
<1>5. \A j \in Entry \ {i} : n.entry[j] = c.entry[j]
    BY <1>1, <1>2
<1>6. IsBusy(n, i) <=> b
    BY <1>1, <1>2 DEF IsBusy, EntryRec
<1>7. Sound(n)
  <2>1. \A j \in Entry \ {i} : /\ IsBusy(n, j) <=> IsBusy(c, j)
                               /\ IsEmpty(n, j) <=> IsEmpty(c, j)
      BY <1>2, <1>5 DEF IsBusy, IsEmpty
  <2>2. n.busy = c.busy + (IF IsBusy(n, i) THEN 1 ELSE 0) - (IF IsBusy(c, i) THEN 1 ELSE 0)
      BY <1>2, <1>6 DEF IsBusy
  <2> QED BY <1>3, <1>4, <2>1, <2>2, SoundMoves
<1> QED BY <1>2, <1>7 DEF n

\* cache_setkey.
LEMMA SetKeySound ==
    ASSUME NEW c, Sound(c), NEW i \in Entry, NEW k \in Key \cup {NoKey}
    PROVE  /\ Sound(SetKey(c, i, k))
           /\ SetKey(c, i, k).entry = [c.entry EXCEPT ![i].key = k]
           /\ SetKey(c, i, k).age = c.age
           /\ SetKey(c, i, k).busy = c.busy
<1> DEFINE n == SetKey(c, i, k)
<1>1. c \in CacheRec /\ c.busy \in Int /\ c.empty \in Int /\ c.entry \in [Entry -> EntryRec]
    BY DEF Sound, CacheRec
<1>2. n.entry = [c.entry EXCEPT ![i].key = k] /\ n.age = c.age /\ n.busy = c.busy
    BY <1>1 DEF SetKey, CacheRec, EntryRec
<1>3. n.empty = c.empty + (IF IsEmpty(n, i) THEN 1 ELSE 0) - (IF IsEmpty(c, i) THEN 1 ELSE 0)
    BY <1>1 DEF SetKey, IsBusy, IsEmpty, Count, CacheRec, EntryRec
<1>4. n \in CacheRec
  <2>1. n.entry \in [Entry -> EntryRec] /\ n.age \in Seq(Entry) /\ n.busy \in Int /\ n.empty \in Int
    <3>1. c.entry[i] \in EntryRec /\ c.age \in Seq(Entry)
        BY <1>1 DEF CacheRec
    <3>2. [c.entry[i] EXCEPT !.key = k] \in EntryRec
        BY <3>1 DEF EntryRec
    <3> QED BY <1>1, <1>2, <1>3, <3>1, <3>2
  <2>2. n = [[c EXCEPT !.entry[i].key = k] EXCEPT
                !.empty = @ + Count(IsEmpty([c EXCEPT !.entry[i].key = k], i))
                            - Count(IsEmpty(c, i))]
      BY DEF SetKey
  <2> HIDE DEF n
  <2> QED BY <1>1, <2>1, <2>2, CacheForm, Zenon DEF CacheRec
<1> HIDE DEF n
<1>5. \A j \in Entry \ {i} : n.entry[j] = c.entry[j]
    BY <1>1, <1>2
<1>6. IsBusy(n, i) <=> IsBusy(c, i)
    BY <1>1, <1>2 DEF IsBusy, EntryRec
<1>7. Sound(n)
  <2>1. \A j \in Entry \ {i} : /\ IsBusy(n, j) <=> IsBusy(c, j)
                               /\ IsEmpty(n, j) <=> IsEmpty(c, j)
      BY <1>2, <1>5 DEF IsBusy, IsEmpty
  <2>2. n.busy = c.busy + (IF IsBusy(n, i) THEN 1 ELSE 0) - (IF IsBusy(c, i) THEN 1 ELSE 0)
      BY <1>1, <1>2, <1>6
  <2> QED BY <1>3, <1>4, <2>1, <2>2, SoundMoves
<1> QED BY <1>2, <1>7 DEF n

\* cache_setage: the entry becomes the one used last.
LEMMA SetAgeSound ==
    ASSUME NEW c, Sound(c), NEW i \in Entry
    PROVE  /\ Sound(SetAge(c, i))
           /\ SetAge(c, i).entry = c.entry
           /\ On(SetAge(c, i).age) = On(c.age) \cup {i}
           /\ SetAge(c, i).busy = c.busy
<1> DEFINE n == SetAge(c, i)
<1>1. c \in CacheRec /\ c.busy \in Int /\ c.empty \in Int /\ c.age \in Seq(Entry)
    BY DEF Sound, CacheRec
<1>2. n.entry = c.entry /\ n.busy = c.busy /\ n.age = Append(Without(c.age, {i}), i)
      /\ n.empty = c.empty - (IF IsEmpty(c, i) THEN 1 ELSE 0)
    BY <1>1 DEF SetAge, Count, CacheRec
<1>3. n.age \in Seq(Entry) /\ On(n.age) = On(c.age) \cup {i}
  <2>1. Without(c.age, {i}) \in Seq(Entry) /\ On(Without(c.age, {i})) = On(c.age) \ {i}
      BY <1>1, WithoutProperties
  <2>2. (On(c.age) \ {i}) \cup {i} = On(c.age) \cup {i}
      OBVIOUS
  <2> DEFINE q == Without(c.age, {i})
  <2>3. n.age = Append(q, i) /\ q \in Seq(Entry) /\ On(q) = On(c.age) \ {i}
      BY <1>2, <2>1
  <2> HIDE DEF n, q
  <2>4. Append(q, i) \in Seq(Entry) /\ On(Append(q, i)) = On(q) \cup {i}
      BY <2>3, OnAppend
  <2> QED BY <2>2, <2>3, <2>4
<1>4. n \in CacheRec
  <2>1. n.entry \in [Entry -> EntryRec] /\ n.busy \in Int /\ n.empty \in Int
      BY <1>1, <1>2 DEF CacheRec
  <2>2. n = [c EXCEPT !.age = Append(Without(@, {i}), i), !.empty = @ - Count(IsEmpty(c, i))]
      BY DEF SetAge
  <2> HIDE DEF n
  <2> QED BY <1>1, <1>3, <2>1, <2>2, CacheForm, Zenon DEF CacheRec
<1> HIDE DEF n
<1>5. ~IsEmpty(n, i)
    BY <1>3 DEF IsEmpty
<1>6. Sound(n)
  <2>1. \A j \in Entry \ {i} : /\ IsBusy(n, j) <=> IsBusy(c, j)
                               /\ IsEmpty(n, j) <=> IsEmpty(c, j)
      BY <1>2, <1>3 DEF IsBusy, IsEmpty
  <2>2. n.busy = c.busy + (IF IsBusy(n, i) THEN 1 ELSE 0) - (IF IsBusy(c, i) THEN 1 ELSE 0)
      BY <1>1, <1>2 DEF IsBusy
  <2>3. n.empty = c.empty + (IF IsEmpty(n, i) THEN 1 ELSE 0) - (IF IsEmpty(c, i) THEN 1 ELSE 0)
      BY <1>1, <1>2, <1>5
  <2> QED BY <1>4, <2>1, <2>2, <2>3, SoundMoves
<1> QED BY <1>2, <1>3, <1>6 DEF n

\* cache_release, of any number of entries.
NoEntry == [key |-> NoKey, busy |-> FALSE, image |-> "other"]

LEMMA ReleaseSound ==
    ASSUME NEW c, Sound(c), NEW S \in SUBSET Entry
    PROVE  /\ Sound(ReleaseAll(c, S))
           /\ ReleaseAll(c, S).entry = [i \in Entry |-> IF i \in S THEN NoEntry ELSE c.entry[i]]
           /\ On(ReleaseAll(c, S).age) = On(c.age) \ S
           /\ ReleaseAll(c, S).busy = c.busy - Cardinality({i \in S : IsBusy(c, i)})
<1> DEFINE n == ReleaseAll(c, S)
           B == {i \in S : IsBusy(c, i)}
           E == {i \in S : ~IsEmpty(c, i)}
<1>1. c \in CacheRec /\ c.busy \in Int /\ c.empty \in Int /\ c.age \in Seq(Entry)
    BY DEF Sound, CacheRec
<1>2. /\ n.entry = [i \in Entry |-> IF i \in S THEN NoEntry ELSE c.entry[i]]
      /\ n.age = Without(c.age, S)
      /\ n.empty = c.empty + Cardinality(E) /\ n.busy = c.busy - Cardinality(B)
    BY <1>1 DEF ReleaseAll, NoEntry, CacheRec
<1>3. n.age \in Seq(Entry) /\ On(n.age) = On(c.age) \ S
    BY <1>1, <1>2, WithoutProperties
<1>4. /\ Busy(n) = Busy(c) \ B /\ B \subseteq Busy(c)
      /\ Empty(n) = Empty(c) \cup E /\ Empty(c) \cap E = {}
    BY <1>2, <1>3 DEF Busy, Empty, IsBusy, IsEmpty, NoEntry
<1>5. /\ IsFiniteSet(Busy(c)) /\ IsFiniteSet(B) /\ IsFiniteSet(Empty(c)) /\ IsFiniteSet(E)
      /\ Cardinality(Busy(c)) \in Nat /\ Cardinality(B) \in Nat
      /\ Cardinality(Empty(c)) \in Nat /\ Cardinality(E) \in Nat
  <2>1. Busy(c) \in SUBSET Entry /\ B \in SUBSET Entry /\ Empty(c) \in SUBSET Entry /\ E \in SUBSET Entry
      BY DEF Busy, Empty
  <2> HIDE DEF B, E
  <2> QED BY <2>1, EntryFinite, FS_Subset, FS_CardinalityType
<1> HIDE DEF n, B, E
<1>6. Cardinality(Busy(n)) = Cardinality(Busy(c)) - Cardinality(B)
  <2>1. Cardinality(Busy(c) \ B) = Cardinality(Busy(c)) - Cardinality(Busy(c) \cap B)
      BY <1>5, FS_Difference
  <2>2. Busy(c) \cap B = B
      BY <1>4
  <2> QED BY <1>4, <2>1, <2>2
<1>7. Cardinality(Empty(n)) = Cardinality(Empty(c)) + Cardinality(E)
  <2>1. Cardinality(Empty(c) \cup E)
            = Cardinality(Empty(c)) + Cardinality(E) - Cardinality(Empty(c) \cap E)
      BY <1>5, FS_Union
  <2>2. Cardinality(Empty(c) \cap E) = 0
      BY <1>4, FS_EmptySet
  <2> QED BY <1>4, <1>5, <2>1, <2>2
<1>8. n \in CacheRec
  <2>1. n.entry \in [Entry -> EntryRec]
      BY <1>1, <1>2 DEF NoEntry, CacheRec, EntryRec
  <2>2. n.busy \in Int /\ n.empty \in Int
      BY <1>1, <1>2, <1>5
  <2>3. n = [c EXCEPT !.entry = [i \in Entry |-> IF i \in S
                             THEN [key |-> NoKey, busy |-> FALSE, image |-> "other"] ELSE @[i]],
                      !.age = Without(@, S),
                      !.empty = @ + Cardinality({i \in S : ~IsEmpty(c, i)}),
                      !.busy = @ - Cardinality({i \in S : IsBusy(c, i)})]
      BY DEF n, ReleaseAll
  <2> QED BY <1>1, <1>3, <2>1, <2>2, <2>3, CacheForm, Zenon DEF CacheRec
<1>9. Sound(n)
    BY <1>2, <1>6, <1>7, <1>8 DEF Sound
<1> QED BY <1>2, <1>3, <1>9 DEF n, B

\* A new image in an entry.
Image == {"disk", "new", "other"}
WithImage(c, i, v) == [c EXCEPT !.entry[i].image = v]

Imaged(c, n, i, v) ==
    /\ Sound(n) /\ n.age = c.age /\ n.busy = c.busy
    /\ \A j \in Entry : /\ n.entry[j].key = c.entry[j].key
                        /\ n.entry[j].busy = c.entry[j].busy
                        /\ n.entry[j].image = IF j = i THEN v ELSE c.entry[j].image

LEMMA ImageSound ==
    ASSUME NEW c, Sound(c), NEW i \in Entry, NEW v \in Image
    PROVE  Imaged(c, WithImage(c, i, v), i, v)
<1> DEFINE n == WithImage(c, i, v)
<1>1. c \in CacheRec /\ c.entry \in [Entry -> EntryRec]
    BY DEF Sound, CacheRec
<1>2. n.entry = [c.entry EXCEPT ![i].image = v] /\ n.age = c.age /\ n.busy = c.busy
      /\ n.empty = c.empty
    BY <1>1 DEF WithImage, CacheRec
<1>3. n \in CacheRec
  <2>1. [c.entry[i] EXCEPT !.image = v] \in EntryRec
      BY <1>1 DEF EntryRec, Image
  <2>2. [c.entry EXCEPT ![i].image = v] \in [Entry -> EntryRec]
      BY <1>1, <2>1
  <2> QED BY <1>1, <2>2 DEF WithImage, CacheRec
<1> HIDE DEF n
<1>4. \A j \in Entry : /\ n.entry[j].busy = c.entry[j].busy /\ n.entry[j].key = c.entry[j].key
                       /\ n.entry[j].image = IF j = i THEN v ELSE c.entry[j].image
    BY <1>1, <1>2 DEF EntryRec
<1>5. Busy(n) = Busy(c) /\ Empty(n) = Empty(c)
    BY <1>2, <1>4 DEF Busy, Empty, IsBusy, IsEmpty
<1>6. Sound(n)
    BY <1>2, <1>3, <1>5 DEF Sound
<1> QED BY <1>2, <1>4, <1>6 DEF n, Imaged

\* No entry of the new cache is in use.
LEMMA EmptyCacheSound ==
    /\ Sound(EmptyCache)
    /\ \A i \in Entry : EmptyCache.entry[i] = NoEntry
    /\ On(EmptyCache.age) = {}
<1>1. EmptyCache \in CacheRec
  <2>1. <<>> \in Seq(Entry) /\ Nbr \in Int
      BY EntryFinite
  <2> QED BY <2>1 DEF EmptyCache, CacheRec, EntryRec
<1>2. \A i \in Entry : EmptyCache.entry[i] = NoEntry
    BY DEF EmptyCache, NoEntry
<1>3. On(EmptyCache.age) = {}
    BY DEF EmptyCache, On
<1>4. Busy(EmptyCache) = {} /\ Empty(EmptyCache) = Entry
    BY <1>2, <1>3 DEF Busy, Empty, IsBusy, IsEmpty, NoEntry
<1>5. EmptyCache.busy = 0 /\ EmptyCache.empty = Nbr
    BY DEF EmptyCache
<1> QED BY <1>1, <1>2, <1>3, <1>4, <1>5, EntryFinite, FS_EmptySet DEF Sound

-----------------------------------------------------------------------------
(* The invariant *)

DevRec == [pc : Pc, then : Pc, trk : Track \cup {NoTrack}, cur : Track \cup {NoTrack},
           cache : 0..Nbr, slot : 0..Nbr, upd : BOOLEAN, sync : BOOLEAN, close : BOOLEAN]

Types ==
    /\ made \in BOOLEAN /\ asleep \subseteq Device /\ unwritten \subseteq Key
    /\ dev \in [Device -> DevRec]

\* What a device is about, whatever it has to do with the lock first.
Mode(r) == IF r.pc \in {"unlock", "create", "destroy"} THEN r.then ELSE r.pc

\* A device has a slot while it fills it, and a track in hand until it gives it up.
DevOK(r) ==
    /\ Mode(r) \notin {"unlock", "create", "destroy"}
    /\ r.slot # 0 <=> Mode(r) \in {"seek", "readfailed"}
    /\ r.cache # 0 => Mode(r) \in {"ready", "write", "writefailed", "lock"}
    /\ Mode(r) \in {"write", "writefailed"} => r.cache # 0
    /\ r.upd => r.cache # 0 /\ Mode(r) \in {"ready", "write"}
    /\ Mode(r) \in {"seek", "readfailed", "wait"} => r.trk # NoTrack
    /\ Mode(r) = "wait" => r.pc = "wait" /\ ~(r.sync /\ r.trk # 0)

\* What a device has is busy, under the key of its track; and nothing else is busy.
Held ==
    \A d \in Device :
        /\ dev[d].cache # 0 => /\ cache.entry[dev[d].cache].busy
                               /\ cache.entry[dev[d].cache].key = <<d, dev[d].cur>>
        /\ dev[d].slot # 0 => /\ cache.entry[dev[d].slot].busy
                              /\ cache.entry[dev[d].slot].key = <<d, dev[d].trk>>

BusyHeld ==
    \A i \in Entry : cache.entry[i].busy => \E d \in Device : i \in {dev[d].cache, dev[d].slot}

\* A track is in one entry at most, and the entries with a track are those used.
Keys(c) ==
    /\ \A i, j \in Entry : c.entry[i].key = c.entry[j].key /\ c.entry[i].key # NoKey => i = j
    /\ \A i \in Entry : c.entry[i].key # NoKey <=> i \in On(c.age)

\* Only an entry that is being filled has the leftovers of another track.
Images ==
    \A i \in Entry : cache.entry[i].key # NoKey /\ (\A d \in Device : dev[d].slot # i)
                         => cache.entry[i].image # "other"

Sleepers == \A d \in asleep : dev[d].pc = "wait"

Base ==
    /\ Types /\ Sound(cache) /\ (\A d \in Device : DevOK(dev[d]))
    /\ Held /\ BusyHeld /\ Keys(cache) /\ Images /\ NoChangeDropped
    /\ Sleepers /\ WakeupForEachFree

\* While there is no cache, or it is being made or unmade, nobody uses it.
NobodyUses == asleep = {} /\ \A d \in Device : dev[d].cache = 0 /\ dev[d].slot = 0
Lonely == (~made \/ \E d \in Device : dev[d].pc \in {"destroy", "create"}) => NobodyUses

LEMMA KeyFacts ==
    /\ \A d \in Device : \A t : <<d, t>> # NoKey
    /\ \A d, e, t, u : <<d, t>> = <<e, u>> => d = e /\ t = u
    /\ \A k \in Key : k = <<k[1], k[2]>> /\ k[1] \in Device /\ k[2] \in Track /\ k # NoKey
    /\ \A d \in Device : \A t : <<d, t>> \in Key \cup {NoKey} => t \in Track /\ <<d, t>> \in Key
    /\ \A d \in Device, t \in Track : <<d, t>> \in Key
BY DEF Key, NoKey

\* Two devices never have the same entry, nor one device the same entry twice.
LEMMA Apart ==
    ASSUME Base, NEW d \in Device, NEW e \in Device, NEW i \in Entry,
           i \in {dev[d].cache, dev[d].slot}, i \in {dev[e].cache, dev[e].slot}
    PROVE  d = e /\ (dev[d].cache = 0 \/ dev[d].slot = 0)
<1>1. i # 0
    BY EntryFinite DEF Entry
<1>2. d = e
  <2>1. \A x \in Device : i \in {dev[x].cache, dev[x].slot} => \E t : cache.entry[i].key = <<x, t>>
      BY <1>1 DEF Base, Held
  <2> QED BY <2>1, KeyFacts
<1>3. dev[d].cache = 0 \/ dev[d].slot = 0
    BY DEF Base, DevOK
<1> QED BY <1>2, <1>3

\* A step of d that leaves what the others have, and after which the entries
\* that are busy are theirs and its own.
LEMMA HeldKept ==
    ASSUME Base, NEW d \in Device, NEW r \in DevRec, Set(d, r),
           \A i \in Entry : (\E e \in Device \ {d} : i \in {dev[e].cache, dev[e].slot}) =>
               cache'.entry[i].key = cache.entry[i].key /\ cache'.entry[i].busy,
           r.cache # 0 => cache'.entry[r.cache].busy /\ cache'.entry[r.cache].key = <<d, r.cur>>,
           r.slot # 0 => cache'.entry[r.slot].busy /\ cache'.entry[r.slot].key = <<d, r.trk>>,
           \A i \in Entry : cache'.entry[i].busy /\ i \notin {r.cache, r.slot}
               => cache.entry[i].busy /\ i \notin {dev[d].cache, dev[d].slot}
    PROVE  Held' /\ BusyHeld'
<1>1. dev \in [Device -> DevRec] /\ dev' = [dev EXCEPT ![d] = r]
    BY DEF Base, Types, Set
<1>2. dev'[d] = r /\ \A e \in Device \ {d} : dev'[e] = dev[e]
    BY <1>1
<1>3. \A e \in Device : dev[e].cache \in 0..Nbr /\ dev[e].slot \in 0..Nbr
    BY <1>1 DEF DevRec
<1>4. \A n \in 0..Nbr : n # 0 => n \in Entry
    BY DEF Entry
<1>5. Held'
  <2> SUFFICES ASSUME NEW e \in Device
               PROVE  /\ dev'[e].cache # 0 => /\ cache'.entry[dev'[e].cache].busy
                                              /\ cache'.entry[dev'[e].cache].key = <<e, dev'[e].cur>>
                      /\ dev'[e].slot # 0 => /\ cache'.entry[dev'[e].slot].busy
                                             /\ cache'.entry[dev'[e].slot].key = <<e, dev'[e].trk>>
      BY DEF Held
  <2>1. CASE e = d
      BY <1>2, <2>1
  <2>2. CASE e # d
    <3>1. dev'[e] = dev[e]
        BY <1>2, <2>2
    <3>2. \A i \in Entry : i \in {dev[e].cache, dev[e].slot} =>
              cache'.entry[i].key = cache.entry[i].key /\ cache'.entry[i].busy
        BY <2>2
    <3>3. /\ dev[e].cache # 0 => /\ dev[e].cache \in Entry
                                 /\ cache.entry[dev[e].cache].key = <<e, dev[e].cur>>
          /\ dev[e].slot # 0 => /\ dev[e].slot \in Entry
                                /\ cache.entry[dev[e].slot].key = <<e, dev[e].trk>>
        BY <1>3, <1>4 DEF Base, Held
    <3> QED BY <3>1, <3>2, <3>3
  <2> QED BY <2>1, <2>2
<1>6. BusyHeld'
  <2> SUFFICES ASSUME NEW i \in Entry, cache'.entry[i].busy
               PROVE  \E e \in Device : i \in {dev'[e].cache, dev'[e].slot}
      BY DEF BusyHeld
  <2>1. CASE i \in {r.cache, r.slot}
      BY <1>2, <2>1
  <2>2. CASE i \notin {r.cache, r.slot}
    <3>1. PICK e \in Device : i \in {dev[e].cache, dev[e].slot}
        BY <2>2 DEF Base, BusyHeld
    <3>2. e # d
        BY <2>2, <3>1
    <3> QED BY <1>2, <3>1, <3>2
  <2> QED BY <2>1, <2>2
<1> QED BY <1>5, <1>6

\* A step of d that announces n entries, after which at most so many more are
\* not busy; one that d takes for itself on waking is not counted.
LEMMA Wake ==
    ASSUME Base, Sound(cache'), NEW d \in Device, NEW r \in DevRec, Set(d, r), r.pc # "wait",
           d \notin asleep, NEW n \in Nat, Signal(n),
           cache'.busy >= cache.busy - n + (IF dev[d].pc = "wait" THEN 1 ELSE 0)
    PROVE  Sleepers' /\ WakeupForEachFree' /\ asleep' \subseteq Device
<1> DEFINE Awake == {e \in Device : dev[e].pc = "wait" /\ e \notin asleep}
           Awake2 == {e \in Device : dev'[e].pc = "wait" /\ e \notin asleep'}
<1>1. dev \in [Device -> DevRec] /\ dev' = [dev EXCEPT ![d] = r] /\ asleep \subseteq Device
    BY DEF Base, Types, Set
<1>2. dev'[d] = r /\ \A e \in Device \ {d} : dev'[e] = dev[e]
    BY <1>1
<1>3. PICK S \in SUBSET asleep :
        /\ Cardinality(S) = IF n <= Cardinality(asleep) THEN n ELSE Cardinality(asleep)
        /\ asleep' = asleep \ S
    BY DEF Signal
<1>4. Sleepers' /\ asleep' \subseteq Device
    BY <1>1, <1>2, <1>3 DEF Base, Sleepers
<1>5. /\ IsFiniteSet(asleep) /\ IsFiniteSet(Awake) /\ IsFiniteSet(S)
      /\ Cardinality(asleep) \in Nat /\ Cardinality(Awake) \in Nat /\ Cardinality(S) \in Nat
  <2>1. Awake \in SUBSET Device /\ asleep \in SUBSET Device /\ S \in SUBSET Device
      BY <1>1
  <2>2. IsFiniteSet(Device)
      BY CacheAssumption
  <2> HIDE DEF Awake
  <2> QED BY <2>1, <2>2, FS_Subset, FS_CardinalityType
<1>6. Awake2 = (Awake \ {d}) \cup S /\ (Awake \ {d}) \cap S = {}
    BY <1>1, <1>2, <1>3 DEF Base, Sleepers
<1> HIDE DEF Awake, Awake2
<1>7. ASSUME asleep' # {} PROVE Cardinality(S) = n
  <2>1. S # asleep
      BY <1>3, <1>7
  <2>2. Cardinality(S) < Cardinality(asleep)
    <3>1. S \subseteq asleep
        OBVIOUS
    <3>2. Cardinality(S) <= Cardinality(asleep) /\ (Cardinality(S) = Cardinality(asleep) => S = asleep)
        BY <1>5, <3>1, FS_Subset
    <3> QED BY <1>5, <2>1, <3>2
  <2> QED BY <1>3, <1>5, <2>2
<1>8. ASSUME asleep' # {} PROVE Cardinality(Awake2) >= Nbr - cache'.busy
  <2>1. /\ IsFiniteSet(Awake \ {d}) /\ Cardinality(Awake \ {d}) \in Nat
        /\ Cardinality(Awake \ {d}) = Cardinality(Awake) - (IF dev[d].pc = "wait" THEN 1 ELSE 0)
    <3>1. d \in Awake <=> dev[d].pc = "wait"
        BY DEF Awake
    <3> QED BY <1>5, <3>1, FS_RemoveElement, FS_CardinalityType
  <2>2. Cardinality(Awake2) = Cardinality(Awake \ {d}) + Cardinality(S)
    <3>1. Cardinality((Awake \ {d}) \cup S) = Cardinality(Awake \ {d}) + Cardinality(S)
                                                - Cardinality((Awake \ {d}) \cap S)
        BY <1>5, <2>1, FS_Union
    <3>2. Cardinality((Awake \ {d}) \cap S) = 0
        BY <1>6, FS_EmptySet
    <3>3. Cardinality(Awake2) = Cardinality((Awake \ {d}) \cup S)
        BY <1>6
    <3> QED BY <1>5, <2>1, <3>1, <3>2, <3>3
  <2>3. Cardinality(Awake) >= Nbr - cache.busy
    <3>1. asleep # {}
        BY <1>3, <1>8
    <3> QED BY <3>1 DEF Base, WakeupForEachFree, Awake, Sound, Busy
  <2>4. cache.busy \in Int /\ cache'.busy \in Int /\ Nbr \in Int
      BY EntryFinite, SoundRange DEF Base
  <2> QED BY <1>5, <1>7, <1>8, <2>1, <2>2, <2>3, <2>4
<1>9. WakeupForEachFree'
    BY <1>8 DEF WakeupForEachFree, Awake2, Sound, Busy
<1> QED BY <1>4, <1>9

\* No signal at all wakes nobody.
LEMMA NoSignal == ASSUME Base, asleep' = asleep PROVE Signal(0)
<1>1. IsFiniteSet(asleep)
    BY CacheAssumption, FS_Subset DEF Base, Types
<1>2. Cardinality(asleep) \in Nat /\ Cardinality({}) = 0
    BY <1>1, FS_CardinalityType, FS_EmptySet
<1>3. {} \in SUBSET asleep /\ asleep' = asleep \ {}
    OBVIOUS
<1>4. Cardinality({}) = IF 0 <= Cardinality(asleep) THEN 0 ELSE Cardinality(asleep)
    BY <1>2
<1> QED BY <1>3, <1>4, Zenon DEF Signal

\* The entry in hand made inactive.
LEMMA InactiveFacts ==
    ASSUME Base, NEW d \in Device
    PROVE  /\ Sound(Inactive(d)) /\ Inactive(d).age = cache.age
           /\ Buffer(d) \in 0..Nbr
           /\ \A i \in Entry : /\ Inactive(d).entry[i].key = cache.entry[i].key
                               /\ Inactive(d).entry[i].image = cache.entry[i].image
                               /\ Inactive(d).entry[i].busy <=> cache.entry[i].busy /\ i # Buffer(d)
           /\ Inactive(d).busy = cache.busy - Count(Buffer(d) # 0)
           /\ Count(Buffer(d) # 0) \in Nat
<1>1. Buffer(d) \in 0..Nbr /\ Nbr \in Nat
    BY EntryFinite DEF Base, Types, DevRec, Buffer
<1>2. cache.entry \in [Entry -> EntryRec] /\ cache.busy \in Int
    BY DEF Base, Sound, CacheRec
<1>3. CASE Buffer(d) = 0
  <2>1. Inactive(d) = cache
      BY <1>3 DEF Inactive
  <2>2. \A i \in Entry : i # 0
      BY EntryFinite DEF Entry
  <2> QED BY <1>1, <1>2, <1>3, <2>1, <2>2 DEF Base, Count
<1>4. CASE Buffer(d) # 0
  <2>1. Buffer(d) \in Entry
      BY <1>1, <1>4 DEF Entry
  <2>2. cache.entry[Buffer(d)].busy
      BY <1>4 DEF Base, Held, Buffer
  <2>3. Inactive(d) = SetFlag(cache, Buffer(d), FALSE)
      BY <1>4 DEF Inactive
  <2> DEFINE n == SetFlag(cache, Buffer(d), FALSE)
  <2>4. /\ Sound(n) /\ n.age = cache.age
        /\ n.entry = [cache.entry EXCEPT ![Buffer(d)].busy = FALSE]
        /\ n.busy = cache.busy + (IF FALSE THEN 1 ELSE 0)
                               - (IF cache.entry[Buffer(d)].busy THEN 1 ELSE 0)
      BY <2>1, SetFlagSound DEF Base
  <2> HIDE DEF n
  <2>5. n.busy = cache.busy - 1
      BY <1>2, <2>2, <2>4
  <2>6. \A i \in Entry : /\ n.entry[i].key = cache.entry[i].key
                         /\ n.entry[i].image = cache.entry[i].image
                         /\ n.entry[i].busy <=> cache.entry[i].busy /\ i # Buffer(d)
      BY <1>2, <2>1, <2>4 DEF EntryRec
  <2> QED BY <1>1, <1>4, <2>3, <2>4, <2>5, <2>6 DEF Count, n
<1> QED BY <1>3, <1>4

-----------------------------------------------------------------------------
(* Every step preserves the invariant *)

\* What a step of d has to keep of each entry, if r is what d does next.
\* The entry is another's, or in d's hands, or free.
EntryKept(d, r, i) ==
    LET old == cache.entry[i]
        new == cache'.entry[i] IN
    /\ (\E e \in Device \ {d} : i \in {dev[e].cache, dev[e].slot}) =>
            new.key = old.key /\ new.busy /\ new.image = old.image
    /\ new.busy /\ i \notin {r.cache, r.slot} => old.busy /\ i \notin {dev[d].cache, dev[d].slot}
    /\ new.key # NoKey /\ i # r.slot /\ new.image = "other" =>
            old.key # NoKey /\ i # dev[d].slot /\ old.image = "other"
    /\ new.image = "new" =>
            \/ i = r.cache /\ r.upd
            \/ new.key \in unwritten'
            \/ i # dev[d].cache /\ new.key = old.key /\ old.image = "new"
               /\ (old.key \in unwritten => old.key \in unwritten')

\* And of what d has then.
HandsFull(d, r) ==
    /\ r.cache # 0 => cache'.entry[r.cache].busy /\ cache'.entry[r.cache].key = <<d, r.cur>>
    /\ r.slot # 0 => cache'.entry[r.slot].busy /\ cache'.entry[r.slot].key = <<d, r.trk>>

LEMMA Settled ==
    ASSUME Base, NEW d \in Device, NEW r \in DevRec, DevOK(r), Set(d, r),
           made' \in BOOLEAN, unwritten' \subseteq Key, Sound(cache'), Keys(cache'),
           HandsFull(d, r), \A i \in Entry : EntryKept(d, r, i),
           Sleepers' /\ WakeupForEachFree' /\ asleep' \subseteq Device
    PROVE  Base'
<1>1. dev \in [Device -> DevRec] /\ dev' = [dev EXCEPT ![d] = r]
    BY DEF Base, Types, Set
<1>2. dev'[d] = r /\ (\A e \in Device \ {d} : dev'[e] = dev[e]) /\ dev' \in [Device -> DevRec]
    BY <1>1
<1>3. Types'
    BY <1>2 DEF Types
<1>4. \A e \in Device : DevOK(dev'[e])
    BY <1>2 DEF Base
<1>5. Held' /\ BusyHeld'
  <2>1. \A i \in Entry : (\E e \in Device \ {d} : i \in {dev[e].cache, dev[e].slot}) =>
               cache'.entry[i].key = cache.entry[i].key /\ cache'.entry[i].busy
      BY DEF EntryKept
  <2>2. \A i \in Entry : cache'.entry[i].busy /\ i \notin {r.cache, r.slot}
               => cache.entry[i].busy /\ i \notin {dev[d].cache, dev[d].slot}
      BY DEF EntryKept
  <2> QED BY <2>1, <2>2, HeldKept DEF HandsFull
<1>6. Images'
  <2> SUFFICES ASSUME NEW i \in Entry, cache'.entry[i].key # NoKey,
                      \A e \in Device : dev'[e].slot # i, cache'.entry[i].image = "other"
               PROVE  FALSE
      BY DEF Images
  <2>1. i # r.slot
      BY <1>2
  <2>2. cache.entry[i].key # NoKey /\ i # dev[d].slot /\ cache.entry[i].image = "other"
      BY <2>1 DEF EntryKept
  <2>3. \A e \in Device : dev[e].slot # i
      BY <1>2, <2>2
  <2> QED BY <2>2, <2>3 DEF Base, Images
<1>7. NoChangeDropped'
  <2> SUFFICES ASSUME NEW i \in Entry, cache'.entry[i].image = "new"
               PROVE  \/ \E e \in Device : dev'[e].cache = i /\ dev'[e].upd
                      \/ cache'.entry[i].key \in unwritten'
      BY DEF NoChangeDropped
  <2>1. \/ i = r.cache /\ r.upd
        \/ cache'.entry[i].key \in unwritten'
        \/ /\ i # dev[d].cache /\ cache'.entry[i].key = cache.entry[i].key
           /\ cache.entry[i].image = "new"
           /\ cache.entry[i].key \in unwritten => cache.entry[i].key \in unwritten'
      BY DEF EntryKept
  <2>2. CASE i # dev[d].cache /\ cache.entry[i].image = "new"
    <3>1. \/ \E e \in Device : dev[e].cache = i /\ dev[e].upd
          \/ cache.entry[i].key \in unwritten
        BY <2>2 DEF Base, NoChangeDropped
    <3> QED BY <1>2, <2>1, <2>2, <3>1
  <2> QED BY <1>2, <2>1, <2>2
<1> QED BY <1>3, <1>4, <1>5, <1>6, <1>7 DEF Base

\* A step of d on its own: no entry is touched.
LEMMA Control ==
    ASSUME Base, NEW d \in Device, NEW r \in DevRec, DevOK(r), Set(d, r),
           UNCHANGED <<cache, asleep>>, made' \in BOOLEAN, unwritten' \subseteq Key,
           unwritten \subseteq unwritten',
           dev[d].pc # "wait", r.pc # "wait",
           r.cache = dev[d].cache, r.slot = dev[d].slot,
           r.cache # 0 => r.cur = dev[d].cur, r.slot # 0 => r.trk = dev[d].trk,
           dev[d].cache # 0 /\ dev[d].upd => r.upd \/ <<d, dev[d].cur>> \in unwritten'
    PROVE  Base'
<1>1. Sound(cache') /\ Keys(cache')
    BY DEF Base
<1>2. HandsFull(d, r)
    BY DEF Base, Held, HandsFull
<1>3. ASSUME NEW i \in Entry PROVE EntryKept(d, r, i)
  <2>1. \A e \in Device \ {d} : i \in {dev[e].cache, dev[e].slot} => cache.entry[i].busy
      BY EntryFinite DEF Base, Held, Entry
  <2>2. ASSUME i = dev[d].cache, cache.entry[i].image = "new"
        PROVE  dev[d].upd \/ cache.entry[i].key \in unwritten
    <3>1. \A e \in Device : dev[e].cache = i => e = d
        BY <2>2, Apart
    <3> QED BY <2>2, <3>1 DEF Base, NoChangeDropped
  <2>3. i = dev[d].cache => cache.entry[i].key = <<d, dev[d].cur>> /\ i # 0
      BY EntryFinite DEF Base, Held, Entry
  <2> QED BY <2>1, <2>2, <2>3 DEF EntryKept
<1>4. Sleepers' /\ WakeupForEachFree' /\ asleep' \subseteq Device
  <2>1. d \notin asleep
      BY DEF Base, Sleepers
  <2>2. Signal(0)
      BY NoSignal
  <2>3. cache'.busy >= cache.busy - 0 + (IF dev[d].pc = "wait" THEN 1 ELSE 0)
      BY SoundRange DEF Base
  <2> QED BY <1>1, <2>1, <2>2, <2>3, Wake
<1> QED BY <1>1, <1>2, <1>3, <1>4, Settled

LEMMA LockSteps ==
    ASSUME Base, NEW d \in Device, FindNoCache(d) \/ KeepCache(d) \/ FindEmptyCache(d)
    PROVE  Base'
<1> DEFINE q == dev[d]
<1>1. q \in DevRec /\ DevOK(q) /\ made \in BOOLEAN /\ unwritten \subseteq Key
    BY DEF Base, Types
<1>2. CASE FindNoCache(d)
  <2> DEFINE r == [q EXCEPT !.pc = "create", !.then = q.pc]
  <2>1. Set(d, r) /\ UNCHANGED <<cache, made, asleep, unwritten>>
        /\ q.pc \in {"lock", "writefailed", "readfailed", "purge"}
      BY <1>2 DEF FindNoCache
  <2>2. r \in DevRec /\ r.pc = "create" /\ r.then = q.pc /\ r.cache = q.cache /\ r.slot = q.slot
        /\ r.trk = q.trk /\ r.cur = q.cur /\ r.upd = q.upd /\ r.sync = q.sync
      BY <1>1 DEF DevRec, Pc
  <2> HIDE DEF r
  <2>3. DevOK(r)
      BY <1>1, <2>1, <2>2 DEF DevOK, Mode
  <2> QED BY <1>1, <2>1, <2>2, <2>3, Control
<1>3. CASE KeepCache(d)
  <2> DEFINE r == [q EXCEPT !.pc = q.then, !.then = "idle"]
  <2>1. Set(d, r) /\ UNCHANGED <<cache, made, asleep, unwritten>> /\ q.pc = "unlock"
      BY <1>3 DEF KeepCache, At, Resumed
  <2>2. r \in DevRec /\ r.pc = q.then /\ r.cache = q.cache /\ r.slot = q.slot
        /\ r.trk = q.trk /\ r.cur = q.cur /\ r.upd = q.upd /\ r.sync = q.sync
      BY <1>1 DEF DevRec, Pc
  <2> HIDE DEF r
  <2>3. DevOK(r) /\ r.pc # "wait"
      BY <1>1, <2>1, <2>2 DEF DevOK, Mode
  <2> QED BY <1>1, <2>1, <2>2, <2>3, Control
<1>4. CASE FindEmptyCache(d)
  <2> DEFINE r == [q EXCEPT !.pc = "destroy"]
  <2>1. Set(d, r) /\ UNCHANGED <<cache, made, asleep, unwritten>> /\ q.pc = "unlock"
      BY <1>1, <1>4 DEF FindEmptyCache, At, Goto, Set, Base, Types
  <2>2. r \in DevRec /\ r.pc = "destroy" /\ r.then = q.then /\ r.cache = q.cache /\ r.slot = q.slot
        /\ r.trk = q.trk /\ r.cur = q.cur /\ r.upd = q.upd /\ r.sync = q.sync
      BY <1>1 DEF DevRec, Pc
  <2> HIDE DEF r
  <2>3. DevOK(r)
      BY <1>1, <2>1, <2>2 DEF DevOK, Mode
  <2> QED BY <1>1, <2>1, <2>2, <2>3, Control
<1> QED BY <1>2, <1>3, <1>4

\* The request of a track, or of none.
LEMMA RequestSteps ==
    ASSUME Base, NEW d \in Device, NEW t \in Track \cup {NoTrack}, At(d, "ready"), Request(d, t),
           UNCHANGED <<cache, made, asleep, unwritten>>
    PROVE  Base'
<1> DEFINE q == dev[d]
           s == q.sync /\ t # NoTrack
<1>1. q \in DevRec /\ DevOK(q) /\ made \in BOOLEAN /\ unwritten \subseteq Key /\ q.pc = "ready"
    BY DEF Base, Types, At
<1>2. s \in BOOLEAN
    BY <1>1 DEF DevRec
<1> HIDE DEF s
<1>3. CASE ~q.upd
  <2> DEFINE r == [q EXCEPT !.pc = "lock", !.trk = t, !.sync = s]
  <2>1. Set(d, r)
      BY <1>3 DEF Request, s
  <2>2. r \in DevRec /\ r.pc = "lock" /\ r.cache = q.cache /\ r.slot = q.slot
        /\ r.cur = q.cur /\ r.upd = q.upd
      BY <1>1, <1>2 DEF DevRec, Pc
  <2> HIDE DEF r
  <2>3. DevOK(r) /\ q.slot = 0
      BY <1>1, <1>3, <2>2 DEF DevOK, Mode
  <2> QED BY <1>1, <2>1, <2>2, <2>3, Control
<1>4. CASE q.upd /\ s /\ t # 0
  <2> DEFINE r == [q EXCEPT !.sync = FALSE]
  <2>1. Set(d, r)
      BY <1>4 DEF Request, s
  <2>2. r \in DevRec /\ r.pc = "ready" /\ r.cache = q.cache /\ r.slot = q.slot
        /\ r.cur = q.cur /\ r.upd = q.upd /\ r.trk = q.trk
      BY <1>1 DEF DevRec, Pc
  <2> HIDE DEF r
  <2>3. DevOK(r)
      BY <1>1, <2>2 DEF DevOK, Mode
  <2> QED BY <1>1, <2>1, <2>2, <2>3, Control
<1>5. CASE q.upd /\ ~(s /\ t # 0)
  <2> DEFINE r == [q EXCEPT !.pc = "write", !.trk = t, !.sync = s]
  <2>1. Set(d, r)
      BY <1>5 DEF Request, s
  <2>2. r \in DevRec /\ r.pc = "write" /\ r.cache = q.cache /\ r.slot = q.slot
        /\ r.cur = q.cur /\ r.upd = q.upd
      BY <1>1, <1>2 DEF DevRec, Pc
  <2> HIDE DEF r
  <2>3. DevOK(r) /\ q.slot = 0
      BY <1>1, <1>5, <2>2 DEF DevOK, Mode
  <2> QED BY <1>1, <2>1, <2>2, <2>3, Control
<1> QED BY <1>3, <1>4, <1>5

\* The key of the track in hand.
LEMMA InHand ==
    ASSUME Base, NEW d \in Device
    PROVE  /\ dev[d].cache # 0 => /\ dev[d].cache \in Entry /\ cache.entry[dev[d].cache].busy
                                  /\ cache.entry[dev[d].cache].key = <<d, dev[d].cur>>
                                  /\ <<d, dev[d].cur>> \in Key
           /\ dev[d].slot # 0 => /\ dev[d].slot \in Entry /\ cache.entry[dev[d].slot].busy
                                 /\ cache.entry[dev[d].slot].key = <<d, dev[d].trk>>
                                 /\ <<d, dev[d].trk>> \in Key
<1>1. dev[d].cache \in 0..Nbr /\ dev[d].slot \in 0..Nbr
    BY DEF Base, Types, DevRec
<1>2. \A i \in Entry : cache.entry[i].key \in Key \cup {NoKey}
    BY DEF Base, Sound, CacheRec, EntryRec
<1>3. \A n \in 0..Nbr : n # 0 => n \in Entry
    BY DEF Entry
<1> QED BY <1>1, <1>2, <1>3, KeyFacts DEF Base, Held

LEMMA OwnSteps ==
    ASSUME Base, NEW d \in Device, WriteFail(d) \/ ReadFail(d) \/ StartProgram(d) \/ Close(d)
    PROVE  Base'
<1> DEFINE q == dev[d]
<1>1. q \in DevRec /\ DevOK(q) /\ made \in BOOLEAN /\ unwritten \subseteq Key
    BY DEF Base, Types
<1>2. CASE WriteFail(d)
  <2> DEFINE r == [q EXCEPT !.pc = "writefailed", !.upd = FALSE]
  <2>1. Set(d, r) /\ UNCHANGED <<cache, made, asleep>> /\ unwritten' = unwritten \cup {<<d, q.cur>>}
        /\ q.pc = "write"
      BY <1>2 DEF WriteFail, At
  <2>2. r \in DevRec /\ r.pc = "writefailed" /\ r.cache = q.cache /\ r.slot = q.slot
        /\ r.trk = q.trk /\ r.cur = q.cur /\ r.upd = FALSE /\ r.sync = q.sync
      BY <1>1 DEF DevRec, Pc
  <2> HIDE DEF r
  <2>3. DevOK(r) /\ q.cache # 0
      BY <1>1, <2>1, <2>2 DEF DevOK, Mode
  <2>4. unwritten' \subseteq Key /\ unwritten \subseteq unwritten'
      BY <1>1, <2>1, <2>3, InHand
  <2> QED BY <1>1, <2>1, <2>2, <2>3, <2>4, Control
<1>3. CASE ReadFail(d)
  <2> DEFINE r == [q EXCEPT !.pc = "readfailed"]
  <2>1. Set(d, r) /\ UNCHANGED <<cache, made, asleep, unwritten>> /\ q.pc = "seek"
      BY <1>1, <1>3 DEF ReadFail, At, Goto, Set, Base, Types
  <2>2. r \in DevRec /\ r.pc = "readfailed" /\ r.cache = q.cache /\ r.slot = q.slot
        /\ r.trk = q.trk /\ r.cur = q.cur /\ r.upd = q.upd /\ r.sync = q.sync
      BY <1>1 DEF DevRec, Pc
  <2> HIDE DEF r
  <2>3. DevOK(r)
      BY <1>1, <2>1, <2>2 DEF DevOK, Mode
  <2> QED BY <1>1, <2>1, <2>2, <2>3, Control
<1>4. CASE StartProgram(d)
  <2>1. PICK s \in BOOLEAN : Set(d, [q EXCEPT !.pc = "ready", !.sync = s])
      BY <1>4 DEF StartProgram
  <2> DEFINE r == [q EXCEPT !.pc = "ready", !.sync = s]
  <2>2. Set(d, r) /\ UNCHANGED <<cache, made, asleep, unwritten>> /\ q.pc = "idle"
      BY <1>4, <2>1 DEF StartProgram, At
  <2>3. r \in DevRec /\ r.pc = "ready" /\ r.cache = q.cache /\ r.slot = q.slot
        /\ r.trk = q.trk /\ r.cur = q.cur /\ r.upd = q.upd
      BY <1>1 DEF DevRec, Pc
  <2> HIDE DEF r
  <2>4. DevOK(r)
      BY <1>1, <2>2, <2>3 DEF DevOK, Mode
  <2> QED BY <1>1, <2>2, <2>3, <2>4, Control
<1>5. CASE Close(d)
  <2> DEFINE r == [q EXCEPT !.pc = "lock", !.trk = NoTrack, !.close = TRUE]
  <2>1. Set(d, r) /\ UNCHANGED <<cache, made, asleep, unwritten>> /\ q.pc = "idle"
      BY <1>5 DEF Close, At
  <2>2. r \in DevRec /\ r.pc = "lock" /\ r.cache = q.cache /\ r.slot = q.slot
        /\ r.cur = q.cur /\ r.upd = q.upd
      BY <1>1 DEF DevRec, Pc
  <2> HIDE DEF r
  <2>3. DevOK(r) /\ q.slot = 0 /\ q.cache = 0
      BY <1>1, <2>1, <2>2 DEF DevOK, Mode
  <2> QED BY <1>1, <2>1, <2>2, <2>3, Control
<1> QED BY <1>2, <1>3, <1>4, <1>5

\* Nobody wakes and nothing is freed.
LEMMA NobodyWakes ==
    ASSUME Base, Sound(cache'), NEW d \in Device, NEW r \in DevRec, Set(d, r),
           dev[d].pc # "wait", r.pc # "wait", cache'.busy = cache.busy, asleep' = asleep
    PROVE  Sleepers' /\ WakeupForEachFree' /\ asleep' \subseteq Device
<1>1. d \notin asleep
    BY DEF Base, Sleepers
<1>2. Signal(0)
    BY NoSignal
<1>3. cache'.busy >= cache.busy - 0 + (IF dev[d].pc = "wait" THEN 1 ELSE 0)
    BY SoundRange DEF Base
<1> QED BY <1>1, <1>2, <1>3, Wake

\* The image of an entry that d has changes, and what is known of the disk.
LEMMA ImageStep ==
    ASSUME Base, NEW d \in Device, NEW r \in DevRec, DevOK(r), Set(d, r),
           NEW i \in Entry, NEW v \in Image, cache' = WithImage(cache, i, v),
           UNCHANGED <<made, asleep>>, dev[d].pc # "wait", r.pc # "wait",
           i \in {dev[d].cache, dev[d].slot}, i = r.cache, r.slot = 0,
           cache.entry[i].key = <<d, r.cur>>,
           \/ v = "new" /\ r.upd /\ unwritten' = unwritten
           \/ v = "disk" /\ unwritten' = unwritten \ {cache.entry[i].key}
    PROVE  Base'
<1> DEFINE q == dev[d]
<1>1. q \in DevRec /\ DevOK(q) /\ made \in BOOLEAN /\ unwritten \subseteq Key
    BY DEF Base, Types
<1>2. /\ Sound(cache') /\ cache'.age = cache.age /\ cache'.busy = cache.busy
      /\ \A j \in Entry : /\ cache'.entry[j].key = cache.entry[j].key
                          /\ cache'.entry[j].busy = cache.entry[j].busy
                          /\ cache'.entry[j].image = IF j = i THEN v ELSE cache.entry[j].image
  <2>1. Imaged(cache, cache', i, v)
      BY ImageSound DEF Base
  <2> QED BY <2>1 DEF Imaged
<1>3. Keys(cache')
    BY <1>2 DEF Base, Keys
<1>4. HandsFull(d, r)
  <2>1. i # 0
      BY EntryFinite DEF Entry
  <2>2. cache.entry[i].busy
      BY <2>1, InHand
  <2> QED BY <1>2, <2>2 DEF HandsFull
<1>5. ASSUME NEW j \in Entry PROVE EntryKept(d, r, j)
  <2>1. \A e \in Device \ {d} : j \in {dev[e].cache, dev[e].slot} => cache.entry[j].busy /\ j # i
    <3>1. \A e \in Device : j \in {dev[e].cache, dev[e].slot} => cache.entry[j].busy
      <4>1. j # 0
          BY EntryFinite DEF Entry
      <4> QED BY <4>1 DEF Base, Held
    <3>2. \A e \in Device \ {d} : j = i => j \notin {dev[e].cache, dev[e].slot}
        BY Apart
    <3> QED BY <3>1, <3>2
  <2>2. CASE j = i
      BY <1>2, <2>1, <2>2, KeyFacts DEF EntryKept
  <2>3. CASE j # i
    <3>1. j \notin {q.cache, q.slot}
      <4>1. j # 0 /\ i # 0
          BY EntryFinite DEF Entry
      <4>2. q.cache = 0 \/ q.slot = 0
          BY Apart
      <4> QED BY <2>3, <4>1, <4>2
    <3>2. cache.entry[j].key = cache.entry[i].key => cache.entry[j].key = NoKey
        BY <2>3 DEF Base, Keys
    <3>3. cache.entry[i].key # NoKey
        BY KeyFacts
    <3>4. cache.entry[j].key \in unwritten => cache.entry[j].key \in unwritten'
        BY <1>1, <3>2, <3>3, KeyFacts
    <3> QED BY <1>2, <2>1, <2>3, <3>1, <3>4 DEF EntryKept
  <2> QED BY <2>2, <2>3
<1>6. Sleepers' /\ WakeupForEachFree' /\ asleep' \subseteq Device
    BY <1>2, NobodyWakes
<1>7. made' \in BOOLEAN /\ unwritten' \subseteq Key
    BY <1>1
<1> QED BY <1>2, <1>3, <1>4, <1>5, <1>6, <1>7, Settled

LEMMA ImageSteps ==
    ASSUME Base, NEW d \in Device, WriteOk(d) \/ ReadOk(d) \/ Update(d)
    PROVE  Base'
<1> DEFINE q == dev[d]
<1>1. q \in DevRec /\ DevOK(q)
    BY DEF Base, Types
<1>2. CASE WriteOk(d)
  <2> DEFINE r == [q EXCEPT !.pc = "lock", !.upd = FALSE]
  <2>1. /\ Set(d, r) /\ UNCHANGED <<made, asleep>> /\ q.pc = "write"
        /\ \/ /\ cache' = [cache EXCEPT !.entry[q.cache].image = "disk"]
              /\ unwritten' = unwritten \ {<<d, q.cur>>}
           \/ <<d, q.cur>> \in unwritten /\ UNCHANGED <<cache, unwritten>>
      BY <1>2 DEF WriteOk, At, Buffer
  <2>2. r \in DevRec /\ r.pc = "lock" /\ r.cache = q.cache /\ r.slot = q.slot
        /\ r.trk = q.trk /\ r.cur = q.cur /\ r.upd = FALSE /\ r.sync = q.sync
      BY <1>1 DEF DevRec, Pc
  <2> HIDE DEF r
  <2>3. DevOK(r) /\ q.cache # 0 /\ q.slot = 0
      BY <1>1, <2>1, <2>2 DEF DevOK, Mode
  <2>4. q.cache \in Entry /\ cache.entry[q.cache].key = <<d, q.cur>>
      BY <2>3, InHand
  <2>5. "disk" \in Image /\ 0 # q.cache
      BY <2>3 DEF Image
  <2>6. CASE /\ cache' = [cache EXCEPT !.entry[q.cache].image = "disk"]
             /\ unwritten' = unwritten \ {<<d, q.cur>>}
    <3>1. cache' = WithImage(cache, q.cache, "disk")
        BY <2>6 DEF WithImage
    <3>2. Set(d, r) /\ q.pc # "wait" /\ r.pc # "wait" /\ UNCHANGED <<made, asleep>>
        BY <2>1, <2>2
    <3>3. unwritten' = unwritten \ {cache.entry[q.cache].key}
        BY <2>4, <2>6
    <3>4. cache.entry[q.cache].key = <<d, r.cur>> /\ r.slot = 0 /\ q.cache = r.cache
        BY <2>2, <2>3, <2>4
    <3> QED BY <2>2, <2>3, <2>4, <2>5, <3>1, <3>2, <3>3, <3>4, ImageStep
  <2>7. CASE <<d, q.cur>> \in unwritten /\ UNCHANGED <<cache, unwritten>>
    <3>1. unwritten' \subseteq Key /\ unwritten \subseteq unwritten' /\ made' \in BOOLEAN
        BY <2>1, <2>7 DEF Base, Types
    <3>2. Set(d, r) /\ q.pc # "wait" /\ r.pc # "wait" /\ UNCHANGED <<cache, asleep>>
        BY <2>1, <2>2, <2>7
    <3>3. q.cache # 0 /\ q.upd => r.upd \/ <<d, q.cur>> \in unwritten'
        BY <2>7
    <3> QED BY <2>2, <2>3, <3>1, <3>2, <3>3, Control
  <2> QED BY <2>1, <2>6, <2>7
<1>3. CASE ReadOk(d)
  <2> DEFINE r == [q EXCEPT !.pc = "ready", !.cur = q.trk, !.cache = q.slot, !.slot = 0,
                            !.trk = NoTrack]
  <2>1. Set(d, r) /\ UNCHANGED <<made, asleep>> /\ q.pc = "seek"
        /\ cache' = [cache EXCEPT !.entry[q.slot].image = "disk"]
        /\ unwritten' = unwritten \ {<<d, q.trk>>}
      BY <1>3 DEF ReadOk, At
  <2>2. r \in DevRec /\ r.pc = "ready" /\ r.cache = q.slot /\ r.slot = 0
        /\ r.cur = q.trk /\ r.upd = q.upd /\ r.sync = q.sync
    <3>1. 0 \in 0..Nbr /\ q.slot \in 0..Nbr /\ q.trk \in Track \cup {NoTrack} /\ "ready" \in Pc
        BY <1>1, EntryFinite DEF DevRec, Pc
    <3> QED BY <1>1, <3>1 DEF DevRec
  <2> HIDE DEF r
  <2>3. DevOK(r) /\ q.slot # 0
      BY <1>1, <2>1, <2>2 DEF DevOK, Mode
  <2>4. q.slot \in Entry /\ cache.entry[q.slot].key = <<d, q.trk>>
      BY <2>3, InHand
  <2>5. cache' = WithImage(cache, q.slot, "disk") /\ "disk" \in Image /\ 0 # q.slot
      BY <2>1, <2>3 DEF WithImage, Image
  <2> QED BY <2>1, <2>2, <2>3, <2>4, <2>5, ImageStep
<1>4. CASE Update(d)
  <2> DEFINE r == [q EXCEPT !.upd = TRUE]
  <2>1. Set(d, r) /\ UNCHANGED <<made, asleep, unwritten>> /\ q.pc = "ready" /\ q.cache # 0
        /\ cache' = [cache EXCEPT !.entry[q.cache].image = "new"]
      BY <1>4 DEF Update, At, Buffer
  <2>2. r \in DevRec /\ r.pc = "ready" /\ r.cache = q.cache /\ r.slot = q.slot
        /\ r.trk = q.trk /\ r.cur = q.cur /\ r.upd = TRUE /\ r.sync = q.sync
      BY <1>1, <2>1 DEF DevRec, Pc
  <2> HIDE DEF r
  <2>3. DevOK(r) /\ q.slot = 0
      BY <1>1, <2>1, <2>2 DEF DevOK, Mode
  <2>4. q.cache \in Entry /\ cache.entry[q.cache].key = <<d, q.cur>>
      BY <2>1, InHand
  <2>5. cache' = WithImage(cache, q.cache, "new") /\ "new" \in Image /\ 0 # q.cache
      BY <2>1, <2>3 DEF WithImage, Image
  <2> QED BY <2>1, <2>2, <2>3, <2>4, <2>5, ImageStep
<1> QED BY <1>2, <1>3, <1>4

\* The track in hand is given up, unchanged or reported.
LEMMA FreeStep ==
    ASSUME Base, NEW d \in Device, NEW r \in DevRec, DevOK(r), Set(d, r),
           cache' = Inactive(d), Signal(Count(Buffer(d) # 0)), UNCHANGED <<made, unwritten>>,
           dev[d].pc # "wait", r.pc # "wait",
           r.cache = 0, r.slot = 0, dev[d].slot = 0, ~dev[d].upd
    PROVE  Base'
<1> DEFINE q == dev[d]
<1>1. q \in DevRec /\ DevOK(q) /\ made \in BOOLEAN /\ unwritten \subseteq Key
    BY DEF Base, Types
<1>2. /\ Sound(cache') /\ cache'.age = cache.age
      /\ \A i \in Entry : /\ cache'.entry[i].key = cache.entry[i].key
                          /\ cache'.entry[i].image = cache.entry[i].image
                          /\ cache'.entry[i].busy <=> cache.entry[i].busy /\ i # q.cache
      /\ cache'.busy = cache.busy - Count(q.cache # 0) /\ Count(q.cache # 0) \in Nat
    BY InactiveFacts DEF Buffer
<1>3. Keys(cache')
    BY <1>2 DEF Base, Keys
<1>4. HandsFull(d, r)
    BY DEF HandsFull
<1>5. ASSUME NEW i \in Entry PROVE EntryKept(d, r, i)
  <2>1. i # 0
      BY EntryFinite DEF Entry
  <2>2. \A e \in Device \ {d} : i \in {dev[e].cache, dev[e].slot} => cache.entry[i].busy /\ i # q.cache
    <3>1. \A e \in Device : i \in {dev[e].cache, dev[e].slot} => cache.entry[i].busy
        BY <2>1 DEF Base, Held
    <3>2. \A e \in Device \ {d} : i = q.cache => i \notin {dev[e].cache, dev[e].slot}
        BY Apart
    <3> QED BY <3>1, <3>2
  <2>3. ASSUME i = q.cache, cache.entry[i].image = "new" PROVE cache.entry[i].key \in unwritten
    <3>1. \A e \in Device : dev[e].cache = i => e = d
        BY <2>3, Apart
    <3> QED BY <2>3, <3>1 DEF Base, NoChangeDropped
  <2> QED BY <1>2, <2>1, <2>2, <2>3 DEF EntryKept
<1>6. Sleepers' /\ WakeupForEachFree' /\ asleep' \subseteq Device
  <2>1. d \notin asleep
      BY DEF Base, Sleepers
  <2>2. cache'.busy >= cache.busy - Count(q.cache # 0) + (IF dev[d].pc = "wait" THEN 1 ELSE 0)
    <3>1. cache.busy \in Int
        BY SoundRange DEF Base
    <3> QED BY <1>2, <3>1
  <2> QED BY <1>2, <2>1, <2>2, Wake DEF Buffer
<1> QED BY <1>1, <1>2, <1>3, <1>4, <1>5, <1>6, Settled

LEMMA FreeSteps ==
    ASSUME Base, NEW d \in Device, AbandonWrite(d) \/ LetGo(d) \/ MissSync(d)
    PROVE  Base'
<1> DEFINE q == dev[d]
<1>1. q \in DevRec /\ DevOK(q)
    BY DEF Base, Types
<1>2. Over(d) \in {"ready", "purge", "idle"}
    BY DEF Over
<1>3. CASE AbandonWrite(d)
  <2> DEFINE o == Over(d)
             r == [q EXCEPT !.cur = NoTrack, !.cache = 0, !.trk = NoTrack, !.sync = FALSE,
                            !.pc = "unlock", !.then = o]
  <2>1. q.pc = "writefailed" /\ q.cache # 0 /\ q.slot = 0 /\ ~q.upd
      BY <1>1, <1>3 DEF AbandonWrite, At, DevOK, Mode
  <2>2. Set(d, r) /\ UNCHANGED <<made, unwritten>>
      BY <1>3 DEF AbandonWrite, Unlock, NothingInHand
  <2>3. cache' = Inactive(d) /\ Signal(Count(Buffer(d) # 0))
      BY <1>3, <2>1 DEF AbandonWrite, Inactive, Buffer, Count
  <2> HIDE DEF o
  <2>4. r \in DevRec /\ r.pc = "unlock" /\ r.then = o /\ r.cache = 0 /\ r.slot = q.slot
        /\ r.upd = q.upd
    <3>1. 0 \in 0..Nbr /\ NoTrack \in Track \cup {NoTrack} /\ "unlock" \in Pc /\ o \in Pc
        BY <1>2, EntryFinite DEF Pc, o
    <3> QED BY <1>1, <3>1 DEF DevRec
  <2> HIDE DEF r
  <2>5. DevOK(r)
      BY <1>2, <2>1, <2>4 DEF DevOK, Mode, o
  <2> QED BY <2>1, <2>2, <2>3, <2>4, <2>5, FreeStep
<1>4. CASE LetGo(d)
  <2> DEFINE o == Over(d)
             r == [q EXCEPT !.cur = NoTrack, !.cache = 0, !.pc = "unlock", !.then = o]
  <2>1. q.pc = "lock" /\ q.slot = 0 /\ ~q.upd
      BY <1>1, <1>4 DEF LetGo, At, DevOK, Mode
  <2>2. Set(d, r) /\ UNCHANGED <<made, unwritten>>
      BY <1>4 DEF LetGo, Unlock, NothingInHand
  <2>3. cache' = Inactive(d) /\ Signal(Count(Buffer(d) # 0))
      BY <1>4 DEF LetGo
  <2> HIDE DEF o
  <2>4. r \in DevRec /\ r.pc = "unlock" /\ r.then = o /\ r.cache = 0 /\ r.slot = q.slot
        /\ r.upd = q.upd
    <3>1. 0 \in 0..Nbr /\ NoTrack \in Track \cup {NoTrack} /\ "unlock" \in Pc /\ o \in Pc
        BY <1>2, EntryFinite DEF Pc, o
    <3> QED BY <1>1, <3>1 DEF DevRec
  <2> HIDE DEF r
  <2>5. DevOK(r)
      BY <1>2, <2>1, <2>4 DEF DevOK, Mode, o
  <2> QED BY <2>1, <2>2, <2>3, <2>4, <2>5, FreeStep
<1>5. CASE MissSync(d)
  <2> DEFINE r == [q EXCEPT !.cur = NoTrack, !.cache = 0, !.trk = NoTrack, !.sync = FALSE,
                            !.pc = "unlock", !.then = "ready"]
  <2>1. q.pc = "lock" /\ q.slot = 0 /\ ~q.upd
      BY <1>1, <1>5 DEF MissSync, Looking, Syncing, At, DevOK, Mode
  <2>2. Set(d, r) /\ UNCHANGED <<made, unwritten>>
      BY <1>5 DEF MissSync, Unlock, NothingInHand
  <2>3. cache' = Inactive(d) /\ Signal(Count(Buffer(d) # 0))
      BY <1>5 DEF MissSync
  <2>4. r \in DevRec /\ r.pc = "unlock" /\ r.then = "ready" /\ r.cache = 0 /\ r.slot = q.slot
        /\ r.upd = q.upd
    <3>1. 0 \in 0..Nbr /\ NoTrack \in Track \cup {NoTrack} /\ "unlock" \in Pc /\ "ready" \in Pc
        BY EntryFinite DEF Pc
    <3> QED BY <1>1, <3>1 DEF DevRec
  <2> HIDE DEF r
  <2>5. DevOK(r)
      BY <2>1, <2>4 DEF DevOK, Mode
  <2> QED BY <2>1, <2>2, <2>3, <2>4, <2>5, FreeStep
<1> QED BY <1>3, <1>4, <1>5

\* A device that falls asleep has no entry, and all entries are busy.
LEMMA WaitStep ==
    ASSUME Base, NEW d \in Device, Wait(d)
    PROVE  Base' /\ dev[d].cache = 0 /\ dev[d].slot = 0 /\ cache.busy >= 1
<1> DEFINE q == dev[d]
           r == [q EXCEPT !.pc = "wait"]
<1>1. q \in DevRec /\ DevOK(q) /\ made \in BOOLEAN /\ unwritten \subseteq Key
      /\ dev \in [Device -> DevRec] /\ asleep \subseteq Device
    BY DEF Base, Types
<1>2. /\ q.pc \in {"lock", "wait"} /\ ~(q.sync /\ q.trk # 0)
      /\ asleep' = asleep \cup {d} /\ Set(d, r) /\ UNCHANGED <<cache, made, unwritten>>
      /\ Inactive(d).busy >= Nbr
    BY <1>1 DEF Wait, Looking, Syncing, At, Goto, Set
<1>3. q.cache = 0 /\ cache.busy = Nbr
  <2>1. Inactive(d).busy = cache.busy - Count(q.cache # 0)
      BY InactiveFacts DEF Buffer
  <2>2. cache.busy \in 0..Nbr /\ Nbr \in Nat
      BY SoundRange, EntryFinite DEF Base
  <2> QED BY <1>2, <2>1, <2>2 DEF Count
<1>4. q.slot = 0 /\ ~q.upd /\ q.trk # NoTrack
    BY <1>1, <1>2, <1>3 DEF DevOK, Mode, Wait, Looking, At
<1>5. r \in DevRec /\ r.pc = "wait" /\ r.cache = q.cache /\ r.slot = q.slot /\ r.upd = q.upd
      /\ r.trk = q.trk /\ r.sync = q.sync
    BY <1>1 DEF DevRec, Pc
<1> HIDE DEF r
<1>6. DevOK(r)
    BY <1>2, <1>3, <1>4, <1>5 DEF DevOK, Mode
<1>7. HandsFull(d, r)
    BY <1>3, <1>4, <1>5 DEF HandsFull
<1>8. ASSUME NEW i \in Entry PROVE EntryKept(d, r, i)
  <2>1. i # 0
      BY EntryFinite DEF Entry
  <2>2. \A e \in Device \ {d} : i \in {dev[e].cache, dev[e].slot} => cache.entry[i].busy
      BY <2>1 DEF Base, Held
  <2> QED BY <1>2, <1>3, <1>4, <1>5, <2>1, <2>2 DEF EntryKept
<1>9. Sleepers' /\ WakeupForEachFree' /\ asleep' \subseteq Device
  <2>1. Sleepers' /\ asleep' \subseteq Device
      BY <1>1, <1>2, <1>5 DEF Base, Sleepers, Set
  <2>2. Cardinality({e \in Device : dev'[e].pc = "wait" /\ e \notin asleep'}) \in Nat
    <3> DEFINE A == {e \in Device : dev'[e].pc = "wait" /\ e \notin asleep'}
    <3>1. A \in SUBSET Device /\ IsFiniteSet(Device)
        BY CacheAssumption
    <3> HIDE DEF A
    <3>2. Cardinality(A) \in Nat
        BY <3>1, FS_Subset, FS_CardinalityType
    <3> QED BY <3>2 DEF A
  <2>3. Cardinality({i \in Entry : IsBusy(cache', i)}) = Nbr
      BY <1>2, <1>3 DEF Base, Sound, Busy
  <2> QED BY <2>1, <2>2, <2>3, EntryFinite DEF WakeupForEachFree
<1>10. Sound(cache') /\ Keys(cache') /\ unwritten' \subseteq Key /\ made' \in BOOLEAN
    BY <1>1, <1>2 DEF Base
<1>11. Base'
    BY <1>2, <1>5, <1>6, <1>7, <1>8, <1>9, <1>10, Settled
<1> QED BY <1>3, <1>4, <1>11, EntryFinite

\* A device at the lookup has its wits about it, and its old track is no news.
LEMMA LookingFacts ==
    ASSUME Base, NEW d \in Device, Looking(d)
    PROVE  /\ dev[d].pc \in {"lock", "wait"} /\ dev[d].trk \in Track /\ <<d, dev[d].trk>> \in Key
           /\ dev[d].slot = 0 /\ ~dev[d].upd /\ d \notin asleep
           /\ dev[d].pc = "wait" => Buffer(d) = 0
           /\ \A i \in Entry : i = dev[d].cache /\ cache.entry[i].image = "new"
                                   => cache.entry[i].key \in unwritten
           /\ \A i \in Entry : \A e \in Device \ {d} : i \in {dev[e].cache, dev[e].slot} =>
                  /\ cache.entry[i].busy /\ i # dev[d].cache
                  /\ \A t : cache.entry[i].key # <<d, t>>
<1> DEFINE q == dev[d]
<1>1. q \in DevRec /\ DevOK(q)
    BY DEF Base, Types
<1>2. q.pc \in {"lock", "wait"} /\ d \notin asleep /\ q.trk # NoTrack
    BY <1>1 DEF Looking, At, Base, Sleepers, DevOK, Mode
<1>3. q.trk \in Track /\ <<d, q.trk>> \in Key
    BY <1>1, <1>2, KeyFacts DEF DevRec
<1>4. q.slot = 0 /\ ~q.upd /\ (q.pc = "wait" => q.cache = 0)
    BY <1>1, <1>2 DEF DevOK, Mode
<1>5. ASSUME NEW i \in Entry, i = q.cache, cache.entry[i].image = "new"
      PROVE  cache.entry[i].key \in unwritten
  <2>1. \A e \in Device : dev[e].cache = i => e = d
      BY <1>5, Apart
  <2> QED BY <1>4, <1>5, <2>1 DEF Base, NoChangeDropped
<1>6. ASSUME NEW i \in Entry, NEW e \in Device \ {d}, i \in {dev[e].cache, dev[e].slot}
      PROVE  /\ cache.entry[i].busy /\ i # q.cache
             /\ \A t : cache.entry[i].key # <<d, t>>
  <2>1. i # 0
      BY EntryFinite DEF Entry
  <2>2. cache.entry[i].busy /\ \E u : cache.entry[i].key = <<e, u>>
      BY <1>6, <2>1 DEF Base, Held
  <2>3. i # q.cache
      BY <1>6, Apart
  <2> QED BY <2>2, <2>3, KeyFacts
<1> QED BY <1>2, <1>3, <1>4, <1>5, <1>6 DEF Buffer

\* An entry taken, the last one used from now on.
Taken(c, n, i) ==
    /\ Sound(n) /\ On(n.age) = On(c.age) \cup {i}
    /\ \A j \in Entry : /\ n.entry[j].key = c.entry[j].key
                        /\ n.entry[j].image = c.entry[j].image
                        /\ n.entry[j].busy <=> (j = i \/ c.entry[j].busy)
    /\ n.busy = c.busy + (IF c.entry[i].busy THEN 0 ELSE 1)

LEMMA TakeSound ==
    ASSUME NEW c, Sound(c), NEW i \in Entry
    PROVE  Taken(c, SetAge(SetFlag(c, i, TRUE), i), i)
<1> DEFINE m == SetFlag(c, i, TRUE)
           n == SetAge(m, i)
<1>1. c.entry \in [Entry -> EntryRec] /\ c.busy \in Int
    BY DEF Sound, CacheRec
<1>2. /\ Sound(m) /\ m.entry = [c.entry EXCEPT ![i].busy = TRUE] /\ m.age = c.age
      /\ m.busy = c.busy + (IF TRUE THEN 1 ELSE 0) - (IF c.entry[i].busy THEN 1 ELSE 0)
    BY SetFlagSound
<1> HIDE DEF m
<1>3. \A j \in Entry : /\ m.entry[j].key = c.entry[j].key /\ m.entry[j].image = c.entry[j].image
                       /\ m.entry[j].busy <=> (j = i \/ c.entry[j].busy)
    BY <1>1, <1>2 DEF EntryRec
<1>4. Sound(n) /\ n.entry = m.entry /\ On(n.age) = On(m.age) \cup {i} /\ n.busy = m.busy
    BY <1>2, SetAgeSound
<1> HIDE DEF n
<1>5. n.busy = c.busy + (IF c.entry[i].busy THEN 0 ELSE 1)
    BY <1>1, <1>2, <1>4
<1>6. Taken(c, n, i)
    BY <1>2, <1>3, <1>4, <1>5 DEF Taken
<1> QED BY <1>6 DEF n, m

\* An entry that a device that waits looks up is not busy, for it has none.
LEMMA WaiterFinds ==
    ASSUME Base, NEW d \in Device, Looking(d), dev[d].pc = "wait", NEW i \in Entry, NEW t,
           cache.entry[i].key = <<d, t>>
    PROVE  ~cache.entry[i].busy
<1> SUFFICES ASSUME cache.entry[i].busy PROVE FALSE
    OBVIOUS
<1>1. PICK e \in Device : i \in {dev[e].cache, dev[e].slot}
    BY DEF Base, BusyHeld
<1>2. i # 0
    BY EntryFinite DEF Entry
<1>4. Buffer(d) = 0 /\ dev[d].slot = 0
    BY LookingFacts
<1>3. e \in Device \ {d}
    BY <1>1, <1>2, <1>4 DEF Buffer
<1> QED BY <1>1, <1>3, LookingFacts

\* A key in one entry, which is used last, and in no other.
LEMMA KeysTaken ==
    ASSUME NEW c, NEW n, Keys(c), NEW i \in Entry, NEW k, k # NoKey, n.entry[i].key = k,
           \A j \in Entry \ {i} : n.entry[j].key = c.entry[j].key /\ n.entry[j].key # k,
           On(n.age) = On(c.age) \cup {i}
    PROVE  Keys(n)
BY DEF Keys

\* The track is found.
LEMMA HitStep ==
    ASSUME Base, NEW d \in Device, Looking(d), NEW r \in DevRec, DevOK(r), Set(d, r),
           NEW i \in Entry, cache.entry[i].key = <<d, dev[d].trk>>,
           Sound(cache'), On(cache'.age) = On(cache.age) \cup {i},
           \A j \in Entry : /\ cache'.entry[j].key = cache.entry[j].key
                            /\ cache'.entry[j].image = cache.entry[j].image
                            /\ cache'.entry[j].busy <=> (j = i \/ (cache.entry[j].busy /\ j # dev[d].cache)),
           NEW n \in Nat, Signal(n),
           cache'.busy = cache.busy - n +
               (IF cache.entry[i].busy /\ i # dev[d].cache THEN 0 ELSE 1),
           UNCHANGED <<made, unwritten>>,
           r.pc # "wait", r.cache = i, r.slot = 0, r.cur = dev[d].trk
    PROVE  Base'
<1> DEFINE q == dev[d]
<1>1. made \in BOOLEAN /\ unwritten \subseteq Key
    BY DEF Base, Types
<1>5. Keys(cache')
  <2> DEFINE k == cache.entry[i].key
  <2>1. k # NoKey
      BY KeyFacts
  <2>2. \A j \in Entry \ {i} : cache.entry[j].key # k
      BY <2>1 DEF Base, Keys
  <2>3. cache'.entry[i].key = k /\ \A j \in Entry \ {i} : cache'.entry[j].key = cache.entry[j].key
      OBVIOUS
  <2> HIDE DEF k
  <2>4. Keys(cache)
      BY DEF Base
  <2> QED BY <2>1, <2>2, <2>3, <2>4, KeysTaken
<1>6. HandsFull(d, r)
    BY DEF HandsFull
<1>7. ASSUME NEW j \in Entry PROVE EntryKept(d, r, j)
  <2>1. j # 0
      BY EntryFinite DEF Entry
  <2>2. /\ q.slot = 0 /\ (j = q.cache /\ cache.entry[j].image = "new" => cache.entry[j].key \in unwritten)
        /\ \A e \in Device \ {d} : j \in {dev[e].cache, dev[e].slot} =>
                  cache.entry[j].busy /\ j # q.cache
      BY LookingFacts
  <2> QED BY <2>1, <2>2 DEF EntryKept
<1>8. Sleepers' /\ WakeupForEachFree' /\ asleep' \subseteq Device
  <2>1. d \notin asleep
      BY LookingFacts
  <2>2. cache'.busy >= cache.busy - n + (IF dev[d].pc = "wait" THEN 1 ELSE 0)
    <3>1. cache.busy \in Int
        BY SoundRange DEF Base
    <3>2. q.pc = "wait" => ~cache.entry[i].busy
        BY WaiterFinds
    <3> QED BY <3>1, <3>2
  <2> QED BY <2>1, <2>2, Wake
<1> QED BY <1>1, <1>5, <1>6, <1>7, <1>8, Settled

\* An entry that is not busy is taken for a track that is in none.
LEMMA StealStep ==
    ASSUME Base, NEW d \in Device, Looking(d), NEW r \in DevRec, DevOK(r), Set(d, r),
           NEW i \in Entry, ~cache.entry[i].busy \/ i = dev[d].cache,
           \A j \in Entry : cache.entry[j].key # <<d, dev[d].trk>>,
           cache'.entry[i].key = <<d, dev[d].trk>>, cache'.entry[i].image = "other",
           Sound(cache'), On(cache'.age) = On(cache.age) \cup {i},
           \A j \in Entry \ {i} : /\ cache'.entry[j].key = cache.entry[j].key
                                  /\ cache'.entry[j].image = cache.entry[j].image,
           \A j \in Entry :
               cache'.entry[j].busy <=> (j = i \/ (cache.entry[j].busy /\ j # dev[d].cache)),
           NEW n \in Nat, Signal(n), cache'.busy = cache.busy - n + 1,
           UNCHANGED <<made, unwritten>>,
           r.pc # "wait", r.cache = 0, r.slot = i, r.trk = dev[d].trk
    PROVE  Base'
<1> DEFINE q == dev[d]
<1>1. made \in BOOLEAN /\ unwritten \subseteq Key
    BY DEF Base, Types
<1>5. Keys(cache')
  <2> DEFINE k == <<d, q.trk>>
  <2>1. k # NoKey /\ cache'.entry[i].key = k
      BY KeyFacts
  <2>2. \A j \in Entry \ {i} : cache'.entry[j].key = cache.entry[j].key /\ cache'.entry[j].key # k
      OBVIOUS
  <2> HIDE DEF k
  <2>3. Keys(cache)
      BY DEF Base
  <2> QED BY <2>1, <2>2, <2>3, KeysTaken
<1>6. HandsFull(d, r)
    BY DEF HandsFull
<1>7. ASSUME NEW j \in Entry PROVE EntryKept(d, r, j)
  <2>1. j # 0
      BY EntryFinite DEF Entry
  <2>2. /\ q.slot = 0 /\ (j = q.cache /\ cache.entry[j].image = "new" => cache.entry[j].key \in unwritten)
        /\ \A e \in Device \ {d} : j \in {dev[e].cache, dev[e].slot} =>
                  cache.entry[j].busy /\ j # q.cache
      BY LookingFacts
  <2> QED BY <2>1, <2>2 DEF EntryKept
<1>8. Sleepers' /\ WakeupForEachFree' /\ asleep' \subseteq Device
  <2>1. d \notin asleep
      BY LookingFacts
  <2>2. cache'.busy >= cache.busy - n + (IF dev[d].pc = "wait" THEN 1 ELSE 0)
      BY SoundRange DEF Base
  <2> QED BY <2>1, <2>2, Wake
<1> QED BY <1>1, <1>5, <1>6, <1>7, <1>8, Settled

\* The entries after the lookup: d's old one is inactive, and i is taken, as it
\* is or under another key.
LookedUp(d, n, i) ==
    /\ Sound(n) /\ On(n.age) = On(cache.age) \cup {i}
    /\ \A j \in Entry \ {i} : /\ n.entry[j].key = cache.entry[j].key
                              /\ n.entry[j].image = cache.entry[j].image
    /\ \A j \in Entry : n.entry[j].busy <=> (j = i \/ (cache.entry[j].busy /\ j # dev[d].cache))
    /\ n.busy = cache.busy - Count(dev[d].cache # 0)
                    + (IF cache.entry[i].busy /\ i # dev[d].cache THEN 0 ELSE 1)

LEMMA InactiveTaken ==
    ASSUME Base, NEW d \in Device, NEW i \in Entry
    PROVE  LET n == SetAge(SetFlag(Inactive(d), i, TRUE), i) IN
           /\ LookedUp(d, n, i)
           /\ n.entry[i].key = cache.entry[i].key /\ n.entry[i].image = cache.entry[i].image
<1> DEFINE b == Inactive(d)
           n == SetAge(SetFlag(b, i, TRUE), i)
<1>1. /\ Sound(b) /\ b.age = cache.age
      /\ \A j \in Entry : /\ b.entry[j].key = cache.entry[j].key
                          /\ b.entry[j].image = cache.entry[j].image
                          /\ b.entry[j].busy <=> cache.entry[j].busy /\ j # dev[d].cache
      /\ b.busy = cache.busy - Count(dev[d].cache # 0)
    BY InactiveFacts DEF Buffer
<1> HIDE DEF b
<1>2. Taken(b, n, i)
    BY <1>1, TakeSound
<1> HIDE DEF n
<1>3. LookedUp(d, n, i)
    BY <1>1, <1>2 DEF Taken, LookedUp
<1>4. n.entry[i].key = cache.entry[i].key /\ n.entry[i].image = cache.entry[i].image
    BY <1>1, <1>2 DEF Taken
<1> QED BY <1>3, <1>4 DEF n, b

LEMMA RenameTaken ==
    ASSUME Base, NEW d \in Device, NEW i \in Entry, NEW k \in Key
    PROVE  LET n == WithImage(SetAge(SetFlag(SetKey(Inactive(d), i, k), i, TRUE), i), i, "other") IN
           LookedUp(d, n, i) /\ n.entry[i].key = k /\ n.entry[i].image = "other"
<1> DEFINE b == Inactive(d)
           r == SetKey(b, i, k)
           m == SetAge(SetFlag(r, i, TRUE), i)
           n == WithImage(m, i, "other")
<1>1. /\ Sound(b) /\ b.age = cache.age
      /\ \A j \in Entry : /\ b.entry[j].key = cache.entry[j].key
                          /\ b.entry[j].image = cache.entry[j].image
                          /\ b.entry[j].busy <=> cache.entry[j].busy /\ j # dev[d].cache
      /\ b.busy = cache.busy - Count(dev[d].cache # 0)
    BY InactiveFacts DEF Buffer
<1> HIDE DEF b
<1>2. Sound(r) /\ r.entry = [b.entry EXCEPT ![i].key = k] /\ r.age = b.age /\ r.busy = b.busy
    BY <1>1, SetKeySound
<1> HIDE DEF r
<1>3. /\ r.entry[i].key = k
      /\ \A j \in Entry : /\ j # i => r.entry[j].key = b.entry[j].key
                          /\ r.entry[j].image = b.entry[j].image
                          /\ r.entry[j].busy = b.entry[j].busy
  <2>1. b.entry \in [Entry -> EntryRec]
      BY <1>1 DEF Sound, CacheRec
  <2> QED BY <1>2, <2>1 DEF EntryRec
<1>4. Taken(r, m, i)
    BY <1>2, TakeSound
<1> HIDE DEF m
<1>5. Imaged(m, n, i, "other")
  <2>1. "other" \in Image /\ Sound(m)
      BY <1>4 DEF Image, Taken
  <2> QED BY <2>1, ImageSound
<1> HIDE DEF n
<1>6. \A j \in Entry : n.entry[j].busy <=> (j = i \/ (cache.entry[j].busy /\ j # dev[d].cache))
    BY <1>1, <1>3, <1>4, <1>5 DEF Taken, Imaged
<1>7. \A j \in Entry \ {i} : /\ n.entry[j].key = cache.entry[j].key
                             /\ n.entry[j].image = cache.entry[j].image
    BY <1>1, <1>3, <1>4, <1>5 DEF Taken, Imaged
<1>8. /\ Sound(n) /\ On(n.age) = On(cache.age) \cup {i}
      /\ n.entry[i].key = k /\ n.entry[i].image = "other"
    BY <1>1, <1>2, <1>3, <1>4, <1>5 DEF Taken, Imaged
<1>9. n.busy = cache.busy - Count(dev[d].cache # 0)
                    + (IF cache.entry[i].busy /\ i # dev[d].cache THEN 0 ELSE 1)
    BY <1>1, <1>2, <1>3, <1>4, <1>5 DEF Taken, Imaged
<1>10. LookedUp(d, n, i)
    BY <1>6, <1>7, <1>8, <1>9 DEF LookedUp
<1> QED BY <1>8, <1>10 DEF n, m, r, b

LEMMA TakeSteps ==
    ASSUME Base, NEW d \in Device, Hit(d) \/ Steal(d)
    PROVE  Base'
<1> DEFINE q == dev[d]
           w == Count(Buffer(d) # 0)
<1>1. q \in DevRec /\ DevOK(q) /\ q.trk \in Track \cup {NoTrack} /\ NoTrack \in Track \cup {NoTrack}
      /\ 0 \in 0..Nbr
    BY EntryFinite DEF Base, Types, DevRec
<1>2. Looking(d) /\ w \in Nat /\ \A j \in Entry : Inactive(d).entry[j].key = cache.entry[j].key
    BY InactiveFacts DEF Hit, Steal
<1>3. q.slot = 0 /\ ~q.upd /\ q.trk # NoTrack /\ <<d, q.trk>> \in Key
    BY <1>2, LookingFacts, CacheAssumption
<1>4. CASE Hit(d)
  <2>1. PICK i \in Hits(Inactive(d), <<d, q.trk>>) :
          /\ cache' = SetAge(SetFlag(Inactive(d), i, TRUE), i)
          /\ Set(d, Unlock([q EXCEPT !.cur = q.trk, !.cache = i, !.trk = NoTrack], "ready"))
      BY <1>4 DEF Hit
  <2>2. i \in Entry /\ i \in 0..Nbr /\ i # 0
      BY <2>1, EntryFinite DEF Hits, Entry
  <2>3. cache.entry[i].key = <<d, q.trk>>
      BY <1>2, <2>1 DEF Hits
  <2> DEFINE r == [q EXCEPT !.cur = q.trk, !.cache = i, !.trk = NoTrack,
                            !.pc = "unlock", !.then = "ready"]
  <2>4. Set(d, r)
      BY <2>1 DEF Unlock
  <2>5. r \in DevRec /\ r.pc = "unlock" /\ r.then = "ready" /\ r.cache = i /\ r.slot = q.slot
        /\ r.upd = q.upd /\ r.cur = q.trk
    <3>1. "unlock" \in Pc /\ "ready" \in Pc
        BY DEF Pc
    <3> QED BY <1>1, <2>2, <3>1 DEF DevRec
  <2> HIDE DEF r
  <2>6. DevOK(r)
      BY <1>3, <2>2, <2>5 DEF DevOK, Mode
  <2>7. UNCHANGED <<made, unwritten>> /\ Signal(w)
      BY <1>4 DEF Hit
  <2>8. LookedUp(d, cache', i) /\ cache'.entry[i].key = cache.entry[i].key
        /\ cache'.entry[i].image = cache.entry[i].image
      BY <2>1, <2>2, InactiveTaken
  <2>9. /\ Sound(cache') /\ On(cache'.age) = On(cache.age) \cup {i}
        /\ \A j \in Entry : /\ cache'.entry[j].key = cache.entry[j].key
                            /\ cache'.entry[j].image = cache.entry[j].image
                            /\ cache'.entry[j].busy <=> (j = i \/ (cache.entry[j].busy /\ j # q.cache))
        /\ cache'.busy = cache.busy - w + (IF cache.entry[i].busy /\ i # q.cache THEN 0 ELSE 1)
      BY <2>8 DEF LookedUp, Buffer
  <2> HIDE DEF w
  <2> QED BY <1>2, <1>3, <2>2, <2>3, <2>4, <2>5, <2>6, <2>7, <2>9, HitStep
<1>5. CASE Steal(d)
  <2>1. PICK i \in Offers(Inactive(d), <<d, q.trk>>) :
          /\ cache' = [SetAge(SetFlag(SetKey(Inactive(d), i, <<d, q.trk>>), i, TRUE), i)
                           EXCEPT !.entry[i].image = "other"]
          /\ Set(d, Unlock([NothingInHand(d) EXCEPT !.slot = i], "seek"))
      BY <1>5 DEF Steal
  <2>2. i \in Entry /\ i \in 0..Nbr /\ i # 0 /\ ~Inactive(d).entry[i].busy
      BY <2>1, EntryFinite DEF Offers, Entry, IsBusy
  <2>3. (~cache.entry[i].busy \/ i = q.cache)
      BY <2>2, InactiveFacts DEF Buffer
  <2>4. \A j \in Entry : cache.entry[j].key # <<d, q.trk>>
      BY <1>2, <1>5 DEF Steal, Hits
  <2> DEFINE r == [q EXCEPT !.cur = NoTrack, !.cache = 0, !.slot = i,
                            !.pc = "unlock", !.then = "seek"]
  <2>5. Set(d, r)
      BY <2>1 DEF Unlock, NothingInHand
  <2>6. r \in DevRec /\ r.pc = "unlock" /\ r.then = "seek" /\ r.cache = 0 /\ r.slot = i
        /\ r.upd = q.upd /\ r.trk = q.trk
    <3>1. "unlock" \in Pc /\ "seek" \in Pc
        BY DEF Pc
    <3> QED BY <1>1, <2>2, <3>1 DEF DevRec
  <2> HIDE DEF r
  <2>7. DevOK(r)
      BY <1>3, <2>2, <2>6 DEF DevOK, Mode
  <2>8. UNCHANGED <<made, unwritten>> /\ Signal(w)
      BY <1>5 DEF Steal
  <2>9. cache' = WithImage(SetAge(SetFlag(SetKey(Inactive(d), i, <<d, q.trk>>), i, TRUE), i), i, "other")
      BY <2>1 DEF WithImage
  <2>12. LookedUp(d, cache', i) /\ cache'.entry[i].key = <<d, q.trk>>
         /\ cache'.entry[i].image = "other"
      BY <1>3, <2>2, <2>9, RenameTaken
  <2>10. /\ Sound(cache') /\ On(cache'.age) = On(cache.age) \cup {i}
         /\ \A j \in Entry \ {i} : /\ cache'.entry[j].key = cache.entry[j].key
                                   /\ cache'.entry[j].image = cache.entry[j].image
         /\ \A j \in Entry :
                cache'.entry[j].busy <=> (j = i \/ (cache.entry[j].busy /\ j # q.cache))
         /\ cache'.busy = cache.busy - w + (IF cache.entry[i].busy /\ i # q.cache THEN 0 ELSE 1)
      BY <2>12 DEF LookedUp, Buffer
  <2> HIDE DEF w
  <2>11. cache'.busy = cache.busy - w + 1
      BY <2>3, <2>10
  <2> QED BY <1>2, <2>2, <2>3, <2>4, <2>5, <2>6, <2>7, <2>8, <2>10, <2>11, <2>12, StealStep
<1> QED BY <1>4, <1>5

\* The entries of S are given back, as if never used.
Released(c, n, S) ==
    /\ Sound(n) /\ On(n.age) = On(c.age) \ S
    /\ \A i \in Entry : n.entry[i] = IF i \in S THEN NoEntry ELSE c.entry[i]
    /\ n.busy >= c.busy - Cardinality(S) /\ Cardinality(S) \in Nat

LEMMA ReleasedSound ==
    ASSUME NEW c, Sound(c), NEW S \in SUBSET Entry
    PROVE  Released(c, ReleaseAll(c, S), S)
<1> DEFINE n == ReleaseAll(c, S)
           B == {i \in S : IsBusy(c, i)}
<1>1. /\ Sound(n) /\ n.entry = [i \in Entry |-> IF i \in S THEN NoEntry ELSE c.entry[i]]
      /\ On(n.age) = On(c.age) \ S /\ n.busy = c.busy - Cardinality(B)
    BY ReleaseSound
<1>2. Cardinality(B) \in Nat /\ Cardinality(S) \in Nat /\ Cardinality(B) <= Cardinality(S)
  <2>1. IsFiniteSet(S) /\ B \subseteq S
      BY EntryFinite, FS_Subset
  <2> HIDE DEF B
  <2> QED BY <2>1, FS_Subset, FS_CardinalityType
<1>3. c.busy \in Int
    BY SoundRange
<1> HIDE DEF n, B
<1>4. \A i \in Entry : n.entry[i] = IF i \in S THEN NoEntry ELSE c.entry[i]
    BY <1>1
<1>5. n.busy >= c.busy - Cardinality(S)
    BY <1>1, <1>2, <1>3
<1>6. Released(c, n, S)
    BY <1>1, <1>2, <1>4, <1>5 DEF Released
<1> QED BY <1>6 DEF n

LEMMA ReleaseStep ==
    ASSUME Base, NEW d \in Device, NEW r \in DevRec, DevOK(r), Set(d, r),
           NEW S \in SUBSET Entry, Released(cache, cache', S), Signal(Cardinality(S)),
           made' \in BOOLEAN, unwritten' \subseteq Key,
           dev[d].pc # "wait", r.pc # "wait", r.cache = 0, r.slot = 0,
           dev[d].cache = 0, dev[d].slot \in S \cup {0},
           \A e \in Device \ {d} : \A i \in S : i \notin {dev[e].cache, dev[e].slot},
           \A i \in Entry \ S : cache.entry[i].key \in unwritten => cache.entry[i].key \in unwritten'
    PROVE  Base'
<1>1. /\ Sound(cache') /\ On(cache'.age) = On(cache.age) \ S
      /\ \A i \in Entry : cache'.entry[i] = IF i \in S THEN NoEntry ELSE cache.entry[i]
      /\ cache'.busy >= cache.busy - Cardinality(S) /\ Cardinality(S) \in Nat
    BY DEF Released
<1>2. NoEntry.key = NoKey /\ NoEntry.busy = FALSE /\ NoEntry.image = "other"
    BY DEF NoEntry
<1>3. Keys(cache')
  <2>1. \A i \in Entry : cache'.entry[i].key = IF i \in S THEN NoKey ELSE cache.entry[i].key
      BY <1>1, <1>2
  <2> QED BY <1>1, <2>1 DEF Base, Keys
<1>4. HandsFull(d, r)
    BY DEF HandsFull
<1>5. ASSUME NEW i \in Entry PROVE EntryKept(d, r, i)
  <2>1. i # 0
      BY EntryFinite DEF Entry
  <2>2. \A e \in Device \ {d} : i \in {dev[e].cache, dev[e].slot} => cache.entry[i].busy
      BY <2>1 DEF Base, Held
  <2>3. CASE i \in S
    <3>1. cache'.entry[i] = NoEntry
        BY <1>1, <2>3
    <3> QED BY <1>2, <2>1, <2>2, <2>3, <3>1 DEF EntryKept
  <2>4. CASE i \notin S
    <3>1. cache'.entry[i] = cache.entry[i]
        BY <1>1, <2>4
    <3> QED BY <2>1, <2>2, <2>4, <3>1 DEF EntryKept
  <2> QED BY <2>3, <2>4
<1>6. Sleepers' /\ WakeupForEachFree' /\ asleep' \subseteq Device
  <2>1. d \notin asleep
      BY DEF Base, Sleepers
  <2>2. cache'.busy >= cache.busy - Cardinality(S) + (IF dev[d].pc = "wait" THEN 1 ELSE 0)
    <3>1. cache.busy \in Int /\ cache'.busy \in Int
        BY <1>1, SoundRange DEF Base
    <3> QED BY <1>1, <3>1
  <2> QED BY <1>1, <2>1, <2>2, Wake
<1> QED BY <1>1, <1>3, <1>4, <1>5, <1>6, Settled

LEMMA ReleaseSteps ==
    ASSUME Base, NEW d \in Device, AbandonRead(d) \/ Purge(d)
    PROVE  Base'
<1> DEFINE q == dev[d]
<1>1. q \in DevRec /\ DevOK(q) /\ made \in BOOLEAN /\ unwritten \subseteq Key /\ Sound(cache)
    BY DEF Base, Types
<1>2. CASE AbandonRead(d)
  <2>1. q.pc = "readfailed" /\ q.cache = 0 /\ q.slot # 0 /\ ~q.upd
      BY <1>1, <1>2 DEF AbandonRead, At, DevOK, Mode
  <2> DEFINE S == {q.slot}
             r == [q EXCEPT !.slot = 0, !.trk = NoTrack, !.pc = "unlock", !.then = "ready"]
  <2>2. q.slot \in Entry
      BY <2>1, InHand
  <2>3. Set(d, r) /\ cache' = ReleaseAll(cache, S) /\ Signal(1) /\ UNCHANGED <<made, unwritten>>
      BY <1>2 DEF AbandonRead, Unlock, Release
  <2>4. Cardinality(S) = 1
      BY FS_Singleton
  <2>5. r \in DevRec /\ r.pc = "unlock" /\ r.then = "ready" /\ r.cache = q.cache /\ r.slot = 0
        /\ r.upd = q.upd
    <3>1. 0 \in 0..Nbr /\ NoTrack \in Track \cup {NoTrack} /\ "unlock" \in Pc /\ "ready" \in Pc
        BY EntryFinite DEF Pc
    <3> QED BY <1>1, <3>1 DEF DevRec
  <2> HIDE DEF r
  <2>6. DevOK(r)
      BY <2>1, <2>5 DEF DevOK, Mode
  <2>7. \A e \in Device \ {d} : \A i \in S : i \notin {dev[e].cache, dev[e].slot}
      BY <2>2, Apart
  <2>8. S \in SUBSET Entry /\ q.slot \in S \cup {0}
      BY <2>2
  <2> HIDE DEF S
  <2>9. Released(cache, cache', S) /\ Signal(Cardinality(S))
      BY <1>1, <2>3, <2>4, <2>8, ReleasedSound
  <2>10. made' \in BOOLEAN /\ unwritten' = unwritten
      BY <1>1, <2>3
  <2> QED BY <1>1, <2>1, <2>3, <2>5, <2>6, <2>7, <2>8, <2>9, <2>10, ReleaseStep
<1>3. CASE Purge(d)
  <2>1. q.pc = "purge" /\ q.cache = 0 /\ q.slot = 0 /\ ~q.upd
      BY <1>1, <1>3 DEF Purge, At, DevOK, Mode
  <2> DEFINE S == {i \in Entry : cache.entry[i].key # NoKey /\ cache.entry[i].key[1] = d}
             r == [q EXCEPT !.close = FALSE, !.pc = "unlock", !.then = "idle"]
  <2>2. Set(d, r) /\ cache' = ReleaseAll(cache, S) /\ Signal(Cardinality(S)) /\ UNCHANGED made
        /\ unwritten' = {k \in unwritten : k[1] # d}
      BY <1>3 DEF Purge, Unlock
  <2>3. r \in DevRec /\ r.pc = "unlock" /\ r.then = "idle" /\ r.cache = q.cache /\ r.slot = q.slot
        /\ r.upd = q.upd
      BY <1>1 DEF DevRec, Pc
  <2> HIDE DEF r
  <2>4. DevOK(r)
      BY <2>1, <2>3 DEF DevOK, Mode
  <2>5. \A e \in Device \ {d} : \A i \in S : i \notin {dev[e].cache, dev[e].slot}
    <3> SUFFICES ASSUME NEW e \in Device, NEW i \in S, i \in {dev[e].cache, dev[e].slot}
                 PROVE  e = d
        OBVIOUS
    <3>1. i # 0
        BY EntryFinite DEF Entry
    <3>2. \E t : cache.entry[i].key = <<e, t>>
        BY <3>1 DEF Base, Held
    <3>3. cache.entry[i].key[1] = e
        BY <3>2
    <3> QED BY <3>3
  <2>6. \A i \in Entry \ S : cache.entry[i].key \in unwritten => cache.entry[i].key \in unwritten'
      BY <1>1, <2>2, KeyFacts
  <2>7. S \in SUBSET Entry
      OBVIOUS
  <2> HIDE DEF S
  <2>8. Released(cache, cache', S)
      BY <1>1, <2>2, <2>7, ReleasedSound
  <2>9. made' \in BOOLEAN /\ unwritten' \subseteq Key
      BY <1>1, <2>2
  <2> QED BY <1>1, <2>1, <2>2, <2>3, <2>4, <2>5, <2>6, <2>7, <2>8, <2>9, ReleaseStep
<1> QED BY <1>2, <1>3

\* The cache is made or destroyed while nobody uses it.
LEMMA NewCacheSteps ==
    ASSUME Base, NobodyUses, NEW d \in Device, CreateCache(d) \/ DestroyCache(d)
    PROVE  Base'
<1> DEFINE q == dev[d]
           r == [q EXCEPT !.pc = q.then, !.then = "idle"]
<1>1. q \in DevRec /\ DevOK(q) /\ unwritten \subseteq Key
    BY DEF Base, Types
<1>2. /\ Set(d, r) /\ q.pc \in {"create", "destroy"} /\ cache' = EmptyCache
      /\ made' \in BOOLEAN /\ UNCHANGED <<asleep, unwritten>>
    BY DEF CreateCache, DestroyCache, At, Resumed
<1>3. r \in DevRec /\ r.pc = q.then /\ r.cache = q.cache /\ r.slot = q.slot
      /\ r.trk = q.trk /\ r.cur = q.cur /\ r.upd = q.upd /\ r.sync = q.sync
    BY <1>1 DEF DevRec, Pc
<1> HIDE DEF r
<1>4. DevOK(r)
    BY <1>1, <1>2, <1>3 DEF DevOK, Mode
<1>5. /\ Sound(cache') /\ On(cache'.age) = {}
      /\ \A i \in Entry : /\ cache'.entry[i].key = NoKey /\ cache'.entry[i].busy = FALSE
                          /\ cache'.entry[i].image = "other"
    BY <1>2, EmptyCacheSound DEF NoEntry
<1>6. Keys(cache')
    BY <1>5 DEF Keys
<1>7. q.cache = 0 /\ q.slot = 0 /\ asleep = {}
    BY DEF NobodyUses
<1>8. HandsFull(d, r)
    BY <1>3, <1>7 DEF HandsFull
<1>9. ASSUME NEW i \in Entry PROVE EntryKept(d, r, i)
  <2>1. i # 0
      BY EntryFinite DEF Entry
  <2>2. \A e \in Device : i \notin {dev[e].cache, dev[e].slot}
      BY <2>1 DEF NobodyUses
  <2> QED BY <1>5, <2>2 DEF EntryKept
<1>10. Sleepers' /\ WakeupForEachFree' /\ asleep' \subseteq Device
    BY <1>2, <1>7 DEF Sleepers, WakeupForEachFree
<1> QED BY <1>1, <1>2, <1>3, <1>4, <1>5, <1>6, <1>8, <1>9, <1>10, Settled

LEMMA InitBase == Init => Base /\ NobodyUses
<1> SUFFICES ASSUME Init PROVE Base /\ NobodyUses
    OBVIOUS
<1>1. /\ made \in BOOLEAN /\ asleep = {} /\ unwritten = {} /\ dev = [d \in Device |-> Quiet]
      /\ Quiet.cache = 0 /\ Quiet.slot = 0 /\ Quiet.pc = "idle" /\ ~Quiet.upd
    BY CacheAssumption DEF Init, Quiet
<1>2. Quiet \in DevRec /\ DevOK(Quiet)
    BY EntryFinite DEF Quiet, DevRec, Pc, DevOK, Mode
<1>3. Types /\ NobodyUses /\ Sleepers /\ Held /\ (\A d \in Device : DevOK(dev[d]) /\ dev[d] = Quiet)
    BY <1>1, <1>2 DEF Types, NobodyUses, Sleepers, Held
<1>4. WakeupForEachFree
    BY <1>1 DEF WakeupForEachFree
<1>5. Sound(cache) /\ Keys(cache)
      /\ \A i \in Entry : /\ ~cache.entry[i].busy /\ cache.entry[i].image # "new"
                          /\ cache.entry[i].key # NoKey => cache.entry[i].image # "other"
  <2>1. CASE ~Made
    <3>1. cache = EmptyCache
        BY <2>1 DEF Init
    <3>2. Sound(cache) /\ On(cache.age) = {}
          /\ \A i \in Entry : /\ cache.entry[i].key = NoKey /\ cache.entry[i].busy = FALSE
                              /\ cache.entry[i].image = "other"
        BY <3>1, EmptyCacheSound DEF NoEntry
    <3> QED BY <3>2 DEF Keys
  <2>2. CASE Made
    <3>1. PICK k \in Key, i \in Entry :
             cache = [SetAge(SetFlag(SetFlag(SetKey(EmptyCache, i, k), i, TRUE), i, FALSE), i)
                          EXCEPT !.entry[i].image = "disk"]
        BY <2>2 DEF Init
    <3>2. i \in Entry /\ k \in Key
        BY <3>1
    <3> DEFINE a == SetKey(EmptyCache, i, k)
               b == SetFlag(a, i, TRUE)
               c == SetFlag(b, i, FALSE)
               m == SetAge(c, i)
    <3>3. cache = WithImage(m, i, "disk")
        BY <3>1 DEF WithImage
    <3>4. /\ Sound(a) /\ a.entry = [EmptyCache.entry EXCEPT ![i].key = k] /\ a.age = EmptyCache.age
        BY <3>2, EmptyCacheSound, SetKeySound
    <3> HIDE DEF a
    <3>5. Sound(b) /\ b.entry = [a.entry EXCEPT ![i].busy = TRUE] /\ b.age = a.age
        BY <3>2, <3>4, SetFlagSound
    <3> HIDE DEF b
    <3>6. Sound(c) /\ c.entry = [b.entry EXCEPT ![i].busy = FALSE] /\ c.age = b.age
        BY <3>2, <3>5, SetFlagSound
    <3> HIDE DEF c
    <3>7. Sound(m) /\ m.entry = c.entry /\ On(m.age) = On(c.age) \cup {i}
        BY <3>2, <3>6, SetAgeSound
    <3> HIDE DEF m
    <3>8. Imaged(m, cache, i, "disk")
        BY <3>2, <3>3, <3>7, ImageSound DEF Image
    <3>9. \A j \in Entry : /\ m.entry[j].key = IF j = i THEN k ELSE NoKey
                           /\ ~m.entry[j].busy /\ m.entry[j].image = "other"
      <4>1. EmptyCache.entry \in [Entry -> EntryRec] /\ a.entry \in [Entry -> EntryRec]
            /\ b.entry \in [Entry -> EntryRec]
          BY <3>4, <3>5, EmptyCacheSound DEF Sound, CacheRec
      <4>2. \A j \in Entry : /\ a.entry[j].key = IF j = i THEN k ELSE NoKey
                             /\ ~a.entry[j].busy /\ a.entry[j].image = "other"
          BY <3>2, <3>4, <4>1, EmptyCacheSound DEF EntryRec, NoEntry
      <4>3. \A j \in Entry : /\ b.entry[j].key = a.entry[j].key
                             /\ (j # i => ~b.entry[j].busy) /\ b.entry[j].image = "other"
          BY <3>2, <3>5, <4>1, <4>2 DEF EntryRec
      <4> QED BY <3>2, <3>6, <3>7, <4>1, <4>2, <4>3 DEF EntryRec
    <3>10. On(cache.age) = {i}
        BY <3>4, <3>5, <3>6, <3>7, <3>8, EmptyCacheSound DEF Imaged
    <3>11. Sound(cache) /\ \A j \in Entry : /\ cache.entry[j].key = IF j = i THEN k ELSE NoKey
                                            /\ ~cache.entry[j].busy
                                            /\ cache.entry[j].image = IF j = i THEN "disk" ELSE "other"
        BY <3>8, <3>9 DEF Imaged
    <3>12. k # NoKey
        BY <3>2, KeyFacts
    <3> QED BY <3>10, <3>11, <3>12 DEF Keys
  <2> QED BY <2>1, <2>2
<1>6. BusyHeld /\ Images /\ NoChangeDropped
    BY <1>5 DEF BusyHeld, Images, NoChangeDropped
<1> QED BY <1>3, <1>4, <1>5, <1>6 DEF Base

\* Every step, if nobody uses a cache that is not there.
LEMMA BaseStep == Base /\ Lonely /\ [Next]_vars => Base'
<1> SUFFICES ASSUME Base, Lonely, [Next]_vars PROVE Base'
    OBVIOUS
<1>1. CASE UNCHANGED vars
    BY <1>1 DEF vars, Base, Types, Held, BusyHeld, Images, NoChangeDropped, Sleepers,
                WakeupForEachFree
<1>2. CASE Next
  <2>1. PICK d \in Device : ReadTrack(d) \/ Locking(d) \/ Program(d)
      BY <1>2 DEF Next
  <2>2. CASE \E t \in Track : Read(d, t)
    <3>1. PICK t \in Track : Read(d, t)
        BY <2>2
    <3>2. d \in Device /\ t \in Track \cup {NoTrack} /\ At(d, "ready") /\ Request(d, t)
          /\ UNCHANGED <<cache, made, asleep, unwritten>>
        BY <2>1, <3>1 DEF Read
    <3> QED BY <3>2, RequestSteps
  <2>3. CASE EndProgram(d)
    <3>1. d \in Device /\ NoTrack \in Track \cup {NoTrack} /\ At(d, "ready")
          /\ Request(d, NoTrack) /\ UNCHANGED <<cache, made, asleep, unwritten>>
        BY <2>1, <2>3 DEF EndProgram
    <3> QED BY <3>1, RequestSteps
  <2>4. CASE WriteOk(d) \/ ReadOk(d) \/ Update(d)
      BY <2>1, <2>4, ImageSteps
  <2>5. CASE WriteFail(d) \/ ReadFail(d) \/ StartProgram(d) \/ Close(d)
      BY <2>1, <2>5, OwnSteps
  <2>6. CASE AbandonWrite(d) \/ LetGo(d) \/ MissSync(d)
      BY <2>1, <2>6, FreeSteps
  <2>7. CASE Hit(d) \/ Steal(d)
      BY <2>1, <2>7, TakeSteps
  <2>8. CASE Wait(d)
      BY <2>1, <2>8, WaitStep
  <2>9. CASE AbandonRead(d) \/ Purge(d)
      BY <2>1, <2>9, ReleaseSteps
  <2>10. CASE FindNoCache(d) \/ KeepCache(d) \/ FindEmptyCache(d)
      BY <2>1, <2>10, LockSteps
  <2>11. CASE CreateCache(d) \/ DestroyCache(d)
    <3>1. NobodyUses
        BY <2>1, <2>11 DEF Lonely, CreateCache, DestroyCache, At
    <3> QED BY <2>1, <2>11, <3>1, NewCacheSteps
  <2> QED BY <2>1, <2>2, <2>3, <2>4, <2>5, <2>6, <2>7, <2>8, <2>9, <2>10, <2>11
          DEF ReadTrack, Locking, Program
<1> QED BY <1>1, <1>2

-----------------------------------------------------------------------------
(* Nobody uses a cache that is not there *)

\* The steps that neither make nor destroy the cache, and what they have in common.
Plain(d) ==
    LET q == dev[d]
        r == dev'[d] IN
    /\ made' = made /\ \A e \in Device \ {d} : dev'[e] = dev[e]
    /\ r.pc \notin {"create", "destroy"}
    /\ (asleep' \subseteq asleep /\ r.pc # "wait") \/ Wait(d)
    /\ made \/ q.pc = "wait" \/ (q.cache = 0 /\ q.slot = 0 => r.cache = 0 /\ r.slot = 0)
    /\ r.slot \in {0, q.slot} \/ Steal(d)
    /\ Closing = {} /\ ~q.close /\ Mode(q) # "purge" => ~r.close /\ Mode(r) # "purge"
    /\ Mode(r) = "readfailed" => d \in Faulty \/ Mode(q) = "readfailed"

LEMMA SetFacts ==
    ASSUME Base, NEW d \in Device, NEW r, Set(d, r)
    PROVE  dev'[d] = r /\ \A e \in Device \ {d} : dev'[e] = dev[e]
BY DEF Set, Base, Types

LEMMA SignalFacts == ASSUME NEW n, Signal(n) PROVE asleep' \subseteq asleep
BY DEF Signal

LEMMA PlainProgram ==
    ASSUME Base, NEW d \in Device,
           Program(d) \/ (\E t \in Track : Read(d, t)) \/ KeepCache(d)
    PROVE  Plain(d)
<1> DEFINE q == dev[d]
<1>1. q \in DevRec /\ DevOK(q)
    BY DEF Base, Types
<1>2. ASSUME NEW t, At(d, "ready"), Request(d, t), UNCHANGED <<made, asleep>> PROVE Plain(d)
  <2> DEFINE s == q.sync /\ t # NoTrack
  <2>1. PICK r : /\ Set(d, r)
                 /\ r \in {[q EXCEPT !.pc = "lock", !.trk = t, !.sync = s], [q EXCEPT !.sync = FALSE],
                           [q EXCEPT !.pc = "write", !.trk = t, !.sync = s]}
      BY <1>2 DEF Request
  <2>2. r.pc \in {"lock", "ready", "write"} /\ r.cache = q.cache /\ r.slot = q.slot /\ r.close = q.close
        /\ q.pc = "ready"
      BY <1>1, <1>2, <2>1 DEF DevRec, At
  <2> QED BY <1>2, <2>1, <2>2, SetFacts DEF Plain, Mode
<1>3. CASE \E t \in Track : Read(d, t)
    BY <1>2, <1>3 DEF Read
<1>4. CASE EndProgram(d)
    BY <1>2, <1>4 DEF EndProgram
<1>5. CASE StartProgram(d)
  <2>1. PICK b \in BOOLEAN : Set(d, [q EXCEPT !.pc = "ready", !.sync = b])
      BY <1>5 DEF StartProgram
  <2>2. UNCHANGED <<made, asleep>>
      BY <1>5 DEF StartProgram
  <2>3. PICK r : r = [q EXCEPT !.pc = "ready", !.sync = b]
      OBVIOUS
  <2>4. r.pc = "ready" /\ r.cache = q.cache /\ r.slot = q.slot /\ r.close = q.close
      BY <1>1, <2>3 DEF DevRec
  <2> QED BY <2>1, <2>2, <2>3, <2>4, SetFacts DEF Plain, Mode
<1>6. CASE Update(d)
  <2>1. Set(d, [q EXCEPT !.upd = TRUE]) /\ UNCHANGED <<made, asleep>> /\ q.pc = "ready"
      BY <1>6 DEF Update, At
  <2>2. PICK r : r = [q EXCEPT !.upd = TRUE]
      OBVIOUS
  <2>3. r.pc = "ready" /\ r.cache = q.cache /\ r.slot = q.slot /\ r.close = q.close
      BY <1>1, <2>1, <2>2 DEF DevRec
  <2> QED BY <2>1, <2>2, <2>3, SetFacts DEF Plain, Mode
<1>7. CASE Close(d)
  <2>1. Set(d, [q EXCEPT !.pc = "lock", !.trk = NoTrack, !.close = TRUE])
        /\ UNCHANGED <<made, asleep>> /\ Closing # {}
      BY <1>7 DEF Close
  <2>2. PICK r : r = [q EXCEPT !.pc = "lock", !.trk = NoTrack, !.close = TRUE]
      OBVIOUS
  <2>3. r.pc = "lock" /\ r.cache = q.cache /\ r.slot = q.slot
      BY <1>1, <2>2 DEF DevRec
  <2> QED BY <2>1, <2>2, <2>3, SetFacts DEF Plain, Mode
<1>8. CASE Purge(d)
  <2>1. Set(d, [q EXCEPT !.close = FALSE, !.pc = "unlock", !.then = "idle"])
        /\ UNCHANGED made /\ asleep' \subseteq asleep /\ q.pc = "purge"
      BY <1>8, SignalFacts DEF Purge, Unlock, At
  <2>2. PICK r : r = [q EXCEPT !.close = FALSE, !.pc = "unlock", !.then = "idle"]
      OBVIOUS
  <2>3. r.pc = "unlock" /\ r.then = "idle" /\ r.cache = q.cache /\ r.slot = q.slot
      BY <1>1, <2>2 DEF DevRec
  <2> QED BY <2>1, <2>2, <2>3, SetFacts DEF Plain, Mode
<1>9. CASE KeepCache(d)
  <2>1. Set(d, [q EXCEPT !.pc = q.then, !.then = "idle"]) /\ UNCHANGED <<made, asleep>>
        /\ q.pc = "unlock"
      BY <1>9 DEF KeepCache, At, Resumed
  <2>2. PICK r : r = [q EXCEPT !.pc = q.then, !.then = "idle"]
      OBVIOUS
  <2>3. r.pc = q.then /\ r.cache = q.cache /\ r.slot = q.slot /\ r.close = q.close
      BY <1>1, <2>2 DEF DevRec
  <2>4. r.pc \notin {"unlock", "create", "destroy", "wait"}
      BY <1>1, <2>1, <2>3 DEF DevOK, Mode
  <2>5. Mode(r) = Mode(q)
      BY <2>1, <2>3, <2>4 DEF Mode
  <2>6. dev'[d] = r /\ \A e \in Device \ {d} : dev'[e] = dev[e]
      BY <2>1, <2>2, SetFacts
  <2> QED BY <2>1, <2>3, <2>4, <2>5, <2>6 DEF Plain
<1> QED BY <1>3, <1>4, <1>5, <1>6, <1>7, <1>8, <1>9 DEF Program

LEMMA PlainRead ==
    ASSUME Base, NEW d \in Device,
           \/ WriteOk(d) \/ WriteFail(d) \/ AbandonWrite(d)
           \/ LetGo(d) \/ Hit(d) \/ MissSync(d) \/ Wait(d) \/ Steal(d)
           \/ ReadOk(d) \/ ReadFail(d) \/ AbandonRead(d)
    PROVE  Plain(d)
<1> DEFINE q == dev[d]
<1>1. q \in DevRec /\ DevOK(q)
    BY DEF Base, Types
<1>2. CASE WriteOk(d)
  <2>1. Set(d, [q EXCEPT !.pc = "lock", !.upd = FALSE]) /\ UNCHANGED <<made, asleep>>
      BY <1>2 DEF WriteOk
  <2>2. PICK r : r = [q EXCEPT !.pc = "lock", !.upd = FALSE]
      OBVIOUS
  <2>3. r.pc = "lock" /\ r.cache = q.cache /\ r.slot = q.slot /\ r.close = q.close
      BY <1>1, <2>2 DEF DevRec
  <2> QED BY <2>1, <2>2, <2>3, SetFacts DEF Plain, Mode
<1>3. CASE WriteFail(d)
  <2>1. Set(d, [q EXCEPT !.pc = "writefailed", !.upd = FALSE]) /\ UNCHANGED <<made, asleep>>
      BY <1>3 DEF WriteFail
  <2>2. PICK r : r = [q EXCEPT !.pc = "writefailed", !.upd = FALSE]
      OBVIOUS
  <2>3. r.pc = "writefailed" /\ r.cache = q.cache /\ r.slot = q.slot /\ r.close = q.close
      BY <1>1, <2>2 DEF DevRec
  <2> QED BY <2>1, <2>2, <2>3, SetFacts DEF Plain, Mode
<1>4. CASE AbandonWrite(d)
  <2> DEFINE o == Over(d)
             n == [q EXCEPT !.cur = NoTrack, !.cache = 0, !.trk = NoTrack, !.sync = FALSE,
                            !.pc = "unlock", !.then = o]
  <2>1. Set(d, n) /\ made' = made /\ asleep' \subseteq asleep
      BY <1>4, SignalFacts DEF AbandonWrite, Unlock, NothingInHand
  <2> HIDE DEF o
  <2>2. PICK r : r = n
      OBVIOUS
  <2>3. r.pc = "unlock" /\ r.then = o /\ r.cache = 0 /\ r.slot = q.slot /\ r.close = q.close
      BY <1>1, <2>2 DEF DevRec
  <2>4. o \in {"ready", "idle"} \/ (o = "purge" /\ q.close)
      BY DEF Over, o
  <2> HIDE DEF n
  <2> QED BY <2>1, <2>2, <2>3, <2>4, SetFacts DEF Plain, Mode
<1>5. CASE LetGo(d)
  <2> DEFINE o == Over(d)
             n == [q EXCEPT !.cur = NoTrack, !.cache = 0, !.pc = "unlock", !.then = o]
  <2>1. Set(d, n) /\ made' = made /\ asleep' \subseteq asleep
      BY <1>5, SignalFacts DEF LetGo, Unlock, NothingInHand
  <2> HIDE DEF o
  <2>2. PICK r : r = n
      OBVIOUS
  <2>3. r.pc = "unlock" /\ r.then = o /\ r.cache = 0 /\ r.slot = q.slot /\ r.close = q.close
      BY <1>1, <2>2 DEF DevRec
  <2>4. o \in {"ready", "idle"} \/ (o = "purge" /\ q.close)
      BY DEF Over, o
  <2> HIDE DEF n
  <2> QED BY <2>1, <2>2, <2>3, <2>4, SetFacts DEF Plain, Mode
<1>6. CASE Hit(d)
  <2>1. PICK i : Set(d, Unlock([q EXCEPT !.cur = q.trk, !.cache = i, !.trk = NoTrack], "ready"))
      BY <1>6 DEF Hit
  <2> DEFINE n == [q EXCEPT !.cur = q.trk, !.cache = i, !.trk = NoTrack,
                            !.pc = "unlock", !.then = "ready"]
  <2>2. Set(d, n) /\ made' = made /\ asleep' \subseteq asleep /\ (made \/ q.pc = "wait")
      BY <1>6, <2>1, SignalFacts DEF Hit, Unlock, Looking, At
  <2>3. PICK r : r = n
      OBVIOUS
  <2>4. r.pc = "unlock" /\ r.then = "ready" /\ r.slot = q.slot /\ r.close = q.close
      BY <1>1, <2>3 DEF DevRec
  <2> HIDE DEF n
  <2> QED BY <2>2, <2>3, <2>4, SetFacts DEF Plain, Mode
<1>7. CASE MissSync(d)
  <2> DEFINE n == [q EXCEPT !.cur = NoTrack, !.cache = 0, !.trk = NoTrack, !.sync = FALSE,
                            !.pc = "unlock", !.then = "ready"]
  <2>1. Set(d, n) /\ made' = made /\ asleep' \subseteq asleep
      BY <1>7, SignalFacts DEF MissSync, Unlock, NothingInHand
  <2>2. PICK r : r = n
      OBVIOUS
  <2>3. r.pc = "unlock" /\ r.then = "ready" /\ r.cache = 0 /\ r.slot = q.slot /\ r.close = q.close
      BY <1>1, <2>2 DEF DevRec
  <2> HIDE DEF n
  <2> QED BY <2>1, <2>2, <2>3, SetFacts DEF Plain, Mode
<1>8. CASE Wait(d)
  <2>1. Set(d, [q EXCEPT !.pc = "wait"]) /\ made' = made
      BY <1>8 DEF Wait, Goto, Set
  <2>2. PICK r : r = [q EXCEPT !.pc = "wait"]
      OBVIOUS
  <2>3. r.pc = "wait" /\ r.cache = q.cache /\ r.slot = q.slot /\ r.close = q.close
      BY <1>1, <2>2 DEF DevRec
  <2> QED BY <1>8, <2>1, <2>2, <2>3, SetFacts DEF Plain, Mode
<1>9. CASE Steal(d)
  <2>1. PICK i : Set(d, Unlock([NothingInHand(d) EXCEPT !.slot = i], "seek"))
      BY <1>9 DEF Steal
  <2> DEFINE n == [q EXCEPT !.cur = NoTrack, !.cache = 0, !.slot = i,
                            !.pc = "unlock", !.then = "seek"]
  <2>2. Set(d, n) /\ made' = made /\ asleep' \subseteq asleep /\ (made \/ q.pc = "wait")
      BY <1>9, <2>1, SignalFacts DEF Steal, Unlock, NothingInHand, Looking, At
  <2>3. PICK r : r = n
      OBVIOUS
  <2>4. r.pc = "unlock" /\ r.then = "seek" /\ r.close = q.close
      BY <1>1, <2>3 DEF DevRec
  <2> HIDE DEF n
  <2> QED BY <1>9, <2>2, <2>3, <2>4, SetFacts DEF Plain, Mode
<1>10. CASE ReadOk(d)
  <2> DEFINE n == [q EXCEPT !.pc = "ready", !.cur = q.trk, !.cache = q.slot, !.slot = 0,
                            !.trk = NoTrack]
  <2>1. Set(d, n) /\ UNCHANGED <<made, asleep>> /\ q.pc = "seek"
      BY <1>10 DEF ReadOk, At
  <2>2. PICK r : r = n
      OBVIOUS
  <2>3. r.pc = "ready" /\ r.cache = q.slot /\ r.slot = 0 /\ r.close = q.close
      BY <1>1, <2>2 DEF DevRec
  <2> HIDE DEF n
  <2> QED BY <2>1, <2>2, <2>3, SetFacts DEF Plain, Mode
<1>11. CASE ReadFail(d)
  <2>1. Set(d, [q EXCEPT !.pc = "readfailed"]) /\ UNCHANGED <<made, asleep>> /\ d \in Faulty
      BY <1>11 DEF ReadFail, Goto, Set
  <2>2. PICK r : r = [q EXCEPT !.pc = "readfailed"]
      OBVIOUS
  <2>3. r.pc = "readfailed" /\ r.cache = q.cache /\ r.slot = q.slot /\ r.close = q.close
      BY <1>1, <2>2 DEF DevRec
  <2> QED BY <2>1, <2>2, <2>3, SetFacts DEF Plain, Mode
<1>12. CASE AbandonRead(d)
  <2> DEFINE n == [q EXCEPT !.slot = 0, !.trk = NoTrack, !.pc = "unlock", !.then = "ready"]
  <2>1. Set(d, n) /\ made' = made /\ asleep' \subseteq asleep
      BY <1>12, SignalFacts DEF AbandonRead, Unlock
  <2>2. PICK r : r = n
      OBVIOUS
  <2>3. r.pc = "unlock" /\ r.then = "ready" /\ r.cache = q.cache /\ r.slot = 0 /\ r.close = q.close
      BY <1>1, <2>2 DEF DevRec
  <2> HIDE DEF n
  <2> QED BY <2>1, <2>2, <2>3, SetFacts DEF Plain, Mode
<1> QED BY <1>2, <1>3, <1>4, <1>5, <1>6, <1>7, <1>8, <1>9, <1>10, <1>11, <1>12

\* One device: then it never has to wait, and destroys the cache only when it
\* has no entry itself.
OneDevice == \A d, e \in Device : d = e
Alone == asleep = {} /\ \A d \in Device : dev[d].pc # "wait"

LEMMA AloneStep ==
    ASSUME OneDevice, Base, Lonely, Alone, Base', [Next]_vars
    PROVE  Lonely' /\ Alone'
<1>1. CASE UNCHANGED vars
    BY <1>1 DEF vars, Lonely, NobodyUses, Alone
<1>2. CASE Next
  <2>1. PICK d \in Device : ReadTrack(d) \/ Locking(d) \/ Program(d)
      BY <1>2 DEF Next
  <2>2. d \in Device /\ \A e \in Device : e = d
      BY <2>1 DEF OneDevice
  <2> DEFINE q == dev[d]
             r == dev'[d]
  <2>3. q.pc # "wait" /\ asleep = {} /\ dev \in [Device -> DevRec] /\ q \in DevRec /\ DevOK(q)
      BY <2>2 DEF Alone, Base, Types
  <2>4. \A i \in Entry : cache.entry[i].busy => i \in {q.cache, q.slot}
      BY <2>2 DEF Base, BusyHeld
  <2>5. ~made \/ q.pc \in {"create", "destroy"} => q.cache = 0 /\ q.slot = 0
      BY <2>2 DEF Lonely, NobodyUses
  <2>6. ~Wait(d)
    <3> SUFFICES ASSUME Wait(d) PROVE FALSE
        OBVIOUS
    <3>1. q.cache = 0 /\ q.slot = 0 /\ cache.busy >= 1
        BY <2>2, WaitStep
    <3>2. Busy(cache) # {}
        BY <3>1, FS_EmptySet DEF Base, Sound
    <3>3. \A i \in Entry : i # 0
        BY EntryFinite DEF Entry
    <3> QED BY <2>4, <3>1, <3>2, <3>3 DEF Busy, IsBusy
  <2>7. SUFFICES asleep' = {} /\ r.pc # "wait"
                 /\ (~made' \/ r.pc \in {"destroy", "create"} => r.cache = 0 /\ r.slot = 0)
    <3> HIDE DEF r
    <3>1. \A e \in Device : dev'[e] = r
        BY <2>2 DEF r
    <3> QED BY <3>1 DEF Lonely, NobodyUses, Alone
  <2>8. CASE Plain(d)
      BY <2>3, <2>5, <2>6, <2>8 DEF Plain
  <2>9. CASE FindNoCache(d)
    <3>1. PICK n : n = [q EXCEPT !.pc = "create", !.then = q.pc]
        OBVIOUS
    <3>2. n.pc = "create" /\ n.cache = q.cache /\ n.slot = q.slot
        BY <2>3, <3>1 DEF DevRec
    <3>3. Set(d, n) /\ ~made /\ asleep' = asleep
        BY <2>9, <3>1 DEF FindNoCache
    <3>4. r = n
        BY <2>2, <3>3, SetFacts
    <3> QED BY <2>3, <2>5, <3>2, <3>3, <3>4
  <2>10. CASE FindEmptyCache(d)
    <3>1. PICK n : n = [q EXCEPT !.pc = "destroy"]
        OBVIOUS
    <3>2. n.pc = "destroy" /\ n.cache = q.cache /\ n.slot = q.slot
        BY <2>3, <3>1 DEF DevRec
    <3>3. Set(d, n) /\ ~(made /\ cache.empty # Nbr) /\ asleep' = asleep
        BY <2>10, <3>1 DEF FindEmptyCache, Goto, Set
    <3>4. r = n
        BY <2>2, <3>3, SetFacts
    <3>5. cache.empty = Nbr => q.cache = 0 /\ q.slot = 0
      <4> SUFFICES ASSUME cache.empty = Nbr PROVE q.cache = 0 /\ q.slot = 0
          OBVIOUS
      <4>1. Empty(cache) \subseteq Entry /\ Cardinality(Empty(cache)) = Cardinality(Entry)
          BY EntryFinite DEF Base, Sound, Empty
      <4>2. Empty(cache) = Entry
          BY <4>1, EntryFinite, FS_Subset
      <4>3. \A i \in Entry : ~cache.entry[i].busy
          BY <4>2 DEF Empty, IsEmpty, IsBusy
      <4> QED BY <2>2, <4>3, InHand
    <3> QED BY <2>3, <2>5, <3>2, <3>3, <3>4, <3>5
  <2>11. CASE CreateCache(d) \/ DestroyCache(d)
    <3>1. PICK n : n = [q EXCEPT !.pc = q.then, !.then = "idle"]
        OBVIOUS
    <3>2. n.pc = q.then /\ n.cache = q.cache /\ n.slot = q.slot
        BY <2>3, <3>1 DEF DevRec
    <3>3. Set(d, n) /\ q.pc \in {"create", "destroy"} /\ asleep' = asleep
        BY <2>11, <3>1 DEF CreateCache, DestroyCache, At, Resumed
    <3>4. r = n
        BY <2>2, <3>3, SetFacts
    <3>5. n.pc # "wait"
        BY <2>3, <3>2, <3>3 DEF DevOK, Mode
    <3> QED BY <2>3, <2>5, <3>2, <3>3, <3>4, <3>5
  <2> QED BY <2>1, <2>2, <2>8, <2>9, <2>10, <2>11, PlainRead, PlainProgram DEF ReadTrack, Locking
<1> QED BY <1>1, <1>2

\* A cache that is there, disks that are not closed, and never a device that can
\* empty the last entry used: then it is not destroyed.
NeverEmpty == Made /\ Closing = {} /\ (Faulty = {} \/ (~Aged /\ Cardinality(Faulty) < Nbr))

Stays ==
    /\ made
    /\ \A d \in Device : /\ dev[d].pc \notin {"create", "destroy"}
                         /\ ~dev[d].close /\ Mode(dev[d]) # "purge"
                         /\ Mode(dev[d]) = "readfailed" => d \in Faulty
    /\ \E i \in Entry : cache.entry[i].key # NoKey /\ \A d \in Faulty : dev[d].slot # i

\* The steps that rename no entry.
LEMMA KeysStay ==
    ASSUME Base, NEW d \in Device,
           \/ \E t \in Track : Read(d, t)
           \/ WriteOk(d) \/ WriteFail(d) \/ AbandonWrite(d) \/ LetGo(d) \/ Hit(d) \/ MissSync(d)
           \/ Wait(d) \/ ReadOk(d) \/ ReadFail(d) \/ KeepCache(d)
           \/ StartProgram(d) \/ Update(d) \/ EndProgram(d) \/ Close(d)
    PROVE  \A i \in Entry : cache'.entry[i].key = cache.entry[i].key
<1>1. dev[d] \in DevRec /\ DevOK(dev[d]) /\ Sound(cache)
    BY DEF Base, Types
<1>2. CASE \/ \E t \in Track : Read(d, t)
           \/ WriteFail(d) \/ Wait(d) \/ ReadFail(d) \/ KeepCache(d)
           \/ StartProgram(d) \/ EndProgram(d) \/ Close(d)
    BY <1>2 DEF Read, WriteFail, Wait, ReadFail, KeepCache, StartProgram, EndProgram, Close
<1>3. CASE AbandonWrite(d) \/ LetGo(d) \/ MissSync(d)
  <2>1. cache' = Inactive(d)
    <3>1. AbandonWrite(d) => dev[d].cache # 0
        BY <1>1 DEF AbandonWrite, At, DevOK, Mode
    <3> QED BY <1>3, <3>1 DEF AbandonWrite, LetGo, MissSync, Inactive, Buffer
  <2> QED BY <2>1, InactiveFacts
<1>4. CASE (WriteOk(d) \/ ReadOk(d) \/ Update(d)) /\ cache' # cache
  <2>1. PICK i, v : cache' = WithImage(cache, i, v) /\ i \in Entry /\ v \in Image
    <3>1. /\ WriteOk(d) => cache' = WithImage(cache, dev[d].cache, "disk") /\ dev[d].cache # 0
          /\ ReadOk(d) => cache' = WithImage(cache, dev[d].slot, "disk") /\ dev[d].slot # 0
          /\ Update(d) => cache' = WithImage(cache, dev[d].cache, "new") /\ dev[d].cache # 0
        BY <1>1, <1>4 DEF WriteOk, ReadOk, Update, WithImage, Buffer, At, DevOK, Mode
    <3>2. "disk" \in Image /\ "new" \in Image
        BY DEF Image
    <3> QED BY <1>4, <3>1, <3>2, InHand
  <2>2. Imaged(cache, cache', i, v)
      BY <1>1, <2>1, ImageSound
  <2> QED BY <2>2 DEF Imaged
<1>5. CASE Hit(d)
  <2>1. PICK i \in Hits(Inactive(d), <<d, dev[d].trk>>) :
          cache' = SetAge(SetFlag(Inactive(d), i, TRUE), i)
      BY <1>5 DEF Hit
  <2>2. i \in Entry
      BY <2>1 DEF Hits
  <2>3. LookedUp(d, cache', i) /\ cache'.entry[i].key = cache.entry[i].key
      BY <2>1, <2>2, InactiveTaken
  <2> QED BY <2>3 DEF LookedUp
<1>6. CASE cache' = cache
    BY <1>6
<1> QED BY <1>2, <1>3, <1>4, <1>5, <1>6

\* Fewer devices than entries fill them: one entry is not being filled.
LEMMA OneNotFilled ==
    ASSUME Cardinality(Faulty) < Nbr, NEW slot
    PROVE  \E i \in Entry : \A e \in Faulty : slot[e] # i
<1> DEFINE S == Entry
           T == Faulty
           f == [i \in S |-> CHOOSE e \in T : slot[e] = i]
<1> SUFFICES ASSUME \A i \in S : \E e \in T : slot[e] = i PROVE FALSE
    OBVIOUS
<1>1. \A i \in S : f[i] \in T /\ slot[f[i]] = i
    OBVIOUS
<1>2. f \in [S -> T]
    BY <1>1
<1>3. IsFiniteSet(S) /\ IsFiniteSet(T) /\ Cardinality(T) < Cardinality(S)
    BY EntryFinite, CacheAssumption, FS_Subset
<1>4. \E i, j \in S : i # j /\ f[i] = f[j]
  <2> HIDE DEF S, T, f
  <2> QED BY <1>2, <1>3, FS_PigeonHole
<1> QED BY <1>1, <1>4

\* A device that takes the last entry used finds all others in use.
LEMMA LastTaken ==
    ASSUME Base, NEW d \in Device, ~Aged, NEW k, NEW i \in Offers(Inactive(d), k),
           cache.entry[i].key # NoKey
    PROVE  \A j \in Entry : cache.entry[j].key # NoKey
<1> DEFINE b == Inactive(d)
<1>1. /\ b.age = cache.age /\ b.age \in Seq(Entry)
      /\ \A j \in Entry : /\ b.entry[j].key = cache.entry[j].key
                          /\ b.entry[j].busy => cache.entry[j].busy
    BY InactiveFacts DEF Base, Sound, CacheRec
<1>2. /\ i \in Entry
      /\ \A j \in Entry : ~b.entry[j].busy =>
            Rank(b, i) < Rank(b, j) \/ (Rank(b, i) = Rank(b, j) /\ i <= j)
    BY DEF Offers, IsBusy
<1> HIDE DEF b
<1>3. Rank(b, i) \in Nat /\ Rank(b, i) >= 1
  <2>1. i \in On(b.age)
      BY <1>1, <1>2 DEF Base, Keys
  <2>2. PICK n \in 1..Len(b.age) : b.age[n] = i
      BY <2>1 DEF On
  <2>3. (CHOOSE m \in 1..Len(b.age) : b.age[m] = i) \in 1..Len(b.age)
      BY <2>2
  <2>4. Len(b.age) \in Nat
      BY <1>1, LenProperties
  <2> QED BY <2>1, <2>3, <2>4 DEF Rank
<1> SUFFICES ASSUME NEW j \in Entry, cache.entry[j].key = NoKey PROVE FALSE
    OBVIOUS
<1>4. Rank(b, j) = 0
  <2>1. j \notin On(b.age)
      BY <1>1 DEF Base, Keys
  <2> QED BY <2>1 DEF Rank
<1>5. ~b.entry[j].busy
  <2> SUFFICES ASSUME cache.entry[j].busy PROVE FALSE
      BY <1>1
  <2>1. PICK e \in Device : j \in {dev[e].cache, dev[e].slot}
      BY DEF Base, BusyHeld
  <2>2. j # 0
      BY EntryFinite DEF Entry
  <2>3. e \in Device
      BY <2>1
  <2>4. \E t : cache.entry[j].key = <<e, t>>
      BY <2>1, <2>2, <2>3 DEF Base, Held
  <2> QED BY <2>3, <2>4, KeyFacts
<1> QED BY <1>2, <1>3, <1>4, <1>5

LEMMA StaysStep ==
    ASSUME NeverEmpty, Base, Stays, Base', [Next]_vars
    PROVE  Stays'
<1>1. CASE UNCHANGED vars
    BY <1>1 DEF vars, Stays
<1>2. CASE Next
  <2>1. PICK d \in Device : ReadTrack(d) \/ Locking(d) \/ Program(d)
      BY <1>2 DEF Next
  <2>2. d \in Device
      BY <2>1
  <2> DEFINE q == dev[d]
             r == dev'[d]
  <2>3. PICK w \in Entry : cache.entry[w].key # NoKey /\ \A e \in Faulty : dev[e].slot # w
      BY DEF Stays
  <2>4. w \in Entry /\ w # 0
      BY <2>3, EntryFinite DEF Entry
  <2>5. /\ ~FindNoCache(d) /\ ~CreateCache(d) /\ ~DestroyCache(d) /\ ~Purge(d)
      BY <2>2 DEF Stays, FindNoCache, CreateCache, DestroyCache, Purge, At, Mode
  <2>6. ~FindEmptyCache(d)
    <3>1. cache.empty # Nbr
      <4> SUFFICES ASSUME cache.empty = Nbr PROVE FALSE
          OBVIOUS
      <4>1. Empty(cache) \subseteq Entry /\ Cardinality(Empty(cache)) = Cardinality(Entry)
          BY EntryFinite DEF Base, Sound, Empty
      <4>2. Empty(cache) = Entry
          BY <4>1, EntryFinite, FS_Subset
      <4> QED BY <2>3, <2>4, <4>2 DEF Empty, IsEmpty
    <3> QED BY <3>1 DEF FindEmptyCache, Stays
  <2>7. Plain(d)
      BY <2>1, <2>2, <2>5, <2>6, PlainRead, PlainProgram DEF ReadTrack, Locking
  <2>8. made' /\ \A e \in Device : /\ dev'[e].pc \notin {"create", "destroy"}
                                   /\ ~dev'[e].close /\ Mode(dev'[e]) # "purge"
                                   /\ Mode(dev'[e]) = "readfailed" => e \in Faulty
    <3>1. made' /\ r.pc \notin {"create", "destroy"} /\ ~r.close /\ Mode(r) # "purge"
          /\ (Mode(r) = "readfailed" => d \in Faulty)
        BY <2>2, <2>7 DEF Plain, Stays, NeverEmpty
    <3>2. \A e \in Device \ {d} : dev'[e] = dev[e]
        BY <2>7 DEF Plain
    <3> HIDE DEF r
    <3>3. dev'[d] = r
        BY DEF r
    <3> QED BY <3>1, <3>2, <3>3 DEF Stays
  <2>9. \A e \in Faulty \ {d} : dev'[e].slot # w
    <3>1. \A e \in Faulty : e \in Device
        BY CacheAssumption
    <3> QED BY <2>3, <2>7, <3>1 DEF Plain
  <2>10. \E i \in Entry : cache'.entry[i].key # NoKey /\ \A e \in Faulty : dev'[e].slot # i
    <3>1. CASE Steal(d)
      <4>1. PICK i \in Offers(Inactive(d), <<d, q.trk>>) :
              /\ cache' = [SetAge(SetFlag(SetKey(Inactive(d), i, <<d, q.trk>>), i, TRUE), i)
                               EXCEPT !.entry[i].image = "other"]
              /\ Set(d, Unlock([NothingInHand(d) EXCEPT !.slot = i], "seek"))
          BY <3>1 DEF Steal
      <4>2. i \in Entry /\ i \in Offers(Inactive(d), <<d, q.trk>>)
          BY <4>1 DEF Offers
      <4>3. <<d, q.trk>> \in Key /\ <<d, q.trk>> # NoKey
          BY <2>2, <3>1, LookingFacts, KeyFacts DEF Steal
      <4>4. cache' = WithImage(SetAge(SetFlag(SetKey(Inactive(d), i, <<d, q.trk>>), i, TRUE), i), i, "other")
          BY <4>1 DEF WithImage
      <4>5. LookedUp(d, cache', i) /\ cache'.entry[i].key = <<d, q.trk>>
          BY <2>2, <4>2, <4>3, <4>4, RenameTaken
      <4>6. cache'.entry[i].key # NoKey /\ \A j \in Entry \ {i} : cache'.entry[j].key = cache.entry[j].key
          BY <4>3, <4>5 DEF LookedUp
      <4>7. CASE i # w
        <5>1. PICK n : n = [q EXCEPT !.cur = NoTrack, !.cache = 0, !.slot = i,
                                     !.pc = "unlock", !.then = "seek"]
            OBVIOUS
        <5>2. r = n
            BY <2>2, <4>1, <5>1, SetFacts DEF Unlock, NothingInHand
        <5>3. n.slot = i
            BY <2>2, <5>1 DEF Base, Types, DevRec
        <5> QED BY <2>3, <2>4, <2>9, <4>6, <4>7, <5>2, <5>3
      <4>8. CASE i = w /\ d \notin Faulty
          BY <2>4, <2>9, <4>6, <4>8
      <4>9. CASE i = w /\ d \in Faulty
        <5>1. ~Aged /\ Cardinality(Faulty) < Nbr
            BY <4>9 DEF NeverEmpty
        <5>2. \A j \in Entry : cache.entry[j].key # NoKey
            BY <2>2, <2>3, <4>2, <4>9, <5>1, LastTaken
        <5>3. \A j \in Entry : cache'.entry[j].key # NoKey
            BY <4>6, <5>2
        <5> DEFINE slots == [e \in Faulty |-> dev'[e].slot]
        <5>4. PICK j \in Entry : \A e \in Faulty : slots[e] # j
          <6> HIDE DEF slots
          <6> QED BY <5>1, OneNotFilled
        <5> QED BY <5>3, <5>4
      <4> QED BY <4>7, <4>8, <4>9
    <3>2. CASE ~Steal(d) /\ AbandonRead(d)
      <4>1. /\ q.pc = "readfailed" /\ q.slot \in Entry /\ d \in Faulty
            /\ cache' = ReleaseAll(cache, {q.slot})
        <5>1. q.pc = "readfailed" /\ cache' = ReleaseAll(cache, {q.slot})
            BY <3>2 DEF AbandonRead, At, Release
        <5>2. q.slot # 0 /\ Mode(q) = "readfailed"
            BY <2>2, <5>1 DEF Base, DevOK, Mode
        <5> QED BY <2>2, <5>1, <5>2, InHand DEF Stays
      <4>2. Released(cache, cache', {q.slot})
          BY <4>1, ReleasedSound DEF Base
      <4>3. cache'.entry[w] = cache.entry[w]
          BY <2>3, <2>4, <4>1, <4>2 DEF Released
      <4>4. r.slot \in {0, q.slot}
          BY <2>7, <3>2 DEF Plain
      <4> QED BY <2>3, <2>4, <2>9, <4>1, <4>3, <4>4
    <3>3. CASE ~Steal(d) /\ ~AbandonRead(d)
      <4>1. cache'.entry[w].key = cache.entry[w].key
          BY <2>1, <2>2, <2>4, <2>5, <2>6, <3>3, KeysStay DEF ReadTrack, Locking, Program
      <4>2. r.slot \in {0, q.slot}
          BY <2>7, <3>3 DEF Plain
      <4> QED BY <2>3, <2>4, <2>9, <4>1, <4>2
    <3> QED BY <3>1, <3>2, <3>3
  <2> QED BY <2>8, <2>10 DEF Stays
<1> QED BY <1>1, <1>2

-----------------------------------------------------------------------------
(* The theorems *)

Inv == Base /\ Lonely /\ (NeverEmpty => Stays) /\ (OneDevice => Alone)

LEMMA StaysLonely == Stays => Lonely
BY DEF Stays, Lonely

LEMMA StaysLonelyNext == Stays' => Lonely'
BY StaysLonely, PTL

LEMMA InitStays == ASSUME Init, NeverEmpty PROVE Stays
<1>1. made /\ Made /\ dev = [d \in Device |-> Quiet]
    BY DEF Init, NeverEmpty
<1>2. \A d \in Device : dev[d].pc = "idle" /\ ~dev[d].close /\ Mode(dev[d]) = "idle" /\ dev[d].slot = 0
    BY <1>1 DEF Quiet, Mode
<1>3. \E i \in Entry : cache.entry[i].key # NoKey
  <2>1. PICK k \in Key, i \in Entry :
           cache = [SetAge(SetFlag(SetFlag(SetKey(EmptyCache, i, k), i, TRUE), i, FALSE), i)
                        EXCEPT !.entry[i].image = "disk"]
      BY <1>1 DEF Init
  <2>2. i \in Entry /\ k \in Key /\ k # NoKey
      BY <2>1, KeyFacts
  <2> DEFINE a == SetKey(EmptyCache, i, k)
             b == SetFlag(a, i, TRUE)
             c == SetFlag(b, i, FALSE)
             m == SetAge(c, i)
  <2>3. cache = WithImage(m, i, "disk")
      BY <2>1 DEF WithImage
  <2>4. Sound(a)
      BY <2>2, EmptyCacheSound, SetKeySound
  <2> HIDE DEF a
  <2>5. Sound(b)
      BY <2>2, <2>4, SetFlagSound
  <2> HIDE DEF b
  <2>6. Sound(c)
      BY <2>2, <2>5, SetFlagSound
  <2> HIDE DEF c
  <2>7. Sound(m) /\ i \in On(m.age)
      BY <2>2, <2>6, SetAgeSound
  <2> HIDE DEF m
  <2>8. Imaged(m, cache, i, "disk")
      BY <2>2, <2>3, <2>7, ImageSound DEF Image
  <2>9. i \in On(cache.age)
      BY <2>7, <2>8 DEF Imaged
  <2>10. Keys(cache)
      BY InitBase DEF Base
  <2> QED BY <2>2, <2>9, <2>10 DEF Keys
<1>4. \A i \in Entry : i # 0
    BY EntryFinite DEF Entry
<1>5. \A d \in Faulty : d \in Device
    BY CacheAssumption
<1> QED BY <1>1, <1>2, <1>3, <1>4, <1>5 DEF Stays

LEMMA InitInv == Init => Inv
<1> SUFFICES ASSUME Init PROVE Inv
    OBVIOUS
<1>1. Base /\ NobodyUses
    BY InitBase
<1>2. Lonely
    BY <1>1 DEF Lonely
<1>3. Alone
    BY <1>1 DEF NobodyUses, Alone, Init, Quiet
<1> QED BY <1>1, <1>2, <1>3, InitStays DEF Inv

LEMMA StepInv == (NeverEmpty \/ OneDevice) /\ Inv /\ [Next]_vars => Inv'
<1> SUFFICES ASSUME NeverEmpty \/ OneDevice, Inv, [Next]_vars PROVE Inv'
    OBVIOUS
<1>1. Base'
    BY BaseStep DEF Inv
<1>2. NeverEmpty => Stays'
    BY <1>1, StaysStep DEF Inv
<1>3. OneDevice => Lonely' /\ Alone'
    BY <1>1, AloneStep DEF Inv
<1> QED BY <1>1, <1>2, <1>3, StaysLonelyNext DEF Inv, NeverEmpty, OneDevice

LEMMA Invariant == ASSUME NeverEmpty \/ OneDevice PROVE Spec => []Inv
<1>1. Inv /\ [Next]_vars => Inv'
    BY StepInv
<1> QED BY <1>1, InitInv, PTL DEF Spec

\* Every variable of cache.c and of the disks keeps its type; no counter leaves
\* the number of entries.
THEOREM TypeCorrect == ASSUME NeverEmpty \/ OneDevice PROVE Spec => []TypeOK
<1>1. Inv => TypeOK
  <2> SUFFICES ASSUME Inv PROVE TypeOK
      OBVIOUS
  <2>1. Types /\ Sound(cache)
      BY DEF Inv, Base
  <2>2. cache.busy \in 0..Nbr /\ cache.empty \in 0..Nbr
      BY <2>1, SoundRange
  <2>3. cache \in CacheRec
      BY <2>1 DEF Sound
  <2>4. cache \in [entry : [Entry -> EntryRec], age : Seq(Entry), busy : 0..Nbr, empty : 0..Nbr]
    <3> HIDE DEF EntryRec
    <3> QED BY <2>2, <2>3 DEF CacheRec
  <2> QED BY <2>1, <2>4 DEF TypeOK, Types, DevRec, EntryRec
<1> QED BY <1>1, Invariant, PTL

\* cache_lookup, ckddasd_read_track, fbadasd_read_blkgrp: the entry that a disk
\* has in hand or is filling stays busy and keeps the key of its track.
THEOREM BusyIsNotStolen == ASSUME NeverEmpty \/ OneDevice PROVE Spec => []HeldIsKept
<1>1. Inv => HeldIsKept
  <2>1. \A i \in Entry : i # 0
      BY EntryFinite DEF Entry
  <2> QED BY <2>1 DEF Inv, Base, Held, HeldIsKept, Holds, IsBusy
<1> QED BY <1>1, Invariant, PTL

\* cache_setkey, cache_setflag, cache_setage, cache_release: the counters that
\* they increment and decrement are the numbers of busy and of empty entries.
THEOREM CountersAreExact == ASSUME NeverEmpty \/ OneDevice PROVE Spec => []CountersExact
<1>1. Inv => CountersExact
    BY DEF Inv, Base, Sound, Busy, Empty, CountersExact
<1> QED BY <1>1, Invariant, PTL

\* cache_wait, cache_setflag, cache_release: the entries that are not busy while a
\* disk sleeps have all been announced to disks that are on their way to them.
THEOREM NoWakeupIsLost == ASSUME NeverEmpty \/ OneDevice PROVE Spec => []WakeupForEachFree
<1>1. Inv => WakeupForEachFree
    BY DEF Inv, Base
<1> QED BY <1>1, Invariant, PTL

\* ckddasd_read_track, ckddasd_update_track: a changed image is that of a disk
\* that knows it has to write it, or of a track of which a write failed with an
\* error to the program.  The bounds of the failed update are gone: later writes
\* of the track may succeed and leave its change off the disk.
THEOREM NoChangeIsDropped == ASSUME NeverEmpty \/ OneDevice PROVE Spec => []NoChangeDropped
<1>1. Inv => NoChangeDropped
    BY DEF Inv, Base
<1> QED BY <1>1, Invariant, PTL

\* ckddasd_read_track: the image that a disk has in hand was read from the disk,
\* whoever stole, released or abandoned the entry before.
THEOREM ImageInHandIsRead == ASSUME NeverEmpty \/ OneDevice PROVE Spec => []ImageRead
<1>1. Inv => ImageRead
  <2> SUFFICES ASSUME Inv, NEW d \in Device, dev[d].cache # 0
               PROVE  cache.entry[dev[d].cache].image # "other"
      BY DEF ImageRead
  <2>1. Base
      BY DEF Inv
  <2>2. dev[d].cache \in Entry
      BY <2>1 DEF Base, Types, DevRec, Entry
  <2>3. cache.entry[dev[d].cache].key # NoKey
    <3>1. cache.entry[dev[d].cache].key = <<d, dev[d].cur>>
        BY <2>1 DEF Base, Held
    <3> QED BY <3>1 DEF NoKey
  <2>4. \A e \in Device : dev[e].slot # dev[d].cache
      BY <2>1, <2>2, Apart
  <2> QED BY <2>1, <2>2, <2>3, <2>4 DEF Base, Images
<1> QED BY <1>1, Invariant, PTL

\* cache_unlock, cache_destroy: when the cache is destroyed, no disk has an entry
\* of it and none waits for one.
THEOREM UsersHaveTheirCache == ASSUME NeverEmpty \/ OneDevice PROVE Spec => []UsersHaveCache
<1>1. Inv => UsersHaveCache
    BY DEF Inv, Lonely, NobodyUses, UsersHaveCache
<1> QED BY <1>1, Invariant, PTL

=============================================================================
