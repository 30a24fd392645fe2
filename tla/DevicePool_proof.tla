-------------------------- MODULE DevicePool_proof ---------------------------
(***************************************************************************)
(* Proofs about DevicePool, for any devices, priorities, threads and       *)
(* limits.                                                                 *)
(***************************************************************************)
EXTENDS DevicePool, ChainOps_proof, FiniteSetTheorems

-----------------------------------------------------------------------------
(* The linked list *)

Size == Cardinality(Device)
Null == Device \cup {NoDev}

\* e[n] is the n-th entry of the list that begins with first and is linked by next.
Chain(e, first, next) ==
    /\ e \in [Index -> Null]
    /\ e[0] = first
    /\ \A n \in 1..Size : e[n] = IF e[n - 1] = NoDev THEN NoDev ELSE next[e[n - 1]]

\* The list ends, holds nothing twice, and is in order of priority.
Ordered(e) ==
    /\ \E n \in Index : e[n] = NoDev
    /\ \A m, n \in Index : m < n /\ e[n] # NoDev =>
        e[m] # e[n] /\ Priority[e[m]] <= Priority[e[n]]

LEMMA SizeNat == Size \in Nat /\ Index = 0..Size
BY PoolAssumption, FS_CardinalityType DEF Size, Index

\* The list is followed from the first entry on.
LEMMA EntryChain == ioq \in Null /\ nextioq \in [Device -> Null] => Chain(Entry, ioq, nextioq)
<1> SUFFICES ASSUME ioq \in Null, nextioq \in [Device -> Null] PROVE Chain(Entry, ioq, nextioq)
    OBVIOUS
<1> DEFINE Step(v) == IF v = NoDev THEN NoDev ELSE nextioq[v]
           F == [n \in 1..Size |-> [v \in Null |-> Step(v)]]
           Def(g) == [n \in Index |-> IF n = 0 THEN ioq ELSE Step(g[n - 1])]
           h == CHOOSE g : g = Def(g)
<1>1. \A v \in Null : Step(v) \in Null
    BY DEF Null
<1>2. F \in [1..Size -> [Null -> Null]]
    BY <1>1
<1>3. PICK f \in [0..Size -> Null] : f[0] = ioq /\ \A n \in 1..Size : f[n] = F[n][f[n - 1]]
  <2> HIDE DEF F
  <2>1. \E f \in [0..Size -> Null] : Unfolds(f, Size, ioq, F)
      BY <1>2, SizeNat, RecursionTo
  <2> QED BY <2>1 DEF Unfolds
<1>4. \A n \in 1..Size : f[n] = Step(f[n - 1])
  <2> TAKE n \in 1..Size
  <2>1. f[n - 1] \in Null
      BY SizeNat
  <2> QED BY <1>3, <2>1
<1> HIDE DEF Step
<1>5. f = Def(f)
  <2>1. \A n \in Index : f[n] = IF n = 0 THEN ioq ELSE Step(f[n - 1])
      BY <1>3, <1>4, SizeNat
  <2> QED BY <2>1, SizeNat
<1>6. h = Def(h)
  <2> HIDE DEF Def
  <2> QED BY <1>5
<1> HIDE DEF h
<1>7. h[0] = ioq /\ \A n \in 1..Size : h[n] = Step(h[n - 1])
  <2>1. 0 \in Index /\ \A n \in 1..Size : n \in Index /\ n # 0
      BY SizeNat
  <2>2. \A n \in Index : h[n] = IF n = 0 THEN ioq ELSE Step(h[n - 1])
      BY <1>6
  <2> QED BY <2>1, <2>2
<1>8. h \in [Index -> Null]
  <2> DEFINE Good == {n \in Index : h[n] \in Null}
  <2>1. 0 \in Good
      BY <1>7, SizeNat
  <2>2. \A n \in 1..Size : n - 1 \in Good => n \in Good
      BY <1>1, <1>7, SizeNat
  <2>3. \A n \in 0..Size : n \in Good
    <3> HIDE DEF Good
    <3> QED BY <2>1, <2>2, SizeNat, InductionTo
  <2>4. \A n \in Index : h[n] \in Null
      BY <2>3, SizeNat
  <2>5. h = [n \in Index |-> h[n]]
      BY <1>6
  <2> QED BY <2>4, <2>5
<1>9. Entry = h
    BY DEF Entry, h, Step
<1> QED BY <1>7, <1>8, <1>9 DEF Chain, Step

\* Two descriptions of one list are the same.
LEMMA ChainUnique ==
    ASSUME NEW first, NEW next, NEW e, NEW f, Chain(e, first, next), Chain(f, first, next)
    PROVE  e = f
<1> DEFINE Same == {n \in Index : e[n] = f[n]}
<1>1. 0 \in Same
    BY SizeNat DEF Chain
<1>2. \A n \in 1..Size : n - 1 \in Same => n \in Same
    BY SizeNat DEF Chain
<1>3. \A n \in 0..Size : n \in Same
  <2> HIDE DEF Same
  <2> QED BY <1>1, <1>2, SizeNat, InductionTo
<1>4. e = [n \in Index |-> e[n]] /\ f = [n \in Index |-> f[n]]
    BY DEF Chain
<1> QED BY <1>3, <1>4, SizeNat

\* Behind the end of the list there is nothing.
LEMMA ChainEnds ==
    ASSUME NEW first, NEW next, NEW e, Chain(e, first, next), NEW m \in Index, e[m] = NoDev
    PROVE  \A n \in m..Size : e[n] = NoDev
<1> DEFINE Good == {n \in Index : n >= m => e[n] = NoDev}
<1>1. 0 \in Good
    BY SizeNat
<1>2. \A n \in 1..Size : n - 1 \in Good => n \in Good
    BY SizeNat DEF Chain
<1>3. \A n \in 0..Size : n \in Good
  <2> HIDE DEF Good
  <2> QED BY <1>1, <1>2, SizeNat, InductionTo
<1> QED BY <1>3, SizeNat

\* As long as a device is not on the list, the list has room for it.
LEMMA ChainRoom ==
    ASSUME NEW first, NEW next, NEW e, Chain(e, first, next), Ordered(e),
           NEW d \in Device, \A n \in Index : e[n] # d
    PROVE  Size >= 1 /\ e[Size - 1] = NoDev
<1>1. Size >= 1 /\ IsFiniteSet(Device \ {d}) /\ Cardinality(Device \ {d}) = Size - 1
  <2>1. IsFiniteSet(Device \ {d}) /\ Cardinality(Device \ {d}) = Size - 1
      BY PoolAssumption, FS_RemoveElement DEF Size
  <2>2. Cardinality(Device \ {d}) \in Nat
      BY <2>1, FS_CardinalityType
  <2> QED BY <2>1, <2>2, SizeNat
<1>2. ASSUME e[Size - 1] # NoDev PROVE FALSE
  <2> DEFINE f == [n \in 0..(Size - 1) |-> e[n]]
  <2>1. \A n \in 0..(Size - 1) : n \in Index /\ e[n] # NoDev
    <3> SUFFICES ASSUME NEW n \in 0..(Size - 1), e[n] = NoDev PROVE FALSE
        BY SizeNat
    <3>1. n \in Index /\ Size - 1 \in n..Size
        BY <1>1, SizeNat
    <3> QED BY <1>2, <3>1, ChainEnds
  <2>2. f \in [0..(Size - 1) -> Device \ {d}]
      BY <2>1 DEF Chain, Null
  <2>3. IsFiniteSet(0..(Size - 1)) /\ Cardinality(0..(Size - 1)) = Size
    <3>1. Size - 1 \in Int /\ ~(0 > Size - 1) /\ (Size - 1) - 0 + 1 = Size
        BY <1>1, SizeNat
    <3>2. Cardinality(0..(Size - 1)) = IF 0 > Size - 1 THEN 0 ELSE (Size - 1) - 0 + 1
        BY <3>1, FS_Interval
    <3> QED BY <3>1, <3>2, FS_Interval
  <2>4. PICK x, y \in 0..(Size - 1) : x # y /\ f[x] = f[y]
    <3> DEFINE S == 0..(Size - 1)
               T == Device \ {d}
    <3>1. Cardinality(T) < Cardinality(S)
        BY <1>1, <2>3, SizeNat
    <3>2. IsFiniteSet(S) /\ IsFiniteSet(T) /\ f \in [S -> T]
        BY <1>1, <2>2, <2>3
    <3>3. \E x, y \in S : x # y /\ f[x] = f[y]
      <4> HIDE DEF S, T, f
      <4> QED BY <3>1, <3>2, FS_PigeonHole
    <3> QED BY <3>3
  <2>5. e[x] = e[y] /\ (x < y \/ y < x)
      BY <2>4, SizeNat
  <2> QED BY <2>1, <2>5 DEF Ordered
<1> QED BY <1>1, <1>2

\* Insert: d becomes the n-th entry.
Inserted(e, n, d) == [m \in Index |-> IF m < n THEN e[m] ELSE IF m = n THEN d ELSE e[m - 1]]
Goes(e, d, n) == e[n] # NoDev => Priority[d] < Priority[e[n]]

LEMMA InsertChain ==
    ASSUME NEW e, NEW first, NEW next, Chain(e, first, next), Ordered(e),
           next \in [Device -> Null],
           NEW d \in Device, \A i \in Index : e[i] # d,
           NEW n \in Index, Goes(e, d, n), \A m \in 0..(n - 1) : ~Goes(e, d, m)
    PROVE  /\ Chain(Inserted(e, n, d), IF n = 0 THEN d ELSE first,
                    [x \in Device |-> IF x = d THEN e[n]
                                      ELSE IF n > 0 /\ x = e[n - 1] THEN d ELSE next[x]])
           /\ Ordered(Inserted(e, n, d))
           /\ \A x \in Device : (\E i \in Index : Inserted(e, n, d)[i] = x)
                                    <=> x = d \/ \E i \in Index : e[i] = x
<1> DEFINE f == Inserted(e, n, d)
           next2 == [x \in Device |-> IF x = d THEN e[n]
                                      ELSE IF n > 0 /\ x = e[n - 1] THEN d ELSE next[x]]
<1>1. Size \in Nat /\ Index = 0..Size /\ n \in 0..Size
    BY SizeNat
<1>2. e \in [Index -> Null] /\ d # NoDev
    BY PoolAssumption DEF Chain
<1>3. \A m \in Index : f[m] = IF m < n THEN e[m] ELSE IF m = n THEN d ELSE e[m - 1]
    BY DEF Inserted
<1>4. Size >= 1 /\ e[Size - 1] = NoDev /\ e[Size] = NoDev
  <2>1. Size >= 1 /\ e[Size - 1] = NoDev
      BY ChainRoom
  <2> QED BY <1>1, <2>1 DEF Chain
<1>5. \A m \in 0..(n - 1) : m \in Index /\ e[m] \in Device /\ ~(Priority[d] < Priority[e[m]])
    BY <1>1, <1>2 DEF Goes, Null
<1>6. n < Size
    BY <1>1, <1>4, <1>5, PoolAssumption
<1>7. \A a, b \in Index : a < b /\ e[b] # NoDev => e[a] # NoDev
  <2> SUFFICES ASSUME NEW a \in Index, NEW b \in Index, a < b, e[b] # NoDev, e[a] = NoDev PROVE FALSE
      OBVIOUS
  <2>1. b \in a..Size
      BY <1>1
  <2> QED BY <2>1, ChainEnds
<1>8. \A a, b \in Index : a # b /\ e[a] # NoDev => e[a] # e[b]
    BY <1>1, <1>7 DEF Ordered
<1>9. f \in [Index -> Null]
  <2>1. \A m \in Index : m > n => m - 1 \in Index
      BY <1>1
  <2>2. \A m \in Index : f[m] \in Null
      BY <1>1, <1>2, <1>3, <2>1 DEF Null
  <2> QED BY <2>2 DEF Inserted
<1>10. f[0] = IF n = 0 THEN d ELSE first
    BY <1>1, <1>3 DEF Chain
<1>11. ASSUME NEW m \in 1..Size
       PROVE  f[m] = IF f[m - 1] = NoDev THEN NoDev ELSE next2[f[m - 1]]
  <2>1. m \in Index /\ m - 1 \in Index
      BY <1>1
  <2>2. e[m] = IF e[m - 1] = NoDev THEN NoDev ELSE next[e[m - 1]]
      BY DEF Chain
  <2>3. CASE m < n
    <3>1. f[m] = e[m] /\ f[m - 1] = e[m - 1] /\ e[m - 1] \in Device
        BY <1>1, <1>3, <1>5, <2>1, <2>3
    <3>2. e[m - 1] # e[n - 1] /\ e[m - 1] # d /\ e[m - 1] # NoDev
        BY <1>1, <1>8, <2>1, <2>3, <3>1, PoolAssumption
    <3> QED BY <2>2, <3>1, <3>2
  <2>4. CASE m = n
    <3>1. f[m] = d /\ f[m - 1] = e[n - 1] /\ e[n - 1] \in Device /\ e[n - 1] # d /\ e[n - 1] # NoDev
        BY <1>1, <1>3, <1>5, <2>1, <2>4, PoolAssumption
    <3> QED BY <1>1, <2>4, <3>1
  <2>5. CASE m = n + 1
    <3>1. f[m] = e[n] /\ f[m - 1] = d
        BY <1>1, <1>3, <2>1, <2>5
    <3> QED BY <1>2, <3>1
  <2>6. CASE m > n + 1
    <3>1. m - 2 \in Index /\ f[m] = e[m - 1] /\ f[m - 1] = e[m - 2]
        BY <1>1, <1>3, <2>1, <2>6
    <3>2. e[m - 1] = IF e[m - 2] = NoDev THEN NoDev ELSE next[e[m - 2]]
      <4>1. m - 1 \in 1..Size /\ (m - 1) - 1 = m - 2
          BY <1>1, <2>6
      <4> QED BY <4>1 DEF Chain
    <3>3. CASE e[m - 2] = NoDev
        BY <3>1, <3>2, <3>3
    <3>4. CASE e[m - 2] # NoDev
      <4>1. e[m - 2] \in Device /\ e[m - 2] # d
          BY <1>2, <3>1, <3>4 DEF Null
      <4>2. n > 0 => e[m - 2] # e[n - 1]
          BY <1>1, <1>8, <2>6, <3>1, <3>4
      <4> QED BY <3>1, <3>2, <3>4, <4>1, <4>2
    <3> QED BY <3>3, <3>4
  <2> QED BY <1>1, <2>3, <2>4, <2>5, <2>6
<1>12. Ordered(f)
  <2>1. f[Size] = NoDev /\ Size \in Index
      BY <1>1, <1>3, <1>4, <1>6
  <2>2. ASSUME NEW a \in Index, NEW b \in Index, a < b, f[b] # NoDev
        PROVE  f[a] # f[b] /\ Priority[f[a]] <= Priority[f[b]]
    <3>1. \A x, y \in Index : x < y /\ e[y] # NoDev =>
             /\ e[x] # e[y] /\ Priority[e[x]] <= Priority[e[y]]
             /\ e[x] \in Device /\ e[y] \in Device
        BY <1>2, <1>7 DEF Ordered, Null
    <3>2. \A x \in Device : Priority[x] \in Int
        BY PoolAssumption
    <3>3. CASE b < n
        BY <1>1, <1>3, <2>2, <3>1, <3>3
    <3>4. CASE b = n
      <4>1. f[a] = e[a] /\ f[b] = d /\ a \in 0..(n - 1)
          BY <1>1, <1>3, <2>2, <3>4
      <4> QED BY <1>5, <3>2, <4>1
    <3>5. CASE b > n
      <4>1. b - 1 \in Index /\ f[b] = e[b - 1]
          BY <1>1, <1>3, <3>5
      <4>2. CASE a < n
        <5>1. f[a] = e[a] /\ a < b - 1
            BY <1>1, <1>3, <3>5, <4>2
        <5> QED BY <2>2, <3>1, <4>1, <5>1
      <4>3. CASE a = n
        <5>1. f[a] = d /\ e[b - 1] # d /\ e[b - 1] \in Device
            BY <1>1, <1>2, <1>3, <2>2, <4>1, <4>3 DEF Null
        <5>2. Priority[d] < Priority[e[n]] /\ e[n] \in Device
          <6>1. e[n] # NoDev
              BY <1>1, <1>7, <2>2, <3>5, <4>1
          <6> QED BY <1>2, <6>1 DEF Goes, Null
        <5>3. Priority[e[n]] <= Priority[e[b - 1]]
          <6>1. CASE b - 1 = n
              BY <3>2, <5>2, <6>1
          <6>2. CASE b - 1 # n
              BY <1>1, <2>2, <3>1, <3>5, <4>1, <6>2
          <6> QED BY <6>1, <6>2
        <5> QED BY <3>2, <4>1, <5>1, <5>2, <5>3
      <4>4. CASE a > n
        <5>1. f[a] = e[a - 1] /\ a - 1 \in Index /\ a - 1 < b - 1
            BY <1>1, <1>3, <2>2, <4>4
        <5> QED BY <2>2, <3>1, <4>1, <5>1
      <4> QED BY <1>1, <4>2, <4>3, <4>4
    <3> QED BY <1>1, <3>3, <3>4, <3>5
  <2> HIDE DEF f
  <2> QED BY <2>1, <2>2 DEF Ordered
<1>13. ASSUME NEW x \in Device
       PROVE  (\E i \in Index : f[i] = x) <=> x = d \/ \E i \in Index : e[i] = x
  <2>1. ASSUME NEW i \in Index, f[i] = x PROVE x = d \/ \E j \in Index : e[j] = x
    <3>1. i > n => i - 1 \in Index
        BY <1>1
    <3> QED BY <1>1, <1>3, <2>1, <3>1
  <2>2. f[n] = d
      BY <1>1, <1>3
  <2>3. ASSUME NEW j \in Index, e[j] = x PROVE \E i \in Index : f[i] = x
    <3>1. CASE j < n
        BY <1>1, <1>3, <2>3, <3>1
    <3>2. CASE j >= n
      <4>1. x # NoDev
          BY PoolAssumption
      <4>2. j < Size
          BY <1>1, <1>4, <2>3, <4>1
      <4>3. j + 1 \in Index /\ f[j + 1] = e[j]
          BY <1>1, <1>3, <3>2, <4>2
      <4> QED BY <2>3, <4>3
    <3> QED BY <1>1, <3>1, <3>2
  <2> HIDE DEF f
  <2> QED BY <2>1, <2>2, <2>3
<1>14. Chain(f, IF n = 0 THEN d ELSE first, next2)
  <2> HIDE DEF f, next2
  <2> QED BY <1>9, <1>10, <1>11 DEF Chain
<1> QED BY <1>12, <1>13, <1>14

\* The first entry is taken off the list.
Removed(e) == [m \in Index |-> IF m = Size THEN NoDev ELSE e[m + 1]]

LEMMA RemoveChain ==
    ASSUME NEW e, NEW first, NEW next, Chain(e, first, next), Ordered(e), first # NoDev
    PROVE  /\ first \in Device
           /\ Chain(Removed(e), next[first], next)
           /\ Ordered(Removed(e))
           /\ \A x \in Device : (\E i \in Index : Removed(e)[i] = x)
                                    <=> x # first /\ \E i \in Index : e[i] = x
<1> DEFINE f == Removed(e)
<1>1. Size \in Nat /\ Index = 0..Size
    BY SizeNat
<1>2. e \in [Index -> Null] /\ e[0] = first /\ first \in Device
    BY <1>1 DEF Chain, Null
<1>3. e[Size] = NoDev
  <2>1. PICK n \in Index : e[n] = NoDev
      BY DEF Ordered
  <2>2. Size \in n..Size
      BY <1>1, <2>1
  <2> QED BY <2>1, <2>2, ChainEnds
<1>4. Size >= 1
    BY <1>1, <1>2, <1>3, PoolAssumption
<1>5. \A m \in Index : f[m] = IF m = Size THEN NoDev ELSE e[m + 1]
    BY DEF Removed
<1>6. \A m \in Index : m # Size => m + 1 \in Index
    BY <1>1
<1>7. f \in [Index -> Null]
  <2>1. \A m \in Index : f[m] \in Null
      BY <1>2, <1>5, <1>6 DEF Null
  <2> QED BY <2>1 DEF Removed
<1>8. f[0] = next[first]
    BY <1>1, <1>2, <1>4, <1>5, PoolAssumption DEF Chain
<1>9. ASSUME NEW m \in 1..Size
      PROVE  f[m] = IF f[m - 1] = NoDev THEN NoDev ELSE next[f[m - 1]]
  <2>1. m \in Index /\ m - 1 \in Index /\ f[m - 1] = e[m]
      BY <1>1, <1>5
  <2>2. CASE m = Size
      BY <1>3, <1>5, <2>1, <2>2
  <2>3. CASE m # Size
    <3>1. f[m] = e[m + 1] /\ m + 1 \in 1..Size /\ (m + 1) - 1 = m
        BY <1>1, <1>5, <2>1, <2>3
    <3>2. e[m + 1] = IF e[m] = NoDev THEN NoDev ELSE next[e[m]]
        BY <3>1 DEF Chain
    <3> QED BY <2>1, <3>1, <3>2
  <2> QED BY <2>2, <2>3
<1>10. Chain(f, next[first], next)
  <2> HIDE DEF f
  <2> QED BY <1>7, <1>8, <1>9 DEF Chain
<1>11. Ordered(f)
  <2>1. f[Size] = NoDev /\ Size \in Index
      BY <1>1, <1>5
  <2>2. ASSUME NEW a \in Index, NEW b \in Index, a < b, f[b] # NoDev
        PROVE  f[a] # f[b] /\ Priority[f[a]] <= Priority[f[b]]
    <3>1. b # Size /\ a # Size
        BY <1>1, <1>5, <2>2
    <3>2. f[a] = e[a + 1] /\ f[b] = e[b + 1] /\ a + 1 \in Index /\ b + 1 \in Index /\ a + 1 < b + 1
        BY <1>1, <1>5, <1>6, <2>2, <3>1
    <3> QED BY <2>2, <3>2 DEF Ordered
  <2> HIDE DEF f
  <2> QED BY <2>1, <2>2 DEF Ordered
<1>12. ASSUME NEW x \in Device
       PROVE  (\E i \in Index : f[i] = x) <=> x # first /\ \E i \in Index : e[i] = x
  <2>1. x # NoDev
      BY PoolAssumption
  <2>2. ASSUME NEW i \in Index, f[i] = x PROVE x # first /\ \E j \in Index : e[j] = x
    <3>1. i # Size /\ x = e[i + 1] /\ i + 1 \in Index /\ 0 \in Index /\ 0 < i + 1
        BY <1>1, <1>5, <1>6, <2>1, <2>2
    <3> QED BY <1>2, <2>1, <3>1 DEF Ordered
  <2>3. ASSUME NEW j \in Index, e[j] = x, x # first PROVE \E i \in Index : f[i] = x
    <3>1. j # 0 /\ j - 1 \in Index /\ j - 1 # Size /\ (j - 1) + 1 = j
        BY <1>1, <1>2, <2>3
    <3> QED BY <1>5, <2>3, <3>1
  <2> HIDE DEF f
  <2> QED BY <2>2, <2>3
<1> QED BY <1>2, <1>10, <1>11, <1>12

-----------------------------------------------------------------------------
(* The inductive invariant *)

ListOK == ioq \in Null /\ nextioq \in [Device -> Null]

\* The list is sound, and holds devices that are started and not yet executed.
ListSound ==
    /\ Ordered(Entry)
    /\ \A d \in Device : Queued(d) => d \in started /\ d # sdev /\ \A t \in Thread : tdev[t] # d

\* A device that is executed is started, by one thread only.
Started ==
    /\ sdev # NoDev => sdev \in started /\ \A t \in Thread : tdev[t] # sdev
    /\ \A t \in Thread : /\ tdev[t] # NoDev <=> pc[t] \in {"run", "made", "direct"}
                         /\ tdev[t] # NoDev => tdev[t] \in started
    /\ \A t, u \in Thread : tdev[t] = tdev[u] /\ tdev[t] # NoDev => t = u

\* The counters count the threads they are meant to; devtwait may count a thread
\* more than once if waits return unsignalled.
Waiting == {t \in Thread : pc[t] = "wait"}
Counted == {t \in Thread : pc[t] \in {"wait", "woken", "run", "back"}}
Counters ==
    /\ devtwait \in Nat /\ Cardinality(Waiting) <= devtwait
    /\ ~Spurious => devtwait = Cardinality(Waiting)
    /\ devtnbr = Cardinality(Counted)

Inv == TypeOK /\ ListSound /\ Started /\ Counters

-----------------------------------------------------------------------------
(* What the steps do to the list *)

\* The list of this state and of the next.
EntryOK == Chain(Entry, ioq, nextioq)

LEMMA EntryNow == ListOK => EntryOK
BY EntryChain DEF ListOK, EntryOK

LEMMA EntryNext == ListOK' => EntryOK'
BY EntryNow, PTL

LEMMA EntryChainNext == ASSUME ListOK' PROVE Chain(Entry', ioq', nextioq')
BY EntryNext DEF EntryOK

\* startio puts a device on it.
LEMMA QueueStep ==
    ASSUME Inv, Queue
    PROVE  /\ sdev \in Device /\ ioq' \in Device /\ ListOK'
           /\ Ordered(Entry')
           /\ \A d \in Device : Queued(d)' <=> d = sdev \/ Queued(d)
<1> DEFINE e == Entry
<1>1. Chain(e, ioq, nextioq) /\ Ordered(e) /\ nextioq \in [Device -> Null]
    BY EntryChain DEF Inv, TypeOK, Null, ListSound
<1>2. sdev \in Device /\ \A i \in Index : e[i] # sdev
    BY DEF Queue, Inv, TypeOK, ListSound, Queued
<1>3. PICK n \in Index :
        /\ Goes(e, sdev, n) /\ \A m \in 0..(n - 1) : ~Goes(e, sdev, m)
        /\ ioq' = IF n = 0 THEN sdev ELSE ioq
        /\ nextioq' = [x \in Device |-> IF x = sdev THEN e[n]
                                        ELSE IF n > 0 /\ x = e[n - 1] THEN sdev ELSE nextioq[x]]
    BY DEF Queue, Insert, Goes
<1> HIDE DEF e
<1>4. /\ Chain(Inserted(e, n, sdev), ioq', nextioq') /\ Ordered(Inserted(e, n, sdev))
      /\ \A x \in Device : (\E i \in Index : Inserted(e, n, sdev)[i] = x)
                               <=> x = sdev \/ \E i \in Index : e[i] = x
    BY <1>1, <1>2, <1>3, InsertChain
<1>5. ioq' \in Device /\ ListOK'
  <2>1. ioq \in Null /\ e \in [Index -> Null] /\ e[0] = ioq
      BY <1>1 DEF Inv, TypeOK, Null, Chain
  <2>2. n # 0 => e[0] # NoDev
      BY <1>3, SizeNat DEF Goes
  <2>3. ioq' \in Device
      BY <1>2, <1>3, <2>1, <2>2 DEF Null
  <2>4. nextioq' \in [Device -> Null]
      BY <1>1, <1>2, <1>3, <2>1 DEF Null
  <2> QED BY <2>3, <2>4 DEF ListOK, Null
<1>6. Entry' = Inserted(e, n, sdev)
    BY <1>4, <1>5, EntryChainNext, ChainUnique
<1> QED BY <1>2, <1>4, <1>5, <1>6 DEF Queued, e

\* A device thread takes the first device off it.
LEMMA TakeStep ==
    ASSUME Inv, ioq # NoDev, ioq' = nextioq[ioq], UNCHANGED nextioq
    PROVE  /\ ioq \in Device /\ Queued(ioq) /\ ListOK'
           /\ Ordered(Entry')
           /\ \A d \in Device : Queued(d)' <=> d # ioq /\ Queued(d)
<1>1. Chain(Entry, ioq, nextioq) /\ Ordered(Entry) /\ nextioq \in [Device -> Null]
    BY EntryChain DEF Inv, TypeOK, Null, ListSound
<1>2. /\ ioq \in Device
      /\ Chain(Removed(Entry), ioq', nextioq') /\ Ordered(Removed(Entry))
      /\ \A x \in Device : (\E i \in Index : Removed(Entry)[i] = x)
                               <=> x # ioq /\ \E i \in Index : Entry[i] = x
    BY <1>1, RemoveChain
<1>3. ListOK'
    BY <1>1, <1>2 DEF ListOK
<1>4. Entry' = Removed(Entry)
    BY <1>2, <1>3, EntryChainNext, ChainUnique
<1>5. Queued(ioq)
    BY <1>1, SizeNat DEF Queued, Chain
<1> QED BY <1>2, <1>3, <1>4, <1>5 DEF Queued

\* Every other step leaves it alone.
LEMMA SameList == UNCHANGED queuevars => Entry' = Entry /\ \A d : Queued(d)' <=> Queued(d)
BY DEF queuevars, Entry, Queued

-----------------------------------------------------------------------------
(* What the steps do to the threads *)

InWait(s) == IF s = "wait" THEN 1 ELSE 0
InPool(s) == IF s \in {"wait", "woken", "run", "back"} THEN 1 ELSE 0

\* A step of one thread.
LEMMA ThreadMoves ==
    ASSUME pc \in [Thread -> ThreadPc], NEW t \in Thread, NEW s \in ThreadPc,
           pc' = [pc EXCEPT ![t] = s]
    PROVE  /\ Cardinality(Waiting') = Cardinality(Waiting) - InWait(pc[t]) + InWait(s)
           /\ Cardinality(Counted') = Cardinality(Counted) - InPool(pc[t]) + InPool(s)
<1>1. /\ IsFiniteSet(Waiting) /\ IsFiniteSet(Counted)
      /\ Cardinality(Waiting) \in Nat /\ Cardinality(Counted) \in Nat
    BY PoolAssumption, FS_Subset, FS_CardinalityType DEF Waiting, Counted
<1>2. \A u \in Thread : pc'[u] = IF u = t THEN s ELSE pc[u]
    OBVIOUS
<1>3. /\ Waiting' = IF s = "wait" THEN Waiting \cup {t} ELSE Waiting \ {t}
      /\ t \in Waiting <=> pc[t] = "wait"
    BY <1>2 DEF Waiting
<1>4. /\ Counted' = IF s \in {"wait", "woken", "run", "back"}
                    THEN Counted \cup {t} ELSE Counted \ {t}
      /\ t \in Counted <=> pc[t] \in {"wait", "woken", "run", "back"}
    BY <1>2 DEF Counted
<1>5. /\ Cardinality(Waiting \cup {t})
             = IF t \in Waiting THEN Cardinality(Waiting) ELSE Cardinality(Waiting) + 1
      /\ Cardinality(Waiting \ {t})
             = IF t \in Waiting THEN Cardinality(Waiting) - 1 ELSE Cardinality(Waiting)
    BY <1>1, FS_AddElement, FS_RemoveElement
<1>6. /\ Cardinality(Counted \cup {t})
             = IF t \in Counted THEN Cardinality(Counted) ELSE Cardinality(Counted) + 1
      /\ Cardinality(Counted \ {t})
             = IF t \in Counted THEN Cardinality(Counted) - 1 ELSE Cardinality(Counted)
    BY <1>1, FS_AddElement, FS_RemoveElement
<1>7. Cardinality(Waiting') = Cardinality(Waiting) - InWait(pc[t]) + InWait(s)
    BY <1>1, <1>3, <1>5 DEF InWait
<1>8. Cardinality(Counted') = Cardinality(Counted) - InPool(pc[t]) + InPool(s)
    BY <1>1, <1>4, <1>6 DEF InPool
<1> QED BY <1>7, <1>8

\* The counters are numbers of threads.
LEMMA CountersOK ==
    Cardinality(Waiting) \in 0..Cardinality(Thread) /\ Cardinality(Counted) \in 0..Cardinality(Thread)
<1>1. \A S \in SUBSET Thread : Cardinality(S) \in 0..Cardinality(Thread)
    BY PoolAssumption, FS_Subset, FS_CardinalityType
<1> QED BY <1>1 DEF Waiting, Counted

-----------------------------------------------------------------------------
CounterTypes == devtwait \in Nat /\ devtnbr \in 0..Cardinality(Thread)

LEMMA CounterTypesNow == Counters => CounterTypes
BY CountersOK DEF Counters, CounterTypes

LEMMA CounterTypesNext == Counters' => CounterTypes'
BY CounterTypesNow, PTL

LEMMA InvInit == Init => Inv
<1> SUFFICES ASSUME Init PROVE Inv
    OBVIOUS
<1>1. Waiting = {} /\ Counted = {} /\ Cardinality({}) = 0
    BY FS_EmptySet DEF Init, Waiting, Counted
<1>2. 0 \in 0..Cardinality(Thread)
    BY <1>1, CountersOK
<1>3. TypeOK
    BY <1>2 DEF Init, TypeOK, ThreadPc
<1>4. \A n \in Index : Entry[n] = NoDev
  <2>1. Chain(Entry, NoDev, nextioq)
      BY EntryChain DEF Init, Null
  <2>2. 0 \in Index /\ Entry[0] = NoDev /\ \A n \in Index : n \in 0..Size
      BY <2>1, SizeNat DEF Chain
  <2> QED BY <2>1, <2>2, ChainEnds
<1>5. ListSound
    BY <1>4, SizeNat, PoolAssumption DEF ListSound, Ordered, Queued
<1>6. Started /\ Counters
    BY <1>1 DEF Init, Started, Counters
<1> QED BY <1>3, <1>5, <1>6 DEF Inv

\* The counters are right after the step of a thread that changes them by it.
LEMMA CountersMove ==
    ASSUME Inv, NEW t \in Thread, NEW s \in ThreadPc, pc' = [pc EXCEPT ![t] = s],
           devtwait' = devtwait - InWait(pc[t]) + InWait(s),
           devtnbr' = devtnbr - InPool(pc[t]) + InPool(s)
    PROVE  Counters' /\ pc' \in [Thread -> ThreadPc]
<1>1. pc \in [Thread -> ThreadPc] /\ pc' \in [Thread -> ThreadPc]
    BY DEF Inv, TypeOK
<1>2. /\ Cardinality(Waiting') = Cardinality(Waiting) - InWait(pc[t]) + InWait(s)
      /\ Cardinality(Counted') = Cardinality(Counted) - InPool(pc[t]) + InPool(s)
    BY <1>1, ThreadMoves
<1>3. /\ devtwait \in Nat /\ Cardinality(Waiting) <= devtwait
      /\ ~Spurious => devtwait = Cardinality(Waiting)
      /\ devtnbr = Cardinality(Counted)
    BY DEF Inv, Counters
<1>4. /\ Cardinality(Waiting) \in Nat /\ Cardinality(Waiting') \in Nat
      /\ Cardinality(Counted) \in Nat
    BY PoolAssumption, FS_Subset, FS_CardinalityType DEF Waiting, Counted
<1>5. InWait(pc[t]) \in {0, 1} /\ InWait(s) \in {0, 1}
    BY DEF InWait
<1>6. devtwait' - Cardinality(Waiting') = devtwait - Cardinality(Waiting) /\ devtwait' \in Int
    BY <1>2, <1>3, <1>4, <1>5
<1>7. /\ devtwait' \in Nat /\ Cardinality(Waiting') <= devtwait'
      /\ ~Spurious => devtwait' = Cardinality(Waiting')
    BY <1>3, <1>4, <1>6
<1>8. devtnbr' = Cardinality(Counted')
    BY <1>2, <1>3
<1> QED BY <1>1, <1>7, <1>8 DEF Counters

LEMMA CountersNat == Inv => devtwait \in Nat /\ devtnbr \in Nat
<1>1. Cardinality(Thread) \in Nat
    BY PoolAssumption, FS_CardinalityType
<1> QED BY <1>1 DEF Inv, TypeOK

\* startio has a device to queue: what happens to the list, and to a thread.
LEMMA QueueStepSound ==
    ASSUME Inv, Queue, Counters', pc' \in [Thread -> ThreadPc],
           \A t \in Thread : pc[t] \in {"run", "made", "direct"} <=> pc'[t] \in {"run", "made", "direct"},
           UNCHANGED <<devtmax, tdev, started, command>>
    PROVE  Inv'
<1>1. sdev' = NoDev /\ sdev \in started /\ \A t \in Thread : tdev[t] # sdev
    BY DEF Queue, Inv, Started
<1>2. ListSound'
    BY <1>1, QueueStep, PoolAssumption DEF Inv, ListSound
<1>3. Started'
    BY <1>1 DEF Inv, Started
<1>4. devtwait' \in Nat /\ devtnbr' \in 0..Cardinality(Thread)
    BY CounterTypesNext DEF CounterTypes
<1>5. TypeOK'
    BY <1>1, <1>4, QueueStep DEF ListOK, Null, Inv, TypeOK
<1> QED BY <1>2, <1>3, <1>5 DEF Inv

LEMMA QueueSteps ==
    ASSUME Inv,
           QueueSignal \/ QueueCreateFail \/ QueueUnavailable \/ \E t \in Thread : QueueCreate(t)
    PROVE  Inv'
<1>1. pc \in [Thread -> ThreadPc] /\ devtwait \in Nat /\ devtnbr \in Nat
    BY CountersNat DEF Inv, TypeOK
<1>2. ASSUME QueueSignal, Waiting # {} PROVE Inv'
  <2>1. PICK t \in Thread : pc[t] = "wait" /\ pc' = [pc EXCEPT ![t] = "woken"]
      BY <1>2 DEF QueueSignal, Waiting
  <2>2. /\ "woken" \in ThreadPc
        /\ devtwait' = devtwait - InWait(pc[t]) + InWait("woken")
        /\ devtnbr' = devtnbr - InPool(pc[t]) + InPool("woken")
      BY <1>1, <1>2, <2>1 DEF QueueSignal, InWait, InPool, ThreadPc
  <2>3. Counters' /\ pc' \in [Thread -> ThreadPc]
      BY <2>1, <2>2, CountersMove
  <2> QED BY <1>1, <1>2, <2>1, <2>3, QueueStepSound DEF QueueSignal
<1>5. ASSUME QueueSignal, Waiting = {} PROVE Inv'
  <2>1. /\ devtwait > 0 /\ devtwait' = devtwait - 1
        /\ UNCHANGED <<devtmax, devtnbr, pc, tdev, started, command>>
      BY <1>5 DEF QueueSignal, Waiting
  <2>2. Cardinality(Waiting) = 0
      BY <1>5, FS_EmptySet
  <2>3. Counters'
    <3>1. Waiting' = Waiting /\ Counted' = Counted
        BY <2>1 DEF Waiting, Counted
    <3> QED BY <1>1, <2>1, <2>2, <3>1 DEF Inv, Counters
  <2> QED BY <1>1, <1>5, <2>1, <2>3, QueueStepSound DEF QueueSignal
<1>3. CASE QueueCreateFail \/ QueueUnavailable
  <2>1. Counters'
      BY <1>3 DEF QueueCreateFail, QueueUnavailable, Inv, Counters, Waiting, Counted
  <2> QED BY <1>1, <1>3, <2>1, QueueStepSound DEF QueueCreateFail, QueueUnavailable
<1>4. ASSUME NEW t \in Thread, QueueCreate(t) PROVE Inv'
  <2>1. pc[t] = "none" /\ pc' = [pc EXCEPT ![t] = "new"]
      BY <1>4 DEF QueueCreate
  <2>2. /\ "new" \in ThreadPc
        /\ devtwait' = devtwait - InWait(pc[t]) + InWait("new")
        /\ devtnbr' = devtnbr - InPool(pc[t]) + InPool("new")
      BY <1>1, <1>4, <2>1 DEF QueueCreate, InWait, InPool, ThreadPc
  <2>3. Counters' /\ pc' \in [Thread -> ThreadPc]
      BY <2>1, <2>2, CountersMove
  <2> QED BY <1>1, <1>4, <2>1, <2>3, QueueStepSound DEF QueueCreate
<1> QED BY <1>2, <1>3, <1>4, <1>5

\* device_thread, with ioqlock held.
LEMMA LoopStep == ASSUME Inv, NEW t \in Thread, Begin(t) \/ Resume(t) PROVE Inv'
<1> DEFINE old == pc[t]
<1>1. PICK nbr : /\ Loop(t, nbr) /\ old \in {"new", "woken", "back"}
                 /\ nbr = devtnbr - InPool(old) + 1
  <2>1. devtnbr \in Nat
      BY CountersNat
  <2>2. CASE Begin(t)
    <3>1. devtnbr + 1 = devtnbr - InPool(old) + 1 /\ old = "new"
        BY <2>1, <2>2 DEF Begin, InPool
    <3> QED BY <2>2, <3>1 DEF Begin
  <2>3. CASE Resume(t)
    <3>1. devtnbr = devtnbr - InPool(old) + 1 /\ old \in {"woken", "back"}
        BY <2>1, <2>3 DEF Resume, InPool
    <3> QED BY <2>3, <3>1 DEF Resume
  <2> QED BY <2>2, <2>3
<1>2. /\ pc \in [Thread -> ThreadPc] /\ devtwait \in Nat /\ devtnbr \in Nat
      /\ UNCHANGED <<devtmax, started, sdev, command>> /\ tdev[t] = NoDev
      /\ tdev \in [Thread -> Null]
    BY <1>1, CountersNat DEF Loop, Inv, TypeOK, Started, Null
<1>3. CASE ioq # NoDev
  <2>1. /\ ioq' = nextioq[ioq] /\ UNCHANGED nextioq /\ tdev' = [tdev EXCEPT ![t] = ioq]
        /\ pc' = [pc EXCEPT ![t] = "run"] /\ devtnbr' = nbr /\ UNCHANGED devtwait
      BY <1>1, <1>3 DEF Loop
  <2>2. Counters'
    <3>1. /\ "run" \in ThreadPc
          /\ devtwait' = devtwait - InWait(pc[t]) + InWait("run")
          /\ devtnbr' = devtnbr - InPool(pc[t]) + InPool("run")
        BY <1>1, <1>2, <2>1 DEF InWait, InPool, ThreadPc
    <3> QED BY <2>1, <3>1, CountersMove
  <2>3. ioq \in Device /\ ioq \in started /\ ioq # sdev /\ \A u \in Thread : tdev[u] # ioq
      BY <1>3, <2>1, TakeStep DEF Inv, ListSound
  <2>4. \A u \in Thread : /\ tdev'[u] = IF u = t THEN ioq ELSE tdev[u]
                          /\ pc'[u] = IF u = t THEN "run" ELSE pc[u]
      BY <1>2, <2>1
  <2>5. ListSound'
      BY <1>2, <1>3, <2>1, <2>3, <2>4, TakeStep DEF Inv, ListSound
  <2>6. Started'
      BY <1>2, <1>3, <2>3, <2>4 DEF Inv, Started
  <2>7. TypeOK'
    <3>1. pc' \in [Thread -> ThreadPc] /\ tdev' \in [Thread -> Null]
        BY <1>2, <2>1, <2>3 DEF ThreadPc, Null
    <3> QED BY <1>2, <1>3, <2>1, <2>2, <3>1, TakeStep, CounterTypesNext
            DEF ListOK, CounterTypes, Null, Inv, TypeOK
  <2> QED BY <2>2, <2>5, <2>6, <2>7 DEF Inv
<1>4. CASE ioq = NoDev
  <2>1. PICK s \in {"none", "wait"} :
          /\ pc' = [pc EXCEPT ![t] = s] /\ UNCHANGED <<queuevars, tdev>>
          /\ devtwait' = devtwait + InWait(s) /\ devtnbr' = nbr - 1 + InPool(s)
    <3>1. nbr \in Int
        BY <1>1, <1>2 DEF InPool
    <3>2. CASE MustExit(nbr)
        BY <1>1, <1>2, <1>4, <3>1, <3>2 DEF Loop, InWait, InPool
    <3>3. CASE ~MustExit(nbr)
        BY <1>1, <1>2, <1>4, <3>1, <3>3 DEF Loop, InWait, InPool
    <3> QED BY <3>2, <3>3
  <2>2. s \in ThreadPc /\ pc' \in [Thread -> ThreadPc]
      BY <1>2, <2>1 DEF ThreadPc
  <2>3. Counters'
    <3>1. /\ devtwait' = devtwait - InWait(pc[t]) + InWait(s)
          /\ devtnbr' = devtnbr - InPool(pc[t]) + InPool(s)
        BY <1>1, <1>2, <2>1 DEF InWait, InPool
    <3> QED BY <2>1, <2>2, <3>1, CountersMove
  <2>4. ListSound'
      BY <1>2, <2>1, SameList DEF Inv, ListSound
  <2>5. Started'
      BY <1>1, <1>2, <2>1 DEF Inv, Started
  <2>6. TypeOK'
      BY <1>2, <2>1, <2>2, <2>3, CounterTypesNext DEF CounterTypes, queuevars, Inv, TypeOK
  <2> QED BY <2>3, <2>4, <2>5, <2>6 DEF Inv
<1> QED BY <1>3, <1>4

\* A device is begun, or done with.
LEMMA OtherSteps ==
    ASSUME Inv,
           \/ \E d \in Device : StartioQueue(d) \/ StartioDirectFail(d)
                                \/ \E t \in Thread : StartioDirect(d, t)
           \/ \E t \in Thread : BeginDirect(t) \/ Finish(t) \/ SpuriousReturn(t)
           \/ Broadcast \/ \E n \in Limits : SetDevtmax(n)
           \/ UNCHANGED vars
    PROVE  Inv'
<1>1. pc \in [Thread -> ThreadPc] /\ tdev \in [Thread -> Null]
    BY DEF Inv, TypeOK, Null
<1>2. ASSUME UNCHANGED <<pc, devtwait, devtnbr>> PROVE Counters'
    BY <1>2 DEF Inv, Counters, Waiting, Counted
<1>3. ASSUME NEW t \in Thread, NEW s \in ThreadPc, pc' = [pc EXCEPT ![t] = s],
             InWait(s) = InWait(pc[t]), InPool(s) = InPool(pc[t]), UNCHANGED <<devtwait, devtnbr>>
      PROVE  Counters' /\ pc' \in [Thread -> ThreadPc]
  <2>1. /\ devtwait' = devtwait - InWait(pc[t]) + InWait(s)
        /\ devtnbr' = devtnbr - InPool(pc[t]) + InPool(s)
      BY <1>3, CountersNat DEF InWait, InPool
  <2> QED BY <1>3, <2>1, CountersMove
<1>4. ASSUME NEW d \in Device, StartioQueue(d) \/ StartioDirectFail(d) PROVE Inv'
  <2>1. /\ UNCHANGED <<queuevars, devtmax, devtwait, devtnbr, pc, tdev, command>>
        /\ d \notin started /\ started' = started \cup {d} /\ sdev = NoDev
        /\ sdev' = d \/ sdev' = NoDev
      BY <1>4 DEF StartioQueue, StartioDirectFail
  <2>2. ~Queued(d) /\ \A t \in Thread : tdev[t] # d
      BY <2>1, PoolAssumption DEF Inv, ListSound, Started
  <2>3. ListSound'
      BY <2>1, <2>2, SameList, PoolAssumption DEF Inv, ListSound
  <2>4. Started'
      BY <2>1, <2>2 DEF Inv, Started
  <2>5. TypeOK'
      BY <2>1 DEF queuevars, Inv, TypeOK
  <2> QED BY <1>2, <2>1, <2>3, <2>4, <2>5 DEF Inv
<1>5. ASSUME NEW d \in Device, NEW t \in Thread, StartioDirect(d, t) PROVE Inv'
  <2>1. /\ UNCHANGED <<queuevars, devtmax, devtwait, devtnbr, sdev, command>>
        /\ d \notin started /\ started' = started \cup {d} /\ sdev = NoDev
        /\ pc[t] = "none" /\ pc' = [pc EXCEPT ![t] = "made"] /\ tdev' = [tdev EXCEPT ![t] = d]
      BY <1>5 DEF StartioDirect
  <2>2. Counters' /\ pc' \in [Thread -> ThreadPc]
      BY <1>3, <2>1 DEF InWait, InPool, ThreadPc
  <2>3. ~Queued(d) /\ d # NoDev /\ \A u \in Thread : tdev[u] # d
      BY <2>1, PoolAssumption DEF Inv, ListSound, Started
  <2>4. \A u \in Thread : /\ tdev'[u] = IF u = t THEN d ELSE tdev[u]
                          /\ pc'[u] = IF u = t THEN "made" ELSE pc[u]
      BY <1>1, <2>1
  <2>5. ListSound'
      BY <2>1, <2>3, <2>4, SameList DEF Inv, ListSound
  <2>6. Started'
      BY <2>1, <2>3, <2>4 DEF Inv, Started
  <2>7. TypeOK'
      BY <2>1, <2>2 DEF queuevars, Inv, TypeOK
  <2> QED BY <2>2, <2>5, <2>6, <2>7 DEF Inv
<1>6. ASSUME NEW t \in Thread, BeginDirect(t) PROVE Inv'
  <2>1. /\ UNCHANGED <<queuevars, devtmax, devtwait, devtnbr, tdev, started, sdev, command>>
        /\ pc[t] = "made" /\ pc' = [pc EXCEPT ![t] = "direct"]
      BY <1>6 DEF BeginDirect
  <2>2. Counters' /\ pc' \in [Thread -> ThreadPc]
      BY <1>3, <2>1 DEF InWait, InPool, ThreadPc
  <2>3. ListSound'
      BY <2>1, SameList DEF Inv, ListSound
  <2>4. Started'
      BY <1>1, <2>1 DEF Inv, Started
  <2>5. TypeOK'
      BY <2>1, <2>2 DEF queuevars, Inv, TypeOK
  <2> QED BY <2>2, <2>3, <2>4, <2>5 DEF Inv
<1>7. ASSUME NEW t \in Thread, Finish(t) PROVE Inv'
  <2>1. PICK s \in {"back", "none"} :
          /\ pc[t] = IF s = "back" THEN "run" ELSE "direct"
          /\ pc' = [pc EXCEPT ![t] = s] /\ tdev' = [tdev EXCEPT ![t] = NoDev]
          /\ started' = started \ {tdev[t]}
          /\ UNCHANGED <<queuevars, devtmax, devtwait, devtnbr, sdev, command>>
    <3>1. CASE pc[t] = "run"
        BY <1>1, <1>7, <3>1 DEF Finish
    <3>2. CASE pc[t] = "direct"
        BY <1>1, <1>7, <3>2 DEF Finish
    <3> QED BY <1>7, <3>1, <3>2 DEF Finish
  <2>2. Counters' /\ pc' \in [Thread -> ThreadPc]
      BY <1>3, <2>1 DEF InWait, InPool, ThreadPc
  <2>3. tdev[t] # NoDev /\ \A u \in Thread \ {t} : tdev[u] # tdev[t]
      BY <2>1 DEF Inv, Started
  <2>4. \A u \in Thread : /\ tdev'[u] = IF u = t THEN NoDev ELSE tdev[u]
                          /\ pc'[u] = IF u = t THEN s ELSE pc[u]
      BY <1>1, <2>1
  <2>5. ListSound'
      BY <2>1, <2>4, SameList, PoolAssumption DEF Inv, ListSound
  <2>6. Started'
      BY <2>1, <2>3, <2>4 DEF Inv, Started
  <2>7. TypeOK'
      BY <2>1, <2>2 DEF queuevars, Inv, TypeOK
  <2> QED BY <2>2, <2>5, <2>6, <2>7 DEF Inv
<1>8. CASE Broadcast
  <2>1. /\ UNCHANGED <<queuevars, devtmax, devtnbr, tdev, started, sdev>>
        /\ devtwait' = 0 /\ command' = FALSE
        /\ pc' \in [Thread -> ThreadPc]
        /\ \A t \in Thread : \/ pc'[t] = pc[t] /\ pc[t] # "wait"
                             \/ pc[t] = "wait" /\ pc'[t] = "woken"
                             \/ pc[t] = "none" /\ pc'[t] = "new"
      BY <1>1, <1>8 DEF Broadcast, ThreadPc
  <2>2. Waiting' = {} /\ Counted' = Counted
      BY <2>1 DEF Waiting, Counted
  <2>3. Counters'
      BY <2>1, <2>2, FS_EmptySet DEF Inv, Counters
  <2>4. ListSound'
      BY <2>1, SameList DEF Inv, ListSound
  <2>5. Started'
      BY <2>1 DEF Inv, Started
  <2>6. TypeOK'
      BY <2>1, <2>3, CounterTypesNext DEF CounterTypes, queuevars, Inv, TypeOK
  <2> QED BY <2>3, <2>4, <2>5, <2>6 DEF Inv
<1>9. ASSUME UNCHANGED <<queuevars, devtwait, devtnbr, pc, tdev, started, sdev>>,
             devtmax' \in Limits, command' \in BOOLEAN
      PROVE  Inv'
  <2>1. ListSound'
      BY <1>9, SameList DEF Inv, ListSound
  <2>2. Started' /\ TypeOK'
      BY <1>9 DEF queuevars, Inv, Started, TypeOK
  <2> QED BY <1>2, <1>9, <2>1, <2>2 DEF Inv
<1>10. CASE \E n \in Limits : SetDevtmax(n)
    BY <1>9, <1>10 DEF SetDevtmax
<1>11. CASE UNCHANGED vars
    BY <1>9, <1>11 DEF vars, Inv, TypeOK
<1>12. ASSUME NEW t \in Thread, SpuriousReturn(t) PROVE Inv'
  <2>1. /\ Spurious /\ pc[t] = "wait" /\ pc' = [pc EXCEPT ![t] = "woken"]
        /\ UNCHANGED <<queuevars, devtmax, devtwait, devtnbr, tdev, started, sdev, command>>
      BY <1>12 DEF SpuriousReturn
  <2>2. \A u \in Thread : pc'[u] = IF u = t THEN "woken" ELSE pc[u]
      BY <1>1, <2>1
  <2>3. Counters'
    <3>1. Waiting' \subseteq Waiting /\ Counted' = Counted
        BY <2>1, <2>2 DEF Waiting, Counted
    <3>2. Cardinality(Waiting') <= Cardinality(Waiting) /\ Cardinality(Waiting') \in Nat
          /\ Cardinality(Waiting) \in Nat
      <4>1. IsFiniteSet(Waiting)
          BY PoolAssumption, FS_Subset DEF Waiting
      <4>2. IsFiniteSet(Waiting')
          BY <3>1, <4>1, FS_Subset
      <4> QED BY <3>1, <4>1, <4>2, FS_Subset, FS_CardinalityType
    <3> QED BY <2>1, <3>1, <3>2 DEF Inv, Counters
  <2>4. ListSound'
      BY <2>1, SameList DEF Inv, ListSound
  <2>5. Started'
      BY <2>1, <2>2 DEF Inv, Started
  <2>6. TypeOK'
      BY <2>1 DEF queuevars, Inv, TypeOK, ThreadPc
  <2> QED BY <2>3, <2>4, <2>5, <2>6 DEF Inv
<1> QED BY <1>4, <1>5, <1>6, <1>7, <1>8, <1>10, <1>11, <1>12

LEMMA InvNext == Inv /\ [Next]_vars => Inv'
<1> SUFFICES ASSUME Inv, [Next]_vars PROVE Inv'
    OBVIOUS
<1>1. CASE QueueSignal \/ QueueCreateFail \/ QueueUnavailable \/ \E t \in Thread : QueueCreate(t)
    BY <1>1, QueueSteps
<1>2. CASE \E t \in Thread : Begin(t) \/ Resume(t)
    BY <1>2, LoopStep
<1>3. CASE ~ \/ QueueSignal \/ QueueCreateFail \/ QueueUnavailable \/ \E t \in Thread : QueueCreate(t)
             \/ \E t \in Thread : Begin(t) \/ Resume(t)
  <2> QED BY <1>3, OtherSteps DEF Next, ThreadStep
<1> QED BY <1>1, <1>2, <1>3

-----------------------------------------------------------------------------
(* As long as something is queued, a thread will look at the list *)

Active == {"new", "woken", "run", "back"}
Served ==
    /\ ioq # NoDev => \E t \in Thread : pc[t] \in Active
    /\ sdev # NoDev => devtmax >= 0

\* With devtwait zero, no thread waits.
LEMMA NoneWaiting == ASSUME Inv, devtwait = 0 PROVE Waiting = {}
<1>1. IsFiniteSet(Waiting) /\ Cardinality(Waiting) \in Nat
    BY PoolAssumption, FS_Subset, FS_CardinalityType DEF Waiting
<1>2. Cardinality(Waiting) = 0
    BY <1>1 DEF Inv, Counters
<1> QED BY <1>1, <1>2, FS_EmptySet

\* With no thread waiting, every thread that is counted is active.
LEMMA CountedActive ==
    ASSUME Inv, Waiting = {}, devtnbr # 0
    PROVE  \E t \in Thread : pc[t] \in Active
<1>1. Counted # {}
    BY FS_EmptySet DEF Inv, Counters
<1> QED BY <1>1 DEF Waiting, Counted, Active

\* There is a thread if devtwait says that some wait, however often it has
\* counted them: as long as there is a limit, the last thread does not leave.
Kept == devtmax >= 0 /\ devtwait > 0 => devtnbr > 0

LEMMA KeptNow == ASSUME ~Spurious PROVE Inv => Kept
<1> SUFFICES ASSUME Inv, devtwait > 0 PROVE devtnbr > 0
    BY DEF Kept
<1>1. IsFiniteSet(Counted) /\ IsFiniteSet(Waiting) /\ Waiting \subseteq Counted
    BY PoolAssumption, FS_Subset DEF Waiting, Counted
<1>2. /\ Cardinality(Waiting) <= Cardinality(Counted)
      /\ Cardinality(Waiting) \in Nat /\ Cardinality(Counted) \in Nat
    BY <1>1, FS_Subset, FS_CardinalityType
<1> QED BY <1>2 DEF Inv, Counters

LEMMA KeptThen == ASSUME ~Spurious PROVE Inv' => Kept'
BY KeptNow, PTL

LEMMA KeptNext ==
    ASSUME ~AllowSwitch, Spurious => 0 \notin Limits
    PROVE  Inv /\ Kept /\ [Next]_vars => Kept'
<1>1. CASE ~Spurious
    BY <1>1, InvNext, KeptThen
<1>2. CASE Spurious
  <2> SUFFICES ASSUME Inv, Kept, [Next]_vars PROVE Kept'
      OBVIOUS
  <2>1. /\ devtmax \in Int /\ devtmax # 0 /\ Limits \subseteq Int
        /\ devtwait \in Nat /\ devtnbr \in Nat
      BY <1>2, CountersNat, PoolAssumption DEF Inv, TypeOK
  <2>2. ASSUME UNCHANGED <<devtmax, devtnbr>>, devtwait' \in {0, devtwait - 1, devtwait}
        PROVE  Kept'
      BY <2>1, <2>2 DEF Kept
  <2>3. ASSUME NEW d \in Device, \/ StartioQueue(d) \/ StartioDirectFail(d)
                                 \/ \E t \in Thread : StartioDirect(d, t)
        PROVE  Kept'
      BY <2>2, <2>3 DEF StartioQueue, StartioDirectFail, StartioDirect
  <2>4. CASE QueueSignal \/ QueueCreateFail \/ QueueUnavailable \/ \E t \in Thread : QueueCreate(t)
      BY <2>2, <2>4 DEF QueueSignal, QueueCreateFail, QueueUnavailable, QueueCreate
  <2>5. ASSUME NEW t \in Thread, Begin(t) \/ Resume(t) PROVE Kept'
    <3>1. PICK nbr : Loop(t, nbr) /\ nbr \in Nat /\ nbr > 0
      <4>1. CASE Begin(t)
          BY <2>1, <4>1 DEF Begin
      <4>2. CASE Resume(t)
        <5>1. t \in Counted /\ IsFiniteSet(Counted)
            BY <4>2, PoolAssumption, FS_Subset DEF Resume, Counted
        <5>2. devtnbr # 0
            BY <5>1, FS_EmptySet DEF Inv, Counters
        <5> QED BY <2>1, <4>2, <5>2 DEF Resume
      <4> QED BY <2>5, <4>1, <4>2
    <3>2. devtmax' = devtmax
        BY <3>1 DEF Loop
    <3>3. devtnbr' = nbr \/ (MustExit(nbr) /\ devtnbr' = nbr - 1)
        BY <3>1 DEF Loop
    <3>4. devtmax > 0 /\ MustExit(nbr) => nbr > devtmax
        BY <2>1 DEF MustExit
    <3> QED BY <2>1, <3>1, <3>2, <3>3, <3>4 DEF Kept
  <2>6. ASSUME NEW t \in Thread, BeginDirect(t) \/ Finish(t) \/ SpuriousReturn(t) PROVE Kept'
      BY <2>2, <2>6 DEF BeginDirect, Finish, SpuriousReturn
  <2>7. ASSUME NEW n \in Limits, SetDevtmax(n) PROVE Kept'
    <3>1. UNCHANGED <<devtwait, devtnbr>> /\ devtmax' = n /\ (devtmax < 0 <=> n < 0) /\ n \in Int
        BY <2>1, <2>7 DEF SetDevtmax
    <3> QED BY <2>1, <3>1 DEF Kept
  <2>8. CASE Broadcast \/ UNCHANGED vars
      BY <2>2, <2>8 DEF Broadcast, vars
  <2> QED BY <2>3, <2>4, <2>5, <2>6, <2>7, <2>8 DEF Next, ThreadStep
<1> QED BY <1>1, <1>2

LEMMA ServedNext ==
    ASSUME ~AllowSwitch, ~AllowLastFail
    PROVE  Inv /\ Served /\ Kept /\ [Next]_vars => Served'
<1> SUFFICES ASSUME Inv, Served, Kept, [Next]_vars PROVE Served'
    OBVIOUS
<1>1. /\ pc \in [Thread -> ThreadPc] /\ devtmax \in Int /\ Limits \subseteq Int
      /\ devtwait \in Nat /\ devtnbr \in Nat
    BY CountersNat, PoolAssumption DEF Inv, TypeOK
<1>2. ASSUME NEW d \in Device, StartioQueue(d) PROVE Served'
    BY <1>2 DEF StartioQueue, queuevars, Served
<1>3. ASSUME UNCHANGED <<ioq, sdev>>, devtmax >= 0 => devtmax' >= 0,
             \A t \in Thread : pc[t] \in Active => pc'[t] \in Active
      PROVE  Served'
    BY <1>3 DEF Served
<1>4. ASSUME NEW d \in Device, NEW t \in Thread, StartioDirect(d, t) PROVE Served'
  <2>1. UNCHANGED <<ioq, sdev, devtmax>>
      BY <1>4 DEF StartioDirect, queuevars
  <2>2. \A u \in Thread : pc[u] \in Active => pc'[u] = pc[u]
      BY <1>1, <1>4 DEF StartioDirect, Active
  <2> QED BY <1>3, <2>1, <2>2
<1>5. CASE QueueSignal \/ QueueCreateFail \/ QueueUnavailable \/ \E t \in Thread : QueueCreate(t)
  <2>1. Queue /\ sdev' = NoDev /\ devtmax >= 0
      BY <1>5 DEF QueueSignal, QueueCreateFail, QueueUnavailable, QueueCreate, Queue, Served
  <2>2. \E t \in Thread : pc'[t] \in Active
    <3>1. CASE QueueSignal
      <4>1. CASE Waiting # {}
          BY <1>1, <3>1, <4>1 DEF QueueSignal, Waiting, Active
      <4>2. CASE Waiting = {}
        <5>1. UNCHANGED pc
            BY <3>1, <4>2 DEF QueueSignal, Waiting
        <5>2. devtnbr # 0
            BY <1>1, <2>1, <3>1 DEF QueueSignal, Kept
        <5> QED BY <4>2, <5>1, <5>2, CountedActive
      <4> QED BY <4>1, <4>2
    <3>2. CASE QueueCreateFail
        BY <1>1, <3>2, NoneWaiting, CountedActive DEF QueueCreateFail
    <3>3. CASE QueueUnavailable
      <4>1. devtwait = 0 /\ ~MayCreate /\ UNCHANGED pc
          BY <3>3 DEF QueueUnavailable
      <4>2. devtnbr # 0
          BY <1>1, <2>1, <4>1 DEF MayCreate
      <4> QED BY <4>1, <4>2, NoneWaiting, CountedActive
    <3>4. ASSUME NEW t \in Thread, QueueCreate(t) PROVE \E u \in Thread : pc'[u] \in Active
        BY <1>1, <3>4 DEF QueueCreate, Active
    <3> QED BY <1>5, <3>1, <3>2, <3>3, <3>4
  <2> QED BY <2>1, <2>2 DEF Served
<1>6. ASSUME NEW t \in Thread, Begin(t) \/ Resume(t) PROVE Served'
  <2>1. PICK nbr : Loop(t, nbr)
      BY <1>6 DEF Begin, Resume
  <2>2. CASE ioq # NoDev
      BY <1>1, <2>1, <2>2 DEF Loop, Served, Active
  <2>3. CASE ioq = NoDev
    <3>1. ioq' = NoDev /\ UNCHANGED <<sdev, devtmax>>
        BY <2>1, <2>3 DEF Loop, queuevars
    <3> QED BY <3>1 DEF Served
  <2> QED BY <2>2, <2>3
<1>7. ASSUME NEW t \in Thread, BeginDirect(t) \/ Finish(t) \/ SpuriousReturn(t) PROVE Served'
  <2>1. UNCHANGED <<ioq, sdev, devtmax>>
      BY <1>7 DEF BeginDirect, Finish, SpuriousReturn, queuevars
  <2>2. \A u \in Thread : pc[u] \in Active => pc'[u] \in Active
      BY <1>1, <1>7 DEF BeginDirect, Finish, SpuriousReturn, Active
  <2> QED BY <1>3, <2>1, <2>2
<1>8. ASSUME NEW n \in Limits, SetDevtmax(n) PROVE Served'
  <2>1. UNCHANGED <<ioq, sdev, pc>> /\ devtmax' = n /\ (devtmax < 0 <=> n < 0)
      BY <1>1, <1>8 DEF SetDevtmax, queuevars
  <2>2. n \in Int
      BY <1>1
  <2> QED BY <1>1, <1>3, <2>1, <2>2
<1>9. CASE Broadcast
  <2>1. UNCHANGED <<ioq, sdev, devtmax>>
      BY <1>9 DEF Broadcast, queuevars
  <2>2. \A u \in Thread : pc[u] \in Active => pc'[u] = pc[u]
      BY <1>1, <1>9 DEF Broadcast, Active
  <2> QED BY <1>3, <2>1, <2>2
<1>10. CASE UNCHANGED vars
    BY <1>3, <1>10 DEF vars, queuevars
<1>11. ASSUME NEW d \in Device, StartioDirectFail(d) PROVE Served'
  <2>1. UNCHANGED <<ioq, sdev, devtmax, pc>>
      BY <1>11 DEF StartioDirectFail, queuevars
  <2> QED BY <1>3, <2>1
<1> QED BY <1>2, <1>4, <1>5, <1>6, <1>7, <1>8, <1>9, <1>10, <1>11 DEF Next, ThreadStep


\* A step that leaves the requests of the devices other than d alone.
Others(d) == \A e \in Device \ {d} : /\ Queued(e)' <=> Queued(e)
                                     /\ Made(e)' <=> Made(e)
                                     /\ Running(e)' <=> Running(e)

LEMMA StageMoves == ASSUME NEW d, Others(d) PROVE Stage' = [Stage EXCEPT ![d] = Stage'[d]]
<1>1. \A e \in Device \ {d} : Stage'[e] = Stage[e]
    BY DEF Stage, Others
<1>2. Stage' = [e \in Device |-> Stage'[e]] /\ Stage = [e \in Device |-> Stage[e]]
    BY DEF Stage
<1> QED BY <1>1, <1>2

\* A device on the list is not executed; the devices of threads are not on it.
LEMMA StageIs ==
    ASSUME Inv, NEW d \in Device
    PROVE  /\ Queued(d) => Stage[d] = "queued"
           /\ \A t \in Thread : tdev[t] = d =>
                 Stage[d] = IF pc[t] = "made" THEN "queued" ELSE "running"
           /\ ~Queued(d) /\ (\A t \in Thread : tdev[t] # d) => Stage[d] = "idle"
<1>1. Queued(d) => ~Running(d)
    BY DEF Inv, ListSound, Running
<1>2. ASSUME NEW t \in Thread, tdev[t] = d
      PROVE  IF pc[t] = "made" THEN Made(d) /\ ~Running(d) ELSE Running(d)
  <2>1. \A u \in Thread : tdev[u] = d => u = t
      BY <1>2, PoolAssumption DEF Inv, Started
  <2> QED BY <1>2, <2>1 DEF Made, Running
<1> QED BY <1>1, <1>2 DEF Stage, Made, Running

IsStage == \A d \in Device :
    /\ Queued(d) => Stage[d] = "queued"
    /\ \A t \in Thread : tdev[t] = d =>
          Stage[d] = IF pc[t] = "made" THEN "queued" ELSE "running"
    /\ ~Queued(d) /\ (\A t \in Thread : tdev[t] # d) => Stage[d] = "idle"

LEMMA StageKnown == Inv => IsStage
BY StageIs DEF IsStage

\* Moving one thread concerns its devices, before and after, and no other.
LEMMA ThreadOthers ==
    ASSUME NEW t \in Thread, NEW d, \A e \in Device \ {d} : Queued(e)' <=> Queued(e),
           tdev[t] \in {d, NoDev}, tdev'[t] \in {d, NoDev},
           \A u \in Thread \ {t} : tdev'[u] = tdev[u] /\ pc'[u] = pc[u]
    PROVE  Others(d)
<1>1. \A e \in Device \ {d} : tdev[t] # e /\ tdev'[t] # e
    BY PoolAssumption
<1> QED BY <1>1 DEF Others, Made, Running

\* And so for the threads that have none.
LEMMA IdleOthers ==
    ASSUME NEW d, \A e \in Device \ {d} : Queued(e)' <=> Queued(e), UNCHANGED tdev,
           \A u \in Thread : tdev[u] # NoDev => pc'[u] = pc[u]
    PROVE  Others(d)
<1>1. \A e \in Device \ {d} : \A u \in Thread : tdev[u] = e => pc'[u] = pc[u]
    BY PoolAssumption
<1> QED BY <1>1 DEF Others, Made, Running

LEMMA IdleSame ==
    ASSUME UNCHANGED <<queuevars, tdev>>, \A u \in Thread : tdev[u] # NoDev => pc'[u] = pc[u]
    PROVE  Stage' = Stage
<1>1. Others(NoDev)
    BY SameList, IdleOthers
<1>2. Stage' = [Stage EXCEPT ![NoDev] = Stage'[NoDev]]
    BY <1>1, StageMoves
<1> QED BY <1>2, PoolAssumption DEF Stage

LEMMA StageNext == Inv /\ Inv' /\ IsStage /\ IsStage' /\ [Next]_vars => [Abstract!Next]_Stage
<1> SUFFICES ASSUME Inv, Inv', IsStage, IsStage', [Next]_vars PROVE [Abstract!Next]_Stage
    OBVIOUS
<1>1. /\ pc \in [Thread -> ThreadPc] /\ tdev \in [Thread -> Null]
      /\ \A t \in Thread : tdev[t] # NoDev <=> pc[t] \in {"run", "made", "direct"}
    BY DEF Inv, TypeOK, Started, Null
<1>2. ASSUME NEW d \in Device, Others(d),
             \/ Stage[d] = "idle" /\ Stage'[d] = "queued"
             \/ Stage[d] = "queued" /\ Stage'[d] = "running"
             \/ Stage[d] = "running" /\ Stage'[d] = "idle"
      PROVE  Abstract!Next
    BY <1>2, StageMoves DEF Abstract!Next, Abstract!Accept, Abstract!Run, Abstract!End, Abstract!Step
<1>3. ASSUME UNCHANGED <<queuevars, pc, tdev>> PROVE Stage' = Stage
    BY <1>3, IdleSame
<1>4. ASSUME NEW d \in Device, StartioQueue(d) \/ StartioDirectFail(d) PROVE Stage' = Stage
    BY <1>3, <1>4 DEF StartioQueue, StartioDirectFail
<1>5. CASE UNCHANGED vars \/ \E n \in Limits : SetDevtmax(n)
    BY <1>3, <1>5 DEF vars, SetDevtmax
<1>6. ASSUME NEW d \in Device, NEW t \in Thread, StartioDirect(d, t) PROVE Abstract!Next
  <2>1. /\ UNCHANGED queuevars /\ d \notin started
        /\ pc[t] = "none" /\ pc' = [pc EXCEPT ![t] = "made"] /\ tdev' = [tdev EXCEPT ![t] = d]
      BY <1>6 DEF StartioDirect
  <2>2. tdev[t] = NoDev /\ tdev'[t] = d /\ pc'[t] = "made"
        /\ \A u \in Thread \ {t} : tdev'[u] = tdev[u] /\ pc'[u] = pc[u]
      BY <1>1, <2>1
  <2>3. Others(d)
      BY <2>1, <2>2, SameList, ThreadOthers
  <2>4. Stage[d] = "idle"
      BY <2>1, PoolAssumption DEF Inv, ListSound, Started, IsStage
  <2>5. Stage'[d] = "queued"
      BY <2>2 DEF IsStage
  <2> QED BY <1>2, <2>3, <2>4, <2>5
<1>7. CASE QueueSignal \/ QueueCreateFail \/ QueueUnavailable \/ \E t \in Thread : QueueCreate(t)
  <2>1. Queue /\ UNCHANGED tdev
      BY <1>7 DEF QueueSignal, QueueCreateFail, QueueUnavailable, QueueCreate
  <2>2. \A u \in Thread : tdev[u] # NoDev => pc'[u] = pc[u]
      BY <1>1, <1>7 DEF QueueSignal, QueueCreateFail, QueueUnavailable, QueueCreate
  <2>3. sdev \in Device /\ \A d \in Device : Queued(d)' <=> d = sdev \/ Queued(d)
      BY <2>1, QueueStep
  <2>4. Others(sdev)
      BY <2>1, <2>2, <2>3, IdleOthers
  <2>5. Stage[sdev] = "idle"
      BY <2>1, <2>3 DEF Queue, Inv, ListSound, Started, IsStage
  <2>6. Stage'[sdev] = "queued"
      BY <2>3 DEF IsStage
  <2> QED BY <1>2, <2>3, <2>4, <2>5, <2>6
<1>8. ASSUME NEW t \in Thread, Begin(t) \/ Resume(t) PROVE [Abstract!Next]_Stage
  <2>1. PICK nbr : Loop(t, nbr) /\ pc[t] \in {"new", "woken", "back"}
      BY <1>8 DEF Begin, Resume
  <2>2. tdev[t] = NoDev
      BY <1>1, <2>1
  <2>3. CASE ioq # NoDev
    <3>1. /\ ioq' = nextioq[ioq] /\ UNCHANGED nextioq /\ tdev' = [tdev EXCEPT ![t] = ioq]
          /\ pc' = [pc EXCEPT ![t] = "run"]
        BY <2>1, <2>3 DEF Loop
    <3>2. /\ tdev'[t] = ioq /\ pc'[t] = "run"
          /\ \A u \in Thread \ {t} : tdev'[u] = tdev[u] /\ pc'[u] = pc[u]
        BY <1>1, <3>1
    <3>3. ioq \in Device /\ Queued(ioq) /\ \A d \in Device : Queued(d)' <=> d # ioq /\ Queued(d)
        BY <2>3, <3>1, TakeStep
    <3>4. Others(ioq)
        BY <2>2, <3>2, <3>3, ThreadOthers
    <3>5. Stage[ioq] = "queued"
        BY <3>3 DEF IsStage
    <3>6. Stage'[ioq] = "running"
        BY <3>2, <3>3 DEF IsStage
    <3> QED BY <1>2, <3>3, <3>4, <3>5, <3>6
  <2>4. CASE ioq = NoDev
    <3>1. UNCHANGED <<queuevars, tdev>> /\ \A u \in Thread \ {t} : pc'[u] = pc[u]
        BY <1>1, <2>1, <2>4 DEF Loop
    <3>2. Stage' = Stage
        BY <2>2, <3>1, IdleSame
    <3> QED BY <3>2
  <2> QED BY <2>3, <2>4
<1>9. ASSUME NEW t \in Thread, BeginDirect(t) \/ Finish(t) PROVE Abstract!Next
  <2>1. PICK d \in Device : tdev[t] = d
      BY <1>1, <1>9 DEF BeginDirect, Finish, Null
  <2>2. /\ UNCHANGED queuevars /\ tdev'[t] \in {d, NoDev}
        /\ \A u \in Thread \ {t} : tdev'[u] = tdev[u] /\ pc'[u] = pc[u]
      BY <1>1, <1>9, <2>1 DEF BeginDirect, Finish
  <2>3. Others(d)
      BY <2>1, <2>2, SameList, ThreadOthers
  <2>4. CASE BeginDirect(t)
    <3>1. pc[t] = "made" /\ pc'[t] = "direct" /\ tdev[t] = d /\ tdev'[t] = d
        BY <1>1, <2>1, <2>4 DEF BeginDirect
    <3>2. Stage[d] = "queued" /\ Stage'[d] = "running"
        BY <2>1, <3>1 DEF IsStage
    <3> QED BY <1>2, <2>1, <2>3, <3>2
  <2>5. CASE Finish(t)
    <3>1. pc[t] # "made" /\ tdev[t] = d /\ tdev'[t] = NoDev
        BY <1>1, <2>1, <2>5 DEF Finish
    <3>2. /\ Stage[d] = "running"
          /\ ~Queued(d) /\ \A u \in Thread \ {t} : tdev[u] # d
        BY <2>1, <3>1, PoolAssumption DEF IsStage, Inv, ListSound, Started
    <3>3. ~Queued(d)' /\ \A u \in Thread : tdev'[u] # d
        BY <2>1, <2>2, <3>1, <3>2, SameList, PoolAssumption
    <3>4. Stage'[d] = "idle"
        BY <2>1, <3>3 DEF IsStage
    <3> QED BY <1>2, <2>1, <2>3, <3>2, <3>4
  <2> QED BY <1>9, <2>4, <2>5
<1>10. CASE Broadcast
  <2>1. /\ UNCHANGED <<queuevars, tdev>>
        /\ \A u \in Thread : tdev[u] # NoDev => pc'[u] = pc[u]
      BY <1>1, <1>10 DEF Broadcast
  <2>2. Stage' = Stage
      BY <2>1, IdleSame
  <2> QED BY <2>2
<1>11. ASSUME NEW t \in Thread, SpuriousReturn(t) PROVE Stage' = Stage
  <2>1. /\ UNCHANGED <<queuevars, tdev>>
        /\ \A u \in Thread : tdev[u] # NoDev => pc'[u] = pc[u]
      BY <1>1, <1>11 DEF SpuriousReturn
  <2> QED BY <2>1, IdleSame
<1> QED BY <1>4, <1>5, <1>6, <1>7, <1>8, <1>9, <1>10, <1>11 DEF Next, ThreadStep

-----------------------------------------------------------------------------
(* The theorems *)

\* Every variable keeps its type, whatever returns unsignalled: devtnbr never leaves
\* the number of threads, and devtwait, which may, never becomes negative.
THEOREM TypeCorrect == Spec => []TypeOK
<1>1. Inv => TypeOK
    BY DEF Inv
<1> QED BY <1>1, InvInit, InvNext, PTL DEF Spec

\* sysblk.ioq, linked by startio and unlinked by device_thread, always ends, holds
\* no device twice, is in order of priority and holds only devices yet to be executed.
THEOREM QueueIsSound == Spec => []QueueSound
<1>1. Inv => QueueSound
  <2> SUFFICES ASSUME Inv PROVE QueueSound
      OBVIOUS
  <2>1. \A n \in Index : Entry[n] # NoDev => Entry[n] \in Device /\ Queued(Entry[n])
      BY EntryChain DEF Inv, TypeOK, Null, Chain, Queued
  <2>2. \A n \in Index : Entry[n] # NoDev =>
            Entry[n] \in started /\ ~Made(Entry[n]) /\ ~Running(Entry[n])
      BY <2>1 DEF Inv, ListSound, Made, Running
  <2> QED BY <2>2 DEF QueueSound, Inv, ListSound, Ordered
<1> QED BY <1>1, InvInit, InvNext, PTL DEF Spec

\* startio, device_thread: no request is left on the list with every thread gone or
\* waiting, and devtwait counts every waiting thread, if the devtmax command keeps
\* the sign of the limit, the first thread can be created, and either no wait
\* returns unsignalled or there is a limit to the threads.
THEOREM QueueIsServed ==
    ASSUME ~AllowSwitch, ~AllowLastFail, Spurious => 0 \notin Limits
    PROVE  Spec => []QueueServed
<1>1. Inv /\ Served => QueueServed
    BY DEF Inv, Counters, Waiting, Served, Active, QueueServed, QueueAttended
<1>2. Init => Served /\ Kept
    BY DEF Init, Served, Kept
<1>3. Inv /\ Kept /\ [Next]_vars => Kept'
    BY KeptNext
<1> QED BY <1>1, <1>2, <1>3, InvInit, InvNext, ServedNext, PTL DEF Spec

\* The device threads of channel.c execute only requests that were accepted, and
\* each of them at most once, whatever is done to the limit.
THEOREM ImplementsScheduler == Spec => Implements
<1>1. Init => Abstract!Init
  <2> SUFFICES ASSUME Init PROVE Stage = [d \in Device |-> "idle"]
      BY DEF Abstract!Init
  <2>1. IsStage /\ Inv
      BY InvInit, StageKnown
  <2>2. \A d \in Device : Stage[d] = "idle"
      BY <2>1, PoolAssumption DEF Init, IsStage, Inv, ListSound
  <2> QED BY <2>2 DEF Stage
<1> QED BY <1>1, InvInit, InvNext, StageKnown, StageNext, PTL DEF Spec, Implements, Abstract!Spec
=============================================================================
