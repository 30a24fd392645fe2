---------------------------- MODULE ChainOps_proof ---------------------------
(***************************************************************************)
(* Facts about chains, and the form of induction that they need: over sets *)
(* of numbers, which the provers can instantiate.                          *)
(***************************************************************************)
EXTENDS ChainOps, SequenceTheorems, WellFoundedInduction, TLAPS

-----------------------------------------------------------------------------
(* Induction and recursion up to a number *)

\* Every nonempty set of naturals has a least element.
LEMMA LeastNatural ==
    ASSUME NEW S, S \subseteq Nat, S # {}
    PROVE  \E m \in S : \A n \in S : m <= n
<1>1. PICK m \in S : \A n \in S : <<n, m>> \notin OpToRel(<, Nat)
    BY WFMin, NatLessThanWellFounded, Zenon
<1>2. \A n \in S : ~ (n < m)
    BY <1>1, Zenon DEF OpToRel
<1>3. \A n \in S : m <= n
    BY <1>2
<1> QED BY <1>3

\* A set that has 0, and with each number before L the next one, has all of them.
LEMMA InductionTo ==
    ASSUME NEW L \in Nat, NEW S, 0 \in S, \A n \in 1..L : n - 1 \in S => n \in S
    PROVE  \A n \in 0..L : n \in S
<1> DEFINE Missing == {n \in 0..L : n \notin S}
<1> SUFFICES ASSUME Missing # {} PROVE FALSE
    OBVIOUS
<1>1. Missing \subseteq Nat
    OBVIOUS
<1>2. PICK m \in Missing : \A n \in Missing : m <= n
  <2> HIDE DEF Missing
  <2> QED BY <1>1, LeastNatural
<1>3. m \in 1..L /\ m - 1 \in 0..L
    BY <1>2
<1>4. m - 1 \in S
    BY <1>2, <1>3
<1> QED BY <1>2, <1>3, <1>4

\* A function given by its first value and, for each number, the way from the
\* value before.
Unfolds(f, L, base, F) == f[0] = base /\ \A n \in 1..L : f[n] = F[n][f[n - 1]]

\* There is such a function.
LEMMA RecursionTo ==
    ASSUME NEW L \in Nat, NEW V, NEW base \in V, NEW F \in [1..L -> [V -> V]]
    PROVE  \E f \in [0..L -> V] : Unfolds(f, L, base, F)
<1> DEFINE Solves(f, n) == f[0] = base /\ \A i \in 1..n : f[i] = F[i][f[i - 1]]
           S == {n \in 0..L : \E f \in [0..n -> V] : Solves(f, n)}
<1>1. 0 \in S
  <2>1. [i \in 0..0 |-> base] \in [0..0 -> V] /\ Solves([i \in 0..0 |-> base], 0)
      OBVIOUS
  <2>2. \E f \in [0..0 -> V] : Solves(f, 0)
    <3> HIDE DEF Solves
    <3> QED BY <2>1
  <2> QED BY <2>2
<1>2. ASSUME NEW n \in 1..L, n - 1 \in S PROVE n \in S
  <2>1. PICK f \in [0..(n - 1) -> V] : Solves(f, n - 1)
      BY <1>2
  <2> DEFINE g == [i \in 0..n |-> IF i = n THEN F[n][f[n - 1]] ELSE f[i]]
  <2>2. F[n][f[n - 1]] \in V
      OBVIOUS
  <2>3. g \in [0..n -> V]
      BY <2>2
  <2>4. g[0] = base
      BY <2>1
  <2>5. ASSUME NEW i \in 1..n PROVE g[i] = F[i][g[i - 1]]
    <3>1. CASE i = n
        BY <3>1
    <3>2. CASE i # n
        BY <2>1, <3>2
    <3> QED BY <3>1, <3>2
  <2>6. \E f2 \in [0..n -> V] : Solves(f2, n)
    <3> HIDE DEF g
    <3> QED BY <2>3, <2>4, <2>5
  <2> QED BY <2>6
<1>3. L \in S
  <2>1. L \in 0..L
      OBVIOUS
  <2>2. \A n \in 0..L : n \in S
    <3> HIDE DEF S
    <3> QED BY <1>1, <1>2, InductionTo
  <2> QED BY <2>1, <2>2
<1> QED BY <1>3 DEF Unfolds

-----------------------------------------------------------------------------
(* Without *)

\* kept[n] is what is kept of the first n entries.
Keeps(kept, q, S) ==
    /\ kept[0] = <<>>
    /\ \A n \in 1..Len(q) :
          kept[n] = IF q[n] \in S THEN kept[n - 1] ELSE Append(kept[n - 1], q[n])
    /\ Without(q, S) = kept[Len(q)]

\* The definition of Without is one: there is a function as it describes.
LEMMA WithoutDefined ==
    ASSUME NEW T, NEW q \in Seq(T), NEW S
    PROVE  \E kept \in [0..Len(q) -> Seq(T)] : Keeps(kept, q, S)
<1> DEFINE L == Len(q)
           Step(n, v) == IF q[n] \in S THEN v ELSE Append(v, q[n])
           F == [n \in 1..L |-> [v \in Seq(T) |-> Step(n, v)]]
<1>1. L \in Nat /\ \A n \in 1..L : q[n] \in T
    BY LenProperties, ElementOfSeq
<1>2. \A n \in 1..L, v \in Seq(T) : Step(n, v) \in Seq(T)
    BY <1>1, AppendProperties
<1>3. F \in [1..L -> [Seq(T) -> Seq(T)]]
    BY <1>2
<1>4. <<>> \in Seq(T)
    OBVIOUS
<1>5. PICK f \in [0..L -> Seq(T)] : f[0] = <<>> /\ \A n \in 1..L : f[n] = F[n][f[n - 1]]
  <2> HIDE DEF F, L
  <2>1. \E f \in [0..L -> Seq(T)] : Unfolds(f, L, <<>>, F)
      BY <1>1, <1>3, <1>4, RecursionTo
  <2> QED BY <2>1 DEF Unfolds
<1>6. \A n \in 1..L : f[n] = Step(n, f[n - 1])
  <2> TAKE n \in 1..L
  <2>1. f[n - 1] \in Seq(T)
      BY <1>1
  <2> QED BY <1>5, <2>1
<1> DEFINE Def(g) == [n \in 0..L |-> IF n = 0 THEN <<>> ELSE Step(n, g[n - 1])]
           h == CHOOSE g : g = Def(g)
<1>7. f = Def(f)
  <2>1. \A n \in 0..L : n # 0 => n \in 1..L
      BY <1>1
  <2>2. ASSUME NEW n \in 0..L PROVE f[n] = IF n = 0 THEN <<>> ELSE Step(n, f[n - 1])
    <3> HIDE DEF Step
    <3> QED BY <1>5, <1>6, <2>1
  <2> HIDE DEF Step
  <2> QED BY <2>2
<1>8. h = Def(h)
  <2> HIDE DEF Def
  <2> QED BY <1>7
<1> HIDE DEF h
<1>12. h[0] = <<>> /\ \A n \in 1..L : h[n] = Step(n, h[n - 1])
  <2> HIDE DEF Step
  <2>1. 0 \in 0..L /\ \A n \in 1..L : n \in 0..L /\ n # 0
      BY <1>1
  <2>2. \A n \in 0..L : h[n] = IF n = 0 THEN <<>> ELSE Step(n, h[n - 1])
      BY <1>8
  <2> QED BY <2>1, <2>2
<1>9. \A n \in 0..L : h[n] = f[n]
  <2> DEFINE Same == {n \in 0..L : h[n] = f[n]}
  <2>1. 0 \in Same
      BY <1>1, <1>5, <1>12
  <2>2. ASSUME NEW n \in 1..L, n - 1 \in Same PROVE n \in Same
    <3>1. h[n] = Step(n, h[n - 1]) /\ f[n] = Step(n, f[n - 1]) /\ n \in 0..L
        BY <1>1, <1>12, <1>6
    <3> QED BY <2>2, <3>1
  <2>3. \A n \in 0..L : n \in Same
    <3> HIDE DEF Same, L
    <3> QED BY <1>1, <2>1, <2>2, InductionTo
  <2> QED BY <2>3
<1>10. Without(q, S) = h[L]
    BY DEF Without, h
<1>11. Without(q, S) = f[L]
    BY <1>1, <1>9, <1>10
<1> QED BY <1>5, <1>6, <1>11 DEF Keeps

\* Unlinking entries leaves the others, each as often as it was there before.
LEMMA WithoutProperties ==
    ASSUME NEW T, NEW q \in Seq(T), NEW S
    PROVE  /\ Without(q, S) \in Seq(T)
           /\ On(Without(q, S)) = On(q) \ S
           /\ Once(q) => Once(Without(q, S))
<1> DEFINE L == Len(q)
<1>1. L \in Nat /\ \A n \in 1..L : q[n] \in T
    BY LenProperties, ElementOfSeq
<1>2. PICK f \in [0..L -> Seq(T)] :
        /\ f[0] = <<>>
        /\ \A n \in 1..L : f[n] = IF q[n] \in S THEN f[n - 1] ELSE Append(f[n - 1], q[n])
        /\ Without(q, S) = f[L]
  <2>1. \E f \in [0..Len(q) -> Seq(T)] : Keeps(f, q, S)
      BY WithoutDefined, Zenon
  <2> QED BY <2>1 DEF Keeps
<1> HIDE DEF L
<1>3. L \in 0..L /\ f[L] \in Seq(T)
    BY <1>1, <1>2
<1> DEFINE Upto(n) == {q[i] : i \in 1..n} \ S
<1>4. \A n \in 0..L : On(f[n]) = Upto(n)
  <2> DEFINE Good == {n \in 0..L : On(f[n]) = Upto(n)}
  <2>1. 0 \in Good
    <3>1. On(<<>>) = {} /\ Upto(0) = {}
        BY DEF On
    <3> QED BY <1>1, <1>2, <3>1
  <2>2. ASSUME NEW n \in 1..L, n - 1 \in Good PROVE n \in Good
    <3>1. f[n - 1] \in Seq(T) /\ q[n] \in T /\ n - 1 \in 0..L /\ n \in 0..L
        BY <1>1, <1>2
    <3>2. Upto(n) = IF q[n] \in S THEN Upto(n - 1) ELSE Upto(n - 1) \cup {q[n]}
      <4>1. 1..n = (1..(n - 1)) \cup {n}
          BY <1>1
      <4> QED BY <4>1
    <3>3. On(Append(f[n - 1], q[n])) = On(f[n - 1]) \cup {q[n]}
      <4> DEFINE s == f[n - 1]
                 a == Append(s, q[n])
      <4>1. /\ Len(s) \in Nat /\ Len(a) = Len(s) + 1
            /\ \A i \in 1..Len(s) : a[i] = s[i]
            /\ a[Len(s) + 1] = q[n]
          BY <3>1, AppendProperties, LenProperties
      <4> HIDE DEF a, s
      <4>2. 1..Len(a) = (1..Len(s)) \cup {Len(s) + 1}
          BY <4>1
      <4>3. On(a) = On(s) \cup {q[n]}
          BY <4>1, <4>2 DEF On
      <4> QED BY <4>3 DEF a, s
    <3>4. On(f[n]) = Upto(n)
        BY <1>2, <2>2, <3>2, <3>3
    <3> QED BY <3>1, <3>4
  <2>3. \A n \in 0..L : n \in Good
    <3> HIDE DEF Good
    <3> QED BY <1>1, <2>1, <2>2, InductionTo
  <2> QED BY <2>3
<1>5. On(f[L]) = On(q) \ S
    BY <1>1, <1>3, <1>4 DEF On, L
<1>6. ASSUME Once(q) PROVE Once(f[L])
  <2> DEFINE Good == {n \in 0..L : Once(f[n])}
  <2>1. 0 \in Good
      BY <1>1, <1>2 DEF Once
  <2>2. ASSUME NEW n \in 1..L, n - 1 \in Good PROVE n \in Good
    <3> DEFINE s == f[n - 1]
               a == Append(s, q[n])
    <3>1. s \in Seq(T) /\ q[n] \in T /\ n - 1 \in 0..L /\ n \in 0..L
        BY <1>1, <1>2
    <3>2. /\ Len(s) \in Nat /\ Len(a) = Len(s) + 1
          /\ \A i \in 1..Len(s) : a[i] = s[i]
          /\ a[Len(s) + 1] = q[n]
        BY <3>1, AppendProperties, LenProperties
    <3>3. q[n] \notin On(s)
      <4>1. On(s) = Upto(n - 1)
          BY <1>4, <3>1
      <4>2. \A i \in 1..(n - 1) : q[i] # q[n]
          BY <1>1, <1>6 DEF L, Once
      <4> QED BY <4>1, <4>2
    <3>4. \A i \in 1..Len(s) : s[i] # q[n]
        BY <3>3 DEF On
    <3>5. Once(s)
        BY <2>2
    <3>6. Once(a)
      <4> HIDE DEF a, s
      <4> QED BY <3>2, <3>4, <3>5 DEF Once
    <3> QED BY <1>2, <3>1, <3>5, <3>6
  <2>3. \A n \in 0..L : n \in Good
    <3> HIDE DEF Good
    <3> QED BY <1>1, <2>1, <2>2, InductionTo
  <2> QED BY <1>1, <2>3
<1> QED BY <1>2, <1>3, <1>5, <1>6

-----------------------------------------------------------------------------
(* The other operations *)

\* Only the empty chain has nothing on it; every other one has its head.
LEMMA OnHead ==
    ASSUME NEW T, NEW q \in Seq(T)
    PROVE  /\ On(q) \subseteq T
           /\ On(<<>>) = {}
           /\ q # <<>> => Head(q) \in On(q) /\ Tail(q) \in Seq(T) /\ On(Tail(q)) \subseteq On(q)
<1>1. Len(q) \in Nat /\ \A i \in 1..Len(q) : q[i] \in T
    BY LenProperties, ElementOfSeq
<1>2. ASSUME q # <<>> PROVE Head(q) \in On(q) /\ Tail(q) \in Seq(T) /\ On(Tail(q)) \subseteq On(q)
  <2>1. /\ Head(q) = q[1] /\ Tail(q) \in Seq(T) /\ Len(Tail(q)) = Len(q) - 1
        /\ \A i \in 1..(Len(q) - 1) : Tail(q)[i] = q[i + 1]
      BY <1>2, HeadTailProperties
  <2>2. Len(q) # 0
      BY <1>2, EmptySeq
  <2> QED BY <1>1, <2>1, <2>2 DEF On
<1> QED BY <1>1, <1>2 DEF On

\* InsertListTail.
LEMMA OnAppend ==
    ASSUME NEW T, NEW q \in Seq(T), NEW x \in T
    PROVE  /\ Append(q, x) \in Seq(T)
           /\ On(Append(q, x)) = On(q) \cup {x}
           /\ Once(q) /\ x \notin On(q) => Once(Append(q, x))
<1> DEFINE a == Append(q, x)
<1>1. /\ Len(q) \in Nat /\ Len(a) = Len(q) + 1 /\ a \in Seq(T)
      /\ \A i \in 1..Len(q) : a[i] = q[i]
      /\ a[Len(q) + 1] = x
    BY AppendProperties, LenProperties
<1> HIDE DEF a
<1>2. On(a) = On(q) \cup {x}
  <2>1. 1..Len(a) = (1..Len(q)) \cup {Len(q) + 1}
      BY <1>1
  <2> QED BY <1>1, <2>1 DEF On
<1>3. Once(q) /\ x \notin On(q) => Once(a)
    BY <1>1 DEF Once, On
<1> QED BY <1>1, <1>2, <1>3 DEF a
=============================================================================
