-------------------------- MODULE CckdSpace_proof ---------------------------
(***************************************************************************)
(* Proofs about CckdSpace, for any tracks, tables, lengths of images and   *)
(* size of the file: each unit of the file has one use, the header counts  *)
(* what there is, and released space is used again late enough.            *)
(***************************************************************************)
EXTENDS CckdSpace, ChainOps_proof, FiniteSetTheorems

-----------------------------------------------------------------------------
(* Sequences and numbers *)

LEMMA RemoveAtProperties ==
    ASSUME NEW T, NEW q \in Seq(T), NEW i \in 1..Len(q)
    PROVE  /\ RemoveAt(q, i) \in Seq(T)
           /\ Len(RemoveAt(q, i)) = Len(q) - 1
           /\ \A j \in 1..(Len(q) - 1) : RemoveAt(q, i)[j] = IF j < i THEN q[j] ELSE q[j + 1]
<1> DEFINE a == SubSeq(q, 1, i - 1)
           b == SubSeq(q, i + 1, Len(q))
<1>1. Len(q) \in Nat /\ i \in Int /\ \A j \in 1..Len(q) : q[j] \in T
    BY LenProperties, ElementOfSeq
<1>2. a \in Seq(T) /\ Len(a) = i - 1 /\ \A j \in 1..(i - 1) : a[j] = q[j]
  <2>1. \A j \in 1..(i - 1) : q[j] \in T
      BY <1>1
  <2>2. /\ SubSeq(q, 1, i - 1) \in Seq(T)
        /\ Len(SubSeq(q, 1, i - 1)) = IF 1 <= i - 1 THEN (i - 1) - 1 + 1 ELSE 0
        /\ \A j \in 1..((i - 1) - 1 + 1) : SubSeq(q, 1, i - 1)[j] = q[1 + j - 1]
      BY <1>1, <2>1, SubSeqProperties
  <2> HIDE DEF a
  <2>3. /\ a \in Seq(T)
        /\ Len(a) = IF 1 <= i - 1 THEN (i - 1) - 1 + 1 ELSE 0
        /\ \A j \in 1..((i - 1) - 1 + 1) : a[j] = q[1 + j - 1]
      BY <2>2 DEF a
  <2> QED BY <1>1, <2>3
<1>3. b \in Seq(T) /\ Len(b) = Len(q) - i /\ \A j \in 1..(Len(q) - i) : b[j] = q[i + j]
  <2>1. \A j \in (i + 1)..Len(q) : q[j] \in T
      BY <1>1
  <2>2. /\ SubSeq(q, i + 1, Len(q)) \in Seq(T)
        /\ Len(SubSeq(q, i + 1, Len(q))) = IF i + 1 <= Len(q) THEN Len(q) - (i + 1) + 1 ELSE 0
        /\ \A j \in 1..(Len(q) - (i + 1) + 1) : SubSeq(q, i + 1, Len(q))[j] = q[(i + 1) + j - 1]
      BY <1>1, <2>1, SubSeqProperties
  <2> HIDE DEF b
  <2>3. /\ b \in Seq(T)
        /\ Len(b) = IF i + 1 <= Len(q) THEN Len(q) - (i + 1) + 1 ELSE 0
        /\ \A j \in 1..(Len(q) - (i + 1) + 1) : b[j] = q[(i + 1) + j - 1]
      BY <2>2 DEF b
  <2> QED BY <1>1, <2>3
<1> HIDE DEF a, b
<1>4. /\ a \o b \in Seq(T) /\ Len(a \o b) = Len(a) + Len(b)
      /\ \A j \in 1..(Len(a) + Len(b)) : (a \o b)[j] = IF j <= Len(a) THEN a[j] ELSE b[j - Len(a)]
    BY <1>2, <1>3, ConcatProperties
<1>5. RemoveAt(q, i) = a \o b
    BY DEF RemoveAt, a, b
<1> DEFINE c == a \o b
<1> HIDE DEF c
<1>6. c \in Seq(T) /\ Len(c) = Len(q) - 1
    BY <1>1, <1>2, <1>3, <1>4 DEF c
<1>7. ASSUME NEW j \in 1..(Len(q) - 1) PROVE c[j] = IF j < i THEN q[j] ELSE q[j + 1]
  <2>1. c[j] = IF j <= Len(a) THEN a[j] ELSE b[j - Len(a)]
      BY <1>1, <1>2, <1>3, <1>4 DEF c
  <2>2. CASE j < i
      BY <1>1, <1>2, <2>1, <2>2
  <2>3. CASE ~(j < i)
    <3>1. j - (i - 1) \in 1..(Len(q) - i)
        BY <1>1, <2>3
    <3>2. c[j] = b[j - (i - 1)]
        BY <1>1, <1>2, <2>1, <2>3
    <3>3. b[j - (i - 1)] = q[i + (j - (i - 1))]
        BY <1>3, <3>1
    <3>4. i + (j - (i - 1)) = j + 1
        BY <1>1
    <3> QED BY <2>3, <3>2, <3>3, <3>4
  <2> QED BY <2>2, <2>3
<1> QED BY <1>5, <1>6, <1>7 DEF c

LEMMA InsertAtProperties ==
    ASSUME NEW T, NEW q \in Seq(T), NEW i \in 1..(Len(q) + 1), NEW e \in T
    PROVE  /\ InsertAt(q, i, e) \in Seq(T)
           /\ Len(InsertAt(q, i, e)) = Len(q) + 1
           /\ \A j \in 1..(Len(q) + 1) :
                InsertAt(q, i, e)[j] = IF j < i THEN q[j] ELSE IF j = i THEN e ELSE q[j - 1]
<1> DEFINE a == SubSeq(q, 1, i - 1)
           b == SubSeq(q, i, Len(q))
           m == <<e>>
<1>1. Len(q) \in Nat /\ i \in Int /\ \A j \in 1..Len(q) : q[j] \in T
    BY LenProperties, ElementOfSeq
<1>2. a \in Seq(T) /\ Len(a) = i - 1 /\ \A j \in 1..(i - 1) : a[j] = q[j]
  <2>1. \A j \in 1..(i - 1) : q[j] \in T
      BY <1>1
  <2>2. /\ SubSeq(q, 1, i - 1) \in Seq(T)
        /\ Len(SubSeq(q, 1, i - 1)) = IF 1 <= i - 1 THEN (i - 1) - 1 + 1 ELSE 0
        /\ \A j \in 1..((i - 1) - 1 + 1) : SubSeq(q, 1, i - 1)[j] = q[1 + j - 1]
      BY <1>1, <2>1, SubSeqProperties
  <2> HIDE DEF a
  <2>3. /\ a \in Seq(T)
        /\ Len(a) = IF 1 <= i - 1 THEN (i - 1) - 1 + 1 ELSE 0
        /\ \A j \in 1..((i - 1) - 1 + 1) : a[j] = q[1 + j - 1]
      BY <2>2 DEF a
  <2> QED BY <1>1, <2>3
<1>3. b \in Seq(T) /\ Len(b) = Len(q) - i + 1 /\ \A j \in 1..(Len(q) - i + 1) : b[j] = q[i + j - 1]
  <2>1. \A j \in i..Len(q) : q[j] \in T
      BY <1>1
  <2>2. /\ SubSeq(q, i, Len(q)) \in Seq(T)
        /\ Len(SubSeq(q, i, Len(q))) = IF i <= Len(q) THEN Len(q) - i + 1 ELSE 0
        /\ \A j \in 1..(Len(q) - i + 1) : SubSeq(q, i, Len(q))[j] = q[i + j - 1]
      BY <1>1, <2>1, SubSeqProperties
  <2> HIDE DEF b
  <2>3. /\ b \in Seq(T)
        /\ Len(b) = IF i <= Len(q) THEN Len(q) - i + 1 ELSE 0
        /\ \A j \in 1..(Len(q) - i + 1) : b[j] = q[i + j - 1]
      BY <2>2 DEF b
  <2> QED BY <1>1, <2>3
<1>m. m \in Seq(T) /\ Len(m) = 1 /\ m[1] = e
    OBVIOUS
<1> HIDE DEF a, b, m
<1> DEFINE am == a \o m
<1>c. /\ am \in Seq(T) /\ Len(am) = Len(a) + Len(m)
      /\ \A j \in 1..(Len(a) + Len(m)) : am[j] = IF j <= Len(a) THEN a[j] ELSE m[j - Len(a)]
    BY <1>2, <1>m, ConcatProperties
<1> HIDE DEF am
<1>4. /\ am \in Seq(T) /\ Len(am) = i
      /\ \A j \in 1..i : am[j] = IF j <= Len(a) THEN a[j] ELSE m[j - Len(a)]
    BY <1>1, <1>2, <1>m, <1>c
<1>5. /\ am \o b \in Seq(T) /\ Len(am \o b) = Len(am) + Len(b)
      /\ \A j \in 1..(Len(am) + Len(b)) : (am \o b)[j] = IF j <= Len(am) THEN am[j] ELSE b[j - Len(am)]
    BY <1>3, <1>4, ConcatProperties
<1>6. InsertAt(q, i, e) = am \o b
    BY DEF InsertAt, a, b, m, am
<1> DEFINE c == am \o b
<1> HIDE DEF c
<1>7. c \in Seq(T) /\ Len(c) = Len(q) + 1
    BY <1>1, <1>3, <1>4, <1>5 DEF c
<1>8. ASSUME NEW j \in 1..(Len(q) + 1)
      PROVE  c[j] = IF j < i THEN q[j] ELSE IF j = i THEN e ELSE q[j - 1]
  <2>1. c[j] = IF j <= i THEN am[j] ELSE b[j - i]
      BY <1>1, <1>3, <1>4, <1>5 DEF c
  <2>2. CASE j < i
      BY <1>1, <1>2, <1>4, <2>1, <2>2
  <2>3. CASE j = i
    <3>1. j - Len(a) = 1 /\ ~(j <= Len(a))
        BY <1>1, <1>2, <2>3
    <3> QED BY <1>1, <1>4, <1>m, <2>1, <2>3, <3>1
  <2>4. CASE i < j
    <3>1. j - i \in 1..(Len(q) - i + 1)
        BY <1>1, <2>4
    <3>2. b[j - i] = q[i + (j - i) - 1] /\ i + (j - i) - 1 = j - 1
        BY <1>1, <1>3, <3>1
    <3> QED BY <1>1, <2>1, <2>4, <3>2
  <2> QED BY <1>1, <2>2, <2>3, <2>4
<1> QED BY <1>6, <1>7, <1>8 DEF c

LEMMA FrontProperties ==
    ASSUME NEW T, NEW q \in Seq(T), Len(q) > 0
    PROVE  /\ Front(q) \in Seq(T) /\ Len(Front(q)) = Len(q) - 1
           /\ \A j \in 1..(Len(q) - 1) : Front(q)[j] = q[j]
<1>1. Len(q) \in Nat /\ \A j \in 1..(Len(q) - 1) : q[j] \in T
    BY LenProperties, ElementOfSeq
<1>2. /\ SubSeq(q, 1, Len(q) - 1) \in Seq(T)
      /\ Len(SubSeq(q, 1, Len(q) - 1)) = IF 1 <= Len(q) - 1 THEN (Len(q) - 1) - 1 + 1 ELSE 0
      /\ \A j \in 1..((Len(q) - 1) - 1 + 1) : SubSeq(q, 1, Len(q) - 1)[j] = q[1 + j - 1]
    BY <1>1, SubSeqProperties
<1> DEFINE s == Front(q)
<1>3. s = SubSeq(q, 1, Len(q) - 1)
    BY DEF Front
<1> HIDE DEF s
<1>4. /\ s \in Seq(T)
      /\ Len(s) = IF 1 <= Len(q) - 1 THEN (Len(q) - 1) - 1 + 1 ELSE 0
      /\ \A j \in 1..((Len(q) - 1) - 1 + 1) : s[j] = q[1 + j - 1]
    BY <1>2, <1>3
<1>5. Len(s) = Len(q) - 1
  <2>1. Len(s) = IF 1 <= Len(q) - 1 THEN (Len(q) - 1) - 1 + 1 ELSE 0
      BY <1>4
  <2>2. ASSUME NEW x, NEW n \in Nat, n > 0, x = IF 1 <= n - 1 THEN (n - 1) - 1 + 1 ELSE 0
        PROVE  x = n - 1
      BY <2>2
  <2> QED BY <1>1, <2>1, <2>2, Zenon
<1>6. ASSUME NEW j \in 1..(Len(q) - 1) PROVE s[j] = q[j]
  <2>1. s[j] = q[1 + j - 1] /\ 1 + j - 1 = j
      BY <1>1, <1>4
  <2> QED BY <2>1
<1> QED BY <1>4, <1>5, <1>6 DEF s

LEMMA MinProperties ==
    ASSUME NEW S, S \subseteq Nat, S # {}
    PROVE  Min(S) \in S /\ \A x \in S : Min(S) <= x
BY LeastNatural DEF Min

-----------------------------------------------------------------------------
(* Chains of free spaces *)

FreeRec == [pos : Nat, len : Nat \ {0}, pending : 0..4]

End(e) == e.pos + e.len

\* Free spaces between lo and hi, in the order in which they lie in the file.
Chain(q, lo, hi) ==
    /\ q \in Seq(FreeRec)
    /\ \A i \in 1..Len(q) : lo <= q[i].pos /\ End(q[i]) <= hi
    /\ \A i, j \in 1..Len(q) : i < j => End(q[i]) <= q[j].pos

FreeUnits(q) == UNION {Units(e) : e \in On(q)}

LEMMA UnitsOf ==
    ASSUME NEW e, e.pos \in Int, e.len \in Int
    PROVE  \A u : u \in Units(e) <=> u \in Int /\ e.pos <= u /\ u < e.pos + e.len
BY DEF Units

LEMMA FreeFields ==
    ASSUME NEW e \in FreeRec
    PROVE  /\ e.pos \in Nat /\ e.len \in Nat \ {0} /\ e.pending \in 0..4
           /\ End(e) \in Nat /\ e.pos < End(e)
           /\ \A u : u \in Units(e) <=> u \in Int /\ e.pos <= u /\ u < End(e)
<1>1. e.pos \in Nat /\ e.len \in Nat \ {0} /\ e.pending \in 0..4
    BY DEF FreeRec
<1> QED BY <1>1 DEF End, Units

LEMMA ChainFacts ==
    ASSUME NEW q, NEW lo \in Int, NEW hi \in Int, Chain(q, lo, hi)
    PROVE  /\ Len(q) \in Nat /\ DOMAIN q = 1..Len(q) /\ On(q) = {q[i] : i \in 1..Len(q)}
           /\ \A i \in 1..Len(q) : q[i] \in FreeRec /\ lo <= q[i].pos /\ End(q[i]) <= hi
           /\ \A i, j \in 1..Len(q) : i < j => q[i].pos < q[j].pos /\ q[i] # q[j]
           /\ \A i, j \in 1..Len(q) : i # j => Units(q[i]) \cap Units(q[j]) = {} /\ q[i] # q[j]
           /\ On(q) \subseteq FreeRec
           /\ \A e \in On(q) : lo <= e.pos /\ End(e) <= hi
           /\ \A d, e \in On(q) : d # e => Units(d) \cap Units(e) = {}
<1>1. Len(q) \in Nat /\ DOMAIN q = 1..Len(q)
    BY LenProperties DEF Chain
<1>2. \A i \in 1..Len(q) : q[i] \in FreeRec /\ lo <= q[i].pos /\ End(q[i]) <= hi
    BY ElementOfSeq DEF Chain
<1>3. ASSUME NEW i \in 1..Len(q), NEW j \in 1..Len(q), i < j
      PROVE  Units(q[i]) \cap Units(q[j]) = {} /\ q[i].pos < q[j].pos
  <2>1. q[i] \in FreeRec /\ q[j] \in FreeRec /\ End(q[i]) <= q[j].pos
      BY <1>2, <1>3 DEF Chain
  <2>2. /\ q[i].pos \in Nat /\ q[j].pos \in Nat /\ End(q[i]) \in Nat /\ q[i].pos < End(q[i])
        /\ \A u : u \in Units(q[i]) => u \in Int /\ u < End(q[i])
        /\ \A u : u \in Units(q[j]) => u \in Int /\ q[j].pos <= u
      BY <2>1, FreeFields
  <2> QED BY <2>1, <2>2
<1>4. \A i, j \in 1..Len(q) : i < j => q[i].pos < q[j].pos /\ q[i] # q[j]
  <2> SUFFICES ASSUME NEW i \in 1..Len(q), NEW j \in 1..Len(q), i < j
               PROVE  q[i].pos < q[j].pos /\ q[i] # q[j]
      OBVIOUS
  <2>1. q[i].pos < q[j].pos
      BY <1>3
  <2>2. q[i].pos \in Nat /\ q[j].pos \in Nat
      BY <1>2, FreeFields
  <2>3. q[i] # q[j]
    <3> SUFFICES ASSUME q[i] = q[j] PROVE FALSE
        OBVIOUS
    <3>1. q[i].pos = q[j].pos
        OBVIOUS
    <3> QED BY <2>1, <2>2, <3>1
  <2> QED BY <2>1, <2>3
<1>5. \A i, j \in 1..Len(q) : i # j => Units(q[i]) \cap Units(q[j]) = {} /\ q[i] # q[j]
  <2> SUFFICES ASSUME NEW i \in 1..Len(q), NEW j \in 1..Len(q), i # j
               PROVE  Units(q[i]) \cap Units(q[j]) = {} /\ q[i] # q[j]
      OBVIOUS
  <2>1. i < j \/ j < i
      BY <1>1
  <2> QED BY <1>3, <1>4, <2>1
<1>6. /\ On(q) = {q[i] : i \in 1..Len(q)}
      /\ On(q) \subseteq FreeRec
      /\ \A e \in On(q) : lo <= e.pos /\ End(e) <= hi
    BY <1>2 DEF On
<1>7. \A d, e \in On(q) : d # e => Units(d) \cap Units(e) = {}
    BY <1>5, <1>6
<1> QED BY <1>1, <1>2, <1>4, <1>5, <1>6, <1>7

\* e lies between lo and hi, and between the neighbours of space i of the chain.
Between(q, lo, hi, i, e) ==
    /\ i \in 1..Len(q) /\ e \in FreeRec /\ lo <= e.pos /\ End(e) <= hi
    /\ \A j \in 1..Len(q) : j < i => End(q[j]) <= e.pos
    /\ \A j \in 1..Len(q) : i < j => End(e) <= q[j].pos

Put(q, i, e) == [q EXCEPT ![i] = e]

LEMMA ChainReplace ==
    ASSUME NEW q, NEW lo \in Int, NEW hi \in Int, Chain(q, lo, hi),
           NEW i, NEW e, Between(q, lo, hi, i, e)
    PROVE  /\ Chain(Put(q, i, e), lo, hi)
           /\ Len(Put(q, i, e)) = Len(q)
           /\ On(Put(q, i, e)) = (On(q) \ {q[i]}) \cup {e}
<1>0. /\ i \in 1..Len(q) /\ e \in FreeRec /\ lo <= e.pos /\ End(e) <= hi
      /\ \A j \in 1..Len(q) : j < i => End(q[j]) <= e.pos
      /\ \A j \in 1..Len(q) : i < j => End(e) <= q[j].pos
    BY DEF Between
<1> DEFINE n == [q EXCEPT ![i] = e]
<1>1. n \in Seq(FreeRec) /\ Len(n) = Len(q) /\ \A j \in 1..Len(q) : n[j] = IF j = i THEN e ELSE q[j]
    BY <1>0, ExceptSeq DEF Chain
<1> HIDE DEF n
<1>2. Len(q) \in Nat
    BY ChainFacts
<1>3. \A j \in 1..Len(n) : lo <= n[j].pos /\ End(n[j]) <= hi
    BY <1>0, <1>1 DEF Chain
<1>4. \A j, k \in 1..Len(n) : j < k => End(n[j]) <= n[k].pos
    BY <1>0, <1>1, <1>2 DEF Chain
<1>5. On(n) = (On(q) \ {q[i]}) \cup {e}
  <2>1. \A j \in 1..Len(q) : j # i => q[j] # q[i]
      BY <1>0, ChainFacts
  <2>2. On(q) = {q[j] : j \in 1..Len(q)} /\ On(n) = {n[j] : j \in 1..Len(q)}
      BY <1>1 DEF On
  <2>3. \A x \in On(n) : x \in (On(q) \ {q[i]}) \cup {e}
      BY <1>0, <1>1, <2>1, <2>2
  <2>4. \A x \in (On(q) \ {q[i]}) \cup {e} : x \in On(n)
    <3>1. e \in On(n)
        BY <1>0, <1>1, <2>2
    <3>2. ASSUME NEW x \in On(q) \ {q[i]} PROVE x \in On(n)
      <4>1. PICK j \in 1..Len(q) : q[j] = x
          BY <2>2
      <4>2. n[j] = x
          BY <1>0, <1>1, <3>2, <4>1
      <4> QED BY <2>2, <4>1, <4>2
    <3> QED BY <3>1, <3>2
  <2> QED BY <2>3, <2>4
<1> QED BY <1>1, <1>3, <1>4, <1>5 DEF n, Chain, Put

LEMMA ChainRemove ==
    ASSUME NEW q, NEW lo \in Int, NEW hi \in Int, Chain(q, lo, hi), NEW i \in 1..Len(q)
    PROVE  /\ Chain(RemoveAt(q, i), lo, hi)
           /\ Len(RemoveAt(q, i)) = Len(q) - 1
           /\ On(RemoveAt(q, i)) = On(q) \ {q[i]}
<1> DEFINE n == RemoveAt(q, i)
           At(j) == IF j < i THEN j ELSE j + 1
<1>1. /\ n \in Seq(FreeRec) /\ Len(n) = Len(q) - 1
      /\ \A j \in 1..(Len(q) - 1) : n[j] = IF j < i THEN q[j] ELSE q[j + 1]
    BY RemoveAtProperties DEF Chain
<1> HIDE DEF n
<1>2. Len(q) \in Nat
    BY ChainFacts
<1>3. \A j \in 1..Len(n) : At(j) \in 1..Len(q) /\ At(j) # i /\ n[j] = q[At(j)]
    BY <1>1, <1>2
<1>4. \A j, k \in 1..Len(n) : j < k => At(j) < At(k)
    BY <1>1, <1>2
<1>5. \A k \in 1..Len(q) : k # i => \E j \in 1..Len(n) : At(j) = k
  <2> SUFFICES ASSUME NEW k \in 1..Len(q), k # i PROVE \E j \in 1..Len(n) : At(j) = k
      OBVIOUS
  <2>1. CASE k < i
    <3>1. k \in 1..Len(n) /\ At(k) = k
        BY <1>1, <1>2, <2>1
    <3> QED BY <3>1
  <2>2. CASE i < k
    <3>1. k - 1 \in 1..Len(n) /\ At(k - 1) = k
        BY <1>1, <1>2, <2>2
    <3> QED BY <3>1
  <2> QED BY <1>2, <2>1, <2>2
<1> HIDE DEF At
<1>6. \A j \in 1..Len(n) : lo <= n[j].pos /\ End(n[j]) <= hi
    BY <1>3 DEF Chain
<1>7. \A j, k \in 1..Len(n) : j < k => End(n[j]) <= n[k].pos
    BY <1>3, <1>4 DEF Chain
<1>8. On(n) = On(q) \ {q[i]}
  <2>1. \A j \in 1..Len(q) : j # i => q[j] # q[i]
      BY ChainFacts
  <2>2. On(q) = {q[j] : j \in 1..Len(q)} /\ On(n) = {n[j] : j \in 1..Len(n)}
      BY DEF On
  <2>3. \A x \in On(n) : x \in On(q) \ {q[i]}
      BY <1>3, <2>1, <2>2
  <2>4. ASSUME NEW x \in On(q) \ {q[i]} PROVE x \in On(n)
    <3>1. PICK k \in 1..Len(q) : q[k] = x
        BY <2>2
    <3>2. PICK j \in 1..Len(n) : At(j) = k
        BY <1>5, <2>4, <3>1
    <3> QED BY <1>3, <2>2, <3>1, <3>2
  <2> QED BY <2>3, <2>4
<1> QED BY <1>1, <1>6, <1>7, <1>8 DEF n, Chain

LEMMA ChainInsert ==
    ASSUME NEW q, NEW lo \in Int, NEW hi \in Int, Chain(q, lo, hi),
           NEW p \in 0..Len(q), NEW e \in FreeRec, lo <= e.pos, End(e) <= hi,
           \A j \in 1..Len(q) : j <= p => End(q[j]) <= e.pos,
           \A j \in 1..Len(q) : p < j => End(e) <= q[j].pos
    PROVE  /\ Chain(InsertAt(q, p + 1, e), lo, hi)
           /\ Len(InsertAt(q, p + 1, e)) = Len(q) + 1
           /\ On(InsertAt(q, p + 1, e)) = On(q) \cup {e}
<1> DEFINE n == InsertAt(q, p + 1, e)
           At(j) == IF j < p + 1 THEN j ELSE j - 1
<1>2. Len(q) \in Nat /\ q \in Seq(FreeRec)
    BY ChainFacts DEF Chain
<1>1. /\ n \in Seq(FreeRec) /\ Len(n) = Len(q) + 1
      /\ \A j \in 1..(Len(q) + 1) :
            n[j] = IF j < p + 1 THEN q[j] ELSE IF j = p + 1 THEN e ELSE q[j - 1]
  <2>1. p + 1 \in 1..(Len(q) + 1)
      BY <1>2
  <2>2. PICK i \in 1..(Len(q) + 1) : i = p + 1
      BY <2>1
  <2>3. /\ InsertAt(q, i, e) \in Seq(FreeRec) /\ Len(InsertAt(q, i, e)) = Len(q) + 1
        /\ \A j \in 1..(Len(q) + 1) :
              InsertAt(q, i, e)[j] = IF j < i THEN q[j] ELSE IF j = i THEN e ELSE q[j - 1]
    <3>1. /\ i \in 1..(Len(q) + 1) /\ e \in FreeRec /\ q \in Seq(FreeRec)
        BY <1>2, <2>2
    <3> HIDE <2>2
    <3> QED BY <3>1, InsertAtProperties
  <2> QED BY <2>2, <2>3
<1> HIDE DEF n
<1>3. \A j \in 1..Len(n) : j # p + 1 =>
         /\ At(j) \in 1..Len(q) /\ n[j] = q[At(j)]
         /\ j < p + 1 => At(j) <= p
         /\ p + 1 < j => p < At(j)
    BY <1>1, <1>2
<1>4. p + 1 \in 1..Len(n) /\ n[p + 1] = e
    BY <1>1, <1>2
<1>5. \A j, k \in 1..Len(n) : j < k /\ j # p + 1 /\ k # p + 1 => At(j) < At(k)
    BY <1>1, <1>2
<1>6. \A k \in 1..Len(q) : \E j \in 1..Len(n) : j # p + 1 /\ At(j) = k
  <2> SUFFICES ASSUME NEW k \in 1..Len(q) PROVE \E j \in 1..Len(n) : j # p + 1 /\ At(j) = k
      OBVIOUS
  <2>1. CASE k <= p
    <3>1. k \in 1..Len(n) /\ k # p + 1 /\ At(k) = k
        BY <1>1, <1>2, <2>1
    <3> QED BY <3>1
  <2>2. CASE p < k
    <3>1. k + 1 \in 1..Len(n) /\ k + 1 # p + 1 /\ At(k + 1) = k
        BY <1>1, <1>2, <2>2
    <3> QED BY <3>1
  <2> QED BY <1>2, <2>1, <2>2
<1> HIDE DEF At
<1>7. \A j \in 1..Len(n) : lo <= n[j].pos /\ End(n[j]) <= hi
    BY <1>3, <1>4 DEF Chain
<1>8. ASSUME NEW j \in 1..Len(n), NEW k \in 1..Len(n), j < k PROVE End(n[j]) <= n[k].pos
  <2>1. CASE j # p + 1 /\ k # p + 1
      BY <1>3, <1>5, <1>8, <2>1 DEF Chain
  <2>2. CASE j = p + 1
      BY <1>2, <1>3, <1>4, <1>8, <2>2
  <2>3. CASE k = p + 1
      BY <1>2, <1>3, <1>4, <1>8, <2>3
  <2> QED BY <2>1, <2>2, <2>3
<1>9. On(n) = On(q) \cup {e}
  <2>2. On(q) = {q[j] : j \in 1..Len(q)} /\ On(n) = {n[j] : j \in 1..Len(n)}
      BY DEF On
  <2>3. \A x \in On(n) : x \in On(q) \cup {e}
      BY <1>3, <1>4, <2>2
  <2>4. ASSUME NEW x \in On(q) \cup {e} PROVE x \in On(n)
    <3>1. CASE x = e
        BY <1>4, <2>2, <3>1
    <3>2. CASE x \in On(q)
      <4>1. PICK k \in 1..Len(q) : q[k] = x
          BY <2>2, <3>2
      <4>2. PICK j \in 1..Len(n) : j # p + 1 /\ At(j) = k
          BY <1>6, <4>1
      <4> QED BY <1>3, <2>2, <4>1, <4>2
    <3> QED BY <2>4, <3>1, <3>2
  <2> QED BY <2>3, <2>4
<1> QED BY <1>1, <1>7, <1>8, <1>9 DEF n, Chain

\* The last space, and all before it.
LEMMA ChainFront ==
    ASSUME NEW q, NEW lo \in Int, NEW hi \in Int, Chain(q, lo, hi), Len(q) > 0
    PROVE  /\ Chain(Front(q), lo, q[Len(q)].pos)
           /\ Len(Front(q)) = Len(q) - 1
           /\ On(Front(q)) = On(q) \ {q[Len(q)]}
           /\ q[Len(q)] \in On(q)
<1> DEFINE n == Front(q)
           L == Len(q)
<1>1. n \in Seq(FreeRec) /\ Len(n) = L - 1 /\ \A j \in 1..(L - 1) : n[j] = q[j]
    BY FrontProperties DEF Chain
<1>2. L \in Nat /\ L \in 1..Len(q)
    BY ChainFacts
<1> HIDE DEF n, L
<1>3. \A j \in 1..Len(n) : j \in 1..Len(q) /\ j # L /\ j < L /\ n[j] = q[j]
    BY <1>1, <1>2 DEF L
<1>4. \A j \in 1..Len(n) : lo <= n[j].pos /\ End(n[j]) <= q[L].pos
    BY <1>2, <1>3 DEF Chain
<1>5. \A j, k \in 1..Len(n) : j < k => End(n[j]) <= n[k].pos
    BY <1>3 DEF Chain
<1>6. On(n) = On(q) \ {q[L]}
  <2>1. \A j \in 1..Len(q) : j # L => q[j] # q[L]
      BY <1>2, ChainFacts
  <2>2. On(q) = {q[j] : j \in 1..Len(q)} /\ On(n) = {n[j] : j \in 1..Len(n)}
      BY DEF On
  <2>3. \A x \in On(n) : x \in On(q) \ {q[L]}
      BY <1>3, <2>1, <2>2
  <2>4. ASSUME NEW x \in On(q) \ {q[L]} PROVE x \in On(n)
    <3>1. PICK k \in 1..Len(q) : q[k] = x
        BY <2>2
    <3>2. k \in 1..Len(n)
        BY <1>1, <1>2, <2>4, <3>1 DEF L
    <3> QED BY <1>3, <2>2, <3>1, <3>2
  <2> QED BY <2>3, <2>4
<1>7. q[L] \in On(q)
    BY <1>2 DEF On
<1> QED BY <1>1, <1>4, <1>5, <1>6, <1>7 DEF n, L, Chain

LEMMA ChainAppend ==
    ASSUME NEW q, NEW lo \in Int, NEW e \in FreeRec, lo <= e.pos, Chain(q, lo, e.pos)
    PROVE  /\ Chain(Append(q, e), lo, End(e))
           /\ Len(Append(q, e)) = Len(q) + 1
           /\ On(Append(q, e)) = On(q) \cup {e}
<1> DEFINE n == Append(q, e)
<1>0. q \in Seq(FreeRec) /\ Len(q) \in Nat
    BY LenProperties DEF Chain
<1>1. /\ n \in Seq(FreeRec) /\ Len(n) = Len(q) + 1
      /\ \A j \in 1..Len(q) : n[j] = q[j]
      /\ n[Len(q) + 1] = e
    BY <1>0, AppendProperties
<1>2. On(n) = On(q) \cup {e}
    BY <1>0, OnAppend
<1> HIDE DEF n
<1>3. e.pos \in Nat /\ End(e) \in Nat /\ e.pos < End(e)
    BY FreeFields
<1>4. \A j \in 1..Len(q) : q[j] \in FreeRec /\ End(q[j]) \in Nat /\ lo <= q[j].pos /\ End(q[j]) <= e.pos
    BY <1>0, ElementOfSeq, FreeFields DEF Chain
<1>5. ASSUME NEW j \in 1..Len(n) PROVE lo <= n[j].pos /\ End(n[j]) <= End(e)
  <2>1. CASE j = Len(q) + 1
      BY <1>1, <1>3, <2>1
  <2>2. CASE j \in 1..Len(q)
      BY <1>1, <1>3, <1>4, <2>2
  <2> QED BY <1>0, <1>1, <2>1, <2>2
<1>6. ASSUME NEW j \in 1..Len(n), NEW k \in 1..Len(n), j < k PROVE End(n[j]) <= n[k].pos
  <2>1. j \in 1..Len(q) /\ (k = Len(q) + 1 \/ k \in 1..Len(q))
      BY <1>0, <1>1, <1>6
  <2>2. CASE k = Len(q) + 1
      BY <1>1, <1>4, <2>1, <2>2
  <2>3. CASE k \in 1..Len(q)
      BY <1>1, <1>6, <2>1, <2>3 DEF Chain
  <2> QED BY <2>1, <2>2, <2>3
<1> QED BY <1>1, <1>2, <1>5, <1>6 DEF n, Chain

LEMMA UnitsWithout ==
    ASSUME NEW q, NEW lo \in Int, NEW hi \in Int, Chain(q, lo, hi), NEW d \in On(q)
    PROVE  /\ UNION {Units(e) : e \in On(q) \ {d}} = FreeUnits(q) \ Units(d)
           /\ Units(d) \subseteq FreeUnits(q)
<1>1. \A e \in On(q) : e # d => Units(d) \cap Units(e) = {}
    BY ChainFacts
<1> QED BY <1>1 DEF FreeUnits

LEMMA UnitsWithin ==
    ASSUME NEW q, NEW lo \in Int, NEW hi \in Int, Chain(q, lo, hi)
    PROVE  FreeUnits(q) \subseteq lo..(hi - 1)
<1>1. \A e \in On(q) : e \in FreeRec /\ lo <= e.pos /\ End(e) <= hi
    BY ChainFacts
<1>2. ASSUME NEW e \in On(q), NEW u \in Units(e) PROVE u \in lo..(hi - 1)
  <2>1. e \in FreeRec /\ lo <= e.pos /\ End(e) <= hi
      BY <1>1
  <2>2. e.pos \in Nat /\ End(e) \in Nat /\ u \in Int /\ e.pos <= u /\ u < End(e)
      BY <2>1, FreeFields
  <2> QED BY <2>1, <2>2
<1> QED BY <1>2 DEF FreeUnits

-----------------------------------------------------------------------------
(* free_largest *)

LEMMA MaxNatural ==
    ASSUME NEW S, S \subseteq Nat, S # {}, NEW b \in Nat, \A x \in S : x <= b
    PROVE  Max(S) \in S /\ \A x \in S : x <= Max(S)
<1> DEFINE D == {b - x : x \in S}
<1>1. D \subseteq Nat /\ D # {}
  <2>1. \A x \in S : b - x \in Nat
      OBVIOUS
  <2> QED BY <2>1
<1>2. PICK m \in D : \A n \in D : m <= n
  <2> HIDE DEF D
  <2> QED BY <1>1, LeastNatural
<1>3. PICK y \in S : m = b - y
    BY <1>2
<1>4. \A x \in S : y >= x
  <2> SUFFICES ASSUME NEW x \in S PROVE y >= x
      OBVIOUS
  <2>1. b - y <= b - x
      BY <1>2, <1>3
  <2>2. x \in Nat /\ y \in Nat
      BY <1>3
  <2> QED BY <2>1, <2>2
<1> DEFINE M == Max(S)
<1>5. M \in S /\ \A x \in S : M >= x
    BY <1>4 DEF Max
<1> HIDE DEF M
<1>6. \A x \in S : x <= M
    BY <1>5
<1> QED BY <1>5, <1>6 DEF M

Available(q) == {e \in On(q) : e.pending = 0}

IsLargest(m, q) ==
    /\ m \in Nat
    /\ \A e \in Available(q) : e.len <= m
    /\ m = 0 \/ \E e \in Available(q) : e.len = m

LEMMA LargestIs ==
    ASSUME NEW q, NEW lo \in Int, NEW hi \in Nat, Chain(q, lo, hi)
    PROVE  IsLargest(Largest(q), q)
<1> DEFINE lens == {q[i].len : i \in {j \in DOMAIN q : q[j].pending = 0}}
           S == lens \cup {0}
<1>1. \A e \in Available(q) : e \in FreeRec /\ e.len \in Nat /\ e.len <= hi
  <2> SUFFICES ASSUME NEW e \in Available(q) PROVE e \in FreeRec /\ e.len \in Nat /\ e.len <= hi
      OBVIOUS
  <2>1. e \in FreeRec /\ End(e) <= hi
      BY ChainFacts DEF Available
  <2>2. e.pos \in Nat /\ e.len \in Nat
      BY <2>1, FreeFields
  <2> QED BY <2>1, <2>2 DEF End
<1>2. lens = {e.len : e \in Available(q)}
  <2>1. DOMAIN q = 1..Len(q) /\ On(q) = {q[i] : i \in 1..Len(q)}
      BY ChainFacts
  <2> QED BY <2>1 DEF Available
<1> HIDE DEF lens
<1>3. S \subseteq Nat /\ S # {} /\ \A x \in S : x <= hi
    BY <1>1, <1>2
<1>4. Max(S) \in S /\ \A x \in S : x <= Max(S)
  <2> HIDE DEF S
  <2> QED BY <1>3, MaxNatural
<1>5. Largest(q) = Max(S)
    BY DEF Largest, lens
<1> DEFINE m == Max(S)
<1> HIDE DEF m
<1>6. m \in S /\ \A x \in S : x <= m
    BY <1>4 DEF m
<1>7. IsLargest(m, q)
    BY <1>2, <1>3, <1>6 DEF IsLargest
<1> QED BY <1>5, <1>7 DEF m

LEMMA LargestOnly ==
    ASSUME NEW q, NEW lo \in Int, NEW hi \in Nat, Chain(q, lo, hi), NEW m, IsLargest(m, q)
    PROVE  Largest(q) = m
<1> DEFINE n == Largest(q)
<1>1. IsLargest(n, q)
    BY LargestIs
<1> HIDE DEF n
<1>2. \A e \in Available(q) : e \in FreeRec
    BY ChainFacts DEF Available
<1>3. \A e \in Available(q) : e.len \in Nat /\ e.len # 0
    BY <1>2, FreeFields
<1>4. n \in Nat /\ m \in Nat
    BY <1>1 DEF IsLargest
<1>5. n <= m
    BY <1>1, <1>4 DEF IsLargest
<1>6. m <= n
    BY <1>1, <1>4 DEF IsLargest
<1> QED BY <1>4, <1>5, <1>6 DEF n

-----------------------------------------------------------------------------
(* cckd_flush_space: the chain *)

\* What e becomes when it is counted down.
Aged(e) == [e EXCEPT !.pending = IF @ > 0 THEN @ - 1 ELSE 0]

LEMMA AgedFields ==
    ASSUME NEW e \in FreeRec
    PROVE  /\ Aged(e) \in FreeRec /\ Aged(e).pos = e.pos /\ Aged(e).len = e.len
           /\ Aged(e).pending \in 0..4 /\ Aged(e).pending + 1 >= e.pending
           /\ Units(Aged(e)) = Units(e) /\ End(Aged(e)) = End(e)
<1>1. e.pos \in Nat /\ e.len \in Nat \ {0} /\ e.pending \in 0..4
    BY DEF FreeRec
<1>2. PICK n \in 0..4 : n = (IF e.pending > 0 THEN e.pending - 1 ELSE 0) /\ n + 1 >= e.pending
    BY <1>1
<1>3. Aged(e) = [e EXCEPT !.pending = n]
    BY <1>2 DEF Aged
<1>4. /\ [e EXCEPT !.pending = n] \in FreeRec
      /\ [e EXCEPT !.pending = n].pos = e.pos
      /\ [e EXCEPT !.pending = n].len = e.len
      /\ [e EXCEPT !.pending = n].pending = n
    BY <1>2 DEF FreeRec
<1> QED BY <1>1, <1>2, <1>3, <1>4 DEF Units, End

\* A free space that grows at its end.
LEMMA GrownFields ==
    ASSUME NEW d \in FreeRec, NEW n \in Nat
    PROVE  /\ [d EXCEPT !.len = @ + n] \in FreeRec
           /\ [d EXCEPT !.len = @ + n].pos = d.pos
           /\ [d EXCEPT !.len = @ + n].len = d.len + n
           /\ [d EXCEPT !.len = @ + n].pending = d.pending
           /\ End([d EXCEPT !.len = @ + n]) = End(d) + n
           /\ Units([d EXCEPT !.len = @ + n]) = Units(d) \cup (End(d)..(End(d) + n - 1))
<1>1. d.pos \in Nat /\ d.len \in Nat \ {0} /\ d.pending \in 0..4
    BY DEF FreeRec
<1>2. d.len + n \in Nat \ {0}
    BY <1>1
<1> DEFINE g == [d EXCEPT !.len = @ + n]
<1>3. g \in FreeRec /\ g.pos = d.pos /\ g.len = d.len + n /\ g.pending = d.pending
    BY <1>2 DEF FreeRec
<1> HIDE DEF g
<1>4. End(g) = End(d) + n
    BY <1>1, <1>3 DEF End
<1>5. Units(g) = Units(d) \cup (End(d)..(End(d) + n - 1))
    BY <1>1, <1>3 DEF End, Units
<1> QED BY <1>3, <1>4, <1>5 DEF g

\* One step: the chain gets the units of the space, and no count goes down by
\* more than one.
LEMMA FlushOneStep ==
    ASSUME NEW c, NEW e \in FreeRec, NEW lo \in Int, lo <= e.pos, Chain(c, lo, e.pos)
    PROVE  LET n == FlushOne(c, e) IN
           /\ Chain(n, lo, End(e))
           /\ FreeUnits(n) = FreeUnits(c) \cup Units(e)
           /\ \A d \in On(c) : \E m \in On(n) : Units(d) \subseteq Units(m) /\ m.pending = d.pending
           /\ \E m \in On(n) : Units(e) \subseteq Units(m) /\ m.pending + 1 >= e.pending
<1> DEFINE n == FlushOne(c, e)
           L == Len(c)
           joins == /\ L > 0
                    /\ c[L].pos + c[L].len = e.pos
                    /\ e.pending \in c[L].pending..(c[L].pending + 1)
<1>0. /\ e.pos \in Nat /\ e.len \in Nat \ {0} /\ e.pending \in 0..4 /\ End(e) \in Nat /\ e.pos < End(e)
      /\ L \in Nat /\ On(c) \subseteq FreeRec
    BY ChainFacts, FreeFields
<1>1. CASE joins
  <2> DEFINE d == c[L]
             g == [d EXCEPT !.len = @ + e.len]
  <2>1. L \in 1..Len(c) /\ d \in FreeRec /\ d \in On(c) /\ End(d) = e.pos
      BY <1>0, <1>1, ChainFacts DEF End
  <2>2. n = Put(c, L, g)
      BY <1>1 DEF FlushOne, Put
  <2> HIDE DEF n, L, joins
  <2>3. /\ d.pos \in Nat /\ d.len \in Nat /\ d.pending \in 0..4 /\ d.pos < End(d)
        /\ e.pending <= d.pending + 1
      BY <1>1, <2>1, FreeFields DEF joins
  <2>4. /\ g \in FreeRec /\ g.pos = d.pos /\ g.pending = d.pending
        /\ End(g) = End(e) /\ Units(g) = Units(d) \cup Units(e)
    <3>1. e.pos + e.len = End(e)
        BY DEF End
    <3> HIDE DEF d
    <3>2. e.len \in Nat
        BY <1>0
    <3> QED BY <2>1, <3>1, <3>2, GrownFields DEF Units
  <2> HIDE DEF g
  <2>5. Chain(c, lo, End(e))
    <3>1. \A i \in 1..Len(c) : End(c[i]) <= End(e)
      <4> TAKE i \in 1..Len(c)
      <4>1. c[i] \in FreeRec /\ End(c[i]) <= e.pos
          BY <1>0, ChainFacts
      <4>2. End(c[i]) \in Nat
          BY <4>1, FreeFields
      <4> QED BY <1>0, <4>1, <4>2
    <3> QED BY <3>1 DEF Chain
  <2>6. /\ Chain(Put(c, L, g), lo, End(e))
        /\ On(Put(c, L, g)) = (On(c) \ {d}) \cup {g}
    <3>1. \A j \in 1..Len(c) : j < L => End(c[j]) <= g.pos
        BY <2>1, <2>4 DEF Chain
    <3>2. \A j \in 1..Len(c) : ~(L < j)
        BY <1>0 DEF L
    <3>3. lo <= g.pos /\ End(g) <= End(e)
        BY <1>0, <2>1, <2>4 DEF Chain
    <3>5. PICK h \in Int : h = End(e)
        BY <1>0
    <3>6. Between(c, lo, h, L, g)
        BY <2>1, <2>4, <3>1, <3>2, <3>3, <3>5 DEF Between
    <3>7. Chain(c, lo, h) /\ h \in Int
        BY <2>5, <3>5
    <3>8. /\ Chain(Put(c, L, g), lo, h)
          /\ On(Put(c, L, g)) = (On(c) \ {c[L]}) \cup {g}
        BY <3>6, <3>7, ChainReplace
    <3> QED BY <3>5, <3>8 DEF d
  <2>7. UNION {Units(x) : x \in On(c) \ {d}} = FreeUnits(c) \ Units(d) /\ Units(d) \subseteq FreeUnits(c)
      BY <1>0, <2>1, UnitsWithout
  <2>8. FreeUnits(n) = (FreeUnits(c) \ Units(d)) \cup Units(g)
      BY <2>2, <2>6, <2>7 DEF FreeUnits
  <2>9. FreeUnits(n) = FreeUnits(c) \cup Units(e)
      BY <2>4, <2>7, <2>8
  <2>10. On(n) = (On(c) \ {d}) \cup {g}
      BY <2>2, <2>6
  <2>11. \A x \in On(c) : \E m \in On(n) : Units(x) \subseteq Units(m) /\ m.pending = x.pending
    <3> TAKE x \in On(c)
    <3>1. CASE x = d
        BY <2>4, <2>10, <3>1
    <3>2. CASE x # d
        BY <2>10, <3>2
    <3> QED BY <3>1, <3>2
  <2>12. g \in On(n) /\ Units(e) \subseteq Units(g) /\ g.pending + 1 >= e.pending
      BY <1>0, <2>3, <2>4, <2>10
  <2> QED BY <2>2, <2>6, <2>9, <2>11, <2>12 DEF n
<1>2. CASE ~joins
  <2> DEFINE a == Aged(e)
  <2>1. n = Append(c, a)
      BY <1>2 DEF FlushOne, Aged
  <2> HIDE DEF n, L, joins, a
  <2>2. /\ a \in FreeRec /\ a.pos = e.pos /\ End(a) = End(e) /\ Units(a) = Units(e)
        /\ a.pending + 1 >= e.pending
      BY AgedFields DEF a
  <2>3. Chain(Append(c, a), lo, End(a)) /\ On(Append(c, a)) = On(c) \cup {a}
      BY <2>2, ChainAppend
  <2>4. FreeUnits(n) = FreeUnits(c) \cup Units(e)
      BY <2>1, <2>2, <2>3 DEF FreeUnits
  <2>5. \A d \in On(c) : \E m \in On(n) : Units(d) \subseteq Units(m) /\ m.pending = d.pending
      BY <2>1, <2>3
  <2>6. a \in On(n) /\ Units(e) \subseteq Units(a) /\ a.pending + 1 >= e.pending
      BY <2>1, <2>2, <2>3
  <2> QED BY <2>1, <2>2, <2>3, <2>4, <2>5, <2>6 DEF n
<1> QED BY <1>1, <1>2


LEMMA ChainWiden ==
    ASSUME NEW q, NEW lo \in Int, NEW a \in Int, NEW b \in Int, Chain(q, lo, a), a <= b
    PROVE  Chain(q, lo, b)
<1>1. \A i \in 1..Len(q) : q[i] \in FreeRec /\ End(q[i]) <= a
    BY ChainFacts
<1>2. \A i \in 1..Len(q) : End(q[i]) <= b
  <2> TAKE i \in 1..Len(q)
  <2>1. q[i] \in FreeRec /\ End(q[i]) <= a
      BY <1>1
  <2>2. End(q[i]) \in Nat
      BY <2>1, FreeFields
  <2> QED BY <2>1, <2>2
<1> QED BY <1>2 DEF Chain

LEMMA FlushOneIn ==
    ASSUME NEW c \in Seq(FreeRec), NEW e \in FreeRec
    PROVE  FlushOne(c, e) \in Seq(FreeRec)
<1> DEFINE L == Len(c)
           joins == /\ L > 0
                    /\ c[L].pos + c[L].len = e.pos
                    /\ e.pending \in c[L].pending..(c[L].pending + 1)
<1>0. e.len \in Nat
    BY FreeFields
<1>1. CASE joins
  <2> DEFINE d == c[L]
             g == [d EXCEPT !.len = @ + e.len]
  <2>1. L \in 1..Len(c)
      BY <1>1, LenProperties
  <2>2. d \in FreeRec
      BY <2>1, ElementOfSeq
  <2>3. FlushOne(c, e) = [c EXCEPT ![L] = g]
      BY <1>1 DEF FlushOne
  <2>4. g \in FreeRec
    <3> HIDE DEF d
    <3> QED BY <1>0, <2>2, GrownFields
  <2> HIDE DEF g, L
  <2> QED BY <2>1, <2>3, <2>4, ExceptSeq
<1>2. CASE ~joins
  <2>1. FlushOne(c, e) = Append(c, Aged(e))
      BY <1>2 DEF FlushOne, Aged
  <2>2. Aged(e) \in FreeRec
      BY AgedFields
  <2> QED BY <2>1, <2>2, AppendProperties
<1> QED BY <1>1, <1>2

\* flushed[n] is the chain after its first n spaces.
LEMMA FlushChainDefined ==
    ASSUME NEW q \in Seq(FreeRec)
    PROVE  \E h : /\ h[0] = <<>> /\ \A n \in 1..Len(q) : h[n] = FlushOne(h[n - 1], q[n])
                  /\ FlushChain(q) = h[Len(q)]
<1> DEFINE L == Len(q)
           F == [n \in 1..L |-> [v \in Seq(FreeRec) |-> FlushOne(v, q[n])]]
<1>1. L \in Nat /\ \A n \in 1..L : q[n] \in FreeRec
    BY LenProperties, ElementOfSeq
<1>2. F \in [1..L -> [Seq(FreeRec) -> Seq(FreeRec)]]
  <2>1. \A n \in 1..L, v \in Seq(FreeRec) : FlushOne(v, q[n]) \in Seq(FreeRec)
      BY <1>1, FlushOneIn
  <2> QED BY <2>1
<1>3. PICK f \in [0..L -> Seq(FreeRec)] : f[0] = <<>> /\ \A n \in 1..L : f[n] = F[n][f[n - 1]]
  <2>1. <<>> \in Seq(FreeRec)
      OBVIOUS
  <2> HIDE DEF F, L
  <2>2. \E f \in [0..L -> Seq(FreeRec)] : Unfolds(f, L, <<>>, F)
      BY <1>1, <1>2, <2>1, RecursionTo
  <2> QED BY <2>2 DEF Unfolds
<1>4. \A n \in 1..L : f[n] = FlushOne(f[n - 1], q[n])
  <2> TAKE n \in 1..L
  <2>1. f[n - 1] \in Seq(FreeRec)
      BY <1>1
  <2> QED BY <1>3, <2>1
<1> DEFINE Def(g) == [n \in 0..L |-> IF n = 0 THEN <<>> ELSE FlushOne(g[n - 1], q[n])]
           h == CHOOSE g : g = Def(g)
<1>5. f = Def(f)
  <2>1. \A n \in 0..L : n # 0 => n \in 1..L
      BY <1>1
  <2>2. ASSUME NEW n \in 0..L PROVE f[n] = IF n = 0 THEN <<>> ELSE FlushOne(f[n - 1], q[n])
      BY <1>3, <1>4, <2>1
  <2> QED BY <2>2
<1>6. h = Def(h)
  <2> HIDE DEF Def
  <2> QED BY <1>5
<1> HIDE DEF h
<1>7. h[0] = <<>> /\ \A n \in 1..L : h[n] = FlushOne(h[n - 1], q[n])
  <2>1. 0 \in 0..L /\ \A n \in 1..L : n \in 0..L /\ n # 0
      BY <1>1
  <2>2. \A n \in 0..L : h[n] = IF n = 0 THEN <<>> ELSE FlushOne(h[n - 1], q[n])
      BY <1>6
  <2> QED BY <2>1, <2>2
<1>8. FlushChain(q) = h[L]
    BY DEF FlushChain, h
<1> QED BY <1>7, <1>8

\* The flushed chain has the same units, and what was pending n times is pending
\* n - 1 times at least.
Flushes(q, n) ==
    /\ FreeUnits(n) = FreeUnits(q)
    /\ \A d \in On(q) : \E m \in On(n) : Units(d) \subseteq Units(m) /\ m.pending + 1 >= d.pending

LEMMA FlushChainFlushes ==
    ASSUME NEW q, NEW lo \in Int, NEW hi \in Int, lo <= hi, Chain(q, lo, hi)
    PROVE  Chain(FlushChain(q), lo, hi) /\ Flushes(q, FlushChain(q))
<1> DEFINE L == Len(q)
           Upto(n) == UNION {Units(q[i]) : i \in 1..n}
           Hi(n) == IF n = 0 THEN lo ELSE End(q[n])
<1>1. /\ q \in Seq(FreeRec) /\ L \in Nat /\ On(q) = {q[i] : i \in 1..L}
      /\ \A i \in 1..L : q[i] \in FreeRec /\ lo <= q[i].pos /\ End(q[i]) <= hi
    BY ChainFacts DEF Chain
<1>2. \A i \in 1..L : q[i].pos \in Nat /\ q[i].pending \in 0..4 /\ End(q[i]) \in Nat
    BY <1>1, FreeFields
<1>3. PICK h : /\ h[0] = <<>> /\ \A n \in 1..L : h[n] = FlushOne(h[n - 1], q[n])
               /\ FlushChain(q) = h[L]
    BY <1>1, FlushChainDefined
<1> DEFINE Good(n) ==
             /\ Chain(h[n], lo, Hi(n))
             /\ FreeUnits(h[n]) = Upto(n)
             /\ \A i \in 1..n : \E m \in On(h[n]) : Units(q[i]) \subseteq Units(m) /\ m.pending + 1 >= q[i].pending
<1>4. Good(0)
  <2>1. h[0] = <<>> /\ On(<<>>) = {} /\ Len(<<>>) = 0 /\ <<>> \in Seq(FreeRec)
      BY <1>3 DEF On
  <2>2. Chain(<<>>, lo, lo)
      BY <2>1 DEF Chain
  <2> QED BY <2>1, <2>2 DEF FreeUnits
<1>5. ASSUME NEW n \in 1..L, Good(n - 1) PROVE Good(n)
  <2> DEFINE c == h[n - 1]
             e == q[n]
             N == FlushOne(c, e)
  <2>0. n \in Nat /\ n - 1 \in Nat /\ n # 0 /\ Hi(n) = End(e) /\ h[n] = N
      BY <1>1, <1>3
  <2>1. e \in FreeRec /\ lo <= e.pos /\ e.pos \in Nat /\ e.pending \in 0..4
      BY <1>1, <1>2
  <2>2. Hi(n - 1) \in Int /\ Hi(n - 1) <= e.pos
    <3>1. CASE n = 1
        BY <2>1, <3>1
    <3>2. CASE n # 1
      <4>1. n - 1 \in 1..L /\ n - 1 < n /\ n - 1 # 0
          BY <1>1, <3>2
      <4>2. End(q[n - 1]) <= q[n].pos
          BY <4>1 DEF Chain
      <4> QED BY <1>2, <4>1, <4>2
    <3> QED BY <3>1, <3>2
  <2>3. Chain(c, lo, e.pos)
    <3>1. Chain(c, lo, Hi(n - 1))
        BY <1>5
    <3> HIDE DEF Hi, c, e
    <3> QED BY <2>1, <2>2, <3>1, ChainWiden
  <2>4. /\ Chain(N, lo, End(e))
        /\ FreeUnits(N) = FreeUnits(c) \cup Units(e)
        /\ \A d \in On(c) : \E m \in On(N) : Units(d) \subseteq Units(m) /\ m.pending = d.pending
        /\ \E m \in On(N) : Units(e) \subseteq Units(m) /\ m.pending + 1 >= e.pending
    <3> HIDE DEF c, e
    <3> QED BY <2>1, <2>3, FlushOneStep
  <2>5. Upto(n) = Upto(n - 1) \cup Units(e)
    <3>1. 1..n = (1..(n - 1)) \cup {n}
        BY <2>0
    <3> QED BY <3>1
  <2>6. \A i \in 1..n : \E m \in On(N) : Units(q[i]) \subseteq Units(m) /\ m.pending + 1 >= q[i].pending
    <3> TAKE i \in 1..n
    <3>1. CASE i = n
        BY <2>4, <3>1
    <3>2. CASE i # n
      <4>1. i \in 1..(n - 1)
          BY <3>2, <2>0
      <4>2. PICK d \in On(c) : Units(q[i]) \subseteq Units(d) /\ d.pending + 1 >= q[i].pending
          BY <1>5, <4>1
      <4>3. PICK m \in On(N) : Units(d) \subseteq Units(m) /\ m.pending = d.pending
          BY <2>4
      <4> QED BY <4>2, <4>3
    <3> QED BY <3>1, <3>2
  <2> HIDE DEF N, c, e, Hi, Upto
  <2> QED BY <1>5, <2>0, <2>4, <2>5, <2>6 DEF c, e
<1> HIDE DEF Good
<1>6. Good(L)
  <2> DEFINE S == {n \in 0..L : Good(n)}
  <2>1. 0 \in S
      BY <1>1, <1>4
  <2>2. ASSUME NEW n \in 1..L, n - 1 \in S PROVE n \in S
      BY <1>1, <1>5, <2>2
  <2>3. \A n \in 0..L : n \in S
    <3> HIDE DEF S, L
    <3> QED BY <1>1, <2>1, <2>2, InductionTo
  <2> QED BY <1>1, <2>3
<1> DEFINE N == h[L]
<1>7. /\ Chain(N, lo, Hi(L)) /\ FreeUnits(N) = Upto(L)
      /\ \A i \in 1..L : \E m \in On(N) : Units(q[i]) \subseteq Units(m) /\ m.pending + 1 >= q[i].pending
    BY <1>6 DEF Good
<1>8. Hi(L) \in Int /\ Hi(L) <= hi
  <2>1. CASE L = 0
      BY <2>1
  <2>2. CASE L # 0
    <3>1. L \in 1..L
        BY <1>1, <2>2
    <3> HIDE DEF L
    <3> QED BY <1>1, <1>2, <2>2, <3>1
  <2> QED BY <2>1, <2>2
<1> HIDE DEF Hi, N
<1>9. Chain(N, lo, hi)
    BY <1>7, <1>8, ChainWiden
<1>10. Upto(L) = FreeUnits(q)
    BY <1>1 DEF FreeUnits
<1>11. \A d \in On(q) : \E m \in On(N) : Units(d) \subseteq Units(m) /\ m.pending + 1 >= d.pending
    BY <1>1, <1>7
<1> HIDE DEF Upto
<1>12. Flushes(q, N)
    BY <1>7, <1>10, <1>11 DEF Flushes
<1>13. FlushChain(q) = N
    BY <1>3 DEF N
<1> QED BY <1>9, <1>12, <1>13

-----------------------------------------------------------------------------
(* Files *)

SpaceRec == [pos : Nat, len : Nat, size : Nat]

FileType == [size : Nat, used : Int, number : Nat, total : Int, largest : Nat,
             imbed : Int, free : Seq(FreeRec), bounds : Int,
             l1 : [Table -> Nat], l2 : [Track -> SpaceRec]]

\* The header and the chain agree.
Counted(f) ==
    /\ f \in FileType
    /\ First <= f.size
    /\ Chain(f.free, First, f.size)
    /\ f.number = Len(f.free)
    /\ f.largest = Largest(f.free)
    /\ f.used + f.total = f.size
    /\ f.total - f.imbed = Cardinality(FreeUnits(f.free))

Owned(f) == UNION {Units(SpaceOf(f, o)) : o \in Owner}

\* An owner has nothing or something within the file, and no two have the same.
IsPlaced(e, size) == \/ e.pos = 0 /\ e.len = 0
                     \/ First <= e.pos /\ e.len > 0 /\ e.pos + e.len <= size

Placed(f) ==
    /\ \A o \in Owner : IsPlaced(SpaceOf(f, o), f.size)
    /\ \A o, p \in Owner : o # p => Units(SpaceOf(f, o)) \cap Units(SpaceOf(f, p)) = {}
    /\ \A t \in Track : f.l2[t].len <= f.l2[t].size

\* Between the steps of an operation the units U are in hand: taken and not given
\* to an owner yet, or taken from one and not released yet.
Apart(f, U) ==
    /\ U \subseteq First..(f.size - 1)
    /\ U \cap FreeUnits(f.free) = {} /\ U \cap Owned(f) = {}
    /\ FreeUnits(f.free) \cap Owned(f) = {}

Good(f, U) == Counted(f) /\ Placed(f) /\ Apart(f, U)

\* No unit is lost.
Full(f, U) == First..(f.size - 1) \subseteq U \cup FreeUnits(f.free) \cup Owned(f)

\* The imbedded free space is k more than what the images leave of their spaces.
Imbedded(f) == UNION {Units(Rest(f.l2[t])) : t \in Track}
Imbed(f, k) == f.imbed = Cardinality(Imbedded(f)) + k

\* Unit u is free, and will be flushed n times at least before it is available.
Held(f, u, n) == \E d \in On(f.free) : u \in Units(d) /\ d.pending >= n

\* The units of gone were released and wait in the chain; after a write that found
\* no space (bad), at least no track and no table has them.
Consistent(f, gone, bad) ==
    /\ Good(f, {})
    /\ bad \in BOOLEAN
    /\ gone \subseteq Int \X (0..(Pend - 1))
    /\ IF bad THEN \A r \in gone : r[1] \notin Owned(f)
       ELSE /\ Full(f, {}) /\ Imbed(f, 0)
            /\ \A r \in gone : Held(f, r[1], Pend - r[2])

SpaceInv == Consistent(cckd, released, failed)

LEMMA AddUnits ==
    ASSUME NEW S, IsFiniteSet(S), NEW a \in Int, NEW n \in Nat, S \cap a..(a + n - 1) = {}
    PROVE  /\ IsFiniteSet(S \cup a..(a + n - 1))
           /\ Cardinality(S \cup a..(a + n - 1)) = Cardinality(S) + n
           /\ Cardinality(S) \in Nat
<1> DEFINE T == a..(a + n - 1)
<1>1. IsFiniteSet(T) /\ Cardinality(T) = n
  <2>1. PICK b \in Int : b = a + n - 1
      OBVIOUS
  <2>2. IsFiniteSet(a..b) /\ Cardinality(a..b) = IF a > b THEN 0 ELSE b - a + 1
      BY FS_Interval
  <2>3. (IF a > b THEN 0 ELSE b - a + 1) = n
      BY <2>1
  <2> QED BY <2>1, <2>2, <2>3
<1> HIDE DEF T
<1>2. S \cap T = {}
    BY DEF T
<1>3. Cardinality(S \cap T) = 0
    BY <1>2, FS_EmptySet
<1>4. IsFiniteSet(S \cup T) /\ Cardinality(S \cup T) = Cardinality(S) + Cardinality(T) - Cardinality(S \cap T)
    BY <1>1, FS_Union
<1>5. Cardinality(S) \in Nat
    BY FS_CardinalityType
<1> QED BY <1>1, <1>3, <1>4, <1>5 DEF T

LEMMA CountedFacts ==
    ASSUME NEW f, Counted(f)
    PROVE  /\ f.size \in Nat /\ f.used \in Int /\ f.number \in Nat /\ f.total \in Int
           /\ f.largest \in Nat /\ f.imbed \in Int /\ f.bounds \in Int
           /\ f.l1 \in [Table -> Nat] /\ f.l2 \in [Track -> SpaceRec]
           /\ First \in Nat \ {0} /\ First <= f.size
           /\ Chain(f.free, First, f.size)
           /\ IsFiniteSet(FreeUnits(f.free)) /\ FreeUnits(f.free) \subseteq First..(f.size - 1)
<1>1. f \in FileType /\ First \in Nat \ {0} /\ First <= f.size /\ Chain(f.free, First, f.size)
    BY SpaceAssumption DEF Counted
<1>2. /\ f.size \in Nat /\ f.used \in Int /\ f.number \in Nat /\ f.total \in Int
      /\ f.largest \in Nat /\ f.imbed \in Int /\ f.bounds \in Int
      /\ f.l1 \in [Table -> Nat] /\ f.l2 \in [Track -> SpaceRec]
    BY <1>1 DEF FileType
<1>3. FreeUnits(f.free) \subseteq First..(f.size - 1)
    BY <1>1, <1>2, UnitsWithin
<1>4. IsFiniteSet(First..(f.size - 1))
  <2>1. PICK b \in Int : b = f.size - 1
      BY <1>2
  <2>2. First \in Int
      BY <1>1
  <2>3. IsFiniteSet(First..b)
      BY <2>2, FS_Interval
  <2> QED BY <2>1, <2>3
<1>5. IsFiniteSet(FreeUnits(f.free))
    BY <1>3, <1>4, FS_Subset
<1> QED BY <1>1, <1>2, <1>3, <1>5

\* The space of an owner.
LEMMA SpaceOfFields ==
    ASSUME NEW f, f.l1 \in [Table -> Nat], f.l2 \in [Track -> SpaceRec], NEW o \in Owner
    PROVE  /\ SpaceOf(f, o).pos \in Nat /\ SpaceOf(f, o).len \in Nat
           /\ \A u : u \in Units(SpaceOf(f, o)) <=>
                 u \in Int /\ SpaceOf(f, o).pos <= u /\ u < SpaceOf(f, o).pos + SpaceOf(f, o).len
<1>1. SpaceOf(f, o).pos \in Nat /\ SpaceOf(f, o).len \in Nat
  <2>1. CASE o[1] = "track"
    <3>1. o[2] \in Track
        BY <2>1 DEF Owner
    <3>2. f.l2[o[2]] \in SpaceRec
        BY <3>1
    <3> QED BY <2>1, <3>2 DEF SpaceOf, SpaceRec
  <2>2. CASE o[1] # "track"
    <3>1. o[2] \in Table
        BY <2>2 DEF Owner
    <3>2. f.l1[o[2]] \in Nat
        BY <3>1
    <3> QED BY <2>2, <3>2, SpaceAssumption DEF SpaceOf
  <2> QED BY <2>1, <2>2
<1> QED BY <1>1 DEF Units

LEMMA OwnedWithin ==
    ASSUME NEW f, f.l1 \in [Table -> Nat], f.l2 \in [Track -> SpaceRec], f.size \in Nat, Placed(f)
    PROVE  /\ \A o \in Owner : Units(SpaceOf(f, o)) \subseteq First..(f.size - 1)
           /\ Owned(f) \subseteq First..(f.size - 1)
<1>1. ASSUME NEW o \in Owner, NEW u \in Units(SpaceOf(f, o)) PROVE u \in First..(f.size - 1)
  <2> DEFINE e == SpaceOf(f, o)
  <2>1. e.pos \in Nat /\ e.len \in Nat /\ u \in Int /\ e.pos <= u /\ u < e.pos + e.len
      BY <1>1, SpaceOfFields
  <2>2. IsPlaced(e, f.size)
      BY DEF Placed
  <2> HIDE DEF e
  <2> QED BY <2>1, <2>2, SpaceAssumption DEF IsPlaced
<1> QED BY <1>1 DEF Owned

SameTables(f, g) == g.l1 = f.l1 /\ g.l2 = f.l2

LEMMA SameTablesFacts ==
    ASSUME NEW f, NEW g, SameTables(f, g)
    PROVE  /\ \A o \in Owner : SpaceOf(g, o) = SpaceOf(f, o)
           /\ Owned(g) = Owned(f) /\ Imbedded(g) = Imbedded(f)
<1>1. \A o \in Owner : SpaceOf(g, o) = SpaceOf(f, o)
    BY DEF SameTables, SpaceOf
<1>2. Owned(g) = Owned(f)
    BY <1>1 DEF Owned
<1>3. Imbedded(g) = Imbedded(f)
    BY DEF SameTables, Imbedded
<1> QED BY <1>1, <1>2, <1>3

LEMMA PlacedStays ==
    ASSUME NEW f, NEW g, SameTables(f, g), Placed(f), f.size \in Nat, g.size \in Nat, f.size <= g.size,
           f.l1 \in [Table -> Nat], f.l2 \in [Track -> SpaceRec]
    PROVE  Placed(g)
<1>1. \A o \in Owner : SpaceOf(g, o) = SpaceOf(f, o)
    BY SameTablesFacts
<1>2. ASSUME NEW o \in Owner PROVE IsPlaced(SpaceOf(f, o), g.size)
  <2> DEFINE e == SpaceOf(f, o)
  <2>1. e.pos \in Nat /\ e.len \in Nat
      BY SpaceOfFields
  <2>2. IsPlaced(e, f.size)
      BY DEF Placed
  <2> HIDE DEF e
  <2>3. IsPlaced(e, g.size)
      BY <2>1, <2>2 DEF IsPlaced
  <2> QED BY <2>3 DEF e
<1>3. \A t \in Track : g.l2[t].len <= g.l2[t].size
    BY DEF SameTables, Placed
<1> QED BY <1>1, <1>2, <1>3 DEF Placed

-----------------------------------------------------------------------------
(* cckd_get_space *)

\* What is pending in one file is pending as often in the next.
StaysPending(f, g) ==
    \A d \in On(f.free) : d.pending > 0 =>
        \E m \in On(g.free) : Units(d) \subseteq Units(m) /\ m.pending = d.pending

InHand(got) == got.pos..(got.pos + got.size - 1)

\* The space got is in hand, and n of it are counted as used.
Taken(f, U, n, got) ==
    /\ got.pos \in Nat /\ got.size \in Nat /\ First <= got.pos /\ n <= got.size
    /\ got.pos + got.size <= got.file.size
    /\ Good(got.file, U \cup InHand(got)) /\ U \cap InHand(got) = {}
    /\ Full(f, U) => Full(got.file, U \cup InHand(got))
    /\ got.file.imbed = f.imbed + (got.size - n)
    /\ SameTables(f, got.file) /\ StaysPending(f, got.file)

LEMMA AtEndTakes ==
    ASSUME NEW f, NEW U, Good(f, U), NEW n \in Nat \ {0}, ~(f.size + n > MaxSize)
    PROVE  Taken(f, U, n, AtEnd(f, n))
<1> DEFINE g == [f EXCEPT !.size = @ + n, !.used = @ + n]
           T == f.size..(f.size + n - 1)
<1>1. AtEnd(f, n) = [pos |-> f.size, size |-> n, file |-> g]
    BY DEF AtEnd
<1>2. Counted(f) /\ Placed(f) /\ Apart(f, U)
    BY DEF Good
<1>3. /\ f.size \in Nat /\ First \in Nat /\ First <= f.size /\ f.used \in Int /\ f.total \in Int /\ f.imbed \in Int
      /\ f.l1 \in [Table -> Nat] /\ f.l2 \in [Track -> SpaceRec]
      /\ Chain(f.free, First, f.size) /\ FreeUnits(f.free) \subseteq First..(f.size - 1)
    BY <1>2, CountedFacts
<1>4. Owned(f) \subseteq First..(f.size - 1)
    BY <1>2, <1>3, OwnedWithin
<1>5. /\ g \in FileType /\ g.size = f.size + n /\ g.used = f.used + n
      /\ g.free = f.free /\ g.number = f.number /\ g.total = f.total /\ g.largest = f.largest
      /\ g.imbed = f.imbed /\ g.l1 = f.l1 /\ g.l2 = f.l2
  <2>1. f \in FileType /\ f.size + n \in Nat /\ f.used + n \in Int
      BY <1>2, <1>3 DEF Counted
  <2> QED BY <2>1 DEF FileType
<1> HIDE DEF g
<1>6. g.size \in Nat /\ f.size <= g.size /\ SameTables(f, g)
    BY <1>3, <1>5 DEF SameTables
<1>7. Counted(g)
  <2>1. Chain(g.free, First, g.size)
      BY <1>3, <1>5, <1>6, ChainWiden
  <2> QED BY <1>2, <1>3, <1>5, <1>6, <2>1 DEF Counted
<1>8. Placed(g) /\ Owned(g) = Owned(f)
    BY <1>2, <1>3, <1>6, PlacedStays, SameTablesFacts
<1>9. \A u \in T : u \in Int /\ u >= f.size /\ u < g.size /\ u \notin First..(f.size - 1) /\ u \in First..(g.size - 1)
    BY <1>3, <1>5
<1>10. First..(g.size - 1) = First..(f.size - 1) \cup T
    BY <1>3, <1>5
<1> HIDE DEF T
<1>11. Apart(g, U \cup T) /\ U \cap T = {}
    BY <1>2, <1>3, <1>4, <1>5, <1>8, <1>9, <1>10 DEF Apart
<1>12. Full(f, U) => Full(g, U \cup T)
    BY <1>5, <1>8, <1>10 DEF Full
<1>13. StaysPending(f, g)
    BY <1>5 DEF StaysPending
<1>14. g.imbed = f.imbed + (n - n)
    BY <1>3, <1>5
<1> DEFINE got == AtEnd(f, n)
<1>15. got.pos = f.size /\ got.size = n /\ got.file = g /\ InHand(got) = T
    BY <1>1 DEF InHand, T
<1> HIDE DEF got
<1>16. Taken(f, U, n, got)
    BY <1>3, <1>5, <1>6, <1>7, <1>8, <1>11, <1>12, <1>13, <1>14, <1>15 DEF Taken, Good
<1> QED BY <1>16 DEF got

LEMMA SplitInterval ==
    ASSUME NEW a \in Int, NEW l \in Int, NEW n \in Int, 0 <= n, n <= l
    PROVE  /\ a..(a + l - 1) = a..(a + n - 1) \cup (a + n)..(a + l - 1)
           /\ a..(a + n - 1) \cap (a + n)..(a + l - 1) = {}
OBVIOUS

\* A space of the chain without its first n units.
TakenChain(q, i, n) ==
    IF n < q[i].len THEN Put(q, i, [q[i] EXCEPT !.pos = @ + n, !.len = @ - n]) ELSE RemoveAt(q, i)

LEMMA TakenChainFacts ==
    ASSUME NEW q, NEW lo \in Int, NEW hi \in Nat, Chain(q, lo, hi), NEW i, i \in 1..Len(q),
           NEW n \in Nat \ {0}, n <= q[i].len
    PROVE  LET p == TakenChain(q, i, n)
               T == q[i].pos..(q[i].pos + n - 1) IN
           /\ Chain(p, lo, hi)
           /\ Len(p) = IF n < q[i].len THEN Len(q) ELSE Len(q) - 1
           /\ On(q) \ {q[i]} \subseteq On(p)
           /\ FreeUnits(p) = FreeUnits(q) \ T /\ T \subseteq FreeUnits(q)
           /\ \A m : IsLargest(m, q) /\ q[i].len < m => IsLargest(m, p)
<1> DEFINE e == q[i]
           T == e.pos..(e.pos + n - 1)
<1>1. /\ Len(q) \in Nat /\ e \in FreeRec /\ e \in On(q) /\ On(q) \subseteq FreeRec /\ lo <= e.pos /\ End(e) <= hi
      /\ UNION {Units(x) : x \in On(q) \ {e}} = FreeUnits(q) \ Units(e) /\ Units(e) \subseteq FreeUnits(q)
  <2>1. Len(q) \in Nat /\ e \in FreeRec /\ e \in On(q) /\ On(q) \subseteq FreeRec /\ lo <= e.pos /\ End(e) <= hi
      BY ChainFacts
  <2> HIDE DEF e
  <2> QED BY <2>1, UnitsWithout
<1>2. e.pos \in Nat /\ e.len \in Nat \ {0} /\ e.pending \in 0..4 /\ End(e) = e.pos + e.len /\ Units(e) = e.pos..(e.pos + e.len - 1)
    BY <1>1, FreeFields DEF End, Units
<1>3. n <= e.len
    OBVIOUS
<1>4. CASE n < e.len
  <2> DEFINE r == [e EXCEPT !.pos = @ + n, !.len = @ - n]
             p == Put(q, i, r)
  <2>1. TakenChain(q, i, n) = p
      BY <1>4 DEF TakenChain
  <2>2. r \in FreeRec /\ r.pos = e.pos + n /\ r.len = e.len - n /\ r.pending = e.pending
    <3>1. e.pos + n \in Nat /\ e.len - n \in Nat \ {0}
        BY <1>2, <1>4
    <3> HIDE DEF e
    <3> QED BY <1>1, <3>1 DEF FreeRec
  <2> HIDE DEF r
  <2>3. End(r) = End(e) /\ Units(r) = (e.pos + n)..(e.pos + e.len - 1) /\ r.pos \in Nat /\ e.pos <= r.pos
    <3>1. End(r) = r.pos + r.len /\ Units(r) = r.pos..(r.pos + r.len - 1)
        BY DEF End, Units
    <3> HIDE DEF e
    <3>2. r.pos + r.len = e.pos + e.len /\ r.pos \in Nat /\ e.pos <= r.pos
      <4>1. PICK a \in Nat : a = e.pos
          BY <1>2
      <4>2. PICK l \in Nat : l = e.len
          BY <1>2
      <4>3. r.pos = a + n /\ r.len = l - n
          BY <2>2, <4>1, <4>2
      <4>4. (a + n) + (l - n) = a + l /\ a + n \in Nat /\ a <= a + n
          OBVIOUS
      <4> QED BY <4>1, <4>2, <4>3, <4>4
    <3>3. End(r) = End(e)
        BY <1>2, <3>1, <3>2
    <3>4. Units(r) = (e.pos + n)..(e.pos + e.len - 1)
      <4>1. \A u : u \in Units(r) <=> u \in Int /\ r.pos <= u /\ u < End(r)
          BY <2>2, FreeFields
      <4>2. \A u : u \in Units(r) <=> u \in Int /\ e.pos + n <= u /\ u < e.pos + e.len
          BY <1>2, <2>2, <3>3, <4>1
      <4>3. \A u : u \in (e.pos + n)..(e.pos + e.len - 1) <=> u \in Int /\ e.pos + n <= u /\ u < e.pos + e.len
          BY <1>2
      <4> QED BY <4>2, <4>3
    <3> QED BY <3>2, <3>3, <3>4
  <2>4. Between(q, lo, hi, i, r)
    <3>1. \A j \in 1..Len(q) : j < i => End(q[j]) <= r.pos
      <4> SUFFICES ASSUME NEW j \in 1..Len(q), j < i PROVE End(q[j]) <= r.pos
          OBVIOUS
      <4>1. q[j] \in FreeRec /\ End(q[j]) <= e.pos
          BY ChainFacts DEF Chain
      <4>2. End(q[j]) \in Nat
          BY <4>1, FreeFields
      <4> HIDE DEF e
      <4> QED BY <1>2, <2>3, <4>1, <4>2
    <3>2. \A j \in 1..Len(q) : i < j => End(r) <= q[j].pos
        BY <2>3 DEF Chain
    <3>3. lo <= r.pos /\ End(r) <= hi
      <4> HIDE DEF e
      <4> QED BY <1>1, <1>2, <2>3
    <3> QED BY <2>2, <3>1, <3>2, <3>3 DEF Between
  <2>5. Chain(p, lo, hi) /\ Len(p) = Len(q) /\ On(p) = (On(q) \ {e}) \cup {r}
    <3> HIDE DEF p
    <3>1. hi \in Int
        OBVIOUS
    <3> QED BY <2>4, <3>1, ChainReplace DEF p
  <2> HIDE DEF p, e
  <2>6. FreeUnits(p) = (FreeUnits(q) \ Units(e)) \cup Units(r)
      BY <1>1, <2>5 DEF FreeUnits
  <2>7. Units(e) = T \cup Units(r) /\ T \cap Units(r) = {}
    <3>1. PICK a \in Int : a = e.pos
        BY <1>2
    <3>2. PICK l \in Int : l = e.len
        BY <1>2
    <3>3. n \in Int /\ 0 <= n /\ n <= l
        BY <1>3, <3>2
    <3>4. a..(a + l - 1) = a..(a + n - 1) \cup (a + n)..(a + l - 1) /\ a..(a + n - 1) \cap (a + n)..(a + l - 1) = {}
        BY <3>3, SplitInterval
    <3> QED BY <1>2, <2>3, <3>1, <3>2, <3>4
  <2> HIDE DEF T
  <2>8. FreeUnits(p) = FreeUnits(q) \ T /\ T \subseteq FreeUnits(q)
      BY <1>1, <2>6, <2>7
  <2>9. ASSUME NEW m, IsLargest(m, q), e.len < m PROVE IsLargest(m, p)
    <3>1. \A x \in Available(p) : x.len <= m
      <4> TAKE x \in Available(p)
      <4>1. CASE x \in On(q)
        <5>1. x \in Available(q)
            BY <4>1 DEF Available
        <5> QED BY <2>9, <5>1 DEF IsLargest
      <4>2. CASE x = r
        <5>1. m \in Nat
            BY <2>9 DEF IsLargest
        <5> QED BY <1>2, <2>2, <2>9, <4>2, <5>1
      <4> QED BY <2>5, <4>1, <4>2 DEF Available
    <3>2. m = 0 \/ \E x \in Available(p) : x.len = m
      <4> SUFFICES ASSUME m # 0 PROVE \E x \in Available(p) : x.len = m
          OBVIOUS
      <4>1. PICK x \in Available(q) : x.len = m
          BY <2>9 DEF IsLargest
      <4>2. x # e
          BY <1>2, <2>9, <4>1
      <4>3. x \in Available(p)
          BY <2>5, <4>2 DEF Available
      <4> QED BY <4>1, <4>3
    <3> QED BY <2>9, <3>1, <3>2 DEF IsLargest
  <2> QED BY <1>4, <2>1, <2>5, <2>8, <2>9 DEF e, T
<1>5. CASE n = e.len
  <2> DEFINE p == RemoveAt(q, i)
  <2>1. TakenChain(q, i, n) = p /\ ~(n < q[i].len)
      BY <1>2, <1>5 DEF TakenChain
  <2>5. Chain(p, lo, hi) /\ Len(p) = Len(q) - 1 /\ On(p) = On(q) \ {e}
    <3>1. hi \in Int
        OBVIOUS
    <3> HIDE DEF p
    <3> QED BY <3>1, ChainRemove DEF p
  <2>7. Units(e) = T
      BY <1>2, <1>5
  <2> HIDE DEF p, e, T
  <2>8. FreeUnits(p) = FreeUnits(q) \ T /\ T \subseteq FreeUnits(q)
      BY <1>1, <2>5, <2>7 DEF FreeUnits
  <2>9. ASSUME NEW m, IsLargest(m, q), e.len < m PROVE IsLargest(m, p)
    <3>1. \A x \in Available(p) : x.len <= m
        BY <2>5, <2>9 DEF IsLargest, Available
    <3>2. m = 0 \/ \E x \in Available(p) : x.len = m
      <4> SUFFICES ASSUME m # 0 PROVE \E x \in Available(p) : x.len = m
          OBVIOUS
      <4>1. PICK x \in Available(q) : x.len = m
          BY <2>9 DEF IsLargest
      <4>2. x # e
          BY <1>2, <2>9, <4>1
      <4>3. x \in Available(p)
          BY <2>5, <4>2 DEF Available
      <4> QED BY <4>1, <4>3
    <3> QED BY <2>9, <3>1, <3>2 DEF IsLargest
  <2> QED BY <2>1, <2>5, <2>8, <2>9 DEF e, T
<1> QED BY <1>2, <1>3, <1>4, <1>5

LEMMA TakeFromTakes ==
    ASSUME NEW f, NEW U, Good(f, U), NEW n \in Nat \ {0}, NEW any,
           NEW i, i \in 1..Len(f.free), f.free[i].pending = 0, n <= f.free[i].len
    PROVE  Taken(f, U, n, TakeFrom(f, i, n, any))
<1> DEFINE q == f.free
           e == q[i]
           size == IF any /\ e.len <= FreeMin THEN e.len ELSE n
           p == TakenChain(q, i, size)
           T == e.pos..(e.pos + size - 1)
           got == TakeFrom(f, i, n, any)
           g == got.file
<1>1. Counted(f) /\ Placed(f) /\ Apart(f, U)
    BY DEF Good
<1>2. /\ f.size \in Nat /\ First \in Nat /\ First <= f.size
      /\ f.used \in Int /\ f.total \in Int /\ f.imbed \in Int /\ f.largest \in Nat
      /\ f.l1 \in [Table -> Nat] /\ f.l2 \in [Track -> SpaceRec]
      /\ Chain(q, First, f.size) /\ IsFiniteSet(FreeUnits(q)) /\ FreeUnits(q) \subseteq First..(f.size - 1)
    BY <1>1, CountedFacts
<1>3. /\ e \in FreeRec /\ First <= e.pos /\ End(e) <= f.size /\ e \in On(q) /\ Len(q) \in Nat
      /\ e.pos \in Nat /\ e.len \in Nat \ {0} /\ e.pending = 0 /\ n <= e.len /\ End(e) = e.pos + e.len
  <2>1. e \in FreeRec /\ First <= e.pos /\ End(e) <= f.size /\ e \in On(q) /\ Len(q) \in Nat
      BY <1>2, ChainFacts
  <2>2. e.pos \in Nat /\ e.len \in Nat \ {0}
      BY <2>1, FreeFields
  <2> QED BY <2>1, <2>2 DEF End
<1>4. size \in Nat \ {0} /\ n <= size /\ size <= e.len
  <2> HIDE DEF e
  <2> QED BY <1>3
<1>5. got = [pos |-> e.pos, size |-> size,
             file |-> [f EXCEPT !.free = p,
                                !.number = IF size < e.len THEN @ ELSE @ - 1,
                                !.largest = IF e.len >= @ THEN Largest(p) ELSE @,
                                !.used = @ + n, !.total = @ - n, !.imbed = @ + size - n]]
    BY DEF TakeFrom, TakenChain, Put
<1>6. /\ Chain(p, First, f.size)
      /\ Len(p) = IF size < e.len THEN Len(q) ELSE Len(q) - 1
      /\ On(q) \ {e} \subseteq On(p)
      /\ FreeUnits(p) = FreeUnits(q) \ T /\ T \subseteq FreeUnits(q)
      /\ \A m : IsLargest(m, q) /\ e.len < m => IsLargest(m, p)
  <2>1. i \in 1..Len(q) /\ First \in Int
      BY <1>2
  <2> HIDE DEF q, size
  <2> QED BY <1>2, <1>4, <2>1, TakenChainFacts
<1> HIDE DEF q, e, size, p, T, got
<1>7. Len(p) \in Nat /\ p \in Seq(FreeRec)
    BY <1>6, LenProperties DEF Chain
<1>8. (IF e.len >= f.largest THEN Largest(p) ELSE f.largest) = Largest(p) /\ Largest(p) \in Nat
  <2>1. IsLargest(f.largest, q)
      BY <1>1, <1>2, LargestIs DEF Counted, q
  <2>2. CASE ~(e.len >= f.largest)
    <3>1. IsLargest(f.largest, p)
        BY <1>2, <1>3, <1>6, <2>1, <2>2
    <3> QED BY <1>2, <1>6, <2>2, <3>1, LargestOnly
  <2>3. Largest(p) \in Nat
      BY <1>2, <1>6, LargestIs DEF IsLargest
  <2> QED BY <2>2, <2>3
<1>9. (IF size < e.len THEN f.number ELSE f.number - 1) = Len(p)
    BY <1>1, <1>6 DEF Counted, q
<1>10. /\ got.pos = e.pos /\ got.size = size /\ InHand(got) = T
       /\ g = [f EXCEPT !.free = p, !.number = Len(p), !.largest = Largest(p),
                        !.used = @ + n, !.total = @ - n, !.imbed = @ + size - n]
    BY <1>1, <1>5, <1>8, <1>9 DEF InHand, T, Counted, FileType
<1> HIDE DEF g
<1>11. /\ g \in FileType /\ g.size = f.size /\ g.free = p /\ g.number = Len(p) /\ g.largest = Largest(p)
       /\ g.used = f.used + n /\ g.total = f.total - n /\ g.imbed = f.imbed + size - n
       /\ g.l1 = f.l1 /\ g.l2 = f.l2
  <2>1. f \in FileType
      BY <1>1 DEF Counted
  <2>2. f.used + n \in Int /\ f.total - n \in Int
      BY <1>2
  <2>3. f.imbed + size - n \in Int
      BY <1>2, <1>4
  <2> QED BY <1>7, <1>8, <1>10, <2>1, <2>2, <2>3 DEF FileType
<1>12. Cardinality(FreeUnits(p)) = Cardinality(FreeUnits(q)) - size
  <2>1. IsFiniteSet(FreeUnits(p)) /\ FreeUnits(p) \cap T = {} /\ FreeUnits(q) = FreeUnits(p) \cup T
      BY <1>2, <1>6, FS_Subset
  <2>2. Cardinality(FreeUnits(p) \cup T) = Cardinality(FreeUnits(p)) + size /\ Cardinality(FreeUnits(p)) \in Nat
    <3>1. PICK a \in Int : a = e.pos
        BY <1>3
    <3>2. PICK k \in Nat : k = size
        BY <1>4
    <3>3. T = a..(a + k - 1)
        BY <3>1, <3>2 DEF T
    <3>4. FreeUnits(p) \cap a..(a + k - 1) = {}
        BY <2>1, <3>3
    <3>5. Cardinality(FreeUnits(p) \cup a..(a + k - 1)) = Cardinality(FreeUnits(p)) + k /\ Cardinality(FreeUnits(p)) \in Nat
        BY <2>1, <3>4, AddUnits
    <3> QED BY <3>2, <3>3, <3>5
  <2> QED BY <1>4, <2>1, <2>2
<1>13. Counted(g)
  <2>1. f.used + f.total = f.size /\ f.total - f.imbed = Cardinality(FreeUnits(q))
      BY <1>1 DEF Counted, q
  <2>2. g.used + g.total = g.size
      BY <1>2, <1>4, <1>11, <2>1
  <2>3. g.total - g.imbed = Cardinality(FreeUnits(g.free))
      BY <1>2, <1>4, <1>11, <1>12, <2>1
  <2> QED BY <1>2, <1>6, <1>11, <2>2, <2>3 DEF Counted
<1>14. SameTables(f, g)
    BY <1>11 DEF SameTables
<1>15. Placed(g) /\ Owned(g) = Owned(f)
  <2>1. g.size \in Nat /\ f.size <= g.size
      BY <1>2, <1>11
  <2> QED BY <1>1, <1>2, <1>14, <2>1, PlacedStays, SameTablesFacts
<1>16. U \cap T = {} /\ Apart(g, U \cup T)
    BY <1>1, <1>2, <1>6, <1>11, <1>15 DEF Apart, q
<1>17. Full(f, U) => Full(g, U \cup T)
    BY <1>6, <1>11, <1>15 DEF Full, q
<1>18. StaysPending(f, g)
    BY <1>3, <1>6, <1>11 DEF StaysPending, q
<1>19. e.pos + size <= g.size
  <2>1. e.pos \in Nat /\ e.len \in Nat /\ size \in Nat /\ size <= e.len /\ e.pos + e.len <= f.size
      BY <1>3, <1>4
  <2>2. e.pos + size <= f.size
      BY <1>2, <2>1
  <2> QED BY <1>11, <2>2
<1>20. f.imbed + size - n = f.imbed + (size - n)
    BY <1>2, <1>4
<1>21. Taken(f, U, n, got)
    BY <1>3, <1>4, <1>10, <1>11, <1>13, <1>14, <1>15, <1>16, <1>17, <1>18, <1>19, <1>20 DEF Taken, Good, g
<1> QED BY <1>21 DEF got

LEMMA GetSpaceTakes ==
    ASSUME NEW f, NEW U, Good(f, U), NEW n \in Nat \ {0}, NEW table, NEW any
    PROVE  \/ GetSpace(f, n, table, any) = [pos |-> -1, size |-> 0, file |-> f]
           \/ Taken(f, U, n, GetSpace(f, n, table, any))
<1> DEFINE Fits(k) == n + 1 <= k \/ n = k
           fit == {i \in DOMAIN f.free : /\ f.free[i].pending = 0
                                         /\ Fits(f.free[i].len)
                                         /\ table \/ f.free[i].pos >= f.bounds}
<1>1. CASE ~Fits(f.largest) \/ fit = {}
  <2>1. GetSpace(f, n, table, any) = AtEnd(f, n)
      BY <1>1 DEF GetSpace
  <2>2. CASE f.size + n > MaxSize
      BY <2>1, <2>2 DEF AtEnd, Failed
  <2>3. CASE ~(f.size + n > MaxSize)
      BY <2>1, <2>3, AtEndTakes
  <2> QED BY <2>2, <2>3
<1>2. CASE ~(~Fits(f.largest) \/ fit = {})
  <2>1. GetSpace(f, n, table, any) = TakeFrom(f, Min(fit), n, any)
      BY <1>2 DEF GetSpace
  <2>2. Chain(f.free, First, f.size) /\ First \in Int /\ f.size \in Int
      BY CountedFacts DEF Good
  <2>3. /\ DOMAIN f.free = 1..Len(f.free) /\ Len(f.free) \in Nat
        /\ \A i \in 1..Len(f.free) : f.free[i] \in FreeRec
      BY <2>2, ChainFacts
  <2>4. fit \subseteq Nat /\ fit # {}
      BY <1>2, <2>3
  <2> DEFINE i == Min(fit)
  <2>5. i \in fit
    <3> HIDE DEF fit
    <3> QED BY <2>4, MinProperties
  <2> HIDE DEF i
  <2>6. i \in 1..Len(f.free) /\ f.free[i].pending = 0 /\ Fits(f.free[i].len)
      BY <2>3, <2>5
  <2>7. f.free[i].len \in Nat
      BY <2>3, <2>6, FreeFields
  <2>8. n <= f.free[i].len
      BY <2>6, <2>7
  <2>9. Taken(f, U, n, TakeFrom(f, i, n, any))
      BY <2>6, <2>8, TakeFromTakes
  <2> QED BY <2>1, <2>9 DEF i
<1> QED BY <1>1, <1>2

-----------------------------------------------------------------------------
(* cckd_rel_space *)

LEMMA PendType == Pend \in 0..4
BY SpaceAssumption DEF Pend

LEMMA InitialSegment ==
    ASSUME NEW L \in Nat, NEW S, S \subseteq 1..L, \A i, j \in 1..L : i < j /\ j \in S => i \in S
    PROVE  Cardinality(S) \in 0..L /\ S = 1..Cardinality(S)
<1> DEFINE K == {k \in Nat : S \subseteq 1..k}
<1>1. L \in K
    OBVIOUS
<1>2. PICK k \in K : \A n \in K : k <= n
  <2> HIDE DEF K
  <2>1. K \subseteq Nat
      BY DEF K
  <2> QED BY <1>1, <2>1, LeastNatural
<1>3. k \in Nat /\ S \subseteq 1..k /\ k <= L
    BY <1>1, <1>2
<1>4. 1..k \subseteq S
  <2>1. CASE k = 0
      BY <2>1
  <2>2. CASE k # 0
    <3>1. k \in S
      <4> SUFFICES ASSUME k \notin S PROVE FALSE
          OBVIOUS
      <4>1. k - 1 \in K
          BY <1>3, <2>2
      <4>2. k <= k - 1
          BY <1>2, <4>1
      <4> QED BY <1>3, <4>2
    <3> QED BY <1>3, <3>1
  <2> QED BY <2>1, <2>2
<1>5. S = 1..k
    BY <1>3, <1>4
<1>6. Cardinality(1..k) = k
  <2>1. k \in Int /\ 1 \in Int
      BY <1>3
  <2>2. Cardinality(1..k) = IF 1 > k THEN 0 ELSE k - 1 + 1
      BY <2>1, FS_Interval
  <2> QED BY <1>3, <2>2
<1> QED BY <1>3, <1>5, <1>6

\* How many spaces of the chain begin at or before pos.
Before(q, pos) == Cardinality({i \in DOMAIN q : q[i].pos <= pos})

LEMMA BeforeFacts ==
    ASSUME NEW q, NEW lo \in Int, NEW hi \in Int, Chain(q, lo, hi), NEW pos \in Int
    PROVE  /\ Before(q, pos) \in 0..Len(q)
           /\ \A i \in 1..Len(q) : i <= Before(q, pos) <=> q[i].pos <= pos
<1> DEFINE S == {i \in DOMAIN q : q[i].pos <= pos}
           L == Len(q)
<1>1. /\ L \in Nat /\ DOMAIN q = 1..L
      /\ \A i \in 1..L : q[i] \in FreeRec
      /\ \A i, j \in 1..L : i < j => q[i].pos < q[j].pos
    BY ChainFacts
<1>2. \A i \in 1..L : q[i].pos \in Nat
    BY <1>1, FreeFields
<1>3. S \subseteq 1..L /\ \A i, j \in 1..L : i < j /\ j \in S => i \in S
    BY <1>1, <1>2
<1> DEFINE n == Cardinality(S)
<1>4. n \in 0..L /\ S = 1..n
  <2> HIDE DEF S, L
  <2> QED BY <1>1, <1>3, InitialSegment
<1>5. \A i \in 1..L : i \in S <=> q[i].pos <= pos
    BY <1>1
<1> HIDE DEF S, n
<1>6. \A i \in 1..L : i <= n <=> q[i].pos <= pos
    BY <1>1, <1>4, <1>5
<1> QED BY <1>4, <1>6 DEF Before, n, S

Joins(q, p, pos) == p > 0 /\ q[p].pos + q[p].len = pos /\ q[p].pending = Pend

\* The chain with the space of that position and size, and how long it then is.
Joined(q, p, pos, size) ==
    IF Joins(q, p, pos) THEN Put(q, p, [q[p] EXCEPT !.len = @ + size])
    ELSE InsertAt(q, p + 1, [pos |-> pos, len |-> size, pending |-> Pend])

JoinedSize(q, p, pos, size) == IF Joins(q, p, pos) THEN q[p].len + size ELSE size

LEMMA JoinedFacts ==
    ASSUME NEW q, NEW lo \in Int, NEW hi \in Int, Chain(q, lo, hi),
           NEW pos \in Nat, NEW size \in Nat \ {0}, lo <= pos, pos + size <= hi,
           pos..(pos + size - 1) \cap FreeUnits(q) = {}
    PROVE  LET r == Joined(q, Before(q, pos), pos, size)
               s == JoinedSize(q, Before(q, pos), pos, size)
               T == pos..(pos + size - 1) IN
           /\ Chain(r, lo, hi)
           /\ Len(r) = IF Joins(q, Before(q, pos), pos) THEN Len(q) ELSE Len(q) + 1
           /\ FreeUnits(r) = FreeUnits(q) \cup T
           /\ \A d \in On(q) : \E m \in On(r) : Units(d) \subseteq Units(m) /\ m.pending = d.pending
           /\ \E m \in On(r) : T \subseteq Units(m) /\ m.pending = Pend
           /\ \A m : IsLargest(m, q) => IsLargest(IF Pend = 0 /\ s > m THEN s ELSE m, r)
<1> DEFINE p == Before(q, pos)
           T == pos..(pos + size - 1)
<1>1. /\ Len(q) \in Nat /\ On(q) = {q[i] : i \in 1..Len(q)} /\ On(q) \subseteq FreeRec
      /\ \A i \in 1..Len(q) : q[i] \in FreeRec /\ lo <= q[i].pos /\ End(q[i]) <= hi
    BY ChainFacts
<1>2. p \in 0..Len(q) /\ \A i \in 1..Len(q) : i <= p <=> q[i].pos <= pos
  <2>1. pos \in Int
      OBVIOUS
  <2> QED BY <2>1, BeforeFacts
<1> HIDE DEF p
<1>3. \A i \in 1..Len(q) : q[i].pos \in Nat /\ End(q[i]) \in Nat /\ q[i].pos < End(q[i])
    BY <1>1, FreeFields
<1>4. \A i \in 1..Len(q) : i <= p => End(q[i]) <= pos
  <2> SUFFICES ASSUME NEW i \in 1..Len(q), i <= p, ~(End(q[i]) <= pos) PROVE FALSE
      OBVIOUS
  <2>1. q[i].pos <= pos /\ pos < End(q[i])
      BY <1>2, <1>3
  <2>2. pos \in Units(q[i])
      BY <1>1, <2>1, FreeFields
  <2>3. pos \in FreeUnits(q) /\ pos \in T
      BY <1>1, <2>2 DEF FreeUnits
  <2> QED BY <2>3
<1>5. \A i \in 1..Len(q) : p < i => pos + size <= q[i].pos
  <2> SUFFICES ASSUME NEW i \in 1..Len(q), p < i, ~(pos + size <= q[i].pos) PROVE FALSE
      OBVIOUS
  <2>1. ~(q[i].pos <= pos) /\ q[i].pos \in T
      BY <1>2, <1>3
  <2>2. q[i].pos \in Units(q[i])
      BY <1>1, <1>3, FreeFields
  <2>3. q[i].pos \in FreeUnits(q)
      BY <1>1, <2>2 DEF FreeUnits
  <2> QED BY <2>1, <2>3
<1>6. CASE Joins(q, p, pos)
  <2> DEFINE d == q[p]
             g == [d EXCEPT !.len = @ + size]
             r == Put(q, p, g)
             s == d.len + size
  <2>1. Joined(q, p, pos, size) = r /\ JoinedSize(q, p, pos, size) = s
      BY <1>6 DEF Joined, JoinedSize
  <2>2. p \in 1..Len(q) /\ d \in FreeRec /\ d \in On(q) /\ End(d) = pos /\ d.pending = Pend /\ lo <= d.pos
      BY <1>1, <1>2, <1>6 DEF Joins, End
  <2>3. d.pos \in Nat /\ d.len \in Nat \ {0}
      BY <2>2, FreeFields
  <2>4. /\ g \in FreeRec /\ g.pos = d.pos /\ g.len = s /\ g.pending = d.pending
        /\ End(g) = pos + size /\ Units(g) = Units(d) \cup T
    <3> HIDE DEF d
    <3>1. size \in Nat
        OBVIOUS
    <3> QED BY <2>2, <3>1, GrownFields
  <2> HIDE DEF g
  <2>5. Between(q, lo, hi, p, g)
    <3>1. \A j \in 1..Len(q) : j < p => End(q[j]) <= g.pos
        BY <2>2, <2>4 DEF Chain
    <3>2. \A j \in 1..Len(q) : p < j => End(g) <= q[j].pos
        BY <1>5, <2>4
    <3> QED BY <2>2, <2>4, <3>1, <3>2 DEF Between
  <2>6. Chain(r, lo, hi) /\ Len(r) = Len(q) /\ On(r) = (On(q) \ {d}) \cup {g}
    <3> HIDE DEF r
    <3> QED BY <2>5, ChainReplace DEF r
  <2>7. UNION {Units(x) : x \in On(q) \ {d}} = FreeUnits(q) \ Units(d) /\ Units(d) \subseteq FreeUnits(q)
    <3> HIDE DEF d
    <3> QED BY <2>2, UnitsWithout
  <2> HIDE DEF r, d, T
  <2>8. FreeUnits(r) = FreeUnits(q) \cup T
    <3>1. FreeUnits(r) = (FreeUnits(q) \ Units(d)) \cup Units(g)
        BY <2>6, <2>7 DEF FreeUnits
    <3> QED BY <2>4, <2>7, <3>1
  <2>9. \A x \in On(q) : \E m \in On(r) : Units(x) \subseteq Units(m) /\ m.pending = x.pending
    <3> TAKE x \in On(q)
    <3>1. CASE x = d
        BY <2>4, <2>6, <3>1
    <3>2. CASE x # d
        BY <2>6, <3>2
    <3> QED BY <3>1, <3>2
  <2>10. \E m \in On(r) : T \subseteq Units(m) /\ m.pending = Pend
      BY <2>2, <2>4, <2>6
  <2>11. ASSUME NEW m, IsLargest(m, q) PROVE IsLargest(IF Pend = 0 /\ s > m THEN s ELSE m, r)
    <3>0. m \in Nat /\ s \in Nat /\ d.len < s
        BY <2>3, <2>11 DEF IsLargest
    <3>1. CASE Pend = 0
      <4>1. Available(r) = (Available(q) \ {d}) \cup {g} /\ d \in Available(q)
          BY <2>2, <2>4, <2>6, <3>1 DEF Available
      <4>2. CASE s > m
        <5>1. \A x \in Available(r) : x.len <= s
          <6> TAKE x \in Available(r)
          <6>1. CASE x = g
              BY <2>4, <3>0, <6>1
          <6>2. CASE x # g
            <7>1. x \in Available(q)
                BY <4>1, <6>2
            <7>2. x.len <= m /\ x \in FreeRec
                BY <1>1, <2>11, <7>1 DEF IsLargest, Available
            <7>3. x.len \in Nat
                BY <7>2, FreeFields
            <7> QED BY <3>0, <4>2, <7>2, <7>3
          <6> QED BY <6>1, <6>2
        <5>2. g \in Available(r) /\ g.len = s
            BY <2>4, <4>1
        <5>3. IsLargest(s, r)
            BY <3>0, <5>1, <5>2 DEF IsLargest
        <5> QED BY <3>1, <4>2, <5>3
      <4>3. CASE ~(s > m)
        <5>1. \A x \in Available(r) : x.len <= m
            BY <2>4, <2>11, <3>0, <4>1, <4>3 DEF IsLargest
        <5>2. m = 0 \/ \E x \in Available(r) : x.len = m
          <6> SUFFICES ASSUME m # 0 PROVE \E x \in Available(r) : x.len = m
              OBVIOUS
          <6>1. PICK x \in Available(q) : x.len = m
              BY <2>11 DEF IsLargest
          <6>2. x # d
              BY <2>3, <3>0, <4>3, <6>1
          <6> QED BY <4>1, <6>1, <6>2
        <5>3. IsLargest(m, r)
            BY <3>0, <5>1, <5>2 DEF IsLargest
        <5> QED BY <4>3, <5>3
      <4> QED BY <4>2, <4>3
    <3>2. CASE Pend # 0
      <4>1. Available(r) = Available(q)
          BY <2>2, <2>4, <2>6, <3>2 DEF Available
      <4>2. IsLargest(m, r)
          BY <2>11, <4>1 DEF IsLargest
      <4> QED BY <3>2, <4>2
    <3> QED BY <3>1, <3>2
  <2> QED BY <1>6, <2>1, <2>6, <2>8, <2>9, <2>10, <2>11 DEF p, T
<1>7. CASE ~Joins(q, p, pos)
  <2> DEFINE g == [pos |-> pos, len |-> size, pending |-> Pend]
             r == InsertAt(q, p + 1, g)
  <2>1. Joined(q, p, pos, size) = r /\ JoinedSize(q, p, pos, size) = size
      BY <1>7 DEF Joined, JoinedSize
  <2>2. g \in FreeRec /\ g.pos = pos /\ g.len = size /\ g.pending = Pend
      BY PendType DEF FreeRec
  <2> HIDE DEF g
  <2>3. End(g) = pos + size /\ Units(g) = T
      BY <2>2 DEF End, Units
  <2>4. /\ p \in 0..Len(q) /\ g \in FreeRec /\ lo <= g.pos /\ End(g) <= hi
        /\ \A j \in 1..Len(q) : j <= p => End(q[j]) <= g.pos
        /\ \A j \in 1..Len(q) : p < j => End(g) <= q[j].pos
      BY <1>2, <1>4, <1>5, <2>2, <2>3
  <2>5. Chain(r, lo, hi) /\ Len(r) = Len(q) + 1 /\ On(r) = On(q) \cup {g}
    <3> HIDE DEF r
    <3>1. PICK x \in FreeRec : x = g
        BY <2>4
    <3>2. PICK k \in 0..Len(q) : k = p
        BY <2>4
    <3>3. r = InsertAt(q, k + 1, x)
        BY <3>1, <3>2 DEF r
    <3>4. /\ k \in 0..Len(q) /\ x \in FreeRec /\ lo <= x.pos /\ End(x) <= hi
          /\ \A j \in 1..Len(q) : j <= k => End(q[j]) <= x.pos
          /\ \A j \in 1..Len(q) : k < j => End(x) <= q[j].pos
        BY <2>4, <3>1, <3>2
    <3> HIDE <3>1, <3>2
    <3>5. Chain(InsertAt(q, k + 1, x), lo, hi) /\ Len(InsertAt(q, k + 1, x)) = Len(q) + 1 /\ On(InsertAt(q, k + 1, x)) = On(q) \cup {x}
        BY <3>4, ChainInsert
    <3> QED BY <3>1, <3>3, <3>5
  <2> HIDE DEF r, T
  <2>8. FreeUnits(r) = FreeUnits(q) \cup T
      BY <2>3, <2>5 DEF FreeUnits
  <2>9. \A x \in On(q) : \E m \in On(r) : Units(x) \subseteq Units(m) /\ m.pending = x.pending
      BY <2>5
  <2>10. \E m \in On(r) : T \subseteq Units(m) /\ m.pending = Pend
      BY <2>2, <2>3, <2>5
  <2>11. ASSUME NEW m, IsLargest(m, q) PROVE IsLargest(IF Pend = 0 /\ size > m THEN size ELSE m, r)
    <3>0. m \in Nat
        BY <2>11 DEF IsLargest
    <3>1. CASE Pend = 0
      <4>1. Available(r) = Available(q) \cup {g}
          BY <2>2, <2>5, <3>1 DEF Available
      <4>2. CASE size > m
        <5>1. \A x \in Available(r) : x.len <= size
          <6> TAKE x \in Available(r)
          <6>1. CASE x = g
              BY <2>2, <6>1
          <6>2. CASE x # g
            <7>1. x \in Available(q)
                BY <4>1, <6>2
            <7>2. x.len <= m /\ x \in FreeRec
                BY <1>1, <2>11, <7>1 DEF IsLargest, Available
            <7>3. x.len \in Nat
                BY <7>2, FreeFields
            <7> QED BY <3>0, <4>2, <7>2, <7>3
          <6> QED BY <6>1, <6>2
        <5>2. g \in Available(r) /\ g.len = size
            BY <2>2, <4>1
        <5>3. IsLargest(size, r)
            BY <5>1, <5>2 DEF IsLargest
        <5> QED BY <3>1, <4>2, <5>3
      <4>3. CASE ~(size > m)
        <5>1. \A x \in Available(r) : x.len <= m
            BY <2>2, <2>11, <3>0, <4>1, <4>3 DEF IsLargest
        <5>3. IsLargest(m, r)
            BY <2>11, <4>1, <5>1 DEF IsLargest
        <5> QED BY <4>3, <5>3
      <4> QED BY <4>2, <4>3
    <3>2. CASE Pend # 0
      <4>1. Available(r) = Available(q)
          BY <2>2, <2>5, <3>2 DEF Available
      <4>2. IsLargest(m, r)
          BY <2>11, <4>1 DEF IsLargest
      <4> QED BY <3>2, <4>2
    <3> QED BY <3>1, <3>2
  <2> QED BY <1>7, <2>1, <2>5, <2>8, <2>9, <2>10, <2>11 DEF p, T
<1> QED BY <1>6, <1>7 DEF p

\* The units T are released, those in hand are U then.
Released(f, U, T, g) ==
    /\ Good(g, U) /\ SameTables(f, g)
    /\ Full(f, U \cup T) => Full(g, U)
    /\ StaysPending(f, g) /\ \A u \in T : Held(g, u, Pend)

\* The units T, which lie at pos, are to be released; U stays in hand.
ToRelease(f, U, pos, size, T) ==
    /\ pos \in Nat /\ size \in Nat \ {0} /\ First <= pos /\ T = pos..(pos + size - 1)
    /\ Good(f, U \cup T) /\ U \cap T = {}

LEMMA RelSpaceReleases ==
    ASSUME NEW f, NEW U, NEW pos, NEW size, NEW T, ToRelease(f, U, pos, size, T), NEW n \in Nat
    PROVE  /\ Released(f, U, T, RelSpace(f, pos, n, size))
           /\ RelSpace(f, pos, n, size).imbed = f.imbed - (size - n)
<1> DEFINE q == f.free
           p == Before(q, pos)
           r == Joined(q, p, pos, size)
           s == JoinedSize(q, p, pos, size)
           g == RelSpace(f, pos, n, size)
<1>0. /\ pos \in Nat /\ size \in Nat \ {0} /\ First <= pos /\ T = pos..(pos + size - 1)
      /\ Good(f, U \cup T) /\ U \cap T = {}
    BY DEF ToRelease
<1>1. Counted(f) /\ Placed(f) /\ Apart(f, U \cup T)
    BY <1>0 DEF Good
<1>2. /\ f.size \in Nat /\ First \in Nat \ {0} /\ First <= f.size
      /\ f.used \in Int /\ f.total \in Int /\ f.imbed \in Int /\ f.largest \in Nat
      /\ f.l1 \in [Table -> Nat] /\ f.l2 \in [Track -> SpaceRec]
      /\ Chain(q, First, f.size) /\ IsFiniteSet(FreeUnits(q)) /\ FreeUnits(q) \subseteq First..(f.size - 1)
    BY <1>1, CountedFacts
<1>3. pos + size <= f.size /\ T \cap FreeUnits(q) = {}
  <2>1. pos + size - 1 \in T
      BY <1>0
  <2>2. T \subseteq First..(f.size - 1) /\ T \cap FreeUnits(q) = {}
      BY <1>1 DEF Apart
  <2>3. PICK k \in Nat : k = f.size
      BY <1>2
  <2>4. pos + size - 1 \in First..(k - 1)
      BY <2>1, <2>2, <2>3
  <2>5. pos \in Nat /\ size \in Nat
      BY <1>0
  <2>6. pos + size <= k
      BY <2>4, <2>5
  <2> QED BY <2>2, <2>3, <2>6
<1>4. /\ Chain(r, First, f.size)
      /\ Len(r) = IF Joins(q, p, pos) THEN Len(q) ELSE Len(q) + 1
      /\ FreeUnits(r) = FreeUnits(q) \cup T
      /\ \A d \in On(q) : \E m \in On(r) : Units(d) \subseteq Units(m) /\ m.pending = d.pending
      /\ \E m \in On(r) : T \subseteq Units(m) /\ m.pending = Pend
      /\ \A m : IsLargest(m, q) => IsLargest(IF Pend = 0 /\ s > m THEN s ELSE m, r)
  <2>1. First \in Int /\ f.size \in Int
      BY <1>2
  <2>2. pos..(pos + size - 1) \cap FreeUnits(q) = {}
      BY <1>0, <1>3
  <2> HIDE DEF q
  <2> QED BY <1>0, <1>2, <1>3, <2>1, <2>2, JoinedFacts
<1>5. g = [f EXCEPT !.free = r,
                    !.number = IF Joins(q, p, pos) THEN @ ELSE @ + 1,
                    !.used = @ - n, !.total = @ + n, !.imbed = @ - (size - n),
                    !.largest = IF Pend = 0 /\ s > @ THEN s ELSE @]
  <2>1. CASE Joins(q, p, pos)
    <3>1. /\ p > 0 /\ f.free[p].pos + f.free[p].len = pos /\ f.free[p].pending = Pend
          /\ r = [f.free EXCEPT ![p].len = @ + size] /\ s = f.free[p].len + size
        BY <2>1 DEF Joins, Joined, JoinedSize, Put
    <3>2. p \in DOMAIN f.free
      <4>1. DOMAIN q = 1..Len(q)
          BY <1>2, ChainFacts
      <4>2. p \in 0..Len(q)
        <5>1. pos \in Int /\ First \in Int /\ f.size \in Int
            BY <1>0, <1>2
        <5> HIDE DEF p, q
        <5> QED BY <1>2, <5>1, BeforeFacts DEF p
      <4> QED BY <3>1, <4>1, <4>2
    <3>3. [f.free EXCEPT ![p].len = @ + size][p].len = f.free[p].len + size
      <4>1. f.free[p] \in FreeRec
          BY <1>2, <3>2, ChainFacts
      <4> HIDE DEF p
      <4>2. [f.free EXCEPT ![p].len = @ + size][p] = [f.free[p] EXCEPT !.len = @ + size]
          BY <3>2
      <4> QED BY <4>1, <4>2 DEF FreeRec
    <3>4. pos # 0
        BY <1>0, <1>2
    <3> QED BY <2>1, <3>1, <3>3, <3>4 DEF RelSpace, Before
  <2>2. CASE ~Joins(q, p, pos)
    <3>1. /\ ~(p > 0 /\ f.free[p].pos + f.free[p].len = pos /\ f.free[p].pending = Pend)
          /\ r = InsertAt(f.free, p + 1, [pos |-> pos, len |-> size, pending |-> Pend]) /\ s = size
        BY <2>2 DEF Joins, Joined, JoinedSize
    <3>4. pos # 0
        BY <1>0, <1>2
    <3> QED BY <2>2, <3>1, <3>4 DEF RelSpace, Before
  <2> QED BY <2>1, <2>2
<1> HIDE DEF q, p, r, s, g
<1>7. Len(r) \in Nat /\ r \in Seq(FreeRec)
    BY <1>4, LenProperties DEF Chain
<1>8. (IF Pend = 0 /\ s > f.largest THEN s ELSE f.largest) = Largest(r) /\ Largest(r) \in Nat
  <2>1. IsLargest(f.largest, q)
      BY <1>1, <1>2, LargestIs DEF Counted, q
  <2> DEFINE m == IF Pend = 0 /\ s > f.largest THEN s ELSE f.largest
  <2>2. IsLargest(m, r)
      BY <1>4, <2>1
  <2> HIDE DEF m
  <2>3. Largest(r) = m
      BY <1>2, <1>4, <2>2, LargestOnly
  <2>4. m \in Nat
      BY <2>2 DEF IsLargest
  <2> QED BY <2>3, <2>4 DEF m
<1>9. (IF Joins(q, p, pos) THEN f.number ELSE f.number + 1) = Len(r)
    BY <1>1, <1>4 DEF Counted, q
<1>10. g = [f EXCEPT !.free = r, !.number = Len(r), !.largest = Largest(r),
                     !.used = @ - n, !.total = @ + n, !.imbed = @ - (size - n)]
    BY <1>1, <1>5, <1>8, <1>9 DEF Counted, FileType
<1>11. /\ g \in FileType /\ g.size = f.size /\ g.free = r /\ g.number = Len(r) /\ g.largest = Largest(r)
       /\ g.used = f.used - n /\ g.total = f.total + n /\ g.imbed = f.imbed - (size - n)
       /\ g.l1 = f.l1 /\ g.l2 = f.l2
  <2>1. f \in FileType
      BY <1>1 DEF Counted
  <2>2. f.used - n \in Int /\ f.total + n \in Int
      BY <1>2
  <2>3. f.imbed - (size - n) \in Int
      BY <1>0, <1>2
  <2> QED BY <1>7, <1>8, <1>10, <2>1, <2>2, <2>3 DEF FileType
<1>12. Cardinality(FreeUnits(r)) = Cardinality(FreeUnits(q)) + size
  <2>1. pos \in Int /\ size \in Nat /\ FreeUnits(q) \cap pos..(pos + size - 1) = {}
      BY <1>0, <1>3
  <2>2. Cardinality(FreeUnits(q) \cup pos..(pos + size - 1)) = Cardinality(FreeUnits(q)) + size
      BY <1>2, <2>1, AddUnits
  <2> QED BY <1>0, <1>4, <2>2
<1>13. Counted(g)
  <2>1. f.used + f.total = f.size /\ f.total - f.imbed = Cardinality(FreeUnits(q))
      BY <1>1 DEF Counted, q
  <2>2. g.used + g.total = g.size
      BY <1>0, <1>2, <1>11, <2>1
  <2>3. g.total - g.imbed = Cardinality(FreeUnits(g.free))
      BY <1>0, <1>2, <1>11, <1>12, <2>1
  <2> QED BY <1>2, <1>4, <1>11, <2>2, <2>3 DEF Counted
<1>14. SameTables(f, g)
    BY <1>11 DEF SameTables
<1>15. Placed(g) /\ Owned(g) = Owned(f)
  <2>1. g.size \in Nat /\ f.size <= g.size
      BY <1>2, <1>11
  <2> QED BY <1>1, <1>2, <1>14, <2>1, PlacedStays, SameTablesFacts
<1>16. U \cap T = {}
    BY <1>0
<1>17. Apart(g, U)
    BY <1>1, <1>4, <1>11, <1>15, <1>16 DEF Apart, q
<1>18. Full(f, U \cup T) => Full(g, U)
    BY <1>4, <1>11, <1>15 DEF Full, q
<1>19. StaysPending(f, g)
    BY <1>4, <1>11 DEF StaysPending, q
<1>20. \A u \in T : Held(g, u, Pend)
  <2>1. PICK m \in On(r) : T \subseteq Units(m) /\ m.pending = Pend
      BY <1>4
  <2>2. m.pending >= Pend
      BY <2>1, PendType
  <2> QED BY <1>11, <2>1, <2>2 DEF Held
<1>21. Released(f, U, T, g)
    BY <1>13, <1>14, <1>15, <1>17, <1>18, <1>19, <1>20 DEF Released, Good
<1> QED BY <1>11, <1>21 DEF g

-----------------------------------------------------------------------------
(* A track or table gets a space that is in hand. *)

OfTrack(t) == <<"track", t>>
OfTable(x) == <<"table", x>>

LEMMA OwnerOf ==
    /\ \A t \in Track : OfTrack(t) \in Owner
    /\ \A x \in Table : OfTable(x) \in Owner
    /\ \A o \in Owner : (\E t \in Track : o = OfTrack(t)) \/ (\E x \in Table : o = OfTable(x))
    /\ \A t \in Track, x \in Table : OfTrack(t) # OfTable(x)
    /\ \A t, s \in Track : OfTrack(t) = OfTrack(s) => t = s
    /\ \A x, y \in Table : OfTable(x) = OfTable(y) => x = y
    /\ \A f, t : SpaceOf(f, OfTrack(t)) = [pos |-> f.l2[t].pos, len |-> f.l2[t].size]
    /\ \A f, x : SpaceOf(f, OfTable(x)) = [pos |-> f.l1[x], len |-> IF f.l1[x] = 0 THEN 0 ELSE L2Size]
<1>1. \A t \in Track : OfTrack(t) \in Owner
    BY DEF Owner, OfTrack
<1>2. \A x \in Table : OfTable(x) \in Owner
    BY DEF Owner, OfTable
<1>3. \A o \in Owner : (\E t \in Track : o = OfTrack(t)) \/ (\E x \in Table : o = OfTable(x))
    BY DEF Owner, OfTrack, OfTable
<1>4. \A t \in Track, x \in Table : OfTrack(t) # OfTable(x)
    BY DEF OfTrack, OfTable
<1>5. \A t, s \in Track : OfTrack(t) = OfTrack(s) => t = s
    BY DEF OfTrack
<1>6. \A x, y \in Table : OfTable(x) = OfTable(y) => x = y
    BY DEF OfTable
<1>7. \A f, t : SpaceOf(f, OfTrack(t)) = [pos |-> f.l2[t].pos, len |-> f.l2[t].size]
    BY DEF SpaceOf, OfTrack
<1>8. \A f, x : SpaceOf(f, OfTable(x)) = [pos |-> f.l1[x], len |-> IF f.l1[x] = 0 THEN 0 ELSE L2Size]
    BY DEF SpaceOf, OfTable
<1> QED BY <1>1, <1>2, <1>3, <1>4, <1>5, <1>6, <1>7, <1>8

SameHeader(f, g) ==
    /\ g.size = f.size /\ g.used = f.used /\ g.number = f.number /\ g.total = f.total
    /\ g.largest = f.largest /\ g.imbed = f.imbed /\ g.free = f.free

\* Only the owner own has another space in g than in f.
Reassigns(f, g, own) ==
    /\ g \in FileType /\ SameHeader(f, g)
    /\ \A o \in Owner : o # own => SpaceOf(g, o) = SpaceOf(f, o)
    /\ IsPlaced(SpaceOf(g, own), f.size)
    /\ \A t \in Track : g.l2[t].len <= g.l2[t].size

\* The units V were in hand, now the units W are that the owner had before.
Handed(f, g, U, V, W) ==
    /\ Good(g, U \cup W) /\ U \cap W = {}
    /\ Full(f, U \cup V) => Full(g, U \cup W)
    /\ StaysPending(f, g)
    /\ Releases(f, g) \subseteq W /\ W \cap Owned(g) = {}

LEMMA Reassigned ==
    ASSUME NEW f, NEW g, NEW U, NEW own \in Owner, Reassigns(f, g, own),
           Good(f, U \cup Units(SpaceOf(g, own))), U \cap Units(SpaceOf(g, own)) = {}
    PROVE  Handed(f, g, U, Units(SpaceOf(g, own)), Units(SpaceOf(f, own)))
<1> DEFINE V == Units(SpaceOf(g, own))
           W == Units(SpaceOf(f, own))
           Rem == UNION {Units(SpaceOf(f, o)) : o \in Owner \ {own}}
<1>1. Counted(f) /\ Placed(f) /\ Apart(f, U \cup V) /\ SameHeader(f, g) /\ g \in FileType
    BY DEF Good, Reassigns
<1>2. Counted(g)
    BY <1>1 DEF Counted, SameHeader
<1>3. Owned(f) = Rem \cup W
    BY DEF Owned
<1>4. Owned(g) = Rem \cup V
  <2>1. \A o \in Owner : o # own => SpaceOf(g, o) = SpaceOf(f, o)
      BY DEF Reassigns
  <2> QED BY <2>1 DEF Owned
<1>5. Rem \cap W = {}
  <2>1. \A o \in Owner : o # own => Units(SpaceOf(f, o)) \cap W = {}
      BY <1>1 DEF Placed
  <2> QED BY <2>1
<1>6. V \cap Owned(f) = {} /\ U \cap Owned(f) = {} /\ FreeUnits(f.free) \cap Owned(f) = {}
    BY <1>1 DEF Apart
<1>7. W \subseteq First..(f.size - 1)
  <2>1. f.l1 \in [Table -> Nat] /\ f.l2 \in [Track -> SpaceRec] /\ f.size \in Nat
      BY <1>1, CountedFacts
  <2> QED BY <1>1, <2>1, OwnedWithin
<1>8. Placed(g)
  <2>1. \A o \in Owner : IsPlaced(SpaceOf(g, o), g.size)
      BY <1>1 DEF Placed, Reassigns, SameHeader
  <2>2. ASSUME NEW o \in Owner, NEW p \in Owner, o # p
        PROVE  Units(SpaceOf(g, o)) \cap Units(SpaceOf(g, p)) = {}
    <3>1. \A b \in Owner : b # own => SpaceOf(g, b) = SpaceOf(f, b) /\ Units(SpaceOf(f, b)) \subseteq Rem
        BY DEF Reassigns
    <3>2. Rem \cap V = {}
        BY <1>3, <1>6
    <3> HIDE DEF Rem
    <3>3. CASE o = own
      <4>1. Units(SpaceOf(g, p)) \subseteq Rem
          BY <2>2, <3>1, <3>3
      <4> QED BY <3>2, <3>3, <4>1
    <3>4. CASE p = own
      <4>1. Units(SpaceOf(g, o)) \subseteq Rem
          BY <2>2, <3>1, <3>4
      <4> QED BY <3>2, <3>4, <4>1
    <3>5. CASE o # own /\ p # own
        BY <1>1, <2>2, <3>1, <3>5 DEF Placed
    <3> QED BY <3>3, <3>4, <3>5
  <2>3. \A t \in Track : g.l2[t].len <= g.l2[t].size
      BY DEF Reassigns
  <2> QED BY <2>1, <2>2, <2>3 DEF Placed
<1> HIDE DEF V, W, Rem
<1>9. g.free = f.free /\ g.size = f.size
    BY <1>1 DEF SameHeader
<1>u. U \cap V = {}
    BY DEF V
<1>10. Apart(g, U \cup W) /\ U \cap W = {}
    BY <1>1, <1>u, <1>3, <1>4, <1>5, <1>6, <1>7, <1>9 DEF Apart
<1>11. Full(f, U \cup V) => Full(g, U \cup W)
    BY <1>3, <1>4, <1>9 DEF Full
<1>12. StaysPending(f, g)
    BY <1>9 DEF StaysPending
<1>13. Releases(f, g) \subseteq W
  <2>1. \A o \in Owner : SpaceOf(f, o) # SpaceOf(g, o) => o = own
      BY DEF Reassigns
  <2> QED BY <2>1 DEF Releases, W
<1>14. W \cap Owned(g) = {}
    BY <1>3, <1>4, <1>5, <1>6
<1> QED BY <1>2, <1>8, <1>10, <1>11, <1>12, <1>13, <1>14 DEF Good, Handed, V, W

\* What the images of the other tracks leave of their spaces.
ImbeddedBut(f, t) == UNION {Units(Rest(f.l2[x])) : x \in Track \ {t}}

LEMMA ImbeddedSplit ==
    ASSUME NEW f, f.l1 \in [Table -> Nat], f.l2 \in [Track -> SpaceRec], f.size \in Nat, Placed(f), NEW t \in Track
    PROVE  /\ Cardinality(Imbedded(f)) = Cardinality(ImbeddedBut(f, t)) + (f.l2[t].size - f.l2[t].len)
           /\ Cardinality(ImbeddedBut(f, t)) \in Nat
<1> DEFINE S == ImbeddedBut(f, t)
           e == f.l2[t]
<1>1. \A x \in Track : /\ f.l2[x].pos \in Nat /\ f.l2[x].len \in Nat /\ f.l2[x].size \in Nat
                       /\ f.l2[x].len <= f.l2[x].size
    BY DEF SpaceRec, Placed
<1>2. \A x \in Track : Units(Rest(f.l2[x])) =
          (f.l2[x].pos + f.l2[x].len)..(f.l2[x].pos + f.l2[x].len + (f.l2[x].size - f.l2[x].len) - 1)
    BY DEF Units, Rest
<1>3. \A x \in Track : Units(Rest(f.l2[x])) \subseteq Units(SpaceOf(f, OfTrack(x)))
  <2> TAKE x \in Track
  <2>1. Units(SpaceOf(f, OfTrack(x))) = f.l2[x].pos..(f.l2[x].pos + f.l2[x].size - 1)
      BY OwnerOf DEF Units
  <2>2. PICK p \in Nat, l \in Nat, s \in Nat :
            p = f.l2[x].pos /\ l = f.l2[x].len /\ s = f.l2[x].size /\ l <= s
      BY <1>1
  <2>3. (p + l)..(p + l + (s - l) - 1) \subseteq p..(p + s - 1)
      BY <2>2
  <2> QED BY <1>2, <2>1, <2>2, <2>3
<1>4. \A x \in Track : x # t => Units(Rest(f.l2[x])) \cap Units(Rest(e)) = {}
  <2> SUFFICES ASSUME NEW x \in Track, x # t PROVE Units(Rest(f.l2[x])) \cap Units(Rest(e)) = {}
      OBVIOUS
  <2>1. OfTrack(x) \in Owner /\ OfTrack(t) \in Owner /\ OfTrack(x) # OfTrack(t)
      BY OwnerOf
  <2>2. Units(SpaceOf(f, OfTrack(x))) \cap Units(SpaceOf(f, OfTrack(t))) = {}
      BY <2>1 DEF Placed
  <2> QED BY <1>3, <2>2
<1>5. S \cap Units(Rest(e)) = {} /\ Imbedded(f) = S \cup Units(Rest(e))
    BY <1>4 DEF ImbeddedBut, Imbedded
<1>6. IsFiniteSet(S)
  <2>1. S \subseteq First..(f.size - 1)
    <3>1. \A x \in Track : Units(SpaceOf(f, OfTrack(x))) \subseteq First..(f.size - 1)
        BY OwnedWithin, OwnerOf
    <3> QED BY <1>3, <3>1 DEF ImbeddedBut
  <2>2. PICK b \in Int : b = f.size - 1
      OBVIOUS
  <2>3. IsFiniteSet(First..b)
      BY FS_Interval, SpaceAssumption
  <2>4. S \in SUBSET (First..b)
      BY <2>1, <2>2
  <2> HIDE DEF S
  <2> QED BY <2>3, <2>4, FS_Subset
<1>7. PICK a \in Int : a = e.pos + e.len
    BY <1>1
<1>8. PICK n \in Nat : n = e.size - e.len
    BY <1>1
<1>9. Units(Rest(e)) = a..(a + n - 1)
    BY <1>2, <1>7, <1>8
<1> HIDE DEF S
<1>10. Cardinality(S \cup a..(a + n - 1)) = Cardinality(S) + n /\ Cardinality(S) \in Nat
    BY <1>5, <1>6, <1>9, AddUnits
<1> QED BY <1>5, <1>8, <1>9, <1>10 DEF S

-----------------------------------------------------------------------------
(* cckd_write_l2 *)

LEMMA StaysPendingOn ==
    ASSUME NEW f, NEW g, NEW h, StaysPending(f, g), StaysPending(g, h)
    PROVE  StaysPending(f, h)
<1> SUFFICES ASSUME NEW d \in On(f.free), d.pending > 0
             PROVE  \E m \in On(h.free) : Units(d) \subseteq Units(m) /\ m.pending = d.pending
    BY DEF StaysPending
<1>1. PICK m \in On(g.free) : Units(d) \subseteq Units(m) /\ m.pending = d.pending
    BY DEF StaysPending
<1>2. PICK k \in On(h.free) : Units(m) \subseteq Units(k) /\ k.pending = m.pending
    BY <1>1 DEF StaysPending
<1> QED BY <1>1, <1>2

LEMMA GetSpaceExact ==
    ASSUME NEW f, NEW n, NEW table
    PROVE  \/ GetSpace(f, n, table, FALSE).pos = -1
           \/ GetSpace(f, n, table, FALSE).size = n
<1>1. AtEnd(f, n).pos = -1 \/ AtEnd(f, n).size = n
    BY DEF AtEnd, Failed
<1>2. \A i : TakeFrom(f, i, n, FALSE).size = n
    BY DEF TakeFrom
<1> QED BY <1>1, <1>2 DEF GetSpace

\* Only the bounds of the tables are changed.
Rebounds(f, g) == g \in FileType /\ SameHeader(f, g) /\ SameTables(f, g)

LEMMA Rebounded ==
    ASSUME NEW f, NEW g, NEW U, Good(f, U), Rebounds(f, g)
    PROVE  /\ Good(g, U) /\ (Full(f, U) => Full(g, U)) /\ StaysPending(f, g)
           /\ \A o \in Owner : SpaceOf(g, o) = SpaceOf(f, o)
<1>1. /\ g.free = f.free /\ g.size = f.size /\ Owned(g) = Owned(f) /\ g.l2 = f.l2
      /\ \A o \in Owner : SpaceOf(g, o) = SpaceOf(f, o)
    BY SameTablesFacts DEF Rebounds, SameHeader, SameTables
<1>2. Counted(g)
    BY DEF Rebounds, SameHeader, Good, Counted
<1>3. Placed(g)
    BY <1>1 DEF Good, Placed
<1>4. Apart(g, U)
    BY <1>1 DEF Good, Apart
<1>5. Full(f, U) => Full(g, U)
    BY <1>1 DEF Full
<1>6. StaysPending(f, g)
    BY <1>1 DEF StaysPending
<1> QED BY <1>1, <1>2, <1>3, <1>4, <1>5, <1>6 DEF Good

LEMMA ReboundsTo ==
    ASSUME NEW f \in FileType, NEW n \in Int
    PROVE  Rebounds(f, [f EXCEPT !.bounds = n])
BY DEF Rebounds, SameHeader, SameTables, FileType

\* cckd_write_l2 puts the table into the level 1 table after it released the old one.
LEMMA RelSpaceBefore ==
    ASSUME NEW f \in FileType, NEW x, NEW v, NEW pos, NEW n, NEW size
    PROVE  [RelSpace(f, pos, n, size) EXCEPT !.l1[x] = v] = RelSpace([f EXCEPT !.l1[x] = v], pos, n, size)
<1> DEFINE h == [f EXCEPT !.l1[x] = v]
<1>1. /\ h.free = f.free /\ h.number = f.number /\ h.used = f.used /\ h.total = f.total
      /\ h.imbed = f.imbed /\ h.largest = f.largest
    BY DEF FileType
<1>2. CASE pos = 0
    BY <1>2 DEF RelSpace
<1>3. CASE pos # 0
  <2> DEFINE p(q) == Cardinality({i \in DOMAIN q : q[i].pos <= pos})
             joins(q) == /\ p(q) > 0
                         /\ q[p(q)].pos + q[p(q)].len = pos
                         /\ q[p(q)].pending = Pend
             free(q) == IF joins(q) THEN [q EXCEPT ![p(q)].len = @ + size]
                        ELSE InsertAt(q, p(q) + 1, [pos |-> pos, len |-> size, pending |-> Pend])
             fsize(q) == IF joins(q) THEN free(q)[p(q)].len ELSE size
             To(k, q) == [k EXCEPT !.free = free(q),
                                   !.number = IF joins(q) THEN @ ELSE @ + 1,
                                   !.used = @ - n, !.total = @ + n, !.imbed = @ - (size - n),
                                   !.largest = IF Pend = 0 /\ fsize(q) > @ THEN fsize(q) ELSE @]
  <2>1. \A k : RelSpace(k, pos, n, size) = To(k, k.free)
      BY <1>3 DEF RelSpace
  <2>2. [To(f, f.free) EXCEPT !.l1[x] = v] = To(h, f.free)
    <3> HIDE DEF free, joins, fsize
    <3> QED BY DEF FileType
  <2>3. To(h, h.free) = To(h, f.free)
    <3> HIDE DEF To, h
    <3> QED BY <1>1
  <2>4. RelSpace(f, pos, n, size) = To(f, f.free) /\ RelSpace(h, pos, n, size) = To(h, h.free)
    <3> HIDE DEF To, h
    <3> QED BY <2>1
  <2> HIDE DEF To
  <2> QED BY <2>2, <2>3, <2>4
<1> QED BY <1>2, <1>3

Results == [file : FileType, ok : BOOLEAN, after : Nat]

HeldAll(f, g) == \A u \in Releases(f, g) : Held(g, u, Pend)

\* A level 2 table was written, or there was no space for it.
WroteL2(f, U, r) ==
    /\ r \in Results /\ Good(r.file, U) /\ StaysPending(f, r.file)
    /\ r.file.l2 = f.l2
    /\ IF r.ok THEN /\ Full(f, U) => Full(r.file, U)
                    /\ r.file.imbed = f.imbed
                    /\ HeldAll(f, r.file)
       ELSE r.file.l1 = f.l1

\* The units T, none or as many as a table needs, are in hand for the table at pos.
ForTable(f, U, h, pos, T) ==
    /\ Good(h, U \cup T) /\ U \cap T = {}
    /\ Full(f, U) => Full(h, U \cup T)
    /\ h.imbed = f.imbed /\ SameTables(f, h) /\ StaysPending(f, h)
    /\ pos \in Nat /\ T = pos..(pos + (IF pos = 0 THEN 0 ELSE L2Size) - 1)
    /\ pos = 0 \/ (First <= pos /\ pos + L2Size <= h.size)

LEMMA TableMoved ==
    ASSUME NEW f, NEW U, NEW h, NEW pos, NEW T, ForTable(f, U, h, pos, T), NEW x \in Table
    PROVE  WroteL2(f, U, Result([RelSpace(h, f.l1[x], L2Size, L2Size) EXCEPT !.l1[x] = pos], TRUE, 0))
<1> DEFINE old == f.l1[x]
           own == OfTable(x)
           k == [h EXCEPT !.l1[x] = pos]
           W == Units(SpaceOf(h, own))
           g == RelSpace(k, old, L2Size, L2Size)
<1>1. /\ h \in FileType /\ Counted(h) /\ Placed(h) /\ own \in Owner
      /\ L2Size \in Nat \ {0} /\ First \in Nat \ {0}
    BY OwnerOf, SpaceAssumption DEF ForTable, Good, Counted
<1>2. /\ h.size \in Nat /\ h.imbed \in Int
      /\ h.l1 \in [Table -> Nat] /\ h.l2 \in [Track -> SpaceRec] /\ h.l1 = f.l1 /\ h.l2 = f.l2
    BY <1>1, CountedFacts DEF ForTable, SameTables
<1>3. [RelSpace(h, f.l1[x], L2Size, L2Size) EXCEPT !.l1[x] = pos] = g
    BY <1>1, RelSpaceBefore
<1>4. k \in FileType /\ SameHeader(h, k) /\ k.l2 = h.l2 /\ k.l1 = [h.l1 EXCEPT ![x] = pos]
  <2>1. [h.l1 EXCEPT ![x] = pos] \in [Table -> Nat]
      BY <1>2 DEF ForTable
  <2> QED BY <1>1, <2>1 DEF FileType, SameHeader
<1> HIDE DEF k
<1>5. SpaceOf(k, own) = [pos |-> pos, len |-> IF pos = 0 THEN 0 ELSE L2Size] /\ Units(SpaceOf(k, own)) = T
  <2>1. k.l1[x] = pos
      BY <1>2, <1>4
  <2>2. SpaceOf(k, own) = [pos |-> pos, len |-> IF pos = 0 THEN 0 ELSE L2Size]
      BY <2>1, OwnerOf
  <2> HIDE DEF own
  <2> QED BY <2>2 DEF Units, ForTable
<1>6. Reassigns(h, k, own)
  <2>1. \A o \in Owner : o # own => SpaceOf(k, o) = SpaceOf(h, o)
    <3> SUFFICES ASSUME NEW o \in Owner, o # own PROVE SpaceOf(k, o) = SpaceOf(h, o)
        OBVIOUS
    <3>1. CASE \E t \in Track : o = OfTrack(t)
      <4>1. PICK t \in Track : o = OfTrack(t)
          BY <3>1
      <4>2. /\ SpaceOf(k, o) = [pos |-> k.l2[t].pos, len |-> k.l2[t].size]
            /\ SpaceOf(h, o) = [pos |-> h.l2[t].pos, len |-> h.l2[t].size]
          BY <4>1, OwnerOf
      <4> QED BY <1>4, <4>2
    <3>2. CASE \E y \in Table : o = OfTable(y)
      <4>1. PICK y \in Table : o = OfTable(y)
          BY <3>2
      <4>2. y # x
          BY <4>1
      <4>3. k.l1[y] = h.l1[y]
          BY <1>2, <1>4, <4>2
      <4> QED BY <4>1, <4>3, OwnerOf
    <3> QED BY <3>1, <3>2, OwnerOf
  <2>2. IsPlaced(SpaceOf(k, own), h.size)
      BY <1>1, <1>5 DEF ForTable, IsPlaced
  <2>3. \A t \in Track : k.l2[t].len <= k.l2[t].size
      BY <1>1, <1>4 DEF Placed
  <2> QED BY <1>4, <2>1, <2>2, <2>3 DEF Reassigns
<1>7. /\ Good(k, U \cup W) /\ U \cap W = {}
      /\ Full(h, U \cup T) => Full(k, U \cup W)
      /\ StaysPending(h, k) /\ Releases(h, k) \subseteq W
  <2>1. Good(h, U \cup Units(SpaceOf(k, own))) /\ U \cap Units(SpaceOf(k, own)) = {}
      BY <1>5 DEF ForTable
  <2> HIDE DEF own
  <2>2. Handed(h, k, U, Units(SpaceOf(k, own)), Units(SpaceOf(h, own)))
      BY <1>1, <1>6, <2>1, Reassigned
  <2> QED BY <1>5, <2>2 DEF Handed
<1>8. Released(k, U, W, g) /\ g.imbed = k.imbed
  <2>1. SpaceOf(h, own) = [pos |-> old, len |-> IF old = 0 THEN 0 ELSE L2Size] /\ old \in Nat
      BY <1>2, OwnerOf
  <2>2. IsPlaced(SpaceOf(h, own), h.size)
      BY <1>1 DEF Placed
  <2>3. CASE old = 0
    <3>1. W = {}
      <4> HIDE DEF own, old
      <4> QED BY <2>1, <2>3 DEF Units
    <3>2. g = k
        BY <2>3 DEF RelSpace
    <3>3. U \cup W = U
        BY <3>1
    <3> HIDE DEF g, W
    <3>4. StaysPending(k, g) /\ SameTables(k, g)
        BY <3>2 DEF StaysPending, SameTables
    <3> QED BY <1>7, <3>1, <3>2, <3>3, <3>4 DEF Released
  <2>4. CASE old # 0
    <3>1. W = old..(old + L2Size - 1)
      <4> HIDE DEF own, old
      <4> QED BY <2>1, <2>4 DEF Units
    <3>2. First <= old
      <4> HIDE DEF own, old
      <4> QED BY <2>1, <2>2, <2>4 DEF IsPlaced
    <3>3. PICK p \in Nat : p = old
        BY <2>1
    <3>4. PICK s \in Nat \ {0} : s = L2Size
        BY <1>1
    <3> HIDE DEF old, W, g
    <3>5. W = p..(p + s - 1) /\ First <= p /\ s \in Nat
        BY <3>1, <3>2, <3>3, <3>4
    <3>6. Released(k, U, W, RelSpace(k, p, s, s)) /\ RelSpace(k, p, s, s).imbed = k.imbed - (s - s)
      <4>1. PICK n \in Nat : n = s
          BY <3>5
      <4>2. ToRelease(k, U, p, s, W)
          BY <1>7, <3>5 DEF ToRelease
      <4>4. Released(k, U, W, RelSpace(k, p, n, s)) /\ RelSpace(k, p, n, s).imbed = k.imbed - (s - n)
          BY <4>2, RelSpaceReleases
      <4> QED BY <4>1, <4>4
    <3>7. g = RelSpace(k, p, s, s)
        BY <3>3, <3>4 DEF g
    <3>8. k.imbed - (s - s) = k.imbed
      <4>1. k.imbed \in Int
          BY <1>4 DEF FileType
      <4> QED BY <4>1
    <3> QED BY <3>6, <3>7, <3>8
  <2> QED BY <2>3, <2>4
<1> HIDE DEF g, W, own, old
<1>9. /\ Good(g, U) /\ SameTables(k, g) /\ StaysPending(k, g)
      /\ Full(k, U \cup W) => Full(g, U)
      /\ \A u \in W : Held(g, u, Pend)
    BY <1>8 DEF Released
<1>10. g \in FileType
    BY <1>9 DEF Good, Counted
<1>11. g.imbed = f.imbed
    BY <1>4, <1>8 DEF SameHeader, ForTable
<1>12. Full(f, U) => Full(g, U)
    BY <1>7, <1>9 DEF ForTable
<1>13. StaysPending(f, g)
  <2>1. StaysPending(f, h)
      BY DEF ForTable
  <2>2. StaysPending(f, k)
      BY <1>7, <2>1, StaysPendingOn
  <2> QED BY <1>9, <2>2, StaysPendingOn
<1>14. HeldAll(f, g)
  <2>1. \A o \in Owner : SpaceOf(h, o) = SpaceOf(f, o) /\ SpaceOf(g, o) = SpaceOf(k, o)
    <3>1. SameTables(f, h)
        BY DEF ForTable
    <3> QED BY <1>9, <3>1, SameTablesFacts
  <2>2. Releases(f, g) = Releases(h, k)
      BY <2>1 DEF Releases
  <2> QED BY <1>7, <1>9, <2>2 DEF HeldAll
<1>15. g.l2 = f.l2
    BY <1>2, <1>4, <1>9 DEF SameTables
<1> DEFINE r == Result(g, TRUE, 0)
<1>16. r \in Results /\ r.file = g /\ r.ok = TRUE
    BY <1>10 DEF Result, Results
<1> HIDE DEF r
<1>17. WroteL2(f, U, r)
    BY <1>9, <1>11, <1>12, <1>13, <1>14, <1>15, <1>16 DEF WroteL2
<1> QED BY <1>3, <1>17 DEF r, g, old

LEMMA WriteL2Writes ==
    ASSUME NEW f, NEW U, Good(f, U), NEW x \in Table
    PROVE  WroteL2(f, U, WriteL2(f, x))
<1> DEFINE old == f.l1[x]
           b == [f EXCEPT !.bounds = IF old = 0 THEN @ + L2Size ELSE @]
           c == [b EXCEPT !.bounds = @ - L2Size]
           to == GetSpace(b, L2Size, TRUE, FALSE)
<1>1. f \in FileType /\ f.bounds \in Int /\ f.imbed \in Int /\ L2Size \in Nat \ {0}
    BY CountedFacts, SpaceAssumption DEF Good, Counted
<1>2. b \in FileType /\ b.bounds \in Int /\ Rebounds(f, b)
  <2>1. PICK n \in Int : n = IF old = 0 THEN f.bounds + L2Size ELSE f.bounds
      BY <1>1
  <2>2. b = [f EXCEPT !.bounds = n]
      BY <2>1
  <2>3. Rebounds(f, [f EXCEPT !.bounds = n])
      BY <1>1, ReboundsTo
  <2> HIDE DEF b
  <2>4. Rebounds(f, b)
      BY <2>2, <2>3
  <2> QED BY <2>4 DEF Rebounds, FileType
<1> HIDE DEF b
<1>3. /\ Good(b, U) /\ (Full(f, U) => Full(b, U)) /\ StaysPending(f, b)
      /\ b.imbed = f.imbed /\ b.l1 = f.l1 /\ b.l2 = f.l2
    BY <1>2, Rebounded DEF Rebounds, SameHeader, SameTables
<1>4. CASE TableEmpty(f, x)
  <2>1. WriteL2(f, x) = Result([RelSpace(c, old, L2Size, L2Size) EXCEPT !.l1[x] = 0], TRUE, 0)
      BY <1>4 DEF WriteL2, b
  <2>2. Rebounds(b, c)
    <3>1. PICK n \in Int : n = b.bounds - L2Size
        BY <1>1, <1>2
    <3>2. c = [b EXCEPT !.bounds = n]
        BY <3>1
    <3>3. Rebounds(b, [b EXCEPT !.bounds = n])
        BY <1>2, ReboundsTo
    <3> HIDE DEF c
    <3> QED BY <3>2, <3>3
  <2> HIDE DEF c
  <2>3. /\ Good(c, U) /\ (Full(b, U) => Full(c, U)) /\ StaysPending(b, c)
        /\ c.imbed = b.imbed /\ c.l1 = b.l1 /\ c.l2 = b.l2
      BY <1>3, <2>2, Rebounded DEF Rebounds, SameHeader, SameTables
  <2>4. StaysPending(f, c)
      BY <1>3, <2>3, StaysPendingOn
  <2>5. ForTable(f, U, c, 0, {})
    <3>1. {} = 0..(0 + 0 - 1) /\ U \cup {} = U
        OBVIOUS
    <3> QED BY <1>3, <2>3, <2>4, <3>1 DEF ForTable, SameTables
  <2>6. WroteL2(f, U, Result([RelSpace(c, old, L2Size, L2Size) EXCEPT !.l1[x] = 0], TRUE, 0))
      BY <2>5, TableMoved
  <2> QED BY <2>1, <2>6
<1>5. CASE ~TableEmpty(f, x) /\ to.pos < 0
  <2>1. WriteL2(f, x) = Result(b, FALSE, 0)
      BY <1>5 DEF WriteL2, b
  <2> DEFINE r == Result(b, FALSE, 0)
  <2>2. r \in Results /\ r.file = b /\ r.ok = FALSE
      BY <1>2 DEF Result, Results
  <2> HIDE DEF r
  <2>3. WroteL2(f, U, r)
      BY <1>3, <2>2 DEF WroteL2
  <2> QED BY <2>1, <2>3 DEF r
<1>6. CASE ~TableEmpty(f, x) /\ ~(to.pos < 0)
  <2>1. WriteL2(f, x) = Result([RelSpace(to.file, old, L2Size, L2Size) EXCEPT !.l1[x] = to.pos], TRUE, 0)
      BY <1>6 DEF WriteL2, b
  <2>2. Taken(b, U, L2Size, to) /\ to.size = L2Size
    <3>1. to = [pos |-> -1, size |-> 0, file |-> b] \/ Taken(b, U, L2Size, to)
        BY <1>1, <1>3, GetSpaceTakes
    <3>2. to.pos = -1 \/ to.size = L2Size
        BY GetSpaceExact
    <3> HIDE DEF to
    <3>3. ~(to.pos = -1)
        BY <1>6
    <3> QED BY <3>1, <3>2, <3>3
  <2> HIDE DEF to
  <2> DEFINE h == to.file
             pos == to.pos
             T == InHand(to)
  <2>3. /\ pos \in Nat /\ First <= pos /\ pos + L2Size <= h.size
        /\ Good(h, U \cup T) /\ U \cap T = {} /\ (Full(b, U) => Full(h, U \cup T))
        /\ h.imbed = b.imbed + (L2Size - L2Size) /\ SameTables(b, h) /\ StaysPending(b, h)
        /\ T = pos..(pos + L2Size - 1)
      BY <2>2 DEF Taken, InHand
  <2> HIDE DEF T
  <2>4. pos # 0 /\ T = pos..(pos + (IF pos = 0 THEN 0 ELSE L2Size) - 1)
    <3>1. pos # 0
        BY <2>3, SpaceAssumption
    <3> QED BY <2>3, <3>1
  <2>5. h.imbed = f.imbed
    <3>1. b.imbed + (L2Size - L2Size) = b.imbed
        BY <1>1, <1>3
    <3> QED BY <1>3, <2>3, <3>1
  <2>6. StaysPending(f, h)
      BY <1>3, <2>3, StaysPendingOn
  <2>7. ForTable(f, U, h, pos, T)
      BY <1>3, <2>3, <2>4, <2>5, <2>6 DEF ForTable, SameTables
  <2> HIDE DEF h, pos
  <2>8. WroteL2(f, U, Result([RelSpace(h, old, L2Size, L2Size) EXCEPT !.l1[x] = pos], TRUE, 0))
      BY <2>7, TableMoved
  <2> QED BY <2>1, <2>8 DEF h, pos
<1> QED BY <1>4, <1>5, <1>6

-----------------------------------------------------------------------------
(* cckd_write_l2ent and cckd_write_trkimg *)

LEMMA ReleasesOn ==
    ASSUME NEW f, NEW g, NEW h
    PROVE  Releases(f, h) \subseteq Releases(f, g) \cup Releases(g, h)
<1> SUFFICES ASSUME NEW u \in Releases(f, h), u \notin Releases(f, g) PROVE u \in Releases(g, h)
    OBVIOUS
<1>1. PICK o \in Owner : SpaceOf(f, o) # SpaceOf(h, o) /\ u \in Units(SpaceOf(f, o))
    BY DEF Releases
<1>2. SpaceOf(f, o) = SpaceOf(g, o)
    BY <1>1 DEF Releases
<1> QED BY <1>1, <1>2 DEF Releases

LEMMA ReleasesSame ==
    ASSUME NEW f, NEW g, NEW h, NEW k, SameTables(f, h), SameTables(k, g)
    PROVE  Releases(f, g) = Releases(h, k)
<1>1. \A o \in Owner : SpaceOf(h, o) = SpaceOf(f, o) /\ SpaceOf(g, o) = SpaceOf(k, o)
    BY SameTablesFacts
<1> QED BY <1>1 DEF Releases

LEMMA HeldOn ==
    ASSUME NEW f, Counted(f), NEW g, StaysPending(f, g), NEW u, NEW n \in Nat \ {0}, Held(f, u, n)
    PROVE  Held(g, u, n)
<1>1. PICK d \in On(f.free) : u \in Units(d) /\ d.pending >= n
    BY DEF Held
<1>2. d.pending \in 0..4
  <2>1. Chain(f.free, First, f.size) /\ First \in Int /\ f.size \in Int
      BY CountedFacts
  <2>2. d \in FreeRec
      BY <2>1, ChainFacts
  <2> QED BY <2>2, FreeFields
<1>3. PICK m \in On(g.free) : Units(d) \subseteq Units(m) /\ m.pending = d.pending
    BY <1>1, <1>2 DEF StaysPending
<1> QED BY <1>1, <1>3 DEF Held

\* Held space is not owned.
LEMMA HeldFree ==
    ASSUME NEW f, NEW U, Good(f, U), NEW u, NEW n, Held(f, u, n)
    PROVE  u \notin Owned(f)
<1>1. u \in FreeUnits(f.free)
    BY DEF Held, FreeUnits
<1> QED BY <1>1 DEF Good, Apart

LEMMA NothingDone ==
    ASSUME NEW f
    PROVE  StaysPending(f, f) /\ Releases(f, f) = {} /\ SameTables(f, f)
BY DEF StaysPending, Releases, SameTables

LEMMA WriteL2EntWrites ==
    ASSUME NEW f, NEW t \in Track, NEW l2, NEW g, g = [f EXCEPT !.l2[t] = l2], NEW U, Good(g, U)
    PROVE  WroteL2(g, U, WriteL2Ent(f, t, l2))
<1>1. TableOf[t] \in Table
    BY SpaceAssumption
<1>2. CASE g.l1[TableOf[t]] = 0
  <2>1. WriteL2Ent(f, t, l2) = WriteL2(g, TableOf[t])
      BY <1>2 DEF WriteL2Ent
  <2> QED BY <1>1, <2>1, WriteL2Writes
<1>3. CASE g.l1[TableOf[t]] # 0
  <2> DEFINE r == Result(g, TRUE, 0)
  <2>1. WriteL2Ent(f, t, l2) = r
      BY <1>3 DEF WriteL2Ent
  <2>2. r \in Results /\ r.file = g /\ r.ok = TRUE
      BY DEF Result, Results, Good, Counted
  <2> HIDE DEF r
  <2>3. WroteL2(g, U, r)
      BY <2>2, NothingDone DEF WroteL2, HeldAll
  <2> QED BY <2>1, <2>3
<1> QED BY <1>2, <1>3

\* No unit is in hand, none is lost.
Sound(f) == Good(f, {}) /\ Full(f, {}) /\ Imbed(f, 0)

\* What was in c became r.
Reached(c, r) ==
    /\ r \in Results /\ StaysPending(c, r.file)
    /\ IF r.ok THEN Sound(r.file) /\ (Pend > 0 => HeldAll(c, r.file))
       ELSE Good(r.file, {}) /\ (Pend > 0 => Releases(c, r.file) \cap Owned(r.file) = {})

LEMMA GoodLess ==
    ASSUME NEW f, NEW U, Good(f, U)
    PROVE  Good(f, {})
BY DEF Good, Apart

LEMMA ReachedAtOnce ==
    ASSUME NEW f, Sound(f), NEW ok \in BOOLEAN
    PROVE  Reached(f, Result(f, ok, 0))
<1> DEFINE r == Result(f, ok, 0)
<1>1. r \in Results /\ r.file = f /\ r.ok = ok
    BY DEF Result, Results, Sound, Good, Counted
<1> HIDE DEF r
<1>2. Reached(f, r)
    BY <1>1, NothingDone DEF Reached, Sound, HeldAll
<1> QED BY <1>2 DEF r

\* The space of the old image, if it has one, is released.
LEMMA OldReleased ==
    ASSUME NEW f, NEW W, Good(f, W), NEW old \in SpaceRec, old.len <= old.size,
           W = Units([pos |-> old.pos, len |-> old.size]),
           NEW b \in Nat, IsPlaced([pos |-> old.pos, len |-> old.size], b)
    PROVE  LET g == RelSpace(f, old.pos, old.len, old.size) IN
           Released(f, {}, W, g) /\ g.imbed = f.imbed - (old.size - old.len)
<1> DEFINE g == RelSpace(f, old.pos, old.len, old.size)
<1>1. old.pos \in Nat /\ old.len \in Nat /\ old.size \in Nat /\ old.len <= old.size
    BY DEF SpaceRec
<1>2. CASE old.pos = 0
  <2>1. old.size = 0 /\ old.len = 0
      BY <1>1, <1>2, SpaceAssumption DEF IsPlaced
  <2>2. W = {} /\ {} \cup W = {}
      BY <1>1, <1>2, <2>1 DEF Units
  <2>3. g = f
      BY <1>2 DEF RelSpace
  <2> HIDE DEF g
  <2>4. Released(f, {}, W, g)
      BY <2>2, <2>3, NothingDone DEF Released
  <2>5. g.imbed = f.imbed - (old.size - old.len)
    <3>1. f.imbed \in Int
        BY CountedFacts DEF Good
    <3>2. f.imbed - (0 - 0) = f.imbed
        BY <3>1
    <3> QED BY <2>1, <2>3, <3>2
  <2> QED BY <2>4, <2>5 DEF g
<1>3. CASE old.pos # 0
  <2>1. First <= old.pos /\ old.size > 0
      BY <1>1, <1>3 DEF IsPlaced
  <2>2. W = old.pos..(old.pos + old.size - 1) /\ {} \cup W = W /\ {} \cap W = {}
      BY DEF Units
  <2>3. ToRelease(f, {}, old.pos, old.size, W)
      BY <1>1, <2>1, <2>2 DEF ToRelease
  <2> QED BY <1>1, <2>3, RelSpaceReleases
<1> QED BY <1>2, <1>3

\* The units T, none for a null track, are in hand for an image of that length.
ForImage(f, h, new, T) ==
    /\ new \in SpaceRec /\ new.len <= new.size
    /\ T = Units([pos |-> new.pos, len |-> new.size])
    /\ Good(h, T) /\ Full(h, T)
    /\ h.imbed = f.imbed + (new.size - new.len)
    /\ SameTables(f, h) /\ StaysPending(f, h)
    /\ IsPlaced([pos |-> new.pos, len |-> new.size], h.size)

WithImage(h, t, new) == [h EXCEPT !.l2[t] = new]

\* The image has the new space in k, and the units W of the old one are in hand.
ImageIn(f, k, t, W) ==
    /\ Good(k, W) /\ Full(k, W)
    /\ k.imbed = Cardinality(Imbedded(k)) + (f.l2[t].size - f.l2[t].len)
    /\ StaysPending(f, k) /\ Releases(f, k) \subseteq W /\ W \cap Owned(k) = {}

LEMMA ImageMoved ==
    ASSUME NEW f, Sound(f), NEW h, NEW new, NEW T, ForImage(f, h, new, T), NEW t \in Track,
           NEW k, k = WithImage(h, t, new)
    PROVE  ImageIn(f, k, t, Units(SpaceOf(f, OfTrack(t))))
<1> DEFINE own == OfTrack(t)
           W == Units(SpaceOf(f, own))
           old == f.l2[t]
<1>1. /\ h \in FileType /\ Counted(h) /\ Placed(h) /\ own \in Owner
      /\ Counted(f) /\ Placed(f) /\ Imbed(f, 0)
      /\ new.pos \in Nat /\ new.len \in Nat /\ new.size \in Nat /\ new.len <= new.size
    BY OwnerOf DEF ForImage, Good, Counted, Sound, SpaceRec
<1>2. /\ h.size \in Nat /\ h.l1 = f.l1 /\ h.l2 = f.l2
      /\ f.size \in Nat /\ f.imbed \in Int
      /\ f.l1 \in [Table -> Nat] /\ f.l2 \in [Track -> SpaceRec]
    BY <1>1, CountedFacts DEF ForImage, SameTables
<1>3. k \in FileType /\ SameHeader(h, k) /\ k.l1 = h.l1 /\ k.l2 = [h.l2 EXCEPT ![t] = new]
  <2>1. [h.l2 EXCEPT ![t] = new] \in [Track -> SpaceRec]
      BY <1>2 DEF ForImage
  <2> QED BY <1>1, <2>1 DEF FileType, SameHeader, WithImage
<1>4. k.l2[t] = new /\ \A x \in Track : x # t => k.l2[x] = f.l2[x]
    BY <1>2, <1>3
<1>5. SpaceOf(k, own) = [pos |-> new.pos, len |-> new.size] /\ Units(SpaceOf(k, own)) = T
  <2>1. SpaceOf(k, own) = [pos |-> new.pos, len |-> new.size]
    <3>1. SpaceOf(k, OfTrack(t)) = [pos |-> k.l2[t].pos, len |-> k.l2[t].size]
        BY OwnerOf
    <3> QED BY <1>4, <3>1
  <2> QED BY <2>1 DEF ForImage
<1>6. Reassigns(h, k, own)
  <2>1. \A o \in Owner : o # own => SpaceOf(k, o) = SpaceOf(h, o)
    <3> SUFFICES ASSUME NEW o \in Owner, o # own PROVE SpaceOf(k, o) = SpaceOf(h, o)
        OBVIOUS
    <3>1. CASE \E x \in Track : o = OfTrack(x)
      <4>1. PICK x \in Track : o = OfTrack(x)
          BY <3>1
      <4>2. x # t
          BY <4>1
      <4>3. k.l2[x] = h.l2[x]
          BY <1>2, <1>4, <4>2
      <4>4. /\ SpaceOf(k, o) = [pos |-> k.l2[x].pos, len |-> k.l2[x].size]
            /\ SpaceOf(h, o) = [pos |-> h.l2[x].pos, len |-> h.l2[x].size]
          BY <4>1, OwnerOf
      <4> QED BY <4>3, <4>4
    <3>2. CASE \E y \in Table : o = OfTable(y)
      <4>1. PICK y \in Table : o = OfTable(y)
          BY <3>2
      <4>2. /\ SpaceOf(k, o) = [pos |-> k.l1[y], len |-> IF k.l1[y] = 0 THEN 0 ELSE L2Size]
            /\ SpaceOf(h, o) = [pos |-> h.l1[y], len |-> IF h.l1[y] = 0 THEN 0 ELSE L2Size]
          BY <4>1, OwnerOf
      <4> QED BY <1>3, <4>2
    <3> QED BY <3>1, <3>2, OwnerOf
  <2>2. IsPlaced(SpaceOf(k, own), h.size)
      BY <1>5 DEF ForImage
  <2>3. \A x \in Track : k.l2[x].len <= k.l2[x].size
      BY <1>1, <1>4 DEF Placed
  <2> QED BY <1>3, <2>1, <2>2, <2>3 DEF Reassigns
<1>7. SpaceOf(h, own) = SpaceOf(f, own) /\ Releases(f, k) = Releases(h, k)
  <2>1. SameTables(f, h) /\ SameTables(k, k)
      BY DEF ForImage, SameTables
  <2>2. \A o \in Owner : SpaceOf(h, o) = SpaceOf(f, o)
      BY <2>1, SameTablesFacts
  <2>3. Releases(f, k) = Releases(h, k)
      BY <2>1, ReleasesSame
  <2> QED BY <1>1, <2>2, <2>3
<1> HIDE DEF own, W
<1>8. /\ Good(k, {} \cup W) /\ Full(k, {} \cup W)
      /\ StaysPending(h, k) /\ Releases(h, k) \subseteq W /\ W \cap Owned(k) = {}
  <2>1. Good(h, {} \cup T) /\ Full(h, {} \cup T) /\ {} \cap T = {}
    <3>1. {} \cup T = T
        OBVIOUS
    <3> QED BY <3>1 DEF ForImage
  <2>p. PICK U : U = {}
      OBVIOUS
  <2>2. Good(h, U \cup Units(SpaceOf(k, own))) /\ U \cap Units(SpaceOf(k, own)) = {}
      BY <1>5, <2>1, <2>p
  <2>3. Handed(h, k, U, Units(SpaceOf(k, own)), Units(SpaceOf(h, own)))
      BY <1>1, <1>6, <2>2, Reassigned
  <2> QED BY <1>5, <1>7, <2>1, <2>3, <2>p DEF W, Handed
<1>9. Good(k, W) /\ Full(k, W)
  <2>1. {} \cup W = W
      OBVIOUS
  <2> QED BY <1>8, <2>1
<1>10. k.imbed = Cardinality(Imbedded(k)) + (old.size - old.len)
  <2>1. ImbeddedBut(k, t) = ImbeddedBut(f, t)
      BY <1>4 DEF ImbeddedBut
  <2>2. /\ Cardinality(Imbedded(f)) = Cardinality(ImbeddedBut(f, t)) + (f.l2[t].size - f.l2[t].len)
        /\ Cardinality(ImbeddedBut(f, t)) \in Nat
      BY <1>1, <1>2, ImbeddedSplit
  <2>3. Cardinality(Imbedded(k)) = Cardinality(ImbeddedBut(k, t)) + (k.l2[t].size - k.l2[t].len)
    <3>1. Placed(k) /\ k.l1 \in [Table -> Nat] /\ k.l2 \in [Track -> SpaceRec] /\ k.size \in Nat
        BY <1>3, <1>9 DEF Good, FileType
    <3> QED BY <3>1, ImbeddedSplit
  <2>4. old.size \in Nat /\ old.len \in Nat
      BY <1>2 DEF SpaceRec
  <2>5. k.imbed = f.imbed + (new.size - new.len) /\ f.imbed = Cardinality(Imbedded(f)) + 0
      BY <1>1, <1>3 DEF SameHeader, ForImage, Imbed
  <2> DEFINE c == Cardinality(ImbeddedBut(f, t))
  <2> HIDE DEF c
  <2>6. /\ c \in Nat /\ Cardinality(Imbedded(f)) = c + (old.size - old.len)
        /\ Cardinality(Imbedded(k)) = c + (new.size - new.len)
      BY <1>4, <2>1, <2>2, <2>3 DEF c
  <2> QED BY <1>1, <2>4, <2>5, <2>6
<1>11. StaysPending(f, k)
    BY <1>8, StaysPendingOn DEF ForImage
<1> QED BY <1>7, <1>8, <1>9, <1>10, <1>11 DEF W, own, ImageIn

LEMMA WriteTrkimgReaches ==
    ASSUME NEW f, Sound(f), NEW t \in Track, NEW len \in Nat, NEW any
    PROVE  Reached(f, WriteTrkimg(f, t, len, any))
<1> DEFINE old == f.l2[t]
           got == IF len = 0 THEN [pos |-> 0, size |-> 0, file |-> f] ELSE GetSpace(f, len, FALSE, any)
           new == [pos |-> got.pos, len |-> len, size |-> got.size]
           ent == WriteL2Ent(got.file, t, new)
           after == IF old.pos # 0 /\ old.pos < new.pos THEN 1 ELSE 0
           r == WriteTrkimg(f, t, len, any)
           W == Units(SpaceOf(f, OfTrack(t)))
<1>1. Good(f, {}) /\ Full(f, {}) /\ Imbed(f, 0) /\ Counted(f) /\ Placed(f)
    BY DEF Sound, Good
<1>2. /\ f.size \in Nat /\ f.imbed \in Int /\ f.l1 \in [Table -> Nat] /\ f.l2 \in [Track -> SpaceRec]
      /\ old \in SpaceRec /\ old.pos \in Nat /\ old.len \in Nat /\ old.size \in Nat /\ old.len <= old.size
  <2>1. f.size \in Nat /\ f.imbed \in Int /\ f.l1 \in [Table -> Nat] /\ f.l2 \in [Track -> SpaceRec]
      BY <1>1, CountedFacts
  <2>2. old \in SpaceRec /\ old.len <= old.size
      BY <1>1, <2>1 DEF Placed
  <2> QED BY <2>1, <2>2 DEF SpaceRec
<1>3. CASE got.pos < 0
  <2>1. r = Result(f, FALSE, 0)
      BY <1>3 DEF WriteTrkimg
  <2> QED BY <2>1, ReachedAtOnce
<1>4. CASE ~(got.pos < 0)
  <2> DEFINE h == got.file
             T == InHand(got)
             k == [h EXCEPT !.l2[t] = new]
             e == ent.file
             g == RelSpace(e, old.pos, old.len, old.size)
  <2>1. ForImage(f, h, new, T)
    <3>1. CASE len = 0
      <4>1. got.pos = 0 /\ got.size = 0 /\ h = f /\ new = [pos |-> 0, len |-> 0, size |-> 0] /\ T = {}
          BY <3>1 DEF InHand
      <4> HIDE DEF got, T, h, new
      <4>2. new \in SpaceRec /\ new.pos = 0 /\ new.len = 0 /\ new.size = 0
          BY <4>1 DEF SpaceRec
      <4>3. T = Units([pos |-> new.pos, len |-> new.size]) /\ IsPlaced([pos |-> new.pos, len |-> new.size], h.size)
          BY <4>1, <4>2 DEF Units, IsPlaced
      <4>4. h.imbed = f.imbed + (new.size - new.len)
          BY <1>2, <4>1, <4>2
      <4>5. SameTables(f, h) /\ StaysPending(f, h)
          BY <4>1, NothingDone
      <4> QED BY <1>1, <4>1, <4>2, <4>3, <4>4, <4>5 DEF ForImage
    <3>2. CASE len # 0
      <4>1. got = GetSpace(f, len, FALSE, any) /\ len \in Nat \ {0}
          BY <3>2
      <4>2. got = [pos |-> -1, size |-> 0, file |-> f] \/ Taken(f, {}, len, got)
        <5> HIDE DEF got
        <5> QED BY <1>1, <4>1, GetSpaceTakes
      <4>3. Taken(f, {}, len, got)
        <5> HIDE DEF got
        <5>1. ~(got.pos = -1)
            BY <1>4
        <5> QED BY <4>2, <5>1
      <4> HIDE DEF got
      <4>4. /\ got.pos \in Nat /\ got.size \in Nat /\ First <= got.pos /\ len <= got.size
            /\ got.pos + got.size <= h.size
            /\ Good(h, {} \cup T) /\ (Full(f, {}) => Full(h, {} \cup T))
            /\ h.imbed = f.imbed + (got.size - len)
            /\ SameTables(f, h) /\ StaysPending(f, h)
          BY <4>3 DEF Taken
      <4>5. {} \cup T = T /\ T = Units([pos |-> got.pos, len |-> got.size])
          BY DEF InHand, Units
      <4>6. new \in SpaceRec /\ new.pos = got.pos /\ new.len = len /\ new.size = got.size
          BY <4>4 DEF SpaceRec
      <4>7. IsPlaced([pos |-> got.pos, len |-> got.size], h.size)
        <5>1. First <= got.pos /\ got.pos + got.size <= h.size
            BY <4>4
        <5>2. got.size > 0
          <6>1. len <= got.size /\ got.size \in Nat
              BY <4>4
          <6> QED BY <3>2, <6>1
        <5> HIDE DEF h
        <5> QED BY <5>1, <5>2 DEF IsPlaced
      <4> HIDE DEF new, h, T
      <4> QED BY <1>1, <4>4, <4>5, <4>6, <4>7 DEF ForImage
    <3> QED BY <3>1, <3>2
  <2>2. r = IF ~ent.ok THEN ent ELSE Result(g, TRUE, after)
      BY <1>4 DEF WriteTrkimg
  <2>3. /\ Good(k, W) /\ Full(k, W)
        /\ k.imbed = Cardinality(Imbedded(k)) + (old.size - old.len)
        /\ StaysPending(f, k) /\ Releases(f, k) \subseteq W /\ W \cap Owned(k) = {}
    <3>1. k = WithImage(h, t, new)
        BY DEF k, WithImage
    <3> DEFINE V == Units(SpaceOf(f, OfTrack(t)))
    <3> HIDE DEF h, new, T, k, W, old
    <3>2. ImageIn(f, k, t, V)
        BY <2>1, <3>1, ImageMoved
    <3> QED BY <3>2 DEF W, old, ImageIn
  <2>4. WroteL2(k, W, ent)
    <3>1. Good(k, W)
        BY <2>3
    <3>2. k = [h EXCEPT !.l2[t] = new] /\ ent = WriteL2Ent(h, t, new)
        OBVIOUS
    <3> HIDE DEF h, new, k, W, ent
    <3> QED BY <3>1, <3>2, WriteL2EntWrites
  <2>5. after \in Nat
      OBVIOUS
  <2>6. W = Units([pos |-> old.pos, len |-> old.size]) /\ IsPlaced([pos |-> old.pos, len |-> old.size], f.size)
    <3>1. SpaceOf(f, OfTrack(t)) = [pos |-> old.pos, len |-> old.size] /\ OfTrack(t) \in Owner
        BY OwnerOf
    <3>2. IsPlaced(SpaceOf(f, OfTrack(t)), f.size)
        BY <1>1, <3>1 DEF Placed
    <3> QED BY <3>1, <3>2
  <2> HIDE DEF got, new, ent, h, k, after, W, r, g, e, T
  <2>7. ent \in Results /\ Good(e, W) /\ StaysPending(k, e) /\ e.l2 = k.l2
      BY <2>4 DEF WroteL2, e
  <2>8. StaysPending(f, e)
      BY <2>3, <2>7, StaysPendingOn
  <2>9. CASE ~ent.ok
    <3>1. SameTables(k, e)
        BY <2>4, <2>9 DEF WroteL2, e, SameTables
    <3>2. Owned(e) = Owned(k)
        BY <3>1, SameTablesFacts
    <3>3. Releases(f, e) = Releases(f, k)
        BY <3>1, NothingDone, ReleasesSame
    <3>4. Releases(f, e) \cap Owned(e) = {}
        BY <2>3, <3>2, <3>3
    <3>5. Good(e, {})
        BY <2>7, GoodLess
    <3>6. Reached(f, ent)
        BY <2>7, <2>8, <2>9, <3>4, <3>5 DEF Reached, e
    <3> QED BY <2>2, <2>9, <3>6 DEF r
  <2>10. CASE ent.ok
    <3>1. Full(e, W) /\ e.imbed = k.imbed /\ HeldAll(k, e)
        BY <2>3, <2>4, <2>10 DEF WroteL2, e
    <3>2. Released(e, {}, W, g) /\ g.imbed = e.imbed - (old.size - old.len)
      <4> HIDE DEF old
      <4> QED BY <1>2, <2>6, <2>7, OldReleased DEF g
    <3>3. /\ Good(g, {}) /\ SameTables(e, g) /\ StaysPending(e, g)
          /\ Full(e, {} \cup W) => Full(g, {})
          /\ \A u \in W : Held(g, u, Pend)
        BY <3>2 DEF Released
    <3>4. Full(g, {})
      <4>1. {} \cup W = W
          OBVIOUS
      <4> QED BY <3>1, <3>3, <4>1
    <3>5. Imbed(g, 0)
      <4>1. Imbedded(g) = Imbedded(k)
          BY <2>7, <3>3 DEF SameTables, Imbedded
      <4>2. k.imbed \in Int /\ k.imbed = Cardinality(Imbedded(k)) + (old.size - old.len)
          BY <2>3, CountedFacts DEF Good
      <4>3. Cardinality(Imbedded(k)) \in Nat
        <5>1. /\ Cardinality(Imbedded(k)) = Cardinality(ImbeddedBut(k, t)) + (k.l2[t].size - k.l2[t].len)
              /\ Cardinality(ImbeddedBut(k, t)) \in Nat /\ Placed(k) /\ k.l2 \in [Track -> SpaceRec]
          <6>1. k.l1 \in [Table -> Nat] /\ k.l2 \in [Track -> SpaceRec] /\ k.size \in Nat /\ Placed(k)
              BY <2>3, CountedFacts DEF Good
          <6> QED BY <6>1, ImbeddedSplit
        <5>2. k.l2[t].size \in Nat /\ k.l2[t].len \in Nat /\ k.l2[t].len <= k.l2[t].size
            BY <5>1 DEF SpaceRec, Placed
        <5> QED BY <5>1, <5>2
      <4>4. g.imbed = Cardinality(Imbedded(k)) + 0
          BY <1>2, <3>1, <3>2, <4>2, <4>3
      <4> QED BY <4>1, <4>4 DEF Imbed
    <3>6. StaysPending(f, g)
        BY <2>8, <3>3, StaysPendingOn
    <3>7. ASSUME Pend > 0 PROVE HeldAll(f, g)
      <4> SUFFICES ASSUME NEW u \in Releases(f, g) PROVE Held(g, u, Pend)
          BY DEF HeldAll
      <4>1. Releases(f, g) = Releases(f, e)
          BY <3>3, NothingDone, ReleasesSame
      <4>2. u \in Releases(f, k) \/ u \in Releases(k, e)
          BY <4>1, ReleasesOn
      <4>3. CASE u \in Releases(f, k)
          BY <2>3, <3>3, <4>3
      <4>4. CASE u \in Releases(k, e)
        <5>1. Held(e, u, Pend) /\ Counted(e) /\ Pend \in Nat \ {0}
            BY <2>7, <3>1, <3>7, <4>4, PendType DEF HeldAll, Good
        <5> QED BY <3>3, <5>1, HeldOn
      <4> QED BY <4>2, <4>3, <4>4
    <3> DEFINE s == Result(g, TRUE, after)
    <3>8. s \in Results /\ s.file = g /\ s.ok = TRUE
        BY <2>5, <3>3 DEF Result, Results, Good, Counted
    <3> HIDE DEF s
    <3>9. Reached(f, s)
        BY <3>3, <3>4, <3>5, <3>6, <3>7, <3>8 DEF Reached, Sound
    <3> QED BY <2>2, <2>10, <3>9 DEF r, s
  <2> QED BY <2>7, <2>9, <2>10 DEF Results
<1> QED BY <1>3, <1>4

-----------------------------------------------------------------------------
(* The garbage collector *)

LEMMA ReachedOn ==
    ASSUME NEW c, NEW r, Reached(c, r), r.ok, NEW s, Reached(r.file, s)
    PROVE  Reached(c, s)
<1> DEFINE f == r.file
           g == s.file
<1>1. Sound(f) /\ Counted(f) /\ StaysPending(c, f) /\ (Pend > 0 => HeldAll(c, f))
    BY DEF Reached, Sound, Good
<1>2. s \in Results /\ StaysPending(f, g) /\ Good(g, {})
    BY DEF Reached, Sound
<1> HIDE DEF f, g
<1>3. StaysPending(c, g)
    BY <1>1, <1>2, StaysPendingOn
<1>4. ASSUME Pend > 0, NEW u \in Releases(c, f) PROVE Held(g, u, Pend)
  <2>1. Held(f, u, Pend) /\ Pend \in Nat \ {0}
      BY <1>1, <1>4, PendType DEF HeldAll
  <2> QED BY <1>1, <1>2, <2>1, HeldOn
<1>5. CASE s.ok
  <2>1. Sound(g) /\ (Pend > 0 => HeldAll(f, g))
      BY <1>5 DEF Reached, f, g
  <2>2. ASSUME Pend > 0 PROVE HeldAll(c, g)
    <3> SUFFICES ASSUME NEW u \in Releases(c, g) PROVE Held(g, u, Pend)
        BY DEF HeldAll
    <3>1. u \in Releases(c, f) \/ u \in Releases(f, g)
        BY ReleasesOn
    <3> QED BY <1>4, <2>1, <2>2, <3>1 DEF HeldAll
  <2> QED BY <1>2, <1>3, <1>5, <2>1, <2>2 DEF Reached, g
<1>6. CASE ~s.ok
  <2>1. Pend > 0 => Releases(f, g) \cap Owned(g) = {}
      BY <1>6 DEF Reached, f, g
  <2>2. ASSUME Pend > 0 PROVE Releases(c, g) \cap Owned(g) = {}
    <3> SUFFICES ASSUME NEW u \in Releases(c, g) PROVE u \notin Owned(g)
        OBVIOUS
    <3>1. u \in Releases(c, f) \/ u \in Releases(f, g)
        BY ReleasesOn
    <3>2. CASE u \in Releases(c, f)
      <4>1. Held(g, u, Pend)
          BY <1>4, <2>2, <3>2
      <4> QED BY <1>2, <4>1, HeldFree
    <3>3. CASE u \in Releases(f, g)
        BY <2>1, <2>2, <3>3
    <3> QED BY <3>1, <3>2, <3>3
  <2> QED BY <1>2, <1>3, <1>6, <2>2 DEF Reached, g
<1> QED BY <1>5, <1>6

LEMMA WriteL2Reaches ==
    ASSUME NEW f, Sound(f), NEW x \in Table
    PROVE  Reached(f, WriteL2(f, x))
<1> DEFINE r == WriteL2(f, x)
<1>1. Good(f, {}) /\ Full(f, {}) /\ Imbed(f, 0)
    BY DEF Sound
<1>2. WroteL2(f, {}, r)
    BY <1>1, WriteL2Writes
<1> HIDE DEF r
<1>3. CASE r.ok
  <2>1. Imbed(r.file, 0)
      BY <1>1, <1>2, <1>3 DEF WroteL2, Imbed, Imbedded
  <2>2. Reached(f, r)
      BY <1>1, <1>2, <1>3, <2>1 DEF WroteL2, Reached, Sound
  <2> QED BY <2>2 DEF r
<1>4. CASE ~r.ok
  <2>1. SameTables(f, r.file)
      BY <1>2, <1>4 DEF WroteL2, SameTables
  <2>2. Releases(f, r.file) = {}
    <3>1. Releases(f, r.file) = Releases(r.file, r.file)
        BY <2>1, NothingDone, ReleasesSame
    <3> QED BY <3>1, NothingDone
  <2>3. Reached(f, r)
      BY <1>2, <1>4, <2>2 DEF WroteL2, Reached
  <2> QED BY <2>3 DEF r
<1> QED BY <1>3, <1>4

LEMMA SoundFields ==
    ASSUME NEW f, Sound(f)
    PROVE  /\ f.l1 \in [Table -> Nat]
           /\ \A t \in Track : f.l2[t].pos \in Nat /\ f.l2[t].len \in Nat
<1>1. f.l1 \in [Table -> Nat] /\ f.l2 \in [Track -> SpaceRec]
    BY CountedFacts DEF Sound, Good
<1> QED BY <1>1 DEF SpaceRec

LEMMA ClearBoundsReaches ==
    ASSUME NEW c, NEW r, Reached(c, r)
    PROVE  Reached(c, ClearBounds(r))
<1> DEFINE f == r.file
           low == {f.l2[t].pos : t \in Track} \cap First..(f.bounds - 1)
           t == CHOOSE x \in Track : f.l2[x].pos = Min(low)
<1>1. CASE ~r.ok \/ low = {}
    BY <1>1 DEF ClearBounds
<1>2. CASE ~(~r.ok \/ low = {})
  <2>1. ClearBounds(r) = WriteTrkimg(f, t, f.l2[t].len, FALSE)
      BY <1>2 DEF ClearBounds
  <2>2. Sound(f) /\ \A x \in Track : f.l2[x].pos \in Nat /\ f.l2[x].len \in Nat
    <3>1. Sound(f)
        BY <1>2 DEF Reached
    <3> HIDE DEF f
    <3> QED BY <3>1, SoundFields
  <2>3. low \subseteq Nat /\ low # {}
      BY <1>2, <2>2
  <2>4. Min(low) \in low
    <3> HIDE DEF low
    <3> QED BY <2>3, MinProperties
  <2>5. \E x \in Track : f.l2[x].pos = Min(low)
    <3> DEFINE m == Min(low)
    <3> HIDE DEF m
    <3>1. m \in low
        BY <2>4 DEF m
    <3>2. \E x \in Track : f.l2[x].pos = m
        BY <3>1
    <3> QED BY <3>2 DEF m
  <2>6. t \in Track
    <3> HIDE DEF low, f
    <3> QED BY <2>5
  <2>9. r.ok
      BY <1>2
  <2> HIDE DEF t, low
  <2>7. f.l2[t].len \in Nat
      BY <2>2, <2>6
  <2> HIDE DEF f
  <2>8. Reached(f, WriteTrkimg(f, t, f.l2[t].len, FALSE))
      BY <2>2, <2>6, <2>7, WriteTrkimgReaches
  <2>10. PICK w : w = WriteTrkimg(f, t, f.l2[t].len, FALSE)
      OBVIOUS
  <2>11. Reached(r.file, w)
      BY <2>8, <2>10 DEF f
  <2>12. Reached(c, w)
      BY <2>9, <2>11, ReachedOn
  <2> QED BY <2>1, <2>10, <2>12
<1> QED BY <1>1, <1>2

LEMMA MoveTableReaches ==
    ASSUME NEW c, NEW r, Reached(c, r)
    PROVE  Reached(c, MoveTable(r))
<1> DEFINE f == r.file
           e == Head(f.free)
           ready == f.free # <<>> /\ e.pos < f.bounds /\ e.pending = 0
           fits == e.len = L2Size \/ e.len >= L2Size + 1
           move == {x \in Table : IF fits THEN OutOfBounds(f, x) ELSE e.pos + e.len = f.l1[x]}
<1>1. CASE ~r.ok \/ ~ready \/ move = {}
    BY <1>1 DEF MoveTable
<1>2. CASE ~(~r.ok \/ ~ready \/ move = {})
  <2>1. MoveTable(r) = WriteL2(f, Min(move))
      BY <1>2 DEF MoveTable
  <2>2. move \subseteq Nat /\ move # {} /\ move \subseteq Table
      BY <1>2, SpaceAssumption
  <2>3. Min(move) \in Table
    <3> HIDE DEF move
    <3>1. Min(move) \in move
        BY <2>2, MinProperties
    <3> QED BY <2>2, <3>1
  <2>4. Sound(f) /\ r.ok
      BY <1>2 DEF Reached
  <2> HIDE DEF f, move
  <2>5. Reached(f, WriteL2(f, Min(move)))
      BY <2>3, <2>4, WriteL2Reaches
  <2> QED BY <2>1, <2>4, <2>5, ReachedOn DEF f
<1> QED BY <1>1, <1>2

LEMMA MoveOneReaches ==
    ASSUME NEW c, NEW r, Reached(c, r), NEW o \in Owner, NEW any
    PROVE  Reached(c, MoveOne(r, o, any))
<1> DEFINE f == r.file
           w == IF o[1] = "table" THEN WriteL2(f, o[2]) ELSE WriteTrkimg(f, o[2], f.l2[o[2]].len, any)
           s == [w EXCEPT !.after = @ + r.after]
<1>1. CASE ~r.ok
    BY <1>1 DEF MoveOne
<1>2. CASE r.ok
  <2>1. MoveOne(r, o, any) = s
      BY <1>2 DEF MoveOne
  <2>2. Sound(f) /\ r.after \in Nat
      BY <1>2 DEF Reached, Results
  <2>3. Reached(f, w)
    <3>1. CASE o[1] = "table"
      <4>1. o[2] \in Table
          BY <3>1 DEF Owner
      <4> HIDE DEF f
      <4> QED BY <2>2, <3>1, <4>1, WriteL2Reaches
    <3>2. CASE o[1] # "table"
      <4>1. o[2] \in Track
          BY <3>2 DEF Owner
      <4> HIDE DEF f
      <4>2. f.l2[o[2]].len \in Nat
          BY <2>2, <4>1, SoundFields
      <4> QED BY <2>2, <3>2, <4>1, <4>2, WriteTrkimgReaches
    <3> QED BY <3>1, <3>2
  <2> HIDE DEF w, f
  <2>4. s \in Results /\ s.file = w.file /\ s.ok = w.ok
      BY <2>2, <2>3 DEF Reached, Results
  <2> HIDE DEF s
  <2>5. Reached(f, s)
      BY <2>3, <2>4 DEF Reached
  <2> QED BY <1>2, <2>1, <2>5, ReachedOn DEF f
<1> QED BY <1>1, <1>2

LEMMA MovesNatural == Moves \in Nat
<1>1. Cardinality(Track) \in Nat /\ Cardinality(Table) \in Nat
    BY SpaceAssumption, FS_CardinalityType
<1> QED BY <1>1 DEF Moves

\* cleared[n] and moved[n] are what n steps of the collector reach.
LEMMA ClearAllReaches ==
    ASSUME NEW c, Sound(c)
    PROVE  Reached(c, ClearAll(c))
<1> DEFINE L == Moves
           V == {v \in Results : Reached(c, v)}
           F == [n \in 1..L |-> [v \in V |-> ClearBounds(v)]]
<1>1. L \in Nat
    BY MovesNatural
<1>2. Result(c, TRUE, 0) \in V
    BY ReachedAtOnce DEF Reached
<1>3. \A n \in 1..L, v \in V : ClearBounds(v) \in V
    BY ClearBoundsReaches DEF Reached
<1>4. F \in [1..L -> [V -> V]]
    BY <1>3
<1>5. PICK f \in [0..L -> V] : f[0] = Result(c, TRUE, 0) /\ \A n \in 1..L : f[n] = F[n][f[n - 1]]
  <2> HIDE DEF F, L, V
  <2>1. \E f \in [0..L -> V] : Unfolds(f, L, Result(c, TRUE, 0), F)
      BY <1>1, <1>2, <1>4, RecursionTo
  <2> QED BY <2>1 DEF Unfolds
<1> DEFINE Def(g) == [n \in 0..L |-> IF n = 0 THEN Result(c, TRUE, 0) ELSE ClearBounds(g[n - 1])]
           h == CHOOSE g : g = Def(g)
<1> HIDE DEF L, V
<1>6. f = Def(f)
  <2>1. \A n \in 0..L : n # 0 => n \in 1..L /\ n - 1 \in 0..L
      BY <1>1
  <2>2. ASSUME NEW n \in 0..L PROVE f[n] = IF n = 0 THEN Result(c, TRUE, 0) ELSE ClearBounds(f[n - 1])
      BY <1>5, <2>1
  <2> QED BY <2>2
<1>7. h = Def(h)
  <2> HIDE DEF Def
  <2> QED BY <1>6
<1> HIDE DEF h
<1>8. h[0] = Result(c, TRUE, 0) /\ \A n \in 1..L : h[n] = ClearBounds(h[n - 1])
  <2>1. 0 \in 0..L /\ \A n \in 1..L : n \in 0..L /\ n # 0
      BY <1>1
  <2>2. \A n \in 0..L : h[n] = IF n = 0 THEN Result(c, TRUE, 0) ELSE ClearBounds(h[n - 1])
      BY <1>7
  <2> QED BY <2>1, <2>2
<1>9. h[L] \in V
  <2> DEFINE S == {n \in 0..L : h[n] \in V}
  <2>1. 0 \in S
    <3>1. h[0] \in V
      <4>1. h[0] = Result(c, TRUE, 0)
          BY <1>8
      <4> QED BY <1>2, <4>1, Zenon
    <3>2. 0 \in 0..L
        BY <1>1
    <3> QED BY <3>1, <3>2
  <2>2. ASSUME NEW n \in 1..L, n - 1 \in S PROVE n \in S
    <3>1. h[n - 1] \in V /\ n \in 0..L
        BY <1>1, <2>2
    <3>2. ClearBounds(h[n - 1]) \in V
        BY <1>3, <3>1
    <3> QED BY <1>8, <3>1, <3>2
  <2>3. \A n \in 0..L : n \in S
    <3> HIDE DEF S
    <3> QED BY <1>1, <2>1, <2>2, InductionTo
  <2> QED BY <1>1, <2>3
<1>10. ClearAll(c) = h[L]
    BY DEF ClearAll, h, L
<1> QED BY <1>9, <1>10 DEF V

LEMMA MoveTablesReach ==
    ASSUME NEW c, NEW r, Reached(c, r)
    PROVE  Reached(c, MoveTables(r))
<1> DEFINE L == Moves
           V == {v \in Results : Reached(c, v)}
           F == [n \in 1..L |-> [v \in V |-> MoveTable(v)]]
<1>1. L \in Nat
    BY MovesNatural
<1>2. r \in V
    BY DEF Reached
<1>3. \A n \in 1..L, v \in V : MoveTable(v) \in V
    BY MoveTableReaches DEF Reached
<1>4. F \in [1..L -> [V -> V]]
    BY <1>3
<1>5. PICK f \in [0..L -> V] : f[0] = r /\ \A n \in 1..L : f[n] = F[n][f[n - 1]]
  <2> HIDE DEF F, L, V
  <2>1. \E f \in [0..L -> V] : Unfolds(f, L, r, F)
      BY <1>1, <1>2, <1>4, RecursionTo
  <2> QED BY <2>1 DEF Unfolds
<1> DEFINE Def(g) == [n \in 0..L |-> IF n = 0 THEN r ELSE MoveTable(g[n - 1])]
           h == CHOOSE g : g = Def(g)
<1> HIDE DEF L, V
<1>6. f = Def(f)
  <2>1. \A n \in 0..L : n # 0 => n \in 1..L /\ n - 1 \in 0..L
      BY <1>1
  <2>2. ASSUME NEW n \in 0..L PROVE f[n] = IF n = 0 THEN r ELSE MoveTable(f[n - 1])
      BY <1>5, <2>1
  <2> QED BY <2>2
<1>7. h = Def(h)
  <2> HIDE DEF Def
  <2> QED BY <1>6
<1> HIDE DEF h
<1>8. h[0] = r /\ \A n \in 1..L : h[n] = MoveTable(h[n - 1])
  <2>1. 0 \in 0..L /\ \A n \in 1..L : n \in 0..L /\ n # 0
      BY <1>1
  <2>2. \A n \in 0..L : h[n] = IF n = 0 THEN r ELSE MoveTable(h[n - 1])
      BY <1>7
  <2> QED BY <2>1, <2>2
<1>9. h[L] \in V
  <2> DEFINE S == {n \in 0..L : h[n] \in V}
  <2>1. 0 \in S
    <3>1. h[0] \in V
      <4>1. h[0] = r
          BY <1>8
      <4> QED BY <1>2, <4>1, Zenon
    <3>2. 0 \in 0..L
        BY <1>1
    <3> QED BY <3>1, <3>2
  <2>2. ASSUME NEW n \in 1..L, n - 1 \in S PROVE n \in S
    <3>1. h[n - 1] \in V /\ n \in 0..L
        BY <1>1, <2>2
    <3>2. MoveTable(h[n - 1]) \in V
        BY <1>3, <3>1
    <3> QED BY <1>8, <3>1, <3>2
  <2>3. \A n \in 0..L : n \in S
    <3> HIDE DEF S
    <3> QED BY <1>1, <2>1, <2>2, InductionTo
  <2> QED BY <1>1, <2>3
<1>10. MoveTables(r) = h[L]
    BY DEF MoveTables, h, L
<1> QED BY <1>9, <1>10 DEF V

LEMMA GcL2Reaches ==
    ASSUME NEW f, Sound(f)
    PROVE  Reached(f, GcL2(f))
<1>1. Reached(f, Result(f, TRUE, 0))
    BY ReachedAtOnce
<1>2. Reached(f, MoveTables(ClearAll(f)))
  <2>1. Reached(f, ClearAll(f))
      BY ClearAllReaches
  <2> QED BY <2>1, MoveTablesReach
<1> QED BY <1>1, <1>2 DEF GcL2

LEMMA MoveUsedReaches ==
    ASSUME NEW c, Sound(c), NEW from, NEW to \in Nat
    PROVE  Reached(c, MoveUsed(c, from, to))
<1> DEFINE L == to
           V == {v \in Results : Reached(c, v)}
           Here(n) == {o \in Owner : SpaceOf(c, o).pos = n}
           Step(n, v) == IF n < from \/ Here(n) = {} THEN v ELSE MoveOne(v, CHOOSE o \in Here(n) : TRUE, c.number >= ManyFree)
           F == [n \in 1..L |-> [v \in V |-> Step(n, v)]]
<1>1. L \in Nat
    OBVIOUS
<1>2. Result(c, TRUE, 0) \in V
    BY ReachedAtOnce DEF Reached
<1>3. \A n \in 1..L, v \in V : Step(n, v) \in V
  <2> SUFFICES ASSUME NEW n \in 1..L, NEW v \in V PROVE Step(n, v) \in V
      OBVIOUS
  <2>1. CASE n < from \/ Here(n) = {}
      BY <2>1
  <2>2. CASE ~(n < from \/ Here(n) = {})
    <3> DEFINE o == CHOOSE x \in Here(n) : TRUE
    <3>1. Step(n, v) = MoveOne(v, o, c.number >= ManyFree)
        BY <2>2
    <3>2. o \in Owner
        BY <2>2
    <3> HIDE DEF o
    <3>3. Reached(c, MoveOne(v, o, c.number >= ManyFree))
        BY <3>2, MoveOneReaches
    <3> QED BY <3>1, <3>3 DEF Reached
  <2> QED BY <2>1, <2>2
<1>4. F \in [1..L -> [V -> V]]
    BY <1>3
<1>5. PICK f \in [0..L -> V] : f[0] = Result(c, TRUE, 0) /\ \A n \in 1..L : f[n] = F[n][f[n - 1]]
  <2> HIDE DEF F, L, V
  <2>1. \E f \in [0..L -> V] : Unfolds(f, L, Result(c, TRUE, 0), F)
      BY <1>1, <1>2, <1>4, RecursionTo
  <2> QED BY <2>1 DEF Unfolds
<1> DEFINE Def(g) == [n \in 0..L |-> IF n = 0 THEN Result(c, TRUE, 0) ELSE Step(n, g[n - 1])]
           h == CHOOSE g : g = Def(g)
<1> HIDE DEF L, V
<1>6. f = Def(f)
  <2>1. \A n \in 0..L : n # 0 => n \in 1..L /\ n - 1 \in 0..L
      BY <1>1
  <2>2. ASSUME NEW n \in 0..L PROVE f[n] = IF n = 0 THEN Result(c, TRUE, 0) ELSE Step(n, f[n - 1])
      BY <1>5, <2>1
  <2> QED BY <2>2
<1>7. h = Def(h)
  <2> HIDE DEF Def
  <2> QED BY <1>6
<1> HIDE DEF h
<1>8. h[0] = Result(c, TRUE, 0) /\ \A n \in 1..L : h[n] = Step(n, h[n - 1])
  <2>1. 0 \in 0..L /\ \A n \in 1..L : n \in 0..L /\ n # 0
      BY <1>1
  <2>2. \A n \in 0..L : h[n] = IF n = 0 THEN Result(c, TRUE, 0) ELSE Step(n, h[n - 1])
      BY <1>7
  <2> QED BY <2>1, <2>2
<1>9. h[L] \in V
  <2> DEFINE S == {n \in 0..L : h[n] \in V}
  <2>1. 0 \in S
    <3>1. h[0] \in V
      <4>1. h[0] = Result(c, TRUE, 0)
          BY <1>8
      <4> QED BY <1>2, <4>1, Zenon
    <3>2. 0 \in 0..L
        BY <1>1
    <3> QED BY <3>1, <3>2
  <2>2. ASSUME NEW n \in 1..L, n - 1 \in S PROVE n \in S
    <3>1. h[n - 1] \in V /\ n \in 0..L
        BY <1>1, <2>2
    <3>2. Step(n, h[n - 1]) \in V
        BY <1>3, <3>1
    <3> QED BY <1>8, <3>1, <3>2
  <2>3. \A n \in 0..L : n \in S
    <3> HIDE DEF S
    <3> QED BY <1>1, <2>1, <2>2, InductionTo
  <2> QED BY <1>1, <2>3
<1>10. MoveUsed(c, from, to) = h[L]
    BY DEF MoveUsed, h, L
<1> QED BY <1>9, <1>10 DEF V

-----------------------------------------------------------------------------
(* cckd_flush_space *)

\* A flush changes neither tables nor images, loses no unit, and what waits in the
\* chain for another flush after it still does.
FlushedTo(f, g) ==
    /\ Good(g, {}) /\ SameTables(f, g) /\ g.imbed = f.imbed
    /\ Full(f, {}) => Full(g, {})
    /\ \A u : \A n \in Nat : n > 1 /\ Held(f, u, n) => Held(g, u, n - 1)

\* What is pending n > 1 times is pending n - 1 times at least in the flushed chain.
LEMMA PendingFlushed ==
    ASSUME NEW f, Counted(f), NEW q, q = FlushChain(f.free), NEW u, NEW n \in Nat, n > 1, Held(f, u, n)
    PROVE  \E m \in On(q) : u \in Units(m) /\ m.pending \in 0..4 /\ m.pending >= n - 1 /\ m.pending # 0
<1>1. Chain(f.free, First, f.size) /\ First \in Int /\ f.size \in Int /\ First <= f.size
    BY CountedFacts
<1>2. Chain(q, First, f.size) /\ Flushes(f.free, q)
    BY <1>1, FlushChainFlushes
<1>3. PICK d \in On(f.free) : u \in Units(d) /\ d.pending >= n
    BY DEF Held
<1>4. PICK m \in On(q) : Units(d) \subseteq Units(m) /\ m.pending + 1 >= d.pending
    BY <1>2 DEF Flushes
<1>5. d \in FreeRec /\ m \in FreeRec
    BY <1>1, <1>2, ChainFacts
<1>6. d.pending \in 0..4 /\ m.pending \in 0..4
    BY <1>5, FreeFields
<1>7. m.pending >= n - 1 /\ m.pending # 0
    BY <1>3, <1>4, <1>6
<1> QED BY <1>3, <1>4, <1>6, <1>7

LEMMA FlushSpaceFlushes ==
    ASSUME NEW f, Good(f, {})
    PROVE  FlushedTo(f, FlushSpace(f))
<1> DEFINE q == FlushChain(f.free)
           n == Len(q)
           e == q[n]
           p == Front(q)
           cut == n > 0 /\ e.pending = 0 /\ e.pos + e.len = f.size
<1>1. Counted(f) /\ Placed(f) /\ Apart(f, {}) /\ f \in FileType
    BY DEF Good, Counted
<1>2. /\ f.size \in Nat /\ f.used \in Int /\ f.number \in Nat /\ f.total \in Int
      /\ f.largest \in Nat /\ f.imbed \in Int /\ f.bounds \in Int
      /\ f.l1 \in [Table -> Nat] /\ f.l2 \in [Track -> SpaceRec]
      /\ First \in Nat \ {0} /\ First <= f.size /\ Chain(f.free, First, f.size)
      /\ IsFiniteSet(FreeUnits(f.free))
    BY <1>1, CountedFacts
<1>3. Chain(q, First, f.size) /\ Flushes(f.free, q)
  <2>1. First \in Int /\ f.size \in Int
      BY <1>2
  <2> QED BY <1>2, <2>1, FlushChainFlushes
<1>4. n \in Nat /\ q \in Seq(FreeRec) /\ FreeUnits(q) = FreeUnits(f.free)
    BY <1>2, <1>3, ChainFacts DEF Chain, Flushes
<1>5. \A u : \A k \in Nat : k > 1 /\ Held(f, u, k) =>
        \E m \in On(q) : u \in Units(m) /\ m.pending \in 0..4 /\ m.pending >= k - 1 /\ m.pending # 0
    BY <1>1, PendingFlushed
<1>6. CASE ~cut
  <2> DEFINE g == [f EXCEPT !.free = q, !.number = n, !.largest = Largest(q)]
  <2>1. FlushSpace(f) = g
      BY <1>6 DEF FlushSpace
  <2>2. Largest(q) \in Nat
      BY <1>2, <1>3, LargestIs DEF IsLargest
  <2> HIDE DEF q, n
  <2>3. /\ g \in FileType /\ g.free = q /\ g.number = n /\ g.largest = Largest(q)
        /\ g.size = f.size /\ g.used = f.used /\ g.total = f.total /\ g.imbed = f.imbed
        /\ SameTables(f, g)
      BY <1>1, <1>4, <2>2 DEF FileType, SameTables
  <2> HIDE DEF g
  <2>4. Owned(g) = Owned(f)
      BY <2>3, SameTablesFacts
  <2>5. Counted(g)
    <3>1. g.number = Len(g.free)
        BY <2>3 DEF n
    <3> QED BY <1>1, <1>3, <1>4, <2>3, <3>1 DEF Counted
  <2>6. Placed(g)
    <3>1. g.size \in Nat /\ f.size <= g.size
        BY <1>2, <2>3
    <3> QED BY <1>1, <1>2, <2>3, <3>1, PlacedStays
  <2>7. Apart(g, {}) /\ (Full(f, {}) => Full(g, {}))
      BY <1>1, <1>4, <2>3, <2>4 DEF Apart, Full
  <2>8. ASSUME NEW u, NEW k \in Nat, k > 1, Held(f, u, k) PROVE Held(g, u, k - 1)
    <3>1. PICK m \in On(q) : u \in Units(m) /\ m.pending >= k - 1
        BY <1>5, <2>8
    <3> QED BY <2>3, <3>1 DEF Held
  <2>9. FlushedTo(f, g)
      BY <2>3, <2>5, <2>6, <2>7, <2>8 DEF FlushedTo, Good
  <2> QED BY <2>1, <2>9
<1>7. CASE cut
  <2> DEFINE T == e.pos..(e.pos + e.len - 1)
             g == [f EXCEPT !.free = p, !.number = n - 1, !.largest = Largest(p),
                            !.size = @ - e.len, !.total = @ - e.len]
  <2>1. FlushSpace(f) = g
      BY <1>7 DEF FlushSpace
  <2>2. /\ Chain(p, First, e.pos) /\ Len(p) = n - 1 /\ On(p) = On(q) \ {e} /\ e \in On(q)
        /\ e \in FreeRec /\ First <= e.pos
    <3>1. First \in Int /\ f.size \in Int /\ Len(q) > 0
        BY <1>2, <1>7
    <3> HIDE DEF q
    <3>2. Chain(p, First, e.pos) /\ Len(p) = n - 1 /\ On(p) = On(q) \ {e} /\ e \in On(q)
        BY <1>3, <3>1, ChainFront
    <3>3. \A x \in On(q) : x \in FreeRec /\ First <= x.pos
        BY <1>3, <3>1, ChainFacts
    <3> HIDE DEF e, p, n
    <3> QED BY <3>2, <3>3
  <2>3. e.pos \in Nat /\ e.len \in Nat \ {0} /\ Units(e) = T
    <3> HIDE DEF e
    <3> QED BY <2>2, FreeFields DEF Units
  <2>4. FreeUnits(p) = FreeUnits(q) \ T /\ T \subseteq FreeUnits(q)
    <3>1. First \in Int /\ f.size \in Int
        BY <1>2
    <3> HIDE DEF q, e, p, T
    <3>2. UNION {Units(x) : x \in On(q) \ {e}} = FreeUnits(q) \ Units(e) /\ Units(e) \subseteq FreeUnits(q)
        BY <1>3, <2>2, <3>1, UnitsWithout
    <3>3. FreeUnits(p) = FreeUnits(q) \ Units(e)
        BY <2>2, <3>2 DEF FreeUnits
    <3> QED BY <2>3, <3>2, <3>3
  <2>5. Largest(p) \in Nat
    <3> HIDE DEF p, e
    <3> QED BY <2>2, <2>3, SpaceAssumption, LargestIs DEF IsLargest
  <2>6. e.pos + e.len = f.size /\ e.pending = 0
      BY <1>7
  <2> HIDE DEF q, p, e, n
  <2>a. /\ f.size \in Nat /\ f.used \in Int /\ f.total \in Int /\ f.imbed \in Int
        /\ e.pos \in Nat /\ e.len \in Nat
      BY <1>2, <2>3
  <2> HIDE DEF T
  <2>7. f.size - e.len = e.pos /\ n - 1 \in Nat /\ p \in Seq(FreeRec) /\ f.total - e.len \in Int
    <3>1. p \in Seq(FreeRec)
        BY <2>2 DEF Chain
    <3>2. Len(p) \in Nat
        BY <3>1, LenProperties
    <3> QED BY <1>2, <2>2, <2>3, <2>6, <3>1, <3>2
  <2>8. /\ g \in FileType /\ g.free = p /\ g.number = n - 1 /\ g.largest = Largest(p)
        /\ g.size = e.pos /\ g.used = f.used /\ g.total = f.total - e.len /\ g.imbed = f.imbed
        /\ SameTables(f, g)
      BY <1>1, <2>3, <2>5, <2>7 DEF FileType, SameTables
  <2> HIDE DEF g
  <2>9. Owned(g) = Owned(f) /\ \A o \in Owner : SpaceOf(g, o) = SpaceOf(f, o)
      BY <2>8, SameTablesFacts
  <2>10. T \cap Owned(f) = {}
      BY <1>1, <1>4, <2>4 DEF Apart
  <2>11. Counted(g)
    <3>1. Cardinality(FreeUnits(q)) = Cardinality(FreeUnits(p)) + e.len /\ Cardinality(FreeUnits(p)) \in Nat
      <4>1. IsFiniteSet(FreeUnits(p))
          BY <1>2, <1>4, <2>4, FS_Subset
      <4>2. FreeUnits(p) \cap T = {} /\ FreeUnits(p) \cup T = FreeUnits(q)
          BY <2>4
      <4>3. PICK a \in Int : a = e.pos
          BY <2>3
      <4>4. PICK k \in Nat : k = e.len
          BY <2>3
      <4>5. T = a..(a + k - 1)
          BY <4>3, <4>4 DEF T
      <4>6. PICK S : S = FreeUnits(p)
          OBVIOUS
      <4>7. IsFiniteSet(S) /\ S \cap a..(a + k - 1) = {}
          BY <4>1, <4>2, <4>5, <4>6
      <4>8. Cardinality(S \cup a..(a + k - 1)) = Cardinality(S) + k /\ Cardinality(S) \in Nat
          BY <4>7, AddUnits
      <4> QED BY <4>2, <4>4, <4>5, <4>6, <4>8
    <3>2. f.used + f.total = f.size /\ f.total - f.imbed = Cardinality(FreeUnits(q))
        BY <1>1, <1>4 DEF Counted
    <3>3. g.used + g.total = g.size
        BY <2>a, <2>7, <2>8, <3>2
    <3>4. g.total - g.imbed = Cardinality(FreeUnits(g.free))
      <4>1. PICK a \in Nat : a = Cardinality(FreeUnits(p))
          BY <3>1
      <4>2. PICK t \in Int, m \in Int, l \in Nat : t = f.total /\ m = f.imbed /\ l = e.len
          BY <2>a
      <4>3. t - m = a + l
          BY <3>1, <3>2, <4>1, <4>2
      <4>4. (t - l) - m = a
          BY <4>3
      <4> QED BY <2>8, <4>1, <4>2, <4>4
    <3> QED BY <2>2, <2>8, <3>3, <3>4 DEF Counted
  <2>12. Placed(g)
    <3>1. ASSUME NEW o \in Owner PROVE IsPlaced(SpaceOf(f, o), e.pos)
      <4> DEFINE s == SpaceOf(f, o)
      <4>1. /\ s.pos \in Nat /\ s.len \in Nat
            /\ \A u : u \in Units(s) <=> u \in Int /\ s.pos <= u /\ u < s.pos + s.len
          BY <1>2, SpaceOfFields
      <4>2. IsPlaced(s, f.size) /\ Units(s) \cap T = {}
          BY <1>1, <2>10 DEF Placed, Owned
      <4> HIDE DEF s
      <4>3. ASSUME First <= s.pos /\ s.len > 0 /\ s.pos + s.len <= f.size PROVE s.pos + s.len <= e.pos
        <5>1. s.pos + s.len - 1 \in Units(s)
            BY <4>1, <4>3
        <5>2. s.pos + s.len - 1 \notin T
            BY <4>2, <5>1
        <5> QED BY <2>a, <2>6, <4>1, <4>3, <5>2 DEF T
      <4>4. IsPlaced(s, e.pos)
          BY <4>2, <4>3 DEF IsPlaced
      <4> QED BY <4>4 DEF s
    <3>2. \A o, r \in Owner : o # r => Units(SpaceOf(g, o)) \cap Units(SpaceOf(g, r)) = {}
        BY <1>1, <2>9 DEF Placed
    <3>3. \A t \in Track : g.l2[t].len <= g.l2[t].size
        BY <1>1, <2>8 DEF Placed, SameTables
    <3> QED BY <2>8, <2>9, <3>1, <3>2, <3>3 DEF Placed
  <2>13. Apart(g, {})
      BY <1>1, <1>4, <2>4, <2>8, <2>9 DEF Apart
  <2>14. Full(f, {}) => Full(g, {})
    <3> SUFFICES ASSUME Full(f, {}) PROVE Full(g, {})
        OBVIOUS
    <3>1. \A u \in First..(e.pos - 1) : u \in First..(f.size - 1) /\ u \notin T
        BY <1>2, <2>a, <2>6 DEF T
    <3> QED BY <1>4, <2>4, <2>8, <2>9, <3>1 DEF Full
  <2>15. ASSUME NEW u, NEW k \in Nat, k > 1, Held(f, u, k) PROVE Held(g, u, k - 1)
    <3>1. PICK m \in On(q) : u \in Units(m) /\ m.pending >= k - 1 /\ m.pending # 0
        BY <1>5, <2>15
    <3>2. m \in On(g.free)
        BY <2>2, <2>6, <2>8, <3>1
    <3> QED BY <3>1, <3>2 DEF Held
  <2>16. FlushedTo(f, g)
      BY <2>8, <2>11, <2>12, <2>13, <2>14, <2>15 DEF FlushedTo, Good
  <2> QED BY <2>1, <2>16
<1> QED BY <1>6, <1>7

-----------------------------------------------------------------------------
(* The inductive invariant *)

LEMMA InitSpace == Init => SpaceInv
<1> SUFFICES ASSUME Init PROVE SpaceInv
    OBVIOUS
<1> DEFINE f == cckd
<1>1. /\ f.size = First /\ f.used = First /\ f.number = 0 /\ f.total = 0 /\ f.largest = 0
      /\ f.imbed = 0 /\ f.free = <<>> /\ f.l1 = [x \in Table |-> 0] /\ f.l2 = [t \in Track |-> NoSpace]
      /\ f \in FileType /\ released = {} /\ failed = FALSE
  <2>1. First \in Nat \ {0}
      BY SpaceAssumption
  <2>2. <<>> \in Seq(FreeRec)
      OBVIOUS
  <2>3. [t \in Track |-> NoSpace] \in [Track -> SpaceRec] /\ [x \in Table |-> 0] \in [Table -> Nat]
      BY DEF NoSpace, SpaceRec
  <2> QED BY <2>1, <2>2, <2>3 DEF Init, FileType
<1> HIDE DEF f
<1>2. First \in Nat \ {0}
    BY SpaceAssumption
<1>3. <<>> \in Seq(FreeRec) /\ Len(<<>>) = 0 /\ On(<<>>) = {}
    BY DEF On
<1>4. Chain(<<>>, First, First) /\ FreeUnits(<<>>) = {} /\ Cardinality({}) = 0
    BY <1>3, FS_EmptySet DEF Chain, FreeUnits
<1>5. Largest(<<>>) = 0
  <2>1. IsLargest(0, <<>>)
      BY <1>3 DEF IsLargest, Available
  <2> QED BY <1>2, <1>4, <2>1, LargestOnly
<1>6. Counted(f)
  <2>1. Chain(f.free, First, f.size) /\ FreeUnits(f.free) = {} /\ f.number = Len(f.free)
      BY <1>1, <1>3, <1>4
  <2>2. Cardinality(FreeUnits(f.free)) = 0
      BY <1>4, <2>1
  <2>3. f.largest = Largest(f.free)
      BY <1>1, <1>5
  <2>4. First <= f.size /\ f.used + f.total = f.size /\ f.total - f.imbed = 0
      BY <1>1, <1>2
  <2> QED BY <1>1, <2>1, <2>2, <2>3, <2>4 DEF Counted
<1>7. ASSUME NEW o \in Owner PROVE SpaceOf(f, o) = [pos |-> 0, len |-> 0]
  <2>1. CASE \E t \in Track : o = OfTrack(t)
    <3>1. PICK t \in Track : o = OfTrack(t)
        BY <2>1
    <3>2. SpaceOf(f, o) = [pos |-> f.l2[t].pos, len |-> f.l2[t].size]
        BY <3>1, OwnerOf
    <3> QED BY <1>1, <3>2 DEF NoSpace
  <2>2. CASE \E x \in Table : o = OfTable(x)
    <3>1. PICK x \in Table : o = OfTable(x)
        BY <2>2
    <3>2. SpaceOf(f, o) = [pos |-> f.l1[x], len |-> IF f.l1[x] = 0 THEN 0 ELSE L2Size]
        BY <3>1, OwnerOf
    <3>3. f.l1[x] = 0
        BY <1>1
    <3> QED BY <3>2, <3>3
  <2> QED BY <2>1, <2>2, OwnerOf
<1>8. \A o \in Owner : Units(SpaceOf(f, o)) = {} /\ IsPlaced(SpaceOf(f, o), f.size)
  <2> SUFFICES ASSUME NEW o \in Owner PROVE Units(SpaceOf(f, o)) = {} /\ IsPlaced(SpaceOf(f, o), f.size)
      OBVIOUS
  <2>1. PICK e : e = SpaceOf(f, o)
      OBVIOUS
  <2>2. e.pos = 0 /\ e.len = 0
      BY <1>7, <2>1
  <2>3. Units(e) = {} /\ IsPlaced(e, f.size)
      BY <2>2 DEF Units, IsPlaced
  <2> QED BY <2>1, <2>3
<1>9. Owned(f) = {}
    BY <1>8 DEF Owned
<1>10. Placed(f)
  <2>1. \A t \in Track : f.l2[t].len <= f.l2[t].size
      BY <1>1 DEF NoSpace
  <2> QED BY <1>8, <2>1 DEF Placed
<1>11. Apart(f, {}) /\ Full(f, {})
    BY <1>1, <1>2, <1>4, <1>9 DEF Apart, Full
<1>12. Imbed(f, 0)
  <2>1. \A t \in Track : Units(Rest(f.l2[t])) = {}
      BY <1>1 DEF NoSpace, Rest, Units
  <2>2. Imbedded(f) = {}
      BY <2>1 DEF Imbedded
  <2> QED BY <1>1, <1>4, <2>2 DEF Imbed
<1>13. Consistent(f, released, failed)
    BY <1>1, <1>6, <1>10, <1>11, <1>12 DEF Consistent, Good
<1> QED BY <1>13 DEF SpaceInv, f

LEMMA ReleasesAreUnits ==
    ASSUME NEW f, Counted(f), NEW g
    PROVE  Releases(f, g) \subseteq Int
<1>1. f.l1 \in [Table -> Nat] /\ f.l2 \in [Track -> SpaceRec]
    BY CountedFacts
<1>2. \A o \in Owner : Units(SpaceOf(f, o)) \subseteq Int
    BY <1>1, SpaceOfFields
<1> QED BY <1>2 DEF Releases

\* What an operation may reach is consistent, with what it released.
LEMMA ReachedIsConsistent ==
    ASSUME NEW f, NEW gone, Consistent(f, gone, FALSE), NEW r, Reached(f, r), NEW all,
           all = IF Pend = 0 THEN {} ELSE gone \cup (Releases(f, r.file) \X {0})
    PROVE  Consistent(r.file, all, ~r.ok)
<1> DEFINE g == r.file
<1>1. /\ Good(f, {}) /\ Counted(f) /\ gone \subseteq Int \X (0..(Pend - 1))
      /\ \A q \in gone : Held(f, q[1], Pend - q[2])
    BY DEF Consistent, Good
<1>2. r.ok \in BOOLEAN /\ StaysPending(f, g) /\ Good(g, {})
    BY DEF Reached, Results, Sound
<1>3. Pend \in Nat /\ (Pend # 0 => 0 \in 0..(Pend - 1) /\ Pend > 0)
    BY PendType
<1>4. \A q \in gone : q[1] \in Int /\ q[2] \in 0..(Pend - 1) /\ Pend - q[2] \in Nat \ {0}
    BY <1>1, <1>3
<1>5. \A q \in gone : Held(g, q[1], Pend - q[2])
  <2> SUFFICES ASSUME NEW q \in gone PROVE Held(g, q[1], Pend - q[2])
      OBVIOUS
  <2>1. PICK n \in Nat \ {0} : n = Pend - q[2]
      BY <1>4
  <2>2. Held(f, q[1], n)
      BY <1>1, <2>1
  <2>3. Held(g, q[1], n)
    <3> HIDE DEF g
    <3> QED BY <1>1, <1>2, <2>2, HeldOn
  <2> QED BY <2>1, <2>3
<1>6. \A q \in all : q \in gone \/ (Pend > 0 /\ q[1] \in Releases(f, g) /\ q[2] = 0)
    BY <1>3
<1>7. all \subseteq Int \X (0..(Pend - 1))
  <2>1. Releases(f, g) \subseteq Int
      BY <1>1, ReleasesAreUnits
  <2> QED BY <1>1, <1>3, <2>1
<1>8. CASE r.ok
  <2>1. Full(g, {}) /\ Imbed(g, 0) /\ (Pend > 0 => HeldAll(f, g))
      BY <1>8 DEF Reached, Sound
  <2>2. \A q \in all : Held(g, q[1], Pend - q[2])
    <3> SUFFICES ASSUME NEW q \in all PROVE Held(g, q[1], Pend - q[2])
        OBVIOUS
    <3>1. CASE q \in gone
        BY <1>5, <3>1
    <3>2. CASE Pend > 0 /\ q[1] \in Releases(f, g) /\ q[2] = 0
      <4>1. Held(g, q[1], Pend)
          BY <2>1, <3>2 DEF HeldAll
      <4>2. Pend - q[2] = Pend
          BY <1>3, <3>2
      <4> QED BY <4>1, <4>2
    <3> QED BY <1>6, <3>1, <3>2
  <2> QED BY <1>2, <1>7, <1>8, <2>1, <2>2 DEF Consistent
<1>9. CASE ~r.ok
  <2>1. Pend > 0 => Releases(f, g) \cap Owned(g) = {}
      BY <1>9 DEF Reached
  <2>2. \A q \in gone : q[1] \notin Owned(g)
    <3> HIDE DEF g
    <3> QED BY <1>2, <1>5, HeldFree
  <2>3. \A q \in all : q[1] \notin Owned(g)
      BY <1>6, <2>1, <2>2
  <2> QED BY <1>2, <1>7, <1>9, <2>3 DEF Consistent
<1> QED BY <1>2, <1>8, <1>9

\* The units released less than Pend flushes ago, after one more.
Late(gone) == {<<q[1], q[2] + 1>> : q \in {r \in gone : r[2] + 1 < Pend}}

LEMMA FlushIsConsistent ==
    ASSUME NEW f, NEW gone, NEW bad, Consistent(f, gone, bad)
    PROVE  Consistent(FlushSpace(f), Late(gone), bad)
<1> DEFINE g == FlushSpace(f)
<1>1. Good(f, {}) /\ bad \in BOOLEAN /\ gone \subseteq Int \X (0..(Pend - 1))
    BY DEF Consistent
<1>2. FlushedTo(f, g)
    BY <1>1, FlushSpaceFlushes
<1> HIDE DEF g
<1>3. /\ Good(g, {}) /\ Owned(g) = Owned(f) /\ Imbedded(g) = Imbedded(f) /\ g.imbed = f.imbed
      /\ (Full(f, {}) => Full(g, {}))
    BY <1>2, SameTablesFacts DEF FlushedTo
<1>4. Pend \in Nat
    BY PendType
<1>5. ASSUME NEW q \in Late(gone)
      PROVE  \E r \in gone : /\ q[1] = r[1] /\ r[1] \in Int /\ q[2] \in 0..(Pend - 1)
                             /\ q = <<q[1], q[2]>>
                             /\ Pend - r[2] \in Nat /\ Pend - r[2] > 1 /\ Pend - q[2] = (Pend - r[2]) - 1
  <2>1. PICK r \in gone : r[2] + 1 < Pend /\ q = <<r[1], r[2] + 1>>
      BY DEF Late
  <2>2. r[1] \in Int /\ r[2] \in 0..(Pend - 1)
      BY <1>1
  <2>3. q[1] = r[1] /\ q[2] = r[2] + 1 /\ q = <<q[1], q[2]>>
      BY <2>1
  <2>4. q[2] \in 0..(Pend - 1) /\ Pend - r[2] \in Nat /\ Pend - r[2] > 1 /\ Pend - q[2] = (Pend - r[2]) - 1
      BY <1>4, <2>1, <2>2, <2>3
  <2> QED BY <2>2, <2>3, <2>4
<1>6. Late(gone) \subseteq Int \X (0..(Pend - 1))
  <2> SUFFICES ASSUME NEW q \in Late(gone) PROVE q \in Int \X (0..(Pend - 1))
      OBVIOUS
  <2>1. q[1] \in Int /\ q[2] \in 0..(Pend - 1) /\ q = <<q[1], q[2]>>
      BY <1>5
  <2> QED BY <2>1
<1>7. CASE bad
  <2>1. \A r \in gone : r[1] \notin Owned(f)
      BY <1>7 DEF Consistent
  <2>2. \A q \in Late(gone) : q[1] \notin Owned(g)
      BY <1>3, <1>5, <2>1
  <2>3. Consistent(g, Late(gone), bad)
      BY <1>1, <1>3, <1>6, <1>7, <2>2 DEF Consistent
  <2> QED BY <2>3 DEF g
<1>8. CASE ~bad
  <2>1. Full(f, {}) /\ Imbed(f, 0) /\ \A r \in gone : Held(f, r[1], Pend - r[2])
      BY <1>8 DEF Consistent
  <2>2. \A q \in Late(gone) : Held(g, q[1], Pend - q[2])
    <3> SUFFICES ASSUME NEW q \in Late(gone) PROVE Held(g, q[1], Pend - q[2])
        OBVIOUS
    <3>1. PICK r \in gone : /\ q[1] = r[1]
                            /\ Pend - r[2] \in Nat /\ Pend - r[2] > 1 /\ Pend - q[2] = (Pend - r[2]) - 1
        BY <1>5
    <3>2. PICK n \in Nat : n = Pend - r[2]
        BY <3>1
    <3>3. Held(f, q[1], n) /\ n > 1
        BY <2>1, <3>1, <3>2
    <3>4. Held(g, q[1], n - 1)
        BY <1>2, <3>3 DEF FlushedTo
    <3> QED BY <3>1, <3>2, <3>4
  <2>3. Full(g, {}) /\ Imbed(g, 0)
      BY <1>3, <2>1 DEF Imbed
  <2>4. Consistent(g, Late(gone), bad)
      BY <1>1, <1>3, <1>6, <1>8, <2>2, <2>3 DEF Consistent
  <2> QED BY <2>4 DEF g
<1> QED BY <1>1, <1>7, <1>8

LEMMA Flushed4IsConsistent ==
    ASSUME NEW f, NEW gone, NEW bad, Consistent(f, gone, bad)
    PROVE  Consistent(Flushed4(f), {}, bad)
<1> DEFINE f1 == FlushSpace(f)
           f2 == FlushSpace(f1)
           f3 == FlushSpace(f2)
           f4 == FlushSpace(f3)
<1> HIDE DEF f1, f2, f3, f4
<1>1. \E g1 : Consistent(f1, g1, bad)
    BY FlushIsConsistent DEF f1
<1>2. \E g2 : Consistent(f2, g2, bad)
    BY <1>1, FlushIsConsistent DEF f2
<1>3. \E g3 : Consistent(f3, g3, bad)
    BY <1>2, FlushIsConsistent DEF f3
<1>4. \E g4 : Consistent(f4, g4, bad)
    BY <1>3, FlushIsConsistent DEF f4
<1>5. Consistent(f4, {}, bad)
    BY <1>4 DEF Consistent
<1>6. Flushed4(f) = f4
    BY DEF Flushed4, f1, f2, f3, f4
<1> QED BY <1>5, <1>6

LEMMA StepSpace == SpaceInv /\ [Next]_vars => SpaceInv'
<1> SUFFICES ASSUME SpaceInv, [Next]_vars PROVE SpaceInv'
    OBVIOUS
<1>1. Consistent(cckd, released, failed) /\ failed \in BOOLEAN
    BY DEF SpaceInv, Consistent
<1>2. ASSUME Consistent(cckd', released', failed') PROVE SpaceInv'
    BY <1>2 DEF SpaceInv
<1>3. ASSUME ~failed, NEW r, Reached(cckd, r), Becomes(r) PROVE SpaceInv'
  <2>1. Consistent(cckd, released, FALSE)
    <3>1. failed = FALSE
        BY <1>1, <1>3
    <3> QED BY <1>1, <3>1
  <2>2. released' = IF Pend = 0 THEN {} ELSE released \cup (Releases(cckd, r.file) \X {0})
      BY <1>3 DEF Becomes
  <2>3. Consistent(r.file, released', ~r.ok)
    <3>1. PICK all : all = released'
        OBVIOUS
    <3>2. all = IF Pend = 0 THEN {} ELSE released \cup (Releases(cckd, r.file) \X {0})
        BY <2>2, <3>1
    <3>3. Consistent(r.file, all, ~r.ok)
        BY <1>3, <2>1, <3>2, ReachedIsConsistent
    <3> QED BY <3>1, <3>3
  <2>4. r.ok \in BOOLEAN
      BY <1>3 DEF Reached, Results
  <2>5. cckd' = r.file /\ failed' = ~r.ok
      BY <1>1, <1>3, <2>4 DEF Becomes
  <2> QED BY <1>2, <2>3, <2>5
<1>4. ~failed => Sound(cckd)
    BY <1>1 DEF Consistent, Sound
<1>5. ASSUME NEW t \in Track, WriteTrack(t) PROVE SpaceInv'
  <2>1. ~failed
      BY <1>5 DEF WriteTrack
  <2>2. PICK len \in Length : Becomes(WriteTrkimg(cckd, t, len, TRUE))
      BY <1>5 DEF WriteTrack
  <2>3. len \in Nat
      BY SpaceAssumption
  <2>4. Reached(cckd, WriteTrkimg(cckd, t, len, TRUE))
      BY <1>4, <2>1, <2>3, WriteTrkimgReaches
  <2> QED BY <1>3, <2>1, <2>2, <2>4
<1>6. CASE Harden
  <2>1. cckd' = Flushed4(cckd) /\ failed' = failed /\ released' = Flushed(4)
      BY <1>6 DEF Harden
  <2>2. released' = {}
    <3>1. released \subseteq Int \X (0..(Pend - 1)) /\ Pend \in 0..4
        BY <1>1, PendType DEF Consistent
    <3>2. \A q \in released : q[2] \in 0..(Pend - 1)
        BY <3>1
    <3>3. \A q \in released : ~(q[2] + 4 < Pend)
        BY <3>1, <3>2
    <3> QED BY <2>1, <3>3 DEF Flushed
  <2>3. Consistent(Flushed4(cckd), {}, failed)
      BY <1>1, Flushed4IsConsistent
  <2> QED BY <1>2, <2>1, <2>2, <2>3
<1>7. CASE GcBegin
  <2>1. ~failed /\ Becomes(GcL2(cckd))
      BY <1>7 DEF GcBegin
  <2>2. Reached(cckd, GcL2(cckd))
      BY <1>4, <2>1, GcL2Reaches
  <2> QED BY <1>3, <2>1, <2>2
<1>8. CASE GcCycle
  <2>1. CASE cckd.total = 0 \/ Used(cckd).from = Used(cckd).to
    <3>1. cckd' = cckd /\ released' = released /\ failed' = failed
        BY <1>8, <2>1 DEF GcCycle
    <3> QED BY <1>1, <1>2, <3>1
  <2>2. CASE ~(cckd.total = 0 \/ Used(cckd).from = Used(cckd).to)
    <3>1. ~failed
        BY <1>8 DEF GcCycle
    <3>2. PICK to \in First..(cckd.size - 1) : Becomes(MoveUsed(cckd, Used(cckd).from, to))
        BY <1>8, <2>2 DEF GcCycle
    <3>3. to \in Nat
        BY SpaceAssumption
    <3>4. Reached(cckd, MoveUsed(cckd, Used(cckd).from, to))
        BY <1>4, <3>1, <3>3, MoveUsedReaches
    <3> QED BY <1>3, <3>1, <3>2, <3>4
  <2> QED BY <2>1, <2>2
<1>9. CASE GcSync
  <2>1. cckd' = cckd /\ released' = released /\ failed' = failed
      BY <1>9 DEF GcSync
  <2> QED BY <1>1, <1>2, <2>1
<1>10. CASE GcFlush
  <2>1. cckd' = FlushSpace(cckd) /\ failed' = failed /\ released' = Late(released)
      BY <1>10 DEF GcFlush, Flushed, Late
  <2>2. Consistent(FlushSpace(cckd), Late(released), failed)
      BY <1>1, FlushIsConsistent
  <2> QED BY <1>2, <2>1, <2>2
<1>11. CASE UNCHANGED vars
  <2>1. cckd' = cckd /\ released' = released /\ failed' = failed
      BY <1>11 DEF vars
  <2> QED BY <1>1, <1>2, <2>1
<1> QED BY <1>5, <1>6, <1>7, <1>8, <1>9, <1>10, <1>11 DEF Next

LEMMA SpaceInvariant == Spec => []SpaceInv
BY InitSpace, StepSpace, PTL DEF Spec

-----------------------------------------------------------------------------
(* The theorems *)

\* Released space is not used again before it was flushed as often as `freepend'
\* says (cckd_rel_space, cckd_flush_space, cckd_get_space), although adjacent
\* spaces with other counts are joined, split and cut off meanwhile.
THEOREM ReleasedIsReusedLate == Spec => []ReusedLate
<1>1. SpaceInv => ReusedLate
  <2> SUFFICES ASSUME SpaceInv, NEW r \in released, NEW o \in Owner
               PROVE  r[1] \notin Units(SpaceOf(cckd, o))
      BY DEF ReusedLate
  <2>1. Consistent(cckd, released, failed) /\ Good(cckd, {})
      BY DEF SpaceInv, Consistent
  <2>2. r[1] \notin Owned(cckd)
    <3>1. CASE failed
        BY <2>1, <3>1 DEF Consistent
    <3>2. CASE ~failed
      <4>1. Held(cckd, r[1], Pend - r[2])
          BY <2>1, <3>2 DEF Consistent
      <4> QED BY <2>1, <4>1, HeldFree
    <3> QED BY <3>1, <3>2
  <2> QED BY <2>2 DEF Owned
<1> QED BY <1>1, SpaceInvariant, PTL

\* What images leave of their spaces lies within the file.
LEMMA ImbeddedFinite ==
    ASSUME NEW f, Counted(f), Placed(f)
    PROVE  IsFiniteSet(Imbedded(f)) /\ Cardinality(Imbedded(f)) \in Nat
<1>1. f.size \in Nat /\ f.l1 \in [Table -> Nat] /\ f.l2 \in [Track -> SpaceRec]
    BY CountedFacts
<1>2. Owned(f) \subseteq First..(f.size - 1)
    BY <1>1, OwnedWithin
<1>3. \A t \in Track : Units(Rest(f.l2[t])) \subseteq Owned(f)
  <2> SUFFICES ASSUME NEW t \in Track PROVE Units(Rest(f.l2[t])) \subseteq Owned(f)
      OBVIOUS
  <2>1. OfTrack(t) \in Owner /\ SpaceOf(f, OfTrack(t)) = [pos |-> f.l2[t].pos, len |-> f.l2[t].size]
      BY OwnerOf
  <2>2. Units([pos |-> f.l2[t].pos, len |-> f.l2[t].size]) \subseteq Owned(f)
    <3>1. Units(SpaceOf(f, OfTrack(t))) \subseteq Owned(f)
        BY <2>1 DEF Owned
    <3> QED BY <2>1, <3>1
  <2>3. f.l2[t] \in SpaceRec
      BY <1>1
  <2>4. f.l2[t].pos \in Nat /\ f.l2[t].len \in Nat /\ f.l2[t].size \in Nat
      BY <2>3 DEF SpaceRec
  <2>5. Units(Rest(f.l2[t])) \subseteq Units([pos |-> f.l2[t].pos, len |-> f.l2[t].size])
      BY <2>4 DEF Units, Rest
  <2> QED BY <2>2, <2>5
<1>4. Imbedded(f) \subseteq First..(f.size - 1)
    BY <1>2, <1>3 DEF Imbedded
<1>5. IsFiniteSet(First..(f.size - 1))
  <2>1. PICK b \in Int : b = f.size - 1
      BY <1>1
  <2>2. First \in Int
      BY SpaceAssumption
  <2>3. IsFiniteSet(First..b)
      BY <2>2, FS_Interval
  <2> QED BY <2>1, <2>3
<1>6. IsFiniteSet(Imbedded(f))
    BY <1>4, <1>5, FS_Subset
<1> QED BY <1>6, FS_CardinalityType

\* The header of the file and the chain of free spaces agree after any operation
\* (cckd_chk_space): how many spaces, how much is free and used, the largest.
THEOREM SpaceIsCounted == Spec => []SpaceCounted
<1>1. SpaceInv => SpaceCounted
  <2> SUFFICES ASSUME SpaceInv PROVE SpaceCounted
      OBVIOUS
  <2> DEFINE f == cckd
  <2>1. Counted(f) /\ Placed(f) /\ (failed \/ Imbed(f, 0))
      BY DEF SpaceInv, Consistent, Good
  <2> HIDE DEF f
  <2>2. Chain(f.free, First, f.size) /\ First \in Int /\ f.size \in Int /\ f.total \in Int /\ f.imbed \in Int
      BY <2>1, CountedFacts
  <2>3. /\ DOMAIN f.free = 1..Len(f.free) /\ On(f.free) = {f.free[i] : i \in 1..Len(f.free)}
        /\ Len(f.free) \in Nat
        /\ \A i, j \in 1..Len(f.free) : i < j => f.free[i].pos < f.free[j].pos
      BY <2>2, ChainFacts
  <2>4. UNION {Units(f.free[i]) : i \in DOMAIN f.free} = FreeUnits(f.free)
      BY <2>3 DEF FreeUnits
  <2>5. \A i \in 1..(Len(f.free) - 1) : f.free[i].pos < f.free[i + 1].pos
    <3> SUFFICES ASSUME NEW i \in 1..(Len(f.free) - 1) PROVE f.free[i].pos < f.free[i + 1].pos
        OBVIOUS
    <3>1. i \in 1..Len(f.free) /\ i + 1 \in 1..Len(f.free) /\ i < i + 1
        BY <2>3
    <3> QED BY <2>3, <3>1
  <2>6. failed \/ f.imbed = Cardinality(Imbedded(f))
    <3>1. Cardinality(Imbedded(f)) \in Nat
        BY <2>1, ImbeddedFinite
    <3> QED BY <2>1, <3>1 DEF Imbed
  <2>7. /\ f.number = Len(f.free) /\ f.largest = Largest(f.free) /\ f.used + f.total = f.size
        /\ f.total - f.imbed = Cardinality(FreeUnits(f.free))
      BY <2>1 DEF Counted
  <2>8. Imbedded(f) = UNION {Units(Rest(f.l2[t])) : t \in Track}
      BY DEF Imbedded
  <2> QED BY <2>4, <2>5, <2>6, <2>7, <2>8 DEF SpaceCounted, f
<1> QED BY <1>1, SpaceInvariant, PTL

\* A use of some units: by an owner, or as a free space.
UsedBy(s) == s.o \in Owner /\ s.e = SpaceOf(cckd, s.o) /\ s.e.pos # 0
FreeAt(s, i) == s = [o |-> <<"free", i>>, e |-> [pos |-> cckd.free[i].pos, len |-> cckd.free[i].len]]

LEMMA SpacesAre ==
    /\ \A s \in Spaces : s = [o |-> s.o, e |-> s.e] /\ (UsedBy(s) \/ \E i \in DOMAIN cckd.free : FreeAt(s, i))
    /\ \A o \in Owner : SpaceOf(cckd, o).pos # 0 => [o |-> o, e |-> SpaceOf(cckd, o)] \in Spaces
    /\ \A s : \A i \in DOMAIN cckd.free : FreeAt(s, i) => s \in Spaces
BY DEF Spaces, UsedBy, FreeAt

\* Each unit of the file behind the level 1 table has one use: one track image, one
\* level 2 table or one free space, after any sequence of cckd_write_trkimg, moves of
\* the collector and flushes; after a write that found no space it may have none.
THEOREM EachUnitHasOneUse == Spec => []Tiled
<1>1. SpaceInv => Tiled
  <2> SUFFICES ASSUME SpaceInv PROVE Tiled
      OBVIOUS
  <2> DEFINE f == cckd
             Uses(u) == {s \in Spaces : u \in Units(s.e)}
  <2>1. Counted(f) /\ Placed(f) /\ Apart(f, {}) /\ (failed \/ Full(f, {}))
      BY DEF SpaceInv, Consistent, Good
  <2>2. /\ \A s \in Spaces : /\ s = [o |-> s.o, e |-> s.e]
                             /\ \/ s.o \in Owner /\ s.e = SpaceOf(f, s.o) /\ s.e.pos # 0
                                \/ \E i \in DOMAIN f.free :
                                     s = [o |-> <<"free", i>>, e |-> [pos |-> f.free[i].pos, len |-> f.free[i].len]]
        /\ \A o \in Owner : SpaceOf(f, o).pos # 0 => [o |-> o, e |-> SpaceOf(f, o)] \in Spaces
        /\ \A i \in DOMAIN f.free :
             [o |-> <<"free", i>>, e |-> [pos |-> f.free[i].pos, len |-> f.free[i].len]] \in Spaces
      BY SpacesAre DEF UsedBy, FreeAt
  <2> HIDE DEF f
  <2>3. /\ Chain(f.free, First, f.size) /\ First \in Int /\ f.size \in Int /\ f.size \in Nat
        /\ f.l1 \in [Table -> Nat] /\ f.l2 \in [Track -> SpaceRec]
        /\ FreeUnits(f.free) \subseteq First..(f.size - 1)
      BY <2>1, CountedFacts
  <2>4. /\ DOMAIN f.free = 1..Len(f.free) /\ On(f.free) = {f.free[i] : i \in DOMAIN f.free}
        /\ \A i \in DOMAIN f.free : f.free[i] \in FreeRec
        /\ \A i, j \in DOMAIN f.free : i # j => Units(f.free[i]) \cap Units(f.free[j]) = {}
      BY <2>3, ChainFacts
  <2>5. \A i \in DOMAIN f.free : /\ f.free[i].len > 0 /\ Units(f.free[i]) \subseteq FreeUnits(f.free)
                                 /\ Units([pos |-> f.free[i].pos, len |-> f.free[i].len]) = Units(f.free[i])
    <3> SUFFICES ASSUME NEW i \in DOMAIN f.free
                 PROVE  /\ f.free[i].len > 0 /\ Units(f.free[i]) \subseteq FreeUnits(f.free)
                        /\ Units([pos |-> f.free[i].pos, len |-> f.free[i].len]) = Units(f.free[i])
        OBVIOUS
    <3>1. f.free[i].len \in Nat \ {0}
        BY <2>4, FreeFields
    <3>2. Units(f.free[i]) \subseteq FreeUnits(f.free)
        BY <2>4 DEF FreeUnits
    <3>3. Units([pos |-> f.free[i].pos, len |-> f.free[i].len]) = Units(f.free[i])
        BY DEF Units
    <3> QED BY <3>1, <3>2, <3>3
  <2>6. \A o \in Owner : Units(SpaceOf(f, o)) \subseteq Owned(f) /\ Units(SpaceOf(f, o)) \subseteq First..(f.size - 1)
      BY <2>1, <2>3, OwnedWithin DEF Owned
  <2>7. \A o \in Owner : /\ SpaceOf(f, o).pos # 0 => SpaceOf(f, o).len > 0
                         /\ SpaceOf(f, o).pos = 0 => Units(SpaceOf(f, o)) = {}
    <3> SUFFICES ASSUME NEW o \in Owner
                 PROVE  /\ SpaceOf(f, o).pos # 0 => SpaceOf(f, o).len > 0
                        /\ SpaceOf(f, o).pos = 0 => Units(SpaceOf(f, o)) = {}
        OBVIOUS
    <3>1. PICK e : e = SpaceOf(f, o)
        OBVIOUS
    <3>2. IsPlaced(e, f.size)
        BY <2>1, <3>1 DEF Placed
    <3>3. (e.pos # 0 => e.len > 0) /\ (e.pos = 0 => e.len = 0)
        BY <3>2, SpaceAssumption DEF IsPlaced
    <3>4. e.pos = 0 => Units(e) = {}
        BY <3>3 DEF Units
    <3> QED BY <3>1, <3>3, <3>4
  <2>8. ASSUME NEW s \in Spaces
        PROVE  \/ s.o \in Owner /\ s.e = SpaceOf(f, s.o) /\ s.e.pos # 0 /\ Units(s.e) \subseteq Owned(f)
               \/ \E i \in DOMAIN f.free : /\ s.o = <<"free", i>> /\ Units(s.e) = Units(f.free[i])
                                           /\ s.e = [pos |-> f.free[i].pos, len |-> f.free[i].len]
                                           /\ Units(s.e) \subseteq FreeUnits(f.free)
    <3>1. CASE s.o \in Owner /\ s.e = SpaceOf(f, s.o) /\ s.e.pos # 0
        BY <2>6, <3>1
    <3>2. ASSUME NEW i \in DOMAIN f.free,
                 s = [o |-> <<"free", i>>, e |-> [pos |-> f.free[i].pos, len |-> f.free[i].len]]
          PROVE  /\ s.o = <<"free", i>> /\ Units(s.e) = Units(f.free[i])
                 /\ s.e = [pos |-> f.free[i].pos, len |-> f.free[i].len]
                 /\ Units(s.e) \subseteq FreeUnits(f.free)
      <4>1. s.o = <<"free", i>> /\ s.e = [pos |-> f.free[i].pos, len |-> f.free[i].len]
          BY <3>2
      <4> QED BY <2>5, <4>1
    <3> QED BY <2>2, <3>1, <3>2
  <2>9. ASSUME NEW s \in Spaces PROVE s.e.len > 0 /\ Units(s.e) \subseteq First..(f.size - 1)
    <3>1. CASE s.o \in Owner /\ s.e = SpaceOf(f, s.o) /\ s.e.pos # 0
        BY <2>6, <2>7, <3>1
    <3>2. CASE \E i \in DOMAIN f.free : /\ s.e = [pos |-> f.free[i].pos, len |-> f.free[i].len]
                                        /\ Units(s.e) \subseteq FreeUnits(f.free)
      <4>1. PICK i \in DOMAIN f.free : s.e = [pos |-> f.free[i].pos, len |-> f.free[i].len]
          BY <3>2
      <4>2. s.e.len > 0
          BY <2>5, <4>1
      <4> QED BY <2>3, <3>2, <4>2
    <3> QED BY <2>8, <3>1, <3>2
  <2>10. ASSUME NEW u, NEW s \in Uses(u), NEW v \in Uses(u) PROVE s = v
    <3>1. s \in Spaces /\ v \in Spaces /\ u \in Units(s.e) /\ u \in Units(v.e)
        OBVIOUS
    <3>2. s = [o |-> s.o, e |-> s.e] /\ v = [o |-> v.o, e |-> v.e]
        BY <2>2, <3>1
    <3>3. FreeUnits(f.free) \cap Owned(f) = {}
        BY <2>1 DEF Apart
    <3>4. CASE u \in Owned(f)
      <4>1. /\ s.o \in Owner /\ s.e = SpaceOf(f, s.o)
            /\ v.o \in Owner /\ v.e = SpaceOf(f, v.o)
          BY <2>8, <3>1, <3>3, <3>4
      <4>2. s.o = v.o
          BY <2>1, <3>1, <4>1 DEF Placed
      <4> QED BY <3>2, <4>1, <4>2
    <3>5. CASE u \notin Owned(f)
      <4>1. PICK i \in DOMAIN f.free : s.o = <<"free", i>> /\ Units(s.e) = Units(f.free[i])
                                       /\ s.e = [pos |-> f.free[i].pos, len |-> f.free[i].len]
          BY <2>8, <3>1, <3>5
      <4>2. PICK j \in DOMAIN f.free : v.o = <<"free", j>> /\ Units(v.e) = Units(f.free[j])
                                       /\ v.e = [pos |-> f.free[j].pos, len |-> f.free[j].len]
          BY <2>8, <3>1, <3>5
      <4>3. i = j
          BY <2>4, <3>1, <4>1, <4>2
      <4> QED BY <3>2, <4>1, <4>2, <4>3
    <3> QED BY <3>4, <3>5
  <2>11. ASSUME NEW u \in First..(f.size - 1), ~failed PROVE Uses(u) # {}
    <3>1. u \in FreeUnits(f.free) \cup Owned(f)
        BY <2>1, <2>11 DEF Full
    <3>2. CASE u \in FreeUnits(f.free)
      <4>1. PICK i \in DOMAIN f.free : u \in Units(f.free[i])
          BY <2>4, <3>2 DEF FreeUnits
      <4>2. PICK s : s = [o |-> <<"free", i>>, e |-> [pos |-> f.free[i].pos, len |-> f.free[i].len]]
          OBVIOUS
      <4>3. s \in Spaces /\ u \in Units(s.e)
          BY <2>2, <2>5, <4>1, <4>2
      <4> QED BY <4>3
    <3>3. CASE u \in Owned(f)
      <4>1. PICK o \in Owner : u \in Units(SpaceOf(f, o))
          BY <3>3 DEF Owned
      <4>2. SpaceOf(f, o).pos # 0
          BY <2>7, <4>1
      <4>3. PICK s : s = [o |-> o, e |-> SpaceOf(f, o)]
          OBVIOUS
      <4>4. s \in Spaces /\ u \in Units(s.e)
          BY <2>2, <4>1, <4>2, <4>3
      <4> QED BY <4>4
    <3> QED BY <3>1, <3>2, <3>3
  <2>12. ASSUME NEW u \in First..(f.size - 1)
         PROVE  Cardinality(Uses(u)) = 1 \/ (failed /\ Cardinality(Uses(u)) = 0)
    <3>1. CASE Uses(u) = {}
      <4>1. Cardinality(Uses(u)) = 0
          BY <3>1, FS_EmptySet
      <4> QED BY <2>11, <3>1, <4>1
    <3>2. CASE Uses(u) # {}
      <4>1. PICK s : s \in Uses(u)
          BY <3>2
      <4>2. Uses(u) = {s}
          BY <2>10, <4>1
      <4>3. Cardinality({s}) = 1
          BY FS_Singleton
      <4> QED BY <4>2, <4>3
    <3> QED BY <3>1, <3>2
  <2> QED BY <2>9, <2>12 DEF Tiled, f
<1> QED BY <1>1, SpaceInvariant, PTL
=============================================================================
