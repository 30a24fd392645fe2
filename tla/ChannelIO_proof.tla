--------------------------- MODULE ChannelIO_proof ---------------------------
(***************************************************************************)
(* Proofs about ChannelIO, for any devices, requests, channels, priorities *)
(* and length of channel programs.                                         *)
(***************************************************************************)
EXTENDS ChannelIO, SequenceTheorems, WellFoundedInduction, TLAPS

-----------------------------------------------------------------------------
(* The operators on sysblk.iointq *)

\* Every nonempty set of naturals has a least element.
LEMMA Least ==
    ASSUME NEW S, S \subseteq Nat, S # {}
    PROVE  \E m \in S : \A n \in S : m <= n
<1>1. PICK m \in S : \A n \in S : <<n, m>> \notin OpToRel(<, Nat)
    BY WFMin, NatLessThanWellFounded, Zenon
<1>2. \A n \in S : ~ (n < m)
    BY <1>1, Zenon DEF OpToRel
<1>3. \A n \in S : m <= n
    BY <1>2
<1> QED BY <1>3

\* QUEUE_IO_INTERRUPT finds a place, either the entry's own or a free one.
LEMMA InsertionPointExists ==
    ASSUME NEW q \in Seq(IoInt), NEW io \in IoInt
    PROVE  LET n == InsertionPoint(q, io) IN
           /\ n \in 1..(Len(q) + 1)
           /\ n <= Len(q) => q[n] = io \/ Priority[q[n][1]] > Priority[io[1]]
           /\ \A m \in 1..(n - 1) : q[m] # io /\ Priority[q[m][1]] <= Priority[io[1]]
<1> DEFINE Stops(n) == n <= Len(q) => q[n] = io \/ Priority[q[n][1]] > Priority[io[1]]
           S == {n \in 1..(Len(q) + 1) : Stops(n)}
<1>1. Len(q) \in Nat /\ \A n \in 1..Len(q) : q[n] \in IoInt
    BY LenProperties, ElementOfSeq
<1>2. \A x \in IoInt : Priority[x[1]] \in Nat
    BY ChannelAssumption DEF IoInt
<1>3. S \subseteq Nat /\ Len(q) + 1 \in S
    BY <1>1
<1>4. PICK n \in S : \A m \in S : n <= m
  <2> HIDE DEF S
  <2> QED BY <1>3, Least
<1>5. \A m \in 1..(n - 1) : m \notin S
    BY <1>4
<1>6. n \in 1..(Len(q) + 1) /\ Stops(n) /\ \A m \in 1..(n - 1) : ~Stops(m)
    BY <1>1, <1>4, <1>5
<1>7. LET p == InsertionPoint(q, io) IN
      p \in 1..(Len(q) + 1) /\ Stops(p) /\ \A m \in 1..(p - 1) : ~Stops(m)
    BY <1>6, Zenon DEF InsertionPoint
<1>8. \A m \in 1..Len(q) : ~Stops(m) => q[m] # io /\ Priority[q[m][1]] <= Priority[io[1]]
    BY <1>1, <1>2
<1> DEFINE p == InsertionPoint(q, io)
<1> HIDE DEF p
<1>9. p \in 1..(Len(q) + 1) /\ Stops(p) /\ \A m \in 1..(p - 1) : ~Stops(m)
    BY <1>7 DEF p
<1>10. \A m \in 1..(p - 1) : m \in 1..Len(q)
    BY <1>1, <1>9
<1> QED BY <1>8, <1>9, <1>10 DEF p

\* DEQUEUE_IO_INTERRUPT finds an entry that is on the queue.
LEMMA PositionExists ==
    ASSUME NEW q \in Seq(IoInt), NEW io, Listed(q, io)
    PROVE  Position(q, io) \in 1..Len(q) /\ q[Position(q, io)] = io
<1> DEFINE S == {i \in 1..Len(q) : q[i] = io}
<1>1. Len(q) \in Nat
    BY LenProperties
<1>2. S \subseteq Nat /\ S # {}
    BY <1>1 DEF Listed
<1>3. PICK n \in S : \A m \in S : n <= m
  <2> HIDE DEF S
  <2> QED BY <1>2, Least
<1>4. n \in 1..Len(q) /\ q[n] = io /\ \A j \in 1..(n - 1) : q[j] # io
    BY <1>1, <1>3
<1> QED BY <1>4, Zenon DEF Position

\* What linking an entry into the queue at a place does to each position.
LEMMA InsertAtElements ==
    ASSUME NEW q \in Seq(IoInt), NEW io \in IoInt, NEW n \in 1..(Len(q) + 1)
    PROVE  /\ InsertAt(q, n, io) \in Seq(IoInt)
           /\ Len(InsertAt(q, n, io)) = Len(q) + 1
           /\ \A i \in 1..(Len(q) + 1) :
                InsertAt(q, n, io)[i] =
                    IF i < n THEN q[i] ELSE IF i = n THEN io ELSE q[i - 1]
<1> DEFINE a == SubSeq(q, 1, n - 1)
           b == SubSeq(q, n, Len(q))
           s == InsertAt(q, n, io)
<1>1. Len(q) \in Nat /\ \A i \in 1..Len(q) : q[i] \in IoInt
    BY LenProperties, ElementOfSeq
<1>2. /\ a \in Seq(IoInt) /\ Len(a) = n - 1
      /\ \A i \in 1..(n - 1) : a[i] = q[i]
  <2>1. \A i \in 1..(n - 1) : q[i] \in IoInt
      BY <1>1
  <2>2. \A i \in 1..(n - 1) - 1 + 1 : a[i] = q[1 + i - 1]
      BY <2>1, SubSeqProperties
  <2>3. a \in Seq(IoInt) /\ Len(a) = IF 1 <= n - 1 THEN n - 1 - 1 + 1 ELSE 0
      BY <2>1, SubSeqProperties
  <2> QED BY <2>2, <2>3
<1>3. /\ b \in Seq(IoInt) /\ Len(b) = Len(q) - n + 1
      /\ \A i \in 1..(Len(q) - n + 1) : b[i] = q[n + i - 1]
  <2>1. \A i \in n..Len(q) : q[i] \in IoInt
      BY <1>1
  <2>2. /\ b \in Seq(IoInt) /\ Len(b) = IF n <= Len(q) THEN Len(q) - n + 1 ELSE 0
        /\ \A i \in 1..(Len(q) - n + 1) : b[i] = q[n + i - 1]
      BY <1>1, <2>1, SubSeqProperties
  <2> QED BY <1>1, <2>2
<1> DEFINE c == a \o <<io>>
<1>4. <<io>> \in Seq(IoInt) /\ Len(<<io>>) = 1 /\ <<io>>[1] = io
    OBVIOUS
<1>5. /\ c \in Seq(IoInt) /\ Len(c) = n
      /\ \A i \in 1..n : c[i] = IF i < n THEN q[i] ELSE io
  <2>1. /\ c \in Seq(IoInt) /\ Len(c) = n - 1 + 1
        /\ \A i \in 1..(n - 1 + 1) : c[i] = IF i <= n - 1 THEN a[i] ELSE <<io>>[i - (n - 1)]
    <3> HIDE DEF a
    <3> QED BY <1>2, <1>4, ConcatProperties
  <2> HIDE DEF a, c
  <2>2. Len(c) = n
      BY <2>1
  <2>3. \A i \in 1..(n - 1) : c[i] = q[i]
      BY <1>2, <2>1
  <2>4. c[n] = io
      BY <1>4, <2>1
  <2>5. ASSUME NEW i \in 1..n PROVE c[i] = IF i < n THEN q[i] ELSE io
      BY <2>3, <2>4
  <2> QED BY <2>1, <2>2, <2>5
<1>6. s = c \o b
    BY DEF InsertAt
<1>7. /\ s \in Seq(IoInt) /\ Len(s) = n + (Len(q) - n + 1)
      /\ \A i \in 1..(n + (Len(q) - n + 1)) : s[i] = IF i <= n THEN c[i] ELSE b[i - n]
  <2> HIDE DEF a, b, c, s
  <2>1. /\ c \o b \in Seq(IoInt) /\ Len(c \o b) = Len(c) + Len(b)
        /\ \A i \in 1..(Len(c) + Len(b)) :
              (c \o b)[i] = IF i <= Len(c) THEN c[i] ELSE b[i - Len(c)]
      BY <1>3, <1>5, ConcatProperties
  <2> QED BY <1>3, <1>5, <1>6, <2>1
<1>8. /\ s \in Seq(IoInt) /\ Len(s) = Len(q) + 1
      /\ \A i \in 1..(Len(q) + 1) :
            s[i] = IF i < n THEN q[i] ELSE IF i = n THEN io ELSE q[i - 1]
  <2> HIDE DEF a, b, c, s
  <2>1. Len(s) = Len(q) + 1
      BY <1>1, <1>7
  <2>2. \A i \in 1..n : s[i] = c[i]
      BY <1>1, <1>7
  <2>3. ASSUME NEW i \in (n + 1)..(Len(q) + 1) PROVE s[i] = q[i - 1]
    <3>1. s[i] = b[i - n]
        BY <1>1, <1>7
    <3>2. i - n \in 1..(Len(q) - n + 1) /\ n + (i - n) - 1 = i - 1
        BY <1>1
    <3> QED BY <1>3, <3>1, <3>2
  <2>4. ASSUME NEW i \in 1..n PROVE s[i] = IF i < n THEN q[i] ELSE io
      BY <1>5, <2>2
  <2>5. ASSUME NEW i \in 1..(Len(q) + 1)
        PROVE  s[i] = IF i < n THEN q[i] ELSE IF i = n THEN io ELSE q[i - 1]
    <3>1. CASE i \in 1..n
        BY <1>1, <2>4, <3>1
    <3>2. CASE i \in (n + 1)..(Len(q) + 1)
        BY <1>1, <2>3, <3>2
    <3> QED BY <1>1, <3>1, <3>2
  <2> QED BY <1>7, <2>1, <2>5
<1> QED BY <1>8

\* Inserting an entry adds it and keeps the others.
LEMMA InsertAtListed ==
    ASSUME NEW q \in Seq(IoInt), NEW io \in IoInt, NEW n \in 1..(Len(q) + 1)
    PROVE  \A x : Listed(InsertAt(q, n, io), x) <=> (x = io \/ Listed(q, x))
<1> DEFINE s == InsertAt(q, n, io)
<1> HIDE DEF s
<1>1. Len(q) \in Nat
    BY LenProperties
<1>2. /\ Len(s) = Len(q) + 1
      /\ \A i \in 1..(Len(q) + 1) :
            s[i] = IF i < n THEN q[i] ELSE IF i = n THEN io ELSE q[i - 1]
  <2>1. /\ Len(InsertAt(q, n, io)) = Len(q) + 1
        /\ \A i \in 1..(Len(q) + 1) : InsertAt(q, n, io)[i] =
                IF i < n THEN q[i] ELSE IF i = n THEN io ELSE q[i - 1]
      BY InsertAtElements
  <2>2. s = InsertAt(q, n, io)
      BY DEF s
  <2> QED BY <2>1, <2>2
<1>3. ASSUME NEW x, Listed(q, x) PROVE Listed(s, x)
  <2>1. PICK i \in 1..Len(q) : q[i] = x
      BY <1>3 DEF Listed
  <2>2. CASE i < n
      BY <1>1, <1>2, <2>1, <2>2 DEF Listed
  <2>3. CASE i >= n
    <3>1. i + 1 \in 1..Len(s) /\ s[i + 1] = x
        BY <1>1, <1>2, <2>1, <2>3
    <3> QED BY <3>1 DEF Listed
  <2> QED BY <1>1, <2>2, <2>3
<1>4. Listed(s, io)
    BY <1>1, <1>2 DEF Listed
<1>5. ASSUME NEW x, Listed(s, x), x # io PROVE Listed(q, x)
  <2>1. PICK i \in 1..(Len(q) + 1) : s[i] = x
      BY <1>2, <1>5 DEF Listed
  <2>2. CASE i < n
      BY <1>1, <1>2, <2>1, <2>2 DEF Listed
  <2>3. CASE i > n
    <3>1. i - 1 \in 1..Len(q) /\ q[i - 1] = x
        BY <1>1, <1>2, <2>1, <2>3
    <3> QED BY <3>1 DEF Listed
  <2>4. i # n
      BY <1>2, <1>5, <2>1
  <2> QED BY <1>1, <2>2, <2>3, <2>4
<1> QED BY <1>2, <1>3, <1>4, <1>5 DEF s

\* What unlinking an entry does to each position.
LEMMA RemoveAtElements ==
    ASSUME NEW q \in Seq(IoInt), NEW n \in 1..Len(q)
    PROVE  /\ RemoveAt(q, n) \in Seq(IoInt)
           /\ Len(RemoveAt(q, n)) = Len(q) - 1
           /\ \A i \in 1..(Len(q) - 1) :
                RemoveAt(q, n)[i] = IF i < n THEN q[i] ELSE q[i + 1]
<1> DEFINE a == SubSeq(q, 1, n - 1)
           b == SubSeq(q, n + 1, Len(q))
           s == RemoveAt(q, n)
<1>1. Len(q) \in Nat /\ \A i \in 1..Len(q) : q[i] \in IoInt
    BY LenProperties, ElementOfSeq
<1>2. /\ a \in Seq(IoInt) /\ Len(a) = n - 1
      /\ \A i \in 1..(n - 1) : a[i] = q[i]
  <2>1. \A i \in 1..(n - 1) : q[i] \in IoInt
      BY <1>1
  <2>2. \A i \in 1..(n - 1) - 1 + 1 : a[i] = q[1 + i - 1]
      BY <2>1, SubSeqProperties
  <2>3. a \in Seq(IoInt) /\ Len(a) = IF 1 <= n - 1 THEN n - 1 - 1 + 1 ELSE 0
      BY <2>1, SubSeqProperties
  <2> QED BY <2>2, <2>3
<1>3. /\ b \in Seq(IoInt) /\ Len(b) = Len(q) - n
      /\ \A i \in 1..(Len(q) - n) : b[i] = q[n + i]
  <2>1. \A i \in (n + 1)..Len(q) : q[i] \in IoInt
      BY <1>1
  <2>2. /\ b \in Seq(IoInt)
        /\ Len(b) = IF n + 1 <= Len(q) THEN Len(q) - (n + 1) + 1 ELSE 0
        /\ \A i \in 1..(Len(q) - (n + 1) + 1) : b[i] = q[(n + 1) + i - 1]
      BY <1>1, <2>1, SubSeqProperties
  <2> HIDE DEF b
  <2>3. Len(b) = Len(q) - n
      BY <1>1, <2>2
  <2>4. ASSUME NEW i \in 1..(Len(q) - n) PROVE b[i] = q[n + i]
    <3>1. (n + 1) + i - 1 = n + i /\ i \in 1..(Len(q) - (n + 1) + 1)
        BY <1>1
    <3> QED BY <2>2, <3>1
  <2> QED BY <2>2, <2>3, <2>4
<1>4. s = a \o b
    BY DEF RemoveAt
<1>5. /\ s \in Seq(IoInt) /\ Len(s) = Len(q) - 1
      /\ \A i \in 1..(Len(q) - 1) : s[i] = IF i < n THEN q[i] ELSE q[i + 1]
  <2> HIDE DEF a, b, s
  <2>1. /\ a \o b \in Seq(IoInt) /\ Len(a \o b) = Len(a) + Len(b)
        /\ \A i \in 1..(Len(a) + Len(b)) :
              (a \o b)[i] = IF i <= Len(a) THEN a[i] ELSE b[i - Len(a)]
      BY <1>2, <1>3, ConcatProperties
  <2> QED BY <1>1, <1>2, <1>3, <1>4, <2>1
<1> QED BY <1>5

\* sysblk.iointq is in order of priority and has no duplicates.
Ordered(q) ==
    \A i, j \in 1..Len(q) : i < j =>
        Priority[q[i][1]] <= Priority[q[j][1]] /\ q[i] # q[j]

\* QUEUE_IO_INTERRUPT adds the entry, keeps the others and the order.
LEMMA EnqueueProperties ==
    ASSUME NEW q \in Seq(IoInt), NEW io \in IoInt
    PROVE  /\ Enqueue(q, io) \in Seq(IoInt)
           /\ \A x : Listed(Enqueue(q, io), x) <=> (x = io \/ Listed(q, x))
           /\ Enqueue(q, io) # <<>>
           /\ Ordered(q) => Ordered(Enqueue(q, io))
<1> DEFINE n == InsertionPoint(q, io)
<1>1. CASE n <= Len(q) /\ q[n] = io
  <2>1. Len(q) \in Nat /\ n \in 1..Len(q)
      BY <1>1, LenProperties, InsertionPointExists
  <2>2. Listed(q, io) /\ q # <<>>
      BY <1>1, <2>1, EmptySeq DEF Listed
  <2>3. Enqueue(q, io) = q
      BY <1>1 DEF Enqueue
  <2> QED BY <2>2, <2>3
<1>2. CASE ~ (n <= Len(q) /\ q[n] = io)
  <2> DEFINE s == InsertAt(q, n, io)
  <2>1. Len(q) \in Nat /\ \A i \in 1..Len(q) : q[i] \in IoInt
      BY LenProperties, ElementOfSeq
  <2>2. \A x \in IoInt : Priority[x[1]] \in Nat
      BY ChannelAssumption DEF IoInt
  <2>3. /\ n \in 1..(Len(q) + 1)
        /\ n <= Len(q) => Priority[q[n][1]] > Priority[io[1]]
        /\ \A m \in 1..(n - 1) : q[m] # io /\ Priority[q[m][1]] <= Priority[io[1]]
      BY <1>2, InsertionPointExists
  <2> HIDE DEF n
  <2>4. /\ s \in Seq(IoInt) /\ Len(s) = Len(q) + 1
        /\ \A i \in 1..(Len(q) + 1) :
              s[i] = IF i < n THEN q[i] ELSE IF i = n THEN io ELSE q[i - 1]
      BY <2>3, InsertAtElements
  <2>5. \A x : Listed(s, x) <=> (x = io \/ Listed(q, x))
      BY <2>3, InsertAtListed
  <2> HIDE DEF s
  <2>6. s # <<>>
      BY <2>1, <2>4, EmptySeq
  <2>7. ASSUME Ordered(q) PROVE Ordered(s)
    <3> DEFINE P(x) == Priority[x[1]]
    <3>1. P(io) \in Int /\ \A k \in 1..Len(q) : P(q[k]) \in Int
        BY <2>1, <2>2
    <3>2. \A k, l \in 1..Len(q) : k < l => P(q[k]) <= P(q[l]) /\ q[k] # q[l]
        BY <2>7 DEF Ordered
    <3>3. /\ n <= Len(q) => P(q[n]) > P(io)
          /\ \A m \in 1..(n - 1) : q[m] # io /\ P(q[m]) <= P(io)
        BY <2>3
    <3>4. ASSUME NEW k \in 1..Len(q) PROVE q[k] # io
      <4>1. CASE k < n
          BY <2>1, <2>3, <3>3, <4>1
      <4>2. CASE k >= n
        <5>1. n \in 1..Len(q) /\ P(q[n]) <= P(q[k])
            BY <2>1, <2>3, <3>1, <3>2, <4>2
        <5>2. P(q[k]) > P(io)
            BY <3>1, <3>3, <5>1
        <5> QED BY <3>1, <5>2
      <4> QED BY <2>1, <2>3, <4>1, <4>2
    <3>5. ASSUME NEW i \in 1..Len(s), NEW j \in 1..Len(s), i < j
          PROVE  P(s[i]) <= P(s[j]) /\ s[i] # s[j]
      <4> HIDE DEF P
      <4>1. CASE j < n
        <5>1. i \in 1..Len(q) /\ j \in 1..Len(q) /\ s[i] = q[i] /\ s[j] = q[j]
            BY <2>1, <2>3, <2>4, <3>5, <4>1
        <5> QED BY <3>2, <3>5, <5>1
      <4>2. CASE j = n
        <5>1. i \in 1..(n - 1) /\ i \in 1..Len(q) /\ s[i] = q[i] /\ s[j] = io
            BY <2>1, <2>3, <2>4, <3>5, <4>2
        <5> QED BY <3>4, <3>3, <5>1
      <4>3. CASE i = n
        <5>1. j - 1 \in 1..Len(q) /\ n \in 1..Len(q) /\ s[i] = io /\ s[j] = q[j - 1]
            BY <2>1, <2>3, <2>4, <3>5, <4>3
        <5>2. P(q[n]) <= P(q[j - 1])
            BY <2>3, <3>1, <3>2, <3>5, <4>3, <5>1
        <5> QED BY <2>1, <2>3, <3>4, <3>1, <3>3, <5>1, <5>2
      <4>4. CASE i < n /\ j > n
        <5>1. i \in 1..Len(q) /\ j - 1 \in 1..Len(q) /\ i < j - 1
              /\ s[i] = q[i] /\ s[j] = q[j - 1]
            BY <2>1, <2>3, <2>4, <3>5, <4>4
        <5> QED BY <3>2, <5>1
      <4>5. CASE i > n
        <5>1. i - 1 \in 1..Len(q) /\ j - 1 \in 1..Len(q) /\ i - 1 < j - 1
              /\ s[i] = q[i - 1] /\ s[j] = q[j - 1]
            BY <2>1, <2>3, <2>4, <3>5, <4>5
        <5> QED BY <3>2, <5>1
      <4> QED BY <2>1, <2>3, <2>4, <3>5, <4>1, <4>2, <4>3, <4>4, <4>5
    <3> QED BY <3>5 DEF Ordered
  <2>8. Enqueue(q, io) = s
      BY <1>2 DEF Enqueue, s, n
  <2> QED BY <2>4, <2>5, <2>6, <2>7, <2>8
<1> QED BY <1>1, <1>2

\* DEQUEUE_IO_INTERRUPT removes no other entry and keeps the order.
LEMMA DequeueProperties ==
    ASSUME NEW q \in Seq(IoInt), NEW io
    PROVE  /\ Dequeue(q, io) \in Seq(IoInt)
           /\ \A x : x # io => (Listed(Dequeue(q, io), x) <=> Listed(q, x))
           /\ Ordered(q) => Ordered(Dequeue(q, io))
<1>1. CASE ~ Listed(q, io)
    BY <1>1 DEF Dequeue
<1>2. CASE Listed(q, io)
  <2> DEFINE n == Position(q, io)
             s == RemoveAt(q, n)
  <2>1. Len(q) \in Nat
      BY LenProperties
  <2>2. n \in 1..Len(q) /\ q[n] = io
      BY <1>2, PositionExists
  <2> HIDE DEF n
  <2>3. /\ s \in Seq(IoInt) /\ Len(s) = Len(q) - 1
        /\ \A i \in 1..(Len(q) - 1) : s[i] = IF i < n THEN q[i] ELSE q[i + 1]
      BY <2>2, RemoveAtElements
  <2> HIDE DEF s
  <2>4. ASSUME NEW x, x # io, Listed(q, x) PROVE Listed(s, x)
    <3>1. PICK i \in 1..Len(q) : q[i] = x
        BY <2>4 DEF Listed
    <3>2. CASE i < n
        BY <2>1, <2>2, <2>3, <3>1, <3>2 DEF Listed
    <3>3. CASE i > n
      <4>1. i - 1 \in 1..Len(s) /\ s[i - 1] = x
          BY <2>1, <2>2, <2>3, <3>1, <3>3
      <4> QED BY <4>1 DEF Listed
    <3> QED BY <2>1, <2>2, <2>4, <3>1, <3>2, <3>3
  <2>5. ASSUME NEW x, Listed(s, x) PROVE Listed(q, x)
    <3>1. PICK i \in 1..Len(s) : s[i] = x
        BY <2>5 DEF Listed
    <3>2. i \in 1..Len(q) /\ i + 1 \in 1..Len(q) /\ (q[i] = x \/ q[i + 1] = x)
        BY <2>1, <2>2, <2>3, <3>1
    <3> QED BY <3>2 DEF Listed
  <2>6. ASSUME Ordered(q) PROVE Ordered(s)
    <3> DEFINE pos(k) == IF k < n THEN k ELSE k + 1
    <3>1. ASSUME NEW k \in 1..Len(s) PROVE pos(k) \in 1..Len(q) /\ s[k] = q[pos(k)]
      <4>1. CASE k < n
          BY <2>1, <2>2, <2>3, <4>1
      <4>2. CASE ~ (k < n)
          BY <2>1, <2>2, <2>3, <4>2
      <4> QED BY <4>1, <4>2
    <3>2. \A k, l \in 1..Len(s) : k < l => pos(k) < pos(l)
        BY <2>1, <2>2, <2>3
    <3> HIDE DEF pos
    <3> QED BY <2>6, <3>1, <3>2 DEF Ordered
  <2>7. Dequeue(q, io) = s
      BY <1>2 DEF Dequeue, s, n
  <2> QED BY <2>3, <2>4, <2>5, <2>6, <2>7
<1> QED BY <1>1, <1>2

-----------------------------------------------------------------------------
(* Types, and the claims a type rests on *)

\* A request in use has a device, and one still to fetch a CCW has not reached
\* the bound.
ReqSound ==
    \A r \in Req :
        /\ req[r].pc # "free" => req[r].dev \in Device
        /\ req[r].pc \in {"sched", "queued", "start", "ccw", "pciupd", "exec", "retry"}
                => req[r].ccw < MaxCcw

\* Inside startio the CPU has a request, which nobody else moves.
CpuSound ==
    /\ cpupc \in {"sched", "sync"} => cpureq \in Req
    /\ cpupc = "sched" => req[cpureq].pc = "sched"
    /\ cpupc = "sync" => req[cpureq].sync

TypeInv == TypeOK /\ ReqSound /\ CpuSound

\* The machine starts with its types right and no request made.
LEMMA TypeInvInit == Init => TypeInv
<1> SUFFICES ASSUME Init PROVE TypeInv
    OBVIOUS
<1>1. \A r \in Req : req[r] = [pc |-> "free", dev |-> NoDev, ccw |-> 0,
                               sync |-> FALSE, retry |-> FALSE, hasty |-> FALSE]
    BY DEF Init
<1>2. DevicesTypeOK /\ InterruptsTypeOK
    BY EmptySeq DEF Init, DevicesTypeOK, InterruptsTypeOK
<1>3. RequestsTypeOK
    BY ChannelAssumption DEF Init, RequestsTypeOK, ReqPc
<1>4. CpuTypeOK
    BY DEF Init, CpuTypeOK, CpuPc
<1>5. SwitchesTypeOK
    BY Zenon DEF Init, SwitchesTypeOK
<1>6. ReqSound
    BY <1>1, ChannelAssumption DEF ReqSound
<1>7. CpuSound
    BY DEF Init, CpuSound
<1> QED BY <1>2, <1>3, <1>4, <1>5, <1>6, <1>7 DEF TypeInv, TypeOK


\* Types, and the claims on requests and on the CPU that they rest on, survive
\* every step; the actions are taken in the order of Next.
LEMMA TypeInvNext == TypeInv /\ [Next]_vars => TypeInv'
<1> SUFFICES ASSUME TypeInv, [Next]_vars PROVE TypeInv'
    OBVIOUS
<1> USE DEF TypeInv, TypeOK
<1>1. CASE UNCHANGED vars
    BY <1>1 DEF vars, devvars, intvars, cpuvars, pswvars, DevicesTypeOK,
       InterruptsTypeOK, RequestsTypeOK, CpuTypeOK, SwitchesTypeOK, ReqSound, CpuSound
<1>2. CASE PickInterrupt
  <2>1. DevicesTypeOK' /\ InterruptsTypeOK' /\ RequestsTypeOK' /\ SwitchesTypeOK'
      BY <1>2 DEF PickInterrupt, devvars, intvars, pswvars, DevicesTypeOK, InterruptsTypeOK,
         RequestsTypeOK, SwitchesTypeOK
  <2>2. CpuTypeOK'
      BY <1>2, ElementOfSeq DEF PickInterrupt, pswvars, Enabled, CpuTypeOK, CpuPc, InterruptsTypeOK
  <2>3. ReqSound' /\ CpuSound'
      BY <1>2 DEF PickInterrupt, ReqSound, CpuSound
  <2> QED BY <2>1, <2>2, <2>3
<1>3. CASE TakeInterrupt
  <2>1. DevicesTypeOK' /\ RequestsTypeOK'
      BY <1>3 DEF TakeInterrupt, devvars, DevicesTypeOK, RequestsTypeOK
  <2>2. InterruptsTypeOK'
      BY <1>3, DequeueProperties DEF TakeInterrupt, DequeueInterrupt, InterruptsTypeOK
  <2>3. CpuTypeOK'
      BY <1>3 DEF TakeInterrupt, LoadPsw, CpuTypeOK, CpuPc
  <2>4. SwitchesTypeOK'
      BY <1>3, Zenon DEF TakeInterrupt, LoadPsw, SwitchesTypeOK
  <2>5. ReqSound' /\ CpuSound'
      BY <1>3 DEF TakeInterrupt, ReqSound, CpuSound
  <2> QED BY <2>1, <2>2, <2>3, <2>4, <2>5
<1>4. CASE EnterWait
    BY <1>4 DEF EnterWait, devvars, intvars, pswvars, DevicesTypeOK, InterruptsTypeOK,
       RequestsTypeOK, CpuTypeOK, CpuPc, SwitchesTypeOK, ReqSound, CpuSound
<1>5. CASE Wake
    BY <1>5 DEF Wake, devvars, intvars, pswvars, DevicesTypeOK, InterruptsTypeOK,
       RequestsTypeOK, CpuTypeOK, CpuPc, SwitchesTypeOK, ReqSound, CpuSound
<1>6. CASE OtherInterrupt
    BY <1>6 DEF OtherInterrupt, LoadPsw, devvars, intvars, DevicesTypeOK, InterruptsTypeOK,
       RequestsTypeOK, CpuTypeOK, CpuPc, SwitchesTypeOK, ReqSound, CpuSound
<1>7. CASE SetPsw
    BY <1>7 DEF SetPsw, LoadPsw, devvars, intvars, cpuvars, DevicesTypeOK, InterruptsTypeOK,
       RequestsTypeOK, CpuTypeOK, SwitchesTypeOK, ReqSound, CpuSound
<1>8. ASSUME NEW d \in Device, NEW r \in Req, StartioAsync(d, r) \/ StartioSync(d, r)
      PROVE  TypeInv'
  <2>1. PICK pc \in {"sched", "start"}, sync \in BOOLEAN :
            /\ Accept(d, r, pc, sync)
            /\ active' \in {active, active \cup {d}}
            /\ pc = "sched" => cpupc' = "sched"
            /\ pc = "start" => cpupc' = "sync" /\ sync
    <3>1. CASE StartioAsync(d, r)
      <4> WITNESS "sched" \in {"sched", "start"}, FALSE \in BOOLEAN
      <4> QED BY <3>1 DEF StartioAsync
    <3>2. CASE StartioSync(d, r)
      <4> WITNESS "start" \in {"sched", "start"}, TRUE \in BOOLEAN
      <4> QED BY <3>2 DEF StartioSync
    <3> QED BY <1>8, <3>1, <3>2
  <2>2. DevicesTypeOK' /\ InterruptsTypeOK'
      BY <2>1 DEF Accept, intvars, DevicesTypeOK, InterruptsTypeOK
  <2>3. /\ req' = [req EXCEPT ![r] = [pc |-> pc, dev |-> d, ccw |-> 0,
                                      sync |-> sync, retry |-> FALSE,
                                      hasty |-> d \in unreported]]
        /\ cpureq' = r
      BY <2>1 DEF Accept
  <2>4. RequestsTypeOK'
      BY <2>3, ChannelAssumption DEF RequestsTypeOK, ReqPc
  <2>5. CpuTypeOK' /\ SwitchesTypeOK'
      BY <2>1 DEF Accept, pswvars, CpuTypeOK, CpuPc, SwitchesTypeOK
  <2>6. ReqSound' /\ CpuSound'
      BY <2>1, <2>3, ChannelAssumption DEF RequestsTypeOK, ReqSound, CpuSound
  <2> QED BY <2>2, <2>4, <2>5, <2>6
<1>9. CASE Schedule
    BY <1>9 DEF Schedule, Goto, devvars, intvars, pswvars, DevicesTypeOK, InterruptsTypeOK,
       RequestsTypeOK, ReqPc, CpuTypeOK, CpuPc, SwitchesTypeOK, ReqSound, CpuSound
<1>10. CASE ScheduleFail
    BY <1>10, ChannelAssumption DEF ScheduleFail, Released, devvars, intvars, pswvars, DevicesTypeOK,
       InterruptsTypeOK, RequestsTypeOK, ReqPc, CpuTypeOK, CpuPc, SwitchesTypeOK, ReqSound, CpuSound
<1>11. CASE SyncDone
    BY <1>11, ChannelAssumption DEF SyncDone, Released, devvars, intvars, pswvars, DevicesTypeOK,
       InterruptsTypeOK, RequestsTypeOK, ReqPc, CpuTypeOK, CpuPc, SwitchesTypeOK, ReqSound, CpuSound
<1>12. CASE SyncRetry
  <2>1. DevicesTypeOK' /\ InterruptsTypeOK' /\ CpuTypeOK' /\ SwitchesTypeOK'
      BY <1>12 DEF SyncRetry, devvars, intvars, pswvars, DevicesTypeOK, InterruptsTypeOK,
         CpuTypeOK, CpuPc, SwitchesTypeOK
  <2>2. cpureq \in Req
      BY <1>12 DEF SyncRetry, CpuSound
  <2> DEFINE new == [req[cpureq] EXCEPT !.pc = "sched", !.sync = FALSE]
  <2>3. /\ new \in [pc : ReqPc, dev : Device \cup {NoDev}, ccw : 0..MaxCcw,
                   sync : BOOLEAN, retry : BOOLEAN, hasty : BOOLEAN]
        /\ new.pc = "sched" /\ new.dev = req[cpureq].dev /\ new.ccw = req[cpureq].ccw
      BY <2>2 DEF RequestsTypeOK, ReqPc
  <2>4. req' = [req EXCEPT ![cpureq] = new]
      BY <1>12, <2>2 DEF SyncRetry, RequestsTypeOK
  <2> HIDE DEF new
  <2>5. RequestsTypeOK'
      BY <2>2, <2>3, <2>4 DEF RequestsTypeOK
  <2>6. ReqSound'
      BY <1>12, <2>2, <2>3, <2>4 DEF SyncRetry, At, RequestsTypeOK, ReqSound
  <2>7. CpuSound'
      BY <1>12, <2>2, <2>3, <2>4 DEF SyncRetry, RequestsTypeOK, CpuSound
  <2> QED BY <2>1, <2>5, <2>6, <2>7
<1>13. ASSUME NEW r \in Req, ChainBegin(r) PROVE TypeInv'
  <2>1. DevicesTypeOK' /\ InterruptsTypeOK' /\ CpuTypeOK' /\ SwitchesTypeOK'
      BY <1>13 DEF ChainBegin, At, cpuvars, intvars, pswvars, DevicesTypeOK, InterruptsTypeOK,
         CpuTypeOK, SwitchesTypeOK, ReqSound
  <2>2. RequestsTypeOK' /\ ReqSound' /\ CpuSound'
      BY <1>13 DEF ChainBegin, At, Goto, cpuvars, RequestsTypeOK, ReqPc, ReqSound, CpuSound
  <2> QED BY <2>1, <2>2
<1>14. ASSUME NEW r \in Req, Pci(r) PROVE TypeInv'
  <2>1. <<req[r].dev, "pci">> \in IoInt
      BY <1>14 DEF Pci, At, ReqSound, IoInt, Kind
  <2>2. InterruptsTypeOK'
      BY <1>14, <2>1, EnqueueProperties DEF Pci, QueueInterrupt, InterruptsTypeOK
  <2>3. DevicesTypeOK' /\ CpuTypeOK' /\ SwitchesTypeOK'
      BY <1>14 DEF Pci, devvars, cpuvars, pswvars, DevicesTypeOK, CpuTypeOK, SwitchesTypeOK
  <2>4. RequestsTypeOK' /\ ReqSound' /\ CpuSound'
      BY <1>14 DEF Pci, At, Goto, cpuvars, RequestsTypeOK, ReqPc, ReqSound, CpuSound
  <2> QED BY <2>2, <2>3, <2>4
<1>15. ASSUME NEW r \in Req, PciUpd(r) PROVE TypeInv'
  <2>1. DevicesTypeOK' /\ InterruptsTypeOK' /\ CpuTypeOK'
      BY <1>15 DEF PciUpd, devvars, intvars, cpuvars, pswvars, DevicesTypeOK, InterruptsTypeOK, CpuTypeOK
  <2>2. SwitchesTypeOK'
      BY <1>15, Zenon DEF PciUpd, UpdateIc, pswvars, SwitchesTypeOK
  <2>3. RequestsTypeOK' /\ ReqSound' /\ CpuSound'
      BY <1>15 DEF PciUpd, At, Goto, cpuvars, RequestsTypeOK, ReqPc, ReqSound, CpuSound
  <2> QED BY <2>1, <2>2, <2>3
<1>16. ASSUME NEW r \in Req, Ccw(r) PROVE TypeInv'
  <2>1. PICK pc \in {"ccw", "end"} :
            /\ req[r].ccw + 1 = MaxCcw => pc = "end"
            /\ req' = [req EXCEPT ![r].pc = pc, ![r].ccw = req[r].ccw + 1, ![r].retry = FALSE]
      BY <1>16 DEF Ccw
  <2>2. req[r].ccw + 1 \in 0..MaxCcw /\ req[r].pc \in {"ccw", "exec"} /\ req[r].dev \in Device
      BY <1>16, ChannelAssumption DEF Ccw, At, ReqSound, RequestsTypeOK
  <2>3. RequestsTypeOK' /\ ReqSound'
      BY <2>1, <2>2, ChannelAssumption DEF RequestsTypeOK, ReqPc, ReqSound
  <2>4. CpuSound'
      BY <1>16, <2>1, <2>2 DEF Ccw, cpuvars, RequestsTypeOK, CpuSound
  <2>5. DevicesTypeOK'
      BY <1>16 DEF Ccw, DevicesTypeOK
  <2>6. InterruptsTypeOK' /\ CpuTypeOK' /\ SwitchesTypeOK'
      BY <1>16 DEF Ccw, intvars, cpuvars, pswvars, InterruptsTypeOK, CpuTypeOK, SwitchesTypeOK
  <2> QED BY <2>3, <2>4, <2>5, <2>6
<1>17. ASSUME NEW r \in Req, RetrySync(r) PROVE TypeInv'
  <2>1. DevicesTypeOK' /\ InterruptsTypeOK' /\ CpuTypeOK' /\ SwitchesTypeOK'
      BY <1>17 DEF RetrySync, devvars, cpuvars, intvars, pswvars, DevicesTypeOK,
         InterruptsTypeOK, CpuTypeOK, SwitchesTypeOK
  <2> DEFINE new == [req[r] EXCEPT !.pc = "retry", !.retry = TRUE]
  <2>2. /\ new \in [pc : ReqPc, dev : Device \cup {NoDev}, ccw : 0..MaxCcw,
                   sync : BOOLEAN, retry : BOOLEAN, hasty : BOOLEAN]
        /\ new.pc = "retry" /\ new.dev = req[r].dev /\ new.ccw = req[r].ccw
        /\ new.sync = req[r].sync
      BY DEF RequestsTypeOK, ReqPc
  <2>3. req' = [req EXCEPT ![r] = new]
      BY <1>17 DEF RetrySync, RequestsTypeOK
  <2> HIDE DEF new
  <2>4. RequestsTypeOK'
      BY <2>2, <2>3 DEF RequestsTypeOK
  <2>5. ReqSound'
      BY <1>17, <2>2, <2>3 DEF RetrySync, At, RequestsTypeOK, ReqSound
  <2>6. CpuSound'
      BY <1>17, <2>2, <2>3 DEF RetrySync, At, cpuvars, RequestsTypeOK, CpuSound
  <2> QED BY <2>1, <2>4, <2>5, <2>6
<1>18. ASSUME NEW r \in Req, ChainEnd(r) PROVE TypeInv'
  <2>1. req[r].dev \in Device /\ <<req[r].dev, "io">> \in IoInt
      BY <1>18 DEF ChainEnd, At, ReqSound, IoInt, Kind
  <2>2. InterruptsTypeOK'
      BY <1>18, <2>1, EnqueueProperties DEF ChainEnd, QueueInterrupt, InterruptsTypeOK
  <2>3. DevicesTypeOK' /\ CpuTypeOK' /\ SwitchesTypeOK'
      BY <1>18, <2>1 DEF ChainEnd, cpuvars, pswvars, DevicesTypeOK, CpuTypeOK, SwitchesTypeOK
  <2>4. RequestsTypeOK' /\ ReqSound' /\ CpuSound'
      BY <1>18 DEF ChainEnd, At, Goto, cpuvars, RequestsTypeOK, ReqPc, ReqSound, CpuSound
  <2> QED BY <2>2, <2>3, <2>4
<1>19. ASSUME NEW r \in Req, EndUpd(r) PROVE TypeInv'
  <2>1. DevicesTypeOK' /\ InterruptsTypeOK' /\ CpuTypeOK'
      BY <1>19 DEF EndUpd, devvars, intvars, cpuvars, pswvars, DevicesTypeOK, InterruptsTypeOK, CpuTypeOK
  <2>2. SwitchesTypeOK'
      BY <1>19, Zenon DEF EndUpd, UpdateIc, pswvars, SwitchesTypeOK
  <2>3. RequestsTypeOK' /\ ReqSound' /\ CpuSound'
      BY <1>19, ChannelAssumption DEF EndUpd, At, Released, cpuvars, RequestsTypeOK, ReqPc, ReqSound, CpuSound
  <2> QED BY <2>1, <2>2, <2>3
<1>20. CASE CpuUpd
  <2>1. DevicesTypeOK' /\ InterruptsTypeOK' /\ RequestsTypeOK' /\ CpuTypeOK'
      BY <1>20 DEF CpuUpd, devvars, intvars, pswvars, DevicesTypeOK, InterruptsTypeOK,
         RequestsTypeOK, CpuTypeOK, CpuPc
  <2>2. SwitchesTypeOK'
      BY <1>20, Zenon DEF CpuUpd, UpdateIc, pswvars, SwitchesTypeOK
  <2>3. ReqSound' /\ CpuSound'
      BY <1>20 DEF CpuUpd, ReqSound, CpuSound
  <2> QED BY <2>1, <2>2, <2>3
<1>21. ASSUME NEW d \in Device, TestIoPending(d) PROVE TypeInv'
  <2>1. InterruptsTypeOK'
      BY <1>21, DequeueProperties DEF TestIoPending, DequeueInterrupt, InterruptsTypeOK
  <2>2. DevicesTypeOK' /\ RequestsTypeOK' /\ CpuTypeOK' /\ SwitchesTypeOK'
      BY <1>21 DEF TestIoPending, devvars, pswvars, DevicesTypeOK, RequestsTypeOK, CpuTypeOK,
         CpuPc, SwitchesTypeOK
  <2>3. ReqSound' /\ CpuSound'
      BY <1>21 DEF TestIoPending, ReqSound, CpuSound
  <2> QED BY <2>1, <2>2, <2>3
<1>22. ASSUME NEW d \in Device, HaltIoBusy(d) PROVE TypeInv'
    BY <1>22 DEF HaltIoBusy, cpuvars, pswvars, DevicesTypeOK, InterruptsTypeOK,
       RequestsTypeOK, CpuTypeOK, SwitchesTypeOK, ReqSound, CpuSound
<1>23. ASSUME NEW d \in Device, HaltIoIdle(d) PROVE TypeInv'
  <2>1. <<d, "io">> \in IoInt
      BY DEF IoInt, Kind
  <2>2. InterruptsTypeOK'
      BY <1>23, <2>1, EnqueueProperties DEF HaltIoIdle, QueueInterrupt, InterruptsTypeOK
  <2>3. DevicesTypeOK' /\ RequestsTypeOK' /\ CpuTypeOK' /\ SwitchesTypeOK'
      BY <1>23 DEF HaltIoIdle, devvars, pswvars, DevicesTypeOK, RequestsTypeOK, CpuTypeOK,
         CpuPc, SwitchesTypeOK
  <2>4. ReqSound' /\ CpuSound'
      BY <1>23 DEF HaltIoIdle, ReqSound, CpuSound
  <2> QED BY <2>2, <2>3, <2>4
<1>24. ASSUME NEW d \in Device, Attention(d) PROVE TypeInv'
  <2>1. <<d, "attn">> \in IoInt
      BY DEF IoInt, Kind
  <2>2. InterruptsTypeOK'
      BY <1>24, <2>1, EnqueueProperties DEF Attention, QueueInterrupt, InterruptsTypeOK
  <2>3. DevicesTypeOK' /\ RequestsTypeOK' /\ CpuTypeOK' /\ SwitchesTypeOK'
      BY <1>24 DEF Attention, devvars, cpuvars, pswvars, DevicesTypeOK, RequestsTypeOK, CpuTypeOK,
         SwitchesTypeOK
  <2>4. ReqSound' /\ CpuSound'
      BY <1>24 DEF Attention, cpuvars, ReqSound, CpuSound
  <2> QED BY <2>2, <2>3, <2>4
<1>25. CASE AttnUpd
  <2>1. DevicesTypeOK' /\ InterruptsTypeOK' /\ RequestsTypeOK' /\ CpuTypeOK'
      BY <1>25 DEF AttnUpd, devvars, intvars, cpuvars, pswvars, DevicesTypeOK, InterruptsTypeOK,
         RequestsTypeOK, CpuTypeOK
  <2>2. SwitchesTypeOK'
      BY <1>25, Zenon DEF AttnUpd, UpdateIc, pswvars, SwitchesTypeOK
  <2>3. ReqSound' /\ CpuSound'
      BY <1>25 DEF AttnUpd, cpuvars, ReqSound, CpuSound
  <2> QED BY <2>1, <2>2, <2>3
<1> HIDE DEF TypeInv, TypeOK
<1> QED
    BY <1>1, <1>2, <1>3, <1>4, <1>5, <1>6, <1>7, <1>8, <1>9, <1>10, <1>11, <1>12, <1>13,
       <1>14, <1>15, <1>16, <1>17, <1>18, <1>19, <1>20, <1>21, <1>22, <1>23, <1>24, <1>25
    DEF Next, Interrupts, Starting, Execute, Instruction

\* Every variable keeps its type: in particular a channel program never
\* counts more CCWs than it has, whatever the retries of synchronous attempts.
THEOREM TypeCorrect == Spec => []TypeOK
<1>1. Spec => []TypeInv
    BY TypeInvInit, TypeInvNext, PTL DEF Spec
<1>2. TypeInv => TypeOK
    BY DEF TypeInv
<1> QED BY <1>1, <1>2, PTL

-----------------------------------------------------------------------------
(* The interrupt queue *)

\* What a step does to the queue, the flags and the end statuses owed.
Queues(io) ==
    /\ QueueInterrupt(io)
    /\ unreported' \subseteq unreported \cup {d \in Device : io = <<d, "io">>}

Dequeues(io) ==
    /\ DequeueInterrupt(io)
    /\ unreported' = {d \in unreported : io # <<d, "io">>}

Unflags == flags' \subseteq flags /\ UNCHANGED <<iointq, unreported>>

\* TIO has an interrupt to clear whenever the device has one pending.
LEMMA ForemostFlagged ==
    ASSUME NEW d \in Device, FlagsOf(d) # {}
    PROVE  Foremost(d) \in FlagsOf(d)
<1>1. PICK x : x \in FlagsOf(d)
    OBVIOUS
<1>2. \A y \in FlagsOf(d) : y \in {<<d, "io">>, <<d, "pci">>, <<d, "attn">>}
    BY DEF FlagsOf, Kind
<1>3. \E io \in FlagsOf(d) : \/ io[2] = "pci"
                             \/ io[2] = "io" /\ <<d, "pci">> \notin flags
                             \/ FlagsOf(d) = {io}
  <2>1. CASE <<d, "pci">> \in flags
      BY <2>1 DEF FlagsOf, Kind
  <2>2. CASE <<d, "pci">> \notin flags /\ <<d, "io">> \in flags
      BY <2>2 DEF FlagsOf, Kind
  <2>3. CASE <<d, "pci">> \notin flags /\ <<d, "io">> \notin flags
    <3>1. FlagsOf(d) = {<<d, "attn">>}
        BY <1>1, <1>2, <2>3 DEF FlagsOf
    <3> QED BY <3>1
  <2> QED BY <2>1, <2>2, <2>3
<1> QED BY <1>3, Zenon DEF Foremost

\* Every step enters an interrupt on the queue, takes one off it, or leaves the
\* queue alone and at most turns flags off: nothing else touches sysblk.iointq.
LEMMA QueueSteps ==
    ASSUME TypeInv, [Next]_vars
    PROVE  Unflags \/ \E io \in IoInt : Queues(io) \/ Dequeues(io)
<1> USE DEF TypeInv, TypeOK
<1>1. CASE UNCHANGED <<flags, iointq, unreported>>
    BY <1>1 DEF Unflags
<1>2. CASE TakeInterrupt
  <2>1. cpuio \in IoInt
      BY <1>2, ElementOfSeq DEF TakeInterrupt, Listed, InterruptsTypeOK
  <2>2. PICK d \in Device, k \in Kind : cpuio = <<d, k>>
      BY <2>1 DEF IoInt
  <2>3. unreported' = {e \in unreported : cpuio # <<e, "io">>}
      BY <1>2, <2>2 DEF TakeInterrupt
  <2> QED BY <1>2, <2>1, <2>3 DEF TakeInterrupt, Dequeues
<1>3. ASSUME NEW r \in Req, Pci(r)
      PROVE  \E io \in IoInt : Queues(io)
  <2>1. <<req[r].dev, "pci">> \in IoInt
      BY <1>3 DEF Pci, At, ReqSound, IoInt, Kind
  <2> QED BY <1>3, <2>1 DEF Pci, Queues
<1>4. ASSUME NEW r \in Req, ChainEnd(r)
      PROVE  \E io \in IoInt : Queues(io)
  <2>1. req[r].dev \in Device /\ <<req[r].dev, "io">> \in IoInt
      BY <1>4 DEF ChainEnd, At, ReqSound, IoInt, Kind
  <2> QED BY <1>4, <2>1 DEF ChainEnd, Queues
<1>5. ASSUME NEW d \in Device, TestIoPending(d)
      PROVE  \E io \in IoInt : Dequeues(io)
  <2>2. \A y \in FlagsOf(d) : y \in {<<d, "io">>, <<d, "pci">>, <<d, "attn">>}
      BY DEF FlagsOf, Kind
  <2>4. Foremost(d) \in FlagsOf(d)
      BY <1>5, ForemostFlagged DEF TestIoPending
  <2>5. Foremost(d) \in IoInt
      BY <2>4 DEF FlagsOf, InterruptsTypeOK
  <2>6. unreported' = {e \in unreported : Foremost(d) # <<e, "io">>}
      BY <1>5, <2>2, <2>4 DEF TestIoPending
  <2> QED BY <1>5, <2>5, <2>6 DEF TestIoPending, Dequeues
<1>6. ASSUME NEW d \in Device, HaltIoBusy(d) PROVE Unflags
    BY <1>6 DEF HaltIoBusy, Unflags
<1>7. ASSUME NEW d \in Device, HaltIoIdle(d) \/ Attention(d)
      PROVE  \E io \in IoInt : Queues(io)
  <2>1. \A k \in Kind : <<d, k>> \in IoInt
      BY DEF IoInt
  <2> QED BY <1>7, <2>1 DEF HaltIoIdle, Attention, Queues, Kind
<1> HIDE DEF TypeInv, TypeOK
<1>8. CASE Interrupts /\ ~ TakeInterrupt
    BY <1>1, <1>8 DEF Interrupts, PickInterrupt, EnterWait, Wake, OtherInterrupt,
       SetPsw, intvars
<1>9. CASE Starting
    BY <1>1, <1>9 DEF Starting, Schedule, ScheduleFail, SyncDone, SyncRetry, StartioAsync,
       StartioSync, Accept, intvars
<1>10. ASSUME NEW r \in Req, Execute(r), ~ Pci(r), ~ ChainEnd(r) PROVE Unflags
    BY <1>1, <1>10 DEF Execute, ChainBegin, PciUpd, Ccw, RetrySync, EndUpd, intvars, Unflags
<1>11. CASE CpuUpd \/ AttnUpd \/ UNCHANGED vars
    BY <1>1, <1>11 DEF CpuUpd, AttnUpd, intvars, vars
<1> QED
    BY <1>2, <1>3, <1>4, <1>5, <1>6, <1>7, <1>8, <1>9, <1>10, <1>11
    DEF Next, Interrupts, Instruction

\* An interrupt TIO can see is one the CPU can be given: whatever threads and
\* instructions do, dev->pending is never on without an entry on the queue.
THEOREM FlagsQueued == Spec => []FlagQueued
<1>1. Init => FlagQueued
    BY DEF Init, FlagQueued
<1>2. TypeInv /\ FlagQueued /\ [Next]_vars => FlagQueued'
  <2> SUFFICES ASSUME TypeInv, FlagQueued, [Next]_vars PROVE FlagQueued'
      OBVIOUS
  <2>1. iointq \in Seq(IoInt)
      BY DEF TypeInv, TypeOK, InterruptsTypeOK
  <2>2. CASE Unflags
      BY <2>2 DEF Unflags, FlagQueued
  <2>3. ASSUME NEW io \in IoInt, Queues(io) PROVE FlagQueued'
      BY <2>1, <2>3, EnqueueProperties DEF Queues, QueueInterrupt, FlagQueued
  <2>4. ASSUME NEW io \in IoInt, Dequeues(io) PROVE FlagQueued'
    <3>1. \A x \in flags' : x \in flags /\ (x = io => ~ Listed(iointq, io))
        BY <2>4 DEF Dequeues, DequeueInterrupt
    <3>2. \A x \in flags' : x # io
        BY <3>1 DEF FlagQueued
    <3> QED BY <2>1, <2>4, <3>1, <3>2, DequeueProperties DEF Dequeues, DequeueInterrupt, FlagQueued
  <2> QED BY <2>2, <2>3, <2>4, QueueSteps
<1> QED BY <1>1, <1>2, TypeInvInit, TypeInvNext, PTL DEF Spec

\* The queue stays in order of priority and without duplicates, which is what
\* the insertion loop and the single unlinking of a dequeue rely on.
THEOREM QueueInOrder == Spec => []QueueOrdered
<1>1. Init => QueueOrdered
    BY EmptySeq DEF Init, QueueOrdered
<1>2. TypeInv /\ QueueOrdered /\ [Next]_vars => QueueOrdered'
  <2> SUFFICES ASSUME TypeInv, QueueOrdered, [Next]_vars PROVE QueueOrdered'
      OBVIOUS
  <2>1. iointq \in Seq(IoInt)
      BY DEF TypeInv, TypeOK, InterruptsTypeOK
  <2>2. Ordered(iointq) /\ (Ordered(iointq') => QueueOrdered')
      BY DEF QueueOrdered, Ordered
  <2>3. CASE Unflags
      BY <2>2, <2>3 DEF Unflags
  <2>4. ASSUME NEW io \in IoInt, Queues(io) PROVE Ordered(iointq')
      BY <2>1, <2>2, <2>4, EnqueueProperties DEF Queues, QueueInterrupt
  <2>5. ASSUME NEW io \in IoInt, Dequeues(io) PROVE Ordered(iointq')
      BY <2>1, <2>2, <2>5, DequeueProperties DEF Dequeues, DequeueInterrupt
  <2> QED BY <2>2, <2>3, <2>4, <2>5, QueueSteps
<1> QED BY <1>1, <1>2, TypeInvInit, TypeInvNext, PTL DEF Spec

-----------------------------------------------------------------------------
(* Channel programs and busy devices *)

\* What SIO's busy test relies on: a device with a request in flight is busy,
\* and has a start pending or is active.
HeldByRequest ==
    \A r \in Req : InFlight(r) =>
        /\ req[r].dev \in busy
        /\ req[r].dev \in startpending \/ req[r].dev \in active

BusyInv == ExclusiveChain /\ HeldByRequest

\* The CPU's part of a start leaves the devices alone, and its request in
\* flight unless the scheduler refuses it.
LEMMA StartSteps ==
    ASSUME TypeInv, Schedule \/ ScheduleFail \/ SyncDone \/ SyncRetry
    PROVE  /\ UNCHANGED <<busy, startpending, active>>
           /\ \E r \in Req :
                /\ \A s \in Req \ {r} : req'[s] = req[s]
                /\ InFlight(r)' => InFlight(r) /\ req'[r].dev = req[r].dev
                /\ InFlight(r) /\ ~ AllowSchedFail => InFlight(r)' /\ req'[r].dev = req[r].dev
<1>1. UNCHANGED <<busy, startpending, active>>
    BY DEF Schedule, ScheduleFail, SyncDone, SyncRetry, devvars
<1>2. req \in [Req -> [pc : ReqPc, dev : Device \cup {NoDev}, ccw : 0..MaxCcw,
                       sync : BOOLEAN, retry : BOOLEAN, hasty : BOOLEAN]]
    BY DEF TypeInv, TypeOK, RequestsTypeOK
<1>3. PICK r \in Req : r = cpureq
    BY DEF Schedule, ScheduleFail, SyncDone, SyncRetry, TypeInv, CpuSound
<1> DEFINE Goal == /\ \A s \in Req \ {r} : req'[s] = req[s]
                   /\ InFlight(r)' => InFlight(r) /\ req'[r].dev = req[r].dev
                   /\ InFlight(r) /\ ~ AllowSchedFail => InFlight(r)' /\ req'[r].dev = req[r].dev
<1>4. CASE Schedule
  <2>1. req[r].pc = "sched" /\ req' = [req EXCEPT ![r].pc = "queued"]
      BY <1>3, <1>4 DEF Schedule, Goto, TypeInv, CpuSound
  <2>2. Goal
      BY <1>2, <2>1 DEF InFlight, ReqPc
  <2> QED BY <1>1, <2>2
<1>5. CASE ScheduleFail
  <2>1. AllowSchedFail /\ req' = [req EXCEPT ![r] = Released]
      BY <1>3, <1>5 DEF ScheduleFail
  <2>2. Goal
      BY <1>2, <2>1 DEF InFlight, Released
  <2> QED BY <1>1, <2>2
<1>6. CASE SyncDone
  <2>1. req[r].pc = "done" /\ req' = [req EXCEPT ![r] = Released]
      BY <1>3, <1>6 DEF SyncDone, At
  <2>2. Goal
      BY <1>2, <2>1 DEF InFlight, Released
  <2> QED BY <1>1, <2>2
<1>7. CASE SyncRetry
  <2>1. req[r].pc = "retry" /\ req' = [req EXCEPT ![r].pc = "sched", ![r].sync = FALSE]
      BY <1>3, <1>7 DEF SyncRetry, At
  <2>2. Goal
      BY <1>2, <2>1 DEF InFlight, ReqPc
  <2> QED BY <1>1, <2>2
<1> QED BY <1>4, <1>5, <1>6, <1>7

\* No step puts a second channel program on a device, or frees a device that a
\* request still holds with dev->busy or dev->startpending.
LEMMA BusyInvNext == TypeInv /\ BusyInv /\ [Next]_vars => BusyInv'
<1> SUFFICES ASSUME TypeInv, BusyInv, [Next]_vars PROVE BusyInv'
    OBVIOUS
<1> USE DEF BusyInv
<1>1. CASE UNCHANGED <<req, busy, startpending, active>>
    BY <1>1 DEF ExclusiveChain, HeldByRequest, InFlight
<1>2. CASE UNCHANGED vars \/ Interrupts \/ CpuUpd \/ AttnUpd
    BY <1>1, <1>2 DEF vars, Interrupts, PickInterrupt, TakeInterrupt, EnterWait,
       Wake, OtherInterrupt, SetPsw, CpuUpd, AttnUpd, devvars
<1>3. ASSUME NEW d \in Device, Instruction(d) \/ Attention(d) PROVE BusyInv'
    BY <1>1, <1>3 DEF Instruction, TestIoPending, HaltIoBusy, HaltIoIdle, Attention, devvars
<1>4. ASSUME NEW d \in Device, NEW r \in Req, StartioAsync(d, r) \/ StartioSync(d, r)
      PROVE  BusyInv'
  <2>1. /\ req[r].pc = "free" /\ ~ IsBusy(d)
        /\ busy' = busy \cup {d} /\ startpending' = startpending \cup {d}
        /\ active' \in {active, active \cup {d}}
        /\ \A s \in Req \ {r} : req'[s] = req[s]
        /\ req'[r].dev = d
      BY <1>4 DEF StartioAsync, StartioSync, Accept, TypeInv, TypeOK, RequestsTypeOK
  <2>2. \A s \in Req : InFlight(s) => req[s].dev # d
      BY <2>1 DEF HeldByRequest, IsBusy
  <2> QED BY <2>1, <2>2 DEF ExclusiveChain, HeldByRequest, InFlight
<1>5. CASE Schedule \/ ScheduleFail \/ SyncDone \/ SyncRetry
  <2>1. UNCHANGED <<busy, startpending, active>>
      BY <1>5, StartSteps
  <2>2. PICK r \in Req :
            /\ \A s \in Req \ {r} : req'[s] = req[s]
            /\ InFlight(r)' => InFlight(r) /\ req'[r].dev = req[r].dev
      BY <1>5, StartSteps
  <2>3. \A s \in Req \ {r} : InFlight(s)' => InFlight(s) /\ req'[s].dev = req[s].dev
      BY <2>2 DEF InFlight
  <2>4. \A s \in Req : InFlight(s)' => InFlight(s) /\ req'[s].dev = req[s].dev
      BY <2>2, <2>3
  <2> QED BY <2>1, <2>4 DEF ExclusiveChain, HeldByRequest
<1>6. ASSUME NEW r \in Req, Execute(r) PROVE BusyInv'
  <2>1. /\ \A s \in Req \ {r} : req'[s] = req[s]
        /\ InFlight(r)' => InFlight(r) /\ req'[r].dev = req[r].dev
      BY <1>6 DEF Execute, ChainBegin, Pci, PciUpd, Ccw, RetrySync, ChainEnd, EndUpd, At, Goto,
         Released, InFlight, ReqPc, TypeInv, TypeOK, RequestsTypeOK
  <2>2. ExclusiveChain'
      BY <2>1 DEF ExclusiveChain, InFlight
  <2>3. CASE UNCHANGED <<busy, startpending, active>>
      BY <2>1, <2>2, <2>3 DEF HeldByRequest, InFlight
  <2>4. CASE ChainBegin(r)
    <3>1. /\ busy' = busy /\ active' = active \cup {req[r].dev}
          /\ startpending' = startpending \ {req[r].dev}
        BY <2>4 DEF ChainBegin
    <3> QED BY <2>1, <2>2, <3>1 DEF HeldByRequest, InFlight
  <2>5. CASE ChainEnd(r)
    <3>1. /\ startpending' = startpending /\ active \subseteq active' \cup {req[r].dev}
          /\ busy' = busy \ {req[r].dev}
        BY <2>5 DEF ChainEnd
    <3>2. InFlight(r) /\ ~ InFlight(r)'
        BY <2>5 DEF ChainEnd, At, Goto, InFlight, ReqPc, TypeInv, TypeOK, RequestsTypeOK
    <3>3. \A s \in Req : InFlight(s)' => InFlight(s) /\ req'[s].dev = req[s].dev
                                         /\ req[s].dev # req[r].dev
        BY <2>1, <3>2 DEF ExclusiveChain, InFlight
    <3> QED BY <2>2, <3>1, <3>3 DEF HeldByRequest
  <2> QED BY <1>6, <2>3, <2>4, <2>5 DEF Execute, Pci, PciUpd, Ccw, RetrySync, EndUpd, devvars
<1> QED
    BY <1>2, <1>3, <1>4, <1>5, <1>6 DEF Next, Starting

\* Two channel programs never run on one device: SIO's test of busy, active
\* and startpending excludes them over every interleaving with the scheduler.
THEOREM ChainsExclusive == Spec => []ExclusiveChain
<1>1. Init => BusyInv
    BY DEF Init, BusyInv, ExclusiveChain, HeldByRequest, InFlight
<1>2. BusyInv => ExclusiveChain
    BY DEF BusyInv
<1> QED BY <1>1, <1>2, TypeInvInit, TypeInvNext, BusyInvNext, PTL DEF Spec

\* A busy device has a request in flight.
BusyHeld == \A d \in busy : \E r \in Req : InFlight(r) /\ req[r].dev = d

\* As long as the scheduler refuses nothing, no step leaves dev->busy on with no
\* request that will turn it off.
LEMMA BusyHeldNext ==
    ASSUME ~ AllowSchedFail, TypeInv, BusyHeld, [Next]_vars
    PROVE  BusyHeld'
<1>1. ASSUME busy' \subseteq busy,
             \A r \in Req : InFlight(r) => InFlight(r)' /\ req'[r].dev = req[r].dev
      PROVE  BusyHeld'
    BY <1>1 DEF BusyHeld
<1>2. CASE UNCHANGED vars \/ Interrupts \/ CpuUpd \/ AttnUpd
    BY <1>1, <1>2 DEF vars, Interrupts, PickInterrupt, TakeInterrupt, EnterWait,
       Wake, OtherInterrupt, SetPsw, CpuUpd, AttnUpd, devvars, InFlight
<1>3. ASSUME NEW d \in Device, Instruction(d) \/ Attention(d) PROVE BusyHeld'
    BY <1>1, <1>3 DEF Instruction, TestIoPending, HaltIoBusy, HaltIoIdle, Attention, devvars,
       InFlight
<1>4. ASSUME NEW d \in Device, NEW r \in Req, StartioAsync(d, r) \/ StartioSync(d, r)
      PROVE  BusyHeld'
  <2>1. /\ req[r].pc = "free" /\ busy' = busy \cup {d}
        /\ \A s \in Req \ {r} : req'[s] = req[s]
        /\ req'[r].dev = d /\ req'[r].pc \in {"sched", "start"}
      BY <1>4 DEF StartioAsync, StartioSync, Accept, TypeInv, TypeOK, RequestsTypeOK
  <2> QED BY <2>1 DEF BusyHeld, InFlight, ReqPc
<1>5. CASE Schedule \/ ScheduleFail \/ SyncDone \/ SyncRetry
  <2>1. UNCHANGED <<busy, startpending, active>>
      BY <1>5, StartSteps
  <2>2. PICK r \in Req :
            /\ \A s \in Req \ {r} : req'[s] = req[s]
            /\ InFlight(r) => InFlight(r)' /\ req'[r].dev = req[r].dev
      BY <1>5, StartSteps
  <2> QED BY <1>1, <2>1, <2>2 DEF InFlight
<1>6. ASSUME NEW r \in Req, Execute(r) PROVE BusyHeld'
  <2>1. CASE ChainEnd(r)
    <3>1. busy' = busy \ {req[r].dev} /\ \A s \in Req \ {r} : req'[s] = req[s]
        BY <2>1 DEF ChainEnd, Goto, TypeInv, TypeOK, RequestsTypeOK
    <3> QED BY <3>1 DEF BusyHeld, InFlight
  <2>2. CASE ~ ChainEnd(r)
    <3>1. busy' = busy /\ \A s \in Req \ {r} : req'[s] = req[s]
        BY <1>6, <2>2 DEF Execute, ChainBegin, Pci, PciUpd, Ccw, RetrySync, EndUpd, Goto, devvars,
           TypeInv, TypeOK, RequestsTypeOK
    <3>2. InFlight(r) => InFlight(r)' /\ req'[r].dev = req[r].dev
        BY <1>6, <2>2 DEF Execute, ChainBegin, Pci, PciUpd, Ccw, RetrySync, EndUpd, At, Goto,
           InFlight, ReqPc, TypeInv, TypeOK, RequestsTypeOK
    <3> QED BY <1>1, <3>1, <3>2 DEF InFlight
  <2> QED BY <2>1, <2>2
<1> QED
    BY <1>2, <1>3, <1>4, <1>5, <1>6 DEF Next, Starting

\* As long as handing a request to the scheduler never fails, a device is busy
\* exactly while one of its requests is in flight.
THEOREM NoPhantom == ASSUME ~ AllowSchedFail PROVE Spec => []NoPhantomBusy
<1>1. Init => BusyInv /\ BusyHeld
    BY DEF Init, BusyInv, ExclusiveChain, HeldByRequest, BusyHeld, InFlight
<1>2. TypeInv /\ BusyHeld /\ [Next]_vars => BusyHeld'
    BY BusyHeldNext
<1>3. BusyInv /\ BusyHeld => NoPhantomBusy
    BY DEF BusyInv, HeldByRequest, BusyHeld, NoPhantomBusy
<1> QED BY <1>1, <1>2, <1>3, TypeInvInit, TypeInvNext, BusyInvNext, PTL DEF Spec

-----------------------------------------------------------------------------
(* The ending status *)

\* The interrupt of a status that nobody has seen is neither dropped by HIO nor
\* by what else enters the queue.
LEMMA EndQueuedNext == TypeInv /\ EndQueued /\ [Next]_vars => EndQueued'
<1> SUFFICES ASSUME TypeInv, EndQueued, [Next]_vars PROVE EndQueued'
    OBVIOUS
<1>1. iointq \in Seq(IoInt)
    BY DEF TypeInv, TypeOK, InterruptsTypeOK
<1>2. CASE Unflags
    BY <1>2 DEF Unflags, EndQueued
<1>3. ASSUME NEW io \in IoInt, Queues(io) PROVE EndQueued'
    BY <1>1, <1>3, EnqueueProperties DEF Queues, QueueInterrupt, EndQueued
<1>4. ASSUME NEW io \in IoInt, Dequeues(io) PROVE EndQueued'
    BY <1>1, <1>4, DequeueProperties DEF Dequeues, DequeueInterrupt, EndQueued
<1> QED BY <1>2, <1>3, <1>4, QueueSteps

\* A request keeps its device and what was pending when it was made.
Keeps(r) == InFlight(r)' => /\ InFlight(r) /\ req'[r].dev = req[r].dev
                            /\ req'[r].hasty = req[r].hasty

\* Between the SIO and the end of a program no other program of its device
\* ends, so nothing but what SIO found pending can be written over by its end.
LEMMA HastyNext ==
    ASSUME TypeInv, BusyInv, EndOverwrittenByHasty, [Next]_vars
    PROVE  EndOverwrittenByHasty'
<1> USE DEF EndOverwrittenByHasty
<1>1. ASSUME \A r \in Req : Keeps(r), unreported' \subseteq unreported
      PROVE  EndOverwrittenByHasty'
    BY <1>1 DEF Keeps
<1>2. ASSUME UNCHANGED req PROVE \A r \in Req : Keeps(r)
    BY <1>2 DEF Keeps, InFlight
<1>3. CASE UNCHANGED vars \/ Interrupts \/ CpuUpd \/ AttnUpd
    BY <1>1, <1>2, <1>3 DEF vars, Interrupts, PickInterrupt, TakeInterrupt, EnterWait,
       Wake, OtherInterrupt, SetPsw, CpuUpd, AttnUpd
<1>4. ASSUME NEW d \in Device, Instruction(d) \/ Attention(d) PROVE EndOverwrittenByHasty'
    BY <1>1, <1>2, <1>4 DEF Instruction, TestIoPending, HaltIoBusy, HaltIoIdle, Attention
<1>5. ASSUME NEW d \in Device, NEW r \in Req, StartioAsync(d, r) \/ StartioSync(d, r)
      PROVE  EndOverwrittenByHasty'
  <2>1. /\ unreported' = unreported
        /\ \A s \in Req \ {r} : req'[s] = req[s]
        /\ req'[r].dev = d /\ req'[r].hasty = (d \in unreported)
      BY <1>5 DEF StartioAsync, StartioSync, Accept, TypeInv, TypeOK, RequestsTypeOK
  <2> QED BY <2>1 DEF InFlight
<1>6. CASE Schedule \/ ScheduleFail \/ SyncDone \/ SyncRetry
  <2>1. PICK r \in Req : r = cpureq
      BY <1>6 DEF Schedule, ScheduleFail, SyncDone, SyncRetry, TypeInv, CpuSound
  <2>2. unreported' = unreported /\ \A s \in Req \ {r} : req'[s] = req[s]
      BY <1>6, <2>1 DEF Schedule, ScheduleFail, SyncDone, SyncRetry, Goto, TypeInv, TypeOK,
         RequestsTypeOK
  <2>3. CASE ScheduleFail \/ SyncDone
    <3>1. req'[r].pc = "free"
        BY <2>1, <2>3 DEF ScheduleFail, SyncDone, Released, TypeInv, TypeOK, RequestsTypeOK
    <3> QED BY <1>1, <2>2, <3>1 DEF Keeps, InFlight
  <2>4. CASE Schedule \/ SyncRetry
    <3>1. req'[r].dev = req[r].dev /\ req'[r].hasty = req[r].hasty
        BY <2>1, <2>4 DEF Schedule, SyncRetry, Goto, TypeInv, TypeOK, RequestsTypeOK
    <3>2. req[r].pc \in {"sched", "retry"}
        BY <2>1, <2>4 DEF Schedule, SyncRetry, At, TypeInv, CpuSound
    <3> QED BY <1>1, <2>2, <3>1, <3>2 DEF Keeps, InFlight, ReqPc
  <2> QED BY <1>6, <2>3, <2>4
<1>7. ASSUME NEW r \in Req, Execute(r) PROVE EndOverwrittenByHasty'
  <2>1. /\ \A s \in Req \ {r} : req'[s] = req[s]
        /\ Keeps(r)
      BY <1>7 DEF Execute, ChainBegin, Pci, PciUpd, Ccw, RetrySync, ChainEnd, EndUpd, At, Goto,
         Released, InFlight, ReqPc, Keeps, TypeInv, TypeOK, RequestsTypeOK
  <2>2. CASE ChainEnd(r)
    <3>1. unreported' = unreported \cup {req[r].dev} /\ InFlight(r) /\ ~ InFlight(r)'
        BY <2>2 DEF ChainEnd, At, Goto, InFlight, ReqPc, TypeInv, TypeOK, RequestsTypeOK
    <3>2. \A s \in Req \ {r} : InFlight(s) => req[s].dev # req[r].dev
        BY <3>1 DEF BusyInv, ExclusiveChain
    <3> QED BY <2>1, <3>1, <3>2 DEF InFlight
  <2>3. CASE ~ ChainEnd(r)
    <3>1. unreported' = unreported
        BY <1>7, <2>3 DEF Execute, ChainBegin, Pci, PciUpd, Ccw, RetrySync, EndUpd
    <3> QED BY <1>1, <2>1, <3>1 DEF Keeps, InFlight
  <2> QED BY <2>2, <2>3
<1> QED
    BY <1>3, <1>4, <1>5, <1>6, <1>7 DEF Next, Starting

\* An ending status waits on the queue through HIO, PCIs and attention until it
\* has been presented or tested for; only a program the CPU started over it,
\* which SIO does not refuse, can end and put its own in its place.
THEOREM EndsKept == Spec => []NoLostEnd
<1>1. Init => BusyInv /\ EndQueued /\ EndOverwrittenByHasty
    BY DEF Init, BusyInv, ExclusiveChain, HeldByRequest, EndQueued, EndOverwrittenByHasty, InFlight
<1>2. TypeInv /\ BusyInv /\ EndOverwrittenByHasty /\ [Next]_vars => EndOverwrittenByHasty'
    BY HastyNext
<1>3. EndQueued /\ EndOverwrittenByHasty => NoLostEnd
    BY DEF NoLostEnd
<1> QED BY <1>1, <1>2, <1>3, TypeInvInit, TypeInvNext, BusyInvNext, EndQueuedNext, PTL DEF Spec

-----------------------------------------------------------------------------
(* What TIO says of a device *)

\* An end status the program has not seen shows in a flag, unless a later
\* start's HIO has turned it off; and a busy device has a start pending or is
\* active.
OwedShown ==
    /\ \A d \in unreported : <<d, "io">> \in flags \/ d \in busy
    /\ \A d \in busy : d \in startpending \/ d \in active

\* A step that ends a channel program turns dev->pending on, and only HIO of a
\* busy device, the taking of the interrupt or TIO turns it off again.
LEMMA OwedShownNext == TypeInv /\ OwedShown /\ [Next]_vars => OwedShown'
<1> SUFFICES ASSUME TypeInv, OwedShown, [Next]_vars PROVE OwedShown'
    OBVIOUS
<1> USE DEF OwedShown
<1>1. ASSUME UNCHANGED <<busy, startpending, active>>, flags \subseteq flags',
             unreported' \subseteq unreported
      PROVE  OwedShown'
    BY <1>1
<1>2. CASE (Interrupts /\ ~ TakeInterrupt) \/ CpuUpd \/ AttnUpd \/ UNCHANGED vars
    BY <1>1, <1>2 DEF Interrupts, PickInterrupt, EnterWait, Wake, OtherInterrupt,
       SetPsw, CpuUpd, AttnUpd, vars, devvars, intvars
<1>3. ASSUME UNCHANGED <<busy, startpending, active>>,
             NEW io \in IoInt, Dequeues(io)
      PROVE  OwedShown'
  <2>1. flags \ {io} \subseteq flags'
      BY <1>3 DEF Dequeues, DequeueInterrupt
  <2>2. \A d \in unreported' : d \in unreported /\ <<d, "io">> # io
      BY <1>3 DEF Dequeues
  <2> QED BY <1>3, <2>1, <2>2
<1>4. CASE TakeInterrupt
  <2>1. cpuio \in IoInt
      BY <1>4, ElementOfSeq DEF TakeInterrupt, Listed, TypeInv, TypeOK, InterruptsTypeOK
  <2>2. PICK d \in Device, k \in Kind : cpuio = <<d, k>>
      BY <2>1 DEF IoInt
  <2>3. Dequeues(cpuio)
      BY <1>4, <2>2 DEF TakeInterrupt, Dequeues
  <2> QED BY <1>3, <1>4, <2>1, <2>3 DEF TakeInterrupt, devvars
<1>5. ASSUME NEW d \in Device, NEW r \in Req, StartioAsync(d, r) \/ StartioSync(d, r)
      PROVE  OwedShown'
    BY <1>5 DEF StartioAsync, StartioSync, Accept, intvars
<1>6. CASE Schedule \/ ScheduleFail \/ SyncDone \/ SyncRetry
    BY <1>1, <1>6 DEF Schedule, ScheduleFail, SyncDone, SyncRetry, devvars, intvars
<1>7. ASSUME NEW r \in Req, Execute(r) PROVE OwedShown'
  <2>1. CASE ChainBegin(r)
      BY <2>1 DEF ChainBegin, intvars
  <2>2. CASE Pci(r)
      BY <1>1, <2>2 DEF Pci, QueueInterrupt, devvars
  <2>3. CASE ChainEnd(r)
    <3>1. /\ startpending' = startpending /\ active \subseteq active' \cup {req[r].dev}
          /\ busy' = busy \ {req[r].dev}
          /\ flags' = flags \cup {<<req[r].dev, "io">>}
          /\ unreported' = unreported \cup {req[r].dev}
        BY <2>3 DEF ChainEnd, QueueInterrupt
    <3> QED BY <3>1
  <2>4. CASE PciUpd(r) \/ Ccw(r) \/ RetrySync(r) \/ EndUpd(r)
      BY <1>1, <2>4 DEF PciUpd, Ccw, RetrySync, EndUpd, devvars, intvars
  <2> QED BY <1>7, <2>1, <2>2, <2>3, <2>4 DEF Execute
<1>8. ASSUME NEW d \in Device, TestIoPending(d) PROVE OwedShown'
  <2>1. UNCHANGED <<busy, startpending, active>>
      BY <1>8 DEF TestIoPending, devvars
  <2>2. /\ DequeueInterrupt(Foremost(d))
        /\ unreported' = IF Foremost(d)[2] = "io" THEN unreported \ {d} ELSE unreported
      BY <1>8 DEF TestIoPending
  <2>3. Foremost(d) \in FlagsOf(d)
      BY <1>8, ForemostFlagged DEF TestIoPending
  <2>4. Foremost(d) \in IoInt /\ \A e : Foremost(d) = <<e, "io">> => e = d
      BY <2>3 DEF FlagsOf, TypeInv, TypeOK, InterruptsTypeOK
  <2>5. unreported' = {e \in unreported : Foremost(d) # <<e, "io">>}
    <3>1. Foremost(d)[2] = "io" => Foremost(d) = <<d, "io">>
        BY <2>3 DEF FlagsOf
    <3> QED BY <2>2, <2>4, <3>1
  <2> QED BY <1>3, <2>1, <2>2, <2>4, <2>5 DEF Dequeues
<1>9. ASSUME NEW d \in Device, HaltIoBusy(d) PROVE OwedShown'
    BY <1>9 DEF HaltIoBusy, FlagsOf
<1>10. ASSUME NEW d \in Device, HaltIoIdle(d) \/ Attention(d) PROVE OwedShown'
    BY <1>1, <1>10 DEF HaltIoIdle, Attention, QueueInterrupt, devvars
<1> QED
    BY <1>2, <1>4, <1>5, <1>6, <1>7, <1>8, <1>9, <1>10
    DEF Next, Interrupts, Starting, Instruction

\* A device TIO calls available is free: its last program is over and the
\* program has seen how it ended.
THEOREM AvailableFree == Spec => []AvailableIsFree
<1>1. Init => BusyInv /\ OwedShown
    BY DEF Init, BusyInv, ExclusiveChain, HeldByRequest, OwedShown, InFlight
<1>2. BusyInv /\ OwedShown => AvailableIsFree
  <2> SUFFICES ASSUME BusyInv, OwedShown, NEW d \in Device, TestedAvailable(d)
               PROVE  d \notin unreported /\ \A r \in Req : InFlight(r) => req[r].dev # d
      BY DEF AvailableIsFree
  <2>1. d \notin startpending /\ ~ (d \in busy /\ d \in active) /\ <<d, "io">> \notin flags
      BY DEF TestedAvailable, IsBusy, FlagsOf, Kind
  <2>2. d \notin unreported
      BY <2>1 DEF OwedShown
  <2>3. \A r \in Req : InFlight(r) => req[r].dev # d
      BY <2>1 DEF BusyInv, HeldByRequest
  <2> QED BY <2>2, <2>3
<1> QED BY <1>1, <1>2, TypeInvInit, TypeInvNext, BusyInvNext, OwedShownNext, PTL DEF Spec

-----------------------------------------------------------------------------
(* The summary bit and the waiting CPU *)

\* Picking an interrupt and losing it are both the CPU's: while it is between
\* the two nobody else takes an entry off the queue.
LEMMA PickStableNext == TypeInv /\ PickStable /\ [Next]_vars => PickStable'
<1> SUFFICES ASSUME TypeInv, PickStable, [Next]_vars PROVE PickStable'
    OBVIOUS
<1>1. iointq \in Seq(IoInt)
    BY DEF TypeInv, TypeOK, InterruptsTypeOK
<1>2. ASSUME cpupc' = cpupc, cpuio' = cpuio,
             iointq' = iointq \/ \E io \in IoInt : iointq' = Enqueue(iointq, io)
      PROVE  PickStable'
    BY <1>1, <1>2, EnqueueProperties DEF PickStable
<1>3. ASSUME cpupc' # "take" PROVE PickStable'
    BY <1>3 DEF PickStable
<1>4. CASE PickInterrupt
    BY <1>4 DEF PickInterrupt, Enabled, intvars, PickStable, Listed
<1>5. CASE TakeInterrupt \/ EnterWait \/ Wake \/ OtherInterrupt \/ CpuUpd
    BY <1>3, <1>5 DEF TakeInterrupt, EnterWait, Wake, OtherInterrupt, CpuUpd
<1>6. CASE SetPsw \/ AttnUpd \/ UNCHANGED vars
    BY <1>2, <1>6 DEF SetPsw, AttnUpd, vars, intvars, cpuvars
<1>7. CASE Starting
    BY <1>3, <1>7 DEF Starting, Schedule, ScheduleFail, SyncDone, SyncRetry, StartioAsync, StartioSync
<1>8. ASSUME NEW r \in Req, Pci(r) PROVE PickStable'
  <2>1. <<req[r].dev, "pci">> \in IoInt
      BY <1>8 DEF Pci, At, TypeInv, ReqSound, IoInt, Kind
  <2> QED BY <1>2, <1>8, <2>1 DEF Pci, QueueInterrupt, cpuvars
<1>9. ASSUME NEW r \in Req, ChainEnd(r) PROVE PickStable'
  <2>1. <<req[r].dev, "io">> \in IoInt
      BY <1>9 DEF ChainEnd, At, TypeInv, ReqSound, IoInt, Kind
  <2> QED BY <1>2, <1>9, <2>1 DEF ChainEnd, QueueInterrupt, cpuvars
<1>10. ASSUME NEW r \in Req, ChainBegin(r) \/ PciUpd(r) \/ Ccw(r) \/ RetrySync(r) \/ EndUpd(r)
       PROVE  PickStable'
    BY <1>2, <1>10 DEF ChainBegin, PciUpd, Ccw, RetrySync, EndUpd, intvars, cpuvars
<1>11. ASSUME NEW d \in Device, Instruction(d) PROVE PickStable'
  <2>1. cpupc # "take"
      BY <1>11 DEF Instruction, TestIoPending, HaltIoBusy, HaltIoIdle, Fetching
  <2> QED BY <1>3, <1>11, <2>1 DEF Instruction, TestIoPending, HaltIoBusy, HaltIoIdle, cpuvars
<1>12. ASSUME NEW d \in Device, Attention(d) PROVE PickStable'
  <2>1. <<d, "attn">> \in IoInt
      BY DEF IoInt, Kind
  <2> QED BY <1>2, <1>12, <2>1 DEF Attention, QueueInterrupt, cpuvars
<1> QED
    BY <1>4, <1>5, <1>6, <1>7, <1>8, <1>9, <1>10, <1>11, <1>12 DEF Next, Interrupts, Execute

\* The interrupt that present_io_interrupt picks is there when it comes back
\* with the device's lock.
THEOREM PickIsStable == Spec => []PickStable
<1>1. Init => PickStable
    BY DEF Init, PickStable
<1> QED BY <1>1, TypeInvInit, TypeInvNext, PickStableNext, PTL DEF Spec

\* A step that leaves the queue, the summary bit and a sleeping CPU alone.
Leaves ==
    /\ UNCHANGED <<iointq, ic>>
    /\ cpupc' = "wait" => cpupc = "wait" /\ UNCHANGED <<mask, signal>>

\* Every step either leaves an update to come or finds none and does no harm,
\* unless it is an update itself, or the CPU's own care of the bit.
LEMMA UpdateSteps ==
    ASSUME TypeInv, [Next]_vars
    PROVE  \/ UpdatePending'
           \/ UpdateIc /\ UNCHANGED <<iointq, mask>> /\ (cpupc' = "wait" => cpupc = "wait")
           \/ ~ UpdatePending /\ Leaves
           \/ TakeInterrupt
           \/ EnterWait
<1> DEFINE Goal == \/ UpdatePending'
                   \/ UpdateIc /\ UNCHANGED <<iointq, mask>> /\ (cpupc' = "wait" => cpupc = "wait")
                   \/ ~ UpdatePending /\ Leaves
                   \/ TakeInterrupt
                   \/ EnterWait
<1>1. ASSUME Leaves,
             attnupd => attnupd',
             cpupc \in {"upd", "take"} => cpupc' \in {"upd", "take"},
             \A r \in Req : req[r].pc \in {"pciupd", "endupd"} => req'[r].pc \in {"pciupd", "endupd"}
      PROVE  Goal
    BY <1>1 DEF UpdatePending, At
<1>2. CASE UNCHANGED vars
    BY <1>1, <1>2 DEF vars, cpuvars, intvars, pswvars, Leaves
<1>3. CASE PickInterrupt
    BY <1>3 DEF PickInterrupt, UpdatePending
<1>4. CASE CpuUpd \/ AttnUpd
    BY <1>4 DEF CpuUpd, AttnUpd, intvars, cpuvars, pswvars
<1>5. CASE Wake \/ OtherInterrupt \/ SetPsw
    BY <1>1, <1>5 DEF Wake, OtherInterrupt, SetPsw, Fetching, intvars, cpuvars, pswvars, Leaves
<1>6. ASSUME NEW d \in Device, NEW r \in Req, StartioAsync(d, r) \/ StartioSync(d, r)
      PROVE  Goal
  <2>1. /\ req[r].pc = "free" /\ cpupc = "run" /\ cpupc' \in {"sched", "sync"}
        /\ \A s \in Req \ {r} : req'[s] = req[s]
        /\ UNCHANGED <<iointq, ic, attnupd>>
      BY <1>6 DEF StartioAsync, StartioSync, Accept, Fetching, intvars, TypeInv, TypeOK, RequestsTypeOK
  <2> HIDE DEF Goal
  <2> QED BY <1>1, <2>1 DEF Leaves
<1>7. CASE Schedule \/ ScheduleFail \/ SyncDone \/ SyncRetry
  <2>1. UNCHANGED <<iointq, ic, attnupd>> /\ cpupc \in {"sched", "sync"} /\ cpupc' \in {"run", "sched"}
      BY <1>7 DEF Schedule, ScheduleFail, SyncDone, SyncRetry, intvars
  <2>2. req[cpureq].pc \in {"sched", "done", "retry"}
      BY <1>7 DEF Schedule, ScheduleFail, SyncDone, SyncRetry, At, TypeInv, CpuSound
  <2>3. \A s \in Req \ {cpureq} : req'[s] = req[s]
      BY <1>7 DEF Schedule, ScheduleFail, SyncDone, SyncRetry, Goto, TypeInv, TypeOK, RequestsTypeOK
  <2>4. \A r \in Req : req[r].pc \in {"pciupd", "endupd"} => req'[r].pc \in {"pciupd", "endupd"}
      BY <2>2, <2>3
  <2>5. Leaves /\ (attnupd => attnupd') /\ cpupc \notin {"upd", "take"}
      BY <2>1 DEF Leaves
  <2>6. Goal
    <3> HIDE DEF Goal
    <3> QED BY <1>1, <2>4, <2>5
  <2> QED BY <2>6
<1>8. ASSUME NEW r \in Req, Pci(r) \/ ChainEnd(r) PROVE UpdatePending'
    BY <1>8 DEF Pci, ChainEnd, Goto, At, UpdatePending, TypeInv, TypeOK, RequestsTypeOK
<1>9. ASSUME NEW r \in Req, PciUpd(r) \/ EndUpd(r) PROVE Goal
    BY <1>9 DEF PciUpd, EndUpd, intvars, cpuvars, pswvars
<1>10. ASSUME NEW r \in Req, ChainBegin(r) \/ Ccw(r) \/ RetrySync(r) PROVE Goal
  <2>1. UNCHANGED <<iointq, ic, attnupd, cpupc, mask, signal>>
      BY <1>10 DEF ChainBegin, Ccw, RetrySync, intvars, cpuvars, pswvars
  <2>2. \A s \in Req \ {r} : req'[s] = req[s]
      BY <1>10 DEF ChainBegin, Ccw, RetrySync, Goto, TypeInv, TypeOK, RequestsTypeOK
  <2>3. req[r].pc \in {"queued", "start", "ccw", "exec"}
      BY <1>10 DEF ChainBegin, Ccw, RetrySync, At
  <2> HIDE DEF Goal
  <2> QED BY <1>1, <2>1, <2>2, <2>3 DEF Leaves
<1>11. ASSUME NEW d \in Device, TestIoPending(d) \/ HaltIoIdle(d) \/ Attention(d)
       PROVE  UpdatePending'
    BY <1>11 DEF TestIoPending, HaltIoIdle, Attention, UpdatePending
<1>12. ASSUME NEW d \in Device, HaltIoBusy(d) PROVE Goal
    BY <1>1, <1>12 DEF HaltIoBusy, cpuvars, pswvars, Leaves
<1> QED
    BY <1>2, <1>3, <1>4, <1>5, <1>6, <1>7, <1>8, <1>9, <1>10, <1>11, <1>12
    DEF Next, Interrupts, Starting, Execute, Instruction

\* Every step that changes the queue promises an update of IC_IOPENDING, and
\* every update makes the bit right and wakes the CPU.
LEMMA SummaryNext == TypeInv /\ SummaryAccurate /\ [Next]_vars => SummaryAccurate'
<1> SUFFICES ASSUME TypeInv, SummaryAccurate, [Next]_vars PROVE SummaryAccurate'
    OBVIOUS
<1>1. CASE UpdatePending'
    BY <1>1, Zenon DEF SummaryAccurate
<1>2. CASE UpdateIc /\ UNCHANGED <<iointq, mask>>
  <2>1. ic' = (iointq # <<>>) /\ iointq' = iointq
      BY <1>2 DEF UpdateIc
  <2> QED BY <2>1, Zenon DEF SummaryAccurate
<1>3. CASE ~ UpdatePending /\ Leaves
  <2>1. ic' = ic /\ iointq' = iointq
      BY <1>3 DEF Leaves
  <2> QED BY <1>3, <2>1, Zenon DEF SummaryAccurate
<1>4. CASE TakeInterrupt
  <2>1. ic' = (iointq' # <<>>)
      BY <1>4, Zenon DEF TakeInterrupt
  <2> QED BY <2>1, Zenon DEF SummaryAccurate
<1>5. CASE EnterWait
  <2>1. ic' = ic /\ iointq' = iointq /\ cpupc = "run" /\ UNCHANGED <<req, attnupd>>
      BY <1>5 DEF EnterWait, intvars
  <2>2. UpdatePending => UpdatePending'
      BY <2>1 DEF UpdatePending, At
  <2> QED BY <2>1, <2>2, Zenon DEF SummaryAccurate
<1> QED BY <1>1, <1>2, <1>3, <1>4, <1>5, UpdateSteps

\* IC_IOPENDING tells the truth about the queue whenever nobody is about to
\* correct it.
THEOREM SummaryIsAccurate == Spec => []SummaryAccurate
<1>1. Init => SummaryAccurate
    BY Zenon DEF Init, SummaryAccurate
<1> QED BY <1>1, TypeInvInit, TypeInvNext, SummaryNext, PTL DEF Spec

\* The CPU does not sleep through an interrupt it is enabled for: one that is
\* queued as it goes to sleep, or later, has an update to come that signals it.
THEOREM NoWakeupLost == Spec => []NoLostWakeup
<1>1. Init => NoLostWakeup
    BY DEF Init, NoLostWakeup
<1>2. TypeInv /\ SummaryAccurate /\ NoLostWakeup /\ [Next]_vars => NoLostWakeup'
  <2> SUFFICES ASSUME TypeInv, SummaryAccurate, NoLostWakeup, [Next]_vars,
                      cpupc' = "wait", Enabled' # {}
               PROVE  signal' \/ UpdatePending'
      BY Zenon DEF NoLostWakeup
  <2>1. iointq \in Seq(IoInt) /\ Chan \in [Device -> Channel]
      BY ChannelAssumption DEF TypeInv, TypeOK, InterruptsTypeOK
  <2>2. iointq' = iointq /\ Enabled' # {} => iointq # <<>>
      BY <2>1, EmptySeq DEF Enabled
  <2>3. CASE UpdateIc /\ UNCHANGED <<iointq, mask>> /\ cpupc = "wait"
    <3>1. iointq # <<>>
        BY <2>2, <2>3
    <3> QED BY <2>3, <3>1, Zenon DEF UpdateIc
  <2>4. CASE ~ UpdatePending /\ Leaves
    <3>1. cpupc = "wait" /\ mask' = mask /\ signal' = signal /\ iointq' = iointq
        BY <2>4 DEF Leaves
    <3>2. Enabled' = Enabled
        BY <3>1 DEF Enabled
    <3> QED BY <2>4, <3>1, <3>2, Zenon DEF NoLostWakeup
  <2>5. CASE EnterWait
    <3>1. /\ cpupc = "run" /\ ~ MustPresent /\ UNCHANGED <<iointq, req, attnupd, mask>>
        BY <2>5 DEF EnterWait, intvars, pswvars
    <3>2. Enabled # {} /\ mask # {} /\ iointq # <<>>
        BY <2>1, <2>2, <3>1 DEF Enabled
    <3>3. ~ ic
        BY <3>1, <3>2 DEF MustPresent
    <3>4. UpdatePending
        BY <3>2, <3>3, Zenon DEF SummaryAccurate
    <3>5. UpdatePending'
        BY <3>1, <3>4 DEF UpdatePending, At
    <3> QED BY <3>5
  <2>6. ~ TakeInterrupt
      BY DEF TakeInterrupt
  <2> QED BY <2>3, <2>4, <2>5, <2>6, UpdateSteps
<1> QED BY <1>1, <1>2, SummaryIsAccurate, TypeInvInit, TypeInvNext, PTL DEF Spec

-----------------------------------------------------------------------------
(* The channel uses the schedulers of device threads as they are meant to be *)
(* used (IoScheduler): each step of it is a step of the abstract scheduler,  *)
(* or nothing to it.                                                         *)

\* How far the scheduler is with a request.
StageOf(q) == IF q.sync THEN "idle"
              ELSE IF q.pc = "queued" THEN "queued"
              ELSE IF q.pc \in {"ccw", "pciupd", "exec", "end"} THEN "running" ELSE "idle"

\* Only a synchronous attempt is begun by startio itself.
StartsSync == \A r \in Req : req[r].pc = "start" => req[r].sync

Requests == [Req -> [pc : ReqPc, dev : Device \cup {NoDev}, ccw : 0..MaxCcw,
                     sync : BOOLEAN, retry : BOOLEAN, hasty : BOOLEAN]]

\* The stage of a device all of whose requests but one are over is that of the one.
LEMMA StageOfOnly ==
    ASSUME NEW r \in Req, NEW d \in Device, req \in Requests,
           \A s \in Req \ {r} : InFlight(s) => req[s].dev # d,
           InFlight(r) => req[r].dev = d
    PROVE  Stage[d] = StageOf(req[r])
<1>1. \A s \in Req : req[s].pc \in {"queued", "ccw", "pciupd", "exec", "end"} => InFlight(s)
    BY DEF InFlight, ReqPc
<1>2. \A s \in Req : At(s, {"queued", "ccw", "pciupd", "exec", "end"}) /\ req[s].dev = d => s = r
    BY <1>1 DEF At
<1>3. Delegated(d, {"queued"}) <=> req[r].pc = "queued" /\ ~ req[r].sync
    BY <1>1, <1>2, Zenon DEF Delegated, At
<1>4. Delegated(d, {"ccw", "pciupd", "exec", "end"})
          <=> req[r].pc \in {"ccw", "pciupd", "exec", "end"} /\ ~ req[r].sync
    BY <1>1, <1>2, Zenon DEF Delegated, At
<1>5. Stage[d] = IF Delegated(d, {"queued"}) THEN "queued"
                 ELSE IF Delegated(d, {"ccw", "pciupd", "exec", "end"}) THEN "running" ELSE "idle"
    BY DEF Stage
<1> QED BY <1>3, <1>4, <1>5 DEF StageOf

\* A step of one request moves the stage of its device only, and from that of the
\* request before to that of the request after.
LEMMA StageStep ==
    ASSUME NEW r \in Req, NEW d \in Device, req \in Requests, req' \in Requests,
           ExclusiveChain, ExclusiveChain',
           \A s \in Req \ {r} : req'[s] = req[s],
           InFlight(r) => req[r].dev = d,
           InFlight(r)' => req'[r].dev = d,
           InFlight(r) \/ InFlight(r)'
    PROVE  /\ Stage[d] = StageOf(req[r])
           /\ Stage' = [Stage EXCEPT ![d] = StageOf(req'[r])]
<1>1. \A s \in Req \ {r} : InFlight(s) <=> InFlight(s)'
    BY DEF InFlight
<1>2. \A s \in Req \ {r} : InFlight(s) => req[s].dev # d
  <2>1. CASE InFlight(r)
      BY <2>1 DEF ExclusiveChain
  <2>2. CASE InFlight(r)'
      BY <2>2, <1>1 DEF ExclusiveChain
  <2> QED BY <2>1, <2>2
<1>3. \A s \in Req \ {r} : InFlight(s)' => req'[s].dev # d
    BY <1>1, <1>2
<1>4. Stage[d] = StageOf(req[r])
    BY <1>2, StageOfOnly
<1>5. Stage'[d] = StageOf(req'[r])
  <2>1. \A s \in Req : req'[s].pc \in {"queued", "ccw", "pciupd", "exec", "end"} => InFlight(s)'
      BY DEF InFlight, ReqPc
  <2>2. \A s \in Req : req'[s].pc \in {"queued", "ccw", "pciupd", "exec", "end"}
                       /\ req'[s].dev = d => s = r
      BY <1>3, <2>1
  <2>3. (\E s \in Req : req'[s].pc \in {"queued"} /\ ~ req'[s].sync /\ req'[s].dev = d)
            <=> req'[r].pc = "queued" /\ ~ req'[r].sync
      BY <2>1, <2>2, Zenon
  <2>4. (\E s \in Req : req'[s].pc \in {"ccw", "pciupd", "exec", "end"} /\ ~ req'[s].sync
                        /\ req'[s].dev = d)
            <=> req'[r].pc \in {"ccw", "pciupd", "exec", "end"} /\ ~ req'[r].sync
      BY <2>1, <2>2, Zenon
  <2> QED BY <2>3, <2>4 DEF Stage, Delegated, At, StageOf
<1>6. ASSUME NEW e \in Device \ {d} PROVE Stage'[e] = Stage[e]
  <2>1. \A s \in Req : /\ req[s].pc \in {"queued", "ccw", "pciupd", "exec", "end"} => InFlight(s)
                       /\ req'[s].pc \in {"queued", "ccw", "pciupd", "exec", "end"} => InFlight(s)'
      BY DEF InFlight, ReqPc
  <2>2. \A s \in Req : req'[s].dev = e /\ req'[s].pc \in {"queued", "ccw", "pciupd", "exec", "end"}
                           => req'[s] = req[s]
      BY <2>1
  <2>3. \A s \in Req : req[s].dev = e /\ req[s].pc \in {"queued", "ccw", "pciupd", "exec", "end"}
                           => req'[s] = req[s]
      BY <2>1
  <2> QED BY <2>2, <2>3 DEF Stage, Delegated, At
<1>7. Stage' = [Stage EXCEPT ![d] = StageOf(req'[r])]
    BY <1>5, <1>6 DEF Stage
<1> QED BY <1>4, <1>7

\* Nothing that leaves the requests alone is the scheduler's business.
LEMMA StageSame == req' = req => Stage' = Stage
BY DEF Stage, Delegated, At

-----------------------------------------------------------------------------
\* startio begins no asynchronous request itself, and execute_ccw_chain gives up
\* synchronous attempts only.
LEMMA StartsSyncNext == TypeInv /\ StartsSync /\ [Next]_vars => StartsSync'
<1> SUFFICES ASSUME TypeInv, StartsSync, [Next]_vars PROVE StartsSync'
    OBVIOUS
<1> USE DEF StartsSync
<1>1. req \in Requests
    BY DEF TypeInv, TypeOK, RequestsTypeOK, Requests
<1>2. CASE req' = req
    BY <1>2
<1>3. ASSUME NEW d \in Device, NEW r \in Req, StartioAsync(d, r) \/ StartioSync(d, r)
      PROVE  StartsSync'
    BY <1>1, <1>3 DEF StartioAsync, StartioSync, Accept, Requests
<1>4. CASE Schedule \/ ScheduleFail \/ SyncDone \/ SyncRetry
  <2>1. cpureq \in Req
      BY <1>4 DEF Schedule, ScheduleFail, SyncDone, SyncRetry, TypeInv, CpuSound
  <2> QED BY <1>1, <1>4, <2>1 DEF Schedule, ScheduleFail, SyncDone, SyncRetry, Goto, Released, Requests
<1>5. ASSUME NEW r \in Req, Execute(r) PROVE StartsSync'
    BY <1>1, <1>5 DEF Execute, ChainBegin, Pci, PciUpd, Ccw, RetrySync, ChainEnd, EndUpd, At, Goto,
       Released, Requests
<1>6. CASE UNCHANGED vars \/ Interrupts \/ CpuUpd \/ AttnUpd
    BY <1>2, <1>6 DEF vars, Interrupts, PickInterrupt, TakeInterrupt, EnterWait,
       Wake, OtherInterrupt, SetPsw, CpuUpd, AttnUpd
<1>7. ASSUME NEW d \in Device, Instruction(d) \/ Attention(d) PROVE StartsSync'
    BY <1>2, <1>7 DEF Instruction, TestIoPending, HaltIoBusy, HaltIoIdle, Attention
<1> QED BY <1>3, <1>4, <1>5, <1>6, <1>7 DEF Next, Starting

\* The request a step moves is the only one, and from one stage to the next.
LEMMA OneRequest ==
    ASSUME NEW r \in Req, TypeInv, TypeInv', StartsSync, ExclusiveChain, ExclusiveChain',
           \/ Execute(r)
           \/ \E d \in Device : StartioAsync(d, r) \/ StartioSync(d, r)
           \/ cpureq = r /\ (Schedule \/ ScheduleFail \/ SyncDone \/ SyncRetry)
    PROVE  [Scheduler!Next]_Stage
<1>1. req \in Requests /\ req' \in Requests
    BY DEF TypeInv, TypeOK, RequestsTypeOK, Requests
<1>2. \A s \in Req \ {r} : req'[s] = req[s]
    BY <1>1 DEF Execute, ChainBegin, Pci, PciUpd, Ccw, RetrySync, ChainEnd, EndUpd, Goto,
       StartioAsync, StartioSync, Accept, Schedule, ScheduleFail, SyncDone, SyncRetry, Requests
<1> DEFINE old == req[r]
           new == req'[r]
<1>3. old.pc # "free" => old.dev \in Device
    BY DEF TypeInv, ReqSound
<1>4. new.pc # "free" => new.dev \in Device
    BY DEF TypeInv, ReqSound
<1>5. InFlight(r) /\ InFlight(r)' => new.dev = old.dev
    BY <1>1 DEF Execute, ChainBegin, Pci, PciUpd, Ccw, RetrySync, ChainEnd, EndUpd, At, Goto,
       StartioAsync, StartioSync, Accept, Schedule, ScheduleFail, SyncDone, SyncRetry, Released,
       InFlight, ReqPc, Requests
<1>6. \/ StageOf(new) = StageOf(old)
      \/ StageOf(old) = "idle" /\ StageOf(new) = "queued"
      \/ StageOf(old) = "queued" /\ StageOf(new) = "running"
      \/ StageOf(old) = "running" /\ StageOf(new) = "idle"
  <2>1. CASE Execute(r)
    <3>1. CASE ChainBegin(r)
        BY <1>1, <3>1 DEF ChainBegin, At, Goto, StageOf, StartsSync, Requests
    <3>2. CASE Pci(r) \/ PciUpd(r) \/ Ccw(r) \/ RetrySync(r)
        BY <1>1, <3>2 DEF Pci, PciUpd, Ccw, RetrySync, At, Goto, StageOf, Requests
    <3>3. CASE ChainEnd(r) \/ EndUpd(r)
        BY <1>1, <3>3 DEF ChainEnd, EndUpd, At, Goto, Released, StageOf, Requests
    <3> QED BY <2>1, <3>1, <3>2, <3>3 DEF Execute
  <2>2. CASE \E d \in Device : StartioAsync(d, r) \/ StartioSync(d, r)
      BY <1>1, <2>2 DEF StartioAsync, StartioSync, Accept, StageOf, Requests
  <2>3. CASE cpureq = r /\ (Schedule \/ ScheduleFail \/ SyncDone \/ SyncRetry)
      BY <1>1, <2>3 DEF Schedule, ScheduleFail, SyncDone, SyncRetry, At, Goto, Released, StageOf,
         Requests, TypeInv, CpuSound
  <2> QED BY <2>1, <2>2, <2>3
<1>7. CASE InFlight(r) \/ InFlight(r)'
  <2>1. PICK d \in Device : (InFlight(r) => old.dev = d) /\ (InFlight(r)' => new.dev = d)
      BY <1>3, <1>4, <1>5, <1>7 DEF InFlight
  <2>2. Stage[d] = StageOf(old) /\ Stage' = [Stage EXCEPT ![d] = StageOf(new)]
      BY <1>1, <1>2, <1>7, <2>1, StageStep
  <2>3. CASE StageOf(new) = StageOf(old)
    <3>1. Stage' = Stage
        BY <2>2, <2>3 DEF Stage
    <3> QED BY <3>1
  <2> QED BY <1>6, <2>2, <2>3
          DEF Scheduler!Next, Scheduler!Accept, Scheduler!Run, Scheduler!End, Scheduler!Step
<1>8. CASE ~ InFlight(r) /\ ~ InFlight(r)'
  <2>1. /\ req[r].pc \notin {"queued", "ccw", "pciupd", "exec", "end"}
        /\ req'[r].pc \notin {"queued", "ccw", "pciupd", "exec", "end"}
      BY <1>8 DEF InFlight, ReqPc
  <2>2. Stage' = Stage
      BY <1>2, <2>1 DEF Stage, Delegated, At
  <2> QED BY <2>2
<1> QED BY <1>7, <1>8

LEMMA SchedulerNext ==
    TypeInv /\ TypeInv' /\ StartsSync /\ ExclusiveChain /\ ExclusiveChain' /\ [Next]_vars
        => [Scheduler!Next]_Stage
<1> SUFFICES ASSUME TypeInv, TypeInv', StartsSync, ExclusiveChain, ExclusiveChain', [Next]_vars
             PROVE  [Scheduler!Next]_Stage
    OBVIOUS
<1>1. CASE req' = req
    BY <1>1, StageSame
<1>2. CASE UNCHANGED vars \/ Interrupts \/ CpuUpd \/ AttnUpd
    BY <1>1, <1>2 DEF vars, Interrupts, PickInterrupt, TakeInterrupt, EnterWait,
       Wake, OtherInterrupt, SetPsw, CpuUpd, AttnUpd
<1>3. CASE \E d \in Device : Instruction(d) \/ Attention(d)
    BY <1>1, <1>3 DEF Instruction, TestIoPending, HaltIoBusy, HaltIoIdle, Attention
<1>4. CASE Schedule \/ ScheduleFail \/ SyncDone \/ SyncRetry
  <2>1. cpureq \in Req
      BY <1>4 DEF Schedule, ScheduleFail, SyncDone, SyncRetry, TypeInv, CpuSound
  <2> QED BY <1>4, <2>1, OneRequest
<1> QED BY <1>2, <1>3, <1>4, OneRequest DEF Next, Starting

\* The channel uses its scheduler as it is meant to be used: nothing is executed
\* that was not handed over, nor twice, nor two requests of one device at a time.
THEOREM SchedulerUsed == Spec => Scheduler!Spec
<1>1. Init => Scheduler!Init
    BY DEF Init, Scheduler!Init, Stage, Delegated, At
<1>2. Init => StartsSync
    BY DEF Init, StartsSync
<1> QED BY <1>1, <1>2, SchedulerNext, StartsSyncNext, TypeInvInit, TypeInvNext, ChainsExclusive,
           PTL DEF Spec, Scheduler!Spec

=============================================================================
