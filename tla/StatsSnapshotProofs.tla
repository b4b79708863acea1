-------------------------- MODULE StatsSnapshotProofs --------------------------
(***************************************************************************)
(* Proofs about the recency tracker of LRUTracker, as the statistics page  *)
(* and the commands drive it in StatsSnapshot, for every set of keys and   *)
(* every bound of the clock.                                               *)
(***************************************************************************)
EXTENDS StatsSnapshot, FiniteSetTheorems, FunctionTheorems, SequenceTheorems,
        NaturalsInduction, WellFoundedInduction, TLAPS

\* A set of naturals that is not empty has a least element.
LEMMA LeastNatural ==
  ASSUME NEW T, T \subseteq Nat, T # {}
  PROVE  \E x \in T : \A y \in T : x <= y
<1>1. PICK x \in T : \A y \in T : <<y, x>> \notin OpToRel(<, Nat)
  BY NatLessThanWellFounded, WFMin
<1>2. \A y \in T : ~(y < x)
  BY <1>1, T \subseteq Nat DEF OpToRel
<1> QED
  BY <1>2, T \subseteq Nat

-----------------------------------------------------------------------------
(***************************************************************************)
(* The pointers.  Threads(l, q) is Spells(l, q) but for the nodes of the   *)
(* Map: it says what the pointers are when q is the list from head to      *)
(* tail, also in the middle of an operation.                               *)
(***************************************************************************)
Distinct(q) == \A i, j \in 1..Len(q) : q[i] = q[j] => i = j

Threads(l, q) ==
  /\ l \in Lists /\ q \in Seq(Keys) /\ Distinct(q)
  /\ l.head = IF Len(q) = 0 THEN Undefined ELSE q[1]
  /\ l.tail = IF Len(q) = 0 THEN Undefined ELSE q[Len(q)]
  /\ \A i \in 1..Len(q) : l.next[q[i]] = IF i = Len(q) THEN Undefined ELSE q[i + 1]
  /\ \A i \in 1..Len(q) : l.prev[q[i]] = IF i = 1 THEN Undefined ELSE q[i - 1]
  /\ \A k \in Keys : (\A i \in 1..Len(q) : q[i] # k) =>
       l.next[k] = Undefined /\ l.prev[k] = Undefined

\* Putting k at the front of a list that does not hold it.
LEMMA PushFrontThreads ==
  ASSUME NEW l, NEW q, Threads(l, q),
         NEW k \in Keys, \A i \in 1..Len(q) : q[i] # k
  PROVE  Threads(pushFront(l, k), <<k>> \o q) /\ pushFront(l, k).nodes = l.nodes
<1> DEFINE m == pushFront(l, k)
           r == <<k>> \o q
           n == Len(q)
<1>1. /\ n \in Nat /\ q \in Seq(Keys) /\ l \in Lists /\ Distinct(q)
      /\ \A i \in 1..n : q[i] \in Keys
  BY LenProperties, ElementOfSeq DEF Threads
<1>2. /\ r \in Seq(Keys) /\ Len(r) = n + 1
      /\ r[1] = k
      /\ \A i \in 1..n : r[i + 1] = q[i]
      /\ \A i \in 2..(n + 1) : r[i] = q[i - 1]
  BY <1>1, ConcatProperties
<1>3. /\ m \in Lists /\ m.nodes = l.nodes
      /\ m.head = k
      /\ m.tail = IF l.tail = Undefined THEN k ELSE l.tail
      /\ m.next[k] = l.head
      /\ \A x \in Keys \ {k} : m.next[x] = l.next[x]
      /\ m.prev[k] = Undefined
      /\ \A x \in Keys \ {k} : m.prev[x] = IF x = l.head THEN k ELSE l.prev[x]
  BY <1>1 DEF pushFront, Lists, NodeOrNone
<1> HIDE DEF m, r, n
<1>4. \A i \in 1..(n + 1) : i = 1 \/ (i - 1 \in 1..n /\ r[i] = q[i - 1] /\ r[i] # k)
  BY <1>1, <1>2 DEF n
<1>5. Distinct(r)
  <2> SUFFICES ASSUME NEW i \in 1..(n + 1), NEW j \in 1..(n + 1), r[i] = r[j]
               PROVE  i = j
    BY <1>2 DEF Distinct
  <2>1. CASE i = 1 \/ j = 1
    BY <1>2, <1>4, <2>1
  <2>2. CASE i # 1 /\ j # 1
    <3>1. q[i - 1] = q[j - 1] /\ i - 1 \in 1..n /\ j - 1 \in 1..n
      BY <1>4, <2>2
    <3>2. i - 1 = j - 1
      BY <1>1, <3>1 DEF Distinct, n
    <3> QED
      BY <1>1, <3>2
  <2> QED
    BY <2>1, <2>2
<1>6. m.head = r[1]
  BY <1>2, <1>3
<1>7. m.tail = r[n + 1]
  <2>1. CASE n = 0
    BY <1>2, <1>3, <2>1 DEF Threads, n
  <2>2. CASE n # 0
    <3>1. l.tail = q[n] /\ n \in 1..n
      BY <1>1, <2>2 DEF Threads, n
    <3>2. l.tail # Undefined
      BY <1>1, <3>1, UndefinedAssumption
    <3> QED
      BY <1>2, <1>3, <3>1, <3>2
  <2> QED
    BY <2>1, <2>2
<1>8. ASSUME NEW i \in 1..(n + 1)
      PROVE  m.next[r[i]] = IF i = n + 1 THEN Undefined ELSE r[i + 1]
  <2>1. CASE i = 1
    <3>1. CASE n = 0
      BY <1>2, <1>3, <2>1, <3>1 DEF Threads, n
    <3>2. CASE n # 0
      BY <1>1, <1>2, <1>3, <2>1, <3>2 DEF Threads, n
    <3> QED
      BY <3>1, <3>2
  <2>2. CASE i # 1
    <3>1. i - 1 \in 1..n /\ r[i] = q[i - 1] /\ r[i] # k
      BY <1>4, <2>2
    <3>2. m.next[r[i]] = l.next[q[i - 1]]
      BY <1>1, <1>3, <3>1
    <3>3. l.next[q[i - 1]] = IF i - 1 = n THEN Undefined ELSE q[(i - 1) + 1]
      BY <3>1 DEF Threads, n
    <3>4. i # n + 1 => i \in 1..n /\ r[i + 1] = q[i]
      BY <1>1, <1>2
    <3> QED
      BY <1>1, <3>1, <3>2, <3>3, <3>4
  <2> QED
    BY <2>1, <2>2
<1>9. ASSUME NEW i \in 1..(n + 1)
      PROVE  m.prev[r[i]] = IF i = 1 THEN Undefined ELSE r[i - 1]
  <2>1. CASE i = 1
    BY <1>2, <1>3, <2>1
  <2>2. CASE i # 1
    <3>1. i - 1 \in 1..n /\ r[i] = q[i - 1] /\ r[i] # k
      BY <1>4, <2>2
    <3>2. m.prev[r[i]] = IF q[i - 1] = l.head THEN k ELSE l.prev[q[i - 1]]
      BY <1>1, <1>3, <3>1
    <3>3. l.head = q[1] /\ 1 \in 1..n
      BY <1>1, <3>1 DEF Threads, n
    <3>4. CASE i = 2
      BY <1>1, <1>2, <3>2, <3>3, <3>4
    <3>5. CASE i # 2
      <4>1. q[i - 1] # l.head
        BY <1>1, <3>1, <3>3, <3>5 DEF Distinct, n
      <4>2. l.prev[q[i - 1]] = q[i - 2]
        BY <1>1, <3>1, <3>5 DEF Threads, n
      <4>3. r[i - 1] = q[i - 2]
        BY <1>1, <1>2, <3>1, <3>5
      <4> QED
        BY <2>2, <3>2, <4>1, <4>2, <4>3
    <3> QED
      BY <3>4, <3>5
  <2> QED
    BY <2>1, <2>2
<1>10. ASSUME NEW x \in Keys, \A i \in 1..(n + 1) : r[i] # x
       PROVE  m.next[x] = Undefined /\ m.prev[x] = Undefined
  <2>1. x # k
    BY <1>1, <1>2, <1>10
  <2>2. \A i \in 1..n : q[i] # x
    BY <1>1, <1>2, <1>10
  <2>3. l.next[x] = Undefined /\ l.prev[x] = Undefined
    BY <2>2 DEF Threads, n
  <2>4. x # l.head
    BY <1>1, <2>2, UndefinedAssumption DEF Threads, n
  <2> QED
    BY <1>3, <2>1, <2>3, <2>4
<1>11. Threads(m, r)
  BY <1>1, <1>2, <1>3, <1>5, <1>6, <1>7, <1>8, <1>9, <1>10 DEF Threads
<1> QED
  BY <1>3, <1>11 DEF m, r

\* A sequence without its element at p.
LEMMA RemoveAtProperties ==
  ASSUME NEW S, NEW q \in Seq(S), NEW p \in 1..Len(q)
  PROVE  /\ RemoveAt(q, p) \in Seq(S)
         /\ Len(RemoveAt(q, p)) = Len(q) - 1
         /\ \A i \in 1..(Len(q) - 1) : RemoveAt(q, p)[i] = IF i < p THEN q[i] ELSE q[i + 1]
<1> DEFINE n     == Len(q)
           left  == SubSeq(q, 1, p - 1)
           right == SubSeq(q, p + 1, n)
           w     == RemoveAt(q, p)
<1>1. n \in Nat /\ p \in 1..n /\ \A i \in 1..n : q[i] \in S
  BY LenProperties, ElementOfSeq
<1>2. w = left \o right
  BY DEF RemoveAt
<1>3. /\ left \in Seq(S) /\ Len(left) = p - 1
      /\ \A i \in 1..(p - 1) : left[i] = q[i]
  BY <1>1, SubSeqProperties DEF left
<1>4. /\ right \in Seq(S) /\ Len(right) = n - p
      /\ \A i \in 1..(n - p) : right[i] = q[i + p]
  <2> HIDE DEF n
  <2>1. p + 1 \in Int /\ n \in Int /\ n - (p + 1) + 1 = n - p
    BY <1>1
  <2>2. /\ right \in Seq(S)
        /\ Len(right) = IF p + 1 <= n THEN n - (p + 1) + 1 ELSE 0
        /\ \A i \in 1..(n - (p + 1) + 1) : right[i] = q[(p + 1) + i - 1]
    <3>1. \A i \in (p + 1)..n : q[i] \in S
      BY <1>1 DEF n
    <3> QED
      BY <2>1, <3>1, SubSeqProperties
  <2>3. \A i \in 1..(n - p) : (p + 1) + i - 1 = i + p
    BY <1>1
  <2> QED
    BY <1>1, <2>1, <2>2, <2>3
<1> HIDE DEF left, right, w, n
<1>5. /\ w \in Seq(S) /\ Len(w) = n - 1
      /\ \A i \in 1..(n - 1) : w[i] = IF i < p THEN q[i] ELSE q[i + 1]
  BY <1>1, <1>2, <1>3, <1>4, ConcatProperties
<1> QED
  BY <1>5 DEF w, n

\* Taking the node at p out: the neighbours, or the ends of the list, close over
\* it.
LEMMA UnlinkThreads ==
  ASSUME NEW l, NEW q, Threads(l, q), NEW p \in 1..Len(q)
  PROVE  Threads(unlink(l, q[p]), RemoveAt(q, p)) /\ unlink(l, q[p]).nodes = l.nodes
<1> DEFINE k == q[p]
           m == unlink(l, k)
           w == RemoveAt(q, p)
           n == Len(q)
           before == IF p = 1 THEN Undefined ELSE q[p - 1]
           after  == IF p = n THEN Undefined ELSE q[p + 1]
<1>1. /\ n \in Nat /\ q \in Seq(Keys) /\ l \in Lists /\ Distinct(q)
      /\ \A i \in 1..n : q[i] \in Keys
      /\ k \in Keys
  BY LenProperties, ElementOfSeq DEF Threads
<1>2. /\ w \in Seq(Keys) /\ Len(w) = n - 1
      /\ \A i \in 1..(n - 1) : w[i] = IF i < p THEN q[i] ELSE q[i + 1]
  BY <1>1, RemoveAtProperties
<1>3. l.prev[k] = before /\ l.next[k] = after
  BY DEF Threads
<1>4. before \in NodeOrNone /\ after \in NodeOrNone
  BY <1>1 DEF NodeOrNone
<1>5. /\ m \in Lists /\ m.nodes = l.nodes
      /\ \A x \in Keys : m.next[x] = IF x = k THEN Undefined
                                     ELSE IF x = before THEN after ELSE l.next[x]
      /\ \A x \in Keys : m.prev[x] = IF x = k THEN Undefined
                                     ELSE IF x = after THEN before ELSE l.prev[x]
      /\ m.head = IF before = Undefined THEN after ELSE l.head
      /\ m.tail = IF after = Undefined THEN before ELSE l.tail
  <2> HIDE DEF before, after, k
  <2> DEFINE nxt == [x \in Keys |-> IF x = k THEN Undefined
                                    ELSE IF x = before THEN after ELSE l.next[x]]
             prv == [x \in Keys |-> IF x = k THEN Undefined
                                    ELSE IF x = after THEN before ELSE l.prev[x]]
             hd  == IF before = Undefined THEN after ELSE l.head
             tl  == IF after = Undefined THEN before ELSE l.tail
  <2>1. m = [l EXCEPT !.next = nxt, !.prev = prv, !.head = hd, !.tail = tl]
    BY <1>3 DEF unlink
  <2>2. nxt \in [Keys -> NodeOrNone] /\ prv \in [Keys -> NodeOrNone]
        /\ hd \in NodeOrNone /\ tl \in NodeOrNone
    BY <1>1, <1>4 DEF Lists, NodeOrNone
  <2>3. /\ m \in Lists /\ m.nodes = l.nodes
        /\ m.next = nxt /\ m.prev = prv /\ m.head = hd /\ m.tail = tl
    <3> HIDE DEF m, nxt, prv, hd, tl
    <3> QED
      BY <1>1, <2>1, <2>2 DEF Lists
  <2> QED
    BY <2>3
<1>6. /\ \A i \in 1..n : q[i] = k <=> i = p
      /\ \A i \in 1..n : q[i] = before <=> i = p - 1
      /\ \A i \in 1..n : q[i] = after <=> i = p + 1
      /\ before = Undefined <=> p = 1
      /\ after = Undefined <=> p = n
  <2>1. \A i, j \in 1..n : q[i] = q[j] => i = j
    BY <1>1 DEF Distinct
  <2>2. \A i \in 1..n : q[i] # Undefined
    BY <1>1, UndefinedAssumption
  <2> QED
    BY <1>1, <2>1, <2>2
<1>7. /\ \A i \in 1..n : l.next[q[i]] = IF i = n THEN Undefined ELSE q[i + 1]
      /\ \A i \in 1..n : l.prev[q[i]] = IF i = 1 THEN Undefined ELSE q[i - 1]
      /\ l.head = q[1] /\ l.tail = q[n]
  BY <1>1 DEF Threads
<1> DEFINE at(i) == IF i < p THEN i ELSE i + 1
<1>8. \A i \in 1..(n - 1) : at(i) \in 1..n /\ at(i) # p /\ w[i] = q[at(i)]
  BY <1>1, <1>2
<1> HIDE DEF m, w, k, n
<1>9. Distinct(w)
  <2>1. \A i, j \in 1..(n - 1) : at(i) = at(j) => i = j
    BY <1>1
  <2>2. \A i, j \in 1..n : q[i] = q[j] => i = j
    BY <1>1 DEF Distinct, n
  <2> HIDE DEF at
  <2> QED
    BY <1>2, <1>8, <2>1, <2>2 DEF Distinct
<1>10. m.head = IF Len(w) = 0 THEN Undefined ELSE w[1]
  BY <1>1, <1>2, <1>5, <1>6, <1>7 DEF n
<1>11. m.tail = IF Len(w) = 0 THEN Undefined ELSE w[Len(w)]
  BY <1>1, <1>2, <1>5, <1>6, <1>7 DEF n
<1>12. ASSUME NEW i \in 1..(n - 1)
       PROVE  m.next[w[i]] = IF i = n - 1 THEN Undefined ELSE w[i + 1]
  <2>1. at(i) \in 1..n /\ at(i) # p /\ w[i] = q[at(i)] /\ q[at(i)] \in Keys
    BY <1>1, <1>8
  <2>2. m.next[w[i]] = IF at(i) = p - 1 THEN after
                       ELSE IF at(i) = n THEN Undefined ELSE q[at(i) + 1]
    <3> HIDE DEF at, before, after
    <3>1. m.next[q[at(i)]] = IF q[at(i)] = k THEN Undefined
                            ELSE IF q[at(i)] = before THEN after ELSE l.next[q[at(i)]]
      BY <1>5, <2>1
    <3>2. q[at(i)] # k /\ (q[at(i)] = before <=> at(i) = p - 1)
      BY <1>6, <2>1
    <3>3. l.next[q[at(i)]] = IF at(i) = n THEN Undefined ELSE q[at(i) + 1]
      BY <1>7, <2>1
    <3> QED
      BY <2>1, <3>1, <3>2, <3>3
  <2>3. i # n - 1 => w[i + 1] = IF i + 1 < p THEN q[i + 1] ELSE q[i + 2]
    BY <1>1, <1>2
  <2>4. n \in Nat /\ p \in 1..n
    BY <1>1 DEF n
  <2>5. CASE i + 1 < p
    <3>1. at(i) = i /\ i # p - 1 /\ i # n /\ i # n - 1
      BY <2>4, <2>5
    <3> QED
      BY <2>2, <2>3, <2>5, <3>1
  <2>6. CASE i + 1 = p
    <3>1. at(i) = p - 1 /\ i + 2 = p + 1 /\ (i = n - 1 <=> p = n)
      BY <2>4, <2>6
    <3>2. after = IF p = n THEN Undefined ELSE q[p + 1]
      BY <2>4 DEF n
    <3> QED
      BY <2>2, <2>3, <2>6, <3>1, <3>2
  <2>7. CASE i >= p
    <3>1. at(i) = i + 1 /\ at(i) # p - 1 /\ (i = n - 1 <=> at(i) = n) /\ ~(i + 1 < p)
      BY <2>4, <2>7
    <3>2. at(i) + 1 = i + 2
      BY <2>4, <2>7
    <3> QED
      BY <2>2, <2>3, <3>1, <3>2
  <2> QED
    BY <2>4, <2>5, <2>6, <2>7
<1>13. ASSUME NEW i \in 1..(n - 1)
       PROVE  m.prev[w[i]] = IF i = 1 THEN Undefined ELSE w[i - 1]
  <2>1. at(i) \in 1..n /\ at(i) # p /\ w[i] = q[at(i)] /\ q[at(i)] \in Keys
    BY <1>1, <1>8
  <2>2. m.prev[w[i]] = IF at(i) = p + 1 THEN before
                       ELSE IF at(i) = 1 THEN Undefined ELSE q[at(i) - 1]
    <3> HIDE DEF at, before, after
    <3>1. m.prev[q[at(i)]] = IF q[at(i)] = k THEN Undefined
                            ELSE IF q[at(i)] = after THEN before ELSE l.prev[q[at(i)]]
      BY <1>5, <2>1
    <3>2. q[at(i)] # k /\ (q[at(i)] = after <=> at(i) = p + 1)
      BY <1>6, <2>1
    <3>3. l.prev[q[at(i)]] = IF at(i) = 1 THEN Undefined ELSE q[at(i) - 1]
      BY <1>7, <2>1
    <3> QED
      BY <2>1, <3>1, <3>2, <3>3
  <2>3. i # 1 => w[i - 1] = IF i - 1 < p THEN q[i - 1] ELSE q[i]
    BY <1>1, <1>2
  <2>4. n \in Nat /\ p \in 1..n
    BY <1>1 DEF n
  <2>5. CASE i < p
    <3>1. at(i) = i /\ i # p + 1 /\ i - 1 < p
      BY <2>4, <2>5
    <3> QED
      BY <2>2, <2>3, <3>1
  <2>6. CASE i = p
    <3>1. at(i) = p + 1 /\ i - 1 < p
      BY <2>4, <2>6
    <3>2. before = IF p = 1 THEN Undefined ELSE q[p - 1]
      BY <2>4
    <3> QED
      BY <2>2, <2>3, <2>6, <3>1, <3>2
  <2>7. CASE i > p
    <3>1. at(i) = i + 1 /\ at(i) # p + 1 /\ at(i) # 1 /\ i # 1 /\ ~(i - 1 < p)
      BY <2>4, <2>7
    <3>2. at(i) - 1 = i
      BY <2>4, <2>7
    <3> QED
      BY <2>2, <2>3, <3>1, <3>2
  <2> QED
    BY <2>4, <2>5, <2>6, <2>7
<1>14. ASSUME NEW x \in Keys, \A i \in 1..(n - 1) : w[i] # x
       PROVE  m.next[x] = Undefined /\ m.prev[x] = Undefined
  <2>1. CASE x = k
    BY <1>5, <2>1
  <2>2. CASE x # k
    <3>1. \A j \in 1..n : j # p => \E i \in 1..(n - 1) : w[i] = q[j]
      <4> TAKE j \in 1..n
      <4>1. CASE j < p
        BY <1>1, <1>2, <4>1 DEF n
      <4>2. CASE j > p
        <5>1. j - 1 \in 1..(n - 1) /\ w[j - 1] = q[j]
          BY <1>1, <1>2, <4>2 DEF n
        <5> QED
          BY <5>1
      <4> QED
        BY <1>1, <4>1, <4>2 DEF n
    <3>2. \A j \in 1..n : q[j] # x
      BY <1>14, <2>2, <3>1 DEF k
    <3>3. l.next[x] = Undefined /\ l.prev[x] = Undefined
      BY <3>2 DEF Threads, n
    <3>4. x # before /\ x # after
      BY <1>1, <3>2, UndefinedAssumption DEF n
    <3> HIDE DEF before, after
    <3> QED
      BY <1>5, <2>2, <3>3, <3>4
  <2> QED
    BY <2>1, <2>2
<1>15. Threads(m, w)
  <2> HIDE DEF at, before, after
  <2> QED
    BY <1>2, <1>5, <1>9, <1>10, <1>11, <1>12, <1>13, <1>14 DEF Threads
<1> QED
  BY <1>5, <1>15 DEF m, w, k

-----------------------------------------------------------------------------
(***************************************************************************)
(* The operations.  q spells the list l out: its pointers, and its nodes.  *)
(***************************************************************************)
Spelled(l, q) == Threads(l, q) /\ ToSet(q) = l.nodes /\ IsFiniteSet(l.nodes)

WithNodes(l, S) == [l EXCEPT !.nodes = S]

\* The nodes do not matter to the pointers.
LEMMA NodesApart ==
  ASSUME NEW l, NEW q, Threads(l, q), NEW S \in SUBSET Keys
  PROVE  Threads(WithNodes(l, S), q)
BY DEF Threads, Lists, WithNodes

\* The elements of a sequence.
LEMMA Elements ==
  ASSUME NEW S, NEW q \in Seq(S)
  PROVE  \A x : x \in ToSet(q) <=> \E i \in 1..Len(q) : q[i] = x
BY LenProperties DEF ToSet

\* What the abstract order makes of q when k is, and when it is not, in it.
LEMMA WithoutCases ==
  ASSUME NEW q \in Seq(Keys), NEW k
  PROVE  /\ (\A i \in 1..Len(q) : q[i] # k) => Abstract!Without(q, k) = q
         /\ Distinct(q) => \A p \in 1..Len(q) : q[p] = k =>
              Abstract!Without(q, k) = RemoveAt(q, p)
<1>1. DOMAIN q = 1..Len(q)
  BY LenProperties
<1>2. ASSUME \A i \in 1..Len(q) : q[i] # k
      PROVE  Abstract!Without(q, k) = q
  BY <1>1, <1>2 DEF Abstract!Without
<1>3. ASSUME Distinct(q), NEW p \in 1..Len(q), q[p] = k
      PROVE  Abstract!Without(q, k) = RemoveAt(q, p)
  <2>1. (CHOOSE i \in DOMAIN q : q[i] = k) = p
    BY <1>1, <1>3 DEF Distinct
  <2> QED
    BY <1>1, <1>3, <2>1 DEF Abstract!Without, Abstract!RemoveAt, RemoveAt
<1> QED
  BY <1>2, <1>3

\* Removing the node of k.
LEMMA DeletedSpelled ==
  ASSUME NEW l, NEW q, Spelled(l, q), NEW p \in 1..Len(q)
  PROVE  Spelled(deleted(l, q[p]), RemoveAt(q, p))
<1> DEFINE k == q[p]
           m == unlink(l, k)
           w == RemoveAt(q, p)
           n == Len(q)
<1>1. /\ n \in Nat /\ q \in Seq(Keys) /\ Distinct(q)
      /\ k \in Keys /\ k \in l.nodes /\ l.nodes \in SUBSET Keys
  <2>1. q \in Seq(Keys) /\ Distinct(q) /\ l \in Lists
    BY DEF Spelled, Threads
  <2>2. k \in ToSet(q)
    BY <2>1, Elements
  <2> QED
    BY <2>1, <2>2, LenProperties DEF Spelled, Lists
<1>2. Threads(m, w) /\ m.nodes = l.nodes
  BY UnlinkThreads DEF Spelled
<1>3. deleted(l, k) = WithNodes(m, l.nodes \ {k})
  BY <1>1, <1>2 DEF deleted, WithNodes
<1>4. /\ w \in Seq(Keys) /\ Len(w) = n - 1
      /\ \A i \in 1..(n - 1) : w[i] = IF i < p THEN q[i] ELSE q[i + 1]
  BY <1>1, RemoveAtProperties
<1>5. ToSet(w) = l.nodes \ {k}
  <2>1. \A x : x \in l.nodes <=> \E i \in 1..n : q[i] = x
    BY <1>1, Elements DEF Spelled
  <2>2. \A x : x \in ToSet(w) <=> \E i \in 1..(n - 1) : w[i] = x
    BY <1>4, Elements
  <2> HIDE DEF w
  <2>3. ASSUME NEW x \in ToSet(w) PROVE x \in l.nodes \ {k}
    <3>1. PICK i \in 1..(n - 1) : w[i] = x
      BY <2>2
    <3>2. CASE i < p
      <4>1. i \in 1..n /\ q[i] = x /\ i # p
        BY <1>1, <1>4, <3>1, <3>2
      <4> QED
        BY <1>1, <2>1, <4>1 DEF Distinct
    <3>3. CASE i >= p
      <4>1. i + 1 \in 1..n /\ q[i + 1] = x /\ i + 1 # p
        BY <1>1, <1>4, <3>1, <3>3
      <4> QED
        BY <1>1, <2>1, <4>1 DEF Distinct
    <3> QED
      BY <1>1, <3>2, <3>3
  <2>4. ASSUME NEW x \in l.nodes \ {k} PROVE x \in ToSet(w)
    <3>1. PICK j \in 1..n : q[j] = x
      BY <2>1
    <3>2. CASE j < p
      <4>1. j \in 1..(n - 1) /\ w[j] = x
        BY <1>1, <1>4, <3>1, <3>2
      <4> QED
        BY <2>2, <4>1
    <3>3. CASE j > p
      <4>1. j - 1 \in 1..(n - 1) /\ w[j - 1] = x
        BY <1>1, <1>4, <3>1, <3>3
      <4> QED
        BY <2>2, <4>1
    <3> QED
      BY <1>1, <3>1, <3>2, <3>3
  <2> QED
    BY <2>3, <2>4
<1>6. IsFiniteSet(l.nodes \ {k})
  BY FS_RemoveElement DEF Spelled
<1>7. Threads(deleted(l, k), w)
  <2>1. l.nodes \ {k} \in SUBSET Keys
    BY <1>1
  <2> HIDE DEF m, w, k
  <2> QED
    BY <1>2, <1>3, <2>1, NodesApart
<1>8. deleted(l, k).nodes = l.nodes \ {k}
  <2> HIDE DEF m
  <2> QED
    BY <1>2, <1>3 DEF Threads, Lists, WithNodes
<1> QED
  BY <1>5, <1>6, <1>7, <1>8 DEF Spelled

LEMMA DeleteKeeps ==
  ASSUME NEW l, NEW q, Spelled(l, q), NEW k
  PROVE  Spelled(deleted(l, k), Abstract!Forgotten(q, k))
<1>1. q \in Seq(Keys) /\ Distinct(q)
  BY DEF Spelled, Threads
<1>2. \A x : x \in l.nodes <=> \E i \in 1..Len(q) : q[i] = x
  BY <1>1, Elements DEF Spelled
<1>3. CASE k \in l.nodes
  BY <1>1, <1>2, <1>3, DeletedSpelled, WithoutCases DEF Abstract!Forgotten
<1>4. CASE k \notin l.nodes
  <2>1. Abstract!Without(q, k) = q
    BY <1>1, <1>2, <1>4, WithoutCases
  <2> QED
    BY <1>4, <2>1 DEF deleted, Abstract!Forgotten
<1> QED
  BY <1>3, <1>4

LEMMA EvictKeeps ==
  ASSUME NEW l, NEW q, Spelled(l, q)
  PROVE  Spelled(evicted(l), Abstract!Evicted(q))
<1> DEFINE n == Len(q)
<1>1. /\ n \in Nat /\ q \in Seq(Keys) /\ Distinct(q)
      /\ \A i \in 1..n : q[i] \in Keys
      /\ l.tail = IF n = 0 THEN Undefined ELSE q[n]
  BY LenProperties, ElementOfSeq DEF Spelled, Threads
<1>2. CASE n = 0
  <2>1. q = <<>>
    BY <1>1, <1>2, EmptySeq
  <2> QED
    BY <1>1, <1>2, <2>1 DEF evicted, Abstract!Evicted
<1>3. CASE n # 0
  <2>1. n \in 1..n /\ l.tail = q[n] /\ q[n] # Undefined
    BY <1>1, <1>3, UndefinedAssumption
  <2>2. evicted(l) = deleted(l, q[n])
    BY <2>1 DEF evicted
  <2>3. Spelled(evicted(l), RemoveAt(q, n))
    BY <2>1, <2>2, DeletedSpelled
  <2>4. q # <<>>
    BY <1>3
  <2>5. RemoveAt(q, n) = Abstract!Front(q)
    <3> DEFINE w == RemoveAt(q, n)
               f == SubSeq(q, 1, n - 1)
    <3>1. /\ w \in Seq(Keys) /\ Len(w) = n - 1
          /\ \A i \in 1..(n - 1) : w[i] = IF i < n THEN q[i] ELSE q[i + 1]
      BY <1>1, <2>1, RemoveAtProperties
    <3>2. /\ f \in Seq(Keys) /\ Len(f) = n - 1
          /\ \A i \in 1..(n - 1) : f[i] = q[i]
      <4> HIDE DEF n
      <4>1. n - 1 \in Int /\ \A i \in 1..(n - 1) : q[i] \in Keys
        BY <1>1
      <4>2. f \in Seq(Keys) /\ Len(f) = (IF 1 <= n - 1 THEN (n - 1) - 1 + 1 ELSE 0)
            /\ \A i \in 1..((n - 1) - 1 + 1) : f[i] = q[1 + i - 1]
        BY <4>1, SubSeqProperties
      <4>3. \A i \in 1..(n - 1) : 1 + i - 1 = i
        BY <1>1
      <4> QED
        BY <1>1, <2>1, <4>2, <4>3
    <3>3. Abstract!Front(q) = f
      BY DEF Abstract!Front
    <3> HIDE DEF w, f, n
    <3>4. \A i \in 1..(n - 1) : w[i] = f[i]
      BY <1>1, <3>1, <3>2
    <3>5. w = f
      BY <3>1, <3>2, <3>4, SeqEqual
    <3> QED
      BY <3>3, <3>5 DEF w
  <2> QED
    BY <2>3, <2>4, <2>5 DEF Abstract!Evicted
<1> QED
  BY <1>2, <1>3

\* Using a key, new or old, puts it at the front.
LEMMA TouchKeeps ==
  ASSUME NEW l, NEW q, Spelled(l, q), NEW k \in Keys
  PROVE  Spelled(touched(l, k), Abstract!Touched(q, k))
<1> DEFINE n == Len(q)
<1>1. /\ n \in Nat /\ q \in Seq(Keys) /\ Distinct(q) /\ Threads(l, q)
      /\ l \in Lists /\ l.nodes \in SUBSET Keys /\ IsFiniteSet(l.nodes)
      /\ \A x : x \in l.nodes <=> \E i \in 1..n : q[i] = x
  <2>1. /\ q \in Seq(Keys) /\ Distinct(q) /\ Threads(l, q)
        /\ l \in Lists /\ IsFiniteSet(l.nodes) /\ ToSet(q) = l.nodes
    BY DEF Spelled, Threads
  <2> QED
    BY <2>1, Elements, LenProperties DEF Lists
\* k at the front of a list w that does not hold it.
<1>2. ASSUME NEW m, NEW w, Threads(m, w), \A i \in 1..Len(w) : w[i] # k,
             m.nodes = l.nodes \cup {k}, ToSet(w) \cup {k} = l.nodes \cup {k}
      PROVE  Spelled(pushFront(m, k), <<k>> \o w)
  <2>1. Threads(pushFront(m, k), <<k>> \o w) /\ pushFront(m, k).nodes = l.nodes \cup {k}
    BY <1>2, PushFrontThreads
  <2>2. w \in Seq(Keys) /\ Len(w) \in Nat
    BY <1>2, LenProperties DEF Threads
  <2>3. /\ <<k>> \o w \in Seq(Keys) /\ Len(<<k>> \o w) = Len(w) + 1
        /\ (<<k>> \o w)[1] = k
        /\ \A i \in 1..Len(w) : (<<k>> \o w)[i + 1] = w[i]
        /\ \A i \in 2..(Len(w) + 1) : (<<k>> \o w)[i] = w[i - 1]
    BY <2>2, ConcatProperties
  <2> DEFINE r == <<k>> \o w
  <2> HIDE DEF r
  <2>4. \A x : x \in ToSet(r) <=> \E i \in 1..(Len(w) + 1) : r[i] = x
    <3>1. r \in Seq(Keys) /\ Len(r) = Len(w) + 1
      BY <2>3 DEF r
    <3> QED
      BY <3>1, Elements
  <2>5. \A x : x \in ToSet(w) <=> \E i \in 1..Len(w) : w[i] = x
    BY <2>2, Elements
  <2>6. ASSUME NEW x \in ToSet(r) PROVE x \in ToSet(w) \cup {k}
    <3>1. PICK i \in 1..(Len(w) + 1) : r[i] = x
      BY <2>4
    <3>2. CASE i = 1
      BY <2>3, <3>1, <3>2 DEF r
    <3>3. CASE i # 1
      <4>1. i - 1 \in 1..Len(w) /\ w[i - 1] = x
        BY <2>2, <2>3, <3>1, <3>3 DEF r
      <4> QED
        BY <2>5, <4>1
    <3> QED
      BY <3>2, <3>3
  <2>7. ASSUME NEW x \in ToSet(w) \cup {k} PROVE x \in ToSet(r)
    <3>1. CASE x = k
      <4>1. 1 \in 1..(Len(w) + 1) /\ r[1] = x
        BY <2>2, <2>3, <3>1 DEF r
      <4> QED
        BY <2>4, <4>1
    <3>2. CASE x # k
      <4>1. PICK i \in 1..Len(w) : w[i] = x
        BY <2>5, <3>2
      <4>2. i + 1 \in 1..(Len(w) + 1) /\ r[i + 1] = x
        BY <2>2, <2>3, <4>1 DEF r
      <4> QED
        BY <2>4, <4>2
    <3> QED
      BY <3>1, <3>2
  <2>8. ToSet(r) = l.nodes \cup {k}
    BY <1>2, <2>6, <2>7
  <2>9. IsFiniteSet(l.nodes \cup {k})
    BY <1>1, FS_AddElement
  <2> QED
    BY <2>1, <2>8, <2>9 DEF Spelled, r
<1>3. CASE k \notin l.nodes
  <2> DEFINE m == WithNodes(l, l.nodes \cup {k})
  <2>1. l.nodes \cup {k} \in SUBSET Keys
    BY <1>1
  <2>2. Threads(m, q)
    BY <1>1, <2>1, NodesApart
  <2>3. m.nodes = l.nodes \cup {k}
    BY <1>1 DEF Lists, WithNodes
  <2>4. touched(l, k) = pushFront(m, k)
    BY <1>3 DEF touched, WithNodes
  <2>5. \A i \in 1..n : q[i] # k
    BY <1>1, <1>3
  <2>6. Abstract!Touched(q, k) = <<k>> \o q
    BY <1>1, <2>5, WithoutCases DEF Abstract!Touched
  <2>7. ToSet(q) \cup {k} = l.nodes \cup {k}
    BY DEF Spelled
  <2> HIDE DEF m
  <2>8. Spelled(pushFront(m, k), <<k>> \o q)
    BY <1>2, <2>2, <2>3, <2>5, <2>7
  <2> QED
    BY <2>4, <2>6, <2>8
<1>4. CASE k \in l.nodes
  <2>1. PICK p \in 1..n : q[p] = k
    BY <1>1, <1>4
  <2> DEFINE w == RemoveAt(q, p)
  <2>2. /\ w \in Seq(Keys) /\ Len(w) = n - 1
        /\ \A i \in 1..(n - 1) : w[i] = IF i < p THEN q[i] ELSE q[i + 1]
    BY <1>1, <2>1, RemoveAtProperties
  <2>3. Abstract!Touched(q, k) = <<k>> \o w
    BY <1>1, <2>1, WithoutCases DEF Abstract!Touched
  <2> HIDE DEF w
  <2>4. CASE k = l.head
    <3>1. q[1] = k /\ p = 1
      BY <1>1, <2>1, <2>4 DEF Threads, Distinct
    <3> DEFINE r == <<k>> \o w
    <3>2. /\ r \in Seq(Keys) /\ Len(r) = n
          /\ r[1] = k
          /\ \A i \in 2..n : r[i] = w[i - 1]
      BY <1>1, <2>1, <2>2, ConcatProperties
    <3> HIDE DEF r
    <3>3. \A i \in 1..n : r[i] = q[i]
      BY <1>1, <2>2, <3>1, <3>2
    <3>4. r = q
      BY <1>1, <3>2, <3>3, SeqEqual
    <3> QED
      BY <1>4, <2>3, <2>4, <3>4 DEF touched, r
  <2>5. CASE k # l.head
    <3> DEFINE m == unlink(l, k)
    <3>1. Threads(m, w) /\ m.nodes = l.nodes
      BY <1>1, <2>1, UnlinkThreads DEF w
    <3>2. touched(l, k) = pushFront(m, k)
      BY <1>4, <2>5 DEF touched
    <3>3. Spelled(deleted(l, k), w)
      BY <2>1, DeletedSpelled DEF w
    <3>4. ToSet(w) = l.nodes \ {k}
      BY <1>1, <1>4, <3>1, <3>3 DEF Spelled, deleted, Threads, Lists
    <3>5. \A i \in 1..Len(w) : w[i] # k
      BY <2>2, <3>4, Elements
    <3> HIDE DEF m
    <3> QED
      BY <1>2, <1>4, <2>3, <3>1, <3>2, <3>4, <3>5
  <2> QED
    BY <2>4, <2>5
<1> QED
  BY <1>3, <1>4

-----------------------------------------------------------------------------
\* A list is spelled out by one sequence only.
LEMMA OneSpelling ==
  ASSUME NEW l, NEW q, NEW r, Threads(l, q), Threads(l, r)
  PROVE  q = r
<1>1. /\ Len(q) \in Nat /\ q \in Seq(Keys) /\ \A i \in 1..Len(q) : q[i] \in Keys
      /\ Len(r) \in Nat /\ r \in Seq(Keys) /\ \A i \in 1..Len(r) : r[i] \in Keys
  BY LenProperties, ElementOfSeq DEF Threads
<1> DEFINE Apart == {i \in Nat : i \in 1..Len(q) /\ ~(i \in 1..Len(r) /\ q[i] = r[i])}
\* A first place where r does not follow q.
<1>2. \A i \in 1..Len(q) : i \in 1..Len(r) /\ q[i] = r[i]
  <2> SUFFICES ASSUME Apart # {} PROVE FALSE
    BY <1>1
  <2>1. PICK i \in Apart : \A j \in Apart : i <= j
    <3>1. Apart \subseteq Nat
      OBVIOUS
    <3> HIDE DEF Apart
    <3> QED
      BY <3>1, LeastNatural
  <2>2. CASE i = 1
    <3>1. q[1] = l.head /\ l.head # Undefined
      BY <1>1, <2>1, <2>2, UndefinedAssumption DEF Threads
    <3>2. Len(r) # 0 /\ r[1] = l.head
      BY <3>1 DEF Threads
    <3> QED
      BY <1>1, <2>1, <2>2, <3>1, <3>2
  <2>3. CASE i # 1
    <3>1. i - 1 \in 1..Len(q) /\ i - 1 # Len(q) /\ i - 1 \in Nat /\ (i - 1) + 1 = i
      BY <1>1, <2>1, <2>3
    <3>2. i - 1 \notin Apart
      BY <2>1, <3>1
    <3>3. i - 1 \in 1..Len(r) /\ q[i - 1] = r[i - 1]
      BY <3>1, <3>2
    <3>4. l.next[q[i - 1]] = q[i] /\ q[i] # Undefined
      <4>1. l.next[q[i - 1]] = IF i - 1 = Len(q) THEN Undefined ELSE q[(i - 1) + 1]
        BY <3>1 DEF Threads
      <4>2. q[i] # Undefined
        BY <1>1, <2>1, UndefinedAssumption
      <4> QED
        BY <3>1, <4>1, <4>2
    <3>5. l.next[r[i - 1]] = IF i - 1 = Len(r) THEN Undefined ELSE r[i]
      <4>1. \A j \in 1..Len(r) : l.next[r[j]] = IF j = Len(r) THEN Undefined ELSE r[j + 1]
        BY DEF Threads
      <4> QED
        BY <3>1, <3>3, <4>1
    <3>6. i - 1 # Len(r) /\ r[i] = q[i]
      BY <3>3, <3>4, <3>5
    <3> QED
      BY <1>1, <2>1, <3>3, <3>6
  <2> QED
    BY <2>2, <2>3
<1>3. Len(q) = Len(r)
  <2>1. CASE Len(q) = 0
    <3>1. l.head = Undefined
      BY <2>1 DEF Threads
    <3> QED
      BY <1>1, <2>1, <3>1, UndefinedAssumption DEF Threads
  <2>2. CASE Len(q) # 0
    <3> DEFINE n == Len(q)
    <3>1. n \in 1..n /\ n \in 1..Len(r) /\ q[n] = r[n]
      BY <1>1, <1>2, <2>2
    <3>2. l.next[q[n]] = Undefined
      BY <3>1 DEF Threads
    <3>3. l.next[r[n]] = IF n = Len(r) THEN Undefined ELSE r[n + 1]
      BY <3>1 DEF Threads
    <3>4. n # Len(r) => n + 1 \in 1..Len(r) /\ r[n + 1] # Undefined
      BY <1>1, <3>1, UndefinedAssumption
    <3> QED
      BY <3>1, <3>2, <3>3, <3>4
  <2> QED
    BY <2>1, <2>2
<1> QED
  BY <1>1, <1>2, <1>3, SeqEqual

\* A spelled list is well linked, and its order is what it spells.
LEMMA OrderIs ==
  ASSUME NEW l, NEW q, Spelled(l, q)
  PROVE  /\ q \in Sequences(l) /\ Spells(l, q) /\ Order(l) = q
         /\ \A k \in Keys \ l.nodes : l.prev[k] = Undefined /\ l.next[k] = Undefined
<1> DEFINE n == Len(q)
<1>1. /\ n \in Nat /\ q \in Seq(Keys) /\ Distinct(q) /\ DOMAIN q = 1..n
      /\ ToSet(q) = l.nodes /\ Threads(l, q)
      /\ \A x : x \in l.nodes <=> \E i \in 1..n : q[i] = x
  BY LenProperties, Elements DEF Spelled, Threads
<1>2. q \in [1..n -> l.nodes]
  <2>1. q = [i \in 1..n |-> q[i]]
    BY <1>1, SeqDef
  <2> QED
    BY <1>1, <2>1
<1>3. Cardinality(l.nodes) = n
  <2>1. q \in Bijection(1..n, l.nodes)
    BY <1>1, <1>2, Fun_IsBij DEF Distinct, Injection, Surjection, Bijection
  <2>2. ExistsBijection(1..n, l.nodes)
    BY <2>1 DEF ExistsBijection
  <2> QED
    BY <1>1, <2>2, FS_CountingElements
<1>4. q \in Sequences(l)
  BY <1>2, <1>3 DEF Sequences
<1>5. Spells(l, q)
  <2>1. q = <<>> <=> n = 0
    BY <1>1, EmptySeq
  <2> QED
    BY <1>1, <2>1 DEF Spells, Threads, Distinct
<1>6. ASSUME NEW r \in Sequences(l), Spells(l, r)
      PROVE  r = q
  <2>1. r \in [1..n -> l.nodes] /\ l.nodes \subseteq Keys
    BY <1>1, <1>3, <1>6 DEF Sequences, Threads, Lists
  <2>2. r \in Seq(Keys) /\ Len(r) = n /\ DOMAIN r = 1..n
    BY <1>1, <2>1, SeqDef, LenProperties
  <2>3. r = <<>> <=> n = 0
    BY <1>1, <2>2, EmptySeq
  <2>4. \A x \in Keys : (\A i \in 1..n : r[i] # x) => x \notin l.nodes
    BY <1>6, <2>2, Elements DEF Spells
  <2>5. Threads(l, r)
    BY <1>1, <1>6, <2>2, <2>3, <2>4 DEF Spells, Threads, Distinct
  <2> QED
    BY <1>1, <2>5, OneSpelling
<1>7. Order(l) = q
  BY <1>4, <1>5, <1>6 DEF Order
<1> QED
  BY <1>1, <1>4, <1>5, <1>7 DEF Threads

-----------------------------------------------------------------------------
(***************************************************************************)
(* The inductive invariant.  q being the recency order, what the walk has  *)
(* listed is the beginning of q, and the node it stands at follows; once   *)
(* it is to resume, that node is the last one listed, or has been removed. *)
(***************************************************************************)
InStep(q) ==
  /\ phase \in {"check", "type", "ttl"} =>
       /\ Len(snapshot) < Len(q) /\ q[Len(snapshot) + 1] = current
       /\ \A i \in 1..Len(snapshot) : snapshot[i] = q[i]
  /\ phase = "resume" /\ current \in list.nodes =>
       /\ Len(snapshot) \in 1..Len(q) /\ q[Len(snapshot)] = current
       /\ \A i \in 1..Len(snapshot) : snapshot[i] = q[i]
  /\ phase = "resume" => current \in Keys

IInv == SnapshotTypeOK /\ \E q \in Seq(Keys) : Spelled(list, q) /\ InStep(q)

LEMMA InitIInv == SInit => IInv
<1> SUFFICES ASSUME SInit PROVE IInv
  OBVIOUS
<1>1. SnapshotTypeOK
  <2>1. TypeOK
    BY DEF SInit, Init, TypeOK, EmptyList, Lists, NodeOrNone
  <2> QED
    BY <2>1, EmptySeq DEF SInit, Init, EmptyList, SnapshotTypeOK, NodeOrNone
<1>2. Spelled(list, <<>>)
  <2>1. <<>> \in Seq(Keys) /\ Len(<<>>) = 0
    BY EmptySeq
  <2>2. ToSet(<<>>) = {}
    BY <2>1, LenProperties DEF ToSet
  <2>3. list = EmptyList /\ list \in Lists
    BY <1>1 DEF SInit, Init, SnapshotTypeOK, TypeOK
  <2>4. Threads(list, <<>>)
    BY <2>1, <2>3 DEF Threads, Distinct, EmptyList
  <2> QED
    BY <2>2, <2>3, <2>4, FS_EmptySet DEF Spelled, EmptyList
<1>3. InStep(<<>>)
  BY DEF SInit, InStep
<1> QED
  BY <1>1, <1>2, <1>3, EmptySeq DEF IInv

\* While no walk is on, the commands may do to the list what they will.
LEMMA IdleStep ==
  ASSUME IInv, phase = "idle", UNCHANGED <<now, phase, current, snapshot>>,
         NEW q \in Seq(Keys), Spelled(list', q),
         DOMAIN deadline' \subseteq list'.nodes, deadline' \in [DOMAIN deadline' -> Nat]
  PROVE  IInv'
<1>1. TypeOK'
  BY DEF Spelled, Threads, TypeOK
<1>2. SnapshotTypeOK'
  BY <1>1 DEF IInv, SnapshotTypeOK
<1>3. InStep(q)'
  BY DEF InStep
<1> QED
  BY <1>2, <1>3 DEF IInv

\* What each operation does to the sequence that the list spells; the recency
\* order takes the abstract step.
LEMMA TouchStep ==
  ASSUME NEW q \in Seq(Keys), Spelled(list, q), NEW k \in Keys, Touch(k)
  PROVE  /\ Spelled(list', Abstract!Touched(q, k))
         /\ Abstract!Touched(q, k) \in Seq(Keys)
         /\ Abstract!Touch(k)
         /\ list'.nodes = list.nodes \cup {k}
<1>1. Spelled(list', Abstract!Touched(q, k))
  BY TouchKeeps DEF Touch
<1>2. Abstract!Touched(q, k) \in Seq(Keys)
  BY <1>1 DEF Spelled, Threads
<1>3. Order(list) = q /\ Order(list') = Abstract!Touched(q, k)
  BY <1>1, OrderIs
<1>4. list'.nodes = list.nodes \cup {k}
  BY DEF Touch, touched, pushFront, unlink, Spelled, Threads, Lists
<1> QED
  BY <1>1, <1>2, <1>3, <1>4 DEF Abstract!Touch

LEMMA DeleteStep ==
  ASSUME NEW q \in Seq(Keys), Spelled(list, q), NEW k \in Keys, Delete(k)
  PROVE  /\ Spelled(list', Abstract!Forgotten(q, k))
         /\ Abstract!Forgotten(q, k) \in Seq(Keys)
         /\ Abstract!Forget(k)
         /\ list'.nodes = list.nodes \ {k}
<1>1. Spelled(list', Abstract!Forgotten(q, k))
  BY DeleteKeeps DEF Delete
<1>2. Abstract!Forgotten(q, k) \in Seq(Keys)
  BY <1>1 DEF Spelled, Threads
<1>3. Order(list) = q /\ Order(list') = Abstract!Forgotten(q, k)
  BY <1>1, OrderIs
<1>4. list'.nodes = list.nodes \ {k}
  BY DEF Delete, deleted, unlink, Spelled, Threads, Lists
<1> QED
  BY <1>1, <1>2, <1>3, <1>4 DEF Abstract!Forget

LEMMA EvictStep ==
  ASSUME NEW q \in Seq(Keys), Spelled(list, q), list.tail # Undefined, EvictLRU
  PROVE  /\ Spelled(list', Abstract!Evicted(q))
         /\ Abstract!Evicted(q) \in Seq(Keys)
         /\ Abstract!Evict
         /\ list'.nodes = list.nodes \ {list.tail}
<1>1. Spelled(list', Abstract!Evicted(q))
  BY EvictKeeps DEF EvictLRU
<1>2. Abstract!Evicted(q) \in Seq(Keys)
  BY <1>1 DEF Spelled, Threads
<1>3. Order(list) = q /\ Order(list') = Abstract!Evicted(q)
  BY <1>1, OrderIs
<1>4. list'.nodes = list.nodes \ {list.tail}
  BY DEF EvictLRU, evicted, deleted, unlink, Spelled, Threads, Lists
<1> QED
  BY <1>1, <1>2, <1>3, <1>4 DEF Abstract!Evict

-----------------------------------------------------------------------------
\* Every step preserves the invariant and is a step of the abstract order, or
\* leaves that order alone.
Abstracted == [Abstract!Next]_(Order(list))

LEMMA UseStep ==
  ASSUME IInv, NEW k \in Keys, Use(k)
  PROVE  IInv' /\ Abstracted
<1>1. PICK q \in Seq(Keys) : Spelled(list, q)
  BY DEF IInv
<1>2. /\ Spelled(list', Abstract!Touched(q, k)) /\ Abstract!Touched(q, k) \in Seq(Keys)
      /\ Abstract!Touch(k) /\ list'.nodes = list.nodes \cup {k}
  BY <1>1, TouchStep DEF Use
<1>3. /\ DOMAIN deadline \subseteq list.nodes /\ deadline \in [DOMAIN deadline -> Nat]
      /\ now \in Nat /\ MaxTime \in Nat
  BY SnapshotAssumption DEF IInv, SnapshotTypeOK
<1>4. DOMAIN deadline' \subseteq list'.nodes /\ deadline' \in [DOMAIN deadline' -> Nat]
  <2>1. CASE UNCHANGED deadline
    BY <1>2, <1>3, <2>1
  <2>2. ASSUME NEW d \in (now + 1)..(MaxTime + 1),
               deadline' = [x \in DOMAIN deadline \cup {k} |-> IF x = k THEN d ELSE deadline[x]]
        PROVE  DOMAIN deadline' \subseteq list'.nodes /\ deadline' \in [DOMAIN deadline' -> Nat]
    <3>1. d \in Nat
      BY <1>3
    <3> QED
      BY <1>2, <1>3, <2>2, <3>1
  <2> QED
    BY <2>1, <2>2 DEF Use
<1>5. phase = "idle" /\ UNCHANGED <<now, phase, current, snapshot>>
  BY DEF Use
<1>6. IInv'
  BY <1>2, <1>4, <1>5, IdleStep
<1> QED
  BY <1>2, <1>6 DEF Abstracted, Abstract!Next

LEMMA RemoveKeyStep ==
  ASSUME IInv, NEW k \in Keys, RemoveKey(k)
  PROVE  IInv' /\ Abstracted
<1>1. PICK q \in Seq(Keys) : Spelled(list, q)
  BY DEF IInv
<1>2. /\ Spelled(list', Abstract!Forgotten(q, k)) /\ Abstract!Forgotten(q, k) \in Seq(Keys)
      /\ Abstract!Forget(k) /\ list'.nodes = list.nodes \ {k}
  BY <1>1, DeleteStep DEF RemoveKey, removed
<1>3. DOMAIN deadline' \subseteq list'.nodes /\ deadline' \in [DOMAIN deadline' -> Nat]
  BY <1>2 DEF RemoveKey, removed, IInv, SnapshotTypeOK
<1>4. phase = "idle" /\ UNCHANGED <<now, phase, current, snapshot>>
  BY DEF RemoveKey
<1>5. IInv'
  BY <1>2, <1>3, <1>4, IdleStep
<1> QED
  BY <1>2, <1>5 DEF Abstracted, Abstract!Next

LEMMA EvictKeyStep ==
  ASSUME IInv, Evict
  PROVE  IInv' /\ Abstracted
<1>1. PICK q \in Seq(Keys) : Spelled(list, q)
  BY DEF IInv
<1>2. /\ Spelled(list', Abstract!Evicted(q)) /\ Abstract!Evicted(q) \in Seq(Keys)
      /\ Abstract!Evict /\ list'.nodes = list.nodes \ {list.tail}
  BY <1>1, EvictStep DEF Evict
<1>3. DOMAIN deadline' \subseteq list'.nodes /\ deadline' \in [DOMAIN deadline' -> Nat]
  BY <1>2 DEF Evict, IInv, SnapshotTypeOK
<1>4. phase = "idle" /\ UNCHANGED <<now, phase, current, snapshot>>
  BY DEF Evict
<1>5. IInv'
  BY <1>2, <1>3, <1>4, IdleStep
<1> QED
  BY <1>2, <1>5 DEF Abstracted, Abstract!Next

LEMMA TickStep ==
  ASSUME IInv, Tick
  PROVE  IInv' /\ Abstracted
<1>1. PICK q \in Seq(Keys) : Spelled(list, q) /\ InStep(q)
  BY DEF IInv
<1>2. SnapshotTypeOK'
  BY DEF Tick, IInv, SnapshotTypeOK, TypeOK
<1>3. Spelled(list, q)' /\ InStep(q)'
  BY <1>1 DEF Tick, InStep
<1> QED
  BY <1>2, <1>3 DEF IInv, Tick, Abstracted

LEMMA BeginStep ==
  ASSUME IInv, Begin
  PROVE  IInv' /\ Abstracted
<1>1. PICK q \in Seq(Keys) : Spelled(list, q)
  BY DEF IInv
<1>2. /\ current' = list.head /\ snapshot' = <<>>
      /\ phase' = IF list.head = Undefined THEN "idle" ELSE "check"
      /\ UNCHANGED <<list, deadline, now>>
  BY DEF Begin
<1>3. Len(snapshot') = 0 /\ snapshot' \in Seq(Keys)
  BY <1>2, EmptySeq
<1>4. InStep(q)'
  <2>1. /\ Len(q) \in Nat
        /\ list.head = IF Len(q) = 0 THEN Undefined ELSE q[1]
    BY <1>1, LenProperties DEF Spelled, Threads
  <2> QED
    BY <1>2, <1>3, <2>1 DEF InStep
<1>5. SnapshotTypeOK'
  BY <1>2, <1>3 DEF IInv, SnapshotTypeOK, TypeOK, Lists
<1> QED
  BY <1>1, <1>2, <1>4, <1>5 DEF IInv, Abstracted

\* One expireIfNeeded of the walk: the node is taken out, or its place in the
\* order is still what the snapshot says.
LEMMA ExpireOrStep ==
  ASSUME IInv, NEW stage \in {"check", "type", "ttl"}, NEW next \in {"type", "ttl", "resume"},
         ExpireOr(stage, "resume", next), snapshot' \in Seq(Keys),
         NEW q \in Seq(Keys), Spelled(list, q), InStep(q),
         ~Due(current) => InStep(q)'
  PROVE  IInv' /\ Abstracted
<1>1. /\ phase = stage /\ UNCHANGED <<now, current>>
      /\ IF Due(current) THEN removed(current) /\ phase' = "resume"
         ELSE UNCHANGED <<list, deadline>> /\ phase' = next
  BY DEF ExpireOr
<1>2. CASE Due(current)
  <2>1. current \in Keys
    BY <1>2 DEF Due, IInv, SnapshotTypeOK, TypeOK, Lists
  <2>2. /\ Spelled(list', Abstract!Forgotten(q, current))
        /\ Abstract!Forgotten(q, current) \in Seq(Keys)
        /\ Abstract!Forget(current) /\ list'.nodes = list.nodes \ {current}
    BY <1>1, <1>2, <2>1, DeleteStep DEF removed
  <2>3. DOMAIN deadline' \subseteq list'.nodes /\ deadline' \in [DOMAIN deadline' -> Nat]
    BY <1>1, <1>2, <2>2 DEF removed, IInv, SnapshotTypeOK
  <2>4. TypeOK'
    BY <2>2 DEF Spelled, Threads, TypeOK
  <2>5. SnapshotTypeOK'
    BY <1>1, <1>2, <2>3, <2>4 DEF IInv, SnapshotTypeOK
  <2>6. PICK s \in Seq(Keys) : Spelled(list', s)
    BY <2>2
  <2>7. InStep(s)'
    BY <1>1, <1>2, <2>1, <2>2 DEF InStep
  <2>8. IInv'
    BY <2>5, <2>6, <2>7 DEF IInv
  <2>9. Abstract!Next
    BY <2>1, <2>2 DEF Abstract!Next
  <2> QED
    BY <2>8, <2>9 DEF Abstracted
<1>3. CASE ~Due(current)
  <2>1. SnapshotTypeOK'
    BY <1>1, <1>3 DEF IInv, SnapshotTypeOK, TypeOK
  <2>2. Spelled(list', q) /\ InStep(q)'
    BY <1>1, <1>3
  <2> QED
    BY <1>1, <1>3, <2>1, <2>2 DEF IInv, Abstracted
<1> QED
  BY <1>2, <1>3

LEMMA CheckStep ==
  ASSUME IInv, Check \/ AskType
  PROVE  IInv' /\ Abstracted
<1>1. PICK q \in Seq(Keys) : Spelled(list, q) /\ InStep(q)
  BY DEF IInv
<1>2. UNCHANGED <<snapshot, current>> /\ snapshot' \in Seq(Keys)
  BY DEF Check, AskType, ExpireOr, IInv, SnapshotTypeOK
<1>3. CASE Check
  <2>1. ~Due(current) => InStep(q)'
    BY <1>1, <1>2, <1>3 DEF Check, ExpireOr, InStep
  <2> QED
    BY <1>1, <1>2, <1>3, <2>1, ExpireOrStep DEF Check
<1>4. CASE AskType
  <2>1. ~Due(current) => InStep(q)'
    BY <1>1, <1>2, <1>4 DEF AskType, ExpireOr, InStep
  <2> QED
    BY <1>1, <1>2, <1>4, <2>1, ExpireOrStep DEF AskType
<1> QED
  BY <1>3, <1>4

LEMMA AskTtlStep ==
  ASSUME IInv, AskTtl
  PROVE  IInv' /\ Abstracted
<1>1. PICK q \in Seq(Keys) : Spelled(list, q) /\ InStep(q)
  BY DEF IInv
<1> DEFINE m == Len(snapshot)
<1>2. /\ phase = "ttl" /\ snapshot \in Seq(Keys) /\ m \in Nat /\ Len(q) \in Nat
      /\ m < Len(q) /\ q[m + 1] = current
      /\ \A i \in 1..m : snapshot[i] = q[i]
  BY <1>1, LenProperties DEF AskTtl, ExpireOr, InStep, IInv, SnapshotTypeOK
<1>3. current \in Keys
  BY <1>2, ElementOfSeq
<1>4. /\ snapshot' = Append(snapshot, current) /\ current' = current
      /\ snapshot' \in Seq(Keys) /\ Len(snapshot') = m + 1
      /\ \A i \in 1..m : snapshot'[i] = snapshot[i]
      /\ snapshot'[m + 1] = current
  BY <1>2, <1>3, AppendProperties DEF AskTtl, ExpireOr
<1>5. ~Due(current) => InStep(q)'
  <2> SUFFICES ASSUME ~Due(current) PROVE InStep(q)'
    OBVIOUS
  <2>1. phase' = "resume"
    BY DEF AskTtl, ExpireOr
  <2>2. m + 1 \in 1..Len(q) /\ q[m + 1] = current'
    BY <1>2, <1>4
  <2>3. \A i \in 1..(m + 1) : snapshot'[i] = q[i]
    BY <1>2, <1>4
  <2> QED
    BY <1>3, <1>4, <2>1, <2>2, <2>3 DEF InStep
<1> QED
  BY <1>1, <1>4, <1>5, ExpireOrStep DEF AskTtl

LEMMA ResumeStep ==
  ASSUME IInv, Resume
  PROVE  IInv' /\ Abstracted
<1>1. PICK q \in Seq(Keys) : Spelled(list, q) /\ InStep(q)
  BY DEF IInv
<1>2. /\ phase = "resume" /\ current \in Keys
      /\ current' = list.next[current]
      /\ phase' = IF list.next[current] = Undefined THEN "idle" ELSE "check"
      /\ UNCHANGED <<list, deadline, now, snapshot>>
  BY <1>1 DEF Resume, InStep
<1>3. InStep(q)'
  <2>1. CASE current \in list.nodes
    <3>1. /\ Len(snapshot) \in 1..Len(q) /\ q[Len(snapshot)] = current
          /\ \A i \in 1..Len(snapshot) : snapshot[i] = q[i]
          /\ Len(q) \in Nat
      BY <1>1, <1>2, <2>1, LenProperties DEF InStep
    <3>2. list.next[current] =
            IF Len(snapshot) = Len(q) THEN Undefined ELSE q[Len(snapshot) + 1]
      BY <1>1, <3>1 DEF Spelled, Threads
    <3> QED
      BY <1>2, <3>1, <3>2 DEF InStep
  <2>2. CASE current \notin list.nodes
    <3>1. list.next[current] = Undefined
      BY <1>1, <1>2, <2>2, OrderIs
    <3> QED
      BY <1>2, <3>1 DEF InStep
  <2> QED
    BY <2>1, <2>2
<1>4. SnapshotTypeOK'
  BY <1>2 DEF IInv, SnapshotTypeOK, TypeOK, Lists
<1> QED
  BY <1>1, <1>2, <1>3, <1>4 DEF IInv, Abstracted

LEMMA NextStep == IInv /\ [SNext]_svars => IInv' /\ Abstracted
<1> SUFFICES ASSUME IInv, [SNext]_svars PROVE IInv' /\ Abstracted
  OBVIOUS
<1>1. CASE UNCHANGED svars
  <2>1. PICK q \in Seq(Keys) : Spelled(list, q) /\ InStep(q)
    BY DEF IInv
  <2>2. SnapshotTypeOK'
    BY <1>1 DEF svars, IInv, SnapshotTypeOK, TypeOK
  <2>3. Spelled(list, q)' /\ InStep(q)'
    BY <1>1, <2>1 DEF svars, InStep
  <2> QED
    BY <1>1, <2>2, <2>3 DEF IInv, svars, Abstracted
<1>2. CASE Walk
  BY <1>2, BeginStep, CheckStep, AskTtlStep, ResumeStep DEF Walk
<1>3. CASE Tick \/ Evict
  BY <1>3, TickStep, EvictKeyStep
<1>4. ASSUME NEW k \in Keys, Use(k) \/ RemoveKey(k)
      PROVE  IInv' /\ Abstracted
  BY <1>4, UseStep, RemoveKeyStep
<1> QED
  BY <1>1, <1>2, <1>3, <1>4 DEF SNext

THEOREM SnapshotInvariant == SSpec => []IInv
<1>1. IInv /\ [SNext]_svars => IInv'
  BY NextStep
<1> QED
  BY <1>1, InitIInv, PTL DEF SSpec

\* Whatever is used, removed, evicted or expired in the middle of a walk, the
\* pointers of the tracker form one list through all of its nodes, and every
\* deadline is that of a node.
THEOREM WellKeptHolds == SSpec => []WellKept
<1>1. IInv => WellKept
  <2> SUFFICES ASSUME IInv PROVE WellKept
    OBVIOUS
  <2>1. PICK q \in Seq(Keys) : Spelled(list, q)
    BY DEF IInv
  <2> QED
    BY <2>1, OrderIs DEF IInv, WellKept, WellLinked
<1> QED
  BY <1>1, SnapshotInvariant, PTL

\* While the walk of the statistics page is on, its snapshot is the beginning of
\* the recency order, up to the node at which it stands.
THEOREM ListedInOrderHolds == SSpec => []ListedInOrder
<1>1. IInv => ListedInOrder
  <2> SUFFICES ASSUME IInv, phase \in {"check", "type", "ttl"}
               PROVE  \E q \in Sequences(list) :
                        /\ Spells(list, q)
                        /\ Len(snapshot) < Len(q) /\ q[Len(snapshot) + 1] = current
                        /\ SubSeq(q, 1, Len(snapshot)) = snapshot
    BY DEF ListedInOrder
  <2>1. PICK q \in Seq(Keys) : Spelled(list, q) /\ InStep(q)
    BY DEF IInv
  <2> DEFINE m == Len(snapshot)
             f == SubSeq(q, 1, m)
  <2>2. /\ m < Len(q) /\ q[m + 1] = current
        /\ \A i \in 1..m : snapshot[i] = q[i]
        /\ m \in Nat /\ Len(q) \in Nat /\ snapshot \in Seq(Keys)
        /\ \A i \in 1..Len(q) : q[i] \in Keys
    BY <2>1, LenProperties, ElementOfSeq DEF InStep, IInv, SnapshotTypeOK
  <2>3. f = snapshot
    <3> HIDE DEF m
    <3>1. \A i \in 1..m : q[i] \in Keys
      BY <2>2
    <3>2. /\ f \in Seq(Keys) /\ Len(f) = IF 1 <= m THEN m - 1 + 1 ELSE 0
          /\ \A i \in 1..(m - 1 + 1) : f[i] = q[1 + i - 1]
      BY <2>2, <3>1, SubSeqProperties
    <3>3. \A i \in 1..m : 1 + i - 1 = i
      BY <2>2
    <3>4. Len(f) = m /\ \A i \in 1..m : f[i] = q[i]
      BY <2>2, <3>2, <3>3
    <3> HIDE DEF f
    <3> QED
      BY <2>2, <3>2, <3>4, SeqEqual DEF m
  <2>4. q \in Sequences(list) /\ Spells(list, q)
    BY <2>1, OrderIs
  <2> QED
    BY <2>2, <2>3, <2>4
<1> QED
  BY <1>1, SnapshotInvariant, PTL

\* The linked list of LRUTracker implements the abstract recency order: every step
\* of the pointers is a step of the sequence they spell out.
THEOREM ImplementsRecencyHolds == SSpec => ImplementsRecency
<1>1. SInit => Abstract!Init
  <2> SUFFICES ASSUME SInit PROVE Order(list) = <<>>
    BY DEF Abstract!Init
  <2>1. IInv
    BY InitIInv
  <2>2. PICK q \in Seq(Keys) : Spelled(list, q)
    BY <2>1 DEF IInv
  <2>3. list.nodes = {}
    BY DEF SInit, Init, EmptyList
  <2>4. Len(q) = 0
    <3>1. \A i \in 1..Len(q) : q[i] \in list.nodes
      BY <2>2, Elements DEF Spelled
    <3> QED
      BY <2>3, <3>1, LenProperties
  <2> QED
    BY <2>2, <2>4, OrderIs, EmptySeq
<1>2. IInv /\ [SNext]_svars => [Abstract!Next]_(Order(list))
  BY NextStep DEF Abstracted
<1> QED
  BY <1>1, <1>2, SnapshotInvariant, PTL DEF SSpec, ImplementsRecency, Abstract!Spec

\* A walk that ends at a node which is still in the list has listed every key.
THEOREM UndisturbedWalkHolds == SSpec => UndisturbedWalkIsComplete
<1>1. IInv /\ [SNext]_svars =>
        [EndsWalk /\ current \in list.nodes => ToSet(snapshot') = list'.nodes]_svars
  <2> SUFFICES ASSUME IInv, SNext, EndsWalk, current \in list.nodes
               PROVE  ToSet(snapshot') = list'.nodes
    OBVIOUS
  <2>1. Resume
    <3>1. phase # "idle" /\ phase' = "idle"
      BY DEF EndsWalk
    <3>2. ~Tick /\ ~Evict /\ \A k \in Keys : ~Use(k) /\ ~RemoveKey(k)
      BY <3>1 DEF Tick, Evict, Use, RemoveKey
    <3>3. ~Begin /\ ~Check /\ ~AskType /\ ~AskTtl
      BY <3>1 DEF Begin, Check, AskType, AskTtl, ExpireOr
    <3> QED
      BY <3>2, <3>3 DEF SNext, Walk
  <2>2. PICK q \in Seq(Keys) : Spelled(list, q) /\ InStep(q)
    BY DEF IInv
  <2>3. /\ phase = "resume" /\ list.next[current] = Undefined
        /\ UNCHANGED <<list, snapshot>>
    BY <2>1 DEF Resume, EndsWalk
  <2> DEFINE m == Len(snapshot)
  <2>4. /\ m \in 1..Len(q) /\ q[m] = current
        /\ \A i \in 1..m : snapshot[i] = q[i]
        /\ Len(q) \in Nat /\ snapshot \in Seq(Keys)
        /\ \A i \in 1..Len(q) : q[i] \in Keys
    BY <2>2, <2>3, LenProperties, ElementOfSeq DEF InStep, IInv, SnapshotTypeOK
  <2>5. m = Len(q)
    <3>1. list.next[q[m]] = IF m = Len(q) THEN Undefined ELSE q[m + 1]
      BY <2>2, <2>4 DEF Spelled, Threads
    <3>2. m # Len(q) => q[m + 1] # Undefined
      BY <2>4, UndefinedAssumption
    <3> QED
      BY <2>3, <2>4, <3>1, <3>2
  <2>6. snapshot = q
    BY <2>4, <2>5, SeqEqual
  <2> QED
    BY <2>2, <2>3, <2>6 DEF Spelled
<1> QED
  BY <1>1, SnapshotInvariant, PTL DEF SSpec, UndisturbedWalkIsComplete

===============================================================================
