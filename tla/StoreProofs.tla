----------------------------- MODULE StoreProofs -----------------------------
(***************************************************************************)
(* For every set of keys, values and fields, every capacity and every      *)
(* bound: no sequence of commands, sweeps and expiries breaks the store's  *)
(* invariant, the store keeps its contract, LRANGE reads what it is asked  *)
(* for, and a snapshot and a rewritten log reproduce the contents; and     *)
(* with commands, saves, rewrites and restarts in every order, the log     *)
(* makes the data again.                                                   *)
(*                                                                         *)
(* The inductive invariant of the store is the soundness of its contents   *)
(* (Sound), whose four parts need each other: a full store can only be     *)
(* relieved because the recency list holds exactly the present keys, and a *)
(* pop can only succeed because no stored list is empty.  That of the log  *)
(* (RInv) says that the store and a replay agree (Agree), whatever the     *)
(* time of the replay.                                                     *)
(***************************************************************************)
EXTENDS MCInMemoryStore, Recovery, FiniteSetTheorems, SequenceTheorems,
        NaturalsInduction, WellFoundedInduction, TLAPS

(***************************************************************************)
(* Lemmas about the operators of StoreOps: each method takes sound         *)
(* contents to sound contents.                                             *)
(***************************************************************************)
Sound(s) == WellTyped(s) /\ InLockstep(s) /\ Fits(s) /\ Filled(s)

-----------------------------------------------------------------------------
(***************************************************************************)
(* Sequences without repetitions.                                          *)
(***************************************************************************)
\* Without removes exactly the given element and leaves the others in order.
LEMMA WithoutProperties ==
  ASSUME NEW S, NEW q \in Seq(S), NoRepeats(q), NEW k
  PROVE  /\ Without(q, k) \in Seq(S)
         /\ NoRepeats(Without(q, k))
         /\ ToSet(Without(q, k)) = ToSet(q) \ {k}
         /\ KeepsOrder(Without(q, k), q)
<1>1. CASE ~ \E i \in DOMAIN q : q[i] = k
  BY <1>1 DEF Without, ToSet, KeepsOrder
<1>2. CASE \E i \in DOMAIN q : q[i] = k
  <2> DEFINE p == CHOOSE i \in DOMAIN q : q[i] = k
             n == Len(q)
             w == Without(q, k)
             left == SubSeq(q, 1, p - 1)
             right == SubSeq(q, p + 1, n)
  <2>1. p \in 1..n /\ q[p] = k /\ n \in Nat /\ DOMAIN q = 1..n
    BY <1>2, LenProperties
  <2>2. w = left \o right
    BY <1>2 DEF Without, RemoveAt
  <2> HIDE DEF p, w
  <2>3. /\ left \in Seq(S) /\ Len(left) = p - 1
        /\ \A i \in 1..(p - 1) : left[i] = q[i]
    <3>1. \A i \in 1..(p - 1) : q[i] \in S
      BY <2>1, ElementOfSeq
    <3> QED BY <2>1, <3>1, SubSeqProperties DEF left
  <2>4. /\ right \in Seq(S) /\ Len(right) = n - p
        /\ \A i \in 1..(n - p) : right[i] = q[i + p]
    <3>1. \A i \in (p + 1)..n : q[i] \in S
      BY <2>1, ElementOfSeq
    <3> HIDE DEF n
    <3>2. p + 1 \in Int /\ n \in Int /\ n - (p + 1) + 1 = n - p
      BY <2>1
    <3>3. /\ right \in Seq(S)
          /\ Len(right) = IF p + 1 <= n THEN n - (p + 1) + 1 ELSE 0
          /\ \A i \in 1..(n - (p + 1) + 1) : right[i] = q[(p + 1) + i - 1]
      BY <3>1, <3>2, SubSeqProperties
    <3>4. \A i \in 1..(n - p) : (p + 1) + i - 1 = i + p
      BY <2>1
    <3> QED BY <2>1, <3>2, <3>3, <3>4
  <2> HIDE DEF left, right, n
  <2>5. /\ w \in Seq(S) /\ Len(w) = n - 1
        /\ \A i \in 1..(n - 1) : w[i] = IF i < p THEN q[i] ELSE q[i + 1]
    BY <2>1, <2>2, <2>3, <2>4, ConcatProperties
  <2>6. DOMAIN w = 1..(n - 1)
    BY <2>5, LenProperties
  <2> DEFINE place(i) == IF i < p THEN i ELSE i + 1
  <2>10. \A i \in 1..(n - 1) : place(i) \in 1..n /\ place(i) # p /\ w[i] = q[place(i)]
    BY <2>1, <2>5
  <2>11. /\ \A i, j \in 1..(n - 1) : place(i) = place(j) => i = j
         /\ \A i, j \in 1..(n - 1) : i < j => place(i) < place(j)
    BY <2>1
  <2>12. \A i, j \in 1..n : q[i] = q[j] => i = j
    BY <2>1 DEF NoRepeats
  <2> HIDE DEF place
  <2>7. NoRepeats(w)
    BY <2>6, <2>10, <2>11, <2>12 DEF NoRepeats
  <2>13. KeepsOrder(w, q)
    BY <2>1, <2>6, <2>10, <2>11 DEF KeepsOrder
  <2>8. ToSet(w) \subseteq ToSet(q) \ {k}
    BY <2>1, <2>6, <2>10, <2>12 DEF ToSet
  <2>9. ASSUME NEW x \in ToSet(q), x # k
        PROVE  x \in ToSet(w)
    <3>1. PICK j \in 1..n : q[j] = x
      BY <2>1, <2>9 DEF ToSet
    <3>2. CASE j < p
      BY <2>1, <2>5, <2>6, <3>1, <3>2 DEF ToSet
    <3>3. CASE j > p
      <4>1. j - 1 \in 1..(n - 1) /\ w[j - 1] = x
        <5>1. j - 1 \in 1..(n - 1) /\ ~(j - 1 < p) /\ (j - 1) + 1 = j
          BY <2>1, <3>3
        <5>2. w[j - 1] = q[(j - 1) + 1]
          BY <2>5, <5>1
        <5> QED BY <3>1, <5>1, <5>2
      <4> QED BY <2>6, <4>1 DEF ToSet
    <3> QED BY <2>1, <2>9, <3>1, <3>2, <3>3
  <2> QED BY <2>5, <2>7, <2>8, <2>9, <2>13 DEF w
<1> QED BY <1>1, <1>2

\* Putting a new element in front.
LEMMA ConsProperties ==
  ASSUME NEW S, NEW q \in Seq(S), NoRepeats(q), NEW k \in S, k \notin ToSet(q)
  PROVE  /\ <<k>> \o q \in Seq(S)
         /\ NoRepeats(<<k>> \o q)
         /\ ToSet(<<k>> \o q) = ToSet(q) \cup {k}
<1> DEFINE r == <<k>> \o q
           n == Len(q)
<1>1. <<k>> \in Seq(S) /\ Len(<<k>>) = 1 /\ <<k>>[1] = k /\ n \in Nat /\ DOMAIN q = 1..n
  BY LenProperties
<1>2. /\ r \in Seq(S) /\ Len(r) = n + 1
      /\ \A i \in 1..(n + 1) : r[i] = IF i = 1 THEN k ELSE q[i - 1]
  BY <1>1, ConcatProperties
<1> HIDE DEF r, n
<1>3. DOMAIN r = 1..(n + 1)
  BY <1>2, LenProperties
<1>4. NoRepeats(r)
  <2> SUFFICES ASSUME NEW i \in 1..(n + 1), NEW j \in 1..(n + 1), r[i] = r[j]
               PROVE  i = j
    BY <1>3 DEF NoRepeats
  <2>1. \A m \in 1..n : q[m] # k
    BY <1>1 DEF ToSet
  <2>2. \A m \in 2..(n + 1) : m \in 1..(n + 1) /\ m # 1 /\ m - 1 \in 1..n
    BY <1>1
  <2>3. \A m \in 2..(n + 1) : r[m] = q[m - 1] /\ r[m] # k
    BY <1>2, <2>1, <2>2
  <2>4. r[1] = k
    BY <1>1, <1>2
  <2>5. CASE i = 1 \/ j = 1
    BY <1>1, <2>3, <2>4, <2>5
  <2>6. CASE i \in 2..(n + 1) /\ j \in 2..(n + 1)
    <3>1. q[i - 1] = q[j - 1] /\ i - 1 \in DOMAIN q /\ j - 1 \in DOMAIN q
      BY <1>1, <2>2, <2>3, <2>6
    <3>2. i - 1 = j - 1
      BY <3>1 DEF NoRepeats
    <3> QED BY <1>1, <3>2
  <2> QED BY <1>1, <2>5, <2>6
<1>5. ASSUME NEW x \in ToSet(r) PROVE x \in ToSet(q) \cup {k}
  <2>1. PICK i \in 1..(n + 1) : r[i] = x
    BY <1>3 DEF ToSet
  <2>2. CASE i = 1
    BY <1>1, <1>2, <2>1, <2>2
  <2>3. CASE i # 1
    <3>1. i - 1 \in 1..n
      BY <1>1, <2>1, <2>3
    <3>2. q[i - 1] = x
      BY <1>2, <2>1, <2>3
    <3> QED BY <1>1, <3>1, <3>2 DEF ToSet
  <2> QED BY <2>2, <2>3
<1>6. k \in ToSet(r)
  <2>1. 1 \in 1..(n + 1) /\ r[1] = k
    BY <1>1, <1>2
  <2> QED BY <1>3, <2>1 DEF ToSet
<1>7. ASSUME NEW x \in ToSet(q) PROVE x \in ToSet(r)
  <2>1. PICK j \in 1..n : q[j] = x
    BY <1>1 DEF ToSet
  <2>2. j + 1 \in 1..(n + 1) /\ r[j + 1] = x
    BY <1>1, <1>2, <2>1
  <2> QED BY <1>3, <2>2 DEF ToSet
<1> QED BY <1>2, <1>4, <1>5, <1>6, <1>7 DEF r

\* Putting a new element at the end.
LEMMA AppendNew ==
  ASSUME NEW S, NEW q \in Seq(S), NoRepeats(q), NEW k \in S, k \notin ToSet(q)
  PROVE  /\ Append(q, k) \in Seq(S)
         /\ NoRepeats(Append(q, k))
         /\ ToSet(Append(q, k)) = ToSet(q) \cup {k}
<1> DEFINE r == Append(q, k)
           n == Len(q)
<1>1. n \in Nat /\ DOMAIN q = 1..n
  BY LenProperties
<1>2. /\ r \in Seq(S) /\ Len(r) = n + 1
      /\ \A i \in 1..n : r[i] = q[i]
      /\ r[n + 1] = k
  BY AppendProperties
<1> HIDE DEF r, n
<1>3. DOMAIN r = 1..(n + 1)
  BY <1>2, LenProperties
<1>4. \A m \in 1..n : r[m] # k
  BY <1>1, <1>2 DEF ToSet
<1>5. NoRepeats(r)
  BY <1>1, <1>2, <1>3, <1>4 DEF NoRepeats
<1>6. ToSet(r) = ToSet(q) \cup {k}
  <2>1. \A x \in ToSet(r) : x \in ToSet(q) \cup {k}
    BY <1>1, <1>2, <1>3 DEF ToSet
  <2>2. \A x \in ToSet(q) : x \in ToSet(r)
    BY <1>1, <1>2, <1>3 DEF ToSet
  <2>3. k \in ToSet(r)
    BY <1>1, <1>2, <1>3 DEF ToSet
  <2> QED BY <2>1, <2>2, <2>3
<1> QED BY <1>2, <1>5, <1>6 DEF r

-----------------------------------------------------------------------------
(***************************************************************************)
(* The private parts of the methods.                                       *)
(***************************************************************************)
\* The empty store is sound.
LEMMA EmptyStoreSound == Sound(EmptyStore)
<1>1. <<>> \in Seq(Keys) /\ DOMAIN <<>> = {} /\ ToSet(<<>>) = {}
  BY EmptySeq DEF ToSet
<1>2. NoRepeats(<<>>)
  BY <1>1 DEF NoRepeats
<1>3. IsFiniteSet({}) /\ Cardinality({}) = 0
  BY FS_EmptySet
<1>4. Present(EmptyStore) = {} /\ DOMAIN EmptyStore.expiry = {}
  BY DEF EmptyStore, Present
<1>5. WellTyped(EmptyStore)
  BY <1>1, <1>4 DEF WellTyped, EmptyStore
<1>6. InLockstep(EmptyStore)
  BY <1>1, <1>2, <1>4 DEF InLockstep, EmptyStore
<1>7. Fits(EmptyStore)
  BY <1>3, <1>4, CapacityAssumption DEF Fits
<1>8. Filled(EmptyStore)
  BY <1>4 DEF Filled
<1> QED BY <1>5, <1>6, <1>7, <1>8 DEF Sound

\* A touch, of a present key or of one about to be stored, puts the key in
\* front of the recency list and changes nothing else.
LEMMA TouchFields ==
  ASSUME NEW s, Sound(s), NEW k \in Keys
  PROVE  LET r == touch(s, k) IN
         /\ r \in [values : {s.values}, order : {s.order}, lru : Seq(Keys),
                   expiry : {s.expiry}, evictions : Nat, dirty : BOOLEAN]
         /\ NoRepeats(r.lru)
         /\ ToSet(r.lru) = Present(s) \cup {k}
<1> DEFINE r == touch(s, k)
           rest == Without(s.lru, k)
           front == <<k>> \o rest
<1>1. s.lru \in Seq(Keys) /\ NoRepeats(s.lru) /\ ToSet(s.lru) = Present(s)
  BY DEF Sound, WellTyped, InLockstep
<1>2. rest \in Seq(Keys) /\ NoRepeats(rest) /\ ToSet(rest) = Present(s) \ {k}
  BY <1>1, WithoutProperties
<1> HIDE DEF rest
<1>3. k \notin ToSet(rest)
  BY <1>2
<1>4. front \in Seq(Keys) /\ NoRepeats(front) /\ ToSet(front) = ToSet(rest) \cup {k}
  BY <1>2, <1>3, ConsProperties
<1>5. r = [s EXCEPT !.lru = front]
  BY DEF touch, rest
<1> HIDE DEF front
<1>6. r.lru = front
  BY <1>5 DEF Sound, WellTyped
<1>7. r \in [values : {s.values}, order : {s.order}, lru : Seq(Keys),
             expiry : {s.expiry}, evictions : Nat, dirty : BOOLEAN]
  BY <1>4, <1>5 DEF Sound, WellTyped
<1> QED BY <1>2, <1>4, <1>6, <1>7

\* Touching a present key keeps the contents sound.
LEMMA TouchSound ==
  ASSUME NEW s, Sound(s), NEW k \in Present(s)
  PROVE  /\ Sound(touch(s, k))
         /\ touch(s, k).values = s.values
         /\ touch(s, k).expiry = s.expiry
<1> DEFINE r == touch(s, k)
<1>1. k \in Keys
  BY DEF Sound, WellTyped
<1>2. /\ r \in [values : {s.values}, order : {s.order}, lru : Seq(Keys),
                expiry : {s.expiry}, evictions : Nat, dirty : BOOLEAN]
      /\ NoRepeats(r.lru) /\ ToSet(r.lru) = Present(s)
  <2>1. Present(s) \cup {k} = Present(s)
    OBVIOUS
  <2> QED BY <1>1, <2>1, TouchFields
<1> HIDE DEF r
<1>3. WellTyped(r)
  BY <1>2 DEF Sound, WellTyped, Present
<1>4. InLockstep(r)
  BY <1>2 DEF Sound, InLockstep, Present
<1>5. Fits(r) /\ Filled(r)
  BY <1>2 DEF Sound, Fits, Filled, Present
<1> QED BY <1>2, <1>3, <1>4, <1>5 DEF Sound, r

\* There is a place for key k.
HasPlace(s, k) == k \in Present(s) \/ Cardinality(Present(s)) < MaxKeys

\* Storing a value under a key that has a place keeps the contents sound.
LEMMA PutSound ==
  ASSUME NEW s, Sound(s), NEW k \in Keys, HasPlace(s, k),
         NEW v, IsStoredValue(v), IsFilled(v)
  PROVE  /\ Sound(put(s, k, v))
         /\ Present(put(s, k, v)) = Present(s) \cup {k}
         /\ put(s, k, v).expiry = s.expiry
<1> DEFINE t == touch(s, k)
           order == IF k \in Present(t) THEN t.order ELSE Append(t.order, k)
           r == put(s, k, v)
<1>1. /\ t \in [values : {s.values}, order : {s.order}, lru : Seq(Keys),
                expiry : {s.expiry}, evictions : Nat, dirty : BOOLEAN]
      /\ NoRepeats(t.lru) /\ ToSet(t.lru) = Present(s) \cup {k}
  BY TouchFields
<1>2. r = [t EXCEPT !.values = With(t.values, k, v),
                    !.order = IF k \in Present(s) THEN t.order ELSE Append(t.order, k)]
  BY DEF put
<1> HIDE DEF t
<1>3. s.order \in Seq(Keys) /\ NoRepeats(s.order) /\ ToSet(s.order) = Present(s)
  BY DEF Sound, WellTyped, InLockstep
<1>4. Present(t) = Present(s) /\ t.order = s.order
  BY <1>1 DEF Present
<1>5. order \in Seq(Keys) /\ NoRepeats(order) /\ ToSet(order) = Present(s) \cup {k}
  <2>1. CASE k \in Present(s)
    BY <1>3, <1>4, <2>1
  <2>2. CASE k \notin Present(s)
    <3>1. k \notin ToSet(s.order)
      BY <1>3, <2>2
    <3> QED BY <1>3, <1>4, <2>2, <3>1, AppendNew
  <2> QED BY <2>1, <2>2
<1>6. r = [t EXCEPT !.values = With(t.values, k, v), !.order = order]
  BY <1>2, <1>4
<1> HIDE DEF r, order
<1>7. /\ r \in [values : {With(s.values, k, v)}, order : Seq(Keys), lru : Seq(Keys),
                expiry : {s.expiry}, evictions : Nat, dirty : BOOLEAN]
      /\ r.order = order /\ r.lru = t.lru
  BY <1>1, <1>5, <1>6
<1>8. Present(r) = Present(s) \cup {k}
  BY <1>7 DEF Present, With
<1>9. \A x \in Present(r) : IsStoredValue(r.values[x]) /\ IsFilled(r.values[x])
  BY <1>7 DEF Sound, WellTyped, Filled, Present, With
<1>10. WellTyped(r)
  <2>1. r.values = [x \in Present(r) |-> r.values[x]]
    BY <1>7 DEF Present, With
  <2> QED BY <1>7, <1>8, <1>9, <2>1 DEF Sound, WellTyped
<1>11. InLockstep(r)
  BY <1>1, <1>5, <1>7, <1>8 DEF Sound, InLockstep
<1>12. Fits(r)
  <2>1. IsFiniteSet(Present(s)) /\ Cardinality(Present(s)) <= MaxKeys
    BY DEF Sound, Fits
  <2>2. /\ IsFiniteSet(Present(s) \cup {k})
        /\ Cardinality(Present(s) \cup {k}) =
             IF k \in Present(s) THEN Cardinality(Present(s)) ELSE Cardinality(Present(s)) + 1
    BY <2>1, FS_AddElement
  <2>3. Cardinality(Present(s)) \in Nat /\ MaxKeys \in Nat
    BY <2>1, FS_CardinalityType, CapacityAssumption
  <2> QED BY <1>8, <2>1, <2>2, <2>3 DEF Fits, HasPlace
<1>13. Filled(r)
  BY <1>9 DEF Filled
<1> QED BY <1>7, <1>8, <1>10, <1>11, <1>12, <1>13 DEF Sound, r

\* Raising the dirty flag keeps the contents sound.
LEMMA MutatedSound ==
  ASSUME NEW s, Sound(s)
  PROVE  Sound(mutated(s)) /\ Present(mutated(s)) = Present(s)
BY DEF Sound, mutated, WellTyped, InLockstep, Fits, Filled, Present

\* Removing a key keeps the contents sound and takes that key only.
LEMMA RemoveSound ==
  ASSUME NEW s, Sound(s), NEW k
  PROVE  /\ Sound(removeKey(s, k))
         /\ Present(removeKey(s, k)) = Present(s) \ {k}
         /\ removeKey(s, k).evictions = s.evictions
<1>1. CASE k \notin Present(s)
  BY <1>1 DEF removeKey
<1>2. CASE k \in Present(s)
  <2> DEFINE r == removeKey(s, k)
             lru == Without(s.lru, k)
             order == Without(s.order, k)
  <2>1. /\ s.lru \in Seq(Keys) /\ NoRepeats(s.lru) /\ ToSet(s.lru) = Present(s)
        /\ s.order \in Seq(Keys) /\ NoRepeats(s.order) /\ ToSet(s.order) = Present(s)
    BY DEF Sound, WellTyped, InLockstep
  <2>2. lru \in Seq(Keys) /\ NoRepeats(lru) /\ ToSet(lru) = Present(s) \ {k}
    BY <2>1, WithoutProperties
  <2>3. order \in Seq(Keys) /\ NoRepeats(order) /\ ToSet(order) = Present(s) \ {k}
    BY <2>1, WithoutProperties
  <2>4. r = [s EXCEPT !.values = Drop(s.values, k), !.order = order, !.lru = lru,
                      !.expiry = Drop(s.expiry, k), !.dirty = TRUE]
    BY <1>2 DEF removeKey
  <2> HIDE DEF r, lru, order
  <2>5. /\ r \in [values : {Drop(s.values, k)}, order : Seq(Keys), lru : Seq(Keys),
                  expiry : {Drop(s.expiry, k)}, evictions : {s.evictions}, dirty : BOOLEAN]
        /\ r.order = order /\ r.lru = lru
    BY <2>2, <2>3, <2>4 DEF Sound, WellTyped
  <2>6. Present(r) = Present(s) \ {k} /\ DOMAIN r.expiry = DOMAIN s.expiry \ {k}
    BY <2>5 DEF Present, Drop
  <2>7. WellTyped(r)
    <3>1. \A x \in Present(r) : IsStoredValue(r.values[x])
      BY <2>5, <2>6 DEF Sound, WellTyped, Present, Drop
    <3>2. r.expiry \in [DOMAIN r.expiry -> Nat]
      BY <2>5, <2>6 DEF Sound, WellTyped, Drop
    <3>3. r.values = [x \in Present(r) |-> r.values[x]]
      BY <2>5 DEF Present, Drop
    <3> QED BY <2>5, <2>6, <3>1, <3>2, <3>3 DEF Sound, WellTyped
  <2>8. InLockstep(r)
    BY <2>2, <2>3, <2>5, <2>6 DEF Sound, InLockstep
  <2>9. Fits(r)
    <3>1. IsFiniteSet(Present(s)) /\ Cardinality(Present(s)) <= MaxKeys
      BY DEF Sound, Fits
    <3>2. /\ IsFiniteSet(Present(s) \ {k})
          /\ Cardinality(Present(s) \ {k}) = Cardinality(Present(s)) - 1
      BY <1>2, <3>1, FS_RemoveElement
    <3>3. Cardinality(Present(s)) \in Nat /\ MaxKeys \in Nat
      BY <3>1, FS_CardinalityType, CapacityAssumption
    <3> QED BY <2>6, <3>1, <3>2, <3>3 DEF Fits
  <2>10. Filled(r)
    BY <2>5, <2>6 DEF Sound, Filled, Present, Drop
  <2> QED BY <2>5, <2>6, <2>7, <2>8, <2>9, <2>10 DEF Sound, r
<1> QED BY <1>1, <1>2

\* The lazy expiry of a key removes that key or nothing.
LEMMA ExpireIfNeededSound ==
  ASSUME NEW s, Sound(s), NEW k, NEW t
  PROVE  Sound(expireIfNeeded(s, k, t))
BY RemoveSound DEF expireIfNeeded

\* Counting an eviction keeps the contents sound.
LEMMA CountedSound ==
  ASSUME NEW s, Sound(s)
  PROVE  LET r == [s EXCEPT !.evictions = @ + 1]
         IN  Sound(r) /\ Present(r) = Present(s)
BY DEF Sound, WellTyped, InLockstep, Fits, Filled, Present

\* After the slot is reserved there is a place for the key: a full store has
\* a least recently used key to give up, since the recency list holds exactly
\* the present keys.
LEMMA ReserveSlotSound ==
  ASSUME NEW s, Sound(s), NEW k, NEW t
  PROVE  LET r == reserveSlotFor(s, k, t)
         IN  /\ Sound(r) /\ HasPlace(r, k)
             /\ k \in Present(s) => r = s
             /\ Present(r) \subseteq Present(s)
<1>1. IsFiniteSet(Present(s)) /\ Cardinality(Present(s)) <= MaxKeys
      /\ Cardinality(Present(s)) \in Nat /\ MaxKeys \in Nat \ {0}
  BY FS_CardinalityType, CapacityAssumption DEF Sound, Fits
<1>2. CASE k \in Present(s) \/ ~(Cardinality(Present(s)) >= MaxKeys)
  BY <1>1, <1>2 DEF reserveSlotFor, HasPlace
<1>3. CASE k \notin Present(s) /\ Cardinality(Present(s)) >= MaxKeys
  <2> DEFINE victim == Last(s.lru)
             gone == removeKey(s, victim)
  <2>1. s.lru \in Seq(Keys) /\ ToSet(s.lru) = Present(s)
    BY DEF Sound, WellTyped, InLockstep
  <2>2. s.lru # <<>> /\ victim \in Present(s)
    <3>1. Present(s) # {}
      BY <1>1, <1>3, FS_EmptySet
    <3>2. PICK i \in DOMAIN s.lru : TRUE
      BY <2>1, <3>1 DEF ToSet
    <3>3. Len(s.lru) \in Nat /\ DOMAIN s.lru = 1..Len(s.lru)
      BY <2>1, LenProperties
    <3>4. Len(s.lru) \in DOMAIN s.lru
      BY <3>2, <3>3
    <3> QED BY <2>1, <3>3, <3>4, EmptySeq DEF ToSet, Last
  <2>3. Sound(gone) /\ Present(gone) = Present(s) \ {victim}
    BY RemoveSound
  <2>4. Cardinality(Present(s) \ {victim}) < MaxKeys
    <3> HIDE DEF victim
    <3>1. Cardinality(Present(s) \ {victim}) = Cardinality(Present(s)) - 1
      BY <1>1, <2>2, FS_RemoveElement
    <3> QED BY <1>1, <3>1
  <2>5. reserveSlotFor(s, k, t) = IF isExpired(s, victim, t) THEN gone
                                  ELSE [gone EXCEPT !.evictions = @ + 1]
    BY <1>3, <2>2 DEF reserveSlotFor, makeRoomForNewKey
  <2> HIDE DEF gone, victim
  <2>6. CASE isExpired(s, victim, t)
    BY <1>3, <2>3, <2>4, <2>5, <2>6 DEF HasPlace
  <2>7. CASE ~isExpired(s, victim, t)
    <3>1. /\ Sound([gone EXCEPT !.evictions = @ + 1])
          /\ Present([gone EXCEPT !.evictions = @ + 1]) = Present(gone)
      BY <2>3, CountedSound
    <3> QED BY <1>3, <2>3, <2>4, <2>5, <2>7, <3>1 DEF HasPlace
  <2> QED BY <2>6, <2>7
<1> QED BY <1>2, <1>3

\* A deadline is given to a present key only.
LEMMA SetDeadlineSound ==
  ASSUME NEW s, Sound(s), NEW k \in Present(s), NEW d \in Nat
  PROVE  Sound(setDeadline(s, k, d)) /\ Present(setDeadline(s, k, d)) = Present(s)
<1> DEFINE r == setDeadline(s, k, d)
<1>1. /\ r \in [values : {s.values}, order : {s.order}, lru : {s.lru},
                expiry : {With(s.expiry, k, d)}, evictions : Nat, dirty : BOOLEAN]
  BY DEF setDeadline, Sound, WellTyped
<1>2. Present(r) = Present(s) /\ DOMAIN r.expiry = DOMAIN s.expiry \cup {k}
  BY <1>1 DEF Present, With
<1>3. r.expiry \in [DOMAIN r.expiry -> Nat]
  BY <1>1, <1>2 DEF With, Sound, WellTyped
<1> HIDE DEF r
<1>4. WellTyped(r)
  BY <1>1, <1>2, <1>3 DEF Sound, WellTyped
<1>5. InLockstep(r) /\ Fits(r) /\ Filled(r)
  BY <1>1, <1>2 DEF Sound, InLockstep, Fits, Filled
<1> QED BY <1>2, <1>4, <1>5 DEF Sound, r

\* Clearing a deadline keeps the contents sound.
LEMMA ClearDeadlineSound ==
  ASSUME NEW s, Sound(s), NEW k
  PROVE  Sound(clearDeadline(s, k)) /\ Present(clearDeadline(s, k)) = Present(s)
<1> DEFINE r == clearDeadline(s, k)
<1>1. /\ r \in [values : {s.values}, order : {s.order}, lru : {s.lru},
                expiry : {Drop(s.expiry, k)}, evictions : Nat, dirty : BOOLEAN]
  BY DEF clearDeadline, Sound, WellTyped
<1>2. Present(r) = Present(s) /\ DOMAIN r.expiry = DOMAIN s.expiry \ {k}
  BY <1>1 DEF Present, Drop
<1>3. r.expiry \in [DOMAIN r.expiry -> Nat]
  BY <1>1, <1>2 DEF Drop, Sound, WellTyped
<1> HIDE DEF r
<1>4. WellTyped(r)
  BY <1>1, <1>2, <1>3 DEF Sound, WellTyped
<1>5. InLockstep(r) /\ Fits(r) /\ Filled(r)
  BY <1>1, <1>2 DEF Sound, InLockstep, Fits, Filled
<1> QED BY <1>2, <1>4, <1>5 DEF Sound, r

-----------------------------------------------------------------------------
(***************************************************************************)
(* The methods.  Each lemma says that the contents a method leaves are     *)
(* sound, whatever it finds under its key.                                 *)
(***************************************************************************)
\* The data of a value of a known kind.
LEMMA ListData ==
  ASSUME NEW s, Sound(s), NEW k \in Present(s), TypeOf(s, k) = "list"
  PROVE  ValueOf(s, k) \in Seq(Vals) /\ ValueOf(s, k) # <<>>
BY DEF Sound, WellTyped, IsStoredValue, Filled, IsFilled, TypeOf, ValueOf

LEMMA HashData ==
  ASSUME NEW s, Sound(s), NEW k \in Present(s), TypeOf(s, k) = "hash"
  PROVE  ValueOf(s, k) \in Hashes /\ DOMAIN ValueOf(s, k) # {}
BY DEF Sound, WellTyped, IsStoredValue, Filled, IsFilled, TypeOf, ValueOf

LEMMA ListValueStored ==
  ASSUME NEW q \in Seq(Vals), q # <<>>
  PROVE  IsStoredValue(ListValue(q)) /\ IsFilled(ListValue(q))
BY DEF IsStoredValue, IsFilled, ListValue

LEMMA HashValueStored ==
  ASSUME NEW h \in Hashes, DOMAIN h # {}
  PROVE  IsStoredValue(HashValue(h)) /\ IsFilled(HashValue(h))
BY DEF IsStoredValue, IsFilled, HashValue

\* Methods that remove nothing but an expired key, and at most touch the key.
LEMMA ReadsSound ==
  ASSUME NEW s, Sound(s), NEW k, NEW t
  PROVE  /\ Sound(get(s, k, t).store)
         /\ Sound(del(s, k, t).store)
         /\ Sound(exists(s, k, t).store)
         /\ Sound(ttl(s, k, t).store)
         /\ Sound(keyType(s, k, t).store)
         /\ Sound(llen(s, k, t).store)
         /\ Sound(hgetall(s, k, t).store)
         /\ Sound(hlen(s, k, t).store)
         /\ \A f : Sound(hget(s, k, f, t).store)
         /\ \A i, j : Sound(lrange(s, k, i, j, t).store)
<1> DEFINE p == expireIfNeeded(s, k, t)
<1>1. Sound(p)
  BY ExpireIfNeededSound
<1>2. k \in Present(p) => Sound(touch(p, k))
  BY <1>1, TouchSound
<1>3. Sound(removeKey(p, k))
  BY <1>1, RemoveSound
<1> HIDE DEF p
<1>4. Sound(get(s, k, t).store)
  BY <1>1, <1>2 DEF get, Holds, Result, p
<1>5. Sound(del(s, k, t).store)
  BY <1>1, <1>3 DEF del, Result, p
<1>6. /\ Sound(exists(s, k, t).store)
      /\ Sound(ttl(s, k, t).store)
      /\ Sound(keyType(s, k, t).store)
  BY <1>1 DEF exists, ttl, keyType, Result, p
<1>7. /\ Sound(llen(s, k, t).store)
      /\ Sound(hgetall(s, k, t).store)
      /\ Sound(hlen(s, k, t).store)
  BY <1>1, <1>2 DEF llen, hgetall, hlen, OnKind, Result, p
<1>8. /\ \A f : Sound(hget(s, k, f, t).store)
      /\ \A i, j : Sound(lrange(s, k, i, j, t).store)
  BY <1>1, <1>2 DEF hget, lrange, OnKind, Result, p
<1> QED BY <1>4, <1>5, <1>6, <1>7, <1>8

\* Methods that change a deadline.
LEMMA DeadlineMethodsSound ==
  ASSUME NEW s, Sound(s), NEW k, NEW t \in Nat, NEW secs \in Nat
  PROVE  /\ Sound(expire(s, k, secs, t).store)
         /\ Sound(persist(s, k, t).store)
<1> DEFINE p == expireIfNeeded(s, k, t)
           d == setDeadline(p, k, t + secs * TicksPerSecond)
           c == clearDeadline(p, k)
<1>1. Sound(p)
  BY ExpireIfNeededSound
<1>2. t + secs * TicksPerSecond \in Nat
  BY ClockAssumption
<1>3. k \in Present(p) => Sound(mutated(touch(d, k)))
  BY <1>1, <1>2, SetDeadlineSound, TouchSound, MutatedSound
<1>4. k \in Present(p) => Sound(mutated(touch(c, k)))
  BY <1>1, ClearDeadlineSound, TouchSound, MutatedSound
<1> HIDE DEF p, d, c
<1>5. Sound(expire(s, k, secs, t).store)
  BY <1>1, <1>3 DEF expire, Result, p, d
<1>6. Sound(persist(s, k, t).store)
  BY <1>1, <1>4 DEF persist, Result, p, c
<1> QED BY <1>5, <1>6

\* SET, over anything or in a place yet to be made.
LEMMA SetSound ==
  ASSUME NEW s, Sound(s), NEW k \in Keys, NEW v \in Vals, NEW secs \in Nat, NEW t \in Nat
  PROVE  Sound(set(s, k, v, secs, t).store)
<1> DEFINE p == reserveSlotFor(expireIfNeeded(s, k, t), k, t)
           w == mutated(put(p, k, StringValue(v)))
<1>1. Sound(p) /\ HasPlace(p, k)
  BY ExpireIfNeededSound, ReserveSlotSound
<1>2. IsStoredValue(StringValue(v)) /\ IsFilled(StringValue(v))
  BY DEF IsStoredValue, IsFilled, StringValue
<1>3. Sound(put(p, k, StringValue(v))) /\ k \in Present(put(p, k, StringValue(v)))
  BY <1>1, <1>2, PutSound
<1>4. Sound(w) /\ k \in Present(w)
  BY <1>3, MutatedSound
<1>5. t + secs * TicksPerSecond \in Nat
  BY ClockAssumption
<1> HIDE DEF w
<1>6. Sound(setDeadline(w, k, t + secs * TicksPerSecond)) /\ Sound(clearDeadline(w, k))
  BY <1>4, <1>5, SetDeadlineSound, ClearDeadlineSound
<1> QED BY <1>6 DEF set, Result, w

\* The reverse of a sequence.
LEMMA ReverseProperties ==
  ASSUME NEW S, NEW q \in Seq(S)
  PROVE  Reverse(q) \in Seq(S) /\ (q # <<>> => Reverse(q) # <<>>)
<1>1. Len(q) \in Nat /\ DOMAIN q = 1..Len(q)
  BY LenProperties
<1>2. \A i \in 1..Len(q) : q[Len(q) - i + 1] \in S
  BY <1>1, ElementOfSeq
<1>3. Reverse(q) \in Seq(S) /\ Len(Reverse(q)) = Len(q)
  BY <1>1, <1>2, IsASeq, LenProperties DEF Reverse
<1> QED BY <1>1, <1>3, EmptySeq

\* A non-empty list stored under a present key, or under one with a place.
LEMMA PutListSound ==
  ASSUME NEW s, Sound(s), NEW k \in Keys, HasPlace(s, k),
         NEW q \in Seq(Vals), q # <<>>
  PROVE  Sound(put(s, k, ListValue(q))) /\ Sound(mutated(put(s, k, ListValue(q))))
BY ListValueStored, PutSound, MutatedSound

\* LPUSH and RPUSH, onto a list or a place yet to be made.
LEMMA PushSound ==
  ASSUME NEW s, Sound(s), NEW k \in Keys, NEW vals \in Seq(Vals), vals # <<>>, NEW t
  PROVE  /\ Sound(lpush(s, k, vals, t).store)
         /\ Sound(rpush(s, k, vals, t).store)
<1> DEFINE p == expireIfNeeded(s, k, t)
           r == reserveSlotFor(p, k, t)
<1>1. Sound(p) /\ Sound(r) /\ HasPlace(r, k)
  BY ExpireIfNeededSound, ReserveSlotSound
<1>2. Reverse(vals) \in Seq(Vals) /\ Reverse(vals) # <<>>
  BY ReverseProperties
<1> HIDE DEF p, r
<1>3. Sound(put(r, k, ListValue(vals))) /\ Sound(put(r, k, ListValue(Reverse(vals))))
  BY <1>1, <1>2, PutListSound
<1>4. ASSUME k \in Present(p), TypeOf(p, k) = "list"
      PROVE  /\ Sound(mutated(put(p, k, ListValue(Reverse(vals) \o ValueOf(p, k)))))
             /\ Sound(mutated(put(p, k, ListValue(ValueOf(p, k) \o vals))))
  <2> DEFINE list == ValueOf(p, k)
  <2>1. list \in Seq(Vals) /\ list # <<>> /\ HasPlace(p, k)
    BY <1>1, <1>4, ListData DEF HasPlace
  <2> HIDE DEF list
  <2>2. /\ Reverse(vals) \o list \in Seq(Vals) /\ Reverse(vals) \o list # <<>>
        /\ list \o vals \in Seq(Vals) /\ list \o vals # <<>>
    BY <1>2, <2>1, ConcatProperties, ConcatEqualIffEmpty, LenProperties, EmptySeq
  <2>3. /\ Sound(mutated(put(p, k, ListValue(Reverse(vals) \o list))))
        /\ Sound(mutated(put(p, k, ListValue(list \o vals))))
    BY <1>1, <2>1, <2>2, PutListSound
  <2> QED BY <2>3 DEF list
<1>5. Sound(lpush(s, k, vals, t).store)
  BY <1>1, <1>3, <1>4 DEF lpush, pushNewList, OnKind, Result, TypeOf, p, r
<1>6. Sound(rpush(s, k, vals, t).store)
  BY <1>1, <1>3, <1>4 DEF rpush, pushNewList, OnKind, Result, TypeOf, p, r
<1> QED BY <1>5, <1>6

\* LPOP and RPOP find an element to take, and take the key with the last one.
LEMMA PopSound ==
  ASSUME NEW s, Sound(s), NEW k \in Keys, NEW t
  PROVE  /\ Sound(lpop(s, k, t).store)
         /\ Sound(rpop(s, k, t).store)
<1> DEFINE p == expireIfNeeded(s, k, t)
           list == ValueOf(p, k)
<1>1. Sound(p)
  BY ExpireIfNeededSound
<1> HIDE DEF p
<1>2. \A q \in Seq(Vals) : k \in Present(p) => Sound(popped(p, k, q))
  <2> SUFFICES ASSUME NEW q \in Seq(Vals), k \in Present(p)
               PROVE  Sound(popped(p, k, q))
    OBVIOUS
  <2>1. CASE q = <<>>
    BY <1>1, <2>1, RemoveSound DEF popped
  <2>2. CASE q # <<>>
    BY <1>1, <2>2, PutListSound DEF popped, HasPlace
  <2> QED BY <2>1, <2>2
<1>3. ASSUME k \in Present(p), TypeOf(p, k) = "list"
      PROVE  Tail(list) \in Seq(Vals) /\ Front(list) \in Seq(Vals)
  <2>1. list \in Seq(Vals) /\ list # <<>>
    BY <1>1, <1>3, ListData
  <2> HIDE DEF list
  <2>2. Len(list) \in Nat /\ \A i \in 1..Len(list) : list[i] \in Vals
    BY <2>1, LenProperties, ElementOfSeq
  <2>3. Front(list) \in Seq(Vals)
    <3>1. 1 \in Int /\ Len(list) - 1 \in Int /\ \A i \in 1..(Len(list) - 1) : list[i] \in Vals
      BY <2>2
    <3> QED BY <3>1, SubSeqProperties DEF Front
  <2> QED BY <2>1, <2>3, HeadTailProperties
<1> HIDE DEF list
<1>4. Sound(lpop(s, k, t).store)
  BY <1>1, <1>2, <1>3 DEF lpop, OnKind, Result, TypeOf, p, list
<1>5. Sound(rpop(s, k, t).store)
  BY <1>1, <1>2, <1>3 DEF rpop, OnKind, Result, TypeOf, p, list
<1> QED BY <1>4, <1>5

\* HSET, onto a hash or a place yet to be made.
LEMMA HSetSound ==
  ASSUME NEW s, Sound(s), NEW k \in Keys, NEW pairs \in Hashes, DOMAIN pairs # {}, NEW t
  PROVE  Sound(hset(s, k, pairs, t).store)
<1> DEFINE p   == expireIfNeeded(s, k, t)
           r   == reserveSlotFor(p, k, t)
           old == ValueOf(p, k)
           all == [f \in DOMAIN pairs \cup DOMAIN old |->
                     IF f \in DOMAIN pairs THEN pairs[f] ELSE old[f]]
<1>1. Sound(p) /\ Sound(r) /\ HasPlace(r, k)
  BY ExpireIfNeededSound, ReserveSlotSound
<1> HIDE DEF p, r
<1>2. Sound(mutated(put(r, k, HashValue(pairs))))
  BY <1>1, HashValueStored, PutSound, MutatedSound
<1>3. k \in Present(p) /\ TypeOf(p, k) = "hash" => Sound(mutated(put(p, k, HashValue(all))))
  <2> SUFFICES ASSUME k \in Present(p), TypeOf(p, k) = "hash"
               PROVE  Sound(mutated(put(p, k, HashValue(all))))
    OBVIOUS
  <2>1. old \in Hashes
    BY <1>1, HashData
  <2> HIDE DEF old
  <2>2. all \in Hashes /\ DOMAIN all # {}
    <3>1. PICK F \in SUBSET Fields, G \in SUBSET Fields :
            pairs \in [F -> Vals] /\ old \in [G -> Vals]
      BY <2>1 DEF Hashes
    <3>2. all \in [F \cup G -> Vals] /\ DOMAIN all # {}
      BY <3>1
    <3> QED BY <3>1, <3>2 DEF Hashes
  <2> HIDE DEF all
  <2>3. Sound(put(p, k, HashValue(all)))
    BY <1>1, <2>2, HashValueStored, PutSound DEF HasPlace
  <2> QED BY <2>3, MutatedSound
<1> HIDE DEF all
<1> QED BY <1>1, <1>2, <1>3 DEF hset, OnKind, Result, TypeOf, p, r, all

\* HDEL takes the key with the last field.
LEMMA HDelSound ==
  ASSUME NEW s, Sound(s), NEW k \in Keys, NEW fields, NEW t
  PROVE  Sound(hdel(s, k, fields, t).store)
<1> DEFINE p    == expireIfNeeded(s, k, t)
           h    == ValueOf(p, k)
           rest == [f \in DOMAIN h \ fields |-> h[f]]
<1>1. Sound(p) /\ Sound(removeKey(p, k))
  BY ExpireIfNeededSound, RemoveSound
<1> HIDE DEF p
<1>2. k \in Present(p) /\ TypeOf(p, k) = "hash" /\ DOMAIN rest # {} =>
        Sound(mutated(put(p, k, HashValue(rest))))
  <2> SUFFICES ASSUME k \in Present(p), TypeOf(p, k) = "hash", DOMAIN rest # {}
               PROVE  Sound(mutated(put(p, k, HashValue(rest))))
    OBVIOUS
  <2>1. h \in Hashes
    BY <1>1, HashData
  <2> HIDE DEF h
  <2>2. rest \in Hashes
    <3>1. PICK F \in SUBSET Fields : h \in [F -> Vals]
      BY <2>1 DEF Hashes
    <3>2. rest \in [F \ fields -> Vals]
      BY <3>1
    <3> QED BY <3>1, <3>2 DEF Hashes
  <2> HIDE DEF rest
  <2>3. Sound(put(p, k, HashValue(rest)))
    BY <1>1, <2>2, HashValueStored, PutSound DEF HasPlace
  <2> QED BY <2>3, MutatedSound
<1> QED BY <1>1, <1>2 DEF hdel, OnKind, Result, TypeOf, p

\* The walk of the statistics page removes at most one key.
LEMMA KeysMRUSound ==
  ASSUME NEW s, Sound(s), NEW t
  PROVE  Sound(keysMRU(s, t).store)
BY RemoveSound DEF keysMRU, Result

-----------------------------------------------------------------------------
(***************************************************************************)
(* The steps of the store.                                                 *)
(***************************************************************************)

IInv == /\ Sound(store)
        /\ now \in Nat
        /\ reclaiming \subseteq Keys

\* The arguments that commands are given are non-empty values of their types.
LEMMA ArgumentTypes ==
  /\ \A vals \in Arguments : vals \in Seq(Vals) /\ vals # <<>>
  /\ \A pairs \in Pairs : pairs \in Hashes /\ DOMAIN pairs # {}
<1>1. ASSUME NEW vals \in Arguments
      PROVE  vals \in Seq(Vals) /\ vals # <<>>
  <2>1. PICK n \in 1..MaxArgs : vals \in [1..n -> Vals]
    BY DEF Arguments
  <2>2. n \in Nat /\ n >= 1
    BY <2>1, BoundAssumption
  <2>3. vals \in Seq(Vals) /\ DOMAIN vals = 1..n /\ 1 \in DOMAIN vals
    BY <2>1, <2>2, SeqDef
  <2> QED BY <2>3, EmptySeq
<1>2. ASSUME NEW pairs \in Pairs
      PROVE  pairs \in Hashes /\ DOMAIN pairs # {}
  BY DEF Pairs, Hashes
<1> QED BY <1>1, <1>2

LEMMA InitIInv == Init => IInv
BY EmptyStoreSound DEF Init, IInv

\* A call whose result is sound preserves the invariant.
LEMMA CallIInv ==
  ASSUME IInv, NEW result, Sound(result.store), Call(result)
  PROVE  IInv'
BY DEF IInv, Call

\* Every command on one key.
LEMMA CommandIInv ==
  ASSUME IInv, NEW k \in Keys, Command(k)
  PROVE  IInv'
<1>1. Sound(store) /\ now \in Nat
  BY DEF IInv
<1>2. CASE StringCommand(k)
  <2>1. CASE Get(k)
    BY <1>1, <2>1, ReadsSound, CallIInv DEF Get
  <2>2. CASE \E v \in Vals, secs \in Ttls \cup {NoTTL} : Set(k, v, secs)
    <3>1. PICK v \in Vals, secs \in Ttls \cup {NoTTL} : Set(k, v, secs)
      BY <2>2
    <3>2. secs \in Nat
      BY <3>1, TtlAssumption DEF NoTTL
    <3> QED BY <1>1, <3>1, <3>2, SetSound, CallIInv DEF Set
  <2> QED BY <1>2, <2>1, <2>2 DEF StringCommand
<1>3. CASE KeyCommand(k)
  <2>1. CASE Del(k)
    BY <1>1, <2>1, ReadsSound, CallIInv DEF Del
  <2>2. CASE Exists(k)
    BY <1>1, <2>2, ReadsSound, CallIInv DEF Exists
  <2>3. CASE Ttl(k)
    BY <1>1, <2>3, ReadsSound, CallIInv DEF Ttl
  <2>4. CASE KeyType(k)
    BY <1>1, <2>4, ReadsSound, CallIInv DEF KeyType
  <2>5. CASE Persist(k)
    BY <1>1, <2>5, DeadlineMethodsSound, CallIInv DEF Persist
  <2>6. CASE \E secs \in Ttls : Expire(k, secs)
    <3>1. PICK secs \in Ttls : Expire(k, secs)
      BY <2>6
    <3> QED BY <1>1, <3>1, TtlAssumption, DeadlineMethodsSound, CallIInv DEF Expire
  <2> QED BY <1>3, <2>1, <2>2, <2>3, <2>4, <2>5, <2>6 DEF KeyCommand
<1>4. CASE ListCommand(k)
  <2>1. CASE \E vals \in Arguments : LPush(k, vals) \/ RPush(k, vals)
    BY <1>1, <2>1, ArgumentTypes, PushSound, CallIInv DEF LPush, RPush
  <2>2. CASE LPop(k) \/ RPop(k)
    BY <1>1, <2>2, PopSound, CallIInv DEF LPop, RPop
  <2>3. CASE LLen(k)
    BY <1>1, <2>3, ReadsSound, CallIInv DEF LLen
  <2>4. CASE \E i, j \in Indices : LRange(k, i, j)
    BY <1>1, <2>4, ReadsSound, CallIInv DEF LRange
  <2> QED BY <1>4, <2>1, <2>2, <2>3, <2>4 DEF ListCommand
<1>5. CASE HashCommand(k)
  <2>1. CASE \E pairs \in Pairs : HSet(k, pairs)
    BY <1>1, <2>1, ArgumentTypes, HSetSound, CallIInv DEF HSet
  <2>2. CASE \E f \in Fields : HGet(k, f)
    BY <1>1, <2>2, ReadsSound, CallIInv DEF HGet
  <2>3. CASE \E fields \in (SUBSET Fields) \ {{}} : HDel(k, fields)
    BY <1>1, <2>3, HDelSound, CallIInv DEF HDel
  <2>4. CASE HGetAll(k)
    BY <1>1, <2>4, ReadsSound, CallIInv DEF HGetAll
  <2>5. CASE HLen(k)
    BY <1>1, <2>5, ReadsSound, CallIInv DEF HLen
  <2> QED BY <1>5, <2>1, <2>2, <2>3, <2>4, <2>5 DEF HashCommand
<1> QED BY <1>2, <1>3, <1>4, <1>5 DEF Command

LEMMA NextIInv == IInv /\ [Next]_vars => IInv'
<1> SUFFICES ASSUME IInv, [Next]_vars PROVE IInv'
  OBVIOUS
<1>1. ASSUME NEW k \in Keys, Command(k) PROVE IInv'
  BY <1>1, CommandIInv
<1>2. ASSUME NEW k \in Keys, Reclaim(k) PROVE IInv'
  BY <1>2, RemoveSound DEF IInv, Reclaim
<1>3. CASE KeysMRU
  BY <1>3, KeysMRUSound, CallIInv DEF IInv, KeysMRU
<1>4. CASE KeysCommand
  BY <1>4 DEF KeysCommand, Expired, IInv, Sound, WellTyped
<1>5. CASE SweepExpired
  BY <1>5 DEF SweepExpired, Expired, IInv, Sound, WellTyped
<1>6. CASE Recorded
  BY <1>6 DEF Recorded, IInv, Sound, WellTyped, InLockstep, Fits, Filled, Present
<1>7. CASE Tick
  BY <1>7 DEF Tick, IInv
<1>8. CASE UNCHANGED vars
  BY <1>8 DEF vars, IInv
<1> QED BY <1>1, <1>2, <1>3, <1>4, <1>5, <1>6, <1>7, <1>8 DEF Next

\* The invariant holds in every reachable state.
THEOREM StoreInvariant == Spec => []IInv
BY InitIInv, NextIInv, PTL DEF Spec

\* Contents are always a record of the expected types.
THEOREM TypeCorrect == Spec => []TypeOK
<1>1. IInv => TypeOK
  BY DEF IInv, Sound, TypeOK
<1> QED BY <1>1, StoreInvariant, PTL

\* The data, the recency list and the deadlines never drift apart.
THEOREM LockstepHolds == Spec => []Lockstep
<1>1. IInv => Lockstep
  BY DEF IInv, Sound, Lockstep
<1> QED BY <1>1, StoreInvariant, PTL

\* The store never holds more than maxKeys keys.
THEOREM CapacityHolds == Spec => []Capacity
<1>1. IInv => Capacity
  BY DEF IInv, Sound, Capacity
<1> QED BY <1>1, StoreInvariant, PTL

\* No list or hash is ever left empty.
THEOREM NoEmptyContainerHolds == Spec => []NoEmptyContainer
<1>1. IInv => NoEmptyContainer
  BY DEF IInv, Sound, NoEmptyContainer
<1> QED BY <1>1, StoreInvariant, PTL

\* The contents are what the methods take them for: the three together.
THEOREM ConsistencyHolds == Spec => []Consistent
<1>1. TypeOK /\ Lockstep /\ NoEmptyContainer => Consistent
  BY DEF Consistent
<1> QED BY <1>1, TypeCorrect, LockstepHolds, NoEmptyContainerHolds, PTL

-----------------------------------------------------------------------------
(***************************************************************************)
(* The store implements the contract of ExpiringStore, a live key leaves   *)
(* it in two ways only, the mutation count misses one kind of change, an   *)
(* expired key cannot be told from an absent one and a refused command     *)
(* changes nothing.  The first three rest on one account of what a method  *)
(* may do to the data and the deadlines, Effect, which every method is     *)
(* shown to obey.                                                          *)
(***************************************************************************)

(***************************************************************************)
(* The operators, field by field.                                          *)
(***************************************************************************)
IsContents(s) ==
  s \in [values : {s.values}, order : {s.order}, lru : {s.lru}, expiry : {s.expiry},
         evictions : {s.evictions}, dirty : {s.dirty}]

\* r differs from s in nothing but the order of use and the mark of a mutation.
Alike(s, r) ==
  IsContents(r) /\ r.values = s.values /\ r.expiry = s.expiry /\ r.evictions = s.evictions

\* Sound contents are a record of the six fields.
LEMMA SoundIsContents == ASSUME NEW s, Sound(s) PROVE IsContents(s)
BY DEF Sound, WellTyped, IsContents

\* A touch changes the order of use only.
LEMMA TouchEffect ==
  ASSUME NEW s, IsContents(s), NEW k
  PROVE  Alike(s, touch(s, k)) /\ touch(s, k).dirty = s.dirty
BY DEF IsContents, touch, Alike

\* Marking a mutation changes the mark only.
LEMMA MutatedEffect ==
  ASSUME NEW s, IsContents(s)
  PROVE  Alike(s, mutated(s)) /\ mutated(s).dirty
BY DEF IsContents, mutated, Alike

\* Storing a value changes the value of its key, and the two orders.
LEMMA PutEffect ==
  ASSUME NEW s, IsContents(s), NEW k, NEW v
  PROVE  LET r == put(s, k, v)
         IN  /\ IsContents(r) /\ r.values = With(s.values, k, v)
             /\ r.expiry = s.expiry /\ r.evictions = s.evictions /\ r.dirty = s.dirty
<1> DEFINE u == touch(s, k)
<1>1. Alike(s, u) /\ u.dirty = s.dirty
  BY TouchEffect
<1>2. IsContents(u)
  BY <1>1 DEF Alike
<1>3. put(s, k, v) = [u EXCEPT !.values = With(@, k, v),
                               !.order = IF k \in Present(s) THEN @ ELSE Append(@, k)]
  BY DEF put
<1> HIDE DEF u
<1> QED BY <1>1, <1>2, <1>3 DEF IsContents, Alike

\* Removal drops the key from the data and the deadlines, and counts.
LEMMA RemoveEffect ==
  ASSUME NEW s, IsContents(s), NEW k
  PROVE  LET r == removeKey(s, k)
         IN  /\ k \notin Present(s) => r = s
             /\ k \in Present(s) =>
                  /\ IsContents(r) /\ r.values = Drop(s.values, k)
                  /\ r.expiry = Drop(s.expiry, k) /\ r.evictions = s.evictions /\ r.dirty = TRUE
BY DEF IsContents, removeKey

\* A deadline is set or cleared, and nothing else.
LEMMA DeadlineEffect ==
  ASSUME NEW s, IsContents(s), NEW k, NEW d
  PROVE  /\ LET r == setDeadline(s, k, d)
            IN  /\ IsContents(r) /\ r.values = s.values /\ r.expiry = With(s.expiry, k, d)
                /\ r.evictions = s.evictions /\ r.dirty = s.dirty
         /\ LET r == clearDeadline(s, k)
            IN  /\ IsContents(r) /\ r.values = s.values /\ r.expiry = Drop(s.expiry, k)
                /\ r.evictions = s.evictions /\ r.dirty = s.dirty
BY DEF IsContents, setDeadline, clearDeadline

-----------------------------------------------------------------------------
(***************************************************************************)
(* What a method may do, once an expired key k has made way (contents p):  *)
(* look, remove k, give it another deadline, or store a value, for a new   *)
(* key after room has been made (contents q).                              *)
(***************************************************************************)
Looked(p, r) == Alike(p, r) /\ r.dirty = p.dirty

Removed(p, k, r) ==
  /\ k \in Present(p)
  /\ r.values = Drop(p.values, k) /\ r.expiry = Drop(p.expiry, k)
  /\ r.evictions = p.evictions /\ r.dirty = TRUE

Redated(expiry, k, t, r) ==
  \/ r.expiry = Drop(expiry, k)
  \/ \E d \in Nat : d > t /\ r.expiry = With(expiry, k, d)

Rescheduled(p, k, t, r) ==
  /\ k \in Present(p) /\ r.values = p.values
  /\ Redated(p.expiry, k, t, r)
  /\ r.evictions = p.evictions /\ r.dirty = TRUE

Replaced(q, k, t, r) ==
  /\ \E v : v[1] = "string" /\ r.values = With(q.values, k, v)
  /\ Redated(q.expiry, k, t, r)
  /\ r.evictions = q.evictions /\ r.dirty = TRUE

\* A push onto nothing is the one that does not count.
Modified(p, q, k, r) ==
  \E v : /\ v[1] # "string" /\ r.values = With(q.values, k, v)
         /\ k \in Present(p) => v[1] = TypeOf(p, k)
         /\ r.expiry = q.expiry /\ r.evictions = q.evictions
         /\ \/ r.dirty = TRUE
            \/ k \notin Present(p) /\ v[1] = "list" /\ r.dirty = q.dirty

Effect(s, k, t, r) ==
  LET p == expireIfNeeded(s, k, t)
      q == reserveSlotFor(p, k, t)
  IN  \/ Looked(p, r) \/ Removed(p, k, r) \/ Rescheduled(p, k, t, r)
      \/ Replaced(q, k, t, r) \/ Modified(p, q, k, r)

\* Methods that look, and DEL.
LEMMA ReadEffects ==
  ASSUME NEW s, Sound(s), NEW k, NEW t
  PROVE  /\ Effect(s, k, t, get(s, k, t).store)
         /\ Effect(s, k, t, exists(s, k, t).store)
         /\ Effect(s, k, t, ttl(s, k, t).store)
         /\ Effect(s, k, t, keyType(s, k, t).store)
         /\ Effect(s, k, t, llen(s, k, t).store)
         /\ \A i, j : Effect(s, k, t, lrange(s, k, i, j, t).store)
         /\ \A f : Effect(s, k, t, hget(s, k, f, t).store)
         /\ Effect(s, k, t, hgetall(s, k, t).store)
         /\ Effect(s, k, t, hlen(s, k, t).store)
         /\ Effect(s, k, t, del(s, k, t).store)
<1> DEFINE p == expireIfNeeded(s, k, t)
<1>1. IsContents(p)
  BY ExpireIfNeededSound, SoundIsContents
<1> HIDE DEF p
<1>2. Looked(p, p) /\ Looked(p, touch(p, k))
  BY <1>1, TouchEffect DEF Looked, Alike
<1>3. \A r : r = p \/ r = touch(p, k) => Effect(s, k, t, r)
  BY <1>2 DEF Effect, p
<1>4. Effect(s, k, t, get(s, k, t).store)
  BY <1>3 DEF get, Result, p
<1>5. Effect(s, k, t, exists(s, k, t).store) /\ Effect(s, k, t, ttl(s, k, t).store)
  BY <1>3 DEF exists, ttl, Result, p
<1>6. Effect(s, k, t, keyType(s, k, t).store)
  BY <1>3 DEF keyType, Result, p
<1>7. Effect(s, k, t, llen(s, k, t).store) /\ Effect(s, k, t, hlen(s, k, t).store)
  BY <1>3 DEF llen, hlen, OnKind, Result, p
<1>8. /\ \A i, j : Effect(s, k, t, lrange(s, k, i, j, t).store)
      /\ \A f : Effect(s, k, t, hget(s, k, f, t).store)
  BY <1>3 DEF lrange, hget, OnKind, Result, p
<1>9. Effect(s, k, t, hgetall(s, k, t).store)
  BY <1>3 DEF hgetall, OnKind, Result, p
<1>10. Effect(s, k, t, del(s, k, t).store)
  <2>1. CASE k \in Present(p)
    <3>1. Removed(p, k, removeKey(p, k))
      BY <1>1, <2>1, RemoveEffect DEF Removed
    <3>2. del(s, k, t).store = removeKey(p, k)
      BY <2>1 DEF del, Result, p
    <3> QED BY <3>1, <3>2 DEF Effect, p
  <2>2. CASE k \notin Present(p)
    BY <1>3, <2>2 DEF del, Result, p
  <2> QED BY <2>1, <2>2
<1> QED BY <1>4, <1>5, <1>6, <1>7, <1>8, <1>9, <1>10

\* EXPIRE and PERSIST give k a deadline to come, or none.
LEMMA DeadlineEffects ==
  ASSUME NEW s, Sound(s), NEW k, NEW t \in Nat, NEW secs \in Nat \ {0}
  PROVE  /\ Effect(s, k, t, expire(s, k, secs, t).store)
         /\ Effect(s, k, t, persist(s, k, t).store)
<1> DEFINE p == expireIfNeeded(s, k, t)
           date == t + secs * TicksPerSecond
<1>1. IsContents(p)
  BY ExpireIfNeededSound, SoundIsContents
<1>2. date \in Nat /\ date > t
  <2>1. secs * TicksPerSecond \in Nat \ {0}
    BY ClockAssumption
  <2> HIDE DEF p
  <2> QED BY <2>1
<1> HIDE DEF p, date
<1>3. ASSUME NEW d, IsContents(d), d.values = p.values, d.evictions = p.evictions,
             Redated(p.expiry, k, t, d), k \in Present(p)
      PROVE  Rescheduled(p, k, t, mutated(touch(d, k)))
  <2> DEFINE u == touch(d, k)
  <2>1. Alike(d, u)
    BY <1>3, TouchEffect
  <2> HIDE DEF u
  <2>2. Alike(u, mutated(u)) /\ mutated(u).dirty = TRUE
    BY <2>1 DEF Alike, mutated, IsContents
  <2> QED BY <1>3, <2>1, <2>2 DEF Rescheduled, Alike, Redated, u
<1>4. Looked(p, p)
  BY <1>1 DEF Looked, Alike
<1>5. Effect(s, k, t, expire(s, k, secs, t).store)
  <2> DEFINE d == setDeadline(p, k, date)
  <2>1. /\ IsContents(d) /\ d.values = p.values /\ d.evictions = p.evictions
        /\ Redated(p.expiry, k, t, d)
    BY <1>1, <1>2, DeadlineEffect DEF Redated
  <2>2. expire(s, k, secs, t).store = IF k \in Present(p) THEN mutated(touch(d, k)) ELSE p
    BY DEF expire, Result, p, date
  <2> HIDE DEF d
  <2>3. k \in Present(p) => Rescheduled(p, k, t, mutated(touch(d, k)))
    BY <1>3, <2>1
  <2> QED BY <1>4, <2>2, <2>3 DEF Effect, p
<1>6. Effect(s, k, t, persist(s, k, t).store)
  <2> DEFINE d == clearDeadline(p, k)
  <2>1. /\ IsContents(d) /\ d.values = p.values /\ d.evictions = p.evictions
        /\ Redated(p.expiry, k, t, d)
    BY <1>1, DeadlineEffect DEF Redated
  <2>2. persist(s, k, t).store = IF k \in Present(p) /\ k \in DOMAIN p.expiry
                                   THEN mutated(touch(d, k)) ELSE p
    BY DEF persist, Result, p
  <2> HIDE DEF d
  <2>3. k \in Present(p) => Rescheduled(p, k, t, mutated(touch(d, k)))
    BY <1>3, <2>1
  <2> QED BY <1>4, <2>2, <2>3 DEF Effect, p
<1> QED BY <1>5, <1>6

\* SET stores a string with a deadline to come, or none.
LEMMA SetEffect ==
  ASSUME NEW s, Sound(s), NEW k, NEW v, NEW secs \in Nat, NEW t \in Nat
  PROVE  Effect(s, k, t, set(s, k, v, secs, t).store)
<1> DEFINE p == expireIfNeeded(s, k, t)
           q == reserveSlotFor(p, k, t)
           w == mutated(put(q, k, StringValue(v)))
           date == t + secs * TicksPerSecond
<1>1. IsContents(q)
  BY ExpireIfNeededSound, ReserveSlotSound, SoundIsContents
<1>2. secs # NoTTL => date \in Nat /\ date > t
  <2>1. secs # NoTTL => secs * TicksPerSecond \in Nat \ {0}
    BY ClockAssumption DEF NoTTL
  <2> HIDE DEF q, w
  <2> QED BY <2>1
<1>3. set(s, k, v, secs, t).store =
        IF secs # NoTTL THEN setDeadline(w, k, date) ELSE clearDeadline(w, k)
  BY DEF set, Result
<1> HIDE DEF p, q, date
<1>4. /\ IsContents(w) /\ w.values = With(q.values, k, StringValue(v))
      /\ w.expiry = q.expiry /\ w.evictions = q.evictions /\ w.dirty = TRUE
  <2>1. LET r == put(q, k, StringValue(v))
        IN  /\ IsContents(r) /\ r.values = With(q.values, k, StringValue(v))
            /\ r.expiry = q.expiry /\ r.evictions = q.evictions
    BY <1>1, PutEffect
  <2> QED BY <2>1 DEF mutated, IsContents
<1>5. StringValue(v)[1] = "string"
  BY DEF StringValue
<1> HIDE DEF w
<1>6. Replaced(q, k, t, clearDeadline(w, k))
  BY <1>4, <1>5, DeadlineEffect DEF Replaced, Redated
<1>7. secs # NoTTL => Replaced(q, k, t, setDeadline(w, k, date))
  BY <1>2, <1>4, <1>5, DeadlineEffect DEF Replaced, Redated
<1> QED BY <1>3, <1>6, <1>7 DEF Effect, p, q

\* The push methods: the place is made only when there is no list.
LEMMA PushEffects ==
  ASSUME NEW s, Sound(s), NEW k, NEW vals, NEW t
  PROVE  /\ Effect(s, k, t, lpush(s, k, vals, t).store)
         /\ Effect(s, k, t, rpush(s, k, vals, t).store)
<1> DEFINE p == expireIfNeeded(s, k, t)
           q == reserveSlotFor(p, k, t)
<1>1. IsContents(p) /\ IsContents(q) /\ Looked(p, p) /\ (k \in Present(p) => q = p)
  BY ExpireIfNeededSound, ReserveSlotSound, SoundIsContents DEF Looked, Alike
<1> HIDE DEF p, q
<1>2. \A x : ListValue(x)[1] = "list" /\ "list" # "string"
  BY DEF ListValue
<1>3. ASSUME NEW x, k \notin Present(p)
      PROVE  Modified(p, q, k, put(q, k, ListValue(x)))
  <2>1. LET r == put(q, k, ListValue(x))
        IN  /\ r.values = With(q.values, k, ListValue(x))
            /\ r.expiry = q.expiry /\ r.evictions = q.evictions /\ r.dirty = q.dirty
    BY <1>1, PutEffect
  <2> QED BY <1>2, <1>3, <2>1 DEF Modified
<1>4. ASSUME NEW x, k \in Present(p), TypeOf(p, k) = "list"
      PROVE  Modified(p, q, k, mutated(put(p, k, ListValue(x))))
  <2> DEFINE u == put(p, k, ListValue(x))
  <2>1. /\ IsContents(u) /\ u.values = With(p.values, k, ListValue(x))
        /\ u.expiry = p.expiry /\ u.evictions = p.evictions
    BY <1>1, PutEffect
  <2> HIDE DEF u
  <2>2. LET r == mutated(u)
        IN  /\ r.values = With(p.values, k, ListValue(x))
            /\ r.expiry = p.expiry /\ r.evictions = p.evictions /\ r.dirty = TRUE
    BY <2>1 DEF mutated, IsContents
  <2>3. q = p
    BY <1>1, <1>4
  <2> QED BY <1>2, <1>4, <2>2, <2>3 DEF Modified, u
<1>5. \A r : Looked(p, r) \/ Modified(p, q, k, r) => Effect(s, k, t, r)
  BY DEF Effect, p, q
<1>6. Effect(s, k, t, lpush(s, k, vals, t).store)
  BY <1>1, <1>3, <1>4, <1>5 DEF lpush, pushNewList, OnKind, Result, p, q
<1>7. Effect(s, k, t, rpush(s, k, vals, t).store)
  BY <1>1, <1>3, <1>4, <1>5 DEF rpush, pushNewList, OnKind, Result, p, q
<1> QED BY <1>6, <1>7

\* The pops shorten the list or, with its last element, remove k.
LEMMA PopEffects ==
  ASSUME NEW s, Sound(s), NEW k, NEW t
  PROVE  /\ Effect(s, k, t, lpop(s, k, t).store)
         /\ Effect(s, k, t, rpop(s, k, t).store)
<1> DEFINE p == expireIfNeeded(s, k, t)
           q == reserveSlotFor(p, k, t)
<1>1. IsContents(p) /\ Looked(p, p) /\ (k \in Present(p) => q = p)
  BY ExpireIfNeededSound, ReserveSlotSound, SoundIsContents DEF Looked, Alike
<1> HIDE DEF p, q
<1>2. \A x : ListValue(x)[1] = "list" /\ "list" # "string"
  BY DEF ListValue
<1>3. ASSUME NEW x, k \in Present(p), TypeOf(p, k) = "list"
      PROVE  Removed(p, k, popped(p, k, x)) \/ Modified(p, q, k, popped(p, k, x))
  <2>1. CASE x = <<>>
    BY <1>1, <1>3, <2>1, RemoveEffect DEF popped, Removed
  <2>2. CASE x # <<>>
    <3> DEFINE u == put(p, k, ListValue(x))
    <3>1. /\ IsContents(u) /\ u.values = With(p.values, k, ListValue(x))
          /\ u.expiry = p.expiry /\ u.evictions = p.evictions
      BY <1>1, PutEffect
    <3>2. popped(p, k, x) = mutated(u)
      BY <2>2 DEF popped
    <3> HIDE DEF u
    <3>3. LET r == mutated(u)
          IN  /\ r.values = With(p.values, k, ListValue(x))
              /\ r.expiry = p.expiry /\ r.evictions = p.evictions /\ r.dirty = TRUE
      BY <3>1 DEF mutated, IsContents
    <3>4. q = p
      BY <1>1, <1>3
    <3> QED BY <1>2, <1>3, <3>2, <3>3, <3>4 DEF Modified
  <2> QED BY <2>1, <2>2
<1>4. \A r : Looked(p, r) \/ Removed(p, k, r) \/ Modified(p, q, k, r) => Effect(s, k, t, r)
  BY DEF Effect, p, q
<1>5. Effect(s, k, t, lpop(s, k, t).store)
  BY <1>1, <1>3, <1>4 DEF lpop, OnKind, Result, p
<1>6. Effect(s, k, t, rpop(s, k, t).store)
  BY <1>1, <1>3, <1>4 DEF rpop, OnKind, Result, p
<1> QED BY <1>5, <1>6

\* HSET and HDEL change the hash or, with its last field, remove k.
LEMMA HashEffects ==
  ASSUME NEW s, Sound(s), NEW k, NEW t
  PROVE  /\ \A pairs : Effect(s, k, t, hset(s, k, pairs, t).store)
         /\ \A fields : Effect(s, k, t, hdel(s, k, fields, t).store)
<1> DEFINE p == expireIfNeeded(s, k, t)
           q == reserveSlotFor(p, k, t)
<1>1. IsContents(p) /\ IsContents(q) /\ Looked(p, p) /\ (k \in Present(p) => q = p)
  BY ExpireIfNeededSound, ReserveSlotSound, SoundIsContents DEF Looked, Alike
<1> HIDE DEF p, q
<1>2. \A x : HashValue(x)[1] = "hash" /\ "hash" # "string"
  BY DEF HashValue
<1>3. ASSUME NEW x, k \in Present(p) => TypeOf(p, k) = "hash"
      PROVE  Modified(p, q, k, mutated(put(q, k, HashValue(x))))
  <2> DEFINE u == put(q, k, HashValue(x))
  <2>1. /\ IsContents(u) /\ u.values = With(q.values, k, HashValue(x))
        /\ u.expiry = q.expiry /\ u.evictions = q.evictions
    BY <1>1, PutEffect
  <2> HIDE DEF u
  <2>2. LET r == mutated(u)
        IN  /\ r.values = With(q.values, k, HashValue(x))
            /\ r.expiry = q.expiry /\ r.evictions = q.evictions /\ r.dirty = TRUE
    BY <2>1 DEF mutated, IsContents
  <2> QED BY <1>2, <1>3, <2>2 DEF Modified, u
<1>4. \A r : Looked(p, r) \/ Removed(p, k, r) \/ Modified(p, q, k, r) => Effect(s, k, t, r)
  BY DEF Effect, p, q
<1>5. ASSUME NEW pairs PROVE Effect(s, k, t, hset(s, k, pairs, t).store)
  <2> DEFINE old == ValueOf(p, k)
             all == [f \in DOMAIN pairs \cup DOMAIN old |->
                       IF f \in DOMAIN pairs THEN pairs[f] ELSE old[f]]
  <2>1. hset(s, k, pairs, t).store =
          IF k \notin Present(p) THEN mutated(put(q, k, HashValue(pairs)))
          ELSE IF TypeOf(p, k) # "hash" THEN p
          ELSE mutated(put(p, k, HashValue(all)))
    BY DEF hset, OnKind, Result, p, q
  <2> HIDE DEF all
  <2> QED BY <1>1, <1>3, <1>4, <2>1
<1>6. ASSUME NEW fields PROVE Effect(s, k, t, hdel(s, k, fields, t).store)
  <2> DEFINE h == ValueOf(p, k)
             rest == [f \in DOMAIN h \ fields |-> h[f]]
  <2>1. hdel(s, k, fields, t).store =
          IF k \notin Present(p) \/ TypeOf(p, k) # "hash" THEN p
          ELSE IF DOMAIN rest = {} THEN removeKey(p, k)
          ELSE IF DOMAIN h \cap fields = {} THEN p
          ELSE mutated(put(p, k, HashValue(rest)))
    BY DEF hdel, OnKind, Result, p
  <2> HIDE DEF rest, h
  <2>2. k \in Present(p) => Removed(p, k, removeKey(p, k))
    BY <1>1, RemoveEffect DEF Removed
  <2> QED BY <1>1, <1>3, <1>4, <2>1, <2>2
<1> QED BY <1>5, <1>6

-----------------------------------------------------------------------------
(***************************************************************************)
(* The live entries, and what lazy expiry and making room do to them.      *)
(***************************************************************************)
LiveEntry(s, k) ==
  [type     |-> TypeOf(s, k),
   value    |-> ValueOf(s, k),
   deadline |-> IF k \in DOMAIN s.expiry THEN s.expiry[k] ELSE 0]

Entries(s, t) == [k \in Live(s, t) |-> LiveEntry(s, k)]

\* r holds under x what s does.
SameAt(s, r, x) ==
  /\ x \in Present(s) <=> x \in Present(r)
  /\ x \in Present(s) => r.values[x] = s.values[x]
  /\ x \in DOMAIN s.expiry <=> x \in DOMAIN r.expiry
  /\ x \in DOMAIN s.expiry => r.expiry[x] = s.expiry[x]

\* What agrees under x is live, and the same, on both sides.
LEMMA SameEntry ==
  ASSUME NEW s, NEW r, NEW x, NEW t, SameAt(s, r, x)
  PROVE  /\ x \in Live(s, t) <=> x \in Live(r, t)
         /\ x \in Live(s, t) => LiveEntry(r, x) = LiveEntry(s, x)
BY DEF SameAt, Live, isExpired, LiveEntry, TypeOf, ValueOf, Present

\* Only what is stored under k, or k's deadline, differs.
LEMMA DropElsewhere ==
  ASSUME NEW s, NEW r, NEW k, r.values = Drop(s.values, k), r.expiry = Drop(s.expiry, k)
  PROVE  /\ Present(r) = Present(s) \ {k}
         /\ DOMAIN r.expiry = DOMAIN s.expiry \ {k}
         /\ \A x : x # k => SameAt(s, r, x)
<1>1. /\ DOMAIN Drop(s.values, k) = DOMAIN s.values \ {k}
      /\ \A x \in DOMAIN s.values : x # k => Drop(s.values, k)[x] = s.values[x]
  BY DEF Drop
<1>2. /\ DOMAIN Drop(s.expiry, k) = DOMAIN s.expiry \ {k}
      /\ \A x \in DOMAIN s.expiry : x # k => Drop(s.expiry, k)[x] = s.expiry[x]
  BY DEF Drop
<1> QED BY <1>1, <1>2 DEF SameAt, Present

Wrote(s, r, k, v) == r.values = With(s.values, k, v) /\ r.expiry = s.expiry

\* A value is stored under k and the deadlines stay.
LEMMA WithElsewhere ==
  ASSUME NEW s, NEW r, NEW k, NEW v, Wrote(s, r, k, v)
  PROVE  /\ Present(r) = Present(s) \cup {k} /\ r.values[k] = v
         /\ \A x : x # k => SameAt(s, r, x)
<1>1. /\ DOMAIN With(s.values, k, v) = DOMAIN s.values \cup {k}
      /\ With(s.values, k, v)[k] = v
      /\ \A x \in DOMAIN s.values : x # k => With(s.values, k, v)[x] = s.values[x]
  BY DEF With
<1> QED BY <1>1 DEF SameAt, Present, Wrote

OnlyRedated(s, r, k, t) == r.values = s.values /\ Redated(s.expiry, k, t, r)

\* Only the deadline of k is another, and it is yet to come.
LEMMA RedatedElsewhere ==
  ASSUME NEW s, NEW r, NEW k, NEW t, OnlyRedated(s, r, k, t)
  PROVE  /\ Present(r) = Present(s)
         /\ k \in DOMAIN r.expiry => r.expiry[k] \in Nat /\ r.expiry[k] > t
         /\ \A x : x # k => SameAt(s, r, x)
<1>1. CASE r.expiry = Drop(s.expiry, k)
  <2>1. /\ DOMAIN Drop(s.expiry, k) = DOMAIN s.expiry \ {k}
        /\ \A x \in DOMAIN s.expiry : x # k => Drop(s.expiry, k)[x] = s.expiry[x]
    BY DEF Drop
  <2> QED BY <1>1, <2>1 DEF SameAt, Present, OnlyRedated
<1>2. CASE \E d \in Nat : d > t /\ r.expiry = With(s.expiry, k, d)
  <2>1. PICK d \in Nat : d > t /\ r.expiry = With(s.expiry, k, d)
    BY <1>2
  <2>2. /\ DOMAIN With(s.expiry, k, d) = DOMAIN s.expiry \cup {k}
        /\ With(s.expiry, k, d)[k] = d
        /\ \A x \in DOMAIN s.expiry : x # k => With(s.expiry, k, d)[x] = s.expiry[x]
    BY DEF With
  <2> QED BY <2>1, <2>2 DEF SameAt, Present, OnlyRedated
<1> QED BY <1>1, <1>2 DEF Redated, OnlyRedated

\* The lazy expiry of k: if it does anything, k was due; if k is still there
\* it did nothing.
Elapsed(s, k, t, p) ==
  /\ Sound(p) /\ p.evictions = s.evictions
  /\ k \in Present(p) => p = s /\ k \in Live(s, t)
  /\ p = s \/ (p.dirty = TRUE /\ k \in Present(s) \ Live(s, t))
  /\ Present(p) = Present(s) \/ Present(p) = Present(s) \ {k}
  /\ \A x : x # k => SameAt(s, p, x)
  /\ Live(p, t) = Live(s, t) /\ Entries(p, t) = Entries(s, t)

LEMMA ExpiryEffect ==
  ASSUME NEW s, Sound(s), NEW k, NEW t
  PROVE  Elapsed(s, k, t, expireIfNeeded(s, k, t))
<1> DEFINE p == expireIfNeeded(s, k, t)
<1>1. CASE k \in Present(s) /\ isExpired(s, k, t)
  <2>1. p = removeKey(s, k)
    BY <1>1 DEF expireIfNeeded
  <2>2. Sound(p) /\ Present(p) = Present(s) \ {k} /\ p.evictions = s.evictions
    BY <2>1, RemoveSound
  <2>3. p.values = Drop(s.values, k) /\ p.expiry = Drop(s.expiry, k) /\ p.dirty = TRUE
    BY <1>1, <2>1 DEF removeKey, Sound, WellTyped
  <2> HIDE DEF p
  <2>4. \A x : x # k => SameAt(s, p, x)
    BY <2>3, DropElsewhere
  <2>5. k \notin Live(s, t) /\ k \notin Live(p, t)
    BY <1>1, <2>2 DEF Live
  <2>6. \A x : /\ x \in Live(s, t) <=> x \in Live(p, t)
               /\ x \in Live(s, t) => LiveEntry(p, x) = LiveEntry(s, x)
    BY <2>4, <2>5, SameEntry
  <2>7. Live(p, t) = Live(s, t)
    BY <2>6
  <2>8. Entries(p, t) = Entries(s, t)
    BY <2>6, <2>7 DEF Entries
  <2> QED BY <1>1, <2>2, <2>3, <2>4, <2>5, <2>7, <2>8 DEF p, Elapsed
<1>2. CASE ~(k \in Present(s) /\ isExpired(s, k, t))
  <2>1. p = s
    BY <1>2 DEF expireIfNeeded
  <2>2. \A x : SameAt(s, s, x)
    BY DEF SameAt
  <2> QED BY <1>2, <2>1, <2>2 DEF Live, Elapsed
<1> QED BY <1>1, <1>2

\* The full contents s, which lack k, gave up their least recently used key.
Relieved(s, k, t, q) ==
  LET victim == Last(s.lru)
  IN  /\ k \notin Present(s) /\ Cardinality(Present(s)) = MaxKeys
      /\ victim \in Present(s) /\ Present(q) = Present(s) \ {victim}
      /\ \A x : x # victim => SameAt(s, q, x)
      /\ DOMAIN q.expiry \subseteq DOMAIN s.expiry
      /\ q.dirty = TRUE
      /\ q.evictions = IF victim \in Live(s, t) THEN s.evictions + 1 ELSE s.evictions

\* Room is made for k only when the contents are full and lack k; contents
\* that an expiry has just relieved are not full.
LEMMA RoomEffect ==
  ASSUME NEW s, Sound(s), NEW k, NEW t
  PROVE  LET p == expireIfNeeded(s, k, t)
             q == reserveSlotFor(p, k, t)
         IN  q = p \/ (p = s /\ Relieved(s, k, t, q))
<1> DEFINE p == expireIfNeeded(s, k, t)
           q == reserveSlotFor(p, k, t)
<1>1. /\ Sound(p)
      /\ Present(p) = Present(s) \/ Present(p) = Present(s) \ {k}
      /\ p = s \/ k \in Present(s)
  BY ExpiryEffect DEF Elapsed
<1>2. /\ IsFiniteSet(Present(s)) /\ Cardinality(Present(s)) <= MaxKeys
      /\ Cardinality(Present(s)) \in Nat /\ MaxKeys \in Nat \ {0}
  BY FS_CardinalityType, CapacityAssumption DEF Sound, Fits
<1>3. CASE k \in Present(p) \/ ~(Cardinality(Present(p)) >= MaxKeys)
  BY <1>3 DEF reserveSlotFor
<1>4. CASE k \notin Present(p) /\ Cardinality(Present(p)) >= MaxKeys
  <2>1. p = s
    <3> HIDE DEF p
    <3>1. ASSUME p # s PROVE FALSE
      <4>1. k \in Present(s) /\ Present(p) = Present(s) \ {k}
        BY <1>1, <1>4, <3>1
      <4>2. Cardinality(Present(p)) = Cardinality(Present(s)) - 1
        BY <1>2, <4>1, FS_RemoveElement
      <4> QED BY <1>2, <1>4, <4>2
    <3> QED BY <3>1
  <2> HIDE DEF p
  <2> DEFINE victim == Last(s.lru)
             gone == removeKey(s, victim)
  <2>2. s.lru \in Seq(Keys) /\ ToSet(s.lru) = Present(s)
    BY DEF Sound, WellTyped, InLockstep
  <2>3. s.lru # <<>> /\ victim \in Present(s)
    <3>1. Present(s) # {}
      BY <1>2, <1>4, <2>1, FS_EmptySet
    <3>2. PICK i \in DOMAIN s.lru : TRUE
      BY <2>2, <3>1 DEF ToSet
    <3>3. Len(s.lru) \in Nat /\ DOMAIN s.lru = 1..Len(s.lru)
      BY <2>2, LenProperties
    <3>4. Len(s.lru) \in DOMAIN s.lru
      BY <3>2, <3>3
    <3> QED BY <2>2, <3>3, <3>4, EmptySeq DEF ToSet, Last
  <2>4. q = IF isExpired(s, victim, t) THEN gone ELSE [gone EXCEPT !.evictions = @ + 1]
    BY <1>4, <2>1, <2>3 DEF reserveSlotFor, makeRoomForNewKey
  <2>5. /\ IsContents(gone) /\ gone.values = Drop(s.values, victim)
        /\ gone.expiry = Drop(s.expiry, victim)
        /\ gone.evictions = s.evictions /\ gone.dirty = TRUE
    BY <2>3, RemoveEffect, SoundIsContents
  <2> HIDE DEF gone, victim, q
  <2>6. /\ q.values = Drop(s.values, victim) /\ q.expiry = Drop(s.expiry, victim)
        /\ q.dirty = TRUE
        /\ q.evictions = IF isExpired(s, victim, t) THEN s.evictions ELSE s.evictions + 1
    BY <2>4, <2>5 DEF IsContents
  <2>7. Present(q) = Present(s) \ {victim} /\ DOMAIN q.expiry \subseteq DOMAIN s.expiry
    BY <2>6, DropElsewhere
  <2>8. \A x : x # victim => SameAt(s, q, x)
    BY <2>6, DropElsewhere
  <2>9. victim \in Live(s, t) <=> ~isExpired(s, victim, t)
    BY <2>3 DEF Live
  <2>10. Cardinality(Present(s)) = MaxKeys
    BY <1>2, <1>4, <2>1
  <2> QED BY <1>4, <2>1, <2>3, <2>6, <2>7, <2>8, <2>9, <2>10 DEF Relieved, victim, p, q
<1> QED BY <1>3, <1>4

-----------------------------------------------------------------------------
(***************************************************************************)
(* What an effect comes to, away from k and at k.                          *)
(***************************************************************************)
\* To agree under x is transitive.
LEMMA SameTwice ==
  ASSUME NEW s, NEW p, NEW r, NEW x, SameAt(s, p, x), SameAt(p, r, x)
  PROVE  SameAt(s, r, x)
BY DEF SameAt

\* Nothing but k differs.
Alone(s, r, k) == r.evictions = s.evictions /\ \A x : x # k => SameAt(s, r, x)

\* A full store gave up its least recently used key for k.
InExchange(s, r, k, t) ==
  LET victim == Last(s.lru)
  IN  /\ victim \in Present(s) /\ k \in Present(r) \ Present(s)
      /\ Cardinality(Present(s)) = MaxKeys
      /\ Present(r) = (Present(s) \ {victim}) \cup {k}
      /\ \A x : x \notin {k, victim} => SameAt(s, r, x)
      /\ r.evictions = IF victim \in Live(s, t) THEN s.evictions + 1 ELSE s.evictions
      /\ r.dirty = TRUE

WroteAnew(q, r, k, t, v) == r.values = With(q.values, k, v) /\ Redated(q.expiry, k, t, r)

\* A value is stored under k together with its deadline.
LEMMA WriteElsewhere ==
  ASSUME NEW q, NEW r, NEW k, NEW t, NEW v, WroteAnew(q, r, k, t, v)
  PROVE  /\ Present(r) = Present(q) \cup {k} /\ r.values[k] = v
         /\ \A x : x # k => SameAt(q, r, x)
         /\ k \in DOMAIN r.expiry => r.expiry[k] \in Nat /\ r.expiry[k] > t
<1> DEFINE m == [values |-> q.values, expiry |-> r.expiry]
<1>1. m.values = q.values /\ m.expiry = r.expiry
  OBVIOUS
<1> HIDE DEF m
<1>2. /\ Present(r) = Present(m) \cup {k} /\ r.values[k] = v
      /\ \A x : x # k => SameAt(m, r, x)
  <2>1. Wrote(m, r, k, v)
    BY <1>1 DEF Wrote, WroteAnew
  <2> QED BY <2>1, WithElsewhere
<1>3. /\ Present(m) = Present(q)
      /\ k \in DOMAIN m.expiry => m.expiry[k] \in Nat /\ m.expiry[k] > t
      /\ \A x : x # k => SameAt(q, m, x)
  <2>1. OnlyRedated(q, m, k, t)
    BY <1>1 DEF Redated, OnlyRedated, WroteAnew
  <2> QED BY <2>1, RedatedElsewhere
<1> QED BY <1>1, <1>2, <1>3, SameTwice

\* Either nothing but k differs, or the least recently used key of a full
\* store went for k.
LEMMA EffectElsewhere ==
  ASSUME NEW s, Sound(s), NEW k, NEW t, NEW r, Effect(s, k, t, r)
  PROVE  Alone(s, r, k) \/ InExchange(s, r, k, t)
<1> DEFINE p == expireIfNeeded(s, k, t)
           q == reserveSlotFor(p, k, t)
           victim == Last(s.lru)
<1>1. p.evictions = s.evictions /\ \A x : x # k => SameAt(s, p, x)
  BY ExpiryEffect DEF Elapsed
<1>2. q = p \/ (p = s /\ Relieved(s, k, t, q))
  BY RoomEffect
<1>3. \/ Looked(p, r) \/ Removed(p, k, r) \/ Rescheduled(p, k, t, r)
      \/ Replaced(q, k, t, r) \/ Modified(p, q, k, r)
  BY DEF Effect
<1> HIDE DEF p, q, victim
<1>4. ASSUME r.evictions = p.evictions, \A x : x # k => SameAt(p, r, x)
      PROVE  Alone(s, r, k)
  BY <1>1, <1>4, SameTwice DEF Alone
<1>5. CASE Looked(p, r)
  <2>1. \A x : SameAt(p, r, x)
    BY <1>5 DEF Looked, Alike, SameAt, Present
  <2> QED BY <1>4, <1>5, <2>1 DEF Looked, Alike
<1>6. CASE Removed(p, k, r)
  <2>1. r.values = Drop(p.values, k) /\ r.expiry = Drop(p.expiry, k) /\ r.evictions = p.evictions
    BY <1>6 DEF Removed
  <2>2. \A x : x # k => SameAt(p, r, x)
    BY <2>1, DropElsewhere
  <2> QED BY <1>4, <2>1, <2>2
<1>7. CASE Rescheduled(p, k, t, r)
  <2>1. OnlyRedated(p, r, k, t) /\ r.evictions = p.evictions
    BY <1>7 DEF Rescheduled, OnlyRedated
  <2>2. \A x : x # k => SameAt(p, r, x)
    BY <2>1, RedatedElsewhere
  <2> QED BY <1>4, <2>1, <2>2
<1>8. CASE Replaced(q, k, t, r) \/ Modified(p, q, k, r)
  <2>1. /\ r.evictions = q.evictions /\ (r.dirty = TRUE \/ r.dirty = q.dirty)
        /\ Present(r) = Present(q) \cup {k} /\ \A x : x # k => SameAt(q, r, x)
    <3>1. CASE Replaced(q, k, t, r)
      <4>1. PICK v : v[1] = "string" /\ r.values = With(q.values, k, v)
        BY <3>1 DEF Replaced
      <4>2. WroteAnew(q, r, k, t, v) /\ r.evictions = q.evictions /\ r.dirty = TRUE
        BY <3>1, <4>1 DEF Replaced, WroteAnew
      <4> QED BY <4>1, <4>2, WriteElsewhere
    <3>2. CASE Modified(p, q, k, r)
      <4>1. PICK v : /\ Wrote(q, r, k, v)
                     /\ r.evictions = q.evictions /\ (r.dirty = TRUE \/ r.dirty = q.dirty)
        BY <3>2 DEF Modified, Wrote
      <4>2. Present(r) = Present(q) \cup {k} /\ \A x : x # k => SameAt(q, r, x)
        BY <4>1, WithElsewhere
      <4> QED BY <4>1, <4>2
    <3> QED BY <1>8, <3>1, <3>2
  <2>2. CASE q = p
    BY <1>4, <2>1, <2>2
  <2>3. CASE q # p
    <3>1. \A x : x \notin {k, victim} => SameAt(s, r, x)
      BY <1>2, <2>1, <2>3, SameTwice DEF Relieved, victim
    <3> QED BY <1>2, <2>1, <2>3, <3>1 DEF InExchange, Relieved, victim
  <2> QED BY <2>2, <2>3
<1> QED BY <1>3, <1>5, <1>6, <1>7, <1>8

\* What k may become.
KeptAt(s, r, k, t) == Live(r, t) = Live(s, t) /\ Entries(r, t) = Entries(s, t)

RemovedAt(s, r, k, t) == k \in Live(s, t) /\ k \notin Present(r)

RescheduledAt(s, r, k, t) ==
  /\ k \in Live(s, t) /\ k \in Present(r) /\ r.values[k] = s.values[k]
  /\ k \in DOMAIN r.expiry => r.expiry[k] \in Nat /\ r.expiry[k] > t

ReplacedAt(s, r, k, t) ==
  /\ k \in Present(r) /\ r.values[k][1] = "string"
  /\ k \in DOMAIN r.expiry => r.expiry[k] \in Nat /\ r.expiry[k] > t

ModifiedAt(s, r, k, t) ==
  /\ k \in Present(r) /\ r.values[k][1] # "string"
  /\ IF k \in Live(s, t)
       THEN /\ r.values[k][1] = s.values[k][1]
            /\ k \in DOMAIN r.expiry <=> k \in DOMAIN s.expiry
            /\ k \in DOMAIN s.expiry => r.expiry[k] = s.expiry[k]
       ELSE k \notin DOMAIN r.expiry

\* Every effect makes of k one of these.
LEMMA EffectAtKey ==
  ASSUME NEW s, Sound(s), NEW k, NEW t, NEW r, Effect(s, k, t, r)
  PROVE  \/ KeptAt(s, r, k, t) \/ RemovedAt(s, r, k, t) \/ RescheduledAt(s, r, k, t)
         \/ ReplacedAt(s, r, k, t) \/ ModifiedAt(s, r, k, t)
<1> DEFINE p == expireIfNeeded(s, k, t)
           q == reserveSlotFor(p, k, t)
<1>0. Elapsed(s, k, t, p)
  BY ExpiryEffect
<1>1. /\ Sound(p)
      /\ k \in Present(p) => p = s /\ k \in Live(s, t)
      /\ Live(p, t) = Live(s, t) /\ Entries(p, t) = Entries(s, t)
  <2> HIDE DEF p, q
  <2> QED BY <1>0 DEF Elapsed
<1>2. q = p \/ (p = s /\ Relieved(s, k, t, q))
  BY RoomEffect
<1>3. \/ Looked(p, r) \/ Removed(p, k, r) \/ Rescheduled(p, k, t, r)
      \/ Replaced(q, k, t, r) \/ Modified(p, q, k, r)
  BY DEF Effect
<1> HIDE DEF p, q
<1>4. k \in Live(s, t) => k \in Present(p)
  BY <1>1 DEF Live
<1>5. k \notin Present(p) => k \notin DOMAIN q.expiry
  BY <1>1, <1>2 DEF Sound, InLockstep, Relieved
<1>6. CASE Looked(p, r)
  <2>1. r.values = p.values /\ r.expiry = p.expiry
    BY <1>6 DEF Looked, Alike
  <2>2. \A x : SameAt(p, r, x)
    BY <2>1 DEF SameAt, Present
  <2>3. \A x : /\ x \in Live(p, t) <=> x \in Live(r, t)
               /\ x \in Live(p, t) => LiveEntry(r, x) = LiveEntry(p, x)
    BY <2>2, SameEntry
  <2>4. Live(r, t) = Live(p, t)
    BY <2>3
  <2>5. Entries(r, t) = Entries(p, t)
    BY <2>3, <2>4 DEF Entries
  <2> QED BY <1>1, <2>4, <2>5 DEF KeptAt
<1>7. CASE Removed(p, k, r)
  <2>1. r.values = Drop(p.values, k) /\ r.expiry = Drop(p.expiry, k)
    BY <1>7 DEF Removed
  <2>2. Present(r) = Present(p) \ {k}
    BY <2>1, DropElsewhere
  <2> QED BY <1>1, <1>7, <2>2 DEF Removed, RemovedAt
<1>8. CASE Rescheduled(p, k, t, r)
  <2>1. OnlyRedated(p, r, k, t) /\ r.values = p.values /\ k \in Present(p) /\ p = s
    BY <1>1, <1>8 DEF Rescheduled, OnlyRedated
  <2>2. /\ Present(r) = Present(p)
        /\ k \in DOMAIN r.expiry => r.expiry[k] \in Nat /\ r.expiry[k] > t
    BY <2>1, RedatedElsewhere
  <2> QED BY <1>1, <2>1, <2>2 DEF RescheduledAt
<1>9. CASE Replaced(q, k, t, r)
  <2>1. PICK v : v[1] = "string" /\ r.values = With(q.values, k, v)
    BY <1>9 DEF Replaced
  <2>2. WroteAnew(q, r, k, t, v)
    BY <1>9, <2>1 DEF Replaced, WroteAnew
  <2>3. /\ Present(r) = Present(q) \cup {k} /\ r.values[k] = v
        /\ k \in DOMAIN r.expiry => r.expiry[k] \in Nat /\ r.expiry[k] > t
    BY <2>2, WriteElsewhere
  <2> QED BY <2>1, <2>3 DEF ReplacedAt
<1>10. CASE Modified(p, q, k, r)
  <2>1. PICK v : /\ v[1] # "string" /\ Wrote(q, r, k, v)
                 /\ k \in Present(p) => v[1] = TypeOf(p, k)
    BY <1>10 DEF Modified, Wrote
  <2>2. Present(r) = Present(q) \cup {k} /\ r.values[k] = v
    BY <2>1, WithElsewhere
  <2>3. r.expiry = q.expiry
    BY <2>1 DEF Wrote
  <2>4. CASE k \in Present(p)
    <3>1. p = s /\ q = s
      BY <1>1, <1>2, <2>4 DEF Relieved
    <3> QED BY <1>1, <2>1, <2>2, <2>3, <2>4, <3>1 DEF ModifiedAt, TypeOf
  <2>5. CASE k \notin Present(p)
    BY <1>4, <1>5, <2>1, <2>2, <2>3, <2>5 DEF ModifiedAt
  <2> QED BY <2>4, <2>5
<1> QED BY <1>3, <1>6, <1>7, <1>8, <1>9, <1>10

-----------------------------------------------------------------------------
(***************************************************************************)
(* The two laws of a step.                                                 *)
(***************************************************************************)
TwoWays(s, r, t) ==
  LET gone == Live(s, t) \ Present(r)
  IN  IF r.evictions = s.evictions
        THEN gone # {} => Cardinality(gone) = 1 /\ Present(r) = Present(s) \ gone
        ELSE /\ r.evictions = s.evictions + 1
             /\ gone = {Last(s.lru)}
             /\ Present(r) \ Present(s) # {} /\ Cardinality(Present(s)) = MaxKeys

Counted(s, r) ==
  <<r.values, r.expiry>> # <<s.values, s.expiry>> /\ ~r.dirty =>
     \E k \in Present(r) \ Present(s) :
        Present(r) = Present(s) \cup {k} /\ Holds(r, k, "list")

\* No command loses a live key in another way.
LEMMA EffectTwoWays ==
  ASSUME NEW s, Sound(s), NEW k, NEW t, NEW r, Effect(s, k, t, r)
  PROVE  TwoWays(s, r, t)
<1> DEFINE gone == Live(s, t) \ Present(r)
           victim == Last(s.lru)
<1>1. Live(s, t) \subseteq Present(s)
  BY DEF Live
<1>2. CASE Alone(s, r, k)
  <2>1. r.evictions = s.evictions /\ \A x : x # k => (x \in Present(s) <=> x \in Present(r))
    BY <1>2 DEF Alone, SameAt
  <2>2. gone # {} => gone = {k} /\ Present(r) = Present(s) \ gone
    BY <1>1, <2>1
  <2>3. Cardinality({k}) = 1
    BY FS_Singleton
  <2> QED BY <2>1, <2>2, <2>3 DEF TwoWays
<1>3. CASE InExchange(s, r, k, t)
  <2>1. /\ victim \in Present(s) /\ k \in Present(r) \ Present(s)
        /\ Cardinality(Present(s)) = MaxKeys
        /\ Present(r) = (Present(s) \ {victim}) \cup {k}
        /\ r.evictions = IF victim \in Live(s, t) THEN s.evictions + 1 ELSE s.evictions
    BY <1>3 DEF InExchange
  <2>2. s.evictions \in Nat
    BY DEF Sound, WellTyped
  <2> HIDE DEF victim
  <2>3. gone = IF victim \in Live(s, t) THEN {victim} ELSE {}
    BY <1>1, <2>1
  <2>4. s.evictions + 1 # s.evictions
    BY <2>2
  <2> QED BY <2>1, <2>3, <2>4 DEF TwoWays, victim
<1> QED BY <1>2, <1>3, EffectElsewhere

\* No command but the creation of a list goes uncounted.
LEMMA EffectCounted ==
  ASSUME NEW s, Sound(s), NEW k, NEW t, NEW r, Effect(s, k, t, r)
  PROVE  Counted(s, r)
<1> DEFINE p == expireIfNeeded(s, k, t)
           q == reserveSlotFor(p, k, t)
<1>1. p = s \/ p.dirty = TRUE
  BY ExpiryEffect DEF Elapsed
<1>2. q = p \/ q.dirty = TRUE
  BY RoomEffect DEF Relieved
<1>3. \/ Looked(p, r) \/ Removed(p, k, r) \/ Rescheduled(p, k, t, r)
      \/ Replaced(q, k, t, r) \/ Modified(p, q, k, r)
  BY DEF Effect
<1> HIDE DEF p, q
<1>4. CASE r.dirty = TRUE
  BY <1>4 DEF Counted
<1>5. CASE Looked(p, r)
  BY <1>1, <1>5 DEF Looked, Alike, Counted
<1>6. CASE Modified(p, q, k, r) /\ ~(r.dirty = TRUE)
  <2>1. PICK v : /\ Wrote(q, r, k, v) /\ k \notin Present(p) /\ v[1] = "list"
                 /\ r.dirty = q.dirty
    BY <1>6 DEF Modified, Wrote
  <2>2. q = s /\ p = s
    BY <1>1, <1>2, <1>6, <2>1
  <2>3. Present(r) = Present(q) \cup {k} /\ r.values[k] = v
    BY <2>1, WithElsewhere
  <2> QED BY <2>1, <2>2, <2>3 DEF Counted, Holds, TypeOf
<1> QED BY <1>3, <1>4, <1>5, <1>6 DEF Removed, Rescheduled, Replaced

-----------------------------------------------------------------------------
(***************************************************************************)
(* The steps of the specification.                                         *)
(***************************************************************************)
\* Every command is an effect on the key it addresses.
LEMMA CommandEffect ==
  ASSUME IInv, NEW k \in Keys, Command(k)
  PROVE  Effect(store, k, now, store') /\ now' = now
<1>1. Sound(store) /\ now \in Nat
  BY DEF IInv
<1>2. CASE StringCommand(k)
  <2>1. CASE Get(k)
    BY <1>1, <2>1, ReadEffects DEF Get, Call
  <2>2. CASE \E v \in Vals, secs \in Ttls \cup {NoTTL} : Set(k, v, secs)
    <3>1. PICK v \in Vals, secs \in Ttls \cup {NoTTL} : Set(k, v, secs)
      BY <2>2
    <3>2. secs \in Nat
      BY <3>1, TtlAssumption DEF NoTTL
    <3> QED BY <1>1, <3>1, <3>2, SetEffect DEF Set, Call
  <2> QED BY <1>2, <2>1, <2>2 DEF StringCommand
<1>3. CASE KeyCommand(k)
  <2>1. CASE Del(k)
    BY <1>1, <2>1, ReadEffects DEF Del, Call
  <2>2. CASE Exists(k)
    BY <1>1, <2>2, ReadEffects DEF Exists, Call
  <2>3. CASE Ttl(k)
    BY <1>1, <2>3, ReadEffects DEF Ttl, Call
  <2>4. CASE KeyType(k)
    BY <1>1, <2>4, ReadEffects DEF KeyType, Call
  <2>5. CASE Persist(k)
    <3>1. \A secs \in Nat \ {0} : Effect(store, k, now, persist(store, k, now).store)
      BY <1>1, DeadlineEffects
    <3>2. 1 \in Nat \ {0}
      OBVIOUS
    <3> QED BY <2>5, <3>1, <3>2 DEF Persist, Call
  <2>6. CASE \E secs \in Ttls : Expire(k, secs)
    <3>1. PICK secs \in Ttls : Expire(k, secs)
      BY <2>6
    <3> QED BY <1>1, <3>1, TtlAssumption, DeadlineEffects DEF Expire, Call
  <2> QED BY <1>3, <2>1, <2>2, <2>3, <2>4, <2>5, <2>6 DEF KeyCommand
<1>4. CASE ListCommand(k)
  <2>1. CASE \E vals \in Arguments : LPush(k, vals) \/ RPush(k, vals)
    BY <1>1, <2>1, PushEffects DEF LPush, RPush, Call
  <2>2. CASE LPop(k) \/ RPop(k)
    BY <1>1, <2>2, PopEffects DEF LPop, RPop, Call
  <2>3. CASE LLen(k)
    BY <1>1, <2>3, ReadEffects DEF LLen, Call
  <2>4. CASE \E i, j \in Indices : LRange(k, i, j)
    BY <1>1, <2>4, ReadEffects DEF LRange, Call
  <2> QED BY <1>4, <2>1, <2>2, <2>3, <2>4 DEF ListCommand
<1>5. CASE HashCommand(k)
  <2>1. CASE \E pairs \in Pairs : HSet(k, pairs)
    BY <1>1, <2>1, HashEffects DEF HSet, Call
  <2>2. CASE \E f \in Fields : HGet(k, f)
    BY <1>1, <2>2, ReadEffects DEF HGet, Call
  <2>3. CASE \E fields \in (SUBSET Fields) \ {{}} : HDel(k, fields)
    BY <1>1, <2>3, HashEffects DEF HDel, Call
  <2>4. CASE HGetAll(k)
    BY <1>1, <2>4, ReadEffects DEF HGetAll, Call
  <2>5. CASE HLen(k)
    BY <1>1, <2>5, ReadEffects DEF HLen, Call
  <2> QED BY <1>5, <2>1, <2>2, <2>3, <2>4, <2>5 DEF HashCommand
<1> QED BY <1>2, <1>3, <1>4, <1>5 DEF Command

\* The loops over expired keys, the walk of the statistics page and the mark
\* of a save: at most one key is removed, and nothing else that is live or
\* counted changes.
Trimmed(s, k, r) == Looked(s, r) \/ Removed(s, k, r)
                    \/ (r.values = s.values /\ r.expiry = s.expiry /\ r.evictions = s.evictions)

\* Removing a key outright trims.
LEMMA RemoveTrims ==
  ASSUME NEW s, Sound(s), NEW k
  PROVE  Trimmed(s, k, removeKey(s, k))
<1>1. CASE k \in Present(s)
  BY <1>1, SoundIsContents, RemoveEffect DEF Trimmed, Removed
<1>2. CASE k \notin Present(s)
  BY <1>2, SoundIsContents, RemoveEffect DEF Trimmed
<1> QED BY <1>1, <1>2

\* A step that is no command trims, or is the clock's.
LEMMA OtherSteps ==
  ASSUME IInv, [Next]_vars, ~(\E k \in Keys : Command(k))
  PROVE  \/ \E k : Trimmed(store, k, store') /\ now' = now
         \/ store' = store /\ now' \in Nat /\ now' > now
<1>1. Sound(store) /\ now \in Nat
  BY DEF IInv
<1>2. ASSUME NEW k \in Keys, Reclaim(k) PROVE Trimmed(store, k, store') /\ now' = now
  BY <1>1, <1>2, RemoveTrims DEF Reclaim
<1>3. ASSUME KeysMRU PROVE \E k : Trimmed(store, k, store') /\ now' = now
  <2>1. \E k : keysMRU(store, now).store \in {store, removeKey(store, k)}
    BY DEF keysMRU, Result
  <2>2. PICK k : store' \in {store, removeKey(store, k)}
    BY <1>3, <2>1 DEF KeysMRU, Call
  <2>3. Trimmed(store, k, store')
    BY <1>1, <2>2, RemoveTrims DEF Trimmed
  <2> QED BY <1>3, <2>3 DEF KeysMRU, Call
<1>4. ASSUME KeysCommand \/ SweepExpired \/ Recorded \/ UNCHANGED vars
      PROVE  Trimmed(store, 0, store') /\ now' = now
  BY <1>1, <1>4 DEF KeysCommand, SweepExpired, Recorded, vars, Trimmed, Sound, WellTyped
<1>5. ASSUME Tick PROVE store' = store /\ now' \in Nat /\ now' > now
  BY <1>1, <1>5 DEF Tick
<1> QED BY <1>2, <1>3, <1>4, <1>5 DEF Next

\* Trimming keeps both laws.
LEMMA TrimmedLaws ==
  ASSUME NEW s, Sound(s), NEW k, NEW t, NEW r, Trimmed(s, k, r)
  PROVE  TwoWays(s, r, t) /\ Counted(s, r)
<1>1. CASE r.values = s.values /\ r.expiry = s.expiry /\ r.evictions = s.evictions
  BY <1>1 DEF TwoWays, Counted, Live, Present
<1>2. CASE Removed(s, k, r)
  <2>1. r.values = Drop(s.values, k) /\ r.expiry = Drop(s.expiry, k)
    BY <1>2 DEF Removed
  <2>2. Present(r) = Present(s) \ {k} /\ Cardinality({k}) = 1 /\ Live(s, t) \subseteq Present(s)
    BY <2>1, DropElsewhere, FS_Singleton DEF Live
  <2>3. Live(s, t) \ Present(r) # {} => Live(s, t) \ Present(r) = {k}
    BY <2>2
  <2> QED BY <1>2, <2>2, <2>3 DEF Removed, TwoWays, Counted
<1> QED BY <1>1, <1>2 DEF Trimmed, Looked, Alike

\* So does every step.
LEMMA NextLaws ==
  ASSUME IInv, [Next]_vars
  PROVE  TwoWays(store, store', now) /\ Counted(store, store')
<1>1. Sound(store)
  BY DEF IInv
<1>2. ASSUME NEW k \in Keys, Command(k)
      PROVE  TwoWays(store, store', now) /\ Counted(store, store')
  BY <1>1, <1>2, CommandEffect, EffectTwoWays, EffectCounted
<1>3. CASE ~(\E k \in Keys : Command(k))
  <2>1. CASE \E k : Trimmed(store, k, store') /\ now' = now
    BY <1>1, <2>1, TrimmedLaws
  <2>2. CASE store' = store
    <3>1. Trimmed(store, 0, store')
      BY <2>2 DEF Trimmed
    <3> QED BY <1>1, <3>1, TrimmedLaws
  <2> QED BY <1>3, <2>1, <2>2, OtherSteps
<1> QED BY <1>2, <1>3

\* A live key leaves alone and by a command, or as the one eviction that makes
\* room in a full store, counted as such: whatever the capacity and the keys.
THEOREM LiveKeysLeaveTwoWaysHolds == Spec => LiveKeysLeaveTwoWays
<1>1. IInv /\ [Next]_vars =>
        [IF store'.evictions = store.evictions
           THEN Gone # {} => /\ Cardinality(Gone) = 1
                             /\ Present(store') = Present(store) \ Gone
           ELSE /\ store'.evictions = store.evictions + 1
                /\ Gone = {Last(store.lru)}
                /\ New # {} /\ Cardinality(Present(store)) = MaxKeys]_vars
  BY NextLaws DEF TwoWays, Gone, New
<1> QED BY <1>1, StoreInvariant, PTL DEF Spec, LiveKeysLeaveTwoWays

\* Every change of data or deadlines but the creation of a list moves the
\* mutation count, so that the next save is not skipped.
THEOREM OtherMutationsCountedHolds == Spec => OtherMutationsCounted
<1>1. IInv /\ [Next]_vars =>
        [Changed /\ ~store'.dirty =>
           \E k \in New : /\ Present(store') = Present(store) \cup {k}
                          /\ Holds(store', k, "list")]_vars
  BY NextLaws DEF Counted, Changed, New
<1> QED BY <1>1, StoreInvariant, PTL DEF Spec, OtherMutationsCounted

-----------------------------------------------------------------------------
(***************************************************************************)
(* The storage contract, as a relation of the live entries before (L) and  *)
(* after (M) a step.                                                       *)
(***************************************************************************)
OthersStay(L, M, k) ==
  LET others  == DOMAIN L \ {k}
      others2 == DOMAIN M \ {k}
  IN  /\ others2 \subseteq others
      /\ \A x \in others2 : M[x] = L[x]
      /\ \/ others2 = others
         \/ /\ k \notin DOMAIN L /\ k \in DOMAIN M
            /\ \E victim \in others : others2 = others \ {victim}

OnTime(entry, t) == entry.deadline = 0 \/ entry.deadline > t

ContractAt(L, M, k, t) ==
  \/ k \in DOMAIN M /\ M[k].type = "string" /\ OnTime(M[k], t)
  \/ /\ k \in DOMAIN M /\ M[k].type # "string"
     /\ IF k \in DOMAIN L
          THEN M[k].type = L[k].type /\ M[k].deadline = L[k].deadline
          ELSE M[k].deadline = 0
  \/ /\ k \in DOMAIN L /\ k \in DOMAIN M
     /\ M[k].type = L[k].type /\ M[k].value = L[k].value /\ OnTime(M[k], t)
  \/ k \in DOMAIN L /\ k \notin DOMAIN M

\* The entries are those of the live keys.
LEMMA EntriesDomain ==
  ASSUME NEW s, NEW t
  PROVE  DOMAIN Entries(s, t) = Live(s, t) /\ \A x \in Live(s, t) : Entries(s, t)[x] = LiveEntry(s, x)
BY DEF Entries

\* At the key, an effect is one of the contract's four changes, or none.
LEMMA EffectAtKeyLive ==
  ASSUME NEW s, Sound(s), NEW k, NEW t \in Nat, NEW r, Effect(s, k, t, r)
  PROVE  \/ KeptAt(s, r, k, t)
         \/ ContractAt(Entries(s, t), Entries(r, t), k, t) /\ (k \in Live(r, t) \/ k \notin Present(r))
<1> DEFINE L == Entries(s, t)
           M == Entries(r, t)
<1>1. /\ DOMAIN L = Live(s, t) /\ \A x \in Live(s, t) : L[x] = LiveEntry(s, x)
      /\ DOMAIN M = Live(r, t) /\ \A x \in Live(r, t) : M[x] = LiveEntry(r, x)
  BY EntriesDomain
<1> HIDE DEF L, M
<1>2. CASE RemovedAt(s, r, k, t)
  BY <1>1, <1>2 DEF RemovedAt, ContractAt, Live, L, M
<1>3. ASSUME k \in Present(r), k \in DOMAIN r.expiry => r.expiry[k] \in Nat /\ r.expiry[k] > t
      PROVE  k \in Live(r, t) /\ OnTime(LiveEntry(r, k), t)
  BY <1>3 DEF Live, isExpired, OnTime, LiveEntry
<1>4. CASE RescheduledAt(s, r, k, t)
  <2>1. k \in Live(s, t) /\ k \in Live(r, t) /\ OnTime(M[k], t)
    BY <1>1, <1>3, <1>4 DEF RescheduledAt
  <2>2. M[k].type = L[k].type /\ M[k].value = L[k].value
    BY <1>1, <1>4, <2>1 DEF RescheduledAt, LiveEntry, TypeOf, ValueOf
  <2> QED BY <1>1, <2>1, <2>2 DEF ContractAt, L, M
<1>5. CASE ReplacedAt(s, r, k, t)
  <2>1. k \in Live(r, t) /\ OnTime(M[k], t)
    BY <1>1, <1>3, <1>5 DEF ReplacedAt
  <2>2. M[k].type = "string"
    BY <1>1, <1>5, <2>1 DEF ReplacedAt, LiveEntry, TypeOf
  <2> QED BY <1>1, <2>1, <2>2 DEF ContractAt, L, M
<1>6. CASE ModifiedAt(s, r, k, t)
  <2>1. k \in Live(r, t)
    BY <1>6 DEF ModifiedAt, Live, isExpired
  <2>2. M[k] = LiveEntry(r, k) /\ LiveEntry(r, k).type # "string"
    BY <1>1, <1>6, <2>1 DEF ModifiedAt, LiveEntry, TypeOf
  <2>3. CASE k \in Live(s, t)
    <3>1. L[k] = LiveEntry(s, k)
      BY <1>1, <2>3
    <3>2. LiveEntry(r, k).type = LiveEntry(s, k).type /\ LiveEntry(r, k).deadline = LiveEntry(s, k).deadline
      BY <1>6, <2>3 DEF ModifiedAt, LiveEntry, TypeOf
    <3> QED BY <1>1, <2>1, <2>2, <2>3, <3>1, <3>2 DEF ContractAt, L, M
  <2>4. CASE k \notin Live(s, t)
    <3>1. LiveEntry(r, k).deadline = 0
      BY <1>6, <2>4 DEF ModifiedAt, LiveEntry
    <3> QED BY <1>1, <2>1, <2>2, <2>4, <3>1 DEF ContractAt, L, M
  <2> QED BY <2>3, <2>4
<1> QED BY <1>2, <1>4, <1>5, <1>6, EffectAtKey

\* Every effect is a change the contract allows, or changes nothing live.
LEMMA EffectContract ==
  ASSUME NEW s, Sound(s), NEW k, NEW t \in Nat, NEW r, Effect(s, k, t, r)
  PROVE  LET L == Entries(s, t)
             M == Entries(r, t)
         IN  M = L \/ (ContractAt(L, M, k, t) /\ OthersStay(L, M, k))
<1> DEFINE L == Entries(s, t)
           M == Entries(r, t)
           victim == Last(s.lru)
<1>1. /\ DOMAIN L = Live(s, t) /\ \A x \in Live(s, t) : L[x] = LiveEntry(s, x)
      /\ DOMAIN M = Live(r, t) /\ \A x \in Live(r, t) : M[x] = LiveEntry(r, x)
  BY EntriesDomain
<1>2. \/ M = L
      \/ ContractAt(L, M, k, t) /\ (k \in Live(r, t) \/ k \notin Present(r))
  BY EffectAtKeyLive DEF KeptAt
<1> HIDE DEF L, M
<1>3. CASE Alone(s, r, k)
  <2>1. \A x : x # k => /\ x \in Live(s, t) <=> x \in Live(r, t)
                        /\ x \in Live(s, t) => LiveEntry(r, x) = LiveEntry(s, x)
    BY <1>3, SameEntry DEF Alone
  <2>2. DOMAIN M \ {k} = DOMAIN L \ {k} /\ \A x \in DOMAIN M \ {k} : M[x] = L[x]
    BY <1>1, <2>1
  <2>3. OthersStay(L, M, k)
    BY <2>2 DEF OthersStay
  <2> QED BY <1>2, <2>3 DEF L, M
<1>4. CASE InExchange(s, r, k, t) /\ M # L
  <2>1. /\ victim \in Present(s) /\ k \in Present(r) \ Present(s)
        /\ Present(r) = (Present(s) \ {victim}) \cup {k}
        /\ \A x : x \notin {k, victim} => SameAt(s, r, x)
    BY <1>4 DEF InExchange
  <2> HIDE DEF victim
  <2>2. k \in Live(r, t) /\ k \notin Live(s, t) /\ victim \notin Live(r, t)
    BY <1>2, <1>4, <2>1 DEF Live
  <2>3. \A x : x \notin {k, victim} => /\ x \in Live(s, t) <=> x \in Live(r, t)
                                       /\ x \in Live(s, t) => LiveEntry(r, x) = LiveEntry(s, x)
    BY <2>1, SameEntry
  <2>4. /\ DOMAIN M \ {k} = (DOMAIN L \ {k}) \ {victim}
        /\ \A x \in DOMAIN M \ {k} : M[x] = L[x]
    BY <1>1, <2>2, <2>3
  <2>5. CASE victim \in DOMAIN L \ {k}
    BY <1>1, <2>2, <2>4, <2>5, <1>2, <1>4 DEF OthersStay, L, M
  <2>6. CASE victim \notin DOMAIN L \ {k}
    <3>1. DOMAIN M \ {k} = DOMAIN L \ {k}
      BY <2>4, <2>6
    <3>2. OthersStay(L, M, k)
      BY <2>4, <3>1 DEF OthersStay
    <3> QED BY <1>2, <1>4, <3>2 DEF L, M
  <2> QED BY <2>5, <2>6
<1> QED BY <1>3, <1>4, EffectElsewhere DEF L, M

\* Removing a key outright: it was live and is removed, or nothing live changes.
LEMMA TrimmedContract ==
  ASSUME NEW s, Sound(s), NEW k, NEW t \in Nat, NEW r, Trimmed(s, k, r)
  PROVE  LET L == Entries(s, t)
             M == Entries(r, t)
         IN  M = L \/ (k \in Keys /\ ContractAt(L, M, k, t) /\ OthersStay(L, M, k))
<1> DEFINE L == Entries(s, t)
           M == Entries(r, t)
<1>1. /\ DOMAIN L = Live(s, t) /\ \A x \in Live(s, t) : L[x] = LiveEntry(s, x)
      /\ DOMAIN M = Live(r, t) /\ \A x \in Live(r, t) : M[x] = LiveEntry(r, x)
  BY EntriesDomain
<1>2. CASE r.values = s.values /\ r.expiry = s.expiry
  BY <1>2 DEF Entries, Live, Present, isExpired, LiveEntry, TypeOf, ValueOf
<1>3. CASE Removed(s, k, r)
  <2>1. r.values = Drop(s.values, k) /\ r.expiry = Drop(s.expiry, k) /\ k \in Keys
    BY <1>3 DEF Removed, Sound, WellTyped
  <2>2. Present(r) = Present(s) \ {k} /\ \A x : x # k => SameAt(s, r, x)
    BY <2>1, DropElsewhere
  <2>3. \A x : x # k => /\ x \in Live(s, t) <=> x \in Live(r, t)
                        /\ x \in Live(s, t) => LiveEntry(r, x) = LiveEntry(s, x)
    BY <2>2, SameEntry
  <2>4. k \notin Live(r, t)
    BY <2>2 DEF Live
  <2>5. CASE k \in Live(s, t)
    <3> HIDE DEF L, M
    <3>1. DOMAIN M \ {k} = DOMAIN L \ {k} /\ \A x \in DOMAIN M \ {k} : M[x] = L[x]
      BY <1>1, <2>3
    <3> QED BY <1>1, <2>1, <2>4, <2>5, <3>1 DEF OthersStay, ContractAt, L, M
  <2>6. CASE k \notin Live(s, t)
    <3>1. Live(r, t) = Live(s, t) /\ \A x \in Live(s, t) : LiveEntry(r, x) = LiveEntry(s, x)
      BY <2>3, <2>4, <2>6
    <3> QED BY <3>1 DEF Entries
  <2> QED BY <2>5, <2>6
<1> QED BY <1>2, <1>3 DEF Trimmed, Looked, Alike

\* The clock takes exactly the entries whose deadline it reaches.
Outlasting(L, u) ==
  [k \in {x \in DOMAIN L : L[x].deadline = 0 \/ L[x].deadline > u} |-> L[k]]

LEMMA PassContract ==
  ASSUME NEW s, Sound(s), NEW t \in Nat, NEW u \in Nat, u > t
  PROVE  Entries(s, u) = Outlasting(Entries(s, t), u)
<1> DEFINE L == Entries(s, t)
           stays == {x \in DOMAIN L : L[x].deadline = 0 \/ L[x].deadline > u}
<1>1. DOMAIN L = Live(s, t) /\ \A x \in Live(s, t) : L[x] = LiveEntry(s, x)
  BY EntriesDomain
<1>2. \A x \in DOMAIN s.expiry : s.expiry[x] \in Nat
  BY DEF Sound, WellTyped
<1> HIDE DEF L
<1>3. stays = {x \in Live(s, t) : LiveEntry(s, x).deadline = 0 \/ LiveEntry(s, x).deadline > u}
  BY <1>1
<1>4. ASSUME NEW x \in Present(s)
      PROVE  x \in Live(s, u) <=>
               x \in Live(s, t) /\ (LiveEntry(s, x).deadline = 0 \/ LiveEntry(s, x).deadline > u)
  BY <1>2 DEF Live, isExpired, LiveEntry
<1>5. stays = Live(s, u)
  BY <1>3, <1>4 DEF Live
<1> HIDE DEF stays
<1>6. \A x \in stays : L[x] = LiveEntry(s, x)
  BY <1>1, <1>3
<1>7. Entries(s, u) = [k \in stays |-> L[k]]
  BY <1>5, <1>6 DEF Entries
<1> QED BY <1>7 DEF Outlasting, stays, L

\* A related pair of live entries is a step of the contract.
LEMMA ContractCommand ==
  ASSUME NEW k \in Keys, now \in Nat, now' = now, ContractAt(LiveEntries, LiveEntries', k, now),
         OthersStay(LiveEntries, LiveEntries', k),
         Cardinality(DOMAIN LiveEntries') <= MaxKeys
  PROVE  Contract!Command
<1>1. Contract!OthersKept(k)
  BY DEF OthersStay, Contract!OthersKept
<1>2. Contract!Replace(k) \/ Contract!Modify(k) \/ Contract!Reschedule(k) \/ Contract!Remove(k)
  BY <1>1 DEF ContractAt, OnTime, Contract!Replace, Contract!Modify, Contract!Reschedule,
     Contract!Remove, Contract!Timely, Contract!NoDeadline
<1>3. Contract!Cardinality(DOMAIN LiveEntries') = Cardinality(DOMAIN LiveEntries')
  BY DEF Contract!Cardinality, Cardinality
<1> QED BY <1>2, <1>3 DEF Contract!Command

\* Every step of the store is a step of the contract or leaves it be.
LEMMA NextContract ==
  ASSUME IInv, [Next]_vars
  PROVE  [Contract!Next]_(Contract!vars)
<1>1. Sound(store) /\ now \in Nat /\ Sound(store')
  BY NextIInv DEF IInv
<1>2. LiveEntries = Entries(store, now) /\ LiveEntries' = Entries(store', now')
  BY DEF LiveEntries, Entries, LiveEntry
<1>3. Cardinality(DOMAIN LiveEntries') <= MaxKeys
  <2>1. IsFiniteSet(Present(store')) /\ Cardinality(Present(store')) <= MaxKeys
    BY <1>1 DEF Sound, Fits
  <2>2. DOMAIN LiveEntries' \subseteq Present(store')
    BY <1>2, EntriesDomain DEF Live
  <2> HIDE DEF LiveEntries
  <2>3. /\ Cardinality(DOMAIN LiveEntries') <= Cardinality(Present(store'))
        /\ Cardinality(DOMAIN LiveEntries') \in Nat /\ Cardinality(Present(store')) \in Nat
    BY <2>1, <2>2, FS_Subset, FS_CardinalityType
  <2> QED BY <2>1, <2>3, CapacityAssumption
<1>4. ASSUME now' = now, LiveEntries' = LiveEntries
      PROVE  [Contract!Next]_(Contract!vars)
  BY <1>4 DEF Contract!vars
<1>5. ASSUME NEW k \in Keys, now' = now, ContractAt(LiveEntries, LiveEntries', k, now),
             OthersStay(LiveEntries, LiveEntries', k)
      PROVE  [Contract!Next]_(Contract!vars)
  BY <1>1, <1>3, <1>5, ContractCommand DEF Contract!Next
<1>6. ASSUME NEW k \in Keys, Command(k)
      PROVE  [Contract!Next]_(Contract!vars)
  <2>1. Effect(store, k, now, store') /\ now' = now
    BY <1>6, CommandEffect
  <2>2. \/ LiveEntries' = LiveEntries
        \/ /\ ContractAt(LiveEntries, LiveEntries', k, now)
           /\ OthersStay(LiveEntries, LiveEntries', k)
    BY <1>1, <1>2, <2>1, EffectContract
  <2> QED BY <1>4, <1>5, <2>1, <2>2
<1>7. CASE \E k : Trimmed(store, k, store') /\ now' = now
  <2>1. PICK k : Trimmed(store, k, store') /\ now' = now
    BY <1>7
  <2>2. \/ LiveEntries' = LiveEntries
        \/ /\ k \in Keys /\ ContractAt(LiveEntries, LiveEntries', k, now)
           /\ OthersStay(LiveEntries, LiveEntries', k)
    BY <1>1, <1>2, <2>1, TrimmedContract
  <2> QED BY <1>4, <1>5, <2>1, <2>2
<1>8. CASE store' = store /\ now' \in Nat /\ now' > now
  <2>1. Entries(store, now') = Outlasting(Entries(store, now), now')
    BY <1>1, <1>8, PassContract
  <2>2. LiveEntries' = Outlasting(LiveEntries, now')
    BY <1>2, <1>8, <2>1
  <2> QED BY <1>8, <2>2 DEF Outlasting, Contract!Next, Contract!Pass, Contract!NoDeadline
<1> QED BY <1>6, <1>7, <1>8, OtherSteps

\* The store implements the storage contract: what a client can see of it, the
\* live keys with their values and deadlines, changes as the contract says,
\* whatever is expired lazily, swept or evicted underneath.
THEOREM ImplementsContractHolds == Spec => ImplementsContract
<1>1. Init => Contract!Init
  <2>1. ASSUME Init PROVE LiveEntries = [k \in {} |-> k] /\ now \in Nat
    <3>1. Live(store, now) = {}
      BY <2>1 DEF Init, EmptyStore, Live, Present
    <3> QED BY <2>1, <3>1 DEF LiveEntries, Init
  <2> QED BY <2>1 DEF Contract!Init
<1>2. IInv /\ [Next]_vars => [Contract!Next]_(Contract!vars)
  BY NextContract
<1> QED BY <1>1, <1>2, StoreInvariant, PTL DEF Spec, ImplementsContract, Contract!Spec

-----------------------------------------------------------------------------
(***************************************************************************)
(* What a method returns.                                                  *)
(***************************************************************************)
\* A key past its deadline cannot be told from an absent one: every method
\* starts with the lazy expiry of its key, and takes nothing else from the
\* contents.
THEOREM ExpiredIsAbsentHolds == Spec => []ExpiredIsAbsent
<1>1. ASSUME IInv, NEW k \in Expired
      PROVE  Outcomes(store, k) = Outcomes(removeKey(store, k), k)
  <2> DEFINE s == store
             r == removeKey(store, k)
  <2>1. expireIfNeeded(s, k, now) = r
    BY <1>1 DEF Expired, expireIfNeeded
  <2>2. k \notin Present(r)
    BY <1>1, RemoveSound DEF IInv
  <2> HIDE DEF s, r
  <2>3. expireIfNeeded(s, k, now) = expireIfNeeded(r, k, now)
    BY <2>1, <2>2 DEF expireIfNeeded
  <2>4. /\ get(s, k, now) = get(r, k, now) /\ del(s, k, now) = del(r, k, now)
        /\ exists(s, k, now) = exists(r, k, now) /\ ttl(s, k, now) = ttl(r, k, now)
        /\ persist(s, k, now) = persist(r, k, now) /\ keyType(s, k, now) = keyType(r, k, now)
    BY <2>3 DEF get, del, exists, ttl, persist, keyType
  <2>5. /\ \A v, secs : set(s, k, v, secs, now) = set(r, k, v, secs, now)
        /\ \A secs : expire(s, k, secs, now) = expire(r, k, secs, now)
    BY <2>3 DEF set, expire
  <2>6. /\ lpop(s, k, now) = lpop(r, k, now) /\ rpop(s, k, now) = rpop(r, k, now)
        /\ llen(s, k, now) = llen(r, k, now)
        /\ \A i, j : lrange(s, k, i, j, now) = lrange(r, k, i, j, now)
        /\ \A vals : /\ lpush(s, k, vals, now) = lpush(r, k, vals, now)
                     /\ rpush(s, k, vals, now) = rpush(r, k, vals, now)
    BY <2>3 DEF lpop, rpop, llen, lrange, lpush, rpush
  <2>7. /\ hgetall(s, k, now) = hgetall(r, k, now) /\ hlen(s, k, now) = hlen(r, k, now)
        /\ \A f : hget(s, k, f, now) = hget(r, k, f, now)
        /\ \A pairs : hset(s, k, pairs, now) = hset(r, k, pairs, now)
        /\ \A fields : hdel(s, k, fields, now) = hdel(r, k, fields, now)
    BY <2>3 DEF hgetall, hlen, hget, hset, hdel
  <2> DEFINE K(x) == {<<"key", get(x, k, now), del(x, k, now), exists(x, k, now), ttl(x, k, now),
                        persist(x, k, now), keyType(x, k, now)>>}
             S(x) == {<<"set", secs, set(x, k, v, secs, now)>>
                        : v \in Vals, secs \in Ttls \cup {NoTTL}}
             E(x) == {<<"expire", secs, expire(x, k, secs, now)>> : secs \in Ttls}
             L(x) == {<<"list", lpop(x, k, now), rpop(x, k, now), llen(x, k, now)>>}
             R(x) == {<<"lrange", i, j, lrange(x, k, i, j, now)>> : i, j \in Indices}
             P(x) == {<<"push", vals, lpush(x, k, vals, now), rpush(x, k, vals, now)>>
                        : vals \in Arguments}
             H(x) == {<<"hash", hgetall(x, k, now), hlen(x, k, now)>>}
             G(x) == {<<"hget", f, hget(x, k, f, now)>> : f \in Fields}
             T(x) == {<<"hset", pairs, hset(x, k, pairs, now)>> : pairs \in Pairs}
             D(x) == {<<"hdel", fields, hdel(x, k, fields, now)>> : fields \in SUBSET Fields}
             All(x) == K(x) \cup S(x) \cup E(x) \cup L(x) \cup R(x) \cup P(x)
                         \cup H(x) \cup G(x) \cup T(x) \cup D(x)
  <2>8. Outcomes(s, k) = All(s) /\ Outcomes(r, k) = All(r)
    BY DEF Outcomes
  <2>9. K(s) = K(r) /\ L(s) = L(r) /\ H(s) = H(r)
    BY <2>4, <2>6, <2>7
  <2>10. S(s) = S(r) /\ E(s) = E(r)
    BY <2>5
  <2>11. R(s) = R(r) /\ P(s) = P(r)
    BY <2>6
  <2>12. G(s) = G(r) /\ T(s) = T(r) /\ D(s) = D(r)
    BY <2>7
  <2> HIDE DEF K, S, E, L, R, P, H, G, T, D
  <2> QED BY <2>8, <2>9, <2>10, <2>11, <2>12 DEF s, r
<1>2. IInv => ExpiredIsAbsent
  BY <1>1 DEF ExpiredIsAbsent
<1> QED BY <1>2, StoreInvariant, PTL

\* A command refused with WRONGTYPE changes nothing at all, recency included.
LEMMA RefusedIsNothing == IInv => RefusedChangesNothing
<1> DEFINE Kept(result) == result.reply = WrongType => result.store = store
<1>1. /\ Nil # WrongType /\ \A x : Number(x) # WrongType /\ Bulk(x) # WrongType
                                   /\ Array(x) # WrongType /\ <<"map", x>> # WrongType
  BY DEF Nil, Number, Bulk, Array, WrongType
<1>2. ASSUME IInv, NEW k \in Keys
      PROVE  /\ Kept(lpop(store, k, now)) /\ Kept(rpop(store, k, now)) /\ Kept(llen(store, k, now))
             /\ \A i, j : Kept(lrange(store, k, i, j, now))
             /\ \A vals : Kept(lpush(store, k, vals, now)) /\ Kept(rpush(store, k, vals, now))
  <2>1. Sound(store)
    BY <1>2 DEF IInv
  <2>2. k \in Present(expireIfNeeded(store, k, now)) => expireIfNeeded(store, k, now) = store
    BY <2>1, ExpiryEffect DEF Elapsed
  <2> QED BY <1>1, <2>2 DEF lpop, rpop, llen, lrange, lpush, rpush, pushNewList, OnKind, Result
<1>3. ASSUME IInv, NEW k \in Keys
      PROVE  /\ Kept(hgetall(store, k, now)) /\ Kept(hlen(store, k, now))
             /\ \A f : Kept(hget(store, k, f, now))
             /\ \A pairs : Kept(hset(store, k, pairs, now))
             /\ \A fields : Kept(hdel(store, k, fields, now))
  <2>1. Sound(store)
    BY <1>3 DEF IInv
  <2>2. k \in Present(expireIfNeeded(store, k, now)) => expireIfNeeded(store, k, now) = store
    BY <2>1, ExpiryEffect DEF Elapsed
  <2> QED BY <1>1, <2>2 DEF hgetall, hlen, hget, hset, hdel, OnKind, Result
<1>4. ASSUME IInv, NEW k \in Keys
      PROVE  \A r \in ListCalls(k) \cup HashCalls(k) \cup HDels(k, SUBSET Fields) : Kept(r)
  <2>1. \A r \in ListCalls(k) : Kept(r)
    BY <1>2, <1>4 DEF ListCalls, Pushes
  <2>2. \A r \in HashCalls(k) \cup HDels(k, SUBSET Fields) : Kept(r)
    BY <1>3, <1>4 DEF HashCalls, HSets, HDels
  <2> QED BY <2>1, <2>2
<1> QED BY <1>4 DEF RefusedChangesNothing

(***************************************************************************)
(* What the methods do to the order of use.                                *)
(***************************************************************************)
\* k comes first in r, and the other keys in the order they have in s.
InFrontOf(s, k, r) ==
  IsContents(r) /\ k \in Present(r) /\ r.lru = <<k>> \o Without(s.lru, k)

\* The same, if r still has k.
Used(s, k, r) == r.lru = (IF k \in Present(r) THEN <<k>> ELSE <<>>) \o Without(s.lru, k)

\* What touches and stores puts in front; what marks and dates leaves it there.
LEMMA PutInFront ==
  ASSUME NEW s, IsContents(s), NEW k, NEW v
  PROVE  /\ InFrontOf(s, k, put(s, k, v))
         /\ k \in Present(s) => InFrontOf(s, k, touch(s, k))
<1>1. touch(s, k).lru = <<k>> \o Without(s.lru, k) /\ IsContents(touch(s, k))
      /\ touch(s, k).values = s.values
  BY DEF IsContents, touch
<1>2. put(s, k, v).lru = touch(s, k).lru
  BY <1>1 DEF IsContents, put
<1>3. IsContents(put(s, k, v)) /\ k \in Present(put(s, k, v))
  <2>1. IsContents(put(s, k, v)) /\ put(s, k, v).values = With(s.values, k, v)
    BY PutEffect
  <2>2. k \in DOMAIN With(s.values, k, v)
    BY DEF With
  <2> QED BY <2>1, <2>2 DEF Present
<1> QED BY <1>1, <1>2, <1>3 DEF InFrontOf, Present

LEMMA StaysInFront ==
  ASSUME NEW s, NEW k, NEW r, InFrontOf(s, k, r)
  PROVE  /\ InFrontOf(s, k, mutated(r)) /\ InFrontOf(s, k, clearDeadline(r, k))
         /\ \A d : InFrontOf(s, k, setDeadline(r, k, d))
BY DEF InFrontOf, IsContents, mutated, clearDeadline, setDeadline, Present

\* To be in front is to be used, and so is to be removed.
LEMMA UsedWhenInFront ==
  ASSUME NEW s, NEW k, NEW r, InFrontOf(s, k, r)
  PROVE  Used(s, k, r) /\ Used(s, k, mutated(r))
BY StaysInFront DEF InFrontOf, Used

LEMMA UsedWhenRemoved ==
  ASSUME NEW s, Sound(s), NEW k \in Present(s)
  PROVE  Used(s, k, removeKey(s, k))
<1>1. IsContents(s) /\ s.lru \in Seq(Keys) /\ NoRepeats(s.lru)
  BY SoundIsContents DEF Sound, WellTyped, InLockstep
<1>2. Without(s.lru, k) \in Seq(Keys)
  BY <1>1, WithoutProperties
<1>3. removeKey(s, k).lru = Without(s.lru, k)
  BY <1>1 DEF IsContents, removeKey
<1>4. k \notin Present(removeKey(s, k))
  <2>1. removeKey(s, k).values = Drop(s.values, k)
    BY <1>1, RemoveEffect
  <2>2. k \notin DOMAIN Drop(s.values, k)
    BY DEF Drop
  <2> QED BY <2>1, <2>2 DEF Present
<1>5. <<>> \o Without(s.lru, k) = Without(s.lru, k)
  BY <1>2
<1> QED BY <1>3, <1>4, <1>5 DEF Used

\* The methods for strings and keys, on a live key.
LEMMA KeyUses ==
  ASSUME NEW s, Sound(s), NEW t, NEW k \in Live(s, t)
  PROVE  /\ \A v, secs : Used(s, k, set(s, k, v, secs, t).store)
         /\ \A secs : Used(s, k, expire(s, k, secs, t).store)
         /\ Used(s, k, del(s, k, t).store)
         /\ \A r \in {get(s, k, t), persist(s, k, t)} :
              IF r.reply \in {Nil, Number(0)} THEN r.store = s ELSE Used(s, k, r.store)
         /\ exists(s, k, t).store = s /\ ttl(s, k, t).store = s /\ keyType(s, k, t).store = s
<1>1. k \in Present(s) /\ expireIfNeeded(s, k, t) = s /\ reserveSlotFor(s, k, t) = s
  BY DEF Live, expireIfNeeded, reserveSlotFor
<1>2. IsContents(s)
  BY SoundIsContents
<1>3. ASSUME NEW v, NEW secs PROVE Used(s, k, set(s, k, v, secs, t).store)
  <2> DEFINE w == mutated(put(s, k, StringValue(v)))
  <2>1. InFrontOf(s, k, w)
    BY <1>2, PutInFront, StaysInFront
  <2>2. set(s, k, v, secs, t).store =
          IF secs # NoTTL THEN setDeadline(w, k, t + secs * TicksPerSecond) ELSE clearDeadline(w, k)
    BY <1>1 DEF set, Result
  <2> HIDE DEF w
  <2>3. \A d : Used(s, k, setDeadline(w, k, d)) /\ Used(s, k, clearDeadline(w, k))
    BY <2>1, StaysInFront, UsedWhenInFront
  <2> QED BY <2>2, <2>3
<1>4. ASSUME NEW d, IsContents(d), k \in Present(d), d.lru = s.lru
      PROVE  Used(s, k, mutated(touch(d, k)))
  <2>1. InFrontOf(d, k, touch(d, k))
    BY <1>4, PutInFront
  <2>2. InFrontOf(s, k, touch(d, k))
    BY <1>4, <2>1 DEF InFrontOf
  <2> QED BY <2>2, UsedWhenInFront
<1>5. \A d : /\ IsContents(setDeadline(s, k, d)) /\ IsContents(clearDeadline(s, k))
             /\ k \in Present(setDeadline(s, k, d)) /\ k \in Present(clearDeadline(s, k))
             /\ setDeadline(s, k, d).lru = s.lru /\ clearDeadline(s, k).lru = s.lru
  BY <1>1, <1>2 DEF IsContents, setDeadline, clearDeadline, Present
<1>6. \A secs : Used(s, k, expire(s, k, secs, t).store)
  BY <1>1, <1>4, <1>5 DEF expire, Result
<1>7. Used(s, k, del(s, k, t).store)
  BY <1>1, UsedWhenRemoved DEF del, Result
<1>8. LET r == get(s, k, t)
      IN  IF r.reply \in {Nil, Number(0)} THEN r.store = s ELSE Used(s, k, r.store)
  <2>1. Used(s, k, touch(s, k))
    BY <1>1, <1>2, PutInFront, UsedWhenInFront
  <2>2. \A v : Bulk(v) \notin {Nil, Number(0)}
    BY DEF Bulk, Nil, Number
  <2> QED BY <1>1, <2>1, <2>2 DEF get, Result
<1>9. LET r == persist(s, k, t)
      IN  IF r.reply \in {Nil, Number(0)} THEN r.store = s ELSE Used(s, k, r.store)
  <2>1. Number(1) \notin {Nil, Number(0)}
    BY DEF Nil, Number
  <2> QED BY <1>1, <1>4, <1>5, <2>1 DEF persist, Result
<1>10. exists(s, k, t).store = s /\ ttl(s, k, t).store = s /\ keyType(s, k, t).store = s
  BY <1>1 DEF exists, ttl, keyType, Result
<1> QED BY <1>3, <1>6, <1>7, <1>8, <1>9, <1>10

\* The list methods, on a live key.
LEMMA ListUses ==
  ASSUME NEW s, Sound(s), NEW t, NEW k \in Live(s, t)
  PROVE  /\ \A vals : \A r \in {lpush(s, k, vals, t), rpush(s, k, vals, t)} :
              r.reply # WrongType => Used(s, k, r.store)
         /\ \A r \in {lpop(s, k, t), rpop(s, k, t), llen(s, k, t)} :
              r.reply # WrongType => Used(s, k, r.store)
         /\ \A i, j : LET r == lrange(s, k, i, j, t)
                      IN  r.reply # WrongType => Used(s, k, r.store)
<1>1. k \in Present(s) /\ expireIfNeeded(s, k, t) = s
  BY DEF Live, expireIfNeeded
<1>2. IsContents(s)
  BY SoundIsContents
<1>3. Used(s, k, touch(s, k)) /\ \A v : Used(s, k, mutated(put(s, k, v)))
  BY <1>1, <1>2, PutInFront, UsedWhenInFront
<1>4. \A rest : Used(s, k, popped(s, k, rest))
  BY <1>1, <1>3, UsedWhenRemoved DEF popped
<1>5. \A vals : \A r \in {lpush(s, k, vals, t), rpush(s, k, vals, t)} :
        r.reply # WrongType => Used(s, k, r.store)
  BY <1>1, <1>3 DEF lpush, rpush, OnKind, Result
<1>6. \A r \in {lpop(s, k, t), rpop(s, k, t), llen(s, k, t)} :
        r.reply # WrongType => Used(s, k, r.store)
  BY <1>1, <1>3, <1>4 DEF lpop, rpop, llen, OnKind, Result
<1>7. \A i, j : LET r == lrange(s, k, i, j, t)
                IN  r.reply # WrongType => Used(s, k, r.store)
  BY <1>1, <1>3 DEF lrange, OnKind, Result
<1> QED BY <1>5, <1>6, <1>7

\* The hash methods, on a live key.
LEMMA HashUses ==
  ASSUME NEW s, Sound(s), NEW t, NEW k \in Live(s, t)
  PROVE  /\ \A r \in {hgetall(s, k, t), hlen(s, k, t)} : r.reply # WrongType => Used(s, k, r.store)
         /\ \A f : LET r == hget(s, k, f, t) IN r.reply # WrongType => Used(s, k, r.store)
         /\ \A pairs : LET r == hset(s, k, pairs, t) IN r.reply # WrongType => Used(s, k, r.store)
         /\ \A fields : LET r == hdel(s, k, fields, t)
                        IN  IF Holds(s, k, "hash") /\ fields \cap DOMAIN ValueOf(s, k) # {}
                              THEN Used(s, k, r.store)
                              ELSE r.store = s
<1>1. k \in Present(s) /\ expireIfNeeded(s, k, t) = s
  BY DEF Live, expireIfNeeded
<1>2. IsContents(s)
  BY SoundIsContents
<1>3. Used(s, k, touch(s, k)) /\ \A v : Used(s, k, mutated(put(s, k, v)))
  BY <1>1, <1>2, PutInFront, UsedWhenInFront
<1>4. \A r \in {hgetall(s, k, t), hlen(s, k, t)} : r.reply # WrongType => Used(s, k, r.store)
  BY <1>1, <1>3 DEF hgetall, hlen, OnKind, Result
<1>5. \A f : LET r == hget(s, k, f, t) IN r.reply # WrongType => Used(s, k, r.store)
  BY <1>1, <1>3 DEF hget, OnKind, Result
<1>6. \A pairs : LET r == hset(s, k, pairs, t) IN r.reply # WrongType => Used(s, k, r.store)
  BY <1>1, <1>3 DEF hset, OnKind, Result
<1>7. ASSUME NEW fields
      PROVE  IF Holds(s, k, "hash") /\ fields \cap DOMAIN ValueOf(s, k) # {}
               THEN Used(s, k, hdel(s, k, fields, t).store)
               ELSE hdel(s, k, fields, t).store = s
  <2> DEFINE h == ValueOf(s, k)
             rest == [f \in DOMAIN h \ fields |-> h[f]]
  <2>1. hdel(s, k, fields, t).store =
          IF TypeOf(s, k) # "hash" THEN s
          ELSE IF DOMAIN rest = {} THEN removeKey(s, k)
          ELSE IF DOMAIN h \cap fields = {} THEN s
          ELSE mutated(put(s, k, HashValue(rest)))
    BY <1>1 DEF hdel, OnKind, Result
  <2>2. DOMAIN rest = DOMAIN h \ fields
    OBVIOUS
  <2>3. TypeOf(s, k) = "hash" => DOMAIN h # {}
    BY <1>1 DEF Sound, Filled, IsFilled, TypeOf, ValueOf
  <2> HIDE DEF h, rest
  <2>4. Used(s, k, removeKey(s, k))
    BY <1>1, UsedWhenRemoved
  <2>5. IF TypeOf(s, k) = "hash" /\ fields \cap DOMAIN h # {}
          THEN Used(s, k, hdel(s, k, fields, t).store)
          ELSE hdel(s, k, fields, t).store = s
    BY <1>3, <2>1, <2>2, <2>3, <2>4
  <2> QED BY <1>1, <2>5 DEF h, Holds
<1> QED BY <1>4, <1>5, <1>6, <1>7

\* Every use of a live key brings it to the front, and nothing else moves a key.
LEMMA UsesInFront == IInv => UsesComeFirst
<1> SUFFICES ASSUME IInv, NEW k \in Live(store, now)
             PROVE  /\ \A r \in Uses(k) : Used(store, k, r.store)
                    /\ \A r \in Looks(k) : r.store = store
  BY DEF UsesComeFirst, Used
<1>1. Sound(store)
  BY DEF IInv
<1>2. ASSUME NEW r \in Sets(k) PROVE Used(store, k, r.store)
  <2>1. \E v, secs : r = set(store, k, v, secs, now)
    BY DEF Sets
  <2>2. \A v, secs : Used(store, k, set(store, k, v, secs, now).store)
    BY <1>1, KeyUses
  <2> QED BY <2>1, <2>2
<1>3. ASSUME NEW r \in {expire(store, k, secs, now) : secs \in Ttls} \cup {del(store, k, now)}
      PROVE  Used(store, k, r.store)
  <2>1. \A secs : Used(store, k, expire(store, k, secs, now).store)
    BY <1>1, KeyUses
  <2>2. Used(store, k, del(store, k, now).store)
    BY <1>1, KeyUses
  <2> QED BY <2>1, <2>2
<1>4. ASSUME NEW r \in {get(store, k, now), persist(store, k, now)}
      PROVE  IF r.reply \in {Nil, Number(0)} THEN r.store = store ELSE Used(store, k, r.store)
  <2>1. /\ IF get(store, k, now).reply \in {Nil, Number(0)}
             THEN get(store, k, now).store = store ELSE Used(store, k, get(store, k, now).store)
        /\ IF persist(store, k, now).reply \in {Nil, Number(0)}
             THEN persist(store, k, now).store = store
             ELSE Used(store, k, persist(store, k, now).store)
    BY <1>1, KeyUses
  <2> QED BY <2>1
<1>5. ASSUME NEW r \in ListCalls(k), r.reply # WrongType PROVE Used(store, k, r.store)
  <2>1. \/ \E vals : r \in {lpush(store, k, vals, now), rpush(store, k, vals, now)}
        \/ r \in {lpop(store, k, now), rpop(store, k, now), llen(store, k, now)}
        \/ \E i, j : r = lrange(store, k, i, j, now)
    BY DEF ListCalls, Pushes
  <2>2. /\ \A vals : \A x \in {lpush(store, k, vals, now), rpush(store, k, vals, now)} :
              x.reply # WrongType => Used(store, k, x.store)
        /\ \A x \in {lpop(store, k, now), rpop(store, k, now), llen(store, k, now)} :
              x.reply # WrongType => Used(store, k, x.store)
        /\ \A i, j : lrange(store, k, i, j, now).reply # WrongType =>
                        Used(store, k, lrange(store, k, i, j, now).store)
    BY <1>1, ListUses
  <2> QED BY <1>5, <2>1, <2>2
<1>6. ASSUME NEW r \in HashCalls(k), r.reply # WrongType PROVE Used(store, k, r.store)
  <2>1. \/ \E pairs : r = hset(store, k, pairs, now)
        \/ r \in {hgetall(store, k, now), hlen(store, k, now)}
        \/ \E f : r = hget(store, k, f, now)
    BY DEF HashCalls, HSets
  <2>2. /\ \A pairs : hset(store, k, pairs, now).reply # WrongType =>
                         Used(store, k, hset(store, k, pairs, now).store)
        /\ \A x \in {hgetall(store, k, now), hlen(store, k, now)} :
              x.reply # WrongType => Used(store, k, x.store)
        /\ \A f : hget(store, k, f, now).reply # WrongType =>
                     Used(store, k, hget(store, k, f, now).store)
    BY <1>1, HashUses
  <2> QED BY <1>6, <2>1, <2>2
<1>7. /\ \A r \in HDels(k, Touched(k)) : Used(store, k, r.store)
      /\ \A r \in HDels(k, (SUBSET Fields) \ Touched(k)) : r.store = store
  <2>1. \A fields : IF Holds(store, k, "hash") /\ fields \cap DOMAIN ValueOf(store, k) # {}
                      THEN Used(store, k, hdel(store, k, fields, now).store)
                      ELSE hdel(store, k, fields, now).store = store
    BY <1>1, HashUses
  <2>2. /\ \A fields \in Touched(k) : Used(store, k, hdel(store, k, fields, now).store)
        /\ \A fields \in (SUBSET Fields) \ Touched(k) :
              hdel(store, k, fields, now).store = store
    BY <2>1 DEF Touched
  <2> QED BY <2>2 DEF HDels
<1>8. /\ exists(store, k, now).store = store /\ ttl(store, k, now).store = store
      /\ keyType(store, k, now).store = store
  BY <1>1, KeyUses
<1> QED BY <1>2, <1>3, <1>4, <1>5, <1>6, <1>7, <1>8 DEF Uses, Looks

\* The last element of a sequence without repetitions, taken out.
LEMMA WithoutLast ==
  ASSUME NEW S, NEW q \in Seq(S), NoRepeats(q), q # <<>>
  PROVE  Without(q, Last(q)) = Front(q)
<1> DEFINE n == Len(q)
           p == CHOOSE i \in DOMAIN q : q[i] = Last(q)
<1>1. n \in Nat /\ DOMAIN q = 1..n /\ n # 0
  BY LenProperties, EmptySeq
<1>2. Last(q) = q[n] /\ n \in DOMAIN q
  BY <1>1 DEF Last
<1>3. p \in DOMAIN q /\ q[p] = q[n]
  BY <1>2
<1> HIDE DEF p
<1>4. p = n
  BY <1>2, <1>3 DEF NoRepeats
<1>5. Without(q, Last(q)) = RemoveAt(q, p)
  BY <1>2 DEF Without, p
<1>6. RemoveAt(q, n) = SubSeq(q, 1, n - 1) \o SubSeq(q, n + 1, n)
  BY DEF RemoveAt
<1>7. SubSeq(q, n + 1, n) = <<>>
  BY <1>1
<1>8. SubSeq(q, 1, n - 1) \in Seq(S)
  BY <1>1
<1> QED BY <1>4, <1>5, <1>6, <1>7, <1>8 DEF Front

\* A new key comes first, and what makes room for it is the least recently used.
LEMMA NewInFront == IInv => NewComesFirst
<1> SUFFICES ASSUME IInv, NEW k \in Keys \ Present(store)
             PROVE  \A r \in Sets(k) \cup Pushes(k) \cup HSets(k) :
                      r.store.lru = <<k>> \o (IF Cardinality(Present(store)) < MaxKeys
                                                THEN store.lru ELSE Front(store.lru))
  BY DEF NewComesFirst
<1> DEFINE q == reserveSlotFor(store, k, now)
           rest == IF Cardinality(Present(store)) < MaxKeys THEN store.lru ELSE Front(store.lru)
           victim == Last(store.lru)
<1>1. Sound(store) /\ IsContents(store) /\ expireIfNeeded(store, k, now) = store
  BY SoundIsContents DEF IInv, expireIfNeeded
<1>2. store.lru \in Seq(Keys) /\ NoRepeats(store.lru) /\ ToSet(store.lru) = Present(store)
  BY <1>1 DEF Sound, WellTyped, InLockstep
<1>3. Cardinality(Present(store)) \in Nat /\ MaxKeys \in Nat \ {0} /\ IsFiniteSet(Present(store))
  BY <1>1, FS_CardinalityType, CapacityAssumption DEF Sound, Fits
<1>4. Sound(q) /\ IsContents(q) /\ k \notin Present(q)
  BY <1>1, ReserveSlotSound, SoundIsContents
<1>5. q.lru = rest
  <2>1. CASE Cardinality(Present(store)) < MaxKeys
    BY <1>3, <2>1 DEF reserveSlotFor
  <2>2. CASE ~(Cardinality(Present(store)) < MaxKeys)
    <3>1. store.lru # <<>>
      <4>1. Present(store) # {}
        BY <1>3, <2>2, FS_EmptySet
      <4> QED BY <1>2, <4>1, EmptySeq DEF ToSet
    <3>2. q = makeRoomForNewKey(store, now)
      BY <1>3, <2>2 DEF reserveSlotFor
    <3>3. q.lru = removeKey(store, victim).lru
      <4>1. IsContents(removeKey(store, victim))
        BY <1>1, RemoveEffect
      <4> QED BY <3>1, <3>2, <4>1 DEF makeRoomForNewKey, IsContents
    <3>4. victim \in Present(store)
      <4>1. Len(store.lru) \in DOMAIN store.lru
        BY <1>2, <3>1, LenProperties, EmptySeq
      <4> QED BY <1>2, <4>1 DEF ToSet, Last
    <3>5. removeKey(store, victim).lru = Without(store.lru, victim)
      BY <1>1, <3>4 DEF removeKey, IsContents
    <3> QED BY <1>2, <2>2, <3>1, <3>3, <3>5, WithoutLast
  <2> QED BY <2>1, <2>2
<1>6. Without(q.lru, k) = q.lru
  <2>1. k \notin ToSet(q.lru)
    BY <1>4 DEF Sound, InLockstep
  <2> QED BY <2>1 DEF Without, ToSet
<1> HIDE DEF q, rest
<1>7. \A v : LET r == put(q, k, v) IN r.lru = <<k>> \o rest /\ mutated(r).lru = <<k>> \o rest
  <2> TAKE v
  <2>1. InFrontOf(q, k, put(q, k, v)) /\ InFrontOf(q, k, mutated(put(q, k, v)))
    BY <1>4, PutInFront, StaysInFront
  <2> QED BY <1>5, <1>6, <2>1 DEF InFrontOf
<1>8. ASSUME NEW v, NEW secs PROVE set(store, k, v, secs, now).store.lru = <<k>> \o rest
  <2> DEFINE w == mutated(put(q, k, StringValue(v)))
  <2>1. InFrontOf(q, k, w)
    BY <1>4, PutInFront, StaysInFront
  <2>2. set(store, k, v, secs, now).store =
          IF secs # NoTTL THEN setDeadline(w, k, now + secs * TicksPerSecond)
          ELSE clearDeadline(w, k)
    BY <1>1 DEF set, Result, q
  <2> HIDE DEF w
  <2>3. (\A d : InFrontOf(q, k, setDeadline(w, k, d))) /\ InFrontOf(q, k, clearDeadline(w, k))
    BY <2>1, StaysInFront
  <2>4. /\ \A d : setDeadline(w, k, d).lru = <<k>> \o rest
        /\ clearDeadline(w, k).lru = <<k>> \o rest
    BY <1>5, <1>6, <2>3 DEF InFrontOf
  <2> QED BY <2>2, <2>4
<1>9. \A vals : /\ lpush(store, k, vals, now).store.lru = <<k>> \o rest
                /\ rpush(store, k, vals, now).store.lru = <<k>> \o rest
  BY <1>1, <1>7 DEF lpush, rpush, pushNewList, OnKind, Result, q
<1>10. \A pairs : hset(store, k, pairs, now).store.lru = <<k>> \o rest
  BY <1>1, <1>7 DEF hset, OnKind, Result, q
<1>11. ASSUME NEW r \in Sets(k) \cup Pushes(k) \cup HSets(k)
       PROVE  r.store.lru = <<k>> \o rest
  <2>1. \/ \E v, secs : r = set(store, k, v, secs, now)
        \/ \E vals : r \in {lpush(store, k, vals, now), rpush(store, k, vals, now)}
        \/ \E pairs : r = hset(store, k, pairs, now)
    BY DEF Sets, Pushes, HSets
  <2> QED BY <1>8, <1>9, <1>10, <2>1
<1> QED BY <1>11 DEF rest

\* The order of use, by which keys are evicted, is the order in which the clients
\* used them: every method of InMemoryStore.ts moves its key to the front if, and
\* only if, the call is a use of it, and a refused one changes nothing at all.
THEOREM OrderOfUseHolds == Spec => []OrderOfUse
<1>1. IInv => OrderOfUse
  BY RefusedIsNothing, UsesInFront, NewInFront DEF OrderOfUse
<1> QED BY <1>1, StoreInvariant, PTL

-----------------------------------------------------------------------------
(***************************************************************************)
(* What LRANGE returns.                                                    *)
(***************************************************************************)
\* The numbers of an interval, counted.
LEMMA IntervalSize ==
  ASSUME NEW a \in Int, NEW b \in Int
  PROVE  Cardinality({p \in Int : a <= p /\ p <= b}) = IF a > b THEN 0 ELSE b - a + 1
<1>1. {p \in Int : a <= p /\ p <= b} = a..b
  OBVIOUS
<1>2. Cardinality(a..b) = IF a > b THEN 0 ELSE b - a + 1
  BY FS_Interval
<1> QED BY <1>1, <1>2

\* slice of InMemoryStore.ts picks exactly the elements between its two indices,
\* whatever they are and however long the list is.
LEMMA SliceIsRange ==
  ASSUME NEW S, NEW list \in Seq(S), NEW start \in Int, NEW stop \in Int
  PROVE  IsRange(slice(list, start, stop), list, start, stop)
<1> DEFINE len  == Len(list)
           lo   == IF start < 0 THEN len + start ELSE start
           hi   == IF stop < 0 THEN len + stop ELSE stop
           from == IF lo < 0 THEN 0 ELSE lo
           to   == IF hi >= len THEN len - 1 ELSE hi
           wanted == {p \in 0..len - 1 : lo <= p /\ p <= hi}
           answer == slice(list, start, stop)
<1>1. len \in Nat /\ lo \in Int /\ hi \in Int
  BY LenProperties
<1>2. answer = IF from > to THEN <<>> ELSE SubSeq(list, from + 1, to + 1)
  BY DEF slice
<1>3. /\ from \in Int /\ to \in Int /\ from >= 0 /\ to <= len - 1
      /\ wanted = {p \in Int : from <= p /\ p <= to}
  BY <1>1
<1> HIDE DEF len, lo, hi, from, to, answer
<1>4. Cardinality(wanted) = IF from > to THEN 0 ELSE to - from + 1
  BY <1>3, IntervalSize
<1>5. ASSUME NEW p \in wanted
      PROVE  Cardinality({q \in wanted : q <= p}) = p - from + 1 /\ from <= p /\ p <= to
  <2>1. p \in Int /\ from <= p /\ p <= to
    BY <1>3
  <2>2. {q \in wanted : q <= p} = {q \in Int : from <= q /\ q <= p}
    BY <1>3, <2>1
  <2>3. Cardinality({q \in Int : from <= q /\ q <= p}) = p - from + 1
    BY <1>3, <2>1, IntervalSize
  <2> QED BY <2>1, <2>2, <2>3
<1>6. CASE from > to
  <2>1. Len(answer) = 0
    BY <1>2, <1>6, EmptySeq
  <2>2. wanted = {}
    BY <1>3, <1>6
  <2> HIDE DEF wanted
  <2>3. /\ Len(answer) = Cardinality(wanted)
        /\ \A p \in wanted : answer[Cardinality({q \in wanted : q <= p})] = list[p + 1]
    BY <1>4, <1>6, <2>1, <2>2
  <2> QED BY <2>3 DEF IsRange, wanted, answer, lo, hi, len
<1>7. CASE ~(from > to)
  <2>1. from + 1 \in 1..Len(list) /\ to + 1 \in 1..Len(list) /\ from + 1 <= to + 1
    BY <1>1, <1>3, <1>7 DEF len
  <2>2. answer = SubSeq(list, from + 1, to + 1)
    BY <1>2, <1>7
  <2>3. Len(answer) = to - from + 1
    BY <1>3, <2>1, <2>2, SubSeqProperties
  <2>4. \A i \in 1..(to - from + 1) : answer[i] = list[from + i]
    <3>1. \A i \in 1..(to - from + 1) : answer[i] = list[(from + 1) + i - 1]
      BY <1>3, <2>1, <2>2, SubSeqProperties
    <3>2. \A i \in 1..(to - from + 1) : (from + 1) + i - 1 = from + i
      BY <1>3
    <3> QED BY <3>1, <3>2
  <2>5. ASSUME NEW p \in wanted
        PROVE  answer[Cardinality({q \in wanted : q <= p})] = list[p + 1]
    <3>1. p \in Int /\ p - from + 1 \in 1..(to - from + 1) /\ from + (p - from + 1) = p + 1
      BY <1>3, <1>5
    <3> QED BY <1>5, <2>4, <3>1
  <2>6. Len(answer) = Cardinality(wanted)
    BY <1>4, <1>7, <2>3
  <2> HIDE DEF wanted
  <2>7. /\ Len(answer) = Cardinality(wanted)
        /\ \A p \in wanted : answer[Cardinality({q \in wanted : q <= p})] = list[p + 1]
    BY <2>5, <2>6
  <2> QED BY <2>7 DEF IsRange, wanted, answer, lo, hi, len
<1> QED BY <1>6, <1>7

\* In every state, for every two indices: LRANGE of InMemoryStore.ts answers a live
\* list with exactly the elements between them.
THEOREM LRangeIsExact ==
  Spec => [](\A k \in Live(store, now), i, j \in Int :
               Holds(store, k, "list") =>
                 IsRange(lrange(store, k, i, j, now).reply[2], ValueOf(store, k), i, j))
<1>1. ASSUME IInv, NEW k \in Live(store, now), NEW i \in Int, NEW j \in Int,
             Holds(store, k, "list")
      PROVE  IsRange(lrange(store, k, i, j, now).reply[2], ValueOf(store, k), i, j)
  <2>1. expireIfNeeded(store, k, now) = store
    BY <1>1 DEF Live, expireIfNeeded
  <2>2. lrange(store, k, i, j, now).reply = Array(slice(ValueOf(store, k), i, j))
    BY <1>1, <2>1 DEF lrange, OnKind, Holds, Result
  <2>3. ValueOf(store, k) \in Seq(Vals)
    BY <1>1 DEF IInv, Sound, WellTyped, Holds, IsStoredValue, TypeOf, ValueOf
  <2> QED BY <2>2, <2>3, SliceIsRange DEF Array
<1>2. IInv => \A k \in Live(store, now), i, j \in Int :
                Holds(store, k, "list") =>
                  IsRange(lrange(store, k, i, j, now).reply[2], ValueOf(store, k), i, j)
  BY <1>1
<1> QED BY <1>2, StoreInvariant, PTL

-----------------------------------------------------------------------------
(***************************************************************************)
(* Induction over the naturals, and what a fold computes step by step.     *)
(***************************************************************************)
\* A set of naturals that is not empty has a least element.
LEMMA LeastNatural ==
  ASSUME NEW T, T \subseteq Nat, T # {}
  PROVE  \E x \in T : \A y \in T : x <= y
<1>1. PICK x \in T : \A y \in T : <<y, x>> \notin OpToRel(<, Nat)
  BY NatLessThanWellFounded, WFMin
<1>2. \A y \in T : ~(y < x)
  BY <1>1, T \subseteq Nat DEF OpToRel
<1> QED
  BY <1>2, T \subseteq Nat

\* Induction up to n, for a set of numbers in place of a predicate.
LEMMA UpTo ==
  ASSUME NEW n \in Nat, NEW T, 0 \in T, \A i \in 1..n : i - 1 \in T => i \in T
  PROVE  0..n \subseteq T
<1> SUFFICES ASSUME (0..n) \ T # {} PROVE FALSE
  OBVIOUS
<1> DEFINE S == (0..n) \ T
<1>0. S \subseteq Nat /\ S # {}
  OBVIOUS
<1>1. PICK x \in S : \A y \in S : x <= y
  <2> HIDE DEF S
  <2> QED BY <1>0, LeastNatural
<1>2. x \in 1..n
  BY <1>1
<1>3. x - 1 \in T
  BY <1>1, <1>2
<1> QED BY <1>1, <1>2, <1>3

\* A replay performs one line after the other.
LEMMA ReplayedSteps ==
  ASSUME NEW s, NEW lines, NEW t, Len(lines) \in Nat
  PROVE  \E g : /\ g[0] = s /\ Replayed(s, lines, t) = g[Len(lines)]
                /\ \A i \in 1..Len(lines) : g[i] = Perform(g[i - 1], lines[i], t).store
<1> DEFINE n == Len(lines)
           Step(last, i) == Perform(last, lines[i], t).store
           Is(g, m) == g = [i \in 0..m |-> IF i = 0 THEN s ELSE Step(g[i - 1], i)]
           after == CHOOSE g : Is(g, n)
           T == {m \in 0..n : \E g : Is(g, m)}
<1>1. Replayed(s, lines, t) = after[n]
  BY DEF Replayed
<1> HIDE DEF Step, n
<1>2. 0 \in T
  <2> DEFINE h == [i \in 0..0 |-> s]
  <2>1. h = [i \in 0..0 |-> IF i = 0 THEN s ELSE Step(h[i - 1], i)]
    OBVIOUS
  <2> HIDE DEF h
  <2>2. Is(h, 0)
    BY <2>1
  <2> QED BY <2>2 DEF n
<1>3. ASSUME NEW m \in 1..n, m - 1 \in T PROVE m \in T
  <2>1. PICK g : Is(g, m - 1)
    BY <1>3
  <2> DEFINE h == [j \in 0..m |-> IF j < m THEN g[j] ELSE Step(g[m - 1], m)]
  <2>2. \A i \in 0..(m - 1) : g[i] = IF i = 0 THEN s ELSE Step(g[i - 1], i)
    BY <2>1
  <2>3. \A i \in 0..m : h[i] = IF i = 0 THEN s ELSE Step(h[i - 1], i)
    <3> TAKE i \in 0..m
    <3>1. CASE i < m
      <4>1. h[i] = g[i] /\ (i # 0 => h[i - 1] = g[i - 1]) /\ i \in 0..(m - 1)
        BY <3>1
      <4> QED BY <2>2, <4>1
    <3>2. CASE i = m
      <4>1. h[i] = Step(g[m - 1], m) /\ h[i - 1] = g[m - 1] /\ i # 0
        BY <3>2
      <4> QED BY <3>2, <4>1
    <3> QED BY <3>1, <3>2
  <2>4. h = [i \in 0..m |-> h[i]]
    OBVIOUS
  <2> HIDE DEF h
  <2>5. Is(h, m)
    BY <2>3, <2>4
  <2> QED BY <2>5
<1>4. n \in T
  <2> HIDE DEF T
  <2>1. n \in Nat
    BY DEF n
  <2> QED BY <1>2, <1>3, <2>1, UpTo
<1>5. Is(after, n)
  BY <1>4
<1> HIDE DEF after
<1>6. \A i \in 0..n : after[i] = IF i = 0 THEN s ELSE Step(after[i - 1], i)
  BY <1>5
<1>7. n \in Nat
  BY DEF n
<1>8. after[0] = s /\ \A i \in 1..n : after[i] = Step(after[i - 1], i)
  BY <1>6, <1>7
<1> QED BY <1>1, <1>8 DEF Step, n

\* The listing of the keys expires one key after the other.
LEMMA LapsedSteps ==
  ASSUME NEW s, NEW ks, NEW t, Len(ks) \in Nat
  PROVE  \E g : /\ g[0] = s /\ Lapsed(s, ks, t) = g[Len(ks)]
                /\ \A i \in 1..Len(ks) : g[i] = expireIfNeeded(g[i - 1], ks[i], t)
<1> DEFINE n == Len(ks)
           Step(last, i) == expireIfNeeded(last, ks[i], t)
           Is(g, m) == g = [i \in 0..m |-> IF i = 0 THEN s ELSE Step(g[i - 1], i)]
           after == CHOOSE g : Is(g, n)
           T == {m \in 0..n : \E g : Is(g, m)}
<1>1. Lapsed(s, ks, t) = after[n]
  BY DEF Lapsed
<1> HIDE DEF Step, n
<1>2. 0 \in T
  <2> DEFINE h == [i \in 0..0 |-> s]
  <2>1. h = [i \in 0..0 |-> IF i = 0 THEN s ELSE Step(h[i - 1], i)]
    OBVIOUS
  <2> HIDE DEF h
  <2>2. Is(h, 0)
    BY <2>1
  <2> QED BY <2>2 DEF n
<1>3. ASSUME NEW m \in 1..n, m - 1 \in T PROVE m \in T
  <2>1. PICK g : Is(g, m - 1)
    BY <1>3
  <2> DEFINE h == [j \in 0..m |-> IF j < m THEN g[j] ELSE Step(g[m - 1], m)]
  <2>2. \A i \in 0..(m - 1) : g[i] = IF i = 0 THEN s ELSE Step(g[i - 1], i)
    BY <2>1
  <2>3. \A i \in 0..m : h[i] = IF i = 0 THEN s ELSE Step(h[i - 1], i)
    <3> TAKE i \in 0..m
    <3>1. CASE i < m
      <4>1. h[i] = g[i] /\ (i # 0 => h[i - 1] = g[i - 1]) /\ i \in 0..(m - 1)
        BY <3>1
      <4> QED BY <2>2, <4>1
    <3>2. CASE i = m
      <4>1. h[i] = Step(g[m - 1], m) /\ h[i - 1] = g[m - 1] /\ i # 0
        BY <3>2
      <4> QED BY <3>2, <4>1
    <3> QED BY <3>1, <3>2
  <2>4. h = [i \in 0..m |-> h[i]]
    OBVIOUS
  <2> HIDE DEF h
  <2>5. Is(h, m)
    BY <2>3, <2>4
  <2> QED BY <2>5
<1>4. n \in T
  <2> HIDE DEF T
  <2>1. n \in Nat
    BY DEF n
  <2> QED BY <1>2, <1>3, <2>1, UpTo
<1>5. Is(after, n)
  BY <1>4
<1> HIDE DEF after
<1>6. \A i \in 0..n : after[i] = IF i = 0 THEN s ELSE Step(after[i - 1], i)
  BY <1>5
<1>7. n \in Nat
  BY DEF n
<1>8. after[0] = s /\ \A i \in 1..n : after[i] = Step(after[i - 1], i)
  BY <1>6, <1>7
<1> QED BY <1>1, <1>8 DEF Step, n

\* A walk reads one key after the other.
LEMMA ReadsSteps ==
  ASSUME NEW s, NEW ks, NEW t, Len(ks) \in Nat
  PROVE  \E g : /\ g[0] = s /\ Reads(s, ks, t) = g[Len(ks)]
                /\ \A i \in 1..Len(ks) : g[i] = read(g[i - 1], ks[i], t)
<1> DEFINE n == Len(ks)
           Step(last, i) == read(last, ks[i], t)
           Is(g, m) == g = [i \in 0..m |-> IF i = 0 THEN s ELSE Step(g[i - 1], i)]
           after == CHOOSE g : Is(g, n)
           T == {m \in 0..n : \E g : Is(g, m)}
<1>1. Reads(s, ks, t) = after[n]
  BY DEF Reads
<1> HIDE DEF Step, n
<1>2. 0 \in T
  <2> DEFINE h == [i \in 0..0 |-> s]
  <2>1. h = [i \in 0..0 |-> IF i = 0 THEN s ELSE Step(h[i - 1], i)]
    OBVIOUS
  <2> HIDE DEF h
  <2>2. Is(h, 0)
    BY <2>1
  <2> QED BY <2>2 DEF n
<1>3. ASSUME NEW m \in 1..n, m - 1 \in T PROVE m \in T
  <2>1. PICK g : Is(g, m - 1)
    BY <1>3
  <2> DEFINE h == [j \in 0..m |-> IF j < m THEN g[j] ELSE Step(g[m - 1], m)]
  <2>2. \A i \in 0..(m - 1) : g[i] = IF i = 0 THEN s ELSE Step(g[i - 1], i)
    BY <2>1
  <2>3. \A i \in 0..m : h[i] = IF i = 0 THEN s ELSE Step(h[i - 1], i)
    <3> TAKE i \in 0..m
    <3>1. CASE i < m
      <4>1. h[i] = g[i] /\ (i # 0 => h[i - 1] = g[i - 1]) /\ i \in 0..(m - 1)
        BY <3>1
      <4> QED BY <2>2, <4>1
    <3>2. CASE i = m
      <4>1. h[i] = Step(g[m - 1], m) /\ h[i - 1] = g[m - 1] /\ i # 0
        BY <3>2
      <4> QED BY <3>2, <4>1
    <3> QED BY <3>1, <3>2
  <2>4. h = [i \in 0..m |-> h[i]]
    OBVIOUS
  <2> HIDE DEF h
  <2>5. Is(h, m)
    BY <2>3, <2>4
  <2> QED BY <2>5
<1>4. n \in T
  <2> HIDE DEF T
  <2>1. n \in Nat
    BY DEF n
  <2> QED BY <1>2, <1>3, <2>1, UpTo
<1>5. Is(after, n)
  BY <1>4
<1> HIDE DEF after
<1>6. \A i \in 0..n : after[i] = IF i = 0 THEN s ELSE Step(after[i - 1], i)
  BY <1>5
<1>7. n \in Nat
  BY DEF n
<1>8. after[0] = s /\ \A i \in 1..n : after[i] = Step(after[i - 1], i)
  BY <1>6, <1>7
<1> QED BY <1>1, <1>8 DEF Step, n

\* Sequences are joined one after the other.
LEMMA JoinedSteps ==
  ASSUME NEW seqs, Len(seqs) \in Nat
  PROVE  \E g : /\ g[0] = <<>> /\ Joined(seqs) = g[Len(seqs)]
                /\ \A i \in 1..Len(seqs) : g[i] = g[i - 1] \o seqs[i]
<1> DEFINE n == Len(seqs)
           Step(last, i) == last \o seqs[i]
           Is(g, m) == g = [i \in 0..m |-> IF i = 0 THEN <<>> ELSE Step(g[i - 1], i)]
           after == CHOOSE g : Is(g, n)
           T == {m \in 0..n : \E g : Is(g, m)}
<1>1. Joined(seqs) = after[n]
  BY DEF Joined
<1> HIDE DEF Step, n
<1>2. 0 \in T
  <2> DEFINE h == [i \in 0..0 |-> <<>>]
  <2>1. h = [i \in 0..0 |-> IF i = 0 THEN <<>> ELSE Step(h[i - 1], i)]
    OBVIOUS
  <2> HIDE DEF h
  <2>2. Is(h, 0)
    BY <2>1
  <2> QED BY <2>2 DEF n
<1>3. ASSUME NEW m \in 1..n, m - 1 \in T PROVE m \in T
  <2>1. PICK g : Is(g, m - 1)
    BY <1>3
  <2> DEFINE h == [j \in 0..m |-> IF j < m THEN g[j] ELSE Step(g[m - 1], m)]
  <2>2. \A i \in 0..(m - 1) : g[i] = IF i = 0 THEN <<>> ELSE Step(g[i - 1], i)
    BY <2>1
  <2>3. \A i \in 0..m : h[i] = IF i = 0 THEN <<>> ELSE Step(h[i - 1], i)
    <3> TAKE i \in 0..m
    <3>1. CASE i < m
      <4>1. h[i] = g[i] /\ (i # 0 => h[i - 1] = g[i - 1]) /\ i \in 0..(m - 1)
        BY <3>1
      <4> QED BY <2>2, <4>1
    <3>2. CASE i = m
      <4>1. h[i] = Step(g[m - 1], m) /\ h[i - 1] = g[m - 1] /\ i # 0
        BY <3>2
      <4> QED BY <3>2, <4>1
    <3> QED BY <3>1, <3>2
  <2>4. h = [i \in 0..m |-> h[i]]
    OBVIOUS
  <2> HIDE DEF h
  <2>5. Is(h, m)
    BY <2>3, <2>4
  <2> QED BY <2>5
<1>4. n \in T
  <2> HIDE DEF T
  <2>1. n \in Nat
    BY DEF n
  <2> QED BY <1>2, <1>3, <2>1, UpTo
<1>5. Is(after, n)
  BY <1>4
<1> HIDE DEF after
<1>6. \A i \in 0..n : after[i] = IF i = 0 THEN <<>> ELSE Step(after[i - 1], i)
  BY <1>5
<1>7. n \in Nat
  BY DEF n
<1>8. after[0] = <<>> /\ \A i \in 1..n : after[i] = Step(after[i - 1], i)
  BY <1>6, <1>7
<1> QED BY <1>1, <1>8 DEF Step, n

-----------------------------------------------------------------------------
(***************************************************************************)
(* The walks of save and rewrite: listing the keys, which removes the      *)
(* expired ones, and reading each.                                         *)
(***************************************************************************)
\* No deadline has been reached.
Fresh(s, t) == \A k \in DOMAIN s.expiry : ~(t >= s.expiry[k])

\* In contents where no deadline has been reached, the lazy expiry does nothing.
LEMMA FreshUnexpired ==
  ASSUME NEW s, NEW t, Fresh(s, t)
  PROVE  \A k : expireIfNeeded(s, k, t) = s
BY DEF Fresh, expireIfNeeded, isExpired

\* Lazy expiry leaves the other keys in the Map's order.
LEMMA ExpiryKeepsOrder ==
  ASSUME NEW s, Sound(s), NEW k, NEW t
  PROVE  KeepsOrder(expireIfNeeded(s, k, t).order, s.order)
<1>1. s.order \in Seq(Keys) /\ NoRepeats(s.order) /\ IsContents(s)
  BY SoundIsContents DEF Sound, WellTyped, InLockstep
<1>2. CASE expireIfNeeded(s, k, t) = s
  BY <1>2 DEF KeepsOrder
<1>3. CASE k \in Present(s) /\ expireIfNeeded(s, k, t) = removeKey(s, k)
  <2>1. removeKey(s, k).order = Without(s.order, k)
    BY <1>1, <1>3 DEF removeKey, IsContents
  <2>2. KeepsOrder(Without(s.order, k), s.order)
    BY <1>1, WithoutProperties
  <2> QED BY <1>3, <2>1, <2>2
<1> QED BY <1>2, <1>3 DEF expireIfNeeded

\* p is s without some keys that have expired.
Thinned(s, p, t) ==
  /\ Sound(p) /\ p.evictions = s.evictions
  /\ Live(p, t) = Live(s, t)
  /\ \A x \in Present(p) : SameAt(s, p, x)
  /\ KeepsOrder(p.order, s.order)

\* One more lazy expiry thins the contents further.
LEMMA ThinnedFurther ==
  ASSUME NEW s, NEW p, NEW t, NEW k, Thinned(s, p, t)
  PROVE  LET q == expireIfNeeded(p, k, t)
         IN  /\ Thinned(s, q, t) /\ Present(q) \subseteq Present(p)
             /\ k \in Present(q) => k \in Live(s, t)
<1> DEFINE q == expireIfNeeded(p, k, t)
<1>1. Elapsed(p, k, t, q) /\ KeepsOrder(q.order, p.order)
  BY ExpiryEffect, ExpiryKeepsOrder DEF Thinned
<1> HIDE DEF q
<1>2. \A x \in Present(q) : SameAt(p, q, x)
  <2>1. SameAt(p, p, k)
    BY DEF SameAt
  <2> QED BY <1>1, <2>1 DEF Elapsed
<1>3. Present(q) \subseteq Present(p)
  BY <1>1 DEF Elapsed
<1>4. \A x \in Present(q) : SameAt(s, q, x)
  BY <1>2, <1>3, SameTwice DEF Thinned
<1>5. KeepsOrder(q.order, s.order)
  BY <1>1 DEF Thinned, KeepsOrder
<1> QED BY <1>1, <1>3, <1>4, <1>5 DEF Thinned, Elapsed, q

\* Listing the keys removes expired keys only, and every expired key it lists.
LEMMA LapsedProperties ==
  ASSUME NEW s, Sound(s), NEW ks, Len(ks) \in Nat, NEW t
  PROVE  LET p == Lapsed(s, ks, t)
         IN  /\ Thinned(s, p, t)
             /\ \A i \in 1..Len(ks) : ks[i] \in Present(p) => ks[i] \in Live(s, t)
             /\ Fresh(s, t) => p = s
<1>1. PICK g : /\ g[0] = s /\ Lapsed(s, ks, t) = g[Len(ks)]
               /\ \A i \in 1..Len(ks) : g[i] = expireIfNeeded(g[i - 1], ks[i], t)
  BY LapsedSteps, SMTT(40)
<1> DEFINE n == Len(ks)
           Good(i) == /\ Thinned(s, g[i], t)
                      /\ \A j \in 1..i : ks[j] \in Present(g[i]) => ks[j] \in Live(s, t)
                      /\ Fresh(s, t) => g[i] = s
           T == {i \in 0..n : Good(i)}
<1>0. n \in Nat
  OBVIOUS
<1>2. 0 \in T
  <2>1. Thinned(s, s, t)
    BY DEF Thinned, SameAt, KeepsOrder
  <2> QED BY <1>1, <2>1
<1>3. ASSUME NEW i \in 1..n, i - 1 \in T PROVE i \in T
  <2>1. Good(i - 1) /\ g[i] = expireIfNeeded(g[i - 1], ks[i], t)
    BY <1>1, <1>3
  <2>2. /\ Thinned(s, g[i], t) /\ Present(g[i]) \subseteq Present(g[i - 1])
        /\ ks[i] \in Present(g[i]) => ks[i] \in Live(s, t)
    BY <2>1, ThinnedFurther
  <2>3. Fresh(s, t) => g[i] = s
    BY <2>1, FreshUnexpired
  <2>4. \A j \in 1..i : j = i \/ j \in 1..(i - 1)
    OBVIOUS
  <2> QED BY <2>1, <2>2, <2>3, <2>4
<1> HIDE DEF T
<1>4. n \in T
  <2> HIDE DEF n
  <2> QED BY <1>0, <1>2, <1>3, UpTo
<1> QED BY <1>1, <1>4 DEF T

\* The contents that save and rewrite list: sound, and exactly the live keys.
LEMMA UnexpiredProperties ==
  ASSUME NEW s, Sound(s), NEW t
  PROVE  LET p == Unexpired(s, t)
         IN  /\ Thinned(s, p, t) /\ Present(p) = Live(s, t) /\ Fresh(p, t)
             /\ Fresh(s, t) => p = s
<1> DEFINE p == Unexpired(s, t)
<1>1. s.order \in Seq(Keys) /\ Len(s.order) \in Nat /\ DOMAIN s.order = 1..Len(s.order)
  BY LenProperties DEF Sound, WellTyped
<1>2. /\ Thinned(s, p, t)
      /\ \A i \in 1..Len(s.order) : s.order[i] \in Present(p) => s.order[i] \in Live(s, t)
      /\ Fresh(s, t) => p = s
  BY <1>1, LapsedProperties DEF Unexpired
<1> HIDE DEF p
<1>3. ToSet(s.order) = Present(s)
  BY DEF Sound, InLockstep
<1>4. Present(p) \subseteq Present(s)
  BY <1>2 DEF Thinned, SameAt
<1>5. Present(p) \subseteq Live(s, t)
  <2> SUFFICES ASSUME NEW x \in Present(p) PROVE x \in Live(s, t)
    OBVIOUS
  <2>1. PICK i \in 1..Len(s.order) : s.order[i] = x
    BY <1>1, <1>3, <1>4 DEF ToSet
  <2> QED BY <1>2, <2>1
<1>6. Live(s, t) \subseteq Present(p)
  BY <1>2 DEF Thinned, Live
<1>7. Fresh(p, t)
  <2>1. DOMAIN p.expiry \subseteq Present(p) /\ Live(p, t) = Live(s, t)
    BY <1>2 DEF Thinned, Sound, InLockstep
  <2> QED BY <1>5, <2>1 DEF Fresh, Live, isExpired
<1> QED BY <1>2, <1>5, <1>6, <1>7 DEF p

\* Reading a key keeps the contents sound, and the data if nothing is due.
LEMMA ReadEffect ==
  ASSUME NEW s, Sound(s), NEW k, NEW t
  PROVE  /\ Sound(read(s, k, t))
         /\ Fresh(s, t) => read(s, k, t).values = s.values /\ read(s, k, t).expiry = s.expiry
<1> DEFINE p == expireIfNeeded(s, k, t)
<1>1. Sound(p)
  BY ExpireIfNeededSound
<1>2. Fresh(s, t) => p = s
  BY FreshUnexpired
<1>3. read(s, k, t) = IF k \in Present(p) THEN touch(p, k) ELSE p
  BY DEF read
<1> HIDE DEF p
<1>4. k \in Present(p) => /\ Sound(touch(p, k)) /\ touch(p, k).values = p.values
                          /\ touch(p, k).expiry = p.expiry
  BY <1>1, TouchSound
<1> QED BY <1>1, <1>2, <1>3, <1>4

\* A walk of reads keeps the contents sound, and fresh ones as they are.
LEMMA ReadsProperties ==
  ASSUME NEW s, Sound(s), NEW ks, Len(ks) \in Nat, NEW t
  PROVE  LET r == Reads(s, ks, t)
         IN  /\ Sound(r)
             /\ Fresh(s, t) => r.values = s.values /\ r.expiry = s.expiry
<1>1. PICK g : /\ g[0] = s /\ Reads(s, ks, t) = g[Len(ks)]
               /\ \A i \in 1..Len(ks) : g[i] = read(g[i - 1], ks[i], t)
  BY ReadsSteps, SMTT(40)
<1> DEFINE n == Len(ks)
           Good(r) == /\ Sound(r)
                      /\ Fresh(s, t) => r.values = s.values /\ r.expiry = s.expiry
           T == {i \in 0..n : Good(g[i])}
<1>0. n \in Nat
  OBVIOUS
<1>2. 0 \in T
  BY <1>1
<1>3. ASSUME NEW i \in 1..n, i - 1 \in T PROVE i \in T
  <2>1. Good(g[i - 1]) /\ g[i] = read(g[i - 1], ks[i], t)
    BY <1>1, <1>3
  <2>2. Fresh(s, t) => Fresh(g[i - 1], t)
    BY <2>1 DEF Fresh
  <2>3. Good(g[i])
    BY <2>1, <2>2, ReadEffect
  <2> QED BY <2>3
<1> HIDE DEF T
<1>4. n \in T
  <2> HIDE DEF n
  <2> QED BY <1>0, <1>2, <1>3, UpTo
<1> QED BY <1>1, <1>4 DEF T

\* A whole walk keeps the contents sound, and the data if nothing is due.
LEMMA WalkedProperties ==
  ASSUME NEW s, Sound(s), NEW t
  PROVE  LET p == Unexpired(s, t)
             r == Walked(s, t)
         IN  Sound(r) /\ r.values = p.values /\ r.expiry = p.expiry
<1>1. Sound(Unexpired(s, t)) /\ Fresh(Unexpired(s, t), t)
  BY UnexpiredProperties DEF Thinned
<1>2. Len(Unexpired(s, t).order) \in Nat
  BY <1>1, LenProperties DEF Sound, WellTyped
<1> QED BY <1>1, <1>2, ReadsProperties DEF Walked

\* So does one during which the clock ticks.
LEMMA WalkedAcrossTickProperties ==
  ASSUME NEW s, Sound(s), NEW t \in Nat, NEW i \in DOMAIN Unexpired(s, t).order
  PROVE  LET r == WalkedAcrossTick(s, t, i)
         IN  /\ Sound(r)
             /\ Fresh(s, t + 1) => r.values = s.values /\ r.expiry = s.expiry
<1> DEFINE p     == Unexpired(s, t)
           n     == Len(p.order)
           left  == SubSeq(p.order, 1, i)
           right == SubSeq(p.order, i + 1, n)
           early == Reads(p, left, t)
           asked == expireIfNeeded(early, p.order[i], t + 1)
<1>1. Sound(p) /\ (Fresh(s, t) => p = s)
  BY UnexpiredProperties DEF Thinned
<1>2. p.order \in Seq(Keys) /\ n \in Nat /\ DOMAIN p.order = 1..n /\ i \in 1..n
  BY <1>1, LenProperties DEF Sound, WellTyped
<1> HIDE DEF p, n
<1>3. \A j \in 1..n : p.order[j] \in Keys
  BY <1>2, ElementOfSeq DEF n
<1>4. Len(left) \in Nat
  BY <1>2, <1>3, SubSeqProperties
<1>5. Len(right) \in Nat
  BY <1>2, <1>3, SubSeqProperties
<1>6. Fresh(s, t + 1) => Fresh(s, t)
  <2>1. s.expiry \in [DOMAIN s.expiry -> Nat]
    BY DEF Sound, WellTyped
  <2> QED BY <2>1 DEF Fresh
<1>7. Sound(early) /\ (Fresh(s, t) => early.values = s.values /\ early.expiry = s.expiry)
  BY <1>1, <1>4, ReadsProperties, ZenonT(40)
<1> HIDE DEF left, right, early
<1>8. Sound(asked) /\ (Fresh(early, t + 1) => asked = early)
  BY <1>7, ExpireIfNeededSound, FreshUnexpired
<1> HIDE DEF asked
<1>9. Fresh(s, t + 1) => asked = early /\ Fresh(asked, t + 1)
  BY <1>6, <1>7, <1>8 DEF Fresh
<1>10. LET r == Reads(asked, right, t + 1)
       IN  /\ Sound(r)
           /\ Fresh(asked, t + 1) => r.values = asked.values /\ r.expiry = asked.expiry
  BY <1>5, <1>8, ReadsProperties
<1>11. WalkedAcrossTick(s, t, i) = Reads(asked, right, t + 1)
  BY DEF WalkedAcrossTick, asked, early, left, right, n, p
<1> QED BY <1>6, <1>7, <1>9, <1>10, <1>11

-----------------------------------------------------------------------------
(***************************************************************************)
(* Lines of a log and entries of a snapshot.                               *)
(***************************************************************************)
\* What a log may hold: the commands that are given, and those that a rewrite
\* makes up, whose lists, hashes and TTLs are those of the contents.
LogLines ==
       NoArgs
  \cup [name : {"SET"}, key : Keys, value : Vals, secs : Nat]
  \cup [name : {"EXPIRE"}, key : Keys, secs : Nat \ {0}]
  \cup [name : {"LPUSH", "RPUSH"}, key : Keys, values : Seq(Vals) \ {<<>>}]
  \cup [name : {"HSET"}, key : Keys, pairs : {h \in Hashes : DOMAIN h # {}}]
  \cup [name : {"HDEL"}, key : Keys, fields : SUBSET Fields]

\* What each kind of line carries.
LEMMA LineCases ==
  ASSUME NEW cmd \in LogLines
  PROVE  /\ cmd.key \in Keys
         /\ cmd.name \in {"GET", "DEL", "PERSIST", "LPOP", "RPOP", "SET", "EXPIRE", "LPUSH",
                          "RPUSH", "HSET", "HDEL"}
         /\ cmd.name = "SET" => cmd.value \in Vals /\ cmd.secs \in Nat
         /\ cmd.name = "EXPIRE" => cmd.secs \in Nat \ {0}
         /\ cmd.name \in {"LPUSH", "RPUSH"} => cmd.values \in Seq(Vals) /\ cmd.values # <<>>
         /\ cmd.name = "HSET" => cmd.pairs \in Hashes /\ DOMAIN cmd.pairs # {}
         /\ cmd.name = "HDEL" => cmd.fields \in SUBSET Fields
BY DEF LogLines, NoArgs

\* The commands that are given are such lines.
LEMMA CommandsAreLines == Commands \subseteq LogLines
<1>1. \A vals \in Arguments : vals \in Seq(Vals) /\ vals # <<>>
  BY ArgumentTypes
<1>2. Ttls \subseteq Nat \ {0} /\ NoTTL \in Nat
  BY TtlAssumption DEF NoTTL
<1> DEFINE pairs1  == UNION {[F -> Vals] : F \in FieldSets}
           fields1 == FieldSets
           pairs2  == {h \in Hashes : DOMAIN h # {}}
<1>3. ASSUME NEW x \in pairs1 PROVE x \in pairs2
  <2>1. PICK F \in FieldSets : x \in [F -> Vals]
    OBVIOUS
  <2>2. F \in SUBSET Fields /\ F # {}
    BY DEF FieldSets
  <2> QED BY <2>1, <2>2 DEF Hashes
<1>4. pairs1 \subseteq pairs2 /\ fields1 \subseteq SUBSET Fields
  BY <1>3 DEF FieldSets
<1>5. Commands = NoArgs
        \cup [name : {"SET"}, key : Keys, value : Vals, secs : Ttls \cup {NoTTL}]
        \cup [name : {"EXPIRE"}, key : Keys, secs : Ttls]
        \cup [name : {"LPUSH", "RPUSH"}, key : Keys, values : Arguments]
        \cup [name : {"HSET"}, key : Keys, pairs : pairs1]
        \cup [name : {"HDEL"}, key : Keys, fields : fields1]
  BY DEF Commands
<1> HIDE DEF pairs1, fields1, pairs2
<1> DEFINE s1 == [name : {"SET"}, key : Keys, value : Vals, secs : Ttls \cup {NoTTL}]
           s2 == [name : {"SET"}, key : Keys, value : Vals, secs : Nat]
           e1 == [name : {"EXPIRE"}, key : Keys, secs : Ttls]
           e2 == [name : {"EXPIRE"}, key : Keys, secs : Nat \ {0}]
           p1 == [name : {"LPUSH", "RPUSH"}, key : Keys, values : Arguments]
           p2 == [name : {"LPUSH", "RPUSH"}, key : Keys, values : Seq(Vals) \ {<<>>}]
           h1 == [name : {"HSET"}, key : Keys, pairs : pairs1]
           h2 == [name : {"HSET"}, key : Keys, pairs : pairs2]
           d1 == [name : {"HDEL"}, key : Keys, fields : fields1]
           d2 == [name : {"HDEL"}, key : Keys, fields : SUBSET Fields]
<1>6. s1 \subseteq s2 /\ e1 \subseteq e2 /\ p1 \subseteq p2 /\ h1 \subseteq h2 /\ d1 \subseteq d2
  BY <1>1, <1>2, <1>4
<1>7. /\ Commands = NoArgs \cup s1 \cup e1 \cup p1 \cup h1 \cup d1
      /\ LogLines = NoArgs \cup s2 \cup e2 \cup p2 \cup h2 \cup d2
  BY <1>5 DEF LogLines, pairs2
<1> HIDE DEF s1, s2, e1, e2, p1, p2, h1, h2, d1, d2
<1> QED BY <1>6, <1>7

\* HSET and HDEL are given finitely many fields, and at least one.
LEMMA FieldsGiven ==
  ASSUME NEW cmd \in Commands
  PROVE  /\ cmd.name = "HSET" => IsFiniteSet(DOMAIN cmd.pairs) /\ DOMAIN cmd.pairs # {}
         /\ cmd.name = "HDEL" => IsFiniteSet(cmd.fields)
<1> DEFINE given == UNION {[F -> Vals] : F \in FieldSets}
<1>1. \A x \in given : IsFiniteSet(DOMAIN x) /\ DOMAIN x # {}
  <2> SUFFICES ASSUME NEW F \in FieldSets, NEW x \in [F -> Vals]
               PROVE  IsFiniteSet(DOMAIN x) /\ DOMAIN x # {}
    OBVIOUS
  <2> QED BY DEF FieldSets
<1>2. \A F \in FieldSets : IsFiniteSet(F)
  BY DEF FieldSets
<1>3. Commands = NoArgs
        \cup [name : {"SET"}, key : Keys, value : Vals, secs : Ttls \cup {NoTTL}]
        \cup [name : {"EXPIRE"}, key : Keys, secs : Ttls]
        \cup [name : {"LPUSH", "RPUSH"}, key : Keys, values : Arguments]
        \cup [name : {"HSET"}, key : Keys, pairs : given]
        \cup [name : {"HDEL"}, key : Keys, fields : FieldSets]
  BY DEF Commands
<1> HIDE DEF given
<1> QED BY <1>1, <1>2, <1>3 DEF NoArgs

\* The method that each command calls.
LEMMA Performing ==
  ASSUME NEW s, NEW cmd, NEW t
  PROVE  /\ cmd.name = "SET" => Perform(s, cmd, t) = set(s, cmd.key, cmd.value, cmd.secs, t)
         /\ cmd.name = "GET" => Perform(s, cmd, t) = get(s, cmd.key, t)
         /\ cmd.name = "DEL" => Perform(s, cmd, t) = del(s, cmd.key, t)
         /\ cmd.name = "EXPIRE" => Perform(s, cmd, t) = expire(s, cmd.key, cmd.secs, t)
         /\ cmd.name = "PERSIST" => Perform(s, cmd, t) = persist(s, cmd.key, t)
         /\ cmd.name = "LPUSH" => Perform(s, cmd, t) = lpush(s, cmd.key, cmd.values, t)
         /\ cmd.name = "RPUSH" => Perform(s, cmd, t) = rpush(s, cmd.key, cmd.values, t)
         /\ cmd.name = "LPOP" => Perform(s, cmd, t) = lpop(s, cmd.key, t)
         /\ cmd.name = "RPOP" => Perform(s, cmd, t) = rpop(s, cmd.key, t)
         /\ cmd.name = "HSET" => Perform(s, cmd, t) = hset(s, cmd.key, cmd.pairs, t)
         /\ cmd.name = "HDEL" => Perform(s, cmd, t) = hdel(s, cmd.key, cmd.fields, t)
BY DEF Perform

\* Every line takes sound contents to sound contents.
LEMMA PerformSound ==
  ASSUME NEW s, Sound(s), NEW cmd \in LogLines, NEW t \in Nat
  PROVE  Sound(Perform(s, cmd, t).store)
<1>1. CASE cmd.name \in {"GET", "DEL", "PERSIST", "LPOP", "RPOP"}
  <2>1. /\ Sound(get(s, cmd.key, t).store) /\ Sound(del(s, cmd.key, t).store)
    BY ReadsSound
  <2>2. Sound(persist(s, cmd.key, t).store)
    BY DeadlineMethodsSound
  <2>3. Sound(lpop(s, cmd.key, t).store) /\ Sound(rpop(s, cmd.key, t).store)
    BY LineCases, PopSound
  <2> QED BY <1>1, <2>1, <2>2, <2>3, Performing
<1>2. CASE cmd.name = "SET"
  BY <1>2, LineCases, Performing, SetSound
<1>3. CASE cmd.name = "EXPIRE"
  <2>1. cmd.key \in Keys /\ cmd.secs \in Nat
    BY <1>3, LineCases
  <2>2. Sound(expire(s, cmd.key, cmd.secs, t).store)
    BY <2>1, DeadlineMethodsSound
  <2> QED BY <1>3, <2>2, Performing
<1>4. CASE cmd.name \in {"LPUSH", "RPUSH"}
  BY <1>4, LineCases, Performing, PushSound
<1>5. CASE cmd.name = "HSET"
  BY <1>5, LineCases, Performing, HSetSound
<1>6. CASE cmd.name = "HDEL"
  BY <1>6, LineCases, Performing, HDelSound
<1> QED BY <1>1, <1>2, <1>3, <1>4, <1>5, <1>6, LineCases

\* So does a whole replay.
LEMMA ReplayedSound ==
  ASSUME NEW s, Sound(s), NEW lines \in Seq(LogLines), NEW t \in Nat
  PROVE  Sound(Replayed(s, lines, t))
<1> DEFINE n == Len(lines)
<1>1. n \in Nat /\ \A i \in 1..n : lines[i] \in LogLines
  BY LenProperties, ElementOfSeq
<1>2. PICK g : /\ g[0] = s /\ Replayed(s, lines, t) = g[Len(lines)]
               /\ \A i \in 1..Len(lines) : g[i] = Perform(g[i - 1], lines[i], t).store
  BY <1>1, ReplayedSteps
<1> DEFINE T == {i \in 0..n : Sound(g[i])}
<1> HIDE DEF n
<1>3. 0 \in T
  BY <1>1, <1>2
<1>4. ASSUME NEW i \in 1..n, i - 1 \in T PROVE i \in T
  <2>1. Sound(g[i - 1]) /\ lines[i] \in LogLines /\ g[i] = Perform(g[i - 1], lines[i], t).store
    BY <1>1, <1>2, <1>4 DEF n
  <2> QED BY <2>1, PerformSound
<1> HIDE DEF T
<1>5. n \in T
  <2>1. n \in Nat
    BY <1>1
  <2>2. 0..n \subseteq T
    BY <1>3, <1>4, <2>1, UpTo
  <2> QED BY <2>1, <2>2
<1> QED BY <1>2, <1>5 DEF T, n

\* Lines in a row are replayed in turn.
LEMMA ReplayedInTurn ==
  ASSUME NEW s, NEW a \in Seq(LogLines), NEW b \in Seq(LogLines), NEW t
  PROVE  Replayed(s, a \o b, t) = Replayed(Replayed(s, a, t), b, t)
<1> DEFINE m == Len(a)
           n == Len(b)
           both == a \o b
           Is(g, from, lines) ==
             /\ g[0] = from
             /\ \A i \in 1..Len(lines) : g[i] = Perform(g[i - 1], lines[i], t).store
<1>1. m \in Nat /\ n \in Nat
  BY LenProperties
<1>2. /\ both \in Seq(LogLines) /\ Len(both) = m + n
      /\ \A i \in 1..(m + n) : both[i] = IF i <= m THEN a[i] ELSE b[i - m]
  BY ConcatProperties
<1> HIDE DEF both
<1>3. PICK g : Is(g, s, a) /\ Replayed(s, a, t) = g[m]
  BY <1>1, ReplayedSteps
<1>4. PICK h : Is(h, g[m], b) /\ Replayed(g[m], b, t) = h[n]
  BY <1>1, ReplayedSteps
<1>5. PICK f : Is(f, s, both) /\ Replayed(s, both, t) = f[m + n]
  <2> HIDE DEF m, n
  <2>1. Len(both) \in Nat
    BY <1>1, <1>2
  <2>2. \E f : Is(f, s, both) /\ Replayed(s, both, t) = f[Len(both)]
    BY <2>1, ReplayedSteps
  <2> QED BY <1>2, <2>2
<1> HIDE DEF m, n
<1>6. 0..m \subseteq {i \in 0..m : f[i] = g[i]}
  <2> DEFINE T == {i \in 0..m : f[i] = g[i]}
  <2>1. 0 \in T
    BY <1>1, <1>3, <1>5
  <2>2. ASSUME NEW i \in 1..m, i - 1 \in T PROVE i \in T
    <3>1. i \in 1..(m + n) /\ both[i] = a[i] /\ f[i - 1] = g[i - 1]
      BY <1>1, <1>2, <2>2
    <3>2. f[i] = Perform(f[i - 1], both[i], t).store /\ g[i] = Perform(g[i - 1], a[i], t).store
      BY <1>2, <1>3, <1>5, <3>1 DEF m
    <3> QED BY <3>1, <3>2
  <2> HIDE DEF T
  <2>3. 0..m \subseteq T
    BY <1>1, <2>1, <2>2, UpTo
  <2> QED BY <2>3 DEF T
<1>7. 0..n \subseteq {i \in 0..n : f[m + i] = h[i]}
  <2> DEFINE T == {i \in 0..n : f[m + i] = h[i]}
  <2>1. 0 \in T
    <3>1. m \in 0..m /\ m + 0 = m
      BY <1>1
    <3> QED BY <1>1, <1>4, <1>6, <3>1
  <2>2. ASSUME NEW i \in 1..n, i - 1 \in T PROVE i \in T
    <3>1. /\ m + i \in 1..(m + n) /\ ~(m + i <= m) /\ (m + i) - m = i
          /\ (m + i) - 1 = m + (i - 1)
      BY <1>1
    <3>2. both[m + i] = b[i] /\ f[m + (i - 1)] = h[i - 1]
      BY <1>2, <2>2, <3>1
    <3>3. f[m + i] = Perform(f[m + (i - 1)], both[m + i], t).store
      BY <1>2, <1>5, <3>1
    <3>4. h[i] = Perform(h[i - 1], b[i], t).store
      BY <1>4 DEF n
    <3> QED BY <3>2, <3>3, <3>4
  <2> HIDE DEF T
  <2>3. 0..n \subseteq T
    BY <1>1, <2>1, <2>2, UpTo
  <2> QED BY <2>3 DEF T
<1>8. n \in 0..n
  BY <1>1
<1> QED BY <1>3, <1>4, <1>5, <1>7, <1>8 DEF both

\* No line, one line.
LEMMA ReplayedShort ==
  ASSUME NEW s, NEW t
  PROVE  /\ Replayed(s, <<>>, t) = s
         /\ \A cmd : Replayed(s, <<cmd>>, t) = Perform(s, cmd, t).store
<1>1. Replayed(s, <<>>, t) = s
  <2>1. Len(<<>>) = 0
    BY EmptySeq
  <2> QED BY <2>1, ReplayedSteps
<1>2. ASSUME NEW cmd PROVE Replayed(s, <<cmd>>, t) = Perform(s, cmd, t).store
  <2> DEFINE one == <<cmd>>
  <2>1. Len(one) = 1 /\ one[1] = cmd
    OBVIOUS
  <2> HIDE DEF one
  <2>2. PICK g : /\ g[0] = s /\ Replayed(s, one, t) = g[Len(one)]
                 /\ \A i \in 1..Len(one) : g[i] = Perform(g[i - 1], one[i], t).store
    BY <2>1, ReplayedSteps
  <2>3. g[1] = Perform(g[1 - 1], one[1], t).store /\ 1 - 1 = 0
    BY <2>1, <2>2
  <2>4. Replayed(s, one, t) = Perform(s, cmd, t).store
    BY <2>1, <2>2, <2>3
  <2> QED BY <2>4 DEF one
<1> QED BY <1>1, <1>2

\* One line more.
LEMMA ReplayedAppend ==
  ASSUME NEW s, NEW a \in Seq(LogLines), NEW cmd \in LogLines, NEW t
  PROVE  Replayed(s, Append(a, cmd), t) = Perform(Replayed(s, a, t), cmd, t).store
<1>1. <<cmd>> \in Seq(LogLines) /\ Append(a, cmd) = a \o <<cmd>>
  OBVIOUS
<1>2. Replayed(s, a \o <<cmd>>, t) = Replayed(Replayed(s, a, t), <<cmd>>, t)
  BY <1>1, ReplayedInTurn
<1> QED BY <1>1, <1>2, ReplayedShort

-----------------------------------------------------------------------------
(***************************************************************************)
(* The same line does the same to contents that agree, although it is      *)
(* carried out at different times.                                         *)
(***************************************************************************)
\* The deadlines f at time t are none of them before those g at time u, if t is not
\* before u.
NoneEarlier(f, t, g, u) == u <= t => \A k \in DOMAIN g : g[k] <= f[k]

\* Contents r at time t and s at time u hold the same data, have deadlines for the
\* same keys, r none before s if t is not before u, and none of these has been
\* reached; and, if alike, keep the keys in the same order of use, so that they would
\* evict the same key.
Agree(r, t, s, u, alike) ==
  /\ IsContents(r) /\ IsContents(s)
  /\ r.values = s.values /\ DOMAIN r.expiry = DOMAIN s.expiry
  /\ Fresh(r, t) /\ Fresh(s, u) /\ NoneEarlier(r.expiry, t, s.expiry, u)
  /\ alike => r.lru = s.lru

\* What is done to the deadlines on both sides.
LEMMA DropNoneEarlier ==
  ASSUME NEW f, NEW t, NEW g, NEW u, NoneEarlier(f, t, g, u), DOMAIN f = DOMAIN g, NEW k
  PROVE  NoneEarlier(Drop(f, k), t, Drop(g, k), u)
BY DEF NoneEarlier, Drop

LEMMA WithNoneEarlier ==
  ASSUME NEW f, NEW t, NEW g, NEW u, NoneEarlier(f, t, g, u), DOMAIN f = DOMAIN g, NEW k,
         NEW d, NEW e, u <= t => e <= d
  PROVE  NoneEarlier(With(f, k, d), t, With(g, k, e), u)
BY DEF NoneEarlier, With

\* Each of the private parts of a method keeps the agreement: a touch,
LEMMA TouchAgrees ==
  ASSUME NEW r, NEW t, NEW s, NEW u, NEW alike, Agree(r, t, s, u, alike), NEW k
  PROVE  Agree(touch(r, k), t, touch(s, k), u, alike)
<1>1. /\ Alike(r, touch(r, k)) /\ Alike(s, touch(s, k))
  BY TouchEffect DEF Agree
<1>2. touch(r, k).lru = <<k>> \o Without(r.lru, k) /\ touch(s, k).lru = <<k>> \o Without(s.lru, k)
  BY DEF Agree, IsContents, touch
<1> QED BY <1>1, <1>2 DEF Agree, Alike, Fresh

\* the storing of a value,
LEMMA PutAgrees ==
  ASSUME NEW r, NEW t, NEW s, NEW u, NEW alike, Agree(r, t, s, u, alike), NEW k, NEW v
  PROVE  Agree(put(r, k, v), t, put(s, k, v), u, alike)
<1>1. /\ IsContents(put(r, k, v)) /\ put(r, k, v).values = With(r.values, k, v)
      /\ put(r, k, v).expiry = r.expiry
      /\ IsContents(put(s, k, v)) /\ put(s, k, v).values = With(s.values, k, v)
      /\ put(s, k, v).expiry = s.expiry
  BY PutEffect DEF Agree
<1>2. put(r, k, v).lru = touch(r, k).lru /\ put(s, k, v).lru = touch(s, k).lru
  <2>1. IsContents(touch(r, k)) /\ IsContents(touch(s, k))
    BY TouchEffect DEF Agree, Alike
  <2> QED BY <2>1 DEF put, IsContents
<1>3. alike => touch(r, k).lru = touch(s, k).lru
  BY TouchAgrees DEF Agree
<1> QED BY <1>1, <1>2, <1>3 DEF Agree, Fresh

\* the mark of a mutation,
LEMMA MutatedAgrees ==
  ASSUME NEW r, NEW t, NEW s, NEW u, NEW alike, Agree(r, t, s, u, alike)
  PROVE  Agree(mutated(r), t, mutated(s), u, alike)
BY DEF Agree, IsContents, mutated, Fresh

\* the removal of a key,
LEMMA RemoveAgrees ==
  ASSUME NEW r, NEW t, NEW s, NEW u, NEW alike, Agree(r, t, s, u, alike), NEW k
  PROVE  Agree(removeKey(r, k), t, removeKey(s, k), u, alike)
<1>1. Present(r) = Present(s)
  BY DEF Agree, Present
<1>2. CASE k \notin Present(s)
  BY <1>1, <1>2, RemoveEffect DEF Agree
<1>3. CASE k \in Present(s)
  <2> DEFINE a == removeKey(r, k)
             b == removeKey(s, k)
  <2>1. /\ IsContents(a) /\ a.values = Drop(r.values, k) /\ a.expiry = Drop(r.expiry, k)
        /\ IsContents(b) /\ b.values = Drop(s.values, k) /\ b.expiry = Drop(s.expiry, k)
    BY <1>1, <1>3, RemoveEffect DEF Agree
  <2>2. a.lru = Without(r.lru, k) /\ b.lru = Without(s.lru, k)
    BY <1>1, <1>3 DEF removeKey, Agree, IsContents
  <2> HIDE DEF a, b
  <2>3. DOMAIN a.expiry = DOMAIN b.expiry /\ Fresh(a, t) /\ Fresh(b, u)
    BY <2>1 DEF Agree, Fresh, Drop
  <2>4. NoneEarlier(a.expiry, t, b.expiry, u)
    BY <2>1, DropNoneEarlier DEF Agree
  <2> QED BY <2>1, <2>2, <2>3, <2>4 DEF Agree, a, b
<1> QED BY <1>2, <1>3

\* a deadline that lies ahead on both sides,
LEMMA SetDeadlineAgrees ==
  ASSUME NEW r, NEW t, NEW s, NEW u, NEW alike, Agree(r, t, s, u, alike), NEW k,
         NEW d, ~(t >= d), NEW e, ~(u >= e), u <= t => e <= d
  PROVE  Agree(setDeadline(r, k, d), t, setDeadline(s, k, e), u, alike)
<1> DEFINE a == setDeadline(r, k, d)
           b == setDeadline(s, k, e)
<1>1. /\ IsContents(a) /\ a.values = r.values /\ a.expiry = With(r.expiry, k, d)
      /\ IsContents(b) /\ b.values = s.values /\ b.expiry = With(s.expiry, k, e)
  BY DeadlineEffect DEF Agree
<1>2. a.lru = r.lru /\ b.lru = s.lru
  BY DEF setDeadline, Agree, IsContents
<1> HIDE DEF a, b
<1>3. DOMAIN a.expiry = DOMAIN b.expiry /\ Fresh(a, t) /\ Fresh(b, u)
  BY <1>1 DEF Agree, Fresh, With
<1>4. NoneEarlier(a.expiry, t, b.expiry, u)
  BY <1>1, WithNoneEarlier DEF Agree
<1> QED BY <1>1, <1>2, <1>3, <1>4 DEF Agree, a, b

\* and the end of a deadline.
LEMMA ClearDeadlineAgrees ==
  ASSUME NEW r, NEW t, NEW s, NEW u, NEW alike, Agree(r, t, s, u, alike), NEW k
  PROVE  Agree(clearDeadline(r, k), t, clearDeadline(s, k), u, alike)
<1> DEFINE a == clearDeadline(r, k)
           b == clearDeadline(s, k)
<1>1. /\ IsContents(a) /\ a.values = r.values /\ a.expiry = Drop(r.expiry, k)
      /\ IsContents(b) /\ b.values = s.values /\ b.expiry = Drop(s.expiry, k)
  BY DeadlineEffect DEF Agree
<1>2. a.lru = r.lru /\ b.lru = s.lru
  BY DEF clearDeadline, Agree, IsContents
<1> HIDE DEF a, b
<1>3. DOMAIN a.expiry = DOMAIN b.expiry /\ Fresh(a, t) /\ Fresh(b, u)
  BY <1>1 DEF Agree, Fresh, Drop
<1>4. NoneEarlier(a.expiry, t, b.expiry, u)
  BY <1>1, DropNoneEarlier DEF Agree
<1> QED BY <1>1, <1>2, <1>3, <1>4 DEF Agree, a, b

\* Contents that agree make the same room, if they keep the same order of use or if
\* one of them evicts nothing.
LEMMA ReserveAgrees ==
  ASSUME NEW r, Sound(r), NEW t, NEW s, Sound(s), NEW u, NEW alike, Agree(r, t, s, u, alike),
         NEW k, alike \/ reserveSlotFor(s, k, u).evictions = s.evictions
  PROVE  Agree(reserveSlotFor(r, k, t), t, reserveSlotFor(s, k, u), u, alike)
<1>1. Present(r) = Present(s)
  BY DEF Agree, Present
<1>2. CASE ~(k \notin Present(s) /\ Cardinality(Present(s)) >= MaxKeys)
  BY <1>1, <1>2 DEF reserveSlotFor
<1>3. CASE k \notin Present(s) /\ Cardinality(Present(s)) >= MaxKeys
  <2> DEFINE x == Last(r.lru)
             y == Last(s.lru)
             a == removeKey(r, x)
             b == removeKey(s, y)
  <2>1. ~isExpired(r, x, t) /\ ~isExpired(s, y, u)
    BY DEF Agree, Fresh, isExpired
  <2>2. /\ reserveSlotFor(r, k, t) = IF r.lru = <<>> THEN r ELSE [a EXCEPT !.evictions = a.evictions + 1]
        /\ reserveSlotFor(s, k, u) = IF s.lru = <<>> THEN s ELSE [b EXCEPT !.evictions = b.evictions + 1]
    BY <1>1, <1>3, <2>1 DEF reserveSlotFor, makeRoomForNewKey
  <2>3. /\ IsContents(b) /\ b.evictions = s.evictions /\ s.evictions \in Nat
    BY RemoveEffect, SoundIsContents DEF Sound, WellTyped
  <2> HIDE DEF x, y, a, b
  <2>4. CASE s.lru # <<>> /\ ~alike
    <3>1. reserveSlotFor(s, k, u).evictions = b.evictions + 1
      BY <2>2, <2>3, <2>4 DEF IsContents
    <3> QED BY <2>3, <2>4, <3>1
  <2>5. CASE s.lru = <<>>
    <3>1. reserveSlotFor(s, k, u) = s
      BY <2>2, <2>5
    <3>2. HasPlace(s, k)
      BY <3>1, ReserveSlotSound
    <3>3. Cardinality(Present(s)) \in Nat /\ MaxKeys \in Nat
      BY FS_CardinalityType, CapacityAssumption DEF Sound, Fits
    <3> QED BY <1>3, <3>2, <3>3 DEF HasPlace
  <2>6. CASE s.lru # <<>> /\ alike
    <3>1. r.lru = s.lru /\ x = y
      BY <2>6 DEF Agree, x, y
    <3>2. Agree(a, t, b, u, alike)
      BY <3>1, RemoveAgrees DEF a, b
    <3> QED BY <2>2, <2>6, <3>1, <3>2 DEF Agree, IsContents, Fresh
  <2> QED BY <2>4, <2>5, <2>6
<1> QED BY <1>2, <1>3

\* Contents that agree are told apart by no look at their data.
LEMMA AgreeLooks ==
  ASSUME NEW r, NEW t, NEW s, NEW u, NEW alike, Agree(r, t, s, u, alike)
  PROVE  /\ Present(r) = Present(s)
         /\ \A k : /\ TypeOf(r, k) = TypeOf(s, k) /\ ValueOf(r, k) = ValueOf(s, k)
                   /\ k \in DOMAIN r.expiry <=> k \in DOMAIN s.expiry
                   /\ expireIfNeeded(r, k, t) = r /\ expireIfNeeded(s, k, u) = s
BY FreshUnexpired DEF Agree, Present, TypeOf, ValueOf

\* What each of the methods makes of contents that agree.
LEMMA SimpleAgree ==
  ASSUME NEW r, NEW t, NEW s, NEW u, NEW alike, Agree(r, t, s, u, alike), NEW k
  PROVE  /\ Agree(get(r, k, t).store, t, get(s, k, u).store, u, alike)
         /\ Agree(del(r, k, t).store, t, del(s, k, u).store, u, alike)
         /\ Agree(persist(r, k, t).store, t, persist(s, k, u).store, u, alike)
<1>1. /\ Present(r) = Present(s)
      /\ TypeOf(r, k) = TypeOf(s, k) /\ ValueOf(r, k) = ValueOf(s, k)
      /\ k \in DOMAIN r.expiry <=> k \in DOMAIN s.expiry
      /\ expireIfNeeded(r, k, t) = r /\ expireIfNeeded(s, k, u) = s
  BY AgreeLooks
<1>2. Agree(touch(r, k), t, touch(s, k), u, alike)
  BY TouchAgrees
<1>3. Agree(get(r, k, t).store, t, get(s, k, u).store, u, alike)
  BY <1>1, <1>2 DEF get, Holds, Result
<1>4. Agree(del(r, k, t).store, t, del(s, k, u).store, u, alike)
  BY <1>1, RemoveAgrees DEF del, Result
<1>5. Agree(persist(r, k, t).store, t, persist(s, k, u).store, u, alike)
  <2>1. Agree(mutated(touch(clearDeadline(r, k), k)), t,
              mutated(touch(clearDeadline(s, k), k)), u, alike)
    BY ClearDeadlineAgrees, TouchAgrees, MutatedAgrees
  <2> QED BY <1>1, <2>1 DEF persist, Result
<1> QED BY <1>3, <1>4, <1>5

\* A deadline that a command sets has not been reached.
LEMMA DeadlineAhead ==
  ASSUME NEW t \in Nat, NEW secs \in Nat \ {0}
  PROVE  /\ secs * TicksPerSecond \in Nat \ {0}
         /\ t + secs * TicksPerSecond \in Nat /\ ~(t >= t + secs * TicksPerSecond)
<1> DEFINE d == secs * TicksPerSecond
<1>1. d \in Nat \ {0}
  BY ClockAssumption
<1> HIDE DEF d
<1>2. t + d \in Nat /\ ~(t >= t + d)
  BY <1>1
<1> QED BY <1>1, <1>2 DEF d

\* Counted from a later time it is not earlier.
LEMMA DeadlineLater ==
  ASSUME NEW t \in Nat, NEW u \in Nat, NEW secs \in Nat
  PROVE  u <= t => u + secs * TicksPerSecond <= t + secs * TicksPerSecond
<1> DEFINE d == secs * TicksPerSecond
<1>1. d \in Nat
  BY ClockAssumption
<1> HIDE DEF d
<1>2. u <= t => u + d <= t + d
  BY <1>1
<1> QED BY <1>2 DEF d

\* EXPIRE counts its deadline from the time at which it is carried out.
LEMMA ExpireAgrees ==
  ASSUME NEW r, NEW t \in Nat, NEW s, NEW u \in Nat, NEW alike, Agree(r, t, s, u, alike), NEW k,
         NEW secs \in Nat \ {0}
  PROVE  Agree(expire(r, k, secs, t).store, t, expire(s, k, secs, u).store, u, alike)
<1> DEFINE d == t + secs * TicksPerSecond
           e == u + secs * TicksPerSecond
<1>1. /\ Present(r) = Present(s)
      /\ expireIfNeeded(r, k, t) = r /\ expireIfNeeded(s, k, u) = s
  BY AgreeLooks
<1>2. ~(t >= d) /\ ~(u >= e) /\ (u <= t => e <= d)
  BY DeadlineAhead, DeadlineLater
<1>3. /\ expire(r, k, secs, t).store =
           IF k \in Present(r) THEN mutated(touch(setDeadline(r, k, d), k)) ELSE r
      /\ expire(s, k, secs, u).store =
           IF k \in Present(s) THEN mutated(touch(setDeadline(s, k, e), k)) ELSE s
  BY <1>1 DEF expire, Result
<1> HIDE DEF d, e
<1>4. Agree(mutated(touch(setDeadline(r, k, d), k)), t,
            mutated(touch(setDeadline(s, k, e), k)), u, alike)
  BY <1>2, SetDeadlineAgrees, TouchAgrees, MutatedAgrees
<1> QED BY <1>1, <1>3, <1>4

\* LPOP and RPOP take the same element.
LEMMA PopAgrees ==
  ASSUME NEW r, NEW t, NEW s, NEW u, NEW alike, Agree(r, t, s, u, alike), NEW k
  PROVE  /\ Agree(lpop(r, k, t).store, t, lpop(s, k, u).store, u, alike)
         /\ Agree(rpop(r, k, t).store, t, rpop(s, k, u).store, u, alike)
<1>1. /\ Present(r) = Present(s)
      /\ TypeOf(r, k) = TypeOf(s, k) /\ ValueOf(r, k) = ValueOf(s, k)
      /\ expireIfNeeded(r, k, t) = r /\ expireIfNeeded(s, k, u) = s
  BY AgreeLooks
<1>2. ASSUME NEW rest
      PROVE  Agree(popped(r, k, rest), t, popped(s, k, rest), u, alike)
  <2>1. Agree(mutated(put(r, k, ListValue(rest))), t, mutated(put(s, k, ListValue(rest))), u, alike)
    BY PutAgrees, MutatedAgrees
  <2> QED BY <2>1, RemoveAgrees DEF popped
<1> QED BY <1>1, <1>2 DEF lpop, rpop, OnKind, Result

\* HDEL leaves the same fields.
LEMMA HDelAgrees ==
  ASSUME NEW r, NEW t, NEW s, NEW u, NEW alike, Agree(r, t, s, u, alike), NEW k, NEW fields
  PROVE  Agree(hdel(r, k, fields, t).store, t, hdel(s, k, fields, u).store, u, alike)
<1>1. /\ Present(r) = Present(s)
      /\ TypeOf(r, k) = TypeOf(s, k) /\ ValueOf(r, k) = ValueOf(s, k)
      /\ expireIfNeeded(r, k, t) = r /\ expireIfNeeded(s, k, u) = s
  BY AgreeLooks
<1>2. ASSUME NEW v
      PROVE  Agree(mutated(put(r, k, v)), t, mutated(put(s, k, v)), u, alike)
  BY PutAgrees, MutatedAgrees
<1>3. Agree(removeKey(r, k), t, removeKey(s, k), u, alike)
  BY RemoveAgrees
<1> DEFINE h       == ValueOf(s, k)
           rest    == [f \in DOMAIN h \ fields |-> h[f]]
           After(p) == IF DOMAIN rest = {} THEN removeKey(p, k)
                       ELSE IF DOMAIN h \cap fields = {} THEN p
                       ELSE mutated(put(p, k, HashValue(rest)))
           Left(p) == IF k \in Present(p) /\ TypeOf(p, k) = "hash" THEN After(p) ELSE p
<1>4. hdel(r, k, fields, t).store = Left(r) /\ hdel(s, k, fields, u).store = Left(s)
  BY <1>1 DEF hdel, OnKind, Result
<1> HIDE DEF h, rest
<1>5. Agree(After(r), t, After(s), u, alike)
  BY <1>2, <1>3
<1> HIDE DEF After
<1> QED BY <1>1, <1>4, <1>5

-----------------------------------------------------------------------------
\* SET makes room as on the other side, or need not make any on either.
LEMMA SetAgrees ==
  ASSUME NEW r, Sound(r), NEW t \in Nat, NEW s, Sound(s), NEW u \in Nat, NEW alike,
         Agree(r, t, s, u, alike), NEW k, NEW v, NEW secs \in Nat,
         alike \/ set(s, k, v, secs, u).store.evictions = s.evictions
  PROVE  Agree(set(r, k, v, secs, t).store, t, set(s, k, v, secs, u).store, u, alike)
<1> DEFINE d == t + secs * TicksPerSecond
           e == u + secs * TicksPerSecond
           a == reserveSlotFor(r, k, t)
           b == reserveSlotFor(s, k, u)
           Stored(p) == mutated(put(p, k, StringValue(v)))
<1>1. expireIfNeeded(r, k, t) = r /\ expireIfNeeded(s, k, u) = s
  BY AgreeLooks
<1>2. /\ set(r, k, v, secs, t).store =
           IF secs # NoTTL THEN setDeadline(Stored(a), k, d) ELSE clearDeadline(Stored(a), k)
      /\ set(s, k, v, secs, u).store =
           IF secs # NoTTL THEN setDeadline(Stored(b), k, e) ELSE clearDeadline(Stored(b), k)
  BY <1>1 DEF set, Result
<1>3. /\ secs # NoTTL => ~(t >= d) /\ ~(u >= e)
      /\ u <= t => e <= d
  BY DeadlineAhead, DeadlineLater DEF NoTTL
<1>4. IsContents(b)
  BY ReserveSlotSound, SoundIsContents
<1> HIDE DEF d, e, a, b
<1>5. set(s, k, v, secs, u).store.evictions = b.evictions
  <2>1. IsContents(Stored(b)) /\ Stored(b).evictions = b.evictions
    BY <1>4, PutEffect, MutatedEffect DEF Alike
  <2> HIDE DEF Stored
  <2>2. /\ setDeadline(Stored(b), k, e).evictions = b.evictions
        /\ clearDeadline(Stored(b), k).evictions = b.evictions
    BY <2>1, DeadlineEffect
  <2> QED BY <1>2, <2>2
<1>6. Agree(a, t, b, u, alike)
  BY <1>5, ReserveAgrees DEF a, b
<1>7. Agree(Stored(a), t, Stored(b), u, alike)
  BY <1>6, PutAgrees, MutatedAgrees
<1> HIDE DEF Stored
<1> QED BY <1>2, <1>3, <1>7, SetDeadlineAgrees, ClearDeadlineAgrees

\* Storing the value of a new key.
LEMMA NewValueAgrees ==
  ASSUME NEW r, Sound(r), NEW t, NEW s, Sound(s), NEW u, NEW alike,
         Agree(r, t, s, u, alike), NEW k, NEW v,
         alike \/ put(reserveSlotFor(s, k, u), k, v).evictions = s.evictions
  PROVE  Agree(put(reserveSlotFor(r, k, t), k, v), t, put(reserveSlotFor(s, k, u), k, v), u, alike)
<1>1. IsContents(reserveSlotFor(s, k, u))
  BY ReserveSlotSound, SoundIsContents
<1>2. put(reserveSlotFor(s, k, u), k, v).evictions = reserveSlotFor(s, k, u).evictions
  BY <1>1, PutEffect
<1>3. Agree(reserveSlotFor(r, k, t), t, reserveSlotFor(s, k, u), u, alike)
  BY <1>2, ReserveAgrees
<1> QED BY <1>3, PutAgrees

\* LPUSH and RPUSH lengthen the same list, or make room for the same new one.
LEMMA PushAgrees ==
  ASSUME NEW r, Sound(r), NEW t, NEW s, Sound(s), NEW u, NEW alike,
         Agree(r, t, s, u, alike), NEW k, NEW vals
  PROVE  /\ (alike \/ lpush(s, k, vals, u).store.evictions = s.evictions) =>
              Agree(lpush(r, k, vals, t).store, t, lpush(s, k, vals, u).store, u, alike)
         /\ (alike \/ rpush(s, k, vals, u).store.evictions = s.evictions) =>
              Agree(rpush(r, k, vals, t).store, t, rpush(s, k, vals, u).store, u, alike)
<1>1. /\ Present(r) = Present(s)
      /\ TypeOf(r, k) = TypeOf(s, k) /\ ValueOf(r, k) = ValueOf(s, k)
      /\ expireIfNeeded(r, k, t) = r /\ expireIfNeeded(s, k, u) = s
  BY AgreeLooks
<1>2. ASSUME NEW q
      PROVE  Agree(mutated(put(r, k, ListValue(q))), t, mutated(put(s, k, ListValue(q))), u, alike)
  BY PutAgrees, MutatedAgrees
<1>3. ASSUME NEW q, alike \/ pushNewList(s, k, q, u).store.evictions = s.evictions
      PROVE  Agree(pushNewList(r, k, q, t).store, t, pushNewList(s, k, q, u).store, u, alike)
  BY <1>3, NewValueAgrees DEF pushNewList, Result
<1> DEFINE Pushed(p, at, fresh, all) ==
             IF k \notin Present(p) THEN pushNewList(p, k, fresh, at).store
             ELSE IF TypeOf(p, k) # "list" THEN p
             ELSE mutated(put(p, k, ListValue(all)))
           left  == Reverse(vals) \o ValueOf(s, k)
           right == ValueOf(s, k) \o vals
<1>4. /\ lpush(r, k, vals, t).store = Pushed(r, t, Reverse(vals), left)
      /\ lpush(s, k, vals, u).store = Pushed(s, u, Reverse(vals), left)
      /\ rpush(r, k, vals, t).store = Pushed(r, t, vals, right)
      /\ rpush(s, k, vals, u).store = Pushed(s, u, vals, right)
  BY <1>1 DEF lpush, rpush, OnKind, Result
<1> HIDE DEF left, right
<1>5. ASSUME NEW fresh, NEW all, alike \/ Pushed(s, u, fresh, all).evictions = s.evictions
      PROVE  Agree(Pushed(r, t, fresh, all), t, Pushed(s, u, fresh, all), u, alike)
  BY <1>1, <1>2, <1>3, <1>5
<1> HIDE DEF Pushed
<1> QED BY <1>4, <1>5

\* HSET writes the same fields.
LEMMA HSetAgrees ==
  ASSUME NEW r, Sound(r), NEW t, NEW s, Sound(s), NEW u, NEW alike,
         Agree(r, t, s, u, alike), NEW k, NEW pairs,
         alike \/ hset(s, k, pairs, u).store.evictions = s.evictions
  PROVE  Agree(hset(r, k, pairs, t).store, t, hset(s, k, pairs, u).store, u, alike)
<1>1. /\ Present(r) = Present(s)
      /\ TypeOf(r, k) = TypeOf(s, k) /\ ValueOf(r, k) = ValueOf(s, k)
      /\ expireIfNeeded(r, k, t) = r /\ expireIfNeeded(s, k, u) = s
  BY AgreeLooks
<1> DEFINE old == ValueOf(s, k)
           all == [f \in DOMAIN pairs \cup DOMAIN old |->
                     IF f \in DOMAIN pairs THEN pairs[f] ELSE old[f]]
           Anew(p, at) == mutated(put(reserveSlotFor(p, k, at), k, HashValue(pairs)))
           Stored(p, at) ==
             IF k \notin Present(p) THEN Anew(p, at)
             ELSE IF TypeOf(p, k) # "hash" THEN p
             ELSE mutated(put(p, k, HashValue(all)))
<1>2. hset(r, k, pairs, t).store = Stored(r, t) /\ hset(s, k, pairs, u).store = Stored(s, u)
  BY <1>1 DEF hset, OnKind, Result
<1> HIDE DEF old, all
<1>3. Agree(mutated(put(r, k, HashValue(all))), t, mutated(put(s, k, HashValue(all))), u, alike)
  BY PutAgrees, MutatedAgrees
<1>4. CASE k \notin Present(s)
  <2> DEFINE b == put(reserveSlotFor(s, k, u), k, HashValue(pairs))
  <2>1. IsContents(b)
    BY ReserveSlotSound, SoundIsContents, PutEffect
  <2>2. Anew(s, u).evictions = b.evictions
    BY <2>1, MutatedEffect DEF Alike
  <2>3. alike \/ b.evictions = s.evictions
    BY <1>2, <1>4, <2>2
  <2>4. Agree(Anew(r, t), t, Anew(s, u), u, alike)
    BY <2>3, NewValueAgrees, MutatedAgrees
  <2> QED BY <1>1, <1>2, <1>4, <2>4
<1>5. CASE k \in Present(s)
  BY <1>1, <1>2, <1>3, <1>5
<1> QED BY <1>4, <1>5

\* One line.
LEMMA PerformAgrees ==
  ASSUME NEW r, Sound(r), NEW t \in Nat, NEW s, Sound(s), NEW u \in Nat, NEW alike,
         Agree(r, t, s, u, alike), NEW cmd \in LogLines,
         alike \/ Perform(s, cmd, u).store.evictions = s.evictions
  PROVE  Agree(Perform(r, cmd, t).store, t, Perform(s, cmd, u).store, u, alike)
<1>1. CASE cmd.name \in {"GET", "DEL", "PERSIST"}
  BY <1>1, Performing, SimpleAgree, SMTT(30)
<1>2. CASE cmd.name \in {"LPOP", "RPOP"}
  BY <1>2, Performing, PopAgrees
<1>3. CASE cmd.name = "SET"
  <2>1. cmd.secs \in Nat
    BY <1>3, LineCases
  <2>2. /\ Perform(s, cmd, u) = set(s, cmd.key, cmd.value, cmd.secs, u)
        /\ Perform(r, cmd, t) = set(r, cmd.key, cmd.value, cmd.secs, t)
    BY <1>3, Performing
  <2> QED BY <2>1, <2>2, SetAgrees
<1>4. CASE cmd.name = "EXPIRE"
  <2>1. cmd.secs \in Nat \ {0}
    BY <1>4, LineCases
  <2>2. /\ Perform(s, cmd, u) = expire(s, cmd.key, cmd.secs, u)
        /\ Perform(r, cmd, t) = expire(r, cmd.key, cmd.secs, t)
    BY <1>4, Performing
  <2> QED BY <2>1, <2>2, ExpireAgrees
<1>5. CASE cmd.name = "LPUSH"
  <2>1. /\ Perform(s, cmd, u) = lpush(s, cmd.key, cmd.values, u)
        /\ Perform(r, cmd, t) = lpush(r, cmd.key, cmd.values, t)
    BY <1>5, Performing
  <2> QED BY <2>1, PushAgrees
<1>6. CASE cmd.name = "RPUSH"
  <2>1. /\ Perform(s, cmd, u) = rpush(s, cmd.key, cmd.values, u)
        /\ Perform(r, cmd, t) = rpush(r, cmd.key, cmd.values, t)
    BY <1>6, Performing
  <2> QED BY <2>1, PushAgrees
<1>7. CASE cmd.name = "HSET"
  <2>1. /\ Perform(s, cmd, u) = hset(s, cmd.key, cmd.pairs, u)
        /\ Perform(r, cmd, t) = hset(r, cmd.key, cmd.pairs, t)
    BY <1>7, Performing
  <2> QED BY <2>1, HSetAgrees
<1>8. CASE cmd.name = "HDEL"
  <2>1. /\ Perform(s, cmd, u) = hdel(s, cmd.key, cmd.fields, u)
        /\ Perform(r, cmd, t) = hdel(r, cmd.key, cmd.fields, t)
    BY <1>8, Performing
  <2> QED BY <2>1, HDelAgrees
<1> QED BY <1>1, <1>2, <1>3, <1>4, <1>5, <1>6, <1>7, <1>8, LineCases

\* Two replays of the same lines from nothing, at different times.
LEMMA ReplaysAgree ==
  ASSUME NEW lines \in Seq(LogLines), NEW t \in Nat, NEW u \in Nat
  PROVE  Agree(Replayed(EmptyStore, lines, t), t, Replayed(EmptyStore, lines, u), u, TRUE)
<1> DEFINE n == Len(lines)
           Is(g, at) ==
             /\ g[0] = EmptyStore
             /\ \A i \in 1..Len(lines) : g[i] = Perform(g[i - 1], lines[i], at).store
<1>1. n \in Nat /\ \A i \in 1..n : lines[i] \in LogLines
  BY LenProperties, ElementOfSeq
<1>2. PICK g : Is(g, t) /\ Replayed(EmptyStore, lines, t) = g[n]
  BY <1>1, ReplayedSteps
<1>3. PICK h : Is(h, u) /\ Replayed(EmptyStore, lines, u) = h[n]
  BY <1>1, ReplayedSteps
<1> DEFINE T == {i \in 0..n : Sound(g[i]) /\ Sound(h[i]) /\ Agree(g[i], t, h[i], u, TRUE)}
<1> HIDE DEF n
<1>4. 0 \in T
  <2>1. DOMAIN EmptyStore.expiry = {}
    BY DEF EmptyStore
  <2>2. Sound(EmptyStore) /\ IsContents(EmptyStore)
    BY EmptyStoreSound, SoundIsContents
  <2>3. Agree(EmptyStore, t, EmptyStore, u, TRUE)
    BY <2>1, <2>2 DEF Agree, Fresh, NoneEarlier
  <2>4. g[0] = EmptyStore /\ h[0] = EmptyStore
    BY <1>2, <1>3
  <2>5. 0 \in 0..n
    BY <1>1
  <2> QED BY <2>2, <2>3, <2>4, <2>5
<1>5. ASSUME NEW i \in 1..n, i - 1 \in T PROVE i \in T
  <2>1. /\ Sound(g[i - 1]) /\ Sound(h[i - 1]) /\ Agree(g[i - 1], t, h[i - 1], u, TRUE)
        /\ lines[i] \in LogLines
    BY <1>1, <1>5
  <2>2. /\ g[i] = Perform(g[i - 1], lines[i], t).store
        /\ h[i] = Perform(h[i - 1], lines[i], u).store
    BY <1>2, <1>3 DEF n
  <2>3. Sound(g[i]) /\ Sound(h[i])
    BY <2>1, <2>2, PerformSound
  <2>4. Agree(g[i], t, h[i], u, TRUE)
    BY <2>1, <2>2, PerformAgrees
  <2>5. i \in 0..n
    BY <1>1
  <2> QED BY <2>3, <2>4, <2>5
<1> HIDE DEF T
<1>6. n \in T
  <2>1. n \in Nat
    BY <1>1
  <2>2. 0..n \subseteq T
    BY <1>4, <1>5, <2>1, UpTo
  <2> QED BY <2>1, <2>2
<1> QED BY <1>2, <1>3, <1>6 DEF T

-----------------------------------------------------------------------------
(***************************************************************************)
(* Entries and the lines made of them.                                     *)
(***************************************************************************)
\* An entry of a snapshot: a key, a value of its kind, seconds or -1 or -2.
IsEntry(e) ==
  e.key \in Keys /\ IsStoredValue(e.value) /\ IsFilled(e.value) /\ e.secs \in Int

\* Rounding a time up to whole units adds less than one.
LEMMA RoundUp ==
  ASSUME NEW n \in Nat \ {0}, NEW d \in Nat \ {0}
  PROVE  LET q == (n + d - 1) \div d
         IN  q \in Nat \ {0} /\ q * d - n \in 0..(d - 1)
<1> DEFINE q == (n + d - 1) \div d
           r == (n + d - 1) % d
<1>1. q \in Int /\ r \in 0..(d - 1) /\ n + d - 1 = d * q + r
  OBVIOUS
<1> HIDE DEF q, r
<1>2. q * d = d * q /\ d * q \in Int
  BY <1>1
<1> DEFINE m == d * q
<1> HIDE DEF m
<1>3. m \in Int /\ m - n \in 0..(d - 1)
  BY <1>1, <1>2 DEF m
<1>4. q > 0
  <2>1. m > 0
    BY <1>3
  <2>2. q <= 0 => d * q <= 0
    BY <1>1
  <2> QED BY <1>1, <2>1, <2>2 DEF m
<1> QED BY <1>1, <1>2, <1>3, <1>4 DEF q, m

\* What save and rewrite note of a key.
LEMMA EntryProperties ==
  ASSUME NEW p, Sound(p), NEW k \in Present(p), NEW t \in Nat
  PROVE  LET e == Entry(p, k, t)
         IN  /\ IsEntry(e) /\ e.key = k /\ e.value = p.values[k]
             /\ Fresh(p, t) =>
                  /\ k \notin DOMAIN p.expiry => e.secs = -1
                  /\ k \in DOMAIN p.expiry =>
                       /\ e.secs \in Nat \ {0}
                       /\ (t + e.secs * TicksPerSecond) - p.expiry[k] \in 0..(TicksPerSecond - 1)
<1> DEFINE e    == Entry(p, k, t)
           a    == expireIfNeeded(p, k, t)
           left == a.expiry[k] - t
           secs == IF k \notin Present(a) THEN -2
                   ELSE IF k \notin DOMAIN a.expiry THEN -1
                   ELSE (left + TicksPerSecond - 1) \div TicksPerSecond
<1>1. /\ e.key = k /\ e.value = p.values[k] /\ e.secs = secs
  BY DEF Entry, ttl, Result, Number
<1> HIDE DEF e
<1>2. Sound(a) /\ TicksPerSecond \in Nat \ {0}
  BY ExpireIfNeededSound, ClockAssumption
<1>3. k \in DOMAIN a.expiry => left \in Int
  BY <1>2 DEF Sound, WellTyped
<1> HIDE DEF a
<1>4. secs \in Int
  <2>1. k \in DOMAIN a.expiry => (left + TicksPerSecond - 1) \div TicksPerSecond \in Int
    BY <1>2, <1>3
  <2> QED BY <2>1
<1>5. IsEntry(e)
  BY <1>1, <1>4 DEF IsEntry, Sound, WellTyped, Filled
<1>6. ASSUME Fresh(p, t)
      PROVE  /\ k \notin DOMAIN p.expiry => secs = -1
             /\ k \in DOMAIN p.expiry =>
                  /\ secs \in Nat \ {0}
                  /\ (t + secs * TicksPerSecond) - p.expiry[k] \in 0..(TicksPerSecond - 1)
  <2>1. a = p
    BY <1>6, FreshUnexpired DEF a
  <2>2. CASE k \notin DOMAIN p.expiry
    BY <2>1, <2>2
  <2>3. CASE k \in DOMAIN p.expiry
    <3> DEFINE d == p.expiry[k]
    <3>1. d \in Nat /\ ~(t >= d) /\ left = d - t
      BY <1>6, <2>1, <2>3 DEF Sound, WellTyped, Fresh
    <3>2. secs = (left + TicksPerSecond - 1) \div TicksPerSecond
      BY <2>1, <2>3
    <3> HIDE DEF d, left
    <3>3. left \in Nat \ {0}
      BY <3>1
    <3>4. secs \in Nat \ {0} /\ secs * TicksPerSecond - left \in 0..(TicksPerSecond - 1)
      BY <1>2, <3>2, <3>3, RoundUp
    <3> DEFINE m == secs * TicksPerSecond
    <3>5. m \in Int
      BY <1>2, <3>4
    <3> HIDE DEF m, secs
    <3>6. (t + m) - d = m - left
      BY <3>1, <3>3, <3>5
    <3>7. (t + m) - d \in 0..(TicksPerSecond - 1)
      BY <3>4, <3>6 DEF m
    <3> QED BY <2>3, <3>4, <3>7 DEF d, m
  <2> QED BY <2>2, <2>3
<1> HIDE DEF secs
<1> QED BY <1>1, <1>5, <1>6 DEF e

\* The line that creates a value.
LEMMA CreationLine ==
  ASSUME NEW k \in Keys, NEW v, IsStoredValue(v), IsFilled(v)
  PROVE  /\ v[1] = "string" =>
              /\ v[2] \in Vals /\ v = StringValue(v[2])
              /\ Creation(k, v) = [name |-> "SET", key |-> k, value |-> v[2], secs |-> NoTTL]
         /\ v[1] = "list" =>
              /\ v[2] \in Seq(Vals) /\ v[2] # <<>> /\ v = ListValue(v[2])
              /\ Creation(k, v) = [name |-> "RPUSH", key |-> k, values |-> v[2]]
         /\ v[1] = "hash" =>
              /\ v[2] \in Hashes /\ DOMAIN v[2] # {} /\ v = HashValue(v[2])
              /\ Creation(k, v) = [name |-> "HSET", key |-> k, pairs |-> v[2]]
         /\ v[1] \in {"string", "list", "hash"}
<1>1. v[1] \in {"string", "list", "hash"} /\ v = <<v[1], v[2]>>
  BY DEF IsStoredValue
<1>2. /\ v[1] = "string" => v[2] \in Vals
      /\ v[1] = "list" => v[2] \in Seq(Vals)
      /\ v[1] = "hash" => v[2] \in Hashes
  BY DEF IsStoredValue
<1> QED BY <1>1, <1>2 DEF IsFilled, Creation, StringValue, ListValue, HashValue

\* An entry becomes one line or two.
LEMMA EntryLines ==
  ASSUME NEW e, IsEntry(e)
  PROVE  LET v      == e.value
             setLine == [name |-> "SET", key |-> e.key, value |-> v[2],
                        secs |-> IF e.secs <= 0 THEN NoTTL ELSE e.secs]
             expiry  == [name |-> "EXPIRE", key |-> e.key, secs |-> e.secs]
         IN  /\ v[1] = "string" => LinesOf(e) = <<setLine>> /\ setLine \in LogLines
             /\ v[1] # "string" =>
                  /\ Creation(e.key, v) \in LogLines
                  /\ e.secs <= 0 => LinesOf(e) = <<Creation(e.key, v)>>
                  /\ ~(e.secs <= 0) => /\ LinesOf(e) = <<Creation(e.key, v), expiry>>
                                       /\ expiry \in LogLines
<1> DEFINE v      == e.value
           c      == Creation(e.key, v)
           setLine == [name |-> "SET", key |-> e.key, value |-> v[2],
                      secs |-> IF e.secs <= 0 THEN NoTTL ELSE e.secs]
           expiry  == [name |-> "EXPIRE", key |-> e.key, secs |-> e.secs]
<1>1. /\ e.key \in Keys /\ e.secs \in Int /\ IsStoredValue(v) /\ IsFilled(v)
  BY DEF IsEntry
<1>2. /\ v[1] = "string" =>
           /\ v[2] \in Vals
           /\ c = [name |-> "SET", key |-> e.key, value |-> v[2], secs |-> NoTTL]
      /\ v[1] = "list" =>
           v[2] \in Seq(Vals) \ {<<>>} /\ c = [name |-> "RPUSH", key |-> e.key, values |-> v[2]]
      /\ v[1] = "hash" =>
           /\ v[2] \in {h \in Hashes : DOMAIN h # {}}
           /\ c = [name |-> "HSET", key |-> e.key, pairs |-> v[2]]
      /\ v[1] \in {"string", "list", "hash"}
  BY <1>1, CreationLine
<1>3. LinesOf(e) = IF e.secs <= 0 THEN <<c>>
                   ELSE IF v[1] = "string" THEN <<[c EXCEPT !.secs = e.secs]>>
                   ELSE <<c, expiry>>
  BY DEF LinesOf
<1> HIDE DEF c, v
<1>4. CASE v[1] = "string"
  <2>1. LinesOf(e) = <<setLine>>
    BY <1>2, <1>3, <1>4
  <2>2. (IF e.secs <= 0 THEN NoTTL ELSE e.secs) \in Nat
    BY <1>1 DEF NoTTL
  <2>3. setLine \in [name : {"SET"}, key : Keys, value : Vals, secs : Nat]
    BY <1>1, <1>2, <1>4, <2>2
  <2>4. setLine \in LogLines
    <3> HIDE DEF setLine
    <3> DEFINE sets == [name : {"SET"}, key : Keys, value : Vals, secs : Nat]
    <3>1. sets \subseteq LogLines
      BY DEF LogLines
    <3> HIDE DEF sets
    <3> QED BY <2>3, <3>1 DEF sets
  <2> QED BY <1>4, <2>1, <2>4 DEF v
<1>5. CASE v[1] # "string"
  <2>1. c \in LogLines
    <3>1. [name : {"LPUSH", "RPUSH"}, key : Keys, values : Seq(Vals) \ {<<>>}] \subseteq LogLines
      BY DEF LogLines
    <3>2. [name : {"HSET"}, key : Keys, pairs : {h \in Hashes : DOMAIN h # {}}] \subseteq LogLines
      BY DEF LogLines
    <3>3. CASE v[1] = "list"
      <4>1. c \in [name : {"LPUSH", "RPUSH"}, key : Keys, values : Seq(Vals) \ {<<>>}]
        BY <1>1, <1>2, <3>3
      <4> QED BY <3>1, <4>1
    <3>4. CASE v[1] = "hash"
      <4>1. c \in [name : {"HSET"}, key : Keys, pairs : {h \in Hashes : DOMAIN h # {}}]
        BY <1>1, <1>2, <3>4
      <4> QED BY <3>2, <4>1
    <3> QED BY <1>2, <1>5, <3>3, <3>4
  <2>2. ~(e.secs <= 0) => expiry \in LogLines
    <3>1. [name : {"EXPIRE"}, key : Keys, secs : Nat \ {0}] \subseteq LogLines
      BY DEF LogLines
    <3>2. ~(e.secs <= 0) => expiry \in [name : {"EXPIRE"}, key : Keys, secs : Nat \ {0}]
      BY <1>1
    <3> QED BY <3>1, <3>2
  <2>3. /\ e.secs <= 0 => LinesOf(e) = <<c>>
        /\ ~(e.secs <= 0) => LinesOf(e) = <<c, expiry>>
    BY <1>3, <1>5
  <2> QED BY <1>5, <2>1, <2>2, <2>3 DEF c, v
<1> QED BY <1>4, <1>5

\* The lines of an entry are lines of a log.
LEMMA LinesTyped ==
  ASSUME NEW e, IsEntry(e)
  PROVE  LinesOf(e) \in Seq(LogLines) /\ RestoreOf(e) \in Seq(LogLines)
<1>1. LinesOf(e) \in Seq(LogLines)
  <2>1. /\ \A a \in LogLines : <<a>> \in Seq(LogLines)
        /\ \A a, b \in LogLines : <<a, b>> \in Seq(LogLines)
    OBVIOUS
  <2> QED BY <2>1, EntryLines
<1>2. <<>> \in Seq(LogLines)
  BY EmptySeq
<1> QED BY <1>1, <1>2 DEF RestoreOf

-----------------------------------------------------------------------------
(***************************************************************************)
(* Carrying out the lines of an entry in a place that is empty.            *)
(***************************************************************************)
\* w is r with a value of its own for the new key k, and deadlines x.
NewEntry(r, k, v, x, w) ==
  /\ IsContents(w) /\ w.values = With(r.values, k, v) /\ w.order = Append(r.order, k)
  /\ w.expiry = x /\ w.evictions = r.evictions

\* Putting a value under a key that is absent makes such an entry,
LEMMA NewEntryMade ==
  ASSUME NEW r, IsContents(r), NEW k, k \notin Present(r), NEW v
  PROVE  NewEntry(r, k, v, r.expiry, put(r, k, v))
<1>1. Alike(r, touch(r, k)) /\ touch(r, k).order = r.order
  BY DEF IsContents, touch, Alike
<1>2. put(r, k, v).order = Append(r.order, k)
  <2>1. IsContents(touch(r, k))
    BY <1>1 DEF Alike
  <2> QED BY <1>1, <2>1 DEF put, IsContents
<1> QED BY <1>2, PutEffect DEF NewEntry

\* a touch and a mark keep it, and a deadline is its own.
LEMMA NewEntryKept ==
  ASSUME NEW r, NEW k, NEW v, NEW x, NEW w, NewEntry(r, k, v, x, w), NEW d
  PROVE  /\ NewEntry(r, k, v, x, touch(w, k))
         /\ NewEntry(r, k, v, x, mutated(w))
         /\ NewEntry(r, k, v, With(x, k, d), setDeadline(w, k, d))
         /\ NewEntry(r, k, v, Drop(x, k), clearDeadline(w, k))
<1>1. IsContents(w)
  BY DEF NewEntry
<1>2. /\ touch(w, k).order = w.order /\ mutated(w).order = w.order
      /\ setDeadline(w, k, d).order = w.order /\ clearDeadline(w, k).order = w.order
  BY <1>1 DEF IsContents, touch, mutated, setDeadline, clearDeadline
<1>3. Alike(w, touch(w, k)) /\ Alike(w, mutated(w))
  BY <1>1, TouchEffect, MutatedEffect
<1> QED BY <1>1, <1>2, <1>3, DeadlineEffect DEF NewEntry, Alike

\* What EXPIRE makes of it.
LEMMA NewEntryExpires ==
  ASSUME NEW r, NEW k, NEW v, NEW x, k \notin DOMAIN x, NEW w, NewEntry(r, k, v, x, w),
         NEW u, NEW secs
  PROVE  NewEntry(r, k, v, With(x, k, u + secs * TicksPerSecond), expire(w, k, secs, u).store)
<1> DEFINE d == u + secs * TicksPerSecond
<1>1. k \in Present(w) /\ expireIfNeeded(w, k, u) = w
  BY DEF NewEntry, Present, With, expireIfNeeded, isExpired
<1>2. expire(w, k, secs, u).store = mutated(touch(setDeadline(w, k, d), k))
  BY <1>1 DEF expire, Result
<1> HIDE DEF d
<1>3. NewEntry(r, k, v, With(x, k, d), mutated(touch(setDeadline(w, k, d), k)))
  BY NewEntryKept
<1> QED BY <1>2, <1>3 DEF d

\* The lines of an entry give its key, which is not yet there, the value and the
\* deadline that the entry tells.
LEMMA LinesCreate ==
  ASSUME NEW r, Sound(r), NEW e, IsEntry(e), e.key \notin Present(r), HasPlace(r, e.key),
         NEW u \in Nat
  PROVE  LET w == Replayed(r, LinesOf(e), u)
             x == IF e.secs <= 0 THEN r.expiry
                  ELSE With(r.expiry, e.key, u + e.secs * TicksPerSecond)
         IN  Sound(w) /\ NewEntry(r, e.key, e.value, x, w)
<1> DEFINE k == e.key
           v == e.value
           c == Creation(k, v)
           d == u + e.secs * TicksPerSecond
           w == Replayed(r, LinesOf(e), u)
<1>1. Sound(w)
  BY LinesTyped, ReplayedSound
<1>2. /\ k \in Keys /\ e.secs \in Int /\ IsStoredValue(v) /\ IsFilled(v)
      /\ IsContents(r)
  BY SoundIsContents DEF IsEntry
<1>3. /\ k \notin Present(r) /\ k \notin DOMAIN r.expiry /\ Drop(r.expiry, k) = r.expiry
  BY DEF Sound, InLockstep, WellTyped, Drop
<1>4. expireIfNeeded(r, k, u) = r /\ reserveSlotFor(r, k, u) = r
  <2>1. Cardinality(Present(r)) \in Nat /\ MaxKeys \in Nat
    BY FS_CardinalityType, CapacityAssumption DEF Sound, Fits
  <2> QED BY <1>3, <2>1 DEF expireIfNeeded, reserveSlotFor, HasPlace
<1>5. NewEntry(r, k, v, r.expiry, put(r, k, v)) /\ NewEntry(r, k, v, r.expiry, mutated(put(r, k, v)))
  BY <1>2, <1>3, NewEntryMade, NewEntryKept
<1> HIDE DEF k, v, c, d, w
<1>6. CASE v[1] = "string"
  <2> DEFINE secs == IF e.secs <= 0 THEN NoTTL ELSE e.secs
             line == [name |-> "SET", key |-> k, value |-> v[2], secs |-> secs]
             m    == mutated(put(r, k, v))
  <2>1. LinesOf(e) = <<line>>
    BY <1>6, EntryLines DEF k, v
  <2>2. v = StringValue(v[2])
    BY <1>2, <1>6, CreationLine
  <2>3. line.name = "SET" /\ line.key = k /\ line.value = v[2] /\ line.secs = secs
    OBVIOUS
  <2>4. w = Perform(r, line, u).store
    <3> HIDE DEF line
    <3> QED BY <2>1, ReplayedShort DEF w
  <2>5. w = set(r, k, v[2], secs, u).store
    <3> HIDE DEF line
    <3> QED BY <2>3, <2>4, Performing
  <2>6. w = IF secs # NoTTL THEN setDeadline(m, k, u + secs * TicksPerSecond)
                            ELSE clearDeadline(m, k)
    BY <1>4, <2>2, <2>5 DEF set, Result
  <2>7. IF e.secs <= 0 THEN w = clearDeadline(m, k) ELSE w = setDeadline(m, k, d)
    BY <1>2, <2>6 DEF d, NoTTL
  <2> HIDE DEF m
  <2>8. /\ NewEntry(r, k, v, With(r.expiry, k, d), setDeadline(m, k, d))
        /\ NewEntry(r, k, v, r.expiry, clearDeadline(m, k))
    BY <1>3, <1>5, NewEntryKept DEF m
  <2> QED BY <1>1, <2>7, <2>8 DEF d, k, v, w
<1>7. CASE v[1] # "string"
  <2> DEFINE a == Perform(r, c, u).store
             line == [name |-> "EXPIRE", key |-> k, secs |-> e.secs]
  <2>1. /\ c \in LogLines
        /\ e.secs <= 0 => LinesOf(e) = <<c>>
        /\ ~(e.secs <= 0) => LinesOf(e) = <<c, line>> /\ line \in LogLines
    BY <1>7, EntryLines DEF k, v, c
  <2>2. NewEntry(r, k, v, r.expiry, a)
    <3>1. CASE v[1] = "list"
      <4>1. /\ v = ListValue(v[2])
            /\ c.name = "RPUSH" /\ c.key = k /\ c.values = v[2]
        BY <1>2, <3>1, CreationLine DEF c
      <4>2. a = rpush(r, k, v[2], u).store
        BY <4>1, Performing
      <4>3. a = put(r, k, v)
        BY <1>3, <1>4, <4>1, <4>2 DEF rpush, OnKind, pushNewList, Result
      <4> QED BY <1>5, <4>3
    <3>2. CASE v[1] = "hash"
      <4>1. /\ v = HashValue(v[2])
            /\ c.name = "HSET" /\ c.key = k /\ c.pairs = v[2]
        BY <1>2, <3>2, CreationLine DEF c
      <4>2. a = hset(r, k, v[2], u).store
        BY <4>1, Performing
      <4>3. a = mutated(put(r, k, v))
        BY <1>3, <1>4, <4>1, <4>2 DEF hset, OnKind, Result
      <4> QED BY <1>5, <4>3
    <3> QED BY <1>2, <1>7, <3>1, <3>2, CreationLine
  <2>3. CASE e.secs <= 0
    <3>1. w = a
      BY <2>1, <2>3, ReplayedShort DEF w
    <3> QED BY <1>1, <2>2, <2>3, <3>1 DEF k, v, w
  <2>4. CASE ~(e.secs <= 0)
    <3>1. line.name = "EXPIRE" /\ line.key = k /\ line.secs = e.secs
      OBVIOUS
    <3>2. /\ <<c>> \in Seq(LogLines) /\ <<line>> \in Seq(LogLines)
          /\ <<c, line>> = Append(<<c>>, line)
      <4> HIDE DEF line
      <4> QED BY <2>1, <2>4
    <3>3. w = Perform(a, line, u).store
      <4> HIDE DEF line
      <4>1. Replayed(r, Append(<<c>>, line), u) = Perform(Replayed(r, <<c>>, u), line, u).store
        BY <2>1, <2>4, <3>2, ReplayedAppend
      <4>2. Replayed(r, <<c>>, u) = a
        BY ReplayedShort
      <4> QED BY <2>1, <2>4, <3>2, <4>1, <4>2 DEF w
    <3>4. w = expire(a, k, e.secs, u).store
      <4> HIDE DEF line
      <4> QED BY <3>1, <3>3, Performing
    <3> HIDE DEF a
    <3>5. NewEntry(r, k, v, With(r.expiry, k, d), w)
      BY <1>3, <2>2, <3>4, NewEntryExpires DEF d
    <3> QED BY <1>1, <2>4, <3>5 DEF d, k, v, w
  <2> QED BY <2>3, <2>4
<1> QED BY <1>6, <1>7

-----------------------------------------------------------------------------
(***************************************************************************)
(* Carrying out the lines of all the entries, one after the other.         *)
(***************************************************************************)
\* A function on the numbers from 1 to n is a sequence.
LEMMA IsSequence ==
  ASSUME NEW n \in Nat, NEW f, f = [i \in 1..n |-> f[i]], NEW S, \A i \in 1..n : f[i] \in S
  PROVE  f \in Seq(S) /\ Len(f) = n /\ DOMAIN f = 1..n
<1>1. f \in [1..n -> S]
  OBVIOUS
<1>2. f \in Seq(S)
  BY <1>1, SeqDef
<1>3. DOMAIN f = 1..n /\ DOMAIN f = 1..Len(f) /\ Len(f) \in Nat
  BY <1>1, <1>2, LenProperties
<1> QED BY <1>2, <1>3

\* Joining sequences of S gives sequences of S all the way.
LEMMA JoinedTyped ==
  ASSUME NEW S, NEW seqs, Len(seqs) \in Nat, \A i \in 1..Len(seqs) : seqs[i] \in Seq(S)
  PROVE  \E g : /\ g[0] = <<>> /\ Joined(seqs) = g[Len(seqs)]
                /\ \A i \in 1..Len(seqs) : g[i] = g[i - 1] \o seqs[i]
                /\ \A i \in 0..Len(seqs) : g[i] \in Seq(S)
<1> DEFINE n == Len(seqs)
<1>1. PICK g : /\ g[0] = <<>> /\ Joined(seqs) = g[n]
               /\ \A i \in 1..n : g[i] = g[i - 1] \o seqs[i]
  BY JoinedSteps
<1> DEFINE T == {i \in 0..n : g[i] \in Seq(S)}
<1>2. n \in Nat /\ \A i \in 1..n : seqs[i] \in Seq(S)
  OBVIOUS
<1> HIDE DEF n
<1>3. 0 \in T
  <2>1. g[0] \in Seq(S)
    <3>1. <<>> \in Seq(S)
      BY EmptySeq
    <3> QED BY <1>1, <3>1, Zenon
  <2>2. 0 \in 0..n
    BY <1>2
  <2> QED BY <2>1, <2>2
<1>4. ASSUME NEW i \in 1..n, i - 1 \in T PROVE i \in T
  <2>1. g[i - 1] \in Seq(S)
    BY <1>4
  <2>2. g[i - 1] \o seqs[i] \in Seq(S)
    BY <1>2, <2>1, ConcatProperties
  <2>3. g[i] \in Seq(S)
    BY <1>1, <2>2
  <2>4. i \in 0..n
    BY <1>2
  <2> QED BY <2>3, <2>4
<1> HIDE DEF T
<1>5. 0..n \subseteq T
  BY <1>2, <1>3, <1>4, UpTo
<1> QED BY <1>1, <1>5 DEF T, n

\* r holds what the first i entries listed of p at time t tell, at time u.
Rebuilt(p, t, i, r, u) ==
  /\ Sound(r) /\ r.evictions = 0
  /\ Len(r.order) = i /\ \A j \in 1..i : r.order[j] = p.order[j]
  /\ \A k \in Present(r) : r.values[k] = p.values[k]
  /\ DOMAIN r.expiry = DOMAIN p.expiry \cap Present(r)
  /\ \A k \in DOMAIN r.expiry : r.expiry[k] = u + Entry(p, k, t).secs * TicksPerSecond

\* The lines of the next entry tell one key more.
LEMMA RebuiltNext ==
  ASSUME NEW p, Sound(p), NEW t \in Nat, Fresh(p, t), NEW u \in Nat,
         NEW i \in 1..Len(p.order), NEW r, Rebuilt(p, t, i - 1, r, u)
  PROVE  Rebuilt(p, t, i, Replayed(r, LinesOf(Entry(p, p.order[i], t)), u), u)
<1> DEFINE k == p.order[i]
           e == Entry(p, k, t)
           w == Replayed(r, LinesOf(e), u)
           x == IF e.secs <= 0 THEN r.expiry
                ELSE With(r.expiry, k, u + e.secs * TicksPerSecond)
<1>1. /\ p.order \in Seq(Keys) /\ DOMAIN p.order = 1..Len(p.order) /\ Len(p.order) \in Nat
      /\ NoRepeats(p.order) /\ ToSet(p.order) = Present(p)
      /\ r.order \in Seq(Keys) /\ DOMAIN r.order = 1..(i - 1)
      /\ ToSet(r.order) = Present(r)
  BY LenProperties DEF Rebuilt, Sound, WellTyped, InLockstep
<1>2. k \in Present(p)
  BY <1>1 DEF ToSet
<1>3. /\ IsEntry(e) /\ e.key = k /\ e.value = p.values[k]
      /\ k \notin DOMAIN p.expiry => e.secs = -1
      /\ k \in DOMAIN p.expiry => e.secs \in Nat \ {0}
  BY <1>2, EntryProperties
<1>4. /\ \A j \in 1..(i - 1) : r.order[j] = p.order[j] /\ j \in DOMAIN p.order /\ j # i
      /\ i \in DOMAIN p.order
  BY <1>1 DEF Rebuilt
<1>5. Present(r) \subseteq Present(p) /\ k \notin Present(r)
  BY <1>1, <1>4, ZenonT(40) DEF ToSet, NoRepeats
<1>6. HasPlace(r, k)
  <2>1. /\ IsFiniteSet(Present(p)) /\ Cardinality(Present(p)) <= MaxKeys
        /\ IsFiniteSet(Present(r))
    BY DEF Sound, Fits, Rebuilt
  <2>2. /\ IsFiniteSet(Present(p) \ {k})
        /\ Cardinality(Present(p) \ {k}) = Cardinality(Present(p)) - 1
    BY <1>2, <2>1, FS_RemoveElement
  <2>3. Cardinality(Present(r)) <= Cardinality(Present(p) \ {k})
    BY <1>5, <2>2, FS_Subset
  <2>4. /\ Cardinality(Present(r)) \in Nat /\ Cardinality(Present(p)) \in Nat /\ MaxKeys \in Nat
    BY <2>1, FS_CardinalityType, CapacityAssumption
  <2> QED BY <2>1, <2>2, <2>3, <2>4 DEF HasPlace
<1>7. Sound(w) /\ NewEntry(r, k, e.value, x, w)
  <2> HIDE DEF k, e
  <2>1. Sound(r) /\ e.key \notin Present(r) /\ HasPlace(r, e.key)
    BY <1>3, <1>5, <1>6 DEF Rebuilt
  <2> QED BY <1>3, <2>1, LinesCreate
<1> HIDE DEF w, e, x, k
<1>8. Present(w) = Present(r) \cup {k}
  BY <1>7 DEF NewEntry, Present, With
<1>9. Len(w.order) = i /\ \A j \in 1..i : w.order[j] = p.order[j]
  <2>1. k \in Keys /\ Len(r.order) = i - 1 /\ w.order = Append(r.order, k) /\ i \in Nat
    BY <1>1, <1>2, <1>7 DEF Rebuilt, NewEntry, Sound, WellTyped
  <2>2. /\ Len(w.order) = (i - 1) + 1
        /\ \A j \in 1..(i - 1) : w.order[j] = r.order[j]
        /\ w.order[(i - 1) + 1] = k
    BY <1>1, <2>1, AppendProperties
  <2>3. (i - 1) + 1 = i /\ \A j \in 1..i : j = i \/ j \in 1..(i - 1)
    BY <2>1
  <2> QED BY <1>4, <2>2, <2>3 DEF k
<1>10. \A y \in Present(w) : w.values[y] = p.values[y]
  BY <1>3, <1>7, <1>8 DEF Rebuilt, NewEntry, With, Present
<1>11. /\ DOMAIN w.expiry = DOMAIN p.expiry \cap Present(w)
       /\ \A y \in DOMAIN w.expiry : w.expiry[y] = u + Entry(p, y, t).secs * TicksPerSecond
  <2>0. w.expiry = x
    BY <1>7 DEF NewEntry
  <2>1. CASE k \notin DOMAIN p.expiry
    <3>1. w.expiry = r.expiry
      BY <1>3, <2>0, <2>1 DEF x
    <3> QED BY <1>8, <2>1, <3>1 DEF Rebuilt
  <2>2. CASE k \in DOMAIN p.expiry
    <3>1. w.expiry = With(r.expiry, k, u + e.secs * TicksPerSecond)
      BY <1>3, <2>0, <2>2 DEF x
    <3>2. DOMAIN w.expiry = DOMAIN r.expiry \cup {k}
      BY <3>1 DEF With
    <3>3. w.expiry[k] = u + Entry(p, k, t).secs * TicksPerSecond
      BY <3>1 DEF With, e
    <3>4. \A y \in DOMAIN r.expiry : y # k => w.expiry[y] = r.expiry[y]
      BY <3>1 DEF With
    <3> QED BY <1>8, <2>2, <3>2, <3>3, <3>4 DEF Rebuilt
  <2> QED BY <2>1, <2>2
<1>12. w.evictions = 0
  BY <1>7 DEF NewEntry, Rebuilt
<1>13. Rebuilt(p, t, i, w, u)
  BY <1>7, <1>9, <1>10, <1>11, <1>12 DEF Rebuilt
<1> QED BY <1>13 DEF w, e, k

\* The lines that save or rewrite makes of contents p, all of whose keys are live, make
\* those contents from nothing.
LEMMA RebuiltAll ==
  ASSUME NEW p, Sound(p), NEW t \in Nat, Fresh(p, t), NEW u \in Nat
  PROVE  LET lines == Joined([i \in DOMAIN p.order |-> LinesOf(Entry(p, p.order[i], t))])
         IN  lines \in Seq(LogLines) /\ Rebuilt(p, t, Len(p.order), Replayed(EmptyStore, lines, u), u)
<1> DEFINE n == Len(p.order)
           Made(i) == LinesOf(Entry(p, p.order[i], t))
           seqs == [i \in DOMAIN p.order |-> Made(i)]
<1>1. /\ p.order \in Seq(Keys) /\ DOMAIN p.order = 1..n /\ n \in Nat
      /\ ToSet(p.order) = Present(p)
  BY LenProperties DEF Sound, WellTyped, InLockstep
<1>2. \A i \in 1..n : p.order[i] \in Present(p)
  BY <1>1 DEF ToSet
<1>3. \A i \in 1..n : Made(i) \in Seq(LogLines)
  BY <1>2, EntryProperties, LinesTyped
<1> HIDE DEF Made, n
<1>4. seqs = [i \in 1..n |-> seqs[i]] /\ \A i \in 1..n : seqs[i] = Made(i)
  BY <1>1
<1> HIDE DEF seqs
<1>5. Len(seqs) = n
  BY <1>1, <1>3, <1>4, IsSequence
<1>6. PICK g : /\ g[0] = <<>> /\ Joined(seqs) = g[n]
               /\ \A i \in 1..n : g[i] = g[i - 1] \o seqs[i]
               /\ \A i \in 0..n : g[i] \in Seq(LogLines)
  <2>1. Len(seqs) \in Nat /\ \A i \in 1..Len(seqs) : seqs[i] \in Seq(LogLines)
    BY <1>1, <1>3, <1>4, <1>5
  <2> QED BY <1>5, <2>1, JoinedTyped
<1> DEFINE At(i) == Replayed(EmptyStore, g[i], u)
           T     == {i \in 0..n : Rebuilt(p, t, i, At(i), u)}
<1>7. 0 \in T
  <2>1. At(0) = EmptyStore
    BY <1>6, ReplayedShort
  <2>2. /\ DOMAIN EmptyStore.expiry = {} /\ EmptyStore.evictions = 0
        /\ EmptyStore.order = <<>> /\ Present(EmptyStore) = {}
    BY DEF EmptyStore, Present
  <2>3. Rebuilt(p, t, 0, EmptyStore, u)
    BY <2>2, EmptyStoreSound, EmptySeq DEF Rebuilt
  <2>4. 0 \in 0..n
    BY <1>1
  <2> HIDE DEF At
  <2> QED BY <2>1, <2>3, <2>4
<1>8. ASSUME NEW i \in 1..n, i - 1 \in T PROVE i \in T
  <2>0. i \in 0..n /\ i - 1 \in 0..n
    BY <1>1
  <2>1. /\ g[i] = g[i - 1] \o Made(i) /\ g[i - 1] \in Seq(LogLines)
        /\ Made(i) \in Seq(LogLines)
    BY <1>3, <1>4, <1>6, <2>0
  <2>4. Rebuilt(p, t, i - 1, At(i - 1), u)
    BY <1>8
  <2>2. At(i) = Replayed(At(i - 1), Made(i), u)
    BY <2>1, ReplayedInTurn
  <2> HIDE DEF At
  <2>3. Rebuilt(p, t, i, Replayed(At(i - 1), Made(i), u), u)
    BY <1>1, <2>4, RebuiltNext DEF Made, n
  <2> QED BY <2>0, <2>2, <2>3, SMTT(30)
<1> HIDE DEF T, At
<1>9. n \in 0..n /\ 0..n \subseteq T
  BY <1>1, <1>7, <1>8, UpTo
<1>10. Rebuilt(p, t, n, At(n), u) /\ g[n] \in Seq(LogLines)
  BY <1>6, <1>9 DEF T
<1>11. Joined(seqs) \in Seq(LogLines) /\ Rebuilt(p, t, n, Replayed(EmptyStore, Joined(seqs), u), u)
  BY <1>6, <1>10 DEF At
<1> QED BY <1>11 DEF seqs, Made, n

\* What such contents hold.
LEMMA RebuiltHolds ==
  ASSUME NEW p, Sound(p), NEW t \in Nat, Fresh(p, t), NEW u \in Nat,
         NEW r, Rebuilt(p, t, Len(p.order), r, u)
  PROVE  /\ r.values = p.values /\ r.order = p.order
         /\ DOMAIN r.expiry = DOMAIN p.expiry /\ Fresh(r, u)
<1>1. /\ p.order \in Seq(Keys) /\ r.order \in Seq(Keys) /\ ToSet(p.order) = Present(p)
      /\ ToSet(r.order) = Present(r) /\ DOMAIN p.expiry \subseteq Present(p)
      /\ Len(p.order) \in Nat
  BY LenProperties DEF Rebuilt, Sound, WellTyped, InLockstep
<1>2. r.order = p.order
  <2>1. \A a, b \in Seq(Keys) : Len(a) = Len(b) /\ (\A j \in 1..Len(a) : a[j] = b[j]) => a = b
    BY SeqEqual
  <2> QED BY <1>1, <2>1 DEF Rebuilt
<1>3. Present(r) = Present(p)
  BY <1>1, <1>2
<1>4. r.values = p.values
  <2>1. /\ r.values = [k \in Present(r) |-> r.values[k]]
        /\ p.values = [k \in Present(p) |-> p.values[k]]
    BY DEF Rebuilt, Sound, WellTyped
  <2>2. \A k \in Present(r) : r.values[k] = p.values[k]
    BY DEF Rebuilt
  <2> QED BY <1>3, <2>1, <2>2
<1>5. DOMAIN r.expiry = DOMAIN p.expiry
  BY <1>1, <1>3 DEF Rebuilt
<1>6. Fresh(r, u)
  <2> SUFFICES ASSUME NEW k \in DOMAIN r.expiry PROVE ~(u >= r.expiry[k])
    BY DEF Fresh
  <2>1. Entry(p, k, t).secs \in Nat \ {0}
    BY <1>1, <1>5, EntryProperties
  <2> DEFINE secs == Entry(p, k, t).secs
  <2> HIDE DEF secs
  <2>2. ~(u >= u + secs * TicksPerSecond)
    BY <2>1, DeadlineAhead DEF secs
  <2> QED BY <2>2 DEF Rebuilt, secs
<1> QED BY <1>2, <1>4, <1>5, <1>6

-----------------------------------------------------------------------------
(***************************************************************************)
(* Neither form of the contents loses anything of them.                    *)
(***************************************************************************)
\* The lines of what is dumped of contents s, and those that restore carries out,
\* make the live part of s from nothing.
LEMMA DumpedLines ==
  ASSUME NEW s, Sound(s), NEW t \in Nat, NEW u \in Nat
  PROVE  LET p == Unexpired(s, t)
             n == Len(p.order)
         IN  /\ Lines(Dumped(s, t)) \in Seq(LogLines)
             /\ Rebuilt(p, t, n, Replayed(EmptyStore, Lines(Dumped(s, t)), u), u)
             /\ Rebuilt(p, t, n, Restored(Dumped(s, t), u), u)
<1> DEFINE p        == Unexpired(s, t)
           EntryAt(i) == Entry(p, p.order[i], t)
           d        == Dumped(s, t)
           lines    == Joined([i \in DOMAIN p.order |-> LinesOf(EntryAt(i))])
<1>1. Sound(p) /\ Fresh(p, t)
  BY UnexpiredProperties DEF Thinned
<1>2. d = [i \in DOMAIN p.order |-> EntryAt(i)]
  BY DEF Dumped
<1> HIDE DEF p
<1>3. lines \in Seq(LogLines) /\ Rebuilt(p, t, Len(p.order), Replayed(EmptyStore, lines, u), u)
  BY <1>1, RebuiltAll
<1>4. \A i \in DOMAIN p.order : p.order[i] \in Present(p)
  BY <1>1 DEF Sound, InLockstep, ToSet
<1>5. \A i \in DOMAIN p.order : EntryAt(i).secs # 0
  BY <1>1, <1>4, EntryProperties
<1>6. \A i \in DOMAIN p.order : RestoreOf(EntryAt(i)) = LinesOf(EntryAt(i))
  <2> HIDE DEF EntryAt
  <2> QED BY <1>5 DEF RestoreOf
<1> HIDE DEF EntryAt, d
<1>7. /\ [i \in DOMAIN d |-> LinesOf(d[i])] = [i \in DOMAIN p.order |-> LinesOf(EntryAt(i))]
      /\ [i \in DOMAIN d |-> RestoreOf(d[i])] = [i \in DOMAIN p.order |-> LinesOf(EntryAt(i))]
  BY <1>2, <1>6
<1>8. Lines(d) = lines /\ Restored(d, u) = Replayed(EmptyStore, lines, u)
  BY <1>7 DEF Lines, Restored
<1> QED BY <1>3, <1>8 DEF p, d

\* Contents so rebuilt at the time of the dump hold the live data of s.
LEMMA RebuiltSameData ==
  ASSUME NEW s, Sound(s), NEW t \in Nat, NEW r,
         Rebuilt(Unexpired(s, t), t, Len(Unexpired(s, t).order), r, t)
  PROVE  SameData(r, s, t)
<1> DEFINE p == Unexpired(s, t)
<1>1. /\ Sound(p) /\ Fresh(p, t) /\ Present(p) = Live(s, t) /\ Thinned(s, p, t)
  BY UnexpiredProperties DEF Thinned
<1> HIDE DEF p
<1>2. /\ Rebuilt(p, t, Len(p.order), r, t)
      /\ r.values = p.values /\ r.order = p.order
      /\ DOMAIN r.expiry = DOMAIN p.expiry /\ Fresh(r, t)
  BY <1>1, RebuiltHolds DEF p
<1>3. Present(r) = Live(s, t) /\ Live(r, t) = Live(s, t)
  BY <1>1, <1>2 DEF Present, Live, Fresh, isExpired
<1>4. \A k \in Live(s, t) : SameAt(s, p, k)
  BY <1>1 DEF Thinned
<1>5. Data(r, t) = Data(s, t)
  BY <1>1, <1>2, <1>3, <1>4 DEF Data, SameAt
<1>6. ToSet(r.order) = Live(s, t) /\ KeepsOrder(r.order, s.order)
  BY <1>1, <1>2 DEF Thinned, Sound, InLockstep
<1>7. DOMAIN p.expiry = DOMAIN s.expiry \cap Live(s, t)
  BY <1>1, <1>4 DEF SameAt, Sound, InLockstep
<1>8. ASSUME NEW k \in DOMAIN r.expiry
      PROVE  r.expiry[k] - s.expiry[k] \in 0..(TicksPerSecond - 1)
  <2>1. k \in Present(p) /\ k \in DOMAIN p.expiry /\ s.expiry[k] = p.expiry[k]
    BY <1>1, <1>2, <1>4, <1>7 DEF SameAt
  <2>2. (t + Entry(p, k, t).secs * TicksPerSecond) - p.expiry[k] \in 0..(TicksPerSecond - 1)
    BY <1>1, <2>1, EntryProperties
  <2>3. r.expiry[k] = t + Entry(p, k, t).secs * TicksPerSecond
    BY <1>2 DEF Rebuilt
  <2> QED BY <2>1, <2>2, <2>3
<1>9. r.evictions = 0
  BY <1>2 DEF Rebuilt
<1> QED BY <1>2, <1>5, <1>6, <1>7, <1>8, <1>9 DEF SameData

\* In every state of the store: what PersistenceManager.save writes restore makes
\* again, and so does a replay of what AofWriter.rewrite writes, whatever values,
\* deadlines and expired keys there are and whatever the clock.
THEOREM FormsReproduceHolds == Spec => []FormsReproduce
<1>1. IInv => FormsReproduce
  <2> SUFFICES ASSUME IInv PROVE FormsReproduce
    OBVIOUS
  <2>1. Sound(store) /\ now \in Nat
    BY DEF IInv
  <2>2. /\ Rebuilt(Unexpired(store, now), now, Len(Unexpired(store, now).order),
                   Replayed(EmptyStore, Lines(Dumped(store, now)), now), now)
        /\ Rebuilt(Unexpired(store, now), now, Len(Unexpired(store, now).order),
                   Restored(Dumped(store, now), now), now)
    BY <2>1, DumpedLines
  <2> QED BY <2>1, <2>2, RebuiltSameData
          DEF FormsReproduce, SnapshotRestores, RewriteReproduces
<1> QED BY <1>1, StoreInvariant, PTL

-----------------------------------------------------------------------------
(***************************************************************************)
(* What is not logged.                                                     *)
(***************************************************************************)
\* A reply that is not logged, of a command whose method leaves r: the data and the
\* deadlines are those after the lazy expiry of the key, unless HSET has overwritten
\* fields of a live hash.
Untold(p, cmd, r) ==
  /\ r.expiry = p.expiry
  /\ \/ r.values = p.values
     \/ /\ cmd.name = "HSET" /\ Holds(p, cmd.key, "hash")
        /\ DOMAIN cmd.pairs \subseteq DOMAIN ValueOf(p, cmd.key)

\* A command whose reply is not logged leaves its key so.
LEMMA UnloggedEffect ==
  ASSUME NEW s, Sound(s), NEW cmd \in Commands, NEW t \in Nat,
         ~IsLogged(cmd, Perform(s, cmd, t).reply)
  PROVE  Untold(expireIfNeeded(s, cmd.key, t), cmd, Perform(s, cmd, t).store)
<1> DEFINE k == cmd.key
           p == expireIfNeeded(s, k, t)
           result == Perform(s, cmd, t)
<1>1. Sound(p) /\ IsContents(p)
  BY ExpireIfNeededSound, SoundIsContents
<1>2. result.store = p => Untold(p, cmd, result.store)
  BY DEF Untold
<1>3. cmd \in LogLines /\ cmd.name # "SET"
  BY CommandsAreLines DEF IsLogged
<1>4. CASE cmd.name = "GET"
  <2>1. result = get(s, k, t)
    BY <1>4, Performing
  <2>2. Alike(p, touch(p, k))
    BY <1>1, TouchEffect
  <2>3. result.store = touch(p, k) \/ result.store = p
    BY <2>1 DEF get, Result
  <2> QED BY <1>2, <2>2, <2>3 DEF Untold, Alike
<1>5. CASE cmd.name = "DEL"
  <2>1. result = del(s, k, t)
    BY <1>5, Performing
  <2>2. result.reply \in {WrongType, Number(0)}
    BY <1>5 DEF IsLogged
  <2>3. result.reply # WrongType /\ (k \in Present(p) => result.reply # Number(0))
    BY <2>1 DEF del, Result, WrongType, Number
  <2> QED BY <1>2, <2>1, <2>2, <2>3 DEF del, Result
<1>6. CASE cmd.name = "EXPIRE"
  <2>1. result = expire(s, k, cmd.secs, t)
    BY <1>6, Performing
  <2>2. result.reply \in {WrongType, Number(0)}
    BY <1>6 DEF IsLogged
  <2>3. result.reply # WrongType /\ (k \in Present(p) => result.reply # Number(0))
    BY <2>1 DEF expire, Result, WrongType, Number
  <2> QED BY <1>2, <2>1, <2>2, <2>3 DEF expire, Result
<1>7. CASE cmd.name = "PERSIST"
  <2>1. result = persist(s, k, t)
    BY <1>7, Performing
  <2>2. result.reply \in {WrongType, Number(0)}
    BY <1>7 DEF IsLogged
  <2>3. /\ result.reply # WrongType
        /\ k \in Present(p) /\ k \in DOMAIN p.expiry => result.reply # Number(0)
    BY <2>1 DEF persist, Result, WrongType, Number
  <2> QED BY <1>2, <2>1, <2>2, <2>3 DEF persist, Result
<1>8. CASE cmd.name \in {"LPUSH", "RPUSH"}
  <2>1. \/ cmd.name = "LPUSH" /\ result = lpush(s, k, cmd.values, t)
        \/ cmd.name = "RPUSH" /\ result = rpush(s, k, cmd.values, t)
    BY <1>8, Performing
  <2>2. result.reply = WrongType
    BY <1>8 DEF IsLogged
  <2>3. \A n : Number(n) # WrongType
    BY DEF Number, WrongType
  <2>4. CASE k \notin Present(p)
    <3>1. \E list : result = pushNewList(p, k, list, t)
      BY <2>1, <2>4 DEF lpush, rpush, OnKind
    <3>2. \E n : result.reply = Number(n)
      BY <3>1 DEF pushNewList, Result
    <3> QED BY <2>2, <2>3, <3>2
  <2>5. CASE k \in Present(p) /\ TypeOf(p, k) # "list"
    <3>1. \A absent, found : OnKind(p, k, "list", absent, found) = Result(p, WrongType)
      BY <2>5 DEF OnKind
    <3>2. \E absent, found : result = OnKind(p, k, "list", absent, found)
      BY <2>1 DEF lpush, rpush
    <3>3. result.store = p
      BY <3>1, <3>2 DEF Result
    <3> QED BY <1>2, <3>3
  <2>6. CASE k \in Present(p) /\ TypeOf(p, k) = "list"
    <3>1. \A absent, found : OnKind(p, k, "list", absent, found) = found
      BY <2>6 DEF OnKind
    <3>2. \E absent, w, n : result = OnKind(p, k, "list", absent, Result(w, Number(n)))
      BY <2>1 DEF lpush, rpush
    <3>3. \E n : result.reply = Number(n)
      BY <3>1, <3>2 DEF Result
    <3> QED BY <2>2, <2>3, <3>3
  <2> QED BY <2>4, <2>5, <2>6
<1>9. CASE cmd.name \in {"LPOP", "RPOP"}
  <2>1. \/ result = lpop(s, k, t)
        \/ result = rpop(s, k, t)
    BY <1>9, Performing
  <2>2. result.reply \in {WrongType, Nil}
    BY <1>9 DEF IsLogged
  <2>3. \A v : Bulk(v) # WrongType /\ Bulk(v) # Nil
    BY DEF Bulk, WrongType, Nil
  <2>4. result.store = p
    BY <2>1, <2>2, <2>3 DEF lpop, rpop, OnKind, Result
  <2> QED BY <1>2, <2>4
<1>10. CASE cmd.name = "HSET"
  <2>1. result = hset(s, k, cmd.pairs, t)
    BY <1>10, Performing
  <2>2. result.reply \in {WrongType, Number(0)}
    BY <1>10 DEF IsLogged
  <2>3. IsFiniteSet(DOMAIN cmd.pairs) /\ DOMAIN cmd.pairs # {}
    BY <1>10, FieldsGiven
  <2>4. \A D : D \subseteq DOMAIN cmd.pairs /\ Number(Cardinality(D)) = Number(0) => D = {}
    BY <2>3, FS_Subset, FS_EmptySet DEF Number
  <2>5. \A n : Number(n) # WrongType
    BY DEF Number, WrongType
  <2> DEFINE old == ValueOf(p, k)
             all == [f \in DOMAIN cmd.pairs \cup DOMAIN old |->
                       IF f \in DOMAIN cmd.pairs THEN cmd.pairs[f] ELSE old[f]]
  <2>6. /\ k \notin Present(p) => result.reply = Number(Cardinality(DOMAIN cmd.pairs))
        /\ k \in Present(p) /\ TypeOf(p, k) # "hash" => result.store = p
        /\ k \in Present(p) /\ TypeOf(p, k) = "hash" =>
             /\ result.reply = Number(Cardinality(DOMAIN cmd.pairs \ DOMAIN old))
             /\ result.store = mutated(put(p, k, HashValue(all)))
    BY <2>1 DEF hset, OnKind, Result
  <2> HIDE DEF all, old
  <2>7. k \in Present(p)
    BY <2>2, <2>3, <2>4, <2>5, <2>6
  <2>8. CASE TypeOf(p, k) # "hash"
    BY <1>2, <2>6, <2>7, <2>8
  <2>9. CASE TypeOf(p, k) = "hash"
    <3>1. result.reply = Number(Cardinality(DOMAIN cmd.pairs \ DOMAIN old))
      BY <2>6, <2>7, <2>9
    <3>2. DOMAIN cmd.pairs \ DOMAIN old = {}
      BY <2>2, <2>4, <2>5, <3>1
    <3>3. result.store.expiry = p.expiry
      <4>1. IsContents(put(p, k, HashValue(all))) /\ put(p, k, HashValue(all)).expiry = p.expiry
        BY <1>1, PutEffect
      <4> QED BY <2>6, <2>7, <2>9, <4>1, MutatedEffect DEF Alike
    <3> QED BY <1>10, <2>7, <2>9, <3>2, <3>3 DEF Untold, Holds, old
  <2> QED BY <2>8, <2>9
<1>11. CASE cmd.name = "HDEL"
  <2>1. result = hdel(s, k, cmd.fields, t)
    BY <1>11, Performing
  <2>2. result.reply \in {WrongType, Number(0)}
    BY <1>11 DEF IsLogged
  <2>3. IsFiniteSet(cmd.fields)
    BY <1>11, FieldsGiven
  <2>4. \A D : D \subseteq cmd.fields /\ Number(Cardinality(D)) = Number(0) => D = {}
    BY <2>3, FS_Subset, FS_EmptySet DEF Number
  <2>5. \A n : Number(n) # WrongType
    BY DEF Number, WrongType
  <2> DEFINE h == ValueOf(p, k)
             rest == [f \in DOMAIN h \ cmd.fields |-> h[f]]
             after == IF DOMAIN rest = {} THEN removeKey(p, k)
                      ELSE IF DOMAIN h \cap cmd.fields = {} THEN p
                      ELSE mutated(put(p, k, HashValue(rest)))
  <2>6. /\ k \notin Present(p) => result.store = p
        /\ k \in Present(p) /\ TypeOf(p, k) # "hash" => result.store = p
        /\ k \in Present(p) /\ TypeOf(p, k) = "hash" =>
             /\ result.reply = Number(Cardinality(DOMAIN h \cap cmd.fields))
             /\ result.store = after
    BY <2>1 DEF hdel, OnKind, Result
  <2>7. CASE k \in Present(p) /\ TypeOf(p, k) = "hash"
    <3>1. DOMAIN h # {}
      BY <1>1, <2>7, HashData
    <3> HIDE DEF h
    <3>2. DOMAIN rest = DOMAIN h \ cmd.fields
      OBVIOUS
    <3>3. DOMAIN h \cap cmd.fields = {}
      <4> HIDE DEF after, rest
      <4> QED BY <2>2, <2>4, <2>5, <2>6, <2>7
    <3>4. after = p
      <4> HIDE DEF rest
      <4> QED BY <3>1, <3>2, <3>3
    <3> QED BY <1>2, <2>6, <2>7, <3>4
  <2> HIDE DEF after, h
  <2> QED BY <1>2, <2>6, <2>7
<1> QED BY <1>3, <1>4, <1>5, <1>6, <1>7, <1>8, <1>9, <1>10, <1>11, LineCases

\* So the live data has not changed.
LEMMA UnloggedData ==
  ASSUME NEW s, Sound(s), NEW k, NEW t, NEW r,
         r.values = expireIfNeeded(s, k, t).values, r.expiry = expireIfNeeded(s, k, t).expiry
  PROVE  Data(r, t) = Data(s, t)
<1> DEFINE p == expireIfNeeded(s, k, t)
<1>1. Elapsed(s, k, t, p)
  BY ExpiryEffect
<1> HIDE DEF p
<1>2. \A x \in Live(p, t) : p.values[x] = s.values[x]
  BY <1>1 DEF Elapsed, SameAt, Live
<1>3. Live(r, t) = Live(p, t) /\ r.values = p.values
  BY DEF Live, Present, isExpired, p
<1> QED BY <1>1, <1>2, <1>3 DEF Data, Elapsed

-----------------------------------------------------------------------------
(***************************************************************************)
(* The entries of a snapshot.                                              *)
(***************************************************************************)
StoredValues == ({"string"} \X Vals) \cup ({"list"} \X Seq(Vals)) \cup ({"hash"} \X Hashes)

\* An entry of a snapshot is a key, its value and its TTL.
SnapshotEntries == [key : Keys, value : {v \in StoredValues : IsFilled(v)}, secs : Int]

\* They are what the lines of LinesOf are made for, and sound contents give such
\* entries.
LEMMA SnapshotEntriesFit ==
  /\ \A e \in SnapshotEntries : IsEntry(e)
  /\ \A p, k, t : Sound(p) /\ k \in Present(p) /\ t \in Nat => Entry(p, k, t) \in SnapshotEntries
<1>1. \A v : v \in StoredValues <=> IsStoredValue(v)
  BY DEF StoredValues, IsStoredValue
<1>2. \A e \in SnapshotEntries : IsEntry(e)
  BY <1>1 DEF SnapshotEntries, IsEntry
<1>3. ASSUME NEW p, NEW k, NEW t, Sound(p), k \in Present(p), t \in Nat
      PROVE  Entry(p, k, t) \in SnapshotEntries
  <2> DEFINE secs == ttl(p, k, t).reply[2]
  <2>1. /\ IsEntry(Entry(p, k, t)) /\ Entry(p, k, t).key = k
        /\ Entry(p, k, t).value = p.values[k]
    BY <1>3, EntryProperties
  <2>2. Entry(p, k, t) = [key |-> k, value |-> p.values[k], secs |-> secs]
    BY DEF Entry
  <2> HIDE DEF secs
  <2>3. secs \in Int /\ k \in Keys /\ p.values[k] \in StoredValues /\ IsFilled(p.values[k])
    BY <1>1, <2>1, <2>2 DEF IsEntry
  <2> QED BY <2>2, <2>3 DEF SnapshotEntries
<1> QED BY <1>2, <1>3

\* What is dumped is a sequence of entries.
LEMMA DumpedTyped ==
  ASSUME NEW s, Sound(s), NEW t \in Nat
  PROVE  Dumped(s, t) \in Seq(SnapshotEntries)
<1> DEFINE p == Unexpired(s, t)
           n == Len(p.order)
           EntryAt(i) == Entry(p, p.order[i], t)
           d == [i \in DOMAIN p.order |-> EntryAt(i)]
<1>1. Sound(p)
  BY UnexpiredProperties DEF Thinned
<1>2. Dumped(s, t) = d
  BY DEF Dumped
<1> HIDE DEF p
<1>3. /\ DOMAIN p.order = 1..n /\ n \in Nat /\ ToSet(p.order) = Present(p)
  BY <1>1, LenProperties DEF Sound, WellTyped, InLockstep
<1>4. \A i \in 1..n : EntryAt(i) \in SnapshotEntries
  BY <1>1, <1>3, SnapshotEntriesFit DEF ToSet
<1> HIDE DEF EntryAt, n
<1>5. d = [i \in 1..n |-> d[i]] /\ \A i \in 1..n : d[i] \in SnapshotEntries
  BY <1>3, <1>4
<1> HIDE DEF d
<1> QED BY <1>2, <1>3, <1>5, IsSequence

\* So is what is dumped while the clock ticks.
LEMMA DumpedAcrossTickTyped ==
  ASSUME NEW s, Sound(s), NEW t \in Nat, NEW i
  PROVE  DumpedAcrossTick(s, t, i) \in Seq(SnapshotEntries)
<1> DEFINE p == Unexpired(s, t)
           n == Len(p.order)
           Early(j) == Entry(p, p.order[j], t)
           Late(j)  == Entry(p, p.order[j], t + 1)
           Part(j)  == IF j < i THEN <<Early(j)>>
                       ELSE IF j = i \/ p.order[j] \in Live(p, t + 1) THEN <<Late(j)>>
                       ELSE <<>>
           parts == [j \in DOMAIN p.order |-> Part(j)]
<1>1. Sound(p)
  BY UnexpiredProperties DEF Thinned
<1>2. DumpedAcrossTick(s, t, i) = Joined(parts)
  BY DEF DumpedAcrossTick
<1> HIDE DEF p
<1>3. /\ DOMAIN p.order = 1..n /\ n \in Nat /\ ToSet(p.order) = Present(p)
  BY <1>1, LenProperties DEF Sound, WellTyped, InLockstep
<1>4. \A j \in 1..n : Early(j) \in SnapshotEntries /\ Late(j) \in SnapshotEntries
  <2>1. t + 1 \in Nat
    OBVIOUS
  <2> QED BY <1>1, <1>3, <2>1, SnapshotEntriesFit DEF ToSet
<1> HIDE DEF Early, Late, n
<1>5. \A j \in 1..n : Part(j) \in Seq(SnapshotEntries)
  <2>1. \A e \in SnapshotEntries : <<e>> \in Seq(SnapshotEntries)
    OBVIOUS
  <2>2. <<>> \in Seq(SnapshotEntries)
    OBVIOUS
  <2> QED BY <1>4, <2>1, <2>2
<1> HIDE DEF Part
<1>6. parts = [j \in 1..n |-> parts[j]] /\ \A j \in 1..n : parts[j] = Part(j)
  BY <1>3
<1> HIDE DEF parts
<1>7. Len(parts) = n
  BY <1>3, <1>5, <1>6, IsSequence
<1>8. \E g : Joined(parts) = g[n] /\ \A j \in 0..n : g[j] \in Seq(SnapshotEntries)
  <2>1. Len(parts) \in Nat /\ \A j \in 1..Len(parts) : parts[j] \in Seq(SnapshotEntries)
    BY <1>3, <1>5, <1>6, <1>7
  <2>2. \E g : /\ g[0] = <<>> /\ Joined(parts) = g[Len(parts)]
               /\ \A j \in 1..Len(parts) : g[j] = g[j - 1] \o parts[j]
               /\ \A j \in 0..Len(parts) : g[j] \in Seq(SnapshotEntries)
    BY <2>1, JoinedTyped
  <2> QED BY <1>7, <2>2
<1>9. n \in 0..n
  BY <1>3
<1> QED BY <1>2, <1>8, <1>9

\* What is restored is sound; nothing is restored from no snapshot.
LEMMA RestoredProperties ==
  ASSUME NEW d \in Seq(SnapshotEntries), NEW t \in Nat
  PROVE  Sound(Restored(d, t)) /\ (d = <<>> => Restored(d, t) = EmptyStore)
<1> DEFINE n == Len(d)
           parts == [i \in DOMAIN d |-> RestoreOf(d[i])]
<1>1. n \in Nat /\ DOMAIN d = 1..n /\ \A i \in 1..n : d[i] \in SnapshotEntries
  BY LenProperties, ElementOfSeq
<1>2. \A i \in 1..n : RestoreOf(d[i]) \in Seq(LogLines)
  BY <1>1, SnapshotEntriesFit, LinesTyped
<1> HIDE DEF n
<1>3. parts = [i \in 1..n |-> parts[i]] /\ \A i \in 1..n : parts[i] = RestoreOf(d[i])
  BY <1>1
<1>4. Restored(d, t) = Replayed(EmptyStore, Joined(parts), t)
  BY DEF Restored
<1> HIDE DEF parts
<1>5. Len(parts) = n
  BY <1>1, <1>2, <1>3, IsSequence
<1>6. PICK g : /\ g[0] = <<>> /\ Joined(parts) = g[n]
               /\ \A i \in 0..n : g[i] \in Seq(LogLines)
  <2>1. Len(parts) \in Nat /\ \A i \in 1..Len(parts) : parts[i] \in Seq(LogLines)
    BY <1>1, <1>2, <1>3, <1>5
  <2>2. \E g : /\ g[0] = <<>> /\ Joined(parts) = g[Len(parts)]
               /\ \A i \in 1..Len(parts) : g[i] = g[i - 1] \o parts[i]
               /\ \A i \in 0..Len(parts) : g[i] \in Seq(LogLines)
    BY <2>1, JoinedTyped
  <2> QED BY <1>5, <2>2
<1>7. n \in 0..n
  BY <1>1
<1>8. Sound(Restored(d, t))
  BY <1>4, <1>6, <1>7, EmptyStoreSound, ReplayedSound
<1>9. d = <<>> => Restored(d, t) = EmptyStore
  <2>1. d = <<>> => n = 0
    BY EmptySeq DEF n
  <2> QED BY <1>4, <1>6, <2>1, ReplayedShort
<1> QED BY <1>8, <1>9

\* The deadlines of a rewritten log are rounded up, and counted from the replay.
LEMMA RebuiltLater ==
  ASSUME NEW p, Sound(p), NEW n \in Nat, Fresh(p, n), NEW i, NEW r, NEW t \in Nat,
         Rebuilt(p, n, i, r, t), DOMAIN r.expiry = DOMAIN p.expiry
  PROVE  NoneEarlier(r.expiry, t, p.expiry, n)
<1> SUFFICES ASSUME n <= t, NEW k \in DOMAIN p.expiry PROVE p.expiry[k] <= r.expiry[k]
  BY DEF NoneEarlier
<1> DEFINE left == Entry(p, k, n).secs * TicksPerSecond
<1>1. k \in Present(p) /\ p.expiry[k] \in Nat
  BY DEF Sound, InLockstep, WellTyped
<1>2. /\ Entry(p, k, n).secs \in Nat \ {0}
      /\ (n + left) - p.expiry[k] \in 0..(TicksPerSecond - 1)
  BY <1>1, EntryProperties
<1>3. left \in Nat
  BY <1>2, ClockAssumption
<1>4. r.expiry[k] = t + left
  BY DEF Rebuilt
<1> HIDE DEF left
<1> QED BY <1>1, <1>2, <1>3, <1>4

-----------------------------------------------------------------------------
(***************************************************************************)
(* The invariant of the store, its log and its snapshot.                   *)
(***************************************************************************)
\* The contents are sound, the files hold lines and entries; and while the history
\* variable says so, the lines make the same data from nothing, with deadlines for
\* the same keys and none earlier than it was, at whatever time t they are carried
\* out, and no deadline of the store has been reached.  The invariant speaks of every t because the next line
\* will be replayed at a time that nobody knows when it is written.
RInv ==
  /\ Sound(store) /\ store.evictions = 0
  /\ now \in 0..MaxTime
  /\ log \in Seq(LogLines) /\ Len(log) <= MaxLog
  /\ dump \in Seq(SnapshotEntries)
  /\ replayable \in BOOLEAN
  /\ replayable => \A t \in Nat : Agree(Replayed(EmptyStore, log, t), t, store, now, FALSE)

\* The reset of the counters changes nothing else.
LEMMA UncountedSound ==
  ASSUME NEW s, Sound(s)
  PROVE  /\ Sound(Uncounted(s)) /\ Uncounted(s).evictions = 0
         /\ Uncounted(s).values = s.values /\ Uncounted(s).expiry = s.expiry
<1>1. IsContents(s)
  BY SoundIsContents
<1> DEFINE r == Uncounted(s)
<1>2. /\ r.values = s.values /\ r.order = s.order /\ r.lru = s.lru /\ r.expiry = s.expiry
      /\ r.evictions = 0
  BY <1>1 DEF IsContents, Uncounted
<1>3. r \in [values : {s.values}, order : {s.order}, lru : {s.lru}, expiry : {s.expiry},
            evictions : {0}, dirty : BOOLEAN]
  BY <1>1 DEF IsContents, Uncounted
<1> HIDE DEF r
<1>4. WellTyped(r)
  <2>1. /\ s.order \in Seq(Keys) /\ s.lru \in Seq(Keys)
        /\ Present(s) \subseteq Keys /\ s.values = [k \in Present(s) |-> s.values[k]]
        /\ \A k \in Present(s) : IsStoredValue(s.values[k])
        /\ DOMAIN s.expiry \subseteq Keys /\ s.expiry \in [DOMAIN s.expiry -> Nat]
    BY DEF Sound, WellTyped
  <2>2. Present(r) = Present(s)
    BY <1>2 DEF Present
  <2>3. r \in [values : {r.values}, order : Seq(Keys), lru : Seq(Keys),
              expiry : {r.expiry}, evictions : Nat, dirty : BOOLEAN]
    BY <1>3, <2>1
  <2> QED BY <1>2, <2>1, <2>2, <2>3 DEF WellTyped
<1>5. InLockstep(r) /\ Fits(r) /\ Filled(r)
  BY <1>2 DEF Sound, InLockstep, Fits, Filled, Present
<1> QED BY <1>2, <1>4, <1>5 DEF Sound, r

\* What agrees with contents agrees with any that hold the same, now or later.
LEMMA AgreeSame ==
  ASSUME NEW r, NEW t, NEW s, NEW u, Agree(r, t, s, u, FALSE), NEW w, NEW x, IsContents(w),
         w.values = s.values, w.expiry = s.expiry, Fresh(w, x), x <= t => u <= t
  PROVE  Agree(r, t, w, x, FALSE)
<1>1. NoneEarlier(r.expiry, t, w.expiry, x)
  BY DEF Agree, NoneEarlier
<1> QED BY <1>1 DEF Agree

\* No deadline is reached by a tick that kills no key.
LEMMA StaysFresh ==
  ASSUME NEW s, Sound(s), NEW t \in Nat, Fresh(s, t), Live(s, t + 1) = Live(s, t)
  PROVE  Fresh(s, t + 1)
<1>1. DOMAIN s.expiry \subseteq Present(s)
  BY DEF Sound, InLockstep
<1> QED BY <1>1 DEF Fresh, Live, isExpired

\* Data of contents that are fresh are their values.
LEMMA FreshData ==
  ASSUME NEW s, Sound(s), NEW t, Fresh(s, t)
  PROVE  Data(s, t) = s.values /\ Live(s, t) = Present(s)
<1>1. Live(s, t) = Present(s)
  BY DEF Live, Fresh, isExpired
<1> QED BY <1>1 DEF Data, Sound, WellTyped

\* Nothing is logged, saved or kept at first.
LEMMA InitRInv == RecoveryInit => RInv
<1> SUFFICES ASSUME RecoveryInit PROVE RInv
  OBVIOUS
<1>1. Sound(EmptyStore) /\ EmptyStore.evictions = 0
  BY EmptyStoreSound DEF EmptyStore
<1>2. <<>> \in Seq(LogLines) /\ <<>> \in Seq(SnapshotEntries) /\ Len(<<>>) = 0
  BY EmptySeq
<1>3. MaxTime \in Nat /\ MaxLog \in Nat
  BY BoundAssumption, LogAssumption
<1>4. \A t \in Nat : Agree(Replayed(EmptyStore, <<>>, t), t, EmptyStore, 0, FALSE)
  <2>1. /\ Fresh(EmptyStore, 0)
        /\ \A t : Fresh(EmptyStore, t) /\ NoneEarlier(EmptyStore.expiry, t, EmptyStore.expiry, 0)
    BY DEF Fresh, NoneEarlier, EmptyStore
  <2> QED BY <1>1, <2>1, ReplayedShort, SoundIsContents DEF Agree
<1>5. /\ store = EmptyStore /\ now = 0 /\ log = <<>> /\ dump = <<>> /\ replayable \in BOOLEAN
  BY DEF RecoveryInit
<1>6. 0 \in 0..MaxTime /\ Len(<<>>) <= MaxLog
  BY <1>2, <1>3
<1> QED BY <1>1, <1>2, <1>4, <1>5, <1>6 DEF RInv

-----------------------------------------------------------------------------
(***************************************************************************)
(* The steps of the recovery keep its invariant.                           *)
(***************************************************************************)
\* A logged command is one more line, which does the same in a replay unless a key
\* was evicted for it; one that is not logged leaves the values and deadlines alone
\* if it leaves the live data alone.
LEMMA ExecuteRInv ==
  ASSUME RInv, NEW cmd \in Commands, Execute(cmd)
  PROVE  RInv'
<1> DEFINE result == Perform(store, cmd, now)
           after  == result.store
           logs   == IsLogged(cmd, result.reply)
<1>1. /\ Sound(store) /\ store.evictions = 0 /\ now \in 0..MaxTime /\ now \in Nat
      /\ log \in Seq(LogLines) /\ Len(log) \in Nat /\ Len(log) <= MaxLog
      /\ dump \in Seq(SnapshotEntries) /\ MaxLog \in Nat /\ cmd \in LogLines
  BY LogAssumption, LenProperties, CommandsAreLines DEF RInv
<1>2. Sound(after)
  BY <1>1, PerformSound
<1>3. /\ store' = Uncounted(after) /\ now' = now /\ dump' = dump
      /\ logs => log' = Append(log, cmd) /\ Len(log) < MaxLog
      /\ ~logs => log' = log
      /\ replayable' \in BOOLEAN
      /\ replayable' => replayable /\ after.evictions = 0
                        /\ (logs \/ Data(after, now) = Data(store, now))
  BY DEF Execute
<1> HIDE DEF logs, after
<1>4. /\ Sound(store') /\ store'.evictions = 0
      /\ store'.values = after.values /\ store'.expiry = after.expiry
  BY <1>2, <1>3, UncountedSound
<1>5. log' \in Seq(LogLines) /\ Len(log') <= MaxLog
  <2>1. CASE logs
    <3>1. Append(log, cmd) \in Seq(LogLines) /\ Len(Append(log, cmd)) = Len(log) + 1
      BY <1>1, AppendProperties
    <3> QED BY <1>1, <1>3, <2>1, <3>1
  <2> QED BY <1>1, <1>3, <2>1
<1>6. ASSUME replayable', NEW t \in Nat
      PROVE  Agree(Replayed(EmptyStore, log', t), t, store', now, FALSE)
  <2> DEFINE r == Replayed(EmptyStore, log, t)
  <2>1. Sound(r) /\ Agree(r, t, store, now, FALSE) /\ Fresh(store, now)
    BY <1>1, <1>3, <1>6, EmptyStoreSound, ReplayedSound DEF RInv, Agree
  <2>2. CASE logs
    <3>0. Replayed(EmptyStore, Append(log, cmd), t) = Perform(r, cmd, t).store
      BY <1>1, ReplayedAppend
    <3>1. Replayed(EmptyStore, log', t) = Perform(r, cmd, t).store
      BY <1>3, <2>2, <3>0
    <3>2. Perform(store, cmd, now).store.evictions = store.evictions
      BY <1>1, <1>3, <1>6 DEF after
    <3> HIDE DEF r
    <3>3. Agree(Perform(r, cmd, t).store, t, after, now, FALSE)
      BY <1>1, <2>1, <3>2, PerformAgrees DEF after
    <3>4. Fresh(store', now)
      BY <1>4, <3>3 DEF Agree, Fresh
    <3> QED BY <1>4, <3>1, <3>3, <3>4, AgreeSame, SoundIsContents
  <2>3. CASE ~logs
    <3>1. expireIfNeeded(store, cmd.key, now) = store
      BY <2>1, FreshUnexpired
    <3>2. after.expiry = store.expiry
      BY <1>1, <2>3, <3>1, UnloggedEffect DEF Untold, logs, after
    <3>3. Fresh(after, now)
      BY <2>1, <3>2 DEF Fresh
    <3>4. after.values = store.values
      BY <1>1, <1>2, <1>3, <1>6, <2>1, <2>3, <3>3, FreshData
    <3>5. Fresh(store', now)
      BY <1>4, <3>3 DEF Fresh
    <3> HIDE DEF r
    <3>6. Agree(r, t, store', now, FALSE)
      BY <1>4, <2>1, <3>2, <3>4, <3>5, AgreeSame, SoundIsContents
    <3> QED BY <1>3, <2>3, <3>6 DEF r
  <2> QED BY <2>2, <2>3
<1> QED BY <1>1, <1>3, <1>4, <1>5, <1>6 DEF RInv

\* A tick changes the clock only.
LEMMA TickRInv == ASSUME RInv, ExpiryTick PROVE RInv'
<1>1. /\ now' = now + 1 /\ now' \in 0..MaxTime /\ now \in Nat
      /\ store' = store /\ log' = log /\ dump' = dump /\ replayable' \in BOOLEAN
      /\ replayable' => replayable /\ Live(store, now + 1) = Live(store, now)
  <2>1. now \in 0..MaxTime /\ MaxTime \in Nat /\ now < MaxTime /\ now' = now + 1
    BY BoundAssumption DEF ExpiryTick, RInv
  <2>2. /\ store' = store /\ log' = log /\ dump' = dump /\ replayable' \in BOOLEAN
        /\ replayable' => replayable /\ Live(store, now') = Live(store, now)
    BY DEF ExpiryTick
  <2> QED BY <2>1, <2>2
<1>2. ASSUME replayable', NEW t \in Nat
      PROVE  Agree(Replayed(EmptyStore, log, t), t, store, now + 1, FALSE)
  <2>1. Agree(Replayed(EmptyStore, log, t), t, store, now, FALSE)
    BY <1>1, <1>2 DEF RInv
  <2>2. Fresh(store, now + 1)
    BY <1>1, <1>2, <2>1, StaysFresh DEF RInv, Agree
  <2>3. now + 1 <= t => now <= t
    BY <1>1
  <2> QED BY <2>1, <2>2, <2>3, AgreeSame DEF Agree
<1> QED BY <1>1, <1>2 DEF RInv

\* A walk changes neither values nor deadlines of contents none of whose deadlines
\* has been reached.
LEMMA SaveRInv == ASSUME RInv, Save PROVE RInv'
<1> DEFINE p == Unexpired(store, now)
           w == Walked(store, now)
<1>1. /\ dump' = Dumped(store, now) /\ store' = Uncounted(w)
      /\ now' = now /\ log' = log /\ replayable' = replayable
  BY DEF Save
<1>2. Sound(store) /\ now \in Nat
  BY DEF RInv
<1>3. Sound(w) /\ w.values = p.values /\ w.expiry = p.expiry /\ (Fresh(store, now) => p = store)
  BY <1>2, WalkedProperties, UnexpiredProperties
<1> HIDE DEF p, w
<1>4. /\ Sound(store') /\ store'.evictions = 0
      /\ store'.values = w.values /\ store'.expiry = w.expiry
  BY <1>1, <1>3, UncountedSound
<1>5. dump' \in Seq(SnapshotEntries)
  BY <1>1, <1>2, DumpedTyped
<1>6. ASSUME replayable, NEW t \in Nat
      PROVE  Agree(Replayed(EmptyStore, log, t), t, store', now, FALSE)
  <2>1. Agree(Replayed(EmptyStore, log, t), t, store, now, FALSE)
    BY <1>6 DEF RInv
  <2>2. store'.values = store.values /\ store'.expiry = store.expiry /\ Fresh(store', now)
    BY <1>3, <1>4, <2>1 DEF Agree, Fresh
  <2> QED BY <1>4, <2>1, <2>2, AgreeSame, SoundIsContents
<1> QED BY <1>1, <1>4, <1>5, <1>6 DEF RInv

\* So does one during which the clock ticks and no key expires.
LEMMA SaveAcrossTickRInv == ASSUME RInv, SaveAcrossTick PROVE RInv'
<1>1. PICK i \in DOMAIN Dumped(store, now) :
           /\ dump' = DumpedAcrossTick(store, now, i)
           /\ store' = Uncounted(WalkedAcrossTick(store, now, i))
  BY DEF SaveAcrossTick
<1> DEFINE w == WalkedAcrossTick(store, now, i)
<1>2. /\ now' = now + 1 /\ now' \in 0..MaxTime /\ now \in Nat /\ Sound(store)
      /\ log' = log /\ replayable' \in BOOLEAN
      /\ replayable' => replayable /\ Live(store, now + 1) = Live(store, now)
  <2>1. /\ now \in 0..MaxTime /\ MaxTime \in Nat /\ now < MaxTime /\ now' = now + 1
        /\ Sound(store)
    BY BoundAssumption DEF SaveAcrossTick, RInv
  <2>2. /\ log' = log /\ replayable' \in BOOLEAN
        /\ replayable' => replayable /\ Live(store, now') = Live(store, now)
    BY DEF SaveAcrossTick
  <2> QED BY <2>1, <2>2
<1>3. i \in DOMAIN Unexpired(store, now).order
  BY DEF Dumped
<1>4. /\ Sound(w)
      /\ Fresh(store, now + 1) => w.values = store.values /\ w.expiry = store.expiry
  BY <1>2, <1>3, WalkedAcrossTickProperties
<1>5. /\ Sound(store') /\ store'.evictions = 0
      /\ store'.values = w.values /\ store'.expiry = w.expiry
  BY <1>1, <1>4, UncountedSound
<1> HIDE DEF w
<1>6. dump' \in Seq(SnapshotEntries)
  BY <1>1, <1>2, DumpedAcrossTickTyped
<1>7. ASSUME replayable', NEW t \in Nat
      PROVE  Agree(Replayed(EmptyStore, log, t), t, store', now + 1, FALSE)
  <2>1. Agree(Replayed(EmptyStore, log, t), t, store, now, FALSE)
    BY <1>2, <1>7 DEF RInv
  <2>2. Fresh(store, now + 1)
    BY <1>2, <1>7, <2>1, StaysFresh DEF Agree
  <2>3. store'.values = store.values /\ store'.expiry = store.expiry /\ Fresh(store', now + 1)
    BY <1>4, <1>5, <2>2 DEF Fresh
  <2>4. now + 1 <= t => now <= t
    BY <1>2
  <2> QED BY <1>5, <2>1, <2>3, <2>4, AgreeSame, SoundIsContents
<1> QED BY <1>2, <1>5, <1>6, <1>7 DEF RInv

\* A rewritten log makes what the walk of the rewrite has left, whatever was in the
\* log before.
LEMMA RewriteRInv == ASSUME RInv, Rewrite PROVE RInv'
<1> DEFINE p == Unexpired(store, now)
           w == Walked(store, now)
           lines == Lines(Dumped(store, now))
<1>1. /\ log' = lines /\ Len(lines) <= MaxLog /\ store' = Uncounted(w)
      /\ now' = now /\ dump' = dump /\ replayable' = TRUE
  BY DEF Rewrite
<1>2. Sound(store) /\ now \in Nat
  BY DEF RInv
<1>3. Sound(w) /\ w.values = p.values /\ w.expiry = p.expiry /\ Sound(p) /\ Fresh(p, now)
  BY <1>2, WalkedProperties, UnexpiredProperties DEF Thinned
<1>4. ASSUME NEW t \in Nat
      PROVE  /\ lines \in Seq(LogLines)
             /\ Rebuilt(p, now, Len(p.order), Replayed(EmptyStore, lines, t), t)
  BY <1>2, <1>4, DumpedLines
<1> HIDE DEF p, w, lines
<1>5. /\ Sound(store') /\ store'.evictions = 0
      /\ store'.values = w.values /\ store'.expiry = w.expiry
  BY <1>1, <1>3, UncountedSound
<1>6. ASSUME NEW t \in Nat
      PROVE  Agree(Replayed(EmptyStore, lines, t), t, store', now, FALSE)
  <2> DEFINE r == Replayed(EmptyStore, lines, t)
  <2>1. Rebuilt(p, now, Len(p.order), r, t)
    BY <1>4
  <2> HIDE DEF r
  <2>2. /\ r.values = p.values /\ DOMAIN r.expiry = DOMAIN p.expiry /\ Fresh(r, t) /\ Sound(r)
    BY <1>2, <1>3, <2>1, RebuiltHolds DEF Rebuilt
  <2>3. Fresh(store', now)
    BY <1>3, <1>5 DEF Fresh
  <2>4. NoneEarlier(r.expiry, t, store'.expiry, now)
    BY <1>2, <1>3, <1>5, <2>1, <2>2, RebuiltLater
  <2>5. Agree(r, t, store', now, FALSE)
    BY <1>3, <1>5, <2>2, <2>3, <2>4, SoundIsContents DEF Agree
  <2> QED BY <2>5 DEF r
<1>7. lines \in Seq(LogLines)
  BY <1>4
<1> QED BY <1>1, <1>5, <1>6, <1>7 DEF RInv

\* A start from no snapshot replays the log from nothing.
LEMMA RestartRInv == ASSUME RInv, Restart PROVE RInv'
<1> DEFINE base      == Restored(dump, now)
           recovered == Replayed(base, log, now)
<1>1. /\ store' = Uncounted(recovered) /\ replayable' = (dump = <<>>)
      /\ now' = now /\ log' = log /\ dump' = dump
  BY DEF Restart
<1>2. now \in Nat /\ log \in Seq(LogLines) /\ dump \in Seq(SnapshotEntries)
  BY DEF RInv
<1>3. Sound(base) /\ (dump = <<>> => base = EmptyStore)
  BY <1>2, RestoredProperties
<1> HIDE DEF base
<1>4. Sound(recovered)
  BY <1>2, <1>3, ReplayedSound
<1>5. ASSUME dump = <<>>, NEW t \in Nat
      PROVE  Agree(Replayed(EmptyStore, log, t), t, recovered, now, TRUE)
  BY <1>2, <1>3, <1>5, ReplaysAgree
<1> HIDE DEF recovered
<1>6. /\ Sound(store') /\ store'.evictions = 0
      /\ store'.values = recovered.values /\ store'.expiry = recovered.expiry
  BY <1>1, <1>4, UncountedSound
<1>7. ASSUME dump = <<>>, NEW t \in Nat
      PROVE  Agree(Replayed(EmptyStore, log, t), t, store', now, FALSE)
  <2>1. Fresh(store', now)
    BY <1>5, <1>6, <1>7 DEF Agree, Fresh
  <2> QED BY <1>5, <1>6, <1>7, <2>1, SoundIsContents DEF Agree
<1> QED BY <1>1, <1>6, <1>7 DEF RInv

\* Every step keeps the invariant.
LEMMA NextRInv == RInv /\ [RecoveryNext]_recoveryVars => RInv'
<1> SUFFICES ASSUME RInv, [RecoveryNext]_recoveryVars PROVE RInv'
  OBVIOUS
<1>1. ASSUME NEW cmd \in Commands, Execute(cmd) PROVE RInv'
  BY <1>1, ExecuteRInv
<1>2. CASE UNCHANGED recoveryVars
  BY <1>2 DEF RInv, recoveryVars
<1> QED BY <1>1, <1>2, TickRInv, SaveRInv, SaveAcrossTickRInv, RewriteRInv, RestartRInv
        DEF RecoveryNext

\* The invariant holds whatever commands, ticks, saves, rewrites and restarts there
\* are, in whatever order.
THEOREM RecoveryInvariant == RecoverySpec => []RInv
BY InitRInv, NextRInv, PTL DEF RecoverySpec

\* The log of CommandHandler and AofWriter makes the live data again from nothing,
\* with deadlines for the same keys and none earlier than it was, however long the log
\* is, whatever is saved, rewritten or restarted in between, as long as no key has expired or been evicted and no
\* unlogged command has changed the data; and what the store, the log and the
\* snapshot hold keeps its shape.
THEOREM LogReproducesHolds == RecoverySpec => []LogReproduces
<1>1. RInv => LogReproduces
  <2> SUFFICES ASSUME RInv PROVE LogReproduces
    OBVIOUS
  <2>1. RecoveryTypeOK
    <3>1. \A i \in DOMAIN log : log[i].key \in Keys
      <4>1. \A i \in DOMAIN log : log[i] \in LogLines
        BY LenProperties, ElementOfSeq DEF RInv
      <4> QED BY <4>1, LineCases
    <3>2. \A i \in DOMAIN dump : IsEntry(dump[i])
      <4>1. \A i \in DOMAIN dump : dump[i] \in SnapshotEntries
        BY LenProperties, ElementOfSeq DEF RInv
      <4> QED BY <4>1, SnapshotEntriesFit
    <3> QED BY <3>1, <3>2 DEF RInv, RecoveryTypeOK, Sound, IsEntry
  <2>2. ASSUME replayable
        PROVE  LET s == Replayed(EmptyStore, log, now)
               IN  /\ Data(s, now) = Data(store, now)
                   /\ DOMAIN s.expiry = DOMAIN store.expiry \cap Live(store, now)
                   /\ \A k \in DOMAIN s.expiry : s.expiry[k] >= store.expiry[k]
    <3> DEFINE s == Replayed(EmptyStore, log, now)
    <3>0. Sound(store) /\ now \in Nat
      BY DEF RInv
    <3>1. Agree(s, now, store, now, FALSE)
      BY <2>2, <3>0 DEF RInv
    <3>2. Sound(s)
      BY <3>0, EmptyStoreSound, ReplayedSound DEF RInv
    <3> HIDE DEF s
    <3>3. Data(s, now) = Data(store, now) /\ Live(store, now) = Present(store)
      BY <3>0, <3>1, <3>2, FreshData DEF Agree
    <3>4. DOMAIN s.expiry = DOMAIN store.expiry \cap Live(store, now)
      BY <3>0, <3>1, <3>3 DEF Agree, Sound, InLockstep
    <3>5. ASSUME NEW k \in DOMAIN s.expiry PROVE s.expiry[k] >= store.expiry[k]
      <4>1. now <= now
        BY <3>0
      <4>2. k \in DOMAIN store.expiry /\ store.expiry[k] <= s.expiry[k]
        BY <3>1, <3>5, <4>1 DEF Agree, NoneEarlier
      <4>3. store.expiry[k] \in Nat /\ s.expiry[k] \in Nat
        BY <3>0, <3>2, <3>5, <4>2 DEF Sound, WellTyped
      <4> QED BY <4>2, <4>3
    <3> QED BY <3>3, <3>4, <3>5 DEF s
  <2> QED BY <2>1, <2>2 DEF LogReproduces
<1> QED BY <1>1, RecoveryInvariant, PTL

\* What save and rewrite read of a list with LRANGE is exactly its elements.
THEOREM RangeContractHolds == RecoverySpec => []RangeContract
<1>1. ASSUME RInv, NEW k \in Live(store, now), NEW i \in Int, NEW j \in Int,
             Holds(store, k, "list")
      PROVE  IsRange(lrange(store, k, i, j, now).reply[2], ValueOf(store, k), i, j)
  <2>1. expireIfNeeded(store, k, now) = store
    BY <1>1 DEF Live, expireIfNeeded
  <2>2. lrange(store, k, i, j, now).reply = Array(slice(ValueOf(store, k), i, j))
    BY <1>1, <2>1 DEF lrange, OnKind, Holds, Result
  <2>3. ValueOf(store, k) \in Seq(Vals)
    BY <1>1 DEF RInv, Sound, WellTyped, Holds, IsStoredValue, TypeOf, ValueOf
  <2> QED BY <2>2, <2>3, SliceIsRange DEF Array
<1>2. RInv => RangeContract
  <2>1. -MaxItems - 1..MaxItems \subseteq Int
    BY BoundAssumption
  <2> QED BY <1>1, <2>1 DEF RangeContract
<1> QED BY <1>2, RecoveryInvariant, PTL

\* The walk of a save or a rewrite leaves the live data alone.
LEMMA WalkedData ==
  ASSUME NEW s, Sound(s), NEW t, NEW r, r = Uncounted(Walked(s, t))
  PROVE  Data(r, t) = Data(s, t)
<1> DEFINE p == Unexpired(s, t)
           w == Walked(s, t)
<1>1. /\ Thinned(s, p, t) /\ Present(p) = Live(s, t) /\ Fresh(p, t)
      /\ Sound(w) /\ w.values = p.values /\ w.expiry = p.expiry
  BY UnexpiredProperties, WalkedProperties
<1> HIDE DEF p
<1>2. r.values = p.values /\ r.expiry = p.expiry
  <2> HIDE DEF w
  <2> QED BY <1>1, UncountedSound DEF w
<1>3. Live(p, t) = Live(s, t) /\ \A x \in Live(p, t) : p.values[x] = s.values[x]
  BY <1>1 DEF Thinned, SameAt, Live
<1>4. Live(r, t) = Live(p, t)
  BY <1>2 DEF Live, Present, isExpired
<1> QED BY <1>2, <1>3, <1>4 DEF Data

\* Every command that changes the live data is logged by CommandHandler, but for an
\* HSET that only overwrites fields, whatever has expired and whatever had to make
\* room, and no save and no rewrite changes them: what else does is a restart.
THEOREM OtherMutationsLoggedHolds == RecoverySpec => OtherMutationsLogged
<1>1. ASSUME RInv, UnloggedChange, NEW cmd \in Commands, Execute(cmd)
      PROVE  Overwrites(cmd)
  <2> DEFINE result == Perform(store, cmd, now)
             after  == result.store
             p      == expireIfNeeded(store, cmd.key, now)
  <2>1. Sound(store) /\ now \in Nat /\ log \in Seq(LogLines) /\ cmd \in LogLines
    BY <1>1, CommandsAreLines DEF RInv
  <2>2. ~IsLogged(cmd, result.reply)
    <3>1. Len(Append(log, cmd)) = Len(log) + 1 /\ Len(log) \in Nat
      BY <2>1, AppendProperties, LenProperties
    <3>2. Append(log, cmd) # log
      BY <3>1
    <3> QED BY <1>1, <3>2 DEF Execute, UnloggedChange
  <2>3. Untold(p, cmd, after)
    BY <2>1, <2>2, UnloggedEffect
  <2>4. Sound(after)
    BY <2>1, PerformSound
  <2>5. store' = Uncounted(after) /\ now' = now
    BY <1>1 DEF Execute
  <2> HIDE DEF after, result
  <2>6. store'.values = after.values /\ store'.expiry = after.expiry
    BY <2>4, <2>5, UncountedSound
  <2>7. after.values # p.values
    <3>1. Data(store', now) # Data(store, now)
      BY <1>1, <2>5 DEF UnloggedChange
    <3>2. store'.expiry = p.expiry
      BY <2>3, <2>6 DEF Untold
    <3> QED BY <2>1, <2>6, <3>1, <3>2, UnloggedData
  <2>8. /\ cmd.name = "HSET" /\ Holds(p, cmd.key, "hash")
        /\ DOMAIN cmd.pairs \subseteq DOMAIN ValueOf(p, cmd.key)
    BY <2>3, <2>7 DEF Untold
  <2>9. p = store /\ cmd.key \in Live(store, now)
    BY <2>1, <2>8, ExpiryEffect DEF Elapsed, Holds
  <2> QED BY <2>8, <2>9 DEF Overwrites
<1>2. ASSUME RInv, UnloggedChange, Save \/ Rewrite PROVE FALSE
  <2>1. store' = Uncounted(Walked(store, now)) /\ now' = now
    BY <1>2 DEF Save, Rewrite
  <2>2. Data(store', now) = Data(store, now)
    BY <1>2, <2>1, WalkedData DEF RInv
  <2> QED BY <1>2, <2>1, <2>2 DEF UnloggedChange
<1>3. ASSUME RInv, UnloggedChange, ExpiryTick \/ SaveAcrossTick PROVE FALSE
  <2>1. now' = now + 1 /\ now' = now
    BY <1>3 DEF ExpiryTick, SaveAcrossTick, UnloggedChange
  <2>2. now \in Nat
    BY <1>3 DEF RInv
  <2> QED BY <2>1, <2>2
<1>4. RInv /\ [RecoveryNext]_recoveryVars =>
        [UnloggedChange => \/ \E cmd \in Commands : Overwrites(cmd) /\ Execute(cmd)
                           \/ Restart]_recoveryVars
  <2> SUFFICES ASSUME RInv, RecoveryNext, UnloggedChange
               PROVE  \/ \E cmd \in Commands : Overwrites(cmd) /\ Execute(cmd)
                      \/ Restart
    OBVIOUS
  <2>1. CASE \E cmd \in Commands : Execute(cmd)
    BY <1>1, <2>1
  <2> QED BY <1>2, <1>3, <2>1 DEF RecoveryNext
<1> QED BY <1>4, RecoveryInvariant, PTL DEF RecoverySpec, OtherMutationsLogged

=============================================================================
