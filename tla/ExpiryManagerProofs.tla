------------------------- MODULE ExpiryManagerProofs -------------------------
(***************************************************************************)
(* Theorems about ExpiryManager: the dense array stays an exact mirror of  *)
(* the deadlines, and each sweep collects what it should, for every set of *)
(* keys, TTLs and sample.                                                  *)
(***************************************************************************)
EXTENDS ExpiryManager, FiniteSetTheorems, SequenceTheorems, FunctionTheorems,
        NaturalsInduction, WellFoundedInduction, TLAPS

N == Len(keys)

(***************************************************************************)
(* Mirrored is not inductive: that a key stands where its index says does  *)
(* not exclude a second place in the array, which a swap would bring to    *)
(* light.  The converse, that every place is the index of its key, makes   *)
(* the two maps inverse to each other.                                     *)
(***************************************************************************)
Inverse2 ==
  /\ DOMAIN pos = Tracked
  /\ \A k \in Tracked : pos[k] < N /\ keys[pos[k] + 1] = k
  /\ \A i \in 1..N : keys[i] \in Tracked /\ pos[keys[i]] = i - 1

MirrorInv == TypeOK /\ Inverse2

\* A dense array that mirrors the keys has as many places as there are keys.
LEMMA MirrorInvSuffices == MirrorInv => Mirrored
<1> SUFFICES ASSUME MirrorInv PROVE Mirrored
  OBVIOUS
<1>1. /\ keys \in Seq(Keys) /\ N \in Nat /\ DOMAIN keys = 1..N
      /\ \A k \in Tracked : pos[k] \in Nat /\ pos[k] + 1 \in 1..N
  BY LenProperties DEF MirrorInv, TypeOK, Inverse2, N
<1>2. keys \in Bijection(1..N, Tracked)
  <2>1. keys \in [1..N -> Tracked]
    BY <1>1, LenProperties DEF MirrorInv, Inverse2, N
  <2>2. \A i, j \in 1..N : keys[i] = keys[j] => i = j
    BY <1>1 DEF MirrorInv, Inverse2
  <2>3. \A k \in Tracked : \E i \in 1..N : keys[i] = k
    BY <1>1 DEF MirrorInv, Inverse2
  <2> QED BY <2>1, <2>2, <2>3, Fun_IsBij
<1>3. N = Cardinality(Tracked)
  <2>1. ExistsBijection(1..N, Tracked)
    BY <1>2 DEF ExistsBijection
  <2> QED BY <1>1, <2>1, FS_CountingElements
<1> QED BY <1>3 DEF MirrorInv, Inverse2, Mirrored, KeyAt, N

LEMMA InitMirrorInv == Init => MirrorInv
<1> SUFFICES ASSUME Init PROVE MirrorInv
  OBVIOUS
<1>1. keys = <<>> /\ Tracked = {} /\ DOMAIN pos = {} /\ N = 0 /\ keys \in Seq(Keys)
  BY EmptySeq DEF Init, Tracked, N
<1>2. expiresAt \in [Tracked -> Nat] /\ pos \in [DOMAIN pos -> Nat] /\ cursor \in Nat /\ now \in Nat
  BY <1>1 DEF Init, Tracked
<1> QED BY <1>1, <1>2 DEF MirrorInv, TypeOK, Inverse2

-----------------------------------------------------------------------------
LEMMA SetMirrorInv ==
  ASSUME MirrorInv, NEW k \in Keys, NEW deadline \in Nat, set(k, deadline), UNCHANGED now
  PROVE  MirrorInv'
<1>1. /\ keys \in Seq(Keys) /\ N \in Nat /\ \A i \in 1..N : keys[i] \in Keys
      /\ pos \in [Tracked -> Nat] /\ expiresAt \in [Tracked -> Nat] /\ Tracked \subseteq Keys
  BY LenProperties, ElementOfSeq DEF MirrorInv, TypeOK, Inverse2, N
<1>2. /\ Tracked' = Tracked \cup {k} /\ expiresAt' \in [Tracked' -> Nat]
      /\ Tracked' \subseteq Keys /\ cursor' \in Nat /\ now' \in Nat
  BY <1>1 DEF set, Mapped, Tracked, MirrorInv, TypeOK
<1>3. CASE k \in Tracked
  <2>1. Tracked' = Tracked /\ N' = N /\ keys' = keys /\ pos' = pos
    BY <1>2, <1>3 DEF set, N
  <2> QED BY <1>2, <2>1 DEF MirrorInv, TypeOK, Inverse2
<1>4. CASE k \notin Tracked
  <2>1. /\ keys' \in Seq(Keys) /\ N' = N + 1
        /\ \A i \in 1..N : keys'[i] = keys[i]
        /\ keys'[N + 1] = k
    <3>1. keys' = Append(keys, k)
      BY <1>4 DEF set
    <3>2. /\ Append(keys, k) \in Seq(Keys) /\ Len(Append(keys, k)) = N + 1
          /\ \A i \in 1..N : Append(keys, k)[i] = keys[i]
          /\ Append(keys, k)[N + 1] = k
      BY <1>1, AppendProperties DEF N
    <3> QED BY <3>1, <3>2 DEF N
  <2>2. /\ DOMAIN pos' = Tracked' /\ pos' \in [Tracked' -> Nat]
        /\ pos'[k] = N /\ \A x \in Tracked : pos'[x] = pos[x]
    BY <1>1, <1>2, <1>4 DEF set, Mapped, N
  <2>3. ASSUME NEW x \in Tracked'
        PROVE  pos'[x] < N + 1 /\ keys'[pos'[x] + 1] = x
    <3>1. CASE x = k
      BY <1>1, <2>1, <2>2, <3>1
    <3>2. CASE x \in Tracked
      <4>1. pos[x] \in Nat /\ pos[x] < N /\ keys[pos[x] + 1] = x
        BY <1>1, <3>2 DEF MirrorInv, Inverse2
      <4>2. pos[x] + 1 \in 1..N /\ pos[x] < N + 1
        BY <1>1, <4>1
      <4> QED BY <2>1, <2>2, <3>2, <4>1, <4>2
    <3> QED BY <1>2, <3>1, <3>2
  <2>4. ASSUME NEW i \in 1..(N + 1)
        PROVE  keys'[i] \in Tracked' /\ pos'[keys'[i]] = i - 1
    <3>1. CASE i \in 1..N
      <4>1. keys[i] \in Tracked /\ pos[keys[i]] = i - 1
        BY <3>1 DEF MirrorInv, Inverse2
      <4> QED BY <1>2, <2>1, <2>2, <3>1, <4>1
    <3>2. CASE i = N + 1
      <4>1. keys'[i] = k /\ k \in Tracked'
        BY <1>2, <2>1, <3>2
      <4>2. N = i - 1
        BY <1>1, <3>2
      <4> QED BY <2>2, <4>1, <4>2
    <3> QED BY <1>1, <3>1, <3>2
  <2> QED BY <1>2, <2>1, <2>2, <2>3, <2>4 DEF MirrorInv, TypeOK, Inverse2
<1> QED BY <1>3, <1>4

\* The last key moves into the hole, and its index with it.
LEMMA ClearMirrorInv ==
  ASSUME MirrorInv, NEW k, clear(k), UNCHANGED now
  PROVE  MirrorInv'
<1> DEFINE hole == pos[k] + 1
           lastKey == keys[N]
<1>1. /\ keys \in Seq(Keys) /\ N \in Nat /\ \A i \in 1..N : keys[i] \in Keys
      /\ pos \in [Tracked -> Nat] /\ expiresAt \in [Tracked -> Nat] /\ Tracked \subseteq Keys
  BY LenProperties, ElementOfSeq DEF MirrorInv, TypeOK, Inverse2, N
<1>2. /\ k \in Tracked /\ hole \in 1..N /\ keys[hole] = k /\ N \in 1..N
      /\ lastKey \in Tracked /\ pos[lastKey] = N - 1
  <2>1. k \in Tracked
    BY DEF clear, MirrorInv, Inverse2
  <2>2. pos[k] \in Nat /\ pos[k] < N /\ keys[hole] = k
    BY <1>1, <2>1 DEF MirrorInv, Inverse2
  <2>3. hole \in 1..N /\ N \in 1..N
    BY <1>1, <2>2
  <2> QED BY <2>1, <2>2, <2>3 DEF MirrorInv, Inverse2
<1>3. /\ Tracked' = Tracked \ {k} /\ expiresAt' \in [Tracked' -> Nat]
      /\ Tracked' \subseteq Keys /\ cursor' \in Nat /\ now' \in Nat
  BY <1>1 DEF clear, Unmapped, Tracked, MirrorInv, TypeOK
<1>4. /\ keys' \in Seq(Keys) /\ N' = N - 1
      /\ \A i \in 1..(N - 1) : keys'[i] = IF i = hole THEN lastKey ELSE keys[i]
  <2> DEFINE swapped == [keys EXCEPT ![hole] = lastKey]
  <2>1. keys' = SubSeq(swapped, 1, N - 1)
    <3>1. (N - 1) + 1 = N
      BY <1>1
    <3> QED BY <3>1 DEF clear, KeyAt, N
  <2>2. lastKey \in Keys
    BY <1>1, <1>2
  <2> HIDE DEF hole, lastKey
  <2>3. /\ swapped \in Seq(Keys) /\ Len(swapped) = N
        /\ \A i \in 1..N : swapped[i] = IF i = hole THEN lastKey ELSE keys[i]
    BY <1>1, <1>2, <2>2, ExceptSeq DEF N
  <2> HIDE DEF swapped
  <2>4. \A i \in 1..(N - 1) : i \in 1..N /\ swapped[i] \in Keys
    BY <1>1, <2>3, ElementOfSeq
  <2>5. /\ SubSeq(swapped, 1, N - 1) \in Seq(Keys)
        /\ Len(SubSeq(swapped, 1, N - 1)) = N - 1
        /\ \A i \in 1..(N - 1) : SubSeq(swapped, 1, N - 1)[i] = swapped[i]
    <3>1. N - 1 \in Int /\ 1 \in Int /\ N - 1 >= 0
      BY <1>1, <1>2
    <3> QED BY <2>4, <3>1, SubSeqProperties
  <2> QED BY <2>1, <2>3, <2>4, <2>5 DEF N
<1>5. /\ DOMAIN pos' = Tracked' /\ pos' \in [Tracked' -> Nat]
      /\ lastKey # k => pos'[lastKey] = pos[k]
      /\ \A x \in Tracked' : x # lastKey => pos'[x] = pos[x]
  <2>1. CASE pos[k] = N - 1
    <3>1. pos' = Unmapped(pos, k)
      BY <2>1 DEF clear, N
    <3>2. lastKey = k
      BY <1>1, <1>2, <2>1
    <3> QED BY <1>1, <1>2, <1>3, <3>1, <3>2 DEF Unmapped
  <2>2. CASE pos[k] # N - 1
    <3>1. pos' = Mapped(Unmapped(pos, k), keys[(N - 1) + 1], pos[k])
      BY <2>2 DEF clear, KeyAt, N
    <3>2. (N - 1) + 1 = N
      BY <1>1
    <3>3. lastKey # k
      BY <1>2, <2>2
    <3>4. pos' = Mapped(Unmapped(pos, k), lastKey, pos[k])
      BY <3>1, <3>2
    <3> HIDE DEF lastKey
    <3> QED BY <1>1, <1>2, <1>3, <3>3, <3>4 DEF Unmapped, Mapped
  <2> QED BY <2>1, <2>2
<1> HIDE DEF lastKey
<1>6. ASSUME NEW x \in Tracked'
      PROVE  pos'[x] < N - 1 /\ keys'[pos'[x] + 1] = x
  <2>1. x \in Tracked /\ x # k
    BY <1>3
  <2>2. pos[x] \in Nat /\ pos[x] < N /\ keys[pos[x] + 1] = x
    BY <1>1, <2>1 DEF MirrorInv, Inverse2
  <2>3. pos[k] \in Nat /\ pos[k] < N /\ keys[N] = lastKey
    BY <1>1, <1>2 DEF MirrorInv, Inverse2, lastKey
  <2>4. CASE x = lastKey
    <3>1. pos'[x] = pos[k]
      BY <1>5, <2>1, <2>4
    <3>2. pos[k] # N - 1
      BY <1>1, <1>2, <2>1, <2>3, <2>4
    <3>3. pos[k] + 1 \in 1..(N - 1) /\ pos[k] < N - 1
      BY <1>1, <2>3, <3>2
    <3> QED BY <1>4, <2>4, <3>1, <3>3
  <2>5. CASE x # lastKey
    <3>1. pos'[x] = pos[x]
      BY <1>5, <2>5
    <3>2. pos[x] # N - 1
      BY <1>1, <2>2, <2>3, <2>5
    <3>3. pos[x] + 1 \in 1..(N - 1) /\ pos[x] < N - 1
      BY <1>1, <2>2, <3>2
    <3>4. pos[x] + 1 # hole
      BY <1>2, <2>1, <2>2
    <3> QED BY <1>4, <2>2, <3>1, <3>3, <3>4
  <2> QED BY <2>4, <2>5
<1>7. ASSUME NEW i \in 1..(N - 1)
      PROVE  keys'[i] \in Tracked' /\ pos'[keys'[i]] = i - 1
  <2>1. i \in 1..N /\ i # N
    BY <1>1
  <2>2. keys[i] \in Tracked /\ pos[keys[i]] = i - 1
    BY <2>1 DEF MirrorInv, Inverse2
  <2>3. CASE i = hole
    <3>1. keys'[i] = lastKey
      BY <1>4, <2>3
    <3>2. pos[k] = i - 1 /\ pos[k] # N - 1
      BY <1>1, <1>2, <2>1, <2>2, <2>3
    <3>3. lastKey # k
      BY <1>2, <3>2
    <3> QED BY <1>2, <1>3, <1>5, <3>1, <3>2, <3>3
  <2>4. CASE i # hole
    <3>1. keys'[i] = keys[i]
      BY <1>4, <2>4
    <3>2. keys[i] # k
      <4>1. pos[k] \in Nat
        BY <1>1, <1>2
      <4> QED BY <2>2, <2>4, <4>1
    <3>3. keys[i] # lastKey
      BY <1>1, <1>2, <2>1, <2>2
    <3> QED BY <1>3, <1>5, <2>2, <3>1, <3>2, <3>3
  <2> QED BY <2>3, <2>4
<1> QED BY <1>3, <1>4, <1>5, <1>6, <1>7 DEF MirrorInv, TypeOK, Inverse2

LEMMA CollectMirrorInv ==
  ASSUME MirrorInv, collectExpired, UNCHANGED now
  PROVE  MirrorInv'
<1>1. UNCHANGED <<expiresAt, keys, pos>> /\ Tracked' = Tracked /\ N' = N
  BY DEF collectExpired, Tracked, N
<1>2. N \in Nat /\ cursor \in Nat
  BY LenProperties DEF MirrorInv, TypeOK, N
<1>3. cursor' \in Nat
  <2>1. CASE Examined = <<>>
    BY <1>2, <2>1 DEF collectExpired
  <2>2. CASE Examined # <<>>
    <3> DEFINE n == IF SampleSize < N THEN SampleSize ELSE N
               start == IF cursor >= N THEN 0 ELSE cursor
               last == (start + n - 1) % N
    <3>1. Examined = [i \in 1..n |-> (start + i - 1) % N]
      BY DEF Examined, N
    <3>2. n \in Nat /\ start \in Nat
      BY <1>2, ManagerAssumption
    <3>3. n # 0
      <4>1. SUFFICES ASSUME n = 0 PROVE Examined = <<>>
        BY <2>2
      <4> QED BY <3>1, <4>1
    <3>4. N \in Nat \ {0}
      BY <1>2, <3>2, <3>3
    <3> HIDE DEF n, start
    <3>5. Len(Examined) = n
      BY <3>1, <3>2
    <3>6. Last(Examined) = last
      BY <3>1, <3>2, <3>3, <3>5 DEF Last
    <3>7. last \in Int
      BY <3>2, <3>4
    <3> HIDE DEF last
    <3>8. (last + 1) % N \in Nat
      BY <3>4, <3>7
    <3> QED BY <2>2, <3>6, <3>8 DEF collectExpired, N
  <2> QED BY <2>1, <2>2
<1> QED BY <1>1, <1>3 DEF MirrorInv, TypeOK, Inverse2

LEMMA NextMirrorInv == MirrorInv /\ [Next]_vars => MirrorInv'
<1> SUFFICES ASSUME MirrorInv, [Next]_vars PROVE MirrorInv'
  OBVIOUS
<1>1. ASSUME NEW k \in Keys, ClearExpiry(k) PROVE MirrorInv'
  BY <1>1, ClearMirrorInv DEF ClearExpiry
<1>2. ASSUME NEW k \in Keys, NEW ticks \in Ttls, SetExpiry(k, ticks) PROVE MirrorInv'
  <2>1. now + ticks \in Nat
    BY ManagerAssumption DEF MirrorInv, TypeOK
  <2> QED BY <1>2, <2>1, SetMirrorInv DEF SetExpiry
<1>3. CASE Tick \/ UNCHANGED vars
  <2>1. UNCHANGED <<expiresAt, keys, pos, cursor>> /\ now' \in Nat
    BY <1>3 DEF Tick, vars, MirrorInv, TypeOK
  <2> QED BY <2>1 DEF MirrorInv, TypeOK, Inverse2, Tracked, N
<1>4. CASE Sweep
  BY <1>4, CollectMirrorInv DEF Sweep
<1>5. CASE Reclaim
  BY <1>5, ClearMirrorInv DEF Reclaim
<1> QED BY <1>1, <1>2, <1>3, <1>4, <1>5 DEF Next

-----------------------------------------------------------------------------
\* However sets, clears and sweeps alternate, the array is an exact mirror of
\* the Map: each tracked key stands once, where its index says.
THEOREM MirroredHolds == Spec => []Mirrored
  BY InitMirrorInv, NextMirrorInv, MirrorInvSuffices, PTL DEF Spec

-----------------------------------------------------------------------------
(***************************************************************************)
(* What a sweep collects.                                                  *)
(***************************************************************************)
\* A set of naturals that is not empty has a least element.
LEMMA LeastNatural ==
  ASSUME NEW T, T \subseteq Nat, T # {}
  PROVE  \E x \in T : \A y \in T : x <= y
<1>1. PICK x \in T : \A y \in T : <<y, x>> \notin OpToRel(<, Nat)
  BY NatLessThanWellFounded, WFMin
<1>2. \A y \in T : ~(y < x)
  BY <1>1, T \subseteq Nat DEF OpToRel
<1> QED
  BY <1>2, T \subseteq Nat

\* Induction up to n, for a set of numbers in place of a predicate.
LEMMA UpTo ==
  ASSUME NEW n \in Nat, NEW T, 0 \in T, \A i \in 1..n : i - 1 \in T => i \in T
  PROVE  0..n \subseteq T
<1> SUFFICES ASSUME (0..n) \ T # {} PROVE FALSE
  OBVIOUS
<1> DEFINE S == (0..n) \ T
<1>0. S \subseteq Nat /\ S # {}
  OBVIOUS
<1>1. PICK x \in S : \A y \in S : x <= y
  <2> HIDE DEF S
  <2> QED BY <1>0, LeastNatural
<1>2. x \in 1..n
  BY <1>1
<1>3. x - 1 \in T
  BY <1>1, <1>2
<1> QED BY <1>1, <1>2, <1>3

\* e collects, place by place, the due keys at the indices.
Collecting(indices, n, e) ==
  /\ e = [i \in 0..n |-> e[i]]
  /\ e[0] = <<>>
  /\ \A i \in 1..n : e[i] = IF KeyAt(indices[i]) \in Due
                            THEN Append(e[i - 1], KeyAt(indices[i])) ELSE e[i - 1]

\* The recursion in Expired is sound: its loop has a value after every index.
LEMMA ExpiredSteps ==
  ASSUME NEW indices, Len(indices) \in Nat
  PROVE  \E e : Collecting(indices, Len(indices), e) /\ Expired(indices) = e[Len(indices)]
<1> DEFINE n == Len(indices)
           T == {m \in 0..n : \E e : Collecting(indices, m, e)}
<1>1. 0 \in T
  <2>1. Collecting(indices, 0, [i \in 0..0 |-> <<>>])
    BY DEF Collecting
  <2> QED BY <2>1
<1>2. ASSUME NEW m \in 1..n, m - 1 \in T PROVE m \in T
  <2>1. PICK e : Collecting(indices, m - 1, e)
    BY <1>2
  <2> DEFINE next == IF KeyAt(indices[m]) \in Due
                     THEN Append(e[m - 1], KeyAt(indices[m])) ELSE e[m - 1]
             g == [i \in 0..m |-> IF i = m THEN next ELSE e[i]]
  <2> HIDE DEF next
  <2>2. g[0] = <<>> /\ g = [i \in 0..m |-> g[i]]
    BY <2>1 DEF Collecting
  <2>3. ASSUME NEW i \in 1..m
        PROVE  g[i] = IF KeyAt(indices[i]) \in Due
                      THEN Append(g[i - 1], KeyAt(indices[i])) ELSE g[i - 1]
    <3>1. g[i - 1] = e[i - 1]
      OBVIOUS
    <3>2. CASE i = m
      BY <3>1, <3>2 DEF next
    <3>3. CASE i # m
      <4>1. i \in 1..(m - 1) /\ g[i] = e[i]
        BY <3>3
      <4> HIDE DEF g
      <4> QED BY <2>1, <3>1, <4>1 DEF Collecting
    <3> QED BY <3>2, <3>3
  <2> HIDE DEF g
  <2>4. Collecting(indices, m, g)
    BY <2>2, <2>3 DEF Collecting
  <2> QED BY <2>4
<1>3. PICK e : Collecting(indices, n, e)
  <2>1. 0..n \subseteq T
    <3> HIDE DEF T
    <3> QED BY <1>1, <1>2, UpTo
  <2> QED BY <2>1
<1> DEFINE expired == CHOOSE f : f = [i \in 0..n |->
                        IF i = 0 THEN <<>>
                        ELSE IF KeyAt(indices[i]) \in Due THEN Append(f[i - 1], KeyAt(indices[i]))
                        ELSE f[i - 1]]
<1>4. e = [i \in 0..n |-> IF i = 0 THEN <<>>
                          ELSE IF KeyAt(indices[i]) \in Due THEN Append(e[i - 1], KeyAt(indices[i]))
                          ELSE e[i - 1]]
  <2>1. \A i \in 0..n : i # 0 => i \in 1..n
    OBVIOUS
  <2> QED BY <1>3, <2>1 DEF Collecting
<1>5. expired = [i \in 0..n |-> IF i = 0 THEN <<>>
                          ELSE IF KeyAt(indices[i]) \in Due THEN Append(expired[i - 1], KeyAt(indices[i]))
                          ELSE expired[i - 1]]
  BY <1>4
<1>6. Collecting(indices, n, expired)
  <2> HIDE DEF expired
  <2>1. expired[0] = <<>> /\ expired = [i \in 0..n |-> expired[i]]
    BY <1>5
  <2>2. ASSUME NEW i \in 1..n
        PROVE  expired[i] = IF KeyAt(indices[i]) \in Due
                            THEN Append(expired[i - 1], KeyAt(indices[i])) ELSE expired[i - 1]
    <3>1. i \in 0..n /\ i # 0
      OBVIOUS
    <3> QED BY <1>5, <3>1
  <2> QED BY <2>1, <2>2 DEF Collecting
<1>7. Expired(indices) = expired[n]
  BY DEF Expired
<1> HIDE DEF expired
<1> QED BY <1>6, <1>7

\* The loop looks at different places of the array, at all of them if it may.
LEMMA ExaminedPlaces ==
  ASSUME MirrorInv
  PROVE  /\ Len(Examined) \in Nat /\ Len(Examined) <= SampleSize
         /\ \A i \in 1..Len(Examined) : Examined[i] \in 0..(N - 1)
         /\ \A i, j \in 1..Len(Examined) : Examined[i] = Examined[j] => i = j
         /\ N <= SampleSize =>
              \A x \in 0..(N - 1) : \E i \in 1..Len(Examined) : Examined[i] = x
<1>1. N \in Nat /\ cursor \in Nat
  BY LenProperties DEF MirrorInv, TypeOK, N
<1> DEFINE n == IF SampleSize < N THEN SampleSize ELSE N
           start == IF cursor >= N THEN 0 ELSE cursor
<1>2. Examined = [i \in 1..n |-> (start + i - 1) % N]
  BY DEF Examined, N
<1>3. /\ n \in Nat /\ n <= N /\ n <= SampleSize /\ (N <= SampleSize => n = N)
      /\ start \in Nat /\ (N # 0 => start < N)
  BY <1>1, ManagerAssumption
<1> HIDE DEF n, start
<1>4. Len(Examined) = n
  BY <1>2, <1>3
<1>5. ASSUME NEW i \in 1..n
      PROVE  Examined[i] = IF start + i - 1 < N THEN start + i - 1 ELSE start + i - 1 - N
  <2> DEFINE x == start + i - 1
  <2>1. Examined[i] = x % N
    BY <1>2
  <2> SUFFICES Examined[i] = IF x < N THEN x ELSE x - N
    BY <1>1, <1>3
  <2>2. N # 0 /\ x \in Nat /\ x < 2 * N /\ N \in Nat
    BY <1>1, <1>3
  <2> HIDE DEF x
  <2>3. x % N = IF x < N THEN x ELSE x - N
    BY <2>2
  <2> QED BY <2>1, <2>3
<1>6. \A i \in 1..n : Examined[i] \in 0..(N - 1)
  BY <1>1, <1>3, <1>5
<1>7. \A i, j \in 1..n : Examined[i] = Examined[j] => i = j
  BY <1>1, <1>3, <1>5
<1>8. ASSUME N <= SampleSize, NEW x \in 0..(N - 1)
      PROVE  \E i \in 1..n : Examined[i] = x
  <2>1. n = N /\ N # 0
    BY <1>1, <1>3, <1>8
  <2>2. CASE x >= start
    <3> DEFINE i == x - start + 1
    <3>1. i \in 1..n /\ start + i - 1 = x /\ x < N
      BY <1>1, <1>3, <2>1, <2>2
    <3> HIDE DEF i
    <3>2. Examined[i] = x
      BY <1>5, <3>1
    <3> QED BY <3>1, <3>2
  <2>3. CASE x < start
    <3> DEFINE i == x - start + 1 + N
    <3>1. i \in 1..n /\ start + i - 1 - N = x /\ ~(start + i - 1 < N)
      BY <1>1, <1>3, <2>1, <2>3
    <3> HIDE DEF i
    <3>2. Examined[i] = x
      BY <1>5, <3>1
    <3> QED BY <3>1, <3>2
  <2> QED BY <1>1, <1>3, <2>2, <2>3
<1> QED BY <1>3, <1>4, <1>6, <1>7, <1>8

\* What the loop has collected after m of the places: the due keys there, each
\* once.
Collected(m, q) ==
  /\ q \in Seq(Keys)
  /\ ToSet(q) = {KeyAt(Examined[i]) : i \in 1..m} \cap Due
  /\ IsFiniteSet(ToSet(q)) /\ Cardinality(ToSet(q)) = Len(q)
  /\ Len(q) <= m

LEMMA ExpiredCollected ==
  ASSUME MirrorInv
  PROVE  Collected(Len(Examined), Expired(Examined))
<1> DEFINE n == Len(Examined)
<1>1. /\ n \in Nat
      /\ \A i, j \in 1..n : KeyAt(Examined[i]) = KeyAt(Examined[j]) => i = j
      /\ \A i \in 1..n : KeyAt(Examined[i]) \in Keys
  <2>1. \A i \in 1..n : Examined[i] + 1 \in 1..N
    BY ExaminedPlaces, LenProperties DEF MirrorInv, TypeOK, N
  <2>2. \A i, j \in 1..N : keys[i] = keys[j] => i = j
    BY DEF MirrorInv, Inverse2
  <2>3. \A i \in 1..N : keys[i] \in Keys
    BY ElementOfSeq DEF MirrorInv, TypeOK, N
  <2>4. ASSUME NEW i \in 1..n, NEW j \in 1..n, KeyAt(Examined[i]) = KeyAt(Examined[j])
        PROVE  i = j
    <3>1. Examined[i] + 1 = Examined[j] + 1 /\ Examined[i] \in Int /\ Examined[j] \in Int
      BY <2>1, <2>2, <2>4, ExaminedPlaces DEF KeyAt
    <3> QED BY <3>1, ExaminedPlaces
  <2> QED BY <2>1, <2>3, <2>4, ExaminedPlaces DEF KeyAt
<1>2. PICK e : Collecting(Examined, n, e) /\ Expired(Examined) = e[n]
  BY <1>1, ExpiredSteps
<1> HIDE DEF n
<1> DEFINE T == {m \in 0..n : Collected(m, e[m])}
<1>3. 0 \in T
  <2>1. e[0] = <<>> /\ ToSet(<<>>) = {} /\ Len(<<>>) = 0 /\ <<>> \in Seq(Keys)
    BY <1>2, EmptySeq DEF Collecting, ToSet
  <2>2. {KeyAt(Examined[i]) : i \in 1..0} = {}
    OBVIOUS
  <2>3. IsFiniteSet(ToSet(<<>>)) /\ Cardinality(ToSet(<<>>)) = 0
    BY <2>1, FS_EmptySet
  <2>4. ToSet(<<>>) = {KeyAt(Examined[i]) : i \in 1..0} \cap Due
    BY <2>1, <2>2
  <2>5. Collected(0, <<>>)
    BY <2>1, <2>3, <2>4 DEF Collected
  <2> QED BY <1>1, <2>1, <2>5
<1>4. ASSUME NEW m \in 1..n, m - 1 \in T PROVE m \in T
  <2> DEFINE k == KeyAt(Examined[m])
             q == e[m - 1]
  <2>1. /\ q \in Seq(Keys) /\ Len(q) \in Nat /\ DOMAIN q = 1..Len(q)
        /\ ToSet(q) = {KeyAt(Examined[i]) : i \in 1..(m - 1)} \cap Due
        /\ IsFiniteSet(ToSet(q)) /\ Cardinality(ToSet(q)) = Len(q) /\ Len(q) <= m - 1
        /\ k \in Keys
    BY <1>1, <1>4, LenProperties DEF Collected
  <2>2. e[m] = IF k \in Due THEN Append(q, k) ELSE q
    BY <1>2 DEF Collecting
  <2>3. {KeyAt(Examined[i]) : i \in 1..m} = {KeyAt(Examined[i]) : i \in 1..(m - 1)} \cup {k}
    <3>1. \A i : i \in 1..m <=> i \in 1..(m - 1) \/ i = m
      BY <1>1
    <3> QED BY <3>1
  <2> HIDE DEF q
  <2>4. CASE k \notin Due
    <3>1. e[m] = q /\ ToSet(q) = {KeyAt(Examined[i]) : i \in 1..m} \cap Due
      BY <2>1, <2>2, <2>3, <2>4
    <3>2. q \in Seq(Keys) /\ Len(q) <= m /\ IsFiniteSet(ToSet(q)) /\ Cardinality(ToSet(q)) = Len(q)
      BY <2>1
    <3>3. Collected(m, e[m])
      BY <3>1, <3>2 DEF Collected
    <3> QED BY <1>1, <3>3
  <2>5. CASE k \in Due
    <3>1. e[m] = Append(q, k)
      BY <2>2, <2>5
    <3> HIDE DEF k
    <3>2. /\ e[m] \in Seq(Keys) /\ Len(e[m]) = Len(q) + 1 /\ DOMAIN e[m] = 1..(Len(q) + 1)
          /\ \A i \in 1..Len(q) : e[m][i] = q[i]
          /\ e[m][Len(q) + 1] = k
      BY <2>1, <3>1, AppendProperties, LenProperties
    <3>3. ToSet(e[m]) = ToSet(q) \cup {k}
      <4>1. \A i : i \in 1..(Len(q) + 1) <=> i \in 1..Len(q) \/ i = Len(q) + 1
        BY <2>1
      <4> QED BY <2>1, <3>2, <4>1 DEF ToSet
    <3>4. k \notin ToSet(q)
      <4>1. \A i \in 1..(m - 1) : KeyAt(Examined[i]) # KeyAt(Examined[m])
        BY <1>1
      <4> QED BY <2>1, <4>1 DEF k
    <3>5. ToSet(e[m]) = {KeyAt(Examined[i]) : i \in 1..m} \cap Due
      BY <2>1, <2>3, <2>5, <3>3
    <3>6. IsFiniteSet(ToSet(e[m])) /\ Cardinality(ToSet(e[m])) = Len(q) + 1
      <4>1. IsFiniteSet(ToSet(q)) /\ Cardinality(ToSet(q)) = Len(q)
        BY <2>1
      <4>2. /\ IsFiniteSet(ToSet(q) \cup {k})
            /\ Cardinality(ToSet(q) \cup {k}) = Cardinality(ToSet(q)) + 1
        BY <3>4, <4>1, FS_AddElement
      <4> QED BY <3>3, <4>1, <4>2
    <3>7. Len(e[m]) <= m
      BY <1>1, <2>1, <3>2
    <3>8. Collected(m, e[m])
      BY <3>2, <3>5, <3>6, <3>7 DEF Collected
    <3> QED BY <1>1, <3>8
  <2> QED BY <2>4, <2>5
<1>5. n \in T
  <2> HIDE DEF T
  <2>1. 0..n \subseteq T
    BY <1>1, <1>3, <1>4, UpTo
  <2> QED BY <1>1, <2>1
<1> QED BY <1>2, <1>5 DEF n

LEMMA SweepCollects ==
  ASSUME MirrorInv, Sweep
  PROVE  /\ ToSet(collected') \subseteq Due
         /\ Cardinality(ToSet(collected')) = Len(collected')
         /\ Len(collected') <= SampleSize
         /\ Len(keys) <= SampleSize => ToSet(collected') = Due
<1> DEFINE n == Len(Examined)
<1>1. collected' = Expired(Examined)
  BY DEF Sweep, collectExpired
<1>2. Collected(n, collected')
  BY <1>1, ExpiredCollected
<1>3. /\ n \in Nat /\ n <= SampleSize /\ SampleSize \in Nat
      /\ N <= SampleSize => \A x \in 0..(N - 1) : \E i \in 1..n : Examined[i] = x
  BY ExaminedPlaces, ManagerAssumption
<1> HIDE DEF n
<1>4. Len(collected') <= SampleSize
  <2>1. Len(collected') <= n /\ Len(collected') \in Nat
    BY <1>2, LenProperties DEF Collected
  <2> QED BY <1>3, <2>1
<1>5. ASSUME Len(keys) <= SampleSize, NEW k \in Due PROVE k \in ToSet(collected')
  <2>1. k \in Tracked /\ pos[k] \in 0..(N - 1) /\ KeyAt(pos[k]) = k
    <3>1. k \in Tracked
      BY DEF Due
    <3>2. N \in Nat /\ pos[k] \in Nat
      BY <3>1, LenProperties DEF MirrorInv, TypeOK, Inverse2, N
    <3> QED BY <3>1, <3>2 DEF MirrorInv, Inverse2, KeyAt
  <2>2. PICK i \in 1..n : Examined[i] = pos[k]
    BY <1>3, <1>5, <2>1 DEF N
  <2>3. KeyAt(Examined[i]) = k
    BY <2>1, <2>2
  <2> QED BY <1>2, <2>3 DEF Collected
<1>6. ToSet(collected') \subseteq Due /\ Cardinality(ToSet(collected')) = Len(collected')
  BY <1>2 DEF Collected
<1> QED BY <1>4, <1>5, <1>6

\* A sweep collects only due keys, none twice and never more than its sample, and
\* it misses none when its sample covers the array.
THEOREM SweepContractHolds == Spec => SweepContract
<1>1. MirrorInv /\ [Next]_vars =>
        [Sweep => /\ ToSet(collected') \subseteq Due
                  /\ Cardinality(ToSet(collected')) = Len(collected')
                  /\ Len(collected') <= SampleSize
                  /\ Len(keys) <= SampleSize => ToSet(collected') = Due]_vars
  BY SweepCollects
<1> QED BY <1>1, InitMirrorInv, NextMirrorInv, PTL DEF Spec, SweepContract
=============================================================================
