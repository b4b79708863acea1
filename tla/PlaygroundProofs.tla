--------------------------- MODULE PlaygroundProofs ---------------------------
(***************************************************************************)
(* Theorems about Playground: what the rate window lets through and whose  *)
(* reply a command shows, for every limit, every length of the window and  *)
(* every number of commands, messages and failures.                        *)
(***************************************************************************)
EXTENDS Playground, FiniteSetTheorems, SequenceTheorems, NaturalsInduction,
        WellFoundedInduction, TLAPS

N == Len(executedAt)

\* How many of them were executed in the window that is open.
InWindow == IF commandCount < Limit THEN commandCount ELSE Limit

Types ==
  /\ now \in Nat /\ lastTime \in 0..now /\ commandCount \in Nat
  /\ executedAt \in Seq(Nat)
  /\ InWindow <= N

\* The times never go down, and the first of equal ones is known.
Times ==
  /\ \A i, j \in 1..N : i <= j => executedAt[i] <= executedAt[j]
  /\ \A i \in 1..N : executedAt[i] <= now
  /\ \A i \in 1..N : \E a \in 1..i :
       executedAt[a] = executedAt[i] /\ \A j \in 1..(a - 1) : executedAt[j] < executedAt[a]

(***************************************************************************)
(* The open window began at lastTime and holds everything since.  What is  *)
(* older than the limit of the window before it was over before that       *)
(* window began, and so lies a whole length before lastTime.  Between a    *)
(* command and the one two limits later there is thus more than a window.  *)
(***************************************************************************)
Windows ==
  /\ \A k \in 1..N : executedAt[k] <= lastTime + Window
  /\ \A k \in 1..(N - InWindow) : executedAt[k] < lastTime
  /\ \A k \in 1..(N - InWindow - Limit) : executedAt[k] + Window < lastTime
  /\ \A k \in 1..(N - 2 * Limit) : executedAt[k] + Window < executedAt[k + 2 * Limit]

RateInv == Types /\ Times /\ Windows

LEMMA InitRateInv == Init => RateInv
<1> SUFFICES ASSUME Init PROVE RateInv
  OBVIOUS
<1>1. executedAt = <<>> /\ N = 0 /\ InWindow = 0 /\ executedAt \in Seq(Nat)
  BY LimitAssumption, EmptySeq DEF Init, N, InWindow
<1>2. now = 0 /\ lastTime = 0 /\ commandCount = 0
  BY DEF Init
<1>3. Types
  BY <1>1, <1>2 DEF Types
<1>4. Times
  BY <1>1 DEF Times
<1>5. Windows
  BY <1>1, LimitAssumption DEF Windows
<1> QED BY <1>3, <1>4, <1>5 DEF RateInv

\* A new connection begins with a window of its own.
LEMMA OpenedRateInv ==
  ASSUME RateInv, Opened
  PROVE  RateInv'
<1>1. executedAt' = <<>> /\ N' = 0 /\ InWindow' = 0 /\ executedAt' \in Seq(Nat)
  BY LimitAssumption, EmptySeq DEF Opened, N, InWindow
<1>2. now' \in Nat /\ lastTime' \in 0..now' /\ commandCount' \in Nat
  BY DEF Opened, RateInv, Types
<1>3. Types'
  BY <1>1, <1>2 DEF Types
<1>4. Times'
  BY <1>1 DEF Times
<1>5. Windows'
  BY <1>1, LimitAssumption DEF Windows
<1> QED BY <1>3, <1>4, <1>5 DEF RateInv

\* Nothing is handled, and time does not go back.
LEMMA QuietRateInv ==
  ASSUME RateInv, now' \in {now, now + 1}, UNCHANGED <<commandCount, lastTime, executedAt>>
  PROVE  RateInv'
<1>1. N' = N /\ InWindow' = InWindow
  BY DEF N, InWindow
<1>2. N \in Nat
  BY LenProperties DEF RateInv, Types, N
<1>3. Types'
  BY <1>1 DEF RateInv, Types
<1>4. \A i \in 1..N : executedAt[i] \in Nat
  BY <1>2, ElementOfSeq DEF RateInv, Types, N
<1>5. \A i \in 1..N : executedAt[i] <= now'
  BY <1>4 DEF RateInv, Types, Times
<1>6. Times'
  BY <1>1, <1>5 DEF RateInv, Times
<1>7. Windows'
  BY <1>1 DEF RateInv, Windows
<1> QED BY <1>3, <1>6, <1>7 DEF RateInv

\* A message over the limit is counted and refused.
LEMMA RefusedRateInv ==
  ASSUME RateInv, now' = now, commandCount' = commandCount + 1, commandCount' > Limit,
         UNCHANGED <<lastTime, executedAt>>
  PROVE  RateInv'
<1>1. N' = N /\ InWindow' = InWindow /\ commandCount' \in Nat
  BY LimitAssumption DEF N, InWindow, RateInv, Types
<1>2. Types'
  BY <1>1 DEF RateInv, Types
<1>3. Times' /\ Windows'
  BY <1>1 DEF RateInv, Times, Windows
<1> QED BY <1>2, <1>3 DEF RateInv

\* What is executed now is put behind the rest.
OneMore ==
  /\ N \in Nat /\ N' = N + 1
  /\ executedAt' \in Seq(Nat) /\ \A i \in 1..N : executedAt[i] \in Nat
  /\ \A i \in 1..N : executedAt'[i] = executedAt[i]
  /\ executedAt'[N + 1] = now /\ now' = now /\ now \in Nat

LEMMA AppendIsOneMore ==
  ASSUME RateInv, now' = now, executedAt' = Append(executedAt, now)
  PROVE  OneMore
<1>1. executedAt \in Seq(Nat) /\ now \in Nat
  BY DEF RateInv, Types
<1>2. N \in Nat /\ \A i \in 1..N : executedAt[i] \in Nat
  BY <1>1, LenProperties, ElementOfSeq DEF N
<1>3. /\ N' = N + 1 /\ executedAt' \in Seq(Nat)
      /\ \A i \in 1..N : executedAt'[i] = executedAt[i]
      /\ executedAt'[N + 1] = now
  BY <1>1, AppendProperties DEF N
<1> QED BY <1>1, <1>2, <1>3 DEF OneMore

LEMMA OneMoreTimes ==
  ASSUME RateInv, OneMore
  PROVE  Times'
<1>1. now \in Nat /\ now' = now
  BY DEF OneMore
<1>2. N \in Nat /\ \A i \in 1..N : executedAt[i] \in Nat
  BY DEF OneMore
<1>3. /\ N' = N + 1 /\ executedAt' \in Seq(Nat)
      /\ \A i \in 1..N : executedAt'[i] = executedAt[i]
      /\ executedAt'[N + 1] = now
  BY DEF OneMore
<1>4. \A i, j \in 1..(N + 1) : i <= j => executedAt'[i] <= executedAt'[j]
  <2> SUFFICES ASSUME NEW i \in 1..(N + 1), NEW j \in 1..(N + 1), i <= j
               PROVE  executedAt'[i] <= executedAt'[j]
    OBVIOUS
  <2>1. CASE j \in 1..N
    BY <1>2, <1>3, <2>1 DEF RateInv, Times
  <2>2. CASE j = N + 1 /\ i \in 1..N
    BY <1>3, <2>2 DEF RateInv, Times
  <2>3. CASE j = N + 1 /\ i = N + 1
    BY <1>1, <1>3, <2>3
  <2> QED BY <1>2, <2>1, <2>2, <2>3
<1>5. \A i \in 1..(N + 1) : executedAt'[i] <= now
  <2>1. \A i \in 1..(N + 1) : i \in 1..N \/ i = N + 1
    BY <1>2
  <2>2. \A i \in 1..N : executedAt[i] <= now
    BY DEF RateInv, Times
  <2> QED BY <1>1, <1>3, <2>1, <2>2
<1>6. ASSUME NEW i \in 1..(N + 1)
      PROVE  \E a \in 1..i : /\ executedAt'[a] = executedAt'[i]
                             /\ \A j \in 1..(a - 1) : executedAt'[j] < executedAt'[a]
  <2>1. CASE i \in 1..N
    <3>1. PICK a \in 1..i : /\ executedAt[a] = executedAt[i]
                            /\ \A j \in 1..(a - 1) : executedAt[j] < executedAt[a]
      BY <2>1 DEF RateInv, Times
    <3>2. a \in 1..N /\ \A j \in 1..(a - 1) : j \in 1..N
      BY <1>2, <2>1
    <3> QED BY <1>3, <2>1, <3>1, <3>2
  <2>2. CASE i = N + 1 /\ \E b \in 1..N : executedAt[b] = now
    <3>1. PICK b \in 1..N : executedAt[b] = now
      BY <2>2
    <3>2. PICK a \in 1..b : /\ executedAt[a] = executedAt[b]
                            /\ \A j \in 1..(a - 1) : executedAt[j] < executedAt[a]
      BY DEF RateInv, Times
    <3>3. a \in 1..N /\ a \in 1..i /\ \A j \in 1..(a - 1) : j \in 1..N
      BY <1>2, <2>2
    <3> QED BY <1>3, <2>2, <3>1, <3>2, <3>3
  <2>3. CASE i = N + 1 /\ ~\E b \in 1..N : executedAt[b] = now
    <3>1. \A j \in 1..N : executedAt[j] < now
      BY <1>1, <1>2, <2>3 DEF RateInv, Times
    <3>2. N + 1 \in 1..i /\ (N + 1) - 1 = N
      BY <1>2, <2>3
    <3> QED BY <1>3, <2>3, <3>1, <3>2
  <2> QED BY <1>2, <2>1, <2>2, <2>3
<1> QED BY <1>1, <1>3, <1>4, <1>5, <1>6 DEF Times

\* A command is executed in the window that is open.
LEMMA SameWindowRateInv ==
  ASSUME RateInv, OneMore, now - lastTime <= Window, lastTime' = lastTime,
         commandCount' = commandCount + 1, commandCount' <= Limit
  PROVE  RateInv'
<1>1. /\ Limit \in Nat \ {0} /\ Window \in Nat /\ now \in Nat /\ lastTime \in Nat
      /\ lastTime <= now /\ commandCount \in Nat /\ InWindow = commandCount
      /\ InWindow' = commandCount + 1 /\ commandCount + 1 <= Limit /\ commandCount <= N
  BY LimitAssumption DEF RateInv, Types, InWindow
<1>2. /\ N \in Nat /\ N' = N + 1 /\ executedAt' \in Seq(Nat) /\ Times'
      /\ \A k \in 1..N : executedAt[k] \in Nat /\ executedAt'[k] = executedAt[k]
      /\ executedAt'[N + 1] = now /\ now' = now
  BY OneMoreTimes DEF OneMore
<1>3. Types'
  BY <1>1, <1>2 DEF RateInv, Types
<1>4. \A k \in 1..(N + 1) : executedAt'[k] <= lastTime + Window
  <2>1. \A k \in 1..(N + 1) : k \in 1..N \/ k = N + 1
    BY <1>2
  <2>2. \A k \in 1..N : executedAt[k] <= lastTime + Window
    BY DEF RateInv, Windows
  <2>3. now <= lastTime + Window
    BY <1>1
  <2> QED BY <1>2, <2>1, <2>2, <2>3
<1>5. \A k \in 1..(N - commandCount) : executedAt'[k] < lastTime
  <2>1. \A k \in 1..(N - commandCount) : k \in 1..N /\ executedAt[k] < lastTime
    BY <1>1, <1>2 DEF RateInv, Windows
  <2> QED BY <1>2, <2>1
<1>6. \A k \in 1..(N - commandCount - Limit) : executedAt'[k] + Window < lastTime
  <2>1. \A k \in 1..(N - commandCount - Limit) : k \in 1..N /\ executedAt[k] + Window < lastTime
    BY <1>1, <1>2 DEF RateInv, Windows
  <2> QED BY <1>2, <2>1
<1>7. ASSUME NEW k \in 1..((N + 1) - 2 * Limit)
      PROVE  executedAt'[k] + Window < executedAt'[k + 2 * Limit]
  <2>1. CASE k \in 1..(N - 2 * Limit)
    <3>1. k \in 1..N /\ k + 2 * Limit \in 1..N
      BY <1>1, <1>2, <2>1
    <3> QED BY <1>2, <2>1, <3>1 DEF RateInv, Windows
  <2>2. CASE k = (N + 1) - 2 * Limit
    <3>1. k \in 1..(N - commandCount - Limit) /\ k \in 1..N /\ k + 2 * Limit = N + 1
      BY <1>1, <1>2, <2>2
    <3>2. executedAt'[k] \in Nat /\ executedAt'[k] + Window < lastTime
      BY <1>2, <1>6, <3>1
    <3>3. executedAt'[k] + Window < now
      BY <1>1, <3>2
    <3> QED BY <1>2, <3>1, <3>3
  <2> QED BY <1>1, <1>2, <2>1, <2>2
<1>8. Windows'
  <2>1. N' = N + 1 /\ N' - InWindow' = N - commandCount
    BY <1>1, <1>2
  <2> QED BY <1>4, <1>5, <1>6, <1>7, <2>1 DEF Windows
<1> QED BY <1>2, <1>3, <1>8 DEF RateInv

\* A command is executed in a window that it opens.
LEMMA NewWindowRateInv ==
  ASSUME RateInv, OneMore, now - lastTime > Window, lastTime' = now, commandCount' = 1
  PROVE  RateInv'
<1>1. /\ Limit \in Nat \ {0} /\ Window \in Nat /\ now \in Nat /\ lastTime \in Nat
      /\ InWindow' = 1 /\ InWindow \in 0..Limit /\ InWindow <= N
  BY LimitAssumption DEF RateInv, Types, InWindow
<1>2. /\ N \in Nat /\ N' = N + 1 /\ executedAt' \in Seq(Nat) /\ Times'
      /\ \A k \in 1..N : executedAt[k] \in Nat /\ executedAt'[k] = executedAt[k]
      /\ executedAt'[N + 1] = now /\ now' = now
  BY OneMoreTimes DEF OneMore
<1>3. Types'
  BY <1>1, <1>2 DEF RateInv, Types
<1>4. \A k \in 1..N : executedAt'[k] < now
  <2>1. \A k \in 1..N : executedAt[k] <= lastTime + Window
    BY DEF RateInv, Windows
  <2>2. lastTime + Window < now
    BY <1>1
  <2>3. ASSUME NEW k \in 1..N PROVE executedAt'[k] < now
    <3>1. executedAt'[k] \in Nat /\ executedAt'[k] <= lastTime + Window
      BY <1>2, <2>1
    <3> QED BY <1>1, <2>2, <3>1
  <2> QED BY <2>3
<1>5. ASSUME NEW k \in 1..(N + 1) PROVE executedAt'[k] <= now + Window
  <2>1. CASE k \in 1..N
    <3>1. executedAt'[k] \in Nat /\ executedAt'[k] < now
      BY <1>2, <1>4, <2>1
    <3> QED BY <1>1, <3>1
  <2>2. CASE k = N + 1
    BY <1>1, <1>2, <2>2
  <2> QED BY <1>2, <2>1, <2>2
<1>6. ASSUME NEW k \in 1..(N - Limit) PROVE executedAt'[k] + Window < now
  <2>1. k \in 1..N /\ k \in 1..(N - InWindow)
    BY <1>1, <1>2
  <2>2. executedAt'[k] \in Nat /\ executedAt'[k] < lastTime
    BY <1>2, <2>1 DEF RateInv, Windows
  <2> QED BY <1>1, <2>2
<1>7. ASSUME NEW k \in 1..((N + 1) - 2 * Limit)
      PROVE  executedAt'[k] + Window < executedAt'[k + 2 * Limit]
  <2>1. CASE k \in 1..(N - 2 * Limit)
    <3>1. k \in 1..N /\ k + 2 * Limit \in 1..N
      BY <1>1, <1>2, <2>1
    <3> QED BY <1>2, <2>1, <3>1 DEF RateInv, Windows
  <2>2. CASE k = (N + 1) - 2 * Limit
    <3>1. k \in 1..(N - Limit) /\ k + 2 * Limit = N + 1
      BY <1>1, <1>2, <2>2
    <3> QED BY <1>2, <1>6, <3>1
  <2> QED BY <1>1, <1>2, <2>1, <2>2
<1>8. Windows'
  <2>1. N' - InWindow' = N /\ N' - InWindow' - Limit = N - Limit /\ N' = N + 1
    BY <1>1, <1>2
  <2> QED BY <1>4, <1>5, <1>6, <1>7, <2>1 DEF Windows
<1> QED BY <1>2, <1>3, <1>8 DEF RateInv

LEMMA NextRateInv == RateInv /\ [Next]_vars => RateInv'
<1> SUFFICES ASSUME RateInv, [Next]_vars PROVE RateInv'
  OBVIOUS
<1>1. CASE Opened
  BY <1>1, OpenedRateInv
<1>2. CASE Tick
  BY <1>2, QuietRateInv DEF Tick, rateVars
<1>3. CASE SendCommand \/ Received \/ Closed \/ Reconnect \/ Unmount
  BY <1>3, QuietRateInv DEF SendCommand, Received, Closed, Reconnect, Unmount, rateVars
<1>4. CASE Publish \/ Break \/ ServerBack \/ CloseHandshake
  BY <1>4, QuietRateInv DEF Publish, Break, ServerBack, CloseHandshake, rateVars
<1>5. CASE UNCHANGED vars
  BY <1>5, QuietRateInv DEF vars, rateVars
<1>6. CASE Handle
  <2>1. /\ now' = now
        /\ IF commandCount' > Limit THEN UNCHANGED executedAt
           ELSE executedAt' = Append(executedAt, now)
    BY <1>6 DEF Handle
  <2>2. CASE now - lastTime > Window
    <3>1. commandCount' = 1 /\ lastTime' = now
      BY <1>6, <2>2 DEF Handle, NextWindow
    <3>2. executedAt' = Append(executedAt, now)
      BY <2>1, <3>1, LimitAssumption
    <3> QED BY <2>1, <2>2, <3>1, <3>2, AppendIsOneMore, NewWindowRateInv
  <2>3. CASE ~(now - lastTime > Window)
    <3>1. commandCount' = commandCount + 1 /\ lastTime' = lastTime
      BY <1>6, <2>3 DEF Handle, NextWindow
    <3>2. commandCount' \in Nat /\ now - lastTime <= Window
      BY <2>3, <3>1, LimitAssumption DEF RateInv, Types
    <3>3. CASE commandCount' > Limit
      BY <2>1, <3>1, <3>3, RefusedRateInv
    <3>4. CASE commandCount' <= Limit
      <4>1. executedAt' = Append(executedAt, now)
        BY <2>1, <3>2, <3>4, LimitAssumption
      <4> QED BY <2>1, <3>1, <3>2, <3>4, <4>1, AppendIsOneMore, SameWindowRateInv
    <3> QED BY <3>2, <3>3, <3>4, LimitAssumption
  <2> QED BY <2>2, <2>3
<1> QED BY <1>1, <1>2, <1>3, <1>4, <1>5, <1>6 DEF Next

-----------------------------------------------------------------------------
\* In no span of the length of one window does a connection execute more than
\* two windows' worth: counted from the first command of the span, the one two
\* limits later is outside.
THEOREM RateBoundHolds == Spec => []RateBound
<1>1. RateInv => RateBound
  <2> SUFFICES ASSUME RateInv, NEW i \in DOMAIN executedAt
               PROVE  Cardinality({j \in DOMAIN executedAt :
                        executedAt[j] \in executedAt[i]..executedAt[i] + Window}) <= 2 * Limit
    BY DEF RateBound
  <2> DEFINE span == {j \in DOMAIN executedAt :
                        executedAt[j] \in executedAt[i]..executedAt[i] + Window}
  <2>1. /\ executedAt \in Seq(Nat) /\ N \in Nat /\ DOMAIN executedAt = 1..N
        /\ \A j \in 1..N : executedAt[j] \in Nat
        /\ Limit \in Nat \ {0} /\ Window \in Nat
    BY LenProperties, ElementOfSeq, LimitAssumption DEF RateInv, Types, N
  <2>2. PICK a \in 1..i : /\ executedAt[a] = executedAt[i]
                          /\ \A j \in 1..(a - 1) : executedAt[j] < executedAt[a]
    BY <2>1 DEF RateInv, Times
  <2>3. a \in 1..N
    BY <2>1
  <2>4. ASSUME NEW j \in span
        PROVE  j \in a..(a + 2 * Limit - 1)
    <3>1. /\ j \in 1..N /\ executedAt[a] <= executedAt[j]
          /\ executedAt[j] <= executedAt[a] + Window
      BY <2>1, <2>2, <2>4
    <3>2. j >= a
      BY <2>1, <2>2, <2>3, <3>1
    <3>3. ASSUME j >= a + 2 * Limit PROVE FALSE
      <4>1. a + 2 * Limit \in 1..N /\ a \in 1..(N - 2 * Limit)
        BY <2>1, <2>3, <3>1, <3>3
      <4>2. executedAt[a] + Window < executedAt[a + 2 * Limit]
        BY <4>1 DEF RateInv, Windows
      <4>3. executedAt[a + 2 * Limit] <= executedAt[j]
        BY <3>1, <3>3, <4>1 DEF RateInv, Times
      <4> QED BY <2>1, <2>3, <3>1, <4>1, <4>2, <4>3
    <3> QED BY <2>1, <2>3, <3>1, <3>2, <3>3
  <2>5. /\ IsFiniteSet(a..(a + 2 * Limit - 1))
        /\ Cardinality(a..(a + 2 * Limit - 1)) = 2 * Limit
    <3>1. /\ a \in Int /\ a + 2 * Limit - 1 \in Int /\ a <= a + 2 * Limit - 1
          /\ (a + 2 * Limit - 1) - a + 1 = 2 * Limit
      BY <2>1, <2>3
    <3> QED BY <3>1, FS_Interval
  <2> HIDE DEF span
  <2>6. Cardinality(span) <= 2 * Limit
    BY <2>4, <2>5, FS_Subset
  <2> QED BY <2>6 DEF span
<1> QED BY <1>1, InitRateInv, NextRateInv, PTL DEF Spec

-----------------------------------------------------------------------------
(***************************************************************************)
(* Whose reply a command shows.  Replies are told by their order alone, so *)
(* the invariant is a count: behind a lone command that still waits, no    *)
(* more replies are under way than later commands wait to take them.       *)
(***************************************************************************)
Flying   == InFlight \ {Pushed}
Later(i) == {k \in DOMAIN history : k > i /\ IsPending(k)}

Numbers == 1..Len(history)

LinkTypes ==
  /\ history \in Seq([reply : Int, alone : BOOLEAN])
  /\ up \in Seq(Numbers) /\ down \in Seq(Numbers \cup {Pushed})

\* A command is under way in one place, on its way up or as a reply.
Once ==
  /\ \A a, b \in DOMAIN up : up[a] = up[b] => a = b
  /\ \A a, b \in DOMAIN down : down[a] = down[b] /\ down[a] # Pushed => a = b
  /\ \A a \in DOMAIN up, b \in DOMAIN down : up[a] # down[b]

Awaited(i) ==
  /\ \A j \in Flying : j >= i
  /\ i \in Flying => Later(i) = {}
  /\ Cardinality(Flying \ {i}) <= Cardinality(Later(i))

LoneAwaited == \A i \in Numbers : history[i].alone /\ IsPending(i) => Awaited(i)

ReplyInv == LinkTypes /\ Once /\ LoneAwaited /\ OwnReply

\* A set of naturals that is not empty has a least element.
LEMMA LeastNatural ==
  ASSUME NEW T, T \subseteq Nat, T # {}
  PROVE  \E x \in T : \A y \in T : x <= y
<1>1. PICK x \in T : \A y \in T : <<y, x>> \notin OpToRel(<, Nat)
  BY NatLessThanWellFounded, WFMin
<1>2. \A y \in T : ~(y < x)
  BY <1>1, T \subseteq Nat DEF OpToRel
<1> QED
  BY <1>2, T \subseteq Nat

\* The greatest of some of the numbers up to n.
LEMMA MaxProperties ==
  ASSUME NEW n \in Nat, NEW T, T \subseteq 1..n, T # {}
  PROVE  Max(T) \in T /\ \A y \in T : Max(T) >= y
<1> DEFINE below == {n - x : x \in T}
<1>1. below \subseteq Nat /\ below # {}
  <2>1. \A x \in T : n - x \in Nat
    OBVIOUS
  <2> QED BY <2>1
<1>2. PICK d \in below : \A e \in below : d <= e
  <2> HIDE DEF below
  <2> QED BY <1>1, LeastNatural
<1>3. PICK x \in T : d = n - x
  BY <1>2
<1>4. \A y \in T : x >= y
  <2> SUFFICES ASSUME NEW y \in T PROVE x >= y
    OBVIOUS
  <2>1. n - x <= n - y
    BY <1>2, <1>3
  <2> QED BY <2>1
<1> QED BY <1>4 DEF Max

\* What is under way are numbers of commands, and finitely many.
LEMMA LinkFacts ==
  ASSUME LinkTypes
  PROVE  /\ Len(history) \in Nat /\ DOMAIN history = Numbers
         /\ \A i \in Numbers : history[i] \in [reply : Int, alone : BOOLEAN]
         /\ DOMAIN up = 1..Len(up) /\ Len(up) \in Nat
         /\ DOMAIN down = 1..Len(down) /\ Len(down) \in Nat
         /\ \A a \in DOMAIN up : up[a] \in Numbers
         /\ \A b \in DOMAIN down : down[b] \in Numbers \cup {Pushed}
         /\ Flying \subseteq Numbers /\ IsFiniteSet(Flying)
         /\ \A i : Later(i) \subseteq Numbers /\ IsFiniteSet(Later(i))
<1>1. /\ Len(history) \in Nat /\ DOMAIN history = Numbers
      /\ DOMAIN up = 1..Len(up) /\ Len(up) \in Nat
      /\ DOMAIN down = 1..Len(down) /\ Len(down) \in Nat
  BY LenProperties DEF LinkTypes, Numbers
<1>2. /\ \A i \in Numbers : history[i] \in [reply : Int, alone : BOOLEAN]
      /\ \A a \in DOMAIN up : up[a] \in Numbers
      /\ \A b \in DOMAIN down : down[b] \in Numbers \cup {Pushed}
  <2>1. \A i \in 1..Len(history) : history[i] \in [reply : Int, alone : BOOLEAN]
    BY ElementOfSeq DEF LinkTypes
  <2>2. \A a \in 1..Len(up) : up[a] \in Numbers
    BY ElementOfSeq DEF LinkTypes
  <2>3. \A b \in 1..Len(down) : down[b] \in Numbers \cup {Pushed}
    BY ElementOfSeq DEF LinkTypes
  <2> QED BY <1>1, <2>1, <2>2, <2>3 DEF Numbers
<1>3. Flying \subseteq Numbers
  BY <1>2 DEF Flying, InFlight, ToSet
<1>4. IsFiniteSet(Numbers)
  BY <1>1, FS_Interval DEF Numbers
<1>5. \A i : Later(i) \subseteq Numbers
  BY <1>1 DEF Later
<1>6. IsFiniteSet(Flying) /\ \A i : IsFiniteSet(Later(i))
  BY <1>3, <1>4, <1>5, FS_Subset
<1> QED BY <1>1, <1>2, <1>3, <1>5, <1>6

LEMMA InitReplyInv == Init => ReplyInv
<1> SUFFICES ASSUME Init PROVE ReplyInv
  OBVIOUS
<1>1. history = <<>> /\ up = <<>> /\ down = <<>> /\ Numbers = {}
  BY EmptySeq DEF Init, Numbers
<1>2. DOMAIN history = {} /\ DOMAIN up = {} /\ DOMAIN down = {}
  BY <1>1
<1>3. LinkTypes
  BY <1>1, EmptySeq DEF LinkTypes
<1>4. Once /\ OwnReply /\ LoneAwaited
  BY <1>1, <1>2 DEF Once, OwnReply, LoneAwaited
<1> QED BY <1>3, <1>4 DEF ReplyInv

\* With fewer replies under way, each lone command is as safe as before.
LEMMA FewerReplyInv ==
  ASSUME ReplyInv, history' = history, LinkTypes', Once', Flying' \subseteq Flying
  PROVE  ReplyInv'
<1>1. Numbers' = Numbers /\ \A i : IsPending(i)' = IsPending(i) /\ Later(i)' = Later(i)
  BY DEF Numbers, IsPending, Later
<1>2. OwnReply'
  BY DEF ReplyInv, OwnReply
<1>3. ASSUME NEW i \in Numbers, history[i].alone, IsPending(i)
      PROVE  Awaited(i)'
  <2>1. Awaited(i)
    BY <1>3 DEF ReplyInv, LoneAwaited
  <2>2. IsFiniteSet(Flying \ {i}) /\ IsFiniteSet(Later(i))
    BY LinkFacts, FS_RemoveElement DEF ReplyInv
  <2>3. IsFiniteSet(Flying' \ {i}) /\ Cardinality(Flying' \ {i}) <= Cardinality(Flying \ {i})
    BY <2>2, FS_Subset
  <2>4. Cardinality(Flying' \ {i}) <= Cardinality(Later(i))
    BY <2>1, <2>2, <2>3, FS_CardinalityType DEF Awaited
  <2> QED BY <1>1, <2>1, <2>4 DEF Awaited
<1>4. LoneAwaited'
  BY <1>1, <1>3 DEF LoneAwaited
<1> QED BY <1>2, <1>4 DEF ReplyInv

LEMMA SameReplyInv ==
  ASSUME ReplyInv, UNCHANGED <<history, up, down>>
  PROVE  ReplyInv'
<1>1. LinkTypes' /\ Once' /\ Flying' = Flying
  BY DEF ReplyInv, LinkTypes, Numbers, Once, Flying, InFlight
<1> QED BY <1>1, FewerReplyInv

\* A connection that ends or begins has nothing under way.
LEMMA EmptiedReplyInv ==
  ASSUME ReplyInv, history' = history, up' = <<>>, down' = <<>>
  PROVE  ReplyInv'
<1>1. LinkTypes'
  BY EmptySeq DEF ReplyInv, LinkTypes, Numbers
<1>2. DOMAIN up' = {} /\ DOMAIN down' = {}
  BY EmptySeq
<1>3. Once' /\ Flying' = {}
  BY <1>2 DEF Once, Flying, InFlight, ToSet
<1> QED BY <1>1, <1>3, FewerReplyInv

\* A message is published.
LEMMA PublishReplyInv == ReplyInv /\ Publish => ReplyInv'
<1> SUFFICES ASSUME ReplyInv, Publish PROVE ReplyInv'
  OBVIOUS
<1>1. history' = history /\ up' = up /\ down' = Append(down, Pushed)
  BY DEF Publish, pageVars
<1>2. /\ Len(down) \in Nat /\ DOMAIN down = 1..Len(down) /\ down \in Seq(Numbers \cup {Pushed})
  BY LinkFacts DEF ReplyInv, LinkTypes
<1>3. /\ down' \in Seq(Numbers \cup {Pushed}) /\ DOMAIN down' = 1..(Len(down) + 1)
      /\ down'[Len(down) + 1] = Pushed
      /\ \A b \in DOMAIN down : down'[b] = down[b]
  <2>1. Pushed \in Numbers \cup {Pushed}
    OBVIOUS
  <2> HIDE DEF Numbers, Pushed
  <2> QED BY <1>1, <1>2, <2>1, AppendProperties
<1>4. Numbers' = Numbers
  BY <1>1 DEF Numbers
<1>5. LinkTypes'
  BY <1>1, <1>3, <1>4 DEF ReplyInv, LinkTypes
<1>6. \A b \in DOMAIN down' : b \in DOMAIN down \/ down'[b] = Pushed
  BY <1>2, <1>3
<1>7. \A a \in DOMAIN up : up[a] # Pushed
  BY LinkFacts DEF ReplyInv, Pushed, Numbers
<1>8. Once'
  <2>1. ASSUME NEW a \in DOMAIN down', NEW b \in DOMAIN down',
               down'[a] = down'[b], down'[a] # Pushed
        PROVE  a = b
    BY <1>3, <1>6, <2>1 DEF ReplyInv, Once
  <2>2. ASSUME NEW a \in DOMAIN up, NEW b \in DOMAIN down' PROVE up[a] # down'[b]
    BY <1>3, <1>6, <1>7 DEF ReplyInv, Once
  <2> QED BY <1>1, <2>1, <2>2 DEF ReplyInv, Once
<1>9. Flying' = Flying
  BY <1>1, <1>2, <1>3, <1>6 DEF Flying, InFlight, ToSet
<1> QED BY <1>1, <1>5, <1>8, <1>9, FewerReplyInv

\* A message that goes up comes down again as its reply.
LEMMA HandleReplyInv == ReplyInv /\ Handle => ReplyInv'
<1> SUFFICES ASSUME ReplyInv, Handle PROVE ReplyInv'
  OBVIOUS
<1> DEFINE h == Head(up)
           n == Len(down)
<1>1. history' = history /\ up # <<>> /\ up' = Tail(up) /\ down' = Append(down, h)
  BY DEF Handle, pageVars
<1>2. /\ n \in Nat /\ DOMAIN down = 1..n /\ down \in Seq(Numbers \cup {Pushed})
      /\ Len(up) \in Nat /\ DOMAIN up = 1..Len(up) /\ up \in Seq(Numbers)
      /\ \A a \in DOMAIN up : up[a] \in Numbers
  BY LinkFacts DEF ReplyInv, LinkTypes
<1>3. /\ up' \in Seq(Numbers) /\ Len(up') = Len(up) - 1
      /\ \A a \in 1..Len(up') : up'[a] = up[a + 1]
      /\ h \in Numbers /\ h = up[1] /\ 1 \in DOMAIN up
  BY <1>1, <1>2, HeadTailProperties, EmptySeq
<1>4. DOMAIN up' = 1..(Len(up) - 1)
  BY <1>3, LenProperties
<1>5. /\ down' \in Seq(Numbers \cup {Pushed}) /\ DOMAIN down' = 1..(n + 1)
      /\ down'[n + 1] = h
      /\ \A b \in DOMAIN down : down'[b] = down[b]
  <2>1. h \in Numbers \cup {Pushed}
    BY <1>3
  <2> HIDE DEF Numbers, Pushed, h
  <2> QED BY <1>1, <1>2, <2>1, AppendProperties
<1>6. LinkTypes'
  <2>1. Numbers' = Numbers
    BY <1>1 DEF Numbers
  <2> QED BY <1>1, <1>3, <1>5, <2>1 DEF ReplyInv, LinkTypes
<1> HIDE DEF h
<1>7. \A a \in DOMAIN up' : a + 1 \in DOMAIN up /\ up'[a] = up[a + 1] /\ a + 1 # 1
  BY <1>2, <1>3, <1>4
<1>8. \A b \in DOMAIN down' : b \in DOMAIN down \/ b = n + 1
  BY <1>2, <1>5
<1>9. Once'
  <2>1. ASSUME NEW a \in DOMAIN up', NEW b \in DOMAIN up', up'[a] = up'[b] PROVE a = b
    <3>1. a + 1 = b + 1
      BY <1>7, <2>1 DEF ReplyInv, Once
    <3> QED BY <1>4, <3>1
  <2>2. ASSUME NEW a \in DOMAIN down', NEW b \in DOMAIN down',
               down'[a] = down'[b], down'[a] # Pushed
        PROVE  a = b
    <3>1. \A c \in DOMAIN down : down[c] # h
      BY <1>3 DEF ReplyInv, Once
    <3> QED BY <1>5, <1>8, <2>2, <3>1 DEF ReplyInv, Once
  <2>3. ASSUME NEW a \in DOMAIN up', NEW b \in DOMAIN down' PROVE up'[a] # down'[b]
    <3>1. up'[a] = up[a + 1] /\ a + 1 \in DOMAIN up /\ a + 1 # 1
      BY <1>7
    <3>2. CASE b \in DOMAIN down
      BY <1>5, <3>1, <3>2 DEF ReplyInv, Once
    <3>3. CASE b = n + 1
      BY <1>3, <1>5, <3>1, <3>3 DEF ReplyInv, Once
    <3> QED BY <1>8, <3>2, <3>3
  <2> QED BY <2>1, <2>2, <2>3 DEF Once
<1>10. Flying' \subseteq Flying
  <2> SUFFICES ASSUME NEW j \in Flying' PROVE j \in Flying
    OBVIOUS
  <2>1. j # Pushed /\ (\/ \E a \in DOMAIN up' : j = up'[a]
                       \/ \E b \in DOMAIN down' : j = down'[b])
    BY DEF Flying, InFlight, ToSet
  <2>2. (\E a \in DOMAIN up : j = up[a]) \/ (\E b \in DOMAIN down : j = down[b])
    BY <1>3, <1>5, <1>7, <1>8, <2>1
  <2> QED BY <2>1, <2>2 DEF Flying, InFlight, ToSet
<1> QED BY <1>1, <1>6, <1>9, <1>10, FewerReplyInv

\* A command entered while no connection is open is answered at once, and one
\* that is sent is lone only if nothing was under way.
LEMMA SendReplyInv == ReplyInv /\ SendCommand => ReplyInv'
<1> SUFFICES ASSUME ReplyInv, SendCommand PROVE ReplyInv'
  OBVIOUS
<1>0. PICK n \in Nat : n = Len(history)
  BY LinkFacts DEF ReplyInv
<1> DEFINE new == n + 1
           flying == IF socket = "open" THEN InFlight ELSE {}
           reply == IF socket = "open" THEN Pending ELSE Offline
           old == [i \in DOMAIN history |-> [history[i] EXCEPT !.alone = @ /\ i \notin flying]]
           entry == [reply |-> reply, alone |-> flying = {}]
<1>1. /\ down' = down /\ up' = IF socket = "open" THEN Append(up, new) ELSE up
      /\ history' = Append(old, entry)
  BY <1>0 DEF SendCommand, Entered
<1>2. /\ n \in Nat /\ DOMAIN history = 1..n /\ Numbers = 1..n
      /\ \A i \in 1..n : history[i] \in [reply : Int, alone : BOOLEAN]
      /\ up \in Seq(Numbers) /\ DOMAIN up = 1..Len(up) /\ Len(up) \in Nat
      /\ DOMAIN down = 1..Len(down) /\ down \in Seq(Numbers \cup {Pushed})
      /\ \A a \in DOMAIN up : up[a] \in 1..n
      /\ \A b \in DOMAIN down : down[b] \in 1..n \cup {Pushed}
  BY <1>0, LinkFacts DEF ReplyInv, LinkTypes, Numbers
<1>3. /\ old \in Seq([reply : Int, alone : BOOLEAN]) /\ Len(old) = n
      /\ \A i \in 1..n : /\ old[i].reply = history[i].reply
                         /\ old[i].alone => history[i].alone /\ i \notin flying
  <2>1. \A i \in 1..n : /\ old[i] \in [reply : Int, alone : BOOLEAN]
                        /\ old[i].reply = history[i].reply
                        /\ old[i].alone => history[i].alone /\ i \notin flying
    BY <1>2
  <2>2. DOMAIN old = 1..n /\ old = [i \in 1..n |-> old[i]]
    BY <1>2
  <2> HIDE DEF old
  <2>3. old \in [1..n -> [reply : Int, alone : BOOLEAN]]
    BY <2>1, <2>2
  <2>4. old \in Seq([reply : Int, alone : BOOLEAN])
    BY <2>3, SeqDef
  <2> QED BY <2>1, <2>2, <2>4, LenProperties
<1>4. entry \in [reply : Int, alone : BOOLEAN]
  BY DEF Pending, Offline
<1>5. /\ history' \in Seq([reply : Int, alone : BOOLEAN]) /\ Len(history') = n + 1
      /\ history'[new] = entry
      /\ \A i \in 1..n : history'[i] = old[i]
  <2> HIDE DEF old, entry
  <2> QED BY <1>1, <1>2, <1>3, <1>4, AppendProperties
<1>6. Numbers' = 1..(n + 1) /\ DOMAIN history' = 1..(n + 1)
  BY <1>2, <1>5, LenProperties DEF Numbers
<1>7. /\ \A i \in 1..n : /\ IsPending(i)' = IsPending(i)
                         /\ history'[i].reply = history[i].reply
                         /\ history'[i].alone => history[i].alone /\ i \notin flying
      /\ history'[new].reply = reply
      /\ history'[new].alone => flying = {}
  <2>1. entry.reply = reply /\ (entry.alone => flying = {})
    OBVIOUS
  <2> HIDE DEF entry, old, flying, reply
  <2>2. \A i \in 1..n : history'[i] = old[i] /\ old[i].reply = history[i].reply
    BY <1>3, <1>5
  <2> QED BY <1>3, <1>5, <2>1, <2>2 DEF IsPending
<1> HIDE DEF old, entry
<1>8. OwnReply'
  <2> SUFFICES ASSUME NEW i \in 1..(n + 1), history'[i].alone
               PROVE  history'[i].reply \in {i, Pending, Offline}
    BY <1>6 DEF OwnReply
  <2>1. CASE i \in 1..n
    BY <1>2, <1>7, <2>1 DEF ReplyInv, OwnReply
  <2>2. CASE i = new
    <3>1. reply \in {Pending, Offline}
      OBVIOUS
    <3> QED BY <1>7, <2>2, <3>1
  <2> QED BY <1>2, <2>1, <2>2
<1>9. CASE socket # "open"
  <2>1. up' = up /\ down' = down /\ Flying' = Flying /\ reply = Offline
    BY <1>1, <1>9 DEF Flying, InFlight
  <2>2. LinkTypes'
    <3>1. up' \in Seq(Numbers') /\ down' \in Seq(Numbers' \cup {Pushed})
      <4>1. \A a \in 1..Len(up) : up[a] \in Numbers'
        BY <1>2, <1>6
      <4>2. \A b \in 1..Len(down) : down[b] \in Numbers' \cup {Pushed}
        BY <1>2, <1>6
      <4> QED BY <1>2, <2>1, <4>1, <4>2, SeqDef, LenProperties
    <3> QED BY <1>5, <3>1 DEF LinkTypes
  <2>3. Once'
    BY <2>1 DEF ReplyInv, Once
  <2>4. ASSUME NEW i \in Numbers', history'[i].alone, IsPending(i)'
        PROVE  Awaited(i)'
    <3>1. i \in 1..n
      <4>1. i # new
        BY <1>7, <2>1, <2>4 DEF IsPending, Pending, Offline
      <4> QED BY <1>2, <1>6, <4>1
    <3>2. Awaited(i)
      BY <1>2, <1>7, <2>4, <3>1 DEF ReplyInv, LoneAwaited
    <3>3. Later(i)' = Later(i)
      <4>1. \A k \in 1..(n + 1) : IsPending(k)' => k \in 1..n /\ IsPending(k)
        BY <1>2, <1>7, <2>1 DEF IsPending, Pending, Offline
      <4>2. 1..n \subseteq 1..(n + 1)
        BY <1>2
      <4> QED BY <1>2, <1>6, <1>7, <4>1, <4>2 DEF Later
    <3> QED BY <2>1, <3>2, <3>3 DEF Awaited
  <2>5. LoneAwaited'
    BY <2>4 DEF LoneAwaited
  <2> QED BY <1>8, <2>2, <2>3, <2>5 DEF ReplyInv
<1>10. CASE socket = "open"
  <2>1. down' = down /\ up' = Append(up, new) /\ reply = Pending /\ flying = InFlight
    BY <1>1, <1>10
  <2>2. /\ up' \in Seq(Numbers') /\ DOMAIN up' = 1..(Len(up) + 1)
        /\ up'[Len(up) + 1] = new
        /\ \A a \in DOMAIN up : up'[a] = up[a]
    <3>1. up \in Seq(Numbers') /\ new \in Numbers'
      <4>1. \A a \in 1..Len(up) : up[a] \in Numbers'
        BY <1>2, <1>6
      <4> QED BY <1>2, <1>6, <4>1, SeqDef, LenProperties
    <3> HIDE DEF new
    <3> QED BY <1>2, <2>1, <3>1, AppendProperties, LenProperties
  <2>3. LinkTypes'
    <3>1. \A b \in 1..Len(down) : down[b] \in Numbers' \cup {Pushed}
      BY <1>2, <1>6
    <3>2. down' \in Seq(Numbers' \cup {Pushed})
      BY <1>2, <2>1, <3>1, SeqDef, LenProperties
    <3> QED BY <1>5, <2>2, <3>2 DEF LinkTypes
  <2>4. \A a \in DOMAIN up' : a \in DOMAIN up \/ a = Len(up) + 1
    BY <1>2, <2>2
  <2>5. new \notin 1..n /\ new # Pushed /\ \A j \in 1..n : new >= j
    BY <1>2 DEF Pushed
  <2>6. Once'
    <3>1. ASSUME NEW a \in DOMAIN up', NEW b \in DOMAIN up', up'[a] = up'[b] PROVE a = b
      <4> HIDE DEF new
      <4> QED BY <1>2, <2>2, <2>4, <2>5, <3>1 DEF ReplyInv, Once
    <3>2. ASSUME NEW a \in DOMAIN up', NEW b \in DOMAIN down PROVE up'[a] # down[b]
      <4>1. down[b] # new
        BY <1>2, <2>5
      <4> HIDE DEF new
      <4> QED BY <2>2, <2>4, <4>1 DEF ReplyInv, Once
    <3> QED BY <2>1, <3>1, <3>2 DEF ReplyInv, Once
  <2>7. Flying' = Flying \cup {new} /\ new \notin Flying
    <3>1. new \notin Flying
      BY LinkFacts, <1>2, <2>5 DEF ReplyInv
    <3>2. ToSet(up)' = ToSet(up) \cup {new}
      <4>1. Len(up) + 1 \in DOMAIN up' /\ DOMAIN up \subseteq DOMAIN up'
        BY <1>2, <2>2
      <4> HIDE DEF new
      <4> QED BY <2>2, <2>4, <4>1 DEF ToSet
    <3>3. ToSet(down)' = ToSet(down)
      BY <2>1
    <3> QED BY <2>5, <3>1, <3>2, <3>3 DEF Flying, InFlight
  <2>8. ASSUME NEW i \in 1..n
        PROVE  Later(i)' = Later(i) \cup {new} /\ new \notin Later(i)
    <3>1. IsPending(new)' /\ new > i /\ new \in 1..(n + 1) /\ new \notin 1..n
      BY <1>2, <1>7, <2>1 DEF IsPending
    <3>2. \A k \in 1..(n + 1) : k \in 1..n \/ k = new
      BY <1>2
    <3>3. \A k \in 1..n : k \in 1..(n + 1)
      BY <1>2
    <3> HIDE DEF new
    <3> QED BY <1>2, <1>6, <1>7, <3>1, <3>2, <3>3 DEF Later
  <2> HIDE DEF new
  <2>9. ASSUME NEW i \in Numbers', history'[i].alone, IsPending(i)'
        PROVE  Awaited(i)'
    <3>1. CASE i \in 1..n
      <4>1. i \notin Flying /\ Awaited(i)
        <5>1. i \notin InFlight /\ history[i].alone /\ IsPending(i)
          BY <1>7, <2>1, <2>9, <3>1
        <5> QED BY <1>2, <3>1, <5>1 DEF ReplyInv, LoneAwaited, Flying
      <4>2. i # new /\ i \notin Flying' /\ Flying' \ {i} = (Flying \ {i}) \cup {new}
        BY <2>5, <2>7, <3>1, <4>1
      <4>3. IsFiniteSet(Flying \ {i}) /\ IsFiniteSet(Later(i))
        BY LinkFacts, FS_RemoveElement DEF ReplyInv
      <4>4. /\ Cardinality(Flying' \ {i}) = Cardinality(Flying \ {i}) + 1
            /\ Cardinality(Later(i)') = Cardinality(Later(i)) + 1
        BY <2>7, <2>8, <3>1, <4>2, <4>3, FS_AddElement
      <4>5. Cardinality(Flying' \ {i}) <= Cardinality(Later(i)')
        BY <4>1, <4>3, <4>4, FS_CardinalityType DEF Awaited
      <4>6. \A j \in Flying' : j >= i
        BY <2>5, <2>7, <3>1, <4>1 DEF Awaited
      <4> QED BY <4>2, <4>5, <4>6 DEF Awaited
    <3>2. CASE i = new
      <4>1. Flying = {}
        BY <1>7, <2>1, <2>9, <3>2 DEF Flying
      <4>2. Flying' = {new}
        BY <2>7, <4>1
      <4>3. Later(new)' = {}
        <5>1. \A k \in 1..(n + 1) : ~(k > new)
          BY <1>2 DEF new
        <5> QED BY <1>6, <5>1 DEF Later
      <4>4. new >= new
        BY <1>2 DEF new
      <4>5. Cardinality({new} \ {new}) <= Cardinality({})
        <5>1. {new} \ {new} = {}
          OBVIOUS
        <5> QED BY <5>1, FS_EmptySet
      <4> QED BY <3>2, <4>2, <4>3, <4>4, <4>5 DEF Awaited
    <3>3. i \in 1..n \/ i = new
      BY <1>2, <1>6 DEF new
    <3> QED BY <3>1, <3>2, <3>3
  <2>10. LoneAwaited'
    BY <2>9 DEF LoneAwaited
  <2> QED BY <1>8, <2>3, <2>6, <2>10 DEF ReplyInv
<1> QED BY <1>9, <1>10

\* A reply arrives, or a message that is taken for one.
LEMMA ReceivedReplyInv == ReplyInv /\ Received => ReplyInv'
<1> SUFFICES ASSUME ReplyInv, Received PROVE ReplyInv'
  OBVIOUS
<1>0. PICK n \in Nat : n = Len(history)
  BY LinkFacts DEF ReplyInv
<1> DEFINE h == Head(down)
<1>1. up' = up /\ down # <<>> /\ down' = Tail(down)
      /\ IF mounted THEN Attach(h) ELSE history' = history
  BY DEF Received
<1>2. /\ n \in Nat /\ DOMAIN history = 1..n /\ Numbers = 1..n
      /\ \A i \in 1..n : history[i] \in [reply : Int, alone : BOOLEAN]
      /\ up \in Seq(Numbers) /\ DOMAIN up = 1..Len(up)
      /\ DOMAIN down = 1..Len(down) /\ Len(down) \in Nat /\ down \in Seq(Numbers \cup {Pushed})
      /\ IsFiniteSet(Flying) /\ \A i : IsFiniteSet(Later(i))
  BY <1>0, LinkFacts DEF ReplyInv, LinkTypes, Numbers
<1>3. /\ down' \in Seq(Numbers \cup {Pushed}) /\ Len(down') = Len(down) - 1
      /\ \A b \in 1..Len(down') : down'[b] = down[b + 1]
      /\ h \in Numbers \cup {Pushed} /\ h = down[1] /\ 1 \in DOMAIN down
  BY <1>1, <1>2, HeadTailProperties, EmptySeq
<1>4. /\ DOMAIN down' = 1..(Len(down) - 1)
      /\ \A b \in DOMAIN down' : b + 1 \in DOMAIN down /\ b + 1 # 1 /\ down'[b] = down[b + 1]
  BY <1>2, <1>3, LenProperties
<1> HIDE DEF h
<1>5. Once'
  <2>1. ASSUME NEW a \in DOMAIN down', NEW b \in DOMAIN down',
               down'[a] = down'[b], down'[a] # Pushed
        PROVE  a = b
    <3>1. a + 1 = b + 1
      BY <1>4, <2>1 DEF ReplyInv, Once
    <3> QED BY <1>4, <3>1
  <2> QED BY <1>1, <1>4, <2>1 DEF ReplyInv, Once
<1>6. /\ Flying' \subseteq Flying
      /\ h # Pushed => h \in Flying /\ Flying' \subseteq Flying \ {h}
  <2>1. ASSUME NEW j \in Flying' PROVE j \in Flying /\ (h # Pushed => j # h)
    <3>1. j # Pushed /\ ((\E a \in DOMAIN up : j = up[a]) \/ (\E b \in DOMAIN down' : j = down'[b]))
      BY <1>1 DEF Flying, InFlight, ToSet
    <3>2. CASE \E a \in DOMAIN up : j = up[a]
      BY <1>3, <3>1, <3>2 DEF Flying, InFlight, ToSet, ReplyInv, Once
    <3>3. CASE \E b \in DOMAIN down' : j = down'[b]
      <4>1. PICK b \in DOMAIN down' : j = down'[b]
        BY <3>3
      <4>2. b + 1 \in DOMAIN down /\ b + 1 # 1 /\ j = down[b + 1]
        BY <1>4, <4>1
      <4> QED BY <1>3, <3>1, <4>2 DEF Flying, InFlight, ToSet, ReplyInv, Once
    <3> QED BY <3>1, <3>2, <3>3
  <2>2. h # Pushed => h \in Flying
    BY <1>3 DEF Flying, InFlight, ToSet
  <2> QED BY <2>1, <2>2
<1>7. CASE ~mounted
  <2>1. history' = history /\ Numbers' = Numbers
    BY <1>1, <1>7 DEF Numbers
  <2>2. LinkTypes'
    BY <1>1, <1>2, <1>3, <2>1 DEF ReplyInv, LinkTypes
  <2> QED BY <1>5, <1>6, <2>1, <2>2, FewerReplyInv
<1>8. CASE mounted
  <2> DEFINE waiting == {i \in DOMAIN history : IsPending(i)}
             m == Max(waiting)
             taken(i) == waiting # {} /\ i = m
  <2>1. history' = [i \in DOMAIN history |->
          [reply |-> IF waiting # {} /\ i = m THEN h ELSE history[i].reply,
           alone |-> history[i].alone /\ ~(h = Pushed /\ i \in waiting)]]
    BY <1>1, <1>8 DEF Attach
  <2>2. /\ DOMAIN history' = 1..n
        /\ \A i \in 1..n : /\ history'[i].reply = IF taken(i) THEN h ELSE history[i].reply
                           /\ history'[i].alone => history[i].alone /\ ~(h = Pushed /\ i \in waiting)
                           /\ history'[i].alone \in BOOLEAN
                           /\ history'[i] \in [reply : Int, alone : BOOLEAN]
    <3>1. h \in Int
      BY <1>2, <1>3 DEF Pushed
    <3> HIDE DEF waiting, m
    <3> QED BY <1>2, <2>1, <3>1
  <2>3. history' \in Seq([reply : Int, alone : BOOLEAN]) /\ Len(history') = n /\ Numbers' = Numbers
    <3>1. history' = [i \in 1..n |-> history'[i]]
      BY <1>2, <2>1
    <3>2. history' \in [1..n -> [reply : Int, alone : BOOLEAN]]
      BY <2>2, <3>1
    <3>3. history' \in Seq([reply : Int, alone : BOOLEAN])
      BY <3>2, SeqDef
    <3>4. Len(history') = n
      BY <1>2, <2>2, <3>3, LenProperties
    <3> QED BY <1>0, <3>3, <3>4 DEF Numbers
  <2>4. LinkTypes'
    BY <1>1, <1>2, <1>3, <2>3 DEF LinkTypes
  <2>5. waiting # {} => m \in waiting /\ \A k \in waiting : m >= k
    <3>1. waiting \subseteq 1..n
      BY <1>2
    <3> HIDE DEF waiting
    <3> QED BY <1>2, <3>1, MaxProperties
  <2>6. \A i \in 1..n : i \in waiting <=> IsPending(i)
    BY <1>2
  <2>7. \A i \in 1..n : IsPending(i)' => i \in waiting /\ ~taken(i)
    <3>1. h # Pending
      BY <1>2, <1>3 DEF Pending, Pushed
    <3> HIDE DEF waiting, m
    <3> QED BY <2>2, <2>6, <3>1 DEF IsPending
  <2>8. \A i : Later(i) = {k \in waiting : k > i}
    BY <1>2 DEF Later
  <2> HIDE DEF waiting, m
  <2>9. ASSUME NEW i \in 1..n, history'[i].alone
        PROVE  history'[i].reply \in {i, Pending, Offline}
    <3>1. history[i].alone /\ history[i].reply \in {i, Pending, Offline}
      BY <1>2, <2>2, <2>9 DEF ReplyInv, OwnReply
    <3>2. CASE ~taken(i)
      BY <2>2, <3>1, <3>2
    <3>3. CASE taken(i)
      <4>1. i \in waiting /\ IsPending(i) /\ h # Pushed /\ h \in Flying
        BY <1>6, <2>2, <2>5, <2>6, <2>9, <3>3
      <4>2. Awaited(i)
        BY <1>2, <3>1, <4>1 DEF ReplyInv, LoneAwaited
      <4>3. Later(i) = {}
        <5>1. \A k \in waiting : k \in 1..n /\ i >= k
          BY <1>2, <2>5, <3>3 DEF waiting
        <5> QED BY <2>8, <5>1
      <4>4. Flying \ {i} = {}
        <5>1. IsFiniteSet(Flying \ {i}) /\ Cardinality(Flying \ {i}) <= 0
          BY <1>2, <4>2, <4>3, FS_EmptySet, FS_RemoveElement DEF Awaited
        <5> QED BY <5>1, FS_EmptySet, FS_CardinalityType
      <4>5. h = i
        BY <4>1, <4>4
      <4> QED BY <2>2, <3>3, <4>5
    <3> QED BY <3>2, <3>3
  <2>10. ASSUME NEW i \in 1..n, history'[i].alone, IsPending(i)'
         PROVE  Awaited(i)'
    <3>1. history[i].alone /\ i \in waiting /\ IsPending(i) /\ ~taken(i) /\ h # Pushed
      BY <2>2, <2>6, <2>7, <2>10
    <3>2. Awaited(i)
      BY <1>2, <3>1 DEF ReplyInv, LoneAwaited
    <3>3. m \in Later(i)
      <4>1. m \in waiting /\ m >= i /\ m # i
        BY <2>5, <3>1
      <4>2. m \in 1..n
        BY <1>2, <4>1 DEF waiting
      <4> QED BY <2>8, <4>1, <4>2
    <3>4. i \notin Flying /\ h \in Flying /\ h # i
      BY <1>6, <3>1, <3>2, <3>3 DEF Awaited
    <3>5. Later(i)' = Later(i) \ {m}
      <4>1. \A k \in 1..n : IsPending(k)' <=> k \in waiting /\ k # m
        BY <2>2, <2>6, <2>7 DEF IsPending
      <4>2. waiting \subseteq 1..n
        BY <1>2 DEF waiting
      <4>3. Later(i)' = {k \in 1..n : k > i /\ IsPending(k)'}
        BY <2>2 DEF Later
      <4> QED BY <2>8, <4>1, <4>2, <4>3
    <3>6. /\ Flying' \ {i} \subseteq (Flying \ {i}) \ {h} /\ h \in Flying \ {i}
          /\ IsFiniteSet(Flying \ {i}) /\ IsFiniteSet((Flying \ {i}) \ {h})
      BY <1>2, <1>6, <3>1, <3>4, FS_RemoveElement
    <3>7. /\ Cardinality(Flying' \ {i}) <= Cardinality((Flying \ {i}) \ {h})
          /\ IsFiniteSet(Flying' \ {i})
      BY <3>6, FS_Subset
    <3>8. /\ Cardinality((Flying \ {i}) \ {h}) = Cardinality(Flying \ {i}) - 1
          /\ Cardinality(Later(i)') = Cardinality(Later(i)) - 1
      <4>1. Cardinality((Flying \ {i}) \ {h}) = Cardinality(Flying \ {i}) - 1
        BY <3>6, FS_RemoveElement
      <4>2. IsFiniteSet(Later(i))
        BY <1>2
      <4>3. Cardinality(Later(i) \ {m}) = Cardinality(Later(i)) - 1
        BY <3>3, <4>2, FS_RemoveElement
      <4> QED BY <3>5, <4>1, <4>3
    <3>9. Cardinality(Flying' \ {i}) <= Cardinality(Later(i)')
      <4>1. /\ Cardinality(Flying' \ {i}) \in Nat /\ Cardinality(Flying \ {i}) \in Nat
            /\ Cardinality(Later(i)) \in Nat
        BY <1>2, <3>6, <3>7, FS_CardinalityType
      <4> QED BY <3>2, <3>7, <3>8, <4>1 DEF Awaited
    <3>10. (\A j \in Flying' : j >= i) /\ i \notin Flying'
      BY <1>6, <3>2, <3>4 DEF Awaited
    <3> QED BY <3>9, <3>10 DEF Awaited
  <2>11. OwnReply'
    BY <2>2, <2>9 DEF OwnReply
  <2>12. LoneAwaited'
    BY <1>2, <2>3, <2>10 DEF LoneAwaited
  <2> QED BY <1>5, <2>4, <2>11, <2>12 DEF ReplyInv
<1> QED BY <1>7, <1>8

LEMMA NextReplyInv == ReplyInv /\ [Next]_vars => ReplyInv'
<1> SUFFICES ASSUME ReplyInv, [Next]_vars PROVE ReplyInv'
  OBVIOUS
<1>1. CASE Tick \/ Reconnect \/ Unmount \/ Break \/ ServerBack \/ CloseHandshake \/ UNCHANGED vars
  BY <1>1, SameReplyInv DEF Tick, Reconnect, Unmount, Break, ServerBack, CloseHandshake, vars,
     pageVars, linkVars
<1>2. CASE Opened \/ Closed
  BY <1>2, EmptiedReplyInv DEF Opened, Closed
<1>3. CASE SendCommand
  BY <1>3, SendReplyInv
<1>4. CASE Received
  BY <1>4, ReceivedReplyInv
<1>5. CASE Handle
  BY <1>5, HandleReplyInv
<1>6. CASE Publish
  BY <1>6, PublishReplyInv
<1> QED BY <1>1, <1>2, <1>3, <1>4, <1>5, <1>6 DEF Next

\* A command that nothing else was under way with never shows the reply of
\* another, whatever was lost before it.
THEOREM OwnReplyHolds == Spec => []OwnReply
<1>1. ReplyInv => OwnReply
  BY DEF ReplyInv
<1> QED BY <1>1, InitReplyInv, NextReplyInv, PTL DEF Spec
=============================================================================
