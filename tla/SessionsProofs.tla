---------------------------- MODULE SessionsProofs ----------------------------
(***************************************************************************)
(* Proofs about the connections of Sessions, for every set of connections  *)
(* and channels, every length of a transaction and whatever is configured. *)
(***************************************************************************)
EXTENDS Sessions, FiniteSetTheorems, SequenceTheorems, NaturalsInduction,
        WellFoundedInduction, TLAPS

\* A set of naturals that is not empty has a least element.
LEMMA LeastNatural ==
  ASSUME NEW T, T \subseteq Nat, T # {}
  PROVE  \E x \in T : \A y \in T : x <= y
<1>1. PICK x \in T : \A y \in T : <<y, x>> \notin OpToRel(<, Nat)
  BY NatLessThanWellFounded, WFMin
<1>2. \A y \in T : ~(y < x)
  BY <1>1, T \subseteq Nat DEF OpToRel
<1> QED
  BY <1>2, T \subseteq Nat

\* Induction up to n, for a set of numbers in place of a predicate.
LEMMA UpTo ==
  ASSUME NEW n \in Nat, NEW T, 0 \in T, \A i \in 1..n : i - 1 \in T => i \in T
  PROVE  0..n \subseteq T
<1> SUFFICES ASSUME (0..n) \ T # {} PROVE FALSE
  OBVIOUS
<1> DEFINE S == (0..n) \ T
<1>0. S \subseteq Nat /\ S # {}
  OBVIOUS
<1>1. PICK x \in S : \A y \in S : x <= y
  <2> HIDE DEF S
  <2> QED
    BY <1>0, LeastNatural
<1>2. x \in 1..n
  BY <1>1
<1>3. x - 1 \in T
  BY <1>1, <1>2
<1> QED
  BY <1>1, <1>2, <1>3

-----------------------------------------------------------------------------
\* Subscriptions that are well kept: two maps, each the other's inverse, without
\* an empty set.
Subscriptions ==
  {p \in [channels : Maps(Channels, SUBSET Conns), connections : Maps(Conns, SUBSET Channels)] :
     /\ \A c \in Conns, ch \in Channels :
          c \in At(p.channels, ch) <=> ch \in At(p.connections, c)
     /\ \A ch \in DOMAIN p.channels : p.channels[ch] # {}
     /\ \A c \in DOMAIN p.connections : p.connections[c] # {}}

\* What it is to be one of the partial functions from A to B.
LEMMA MapsMembers ==
  ASSUME NEW A, NEW B, NEW f
  PROVE  f \in Maps(A, B) <=>
           /\ f = [x \in DOMAIN f |-> f[x]]
           /\ DOMAIN f \subseteq A
           /\ \A x \in DOMAIN f : f[x] \in B
<1>1. ASSUME f \in Maps(A, B)
      PROVE  /\ f = [x \in DOMAIN f |-> f[x]]
             /\ DOMAIN f \subseteq A
             /\ \A x \in DOMAIN f : f[x] \in B
  BY <1>1 DEF Maps
<1>2. ASSUME f = [x \in DOMAIN f |-> f[x]],
             DOMAIN f \subseteq A,
             \A x \in DOMAIN f : f[x] \in B
      PROVE  f \in Maps(A, B)
  <2>1. f \in [DOMAIN f -> B]
    BY <1>2
  <2> QED
    BY <2>1, <1>2 DEF Maps
<1> QED
  BY <1>1, <1>2

\* A subscription to channels leaves subscriptions well kept, touches no other
\* connection and makes the connection a subscriber of these channels.
LEMMA SubscribeKeeps ==
  ASSUME NEW p \in Subscriptions, NEW c \in Conns,
         NEW chs \in SUBSET Channels, chs # {}
  PROVE  /\ subscribe(p, c, chs) \in Subscriptions
         /\ \A d \in Conns \ {c} :
              At(subscribe(p, c, chs).connections, d) = At(p.connections, d)
<1> DEFINE q == subscribe(p, c, chs)
<1>1. /\ DOMAIN p.channels \subseteq Channels
      /\ \A ch \in DOMAIN p.channels : p.channels[ch] \in SUBSET Conns
      /\ DOMAIN p.connections \subseteq Conns
      /\ \A d \in DOMAIN p.connections : p.connections[d] \in SUBSET Channels
  BY MapsMembers DEF Subscriptions
<1>2. /\ q.channels = [ch \in DOMAIN p.channels \cup chs |->
                         At(p.channels, ch) \cup (IF ch \in chs THEN {c} ELSE {})]
      /\ q.connections = [d \in DOMAIN p.connections \cup {c} |->
                         At(p.connections, d) \cup (IF d = c THEN chs ELSE {})]
      /\ q = [channels |-> q.channels, connections |-> q.connections]
  BY DEF subscribe
<1> HIDE DEF q
<1>3. \A ch \in Channels : At(q.channels, ch) =
                             At(p.channels, ch) \cup (IF ch \in chs THEN {c} ELSE {})
  BY <1>2 DEF At
<1>4. \A d \in Conns : At(q.connections, d) =
                         At(p.connections, d) \cup (IF d = c THEN chs ELSE {})
  BY <1>2 DEF At
<1>5. q.channels \in Maps(Channels, SUBSET Conns)
  BY <1>1, <1>2, MapsMembers DEF At
<1>6. q.connections \in Maps(Conns, SUBSET Channels)
  BY <1>1, <1>2, MapsMembers DEF At
<1>7. \A d \in Conns, ch \in Channels : d \in At(q.channels, ch) <=> ch \in At(q.connections, d)
  BY <1>3, <1>4 DEF Subscriptions
<1>8. \A ch \in DOMAIN q.channels : q.channels[ch] # {}
  <2> SUFFICES ASSUME NEW ch \in DOMAIN q.channels PROVE q.channels[ch] # {}
    OBVIOUS
  <2>1. CASE ch \in chs
    BY <2>1, <1>2
  <2>2. CASE ch \notin chs
    <3>1. ch \in DOMAIN p.channels /\ q.channels[ch] = p.channels[ch] \cup {}
      BY <2>2, <1>2 DEF At
    <3> QED
      BY <3>1 DEF Subscriptions
  <2> QED
    BY <2>1, <2>2
<1>9. \A d \in DOMAIN q.connections : q.connections[d] # {}
  BY <1>2 DEF Subscriptions, At
<1>10. q \in [channels : Maps(Channels, SUBSET Conns), connections : Maps(Conns, SUBSET Channels)]
  BY <1>2, <1>5, <1>6
<1>11. q \in Subscriptions
  BY <1>7, <1>8, <1>9, <1>10 DEF Subscriptions
<1>12. \A d \in Conns \ {c} : At(q.connections, d) = At(p.connections, d)
  BY <1>4
<1> QED
  BY <1>11, <1>12 DEF q

\* So does leaving channels, which takes nothing but these channels away.
LEMMA LeftKeeps ==
  ASSUME NEW p \in Subscriptions, NEW c \in Conns, NEW chs \in SUBSET Channels
  PROVE  /\ left(p, c, chs) \in Subscriptions
         /\ \A d \in Conns \ {c} :
              At(left(p, c, chs).connections, d) = At(p.connections, d)
         /\ At(left(p, c, chs).connections, c) = At(p.connections, c) \ chs
<1> DEFINE q == left(p, c, chs)
           fs == [ch \in DOMAIN p.channels |-> p.channels[ch] \ (IF ch \in chs THEN {c} ELSE {})]
           gs == [d \in DOMAIN p.connections |-> p.connections[d] \ (IF d = c THEN chs ELSE {})]
<1>1. /\ DOMAIN p.channels \subseteq Channels
      /\ \A ch \in DOMAIN p.channels : p.channels[ch] \in SUBSET Conns
      /\ DOMAIN p.connections \subseteq Conns
      /\ \A d \in DOMAIN p.connections : p.connections[d] \in SUBSET Channels
  BY MapsMembers DEF Subscriptions
<1>2. /\ q.channels = [ch \in {x \in DOMAIN fs : fs[x] # {}} |-> fs[ch]]
      /\ q.connections = [d \in {x \in DOMAIN gs : gs[x] # {}} |-> gs[d]]
      /\ q = [channels |-> q.channels, connections |-> q.connections]
  BY DEF left, NonEmpty
<1> HIDE DEF q
<1>0. /\ DOMAIN fs = DOMAIN p.channels /\ DOMAIN gs = DOMAIN p.connections
      /\ \A ch \in DOMAIN fs : fs[ch] \in SUBSET Conns
      /\ \A d \in DOMAIN gs : gs[d] \in SUBSET Channels
  BY <1>1
<1>3. \A ch \in Channels : At(q.channels, ch) =
                             At(p.channels, ch) \ (IF ch \in chs THEN {c} ELSE {})
  BY <1>2 DEF At
<1>4. \A d \in Conns : At(q.connections, d) =
                         At(p.connections, d) \ (IF d = c THEN chs ELSE {})
  BY <1>2 DEF At
<1>5. q.channels \in Maps(Channels, SUBSET Conns)
  <2> HIDE DEF fs
  <2>1. /\ DOMAIN q.channels \subseteq Channels
        /\ \A ch \in DOMAIN q.channels : q.channels[ch] \in SUBSET Conns
        /\ q.channels = [ch \in DOMAIN q.channels |-> q.channels[ch]]
    BY <1>0, <1>1, <1>2
  <2> QED
    BY <2>1, MapsMembers
<1>6. q.connections \in Maps(Conns, SUBSET Channels)
  <2> HIDE DEF gs
  <2>1. /\ DOMAIN q.connections \subseteq Conns
        /\ \A d \in DOMAIN q.connections : q.connections[d] \in SUBSET Channels
        /\ q.connections = [d \in DOMAIN q.connections |-> q.connections[d]]
    BY <1>0, <1>1, <1>2
  <2> QED
    BY <2>1, MapsMembers
<1>7. \A d \in Conns, ch \in Channels : d \in At(q.channels, ch) <=> ch \in At(q.connections, d)
  BY <1>3, <1>4 DEF Subscriptions
<1>8. \A ch \in DOMAIN q.channels : q.channels[ch] # {}
  BY <1>2
<1>9. \A d \in DOMAIN q.connections : q.connections[d] # {}
  BY <1>2
<1>10. q \in [channels : Maps(Channels, SUBSET Conns), connections : Maps(Conns, SUBSET Channels)]
  BY <1>2, <1>5, <1>6
<1>11. q \in Subscriptions
  BY <1>7, <1>8, <1>9, <1>10 DEF Subscriptions
<1> QED
  BY <1>11, <1>4 DEF q

\* One command of a queue keeps subscriptions, touches no other connection, and
\* only SUBSCRIBE makes a subscriber.
Kept(p, c, cmd, q) ==
  /\ q \in Subscriptions
  /\ \A d \in Conns \ {c} : At(q.connections, d) = At(p.connections, d)
  /\ isSubscribed(q, c) => isSubscribed(p, c) \/ cmd.name = "SUBSCRIBE"

LEMMA CommandFields ==
  ASSUME NEW cmd \in Commands
  PROVE  /\ cmd.channels \in SUBSET Channels
         /\ cmd.name \in {"WRITE", "OTHER", "AUTH", "PUBLISH", "SUBSCRIBE", "UNSUBSCRIBE"}
         /\ cmd.name = "SUBSCRIBE" => cmd.channels # {}
         /\ cmd.name = "PUBLISH" => \E ch \in Channels : cmd.channels = {ch}
  BY DEF Commands, Named, NoChannels

LEMMA ExecutedKeeps ==
  ASSUME NEW p \in Subscriptions, NEW c \in Conns, NEW cmd \in Commands
  PROVE  Kept(p, c, cmd, Executed(p, c, cmd))
<1>1. CASE cmd.name = "SUBSCRIBE"
  BY <1>1, CommandFields, SubscribeKeeps DEF Kept, Executed
<1>2. CASE cmd.name = "UNSUBSCRIBE"
  <2>1. CASE c \notin DOMAIN p.connections
    BY <1>2, <2>1 DEF Kept, Executed, unsubscribe
  <2>2. CASE c \in DOMAIN p.connections
    <3> DEFINE chs == IF cmd.channels = {} THEN p.connections[c] ELSE cmd.channels
    <3>1. chs \in SUBSET Channels
      BY <2>2, CommandFields, MapsMembers DEF Subscriptions
    <3>2. Executed(p, c, cmd) = left(p, c, chs)
      BY <1>2, <2>2 DEF Executed, unsubscribe
    <3> HIDE DEF chs
    <3> QED
      BY <3>1, <3>2, LeftKeeps DEF Kept, isSubscribed
  <2> QED
    BY <2>1, <2>2
<1>3. CASE cmd.name \notin {"SUBSCRIBE", "UNSUBSCRIBE"}
  BY <1>3 DEF Kept, Executed
<1> QED
  BY <1>1, <1>2, <1>3

-----------------------------------------------------------------------------
\* The recursion in After is sound: its function starts with the subscriptions
\* before the queue, and each value is what one command makes of the one before.
Steps(p, c, queue, f) ==
  /\ f[0] = p
  /\ \A i \in 1..Len(queue) : f[i] = Executed(f[i - 1], c, queue[i])

LEMMA AfterSteps ==
  ASSUME NEW p, NEW c, NEW queue, Len(queue) \in Nat
  PROVE  Steps(p, c, queue, After(p, c, queue))
<1> DEFINE n == Len(queue)
           Runs(m, f) == /\ f = [i \in 0..m |-> f[i]]
                         /\ f[0] = p
                         /\ \A i \in 1..m : f[i] = Executed(f[i - 1], c, queue[i])
           T == {m \in 0..n : \E f : Runs(m, f)}
<1>1. 0 \in T
  <2>1. Runs(0, [i \in 0..0 |-> p])
    OBVIOUS
  <2>2. \E f : Runs(0, f)
    <3> HIDE DEF Runs
    <3> QED
      BY <2>1
  <2> QED
    BY <2>2
<1>2. ASSUME NEW m \in 1..n, m - 1 \in T PROVE m \in T
  <2>1. PICK f : Runs(m - 1, f)
    BY <1>2
  <2> DEFINE g == [i \in 0..m |-> IF i = m THEN Executed(f[m - 1], c, queue[m]) ELSE f[i]]
  <2>2. g[0] = p
    BY <2>1
  <2>3. ASSUME NEW i \in 1..m PROVE g[i] = Executed(g[i - 1], c, queue[i])
    <3>1. g[i - 1] = f[i - 1]
      <4>1. i - 1 \in 0..m /\ i - 1 # m
        OBVIOUS
      <4> QED
        BY <4>1
    <3>2. CASE i = m
      BY <3>1, <3>2
    <3>3. CASE i # m
      <4>1. i \in 1..(m - 1) /\ i \in 0..m
        BY <3>3
      <4>2. f[i] = Executed(f[i - 1], c, queue[i])
        BY <2>1, <4>1
      <4>3. g[i] = f[i]
        BY <3>3, <4>1
      <4> QED
        BY <3>1, <4>2, <4>3
    <3> QED
      BY <3>2, <3>3
  <2>4. Runs(m, g)
    <3>1. g = [i \in 0..m |-> g[i]]
      OBVIOUS
    <3> HIDE DEF g
    <3> QED
      BY <3>1, <2>2, <2>3
  <2>5. \E h : Runs(m, h)
    <3> HIDE DEF Runs, g
    <3> QED
      BY <2>4
  <2> HIDE DEF Runs
  <2> QED
    BY <2>5
<1>3. n \in T
  <2> HIDE DEF T
  <2>1. 0..n \subseteq T
    BY <1>1, <1>2, UpTo
  <2> QED
    BY <2>1
<1>4. PICK f : Runs(n, f)
  BY <1>3
<1> DEFINE Rec(g) == [i \in 0..n |-> IF i = 0 THEN p ELSE Executed(g[i - 1], c, queue[i])]
<1>5. f = Rec(f)
  <2>1. \A i \in 0..n : f[i] = Rec(f)[i]
    BY <1>4
  <2>2. f = [i \in 0..n |-> f[i]]
    BY <1>4
  <2> QED
    BY <2>1, <2>2
<1>6. After(p, c, queue) = CHOOSE g : g = Rec(g)
  BY DEF After
<1>7. After(p, c, queue) = Rec(After(p, c, queue))
  <2> HIDE DEF Rec
  <2> QED
    BY <1>5, <1>6
<1> HIDE DEF Runs, T
<1> QED
  BY <1>7 DEF Steps

\* All along a queue the subscriptions stay well kept, those of the other
\* connections are what they were, and the connection is a subscriber only if it
\* was one before or a SUBSCRIBE of the queue has made it one.
KeptUpTo(p, c, queue, q, i) ==
  /\ q \in Subscriptions
  /\ \A d \in Conns \ {c} : At(q.connections, d) = At(p.connections, d)
  /\ isSubscribed(q, c) =>
       isSubscribed(p, c) \/ \E j \in 1..i : queue[j].name = "SUBSCRIBE"

LEMMA AfterKeeps ==
  ASSUME NEW p \in Subscriptions, NEW c \in Conns, NEW queue \in Seq(Commands)
  PROVE  \A i \in 0..Len(queue) : KeptUpTo(p, c, queue, After(p, c, queue)[i], i)
<1> DEFINE n == Len(queue)
           f == After(p, c, queue)
           T == {i \in 0..n : KeptUpTo(p, c, queue, f[i], i)}
<1>0. n \in Nat /\ \A i \in 1..n : queue[i] \in Commands
  BY ElementOfSeq, LenProperties
<1>1. Steps(p, c, queue, f)
  BY <1>0, AfterSteps
<1> HIDE DEF f
<1>2. 0 \in T
  <2>1. KeptUpTo(p, c, queue, p, 0)
    BY DEF KeptUpTo
  <2> QED
    BY <1>0, <1>1, <2>1 DEF Steps
<1>3. ASSUME NEW i \in 1..n, i - 1 \in T PROVE i \in T
  <2>1. KeptUpTo(p, c, queue, f[i - 1], i - 1)
    BY <1>3
  <2>2. f[i] = Executed(f[i - 1], c, queue[i])
    BY <1>1 DEF Steps
  <2>3. Kept(f[i - 1], c, queue[i], f[i])
    BY <1>0, <2>1, <2>2, ExecutedKeeps DEF KeptUpTo
  <2>4. isSubscribed(f[i], c) =>
          isSubscribed(p, c) \/ \E j \in 1..i : queue[j].name = "SUBSCRIBE"
    <3>1. i - 1 \in Nat /\ 1..(i - 1) \subseteq 1..i /\ i \in 1..i
      BY <1>0
    <3> QED
      BY <2>1, <2>3, <3>1 DEF Kept, KeptUpTo
  <2>5. KeptUpTo(p, c, queue, f[i], i)
    BY <2>1, <2>3, <2>4 DEF Kept, KeptUpTo
  <2> QED
    BY <2>5, <1>0
<1>4. 0..n \subseteq T
  <2> HIDE DEF T
  <2> QED
    BY <1>0, <1>2, <1>3, UpTo
<1> QED
  BY <1>4 DEF f

-----------------------------------------------------------------------------
(***************************************************************************)
(* The inductive invariant.  The four properties need three more facts:    *)
(* only a connection whose socket has been opened and not been closed is   *)
(* in the map of subscriptions, what is queued was permitted when it was   *)
(* queued, and only finitely many connections have ever been opened.       *)
(***************************************************************************)
SubscribersConnected ==
  \A c \in DOMAIN pubsub.connections : socket[c] \in {"open", "destroyed"}

QueuedPermitted ==
  \A c \in DOMAIN transactions : \A i \in 1..Len(transactions[c]) :
    Permitted(c, transactions[c][i].name)

FinitelyManyOpened == IsFiniteSet({c \in Conns : socket[c] # "new"})

IInv ==
  /\ MapsMirrored /\ NeverStuckInTransaction
  /\ OnlyPermittedRuns /\ CountExceedsByBroken
  /\ SubscribersConnected /\ QueuedPermitted /\ FinitelyManyOpened

\* The subscriptions of a state that satisfies it.
LEMMA SubscriptionsKept ==
  ASSUME IInv
  PROVE  pubsub \in Subscriptions
BY DEF IInv, MapsMirrored, TypeOK, Subscriptions

LEMMA InitIInv == Init => IInv
<1> SUFFICES ASSUME Init PROVE IInv
  OBVIOUS
<1>1. TypeOK
  <2>1. [x \in {} |-> {}] \in Maps(Channels, SUBSET Conns)
    BY MapsMembers
  <2>2. [x \in {} |-> {}] \in Maps(Conns, SUBSET Channels)
    BY MapsMembers
  <2> QED
    BY <2>1, <2>2 DEF Init, TypeOK
<1>2. {c \in Conns : socket[c] # "new"} = {}
  BY DEF Init
<1>3. FinitelyManyOpened
  BY <1>2, FS_EmptySet DEF FinitelyManyOpened
<1> QED
  BY <1>1, <1>3 DEF Init, IInv, MapsMirrored, At, NeverStuckInTransaction, OnlyPermittedRuns,
     CountExceedsByBroken, SubscribersConnected, QueuedPermitted

\* Of the connections that a channel holds, those that are not reached are
\* broken: nobody else keeps a subscription.
LEMMA PublishedCount ==
  ASSUME IInv, NEW q \in Subscriptions, NEW c \in Conns, socket[c] = "open",
         \A d \in Conns \ {c} : At(q.connections, d) = At(pubsub.connections, d),
         NEW ch \in Channels
  PROVE  publish(q, {ch}).count - Cardinality(publish(q, {ch}).reached)
           <= Cardinality({d \in Conns : socket[d] = "destroyed"})
<1> DEFINE X      == At(q.channels, ch)
           broken == {d \in Conns : socket[d] = "destroyed"}
           opened == {d \in Conns : socket[d] # "new"}
           R      == {d \in X : socket[d] = "open"}
<1>1. publish(q, {ch}) = [count |-> Cardinality(X), reached |-> R]
  <2>1. UNION {At(q.channels, x) : x \in {ch}} = X
    OBVIOUS
  <2> QED
    BY <2>1 DEF publish
<1>2. X \subseteq Conns
  <2>1. q.channels \in Maps(Channels, SUBSET Conns)
    BY DEF Subscriptions
  <2> QED
    BY <2>1, MapsMembers DEF At
<1>3. \A d \in X : socket[d] \in {"open", "destroyed"}
  <2> SUFFICES ASSUME NEW d \in X, d # c PROVE socket[d] \in {"open", "destroyed"}
    OBVIOUS
  <2>1. ch \in At(q.connections, d)
    BY <1>2 DEF Subscriptions
  <2>2. ch \in At(pubsub.connections, d)
    BY <1>2, <2>1
  <2> QED
    BY <2>2 DEF At, IInv, SubscribersConnected
<1>4. X \subseteq opened /\ broken \subseteq opened /\ X \ R \subseteq broken /\ X \cap R = R
  BY <1>2, <1>3
<1>5. IsFiniteSet(opened)
  BY DEF IInv, FinitelyManyOpened
<1> HIDE DEF X, broken, opened, R
<1>6. IsFiniteSet(X) /\ IsFiniteSet(broken)
  BY <1>4, <1>5, FS_Subset
<1>7. Cardinality(X \ R) = Cardinality(X) - Cardinality(R)
  <2>1. Cardinality(X \ R) = Cardinality(X) - Cardinality(X \cap R)
    BY <1>6, FS_Difference
  <2> QED
    BY <1>4, <2>1
<1>8. Cardinality(X \ R) <= Cardinality(broken)
  BY <1>4, <1>6, FS_Subset
<1> QED
  BY <1>1, <1>7, <1>8 DEF broken

-----------------------------------------------------------------------------
\* A connection that may run a queue: it is open and has given the password, each
\* command is permitted, and as a subscriber it runs only one SUBSCRIBE or
\* UNSUBSCRIBE.
MayRun(c, queue) ==
  /\ socket[c] = "open"
  /\ RequirePass => c \in authenticated
  /\ \A i \in 1..Len(queue) : Permitted(c, queue[i].name)
  /\ isSubscribed(pubsub, c) =>
       Len(queue) = 1 /\ queue[1].name \in {"SUBSCRIBE", "UNSUBSCRIBE"}

\* What the execution of the queue then establishes.
LEMMA ExecutionKeeps ==
  ASSUME IInv, NEW c \in Conns, NEW queue \in Seq(Commands),
         MayRun(c, queue), Execution(c, queue), UNCHANGED <<socket, authenticated>>
  PROVE  /\ pubsub' \in Subscriptions
         /\ \A d \in Conns \ {c} : At(pubsub'.connections, d) = At(pubsub.connections, d)
         /\ \A i \in DOMAIN ran' : ran'[i].by \in Conns /\ ran'[i].command \in Commands
         /\ \A i \in DOMAIN ran' : Permitted(ran'[i].by, ran'[i].command.name)
         /\ \A i \in DOMAIN ran' : ran'[i].subscribed =>
              \/ ran'[i].command.name \in {"SUBSCRIBE", "UNSUBSCRIBE"}
              \/ \E j \in 1..(i - 1) : ran'[j].command.name = "SUBSCRIBE"
         /\ CountExceedsByBroken'
<1> DEFINE f == After(pubsub, c, queue)
           n == Len(queue)
<1>0. n \in Nat /\ \A i \in 1..n : queue[i] \in Commands
  BY ElementOfSeq, LenProperties
<1>1. pubsub \in Subscriptions
  BY SubscriptionsKept
<1>2. \A i \in 0..n : KeptUpTo(pubsub, c, queue, f[i], i)
  BY <1>1, AfterKeeps
<1>3. /\ pubsub' = f[n]
      /\ DOMAIN ran' = 1..n
      /\ \A i \in 1..n :
           /\ ran'[i].by = c /\ ran'[i].command = queue[i]
           /\ ran'[i].subscribed = isSubscribed(f[i - 1], c)
           /\ ran'[i].published = IF queue[i].name = "PUBLISH"
                                    THEN publish(f[i - 1], queue[i].channels)
                                    ELSE [count |-> 0, reached |-> {}]
  BY DEF Execution
<1> HIDE DEF f
<1>4. \A i \in 1..n : KeptUpTo(pubsub, c, queue, f[i - 1], i - 1)
  BY <1>0, <1>2
<1>5. KeptUpTo(pubsub, c, queue, pubsub', n)
  BY <1>0, <1>2, <1>3
<1>6. ASSUME NEW i \in 1..n, ran'[i].subscribed
      PROVE  \/ ran'[i].command.name \in {"SUBSCRIBE", "UNSUBSCRIBE"}
             \/ \E j \in 1..(i - 1) : ran'[j].command.name = "SUBSCRIBE"
  <2>1. isSubscribed(f[i - 1], c)
    BY <1>3, <1>6
  <2>0. \A j \in 1..n : ran'[j].command = queue[j]
    BY <1>3
  <2>2. CASE isSubscribed(pubsub, c)
    <3>0. n = 1 /\ queue[1].name \in {"SUBSCRIBE", "UNSUBSCRIBE"}
      BY <2>2 DEF MayRun
    <3>1. i = 1
      BY <3>0, <1>0
    <3> QED
      BY <2>0, <3>0, <3>1
  <2>3. CASE \E j \in 1..(i - 1) : queue[j].name = "SUBSCRIBE"
    <3>1. PICK j \in 1..(i - 1) : queue[j].name = "SUBSCRIBE"
      BY <2>3
    <3>2. j \in 1..n
      BY <1>0
    <3> QED
      BY <2>0, <3>1, <3>2
  <2> QED
    BY <1>4, <2>1, <2>2, <2>3 DEF KeptUpTo
<1>7. ASSUME NEW i \in 1..n
      PROVE  ran'[i].published.count - Cardinality(ran'[i].published.reached)
               <= Cardinality({d \in Conns : socket[d] = "destroyed"})
  <2> DEFINE broken == {d \in Conns : socket[d] = "destroyed"}
  <2>1. CASE queue[i].name = "PUBLISH"
    <3>1. PICK ch \in Channels : queue[i].channels = {ch}
      BY <1>0, <2>1, CommandFields
    <3>2. ran'[i].published = publish(f[i - 1], {ch})
      BY <1>3, <2>1, <3>1
    <3>3. /\ f[i - 1] \in Subscriptions
          /\ \A d \in Conns \ {c} : At(f[i - 1].connections, d) = At(pubsub.connections, d)
      BY <1>4 DEF KeptUpTo
    <3> QED
      BY <3>2, <3>3, PublishedCount DEF MayRun
  <2>2. CASE queue[i].name # "PUBLISH"
    <3>1. ran'[i].published = [count |-> 0, reached |-> {}]
      BY <1>3, <2>2
    <3>2. broken \subseteq {d \in Conns : socket[d] # "new"}
      OBVIOUS
    <3>3. IsFiniteSet({d \in Conns : socket[d] # "new"})
      BY DEF IInv, FinitelyManyOpened
    <3>4. Cardinality(broken) \in Nat
      <4> HIDE DEF broken
      <4> QED
        BY <3>2, <3>3, FS_Subset, FS_CardinalityType
    <3> HIDE DEF broken
    <3>5. 0 - Cardinality({}) <= Cardinality(broken)
      BY <3>4, FS_EmptySet
    <3> QED
      BY <3>1, <3>5 DEF broken
  <2> QED
    BY <2>1, <2>2
<1>8. CountExceedsByBroken'
  BY <1>3, <1>7 DEF CountExceedsByBroken
<1>9. \A i \in DOMAIN ran' : Permitted(ran'[i].by, ran'[i].command.name)
  BY <1>3 DEF MayRun
<1> QED
  BY <1>0, <1>3, <1>5, <1>6, <1>8, <1>9 DEF KeptUpTo

LeavesTransaction(c) ==
  /\ DOMAIN transactions' = DOMAIN transactions \ {c}
  /\ \A d \in DOMAIN transactions' : transactions'[d] = transactions[d]

\* A line that runs commands, by itself or as EXEC, preserves the invariant: the
\* connection is left with no transaction, so it may come out a subscriber.
LEMMA RunningKeeps ==
  ASSUME IInv, NEW c \in Conns, NEW queue \in Seq(Commands),
         MayRun(c, queue), Execution(c, queue), UNCHANGED <<socket, authenticated>>,
         LeavesTransaction(c)
  PROVE  IInv'
<1>1. /\ pubsub' \in Subscriptions
      /\ \A d \in Conns \ {c} : At(pubsub'.connections, d) = At(pubsub.connections, d)
      /\ \A i \in DOMAIN ran' : ran'[i].by \in Conns /\ ran'[i].command \in Commands
      /\ \A i \in DOMAIN ran' : Permitted(ran'[i].by, ran'[i].command.name)
      /\ \A i \in DOMAIN ran' : ran'[i].subscribed =>
           \/ ran'[i].command.name \in {"SUBSCRIBE", "UNSUBSCRIBE"}
           \/ \E j \in 1..(i - 1) : ran'[j].command.name = "SUBSCRIBE"
      /\ CountExceedsByBroken'
  BY ExecutionKeeps
<1>2. /\ DOMAIN transactions' = DOMAIN transactions \ {c}
      /\ \A d \in DOMAIN transactions' : transactions'[d] = transactions[d]
  BY DEF LeavesTransaction
<1>3. /\ pubsub' \in [channels    : Maps(Channels, SUBSET Conns),
                       connections : Maps(Conns, SUBSET Channels)]
      /\ DOMAIN pubsub'.connections \subseteq Conns
      /\ \A d \in DOMAIN pubsub'.connections : pubsub'.connections[d] # {}
  BY <1>1, MapsMembers DEF Subscriptions
<1>4. \A d \in DOMAIN pubsub'.connections : d = c \/ d \in DOMAIN pubsub.connections
  BY <1>1, <1>3 DEF At
<1>5. TypeOK'
  <2>1. TypeOK
    BY DEF IInv, MapsMirrored
  <2> QED
    BY <1>1, <1>2, <1>3, <2>1 DEF TypeOK
<1>6. SubscribersConnected'
  BY <1>4 DEF IInv, SubscribersConnected, MayRun
<1>7. MapsMirrored'
  BY <1>1, <1>5, <1>6 DEF MapsMirrored, Subscriptions, SubscribersConnected
<1>8. NeverStuckInTransaction'
  <2> SUFFICES ASSUME NEW d \in DOMAIN transactions \ {c} PROVE ~isSubscribed(pubsub', d)
    BY <1>2 DEF NeverStuckInTransaction, isSubscribed
  <2>1. d \in Conns /\ ~isSubscribed(pubsub, d)
    BY DEF IInv, NeverStuckInTransaction, MapsMirrored, TypeOK
  <2> QED
    BY <1>1, <2>1 DEF isSubscribed
<1>9. OnlyPermittedRuns'
  <2>1. RequirePass =>
          DOMAIN transactions' \cup DOMAIN pubsub'.connections \subseteq authenticated'
    BY <1>2, <1>4 DEF IInv, OnlyPermittedRuns, MayRun
  <2> QED
    BY <1>1, <2>1 DEF OnlyPermittedRuns, Permitted
<1>10. QueuedPermitted'
  BY <1>2 DEF IInv, QueuedPermitted, Permitted
<1>11. FinitelyManyOpened'
  BY DEF IInv, FinitelyManyOpened
<1> QED
  BY <1>1, <1>6, <1>7, <1>8, <1>9, <1>10, <1>11 DEF IInv

-----------------------------------------------------------------------------
\* The steps that run nothing.
LEMMA AuthenticateKeeps ==
  ASSUME IInv, NEW c \in Conns, Authenticate(c)
  PROVE  IInv'
<1> USE DEF Authenticate
<1>1. MapsMirrored' /\ SubscribersConnected' /\ NeverStuckInTransaction' /\ FinitelyManyOpened'
  BY DEF IInv, MapsMirrored, TypeOK, SubscribersConnected, NeverStuckInTransaction,
     FinitelyManyOpened
<1>2. OnlyPermittedRuns' /\ CountExceedsByBroken'
  BY DEF IInv, OnlyPermittedRuns, CountExceedsByBroken
<1>3. QueuedPermitted'
  BY DEF IInv, QueuedPermitted, Permitted
<1> QED
  BY <1>1, <1>2, <1>3 DEF IInv

LEMMA MultiKeeps ==
  ASSUME IInv, NEW c \in Conns, Multi(c)
  PROVE  IInv'
<1>1. /\ DOMAIN transactions' = DOMAIN transactions \cup {c}
      /\ transactions'[c] = <<>>
      /\ \A d \in DOMAIN transactions : transactions'[d] = transactions[d]
  BY DEF Multi
<1>2. /\ ran' = <<>> /\ UNCHANGED <<socket, authenticated, pubsub>>
      /\ ~isSubscribed(pubsub, c)
      /\ RequirePass => c \in authenticated
  BY DEF Multi, Admitted, Permitted
<1>3. TypeOK'
  <2>1. \A d \in DOMAIN transactions' : transactions'[d] \in Seq(Commands)
    BY <1>1, EmptySeq DEF IInv, MapsMirrored, TypeOK
  <2> QED
    BY <1>1, <1>2, <2>1 DEF IInv, MapsMirrored, TypeOK
<1>4. MapsMirrored' /\ SubscribersConnected' /\ FinitelyManyOpened'
  BY <1>2, <1>3 DEF IInv, MapsMirrored, SubscribersConnected, FinitelyManyOpened
<1>5. NeverStuckInTransaction'
  BY <1>1, <1>2 DEF IInv, NeverStuckInTransaction
<1>6. OnlyPermittedRuns' /\ CountExceedsByBroken'
  BY <1>1, <1>2 DEF IInv, OnlyPermittedRuns, CountExceedsByBroken
<1>7. QueuedPermitted'
  <2>1. \A i \in 1..Len(transactions'[c]) : FALSE
    BY <1>1
  <2> QED
    BY <1>1, <1>2, <2>1 DEF IInv, QueuedPermitted, Permitted
<1> QED
  BY <1>4, <1>5, <1>6, <1>7 DEF IInv

LEMMA QueueKeeps ==
  ASSUME IInv, NEW c \in Conns, NEW cmd \in Commands, Queue(c, cmd)
  PROVE  IInv'
<1> DEFINE queue == transactions[c]
<1>0. queue \in Seq(Commands)
  BY DEF Queue, IInv, MapsMirrored, TypeOK
<1>1. /\ DOMAIN transactions' = DOMAIN transactions
      /\ transactions'[c] = Append(queue, cmd)
      /\ \A d \in DOMAIN transactions \ {c} : transactions'[d] = transactions[d]
  BY DEF Queue
<1>2. /\ ran' = <<>> /\ UNCHANGED <<socket, authenticated, pubsub>>
      /\ Permitted(c, cmd.name)
  BY DEF Queue, Admitted
<1> HIDE DEF queue
<1>3. /\ Append(queue, cmd) \in Seq(Commands)
      /\ Len(Append(queue, cmd)) = Len(queue) + 1
      /\ Append(queue, cmd)[Len(queue) + 1] = cmd
      /\ \A i \in 1..Len(queue) : Append(queue, cmd)[i] = queue[i]
      /\ Len(queue) \in Nat
  BY <1>0, AppendProperties, LenProperties
<1>4. TypeOK'
  <2>0. TypeOK
    BY DEF IInv, MapsMirrored
  <2>1. \A d \in DOMAIN transactions' : transactions'[d] \in Seq(Commands)
    BY <1>1, <1>3, <2>0 DEF TypeOK
  <2> QED
    BY <1>1, <1>2, <2>0, <2>1 DEF TypeOK
<1>5. MapsMirrored' /\ SubscribersConnected' /\ FinitelyManyOpened' /\ NeverStuckInTransaction'
  BY <1>1, <1>2, <1>4 DEF IInv, MapsMirrored, SubscribersConnected, FinitelyManyOpened,
     NeverStuckInTransaction
<1>6. OnlyPermittedRuns' /\ CountExceedsByBroken'
  BY <1>1, <1>2 DEF IInv, OnlyPermittedRuns, CountExceedsByBroken
<1>7. QueuedPermitted'
  <2>1. \A i \in 1..Len(queue) : Permitted(c, queue[i].name)
    BY DEF Queue, IInv, QueuedPermitted, queue
  <2>2. \A i \in 1..(Len(queue) + 1) : Permitted(c, Append(queue, cmd)[i].name)
    <3> TAKE i \in 1..(Len(queue) + 1)
    <3>1. CASE i = Len(queue) + 1
      BY <1>2, <1>3, <3>1
    <3>2. CASE i \in 1..Len(queue)
      BY <1>3, <2>1, <3>2
    <3> QED
      BY <1>3, <3>1, <3>2
  <2> QED
    BY <1>1, <1>2, <1>3, <2>2 DEF IInv, QueuedPermitted, Permitted
<1> QED
  BY <1>5, <1>6, <1>7 DEF IInv

LEMMA DiscardKeeps ==
  ASSUME IInv, NEW c \in Conns, Discard(c)
  PROVE  IInv'
<1>1. /\ DOMAIN transactions' = DOMAIN transactions \ {c}
      /\ \A d \in DOMAIN transactions' : transactions'[d] = transactions[d]
      /\ ran' = <<>> /\ UNCHANGED <<socket, authenticated, pubsub>>
  BY DEF Discard, Closed
<1>2. MapsMirrored' /\ SubscribersConnected' /\ FinitelyManyOpened' /\ NeverStuckInTransaction'
  BY <1>1 DEF IInv, MapsMirrored, TypeOK, SubscribersConnected, FinitelyManyOpened,
     NeverStuckInTransaction
<1>3. OnlyPermittedRuns' /\ CountExceedsByBroken'
  BY <1>1 DEF IInv, OnlyPermittedRuns, CountExceedsByBroken
<1>4. QueuedPermitted'
  BY <1>1 DEF IInv, QueuedPermitted, Permitted
<1> QED
  BY <1>2, <1>3, <1>4 DEF IInv

LEMMA ConnectKeeps ==
  ASSUME IInv, NEW c \in Conns, Connect(c)
  PROVE  IInv'
<1>0. TypeOK
  BY DEF IInv, MapsMirrored
<1>1. /\ socket' \in [Conns -> {"new", "open", "destroyed", "closed"}]
      /\ \A d \in Conns : socket'[d] = IF d = c THEN "open" ELSE socket[d]
      /\ socket[c] = "new"
      /\ ran' = <<>> /\ UNCHANGED <<authenticated, transactions, pubsub>>
  BY <1>0 DEF Connect, TypeOK
<1>2. TypeOK'
  BY <1>0, <1>1 DEF TypeOK
<1>3. \A d \in DOMAIN pubsub.connections : d \in Conns
  BY <1>0, MapsMembers DEF TypeOK
<1>4. SubscribersConnected'
  BY <1>1, <1>3 DEF IInv, SubscribersConnected
<1>5. MapsMirrored'
  BY <1>1, <1>2, <1>4 DEF IInv, MapsMirrored, SubscribersConnected
<1>6. NeverStuckInTransaction' /\ OnlyPermittedRuns' /\ CountExceedsByBroken' /\ QueuedPermitted'
  BY <1>1 DEF IInv, NeverStuckInTransaction, OnlyPermittedRuns, CountExceedsByBroken,
     QueuedPermitted, Permitted
<1>7. FinitelyManyOpened'
  <2>1. {d \in Conns : socket'[d] # "new"} = {d \in Conns : socket[d] # "new"} \cup {c}
    BY <1>1
  <2> QED
    BY <2>1, FS_AddElement DEF IInv, FinitelyManyOpened
<1> QED
  BY <1>4, <1>5, <1>6, <1>7 DEF IInv

LEMMA DestroyKeeps ==
  ASSUME IInv, NEW c \in Conns, Destroy(c)
  PROVE  IInv'
<1>0. TypeOK
  BY DEF IInv, MapsMirrored
<1>1. /\ socket' \in [Conns -> {"new", "open", "destroyed", "closed"}]
      /\ \A d \in Conns : socket'[d] = IF d = c THEN "destroyed" ELSE socket[d]
      /\ socket[c] = "open"
      /\ ran' = <<>> /\ UNCHANGED <<authenticated, transactions, pubsub>>
  BY <1>0 DEF Destroy, TypeOK
<1>2. TypeOK'
  BY <1>0, <1>1 DEF TypeOK
<1>3. \A d \in DOMAIN pubsub.connections : d \in Conns
  BY <1>0, MapsMembers DEF TypeOK
<1>4. SubscribersConnected'
  BY <1>1, <1>3 DEF IInv, SubscribersConnected
<1>5. MapsMirrored'
  BY <1>1, <1>2, <1>4 DEF IInv, MapsMirrored, SubscribersConnected
<1>6. NeverStuckInTransaction' /\ OnlyPermittedRuns' /\ CountExceedsByBroken' /\ QueuedPermitted'
  BY <1>1 DEF IInv, NeverStuckInTransaction, OnlyPermittedRuns, CountExceedsByBroken,
     QueuedPermitted, Permitted
<1>7. FinitelyManyOpened'
  <2>1. {d \in Conns : socket'[d] # "new"} = {d \in Conns : socket[d] # "new"}
    BY <1>1
  <2> QED
    BY <2>1 DEF IInv, FinitelyManyOpened
<1> QED
  BY <1>4, <1>5, <1>6, <1>7 DEF IInv

\* The close event takes every subscription of the connection away.
LEMMA CloseKeeps ==
  ASSUME IInv, NEW c \in Conns, Close(c)
  PROVE  IInv'
<1>0. TypeOK
  BY DEF IInv, MapsMirrored
<1>1. /\ socket' \in [Conns -> {"new", "open", "destroyed", "closed"}]
      /\ \A d \in Conns : socket'[d] = IF d = c THEN "closed" ELSE socket[d]
      /\ socket[c] = "destroyed"
      /\ ran' = <<>> /\ UNCHANGED <<authenticated, transactions>>
      /\ pubsub' = removeConnection(pubsub, c)
  BY <1>0 DEF Close, TypeOK
<1>2. pubsub \in Subscriptions
  BY SubscriptionsKept
<1>3. /\ pubsub' \in Subscriptions
      /\ \A d \in Conns \ {c} : At(pubsub'.connections, d) = At(pubsub.connections, d)
      /\ At(pubsub'.connections, c) = {}
  <2>1. CASE c \in DOMAIN pubsub.connections
    <3>1. pubsub.connections[c] \in SUBSET Channels
      BY <1>2, <2>1, MapsMembers DEF Subscriptions
    <3>2. pubsub' = left(pubsub, c, pubsub.connections[c])
      BY <1>1, <2>1 DEF removeConnection
    <3>3. At(pubsub.connections, c) = pubsub.connections[c]
      BY <2>1 DEF At
    <3> QED
      BY <1>2, <3>1, <3>2, <3>3, LeftKeeps
  <2>2. CASE c \notin DOMAIN pubsub.connections
    BY <1>1, <1>2, <2>2 DEF removeConnection, At
  <2> QED
    BY <2>1, <2>2
<1>4. /\ pubsub' \in [channels    : Maps(Channels, SUBSET Conns),
                       connections : Maps(Conns, SUBSET Channels)]
      /\ DOMAIN pubsub'.connections \subseteq Conns
      /\ \A d \in DOMAIN pubsub'.connections : pubsub'.connections[d] # {}
  BY <1>3, MapsMembers DEF Subscriptions
<1>5. \A d \in DOMAIN pubsub'.connections : d # c /\ d \in DOMAIN pubsub.connections
  BY <1>3, <1>4 DEF At
<1>6. TypeOK'
  BY <1>0, <1>1, <1>4 DEF TypeOK
<1>7. SubscribersConnected'
  BY <1>1, <1>4, <1>5 DEF IInv, SubscribersConnected
<1>8. MapsMirrored'
  BY <1>3, <1>6, <1>7 DEF MapsMirrored, Subscriptions, SubscribersConnected
<1>9. NeverStuckInTransaction'
  <2> SUFFICES ASSUME NEW d \in DOMAIN transactions PROVE ~isSubscribed(pubsub', d)
    BY <1>1 DEF NeverStuckInTransaction
  <2>1. d \in Conns /\ ~isSubscribed(pubsub, d)
    BY <1>0 DEF IInv, NeverStuckInTransaction, TypeOK
  <2> QED
    BY <1>3, <2>1 DEF isSubscribed
<1>10. OnlyPermittedRuns' /\ CountExceedsByBroken' /\ QueuedPermitted'
  BY <1>1, <1>5 DEF IInv, OnlyPermittedRuns, CountExceedsByBroken, QueuedPermitted, Permitted
<1>11. FinitelyManyOpened'
  <2>1. {d \in Conns : socket'[d] # "new"} = {d \in Conns : socket[d] # "new"}
    BY <1>1
  <2> QED
    BY <2>1 DEF IInv, FinitelyManyOpened
<1> QED
  BY <1>7, <1>8, <1>9, <1>10, <1>11 DEF IInv

-----------------------------------------------------------------------------
\* The steps that run commands.
LEMMA ExecKeeps ==
  ASSUME IInv, NEW c \in Conns, Exec(c)
  PROVE  IInv'
<1> DEFINE queue == transactions[c]
<1>1. /\ Admitted(c, "EXEC") /\ c \in DOMAIN transactions
      /\ LeavesTransaction(c)
      /\ UNCHANGED <<socket, authenticated>>
      /\ \/ Execution(c, queue)
         \/ \E n \in DOMAIN queue : Execution(c, SubSeq(queue, 1, n))
  BY DEF Exec, Closed, LeavesTransaction
<1>2. queue \in Seq(Commands) /\ Len(queue) \in Nat /\ DOMAIN queue = 1..Len(queue)
  BY <1>1, LenProperties DEF IInv, MapsMirrored, TypeOK
<1>3. /\ socket[c] = "open"
      /\ RequirePass => c \in authenticated
      /\ ~isSubscribed(pubsub, c)
      /\ \A i \in 1..Len(queue) : Permitted(c, queue[i].name)
  BY <1>1 DEF IInv, Admitted, Permitted, NeverStuckInTransaction, QueuedPermitted
<1> HIDE DEF queue
<1>4. CASE Execution(c, queue)
  BY <1>1, <1>2, <1>3, <1>4, RunningKeeps DEF MayRun
<1>5. ASSUME NEW n \in DOMAIN queue, Execution(c, SubSeq(queue, 1, n))
      PROVE  IInv'
  <2>1. /\ SubSeq(queue, 1, n) \in Seq(Commands)
        /\ Len(SubSeq(queue, 1, n)) = n
        /\ \A i \in 1..n : SubSeq(queue, 1, n)[i] = queue[i]
    BY <1>2, SubSeqProperties
  <2>2. MayRun(c, SubSeq(queue, 1, n))
    BY <1>2, <1>3, <2>1 DEF MayRun
  <2> QED
    BY <1>1, <1>5, <2>1, <2>2, RunningKeeps
<1> QED
  BY <1>1, <1>4, <1>5

LEMMA RunKeeps ==
  ASSUME IInv, NEW c \in Conns, NEW cmd \in Commands, Run(c, cmd)
  PROVE  IInv'
<1>1. /\ Admitted(c, cmd.name) /\ c \notin DOMAIN transactions
      /\ Execution(c, <<cmd>>)
      /\ UNCHANGED <<socket, authenticated, transactions>>
  BY DEF Run
<1>2. /\ <<cmd>> \in Seq(Commands) /\ Len(<<cmd>>) = 1 /\ <<cmd>>[1] = cmd
  OBVIOUS
<1>3. MayRun(c, <<cmd>>)
  BY <1>1, <1>2 DEF MayRun, Admitted, Permitted
<1>4. LeavesTransaction(c)
  BY <1>1 DEF LeavesTransaction
<1> QED
  BY <1>1, <1>2, <1>3, <1>4, RunningKeeps

LEMMA NextIInv == IInv /\ [Next]_vars => IInv'
<1> SUFFICES ASSUME IInv, [Next]_vars PROVE IInv'
  OBVIOUS
<1>1. CASE UNCHANGED vars
  BY <1>1 DEF vars, IInv, MapsMirrored, TypeOK, NeverStuckInTransaction, OnlyPermittedRuns,
     CountExceedsByBroken, SubscribersConnected, QueuedPermitted, FinitelyManyOpened, Permitted
<1>2. ASSUME NEW c \in Conns, Connect(c) \/ Destroy(c) \/ Close(c)
      PROVE  IInv'
  BY <1>2, ConnectKeeps, DestroyKeeps, CloseKeeps
<1>3. ASSUME NEW c \in Conns, Authenticate(c) \/ Multi(c) \/ Exec(c) \/ Discard(c)
      PROVE  IInv'
  BY <1>3, AuthenticateKeeps, MultiKeeps, ExecKeeps, DiscardKeeps
<1>4. ASSUME NEW c \in Conns, NEW cmd \in Commands, Queue(c, cmd) \/ Run(c, cmd)
      PROVE  IInv'
  BY <1>4, QueueKeeps, RunKeeps
<1> QED
  BY <1>1, <1>2, <1>3, <1>4 DEF Next

THEOREM SessionsInvariant == Spec => []IInv
<1> QED
  BY InitIInv, NextIInv, PTL DEF Spec

\* The two maps of the subscriptions (PubSubManager) stay each other's inverse,
\* without an empty set, and a connection that has been closed is in neither.
THEOREM MapsMirroredHolds == Spec => []MapsMirrored
<1>1. IInv => MapsMirrored
  BY DEF IInv
<1> QED
  BY <1>1, SessionsInvariant, PTL

\* No connection is subscribed while it has a transaction open, which it could
\* neither run nor discard then (handleLine).
THEOREM NeverStuckHolds == Spec => []NeverStuckInTransaction
<1>1. IInv => NeverStuckInTransaction
  BY DEF IInv
<1> QED
  BY <1>1, SessionsInvariant, PTL

\* Whatever the queue of a transaction holds, every command that runs passes the
\* gates of handleLine: password, disabled commands and the state of a subscriber.
THEOREM OnlyPermittedHolds == Spec => []OnlyPermittedRuns
<1>1. IInv => OnlyPermittedRuns
  BY DEF IInv
<1> QED
  BY <1>1, SessionsInvariant, PTL

\* The count that PUBLISH answers exceeds the connections that get the message by
\* at most the sockets that have broken and not been closed yet.
THEOREM CountHolds == Spec => []CountExceedsByBroken
<1>1. IInv => CountExceedsByBroken
  BY DEF IInv
<1> QED
  BY <1>1, SessionsInvariant, PTL

===============================================================================
