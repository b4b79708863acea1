---------------------------- MODULE ShutdownProofs ----------------------------
(***************************************************************************)
(* Theorems about AofWriter, for every number of commands, whatever calls  *)
(* of the operating system fail, under every policy; and then about        *)
(* Shutdown, for every number of commands, failures and rewrites: the      *)
(* log's behaviour within the server is one of AofWriter, and the snapshot *)
(* and the log together keep what they promise.                            *)
(***************************************************************************)
EXTENDS Shutdown, SequenceTheorems, FiniteSetTheorems, TLAPS

\* Everything in p comes before everything in q.
Before(p, q) == \A x \in ToSet(p), y \in ToSet(q) : x < y

Ordered(q) == q \in Seq(Commands) /\ Increasing(q)

-----------------------------------------------------------------------------
(***************************************************************************)
(* Sequences of commands.                                                  *)
(***************************************************************************)
LEMMA EmptyOrdered == Ordered(<<>>) /\ ToSet(<<>>) = {}
  BY DEF Ordered, Increasing, ToSet

LEMMA OrderedNumbers ==
  ASSUME NEW q, Ordered(q)
  PROVE  ToSet(q) \subseteq Commands /\ ToSet(q) \subseteq Nat
<1>1. \A i \in DOMAIN q : q[i] \in Commands
  BY LenProperties, ElementOfSeq DEF Ordered
<1> QED BY <1>1 DEF ToSet, Commands

\* A later command at the end keeps the order.
LEMMA AppendOrdered ==
  ASSUME NEW q, Ordered(q), NEW c \in Commands, \A x \in ToSet(q) : x < c
  PROVE  Ordered(Append(q, c)) /\ ToSet(Append(q, c)) = ToSet(q) \cup {c}
<1> DEFINE n == Len(q)
           a == Append(q, c)
<1>1. /\ n \in Nat /\ DOMAIN q = 1..n
      /\ a \in Seq(Commands) /\ DOMAIN a = 1..(n + 1)
      /\ \A i \in 1..n : a[i] = q[i]
      /\ a[n + 1] = c
  BY AppendProperties, LenProperties DEF Ordered
<1> HIDE DEF a, n
<1>2. \A i \in 1..n : q[i] \in ToSet(q) /\ q[i] < c
  BY <1>1 DEF ToSet
<1>3. Increasing(a)
  BY <1>1, <1>2 DEF Ordered, Increasing, Commands
<1>4. ToSet(a) = ToSet(q) \cup {c}
  BY <1>1 DEF ToSet
<1> QED BY <1>1, <1>3, <1>4 DEF Ordered, a

\* So does a sequence of later commands.
LEMMA ConcatOrdered ==
  ASSUME NEW p, NEW q, Ordered(p), Ordered(q), Before(p, q)
  PROVE  Ordered(p \o q) /\ ToSet(p \o q) = ToSet(p) \cup ToSet(q)
<1> DEFINE m == Len(p)
           n == Len(q)
           a == p \o q
<1>1. /\ m \in Nat /\ DOMAIN p = 1..m
      /\ n \in Nat /\ DOMAIN q = 1..n
      /\ a \in Seq(Commands) /\ DOMAIN a = 1..(m + n)
      /\ \A i \in 1..(m + n) : a[i] = IF i <= m THEN p[i] ELSE q[i - m]
  BY ConcatProperties, LenProperties DEF Ordered
<1> HIDE DEF a, m, n
<1>2. \A i \in 1..m, j \in 1..n : p[i] < q[j]
  BY <1>1 DEF Before, ToSet
<1>3. Increasing(a)
  <2> SUFFICES ASSUME NEW i \in 1..(m + n), NEW j \in 1..(m + n), i < j
               PROVE  a[i] < a[j]
    BY <1>1 DEF Increasing
  <2>1. CASE j <= m
    <3>1. i \in 1..m /\ j \in 1..m /\ a[i] = p[i] /\ a[j] = p[j]
      BY <1>1, <2>1
    <3> QED BY <1>1, <3>1 DEF Ordered, Increasing
  <2>2. CASE i <= m /\ j > m
    <3>1. i \in 1..m /\ j - m \in 1..n /\ a[i] = p[i] /\ a[j] = q[j - m]
      BY <1>1, <2>2
    <3> QED BY <1>2, <3>1
  <2>3. CASE i > m
    <3>1. i - m \in 1..n /\ j - m \in 1..n /\ i - m < j - m
          /\ a[i] = q[i - m] /\ a[j] = q[j - m]
      BY <1>1, <2>3
    <3> QED BY <1>1, <3>1 DEF Ordered, Increasing
  <2> QED BY <1>1, <2>1, <2>2, <2>3
<1>4. ToSet(a) \subseteq ToSet(p) \cup ToSet(q)
  <2> SUFFICES ASSUME NEW i \in 1..(m + n)
               PROVE  a[i] \in ToSet(p) \cup ToSet(q)
    BY <1>1 DEF ToSet
  <2>1. CASE i <= m
    BY <1>1, <2>1 DEF ToSet
  <2>2. CASE i > m
    <3>1. i - m \in 1..n /\ a[i] = q[i - m]
      BY <1>1, <2>2
    <3> QED BY <1>1, <3>1 DEF ToSet
  <2> QED BY <1>1, <2>1, <2>2
<1>5. ToSet(p) \subseteq ToSet(a)
  BY <1>1 DEF ToSet
<1>6. ToSet(q) \subseteq ToSet(a)
  <2> SUFFICES ASSUME NEW j \in 1..n PROVE q[j] \in ToSet(a)
    BY <1>1 DEF ToSet
  <2>1. m + j \in 1..(m + n) /\ a[m + j] = q[j]
    BY <1>1
  <2> QED BY <1>1, <2>1 DEF ToSet
<1> QED BY <1>1, <1>3, <1>4, <1>5, <1>6 DEF Ordered, a

\* The durable part of the file does not depend on what is written behind it.
LEMMA DurablePart ==
  ASSUME NEW q \in Seq(Commands), NEW s \in 0..Len(q)
  PROVE  /\ ToSet(SubSeq(q, 1, s)) \subseteq ToSet(q)
         /\ SubSeq(q, 1, Len(q)) = q
         /\ \A c \in Commands :
              /\ s \in 0..Len(Append(q, c))
              /\ SubSeq(Append(q, c), 1, s) = SubSeq(q, 1, s)
<1> DEFINE n == Len(q)
<1>1. n \in Nat /\ s \in 0..n /\ DOMAIN q = 1..n /\ \A i \in 1..n : q[i] \in Commands
  BY LenProperties, ElementOfSeq
<1>2. \A t \in 0..n : /\ SubSeq(q, 1, t) \in Seq(Commands)
                      /\ Len(SubSeq(q, 1, t)) = t
                      /\ \A i \in 1..t : SubSeq(q, 1, t)[i] = q[i]
  BY <1>1, SubSeqProperties
<1>3. ToSet(SubSeq(q, 1, s)) \subseteq ToSet(q)
  <2>1. DOMAIN SubSeq(q, 1, s) = 1..s
    BY <1>1, <1>2, LenProperties
  <2> QED BY <1>1, <1>2, <2>1 DEF ToSet
<1>4. SubSeq(q, 1, n) = q
  <2>1. n \in 0..n
    BY <1>1
  <2> QED BY <1>1, <1>2, <2>1, SeqEqual
<1>5. ASSUME NEW c \in Commands
      PROVE  /\ s \in 0..Len(Append(q, c))
             /\ SubSeq(Append(q, c), 1, s) = SubSeq(q, 1, s)
  <2> DEFINE a == Append(q, c)
  <2>1. /\ a \in Seq(Commands) /\ Len(a) = n + 1
        /\ \A i \in 1..n : a[i] = q[i]
    BY <1>1, AppendProperties
  <2> HIDE DEF a
  <2>2. \A i \in 1..s : a[i] \in Commands
    BY <1>1, <2>1
  <2>3. /\ SubSeq(a, 1, s) \in Seq(Commands) /\ Len(SubSeq(a, 1, s)) = s
        /\ \A i \in 1..s : SubSeq(a, 1, s)[i] = q[i]
    BY <1>1, <2>1, <2>2, SubSeqProperties
  <2>4. SubSeq(a, 1, s) = SubSeq(q, 1, s)
    BY <1>1, <1>2, <2>3, SeqEqual
  <2> QED BY <1>1, <2>1, <2>4 DEF a
<1> QED BY <1>3, <1>4, <1>5

-----------------------------------------------------------------------------
(***************************************************************************)
(* The inductive invariant.  That the file is in order needs that all that *)
(* a rewrite gathers is, and older than whatever comes next; that nothing  *)
(* is lost needs that at every stage of a rewrite the pieces of its file   *)
(* hold what has been acknowledged, and that once there is nothing to add  *)
(* to them the old file is closed, which exposes every later command.      *)
(***************************************************************************)
Gathered == ToSet(file) \cup ToSet(temp) \cup ToSet(taken) \cup ToSet(buffer)

InOrder ==
  /\ Ordered(applied) /\ Ordered(file)
  /\ Ordered(temp) /\ Ordered(taken) /\ Ordered(buffer)
  /\ Before(temp, taken) /\ Before(temp, buffer) /\ Before(taken, buffer)
  /\ Gathered \subseteq ToSet(applied)
  /\ \A c \in ToSet(applied) : c <= executed

Covers(lines) == acked \subseteq lines \cup Exposed

NothingLost ==
  /\ Covers(ToSet(file))
  /\ phase = "writing"   => Covers(ToSet(temp) \cup ToSet(buffer))
  /\ phase = "appending" => Covers(ToSet(temp) \cup ToSet(taken))
  /\ phase = "renaming"  => Covers(ToSet(temp)) /\ fd # "open"

InSync == SyncedUnlessRewritten /\ CleanCoversWrites

IInv == TypeOK /\ InOrder /\ NothingLost /\ InSync

LEMMA InitIInv == Init => IInv
<1> SUFFICES ASSUME Init PROVE IInv
  OBVIOUS
<1>1. TypeOK
  <2>1. <<>> \in Seq(Commands) /\ Len(<<>>) = 0
    BY EmptySeq
  <2>2. 0 \in 0..MaxCommands /\ 0 \in 0..0
    BY CommandAssumption
  <2> QED BY <2>1, <2>2 DEF Init, TypeOK
<1>2. InOrder
  BY EmptyOrdered DEF Init, InOrder, Gathered, Before
<1>3. NothingLost
  BY DEF Init, NothingLost, Covers
<1>4. InSync
  BY DEF Init, InSync, SyncedUnlessRewritten, CleanCoversWrites
<1> QED BY <1>1, <1>2, <1>3, <1>4 DEF IInv

\* A command is later than all that have been gathered.
LEMMA ExecuteIInv == IInv /\ Execute /\ UNCHANGED policy => IInv'
<1> SUFFICES ASSUME IInv, Execute, UNCHANGED policy PROVE IInv'
  OBVIOUS
<1> DEFINE c == executed + 1
<1>1. c \in Commands /\ executed' = c /\ applied' = Append(applied, c)
  BY CommandAssumption DEF IInv, TypeOK, Execute, Commands
<1>2. UNCHANGED <<inherited, fd, phase, temp, taken, life, policy>>
  BY DEF Execute
<1>3. \A x \in ToSet(applied) : x < c
  <2>1. ToSet(applied) \subseteq Nat /\ executed \in Nat
    BY OrderedNumbers DEF IInv, TypeOK, InOrder
  <2> QED BY <2>1 DEF IInv, InOrder
<1>4. Ordered(applied') /\ ToSet(applied') = ToSet(applied) \cup {c}
  BY <1>1, <1>3, AppendOrdered DEF IInv, InOrder
<1>5. \/ file' = file
      \/ file' = Append(file, c) /\ fd = "open"
  BY DEF Execute, Logged, NotSynced, NotWritten, Refused, WrittenElsewhere, NotLogged
<1>6. Ordered(file') /\ ToSet(file') \in {ToSet(file), ToSet(file) \cup {c}}
  <2>1. \A x \in ToSet(file) : x < c
    BY <1>3 DEF IInv, InOrder, Gathered
  <2> QED BY <1>1, <1>5, <2>1, AppendOrdered DEF IInv, InOrder
<1>7. buffer' \in {buffer, Append(buffer, c)}
  BY DEF Execute, Logged, NotSynced, NotWritten, Refused, WrittenElsewhere, NotLogged, buffered
<1>8. Ordered(buffer') /\ ToSet(buffer') \in {ToSet(buffer), ToSet(buffer) \cup {c}}
  <2>1. \A x \in ToSet(buffer) : x < c
    BY <1>3 DEF IInv, InOrder, Gathered
  <2> QED BY <1>1, <1>7, <2>1, AppendOrdered DEF IInv, InOrder
<1>9. InOrder'
  <2>1. Before(temp', buffer') /\ Before(taken', buffer') /\ Before(temp', taken')
    BY <1>2, <1>3, <1>8 DEF IInv, InOrder, Gathered, Before
  <2>2. Gathered' \subseteq ToSet(applied')
    BY <1>2, <1>4, <1>6, <1>8 DEF IInv, InOrder, Gathered
  <2>3. \A x \in ToSet(applied') : x <= executed'
    <3>1. ToSet(applied) \subseteq Nat /\ executed \in Nat
      BY OrderedNumbers DEF IInv, TypeOK, InOrder
    <3> QED BY <1>1, <1>4, <3>1 DEF IInv, InOrder
  <2> QED BY <1>2, <1>4, <1>6, <1>8, <2>1, <2>2, <2>3 DEF IInv, InOrder
<1>10. /\ synced \in 0..Len(file')
       /\ SubSeq(file', 1, synced) = SubSeq(file, 1, synced)
       /\ Len(file') \in 0..Len(file') /\ SubSeq(file', 1, Len(file')) = file'
  <2>1. file' \in Seq(Commands) /\ Len(file') \in Nat /\ synced \in 0..Len(file)
        /\ file \in Seq(Commands)
    BY <1>6, LenProperties DEF Ordered, IInv, TypeOK
  <2>2. Len(file') \in 0..Len(file')
    BY <2>1
  <2>3. SubSeq(file', 1, synced) = SubSeq(file, 1, synced) /\ synced \in 0..Len(file')
    <3>1. CASE file' = file
      BY <2>1, <3>1
    <3>2. CASE file' = Append(file, c)
      BY <1>1, <2>1, <3>2, DurablePart
    <3> QED BY <1>5, <3>1, <3>2
  <2>4. SubSeq(file', 1, Len(file')) = file'
    BY <2>1, DurablePart
  <2> QED BY <2>2, <2>3, <2>4
<1>11. TypeOK'
  <2>1. synced' \in 0..Len(file')
    BY <1>10 DEF Execute, Logged, NotSynced, NotWritten, Refused, WrittenElsewhere, NotLogged
  <2>2. dirty' \in BOOLEAN
    BY DEF IInv, TypeOK, Execute, Logged, NotSynced, NotWritten, Refused, WrittenElsewhere, NotLogged
  <2>3. UNION {acked', handedOver', fileless'} \subseteq Commands
    <3>1. acked' \subseteq acked \cup {c}
      BY DEF Execute, Logged, NotSynced, NotWritten, Refused, WrittenElsewhere, NotLogged
    <3>2. handedOver' \subseteq handedOver \cup {c} /\ fileless' \subseteq fileless \cup {c}
      BY DEF Execute
    <3> QED BY <1>1, <3>1, <3>2 DEF IInv, TypeOK
  <2>4. executed' \in 0..MaxCommands
    BY <1>1, CommandAssumption DEF Commands
  <2> QED BY <1>2, <1>4, <1>6, <1>8, <2>1, <2>2, <2>3, <2>4 DEF IInv, TypeOK, Ordered
<1>12. /\ acked' \subseteq acked \cup {c} /\ Exposed \subseteq Exposed'
       /\ fd # "open" \/ phase = "appending" => c \in Exposed'
  BY DEF Execute, Logged, NotSynced, NotWritten, Refused, WrittenElsewhere, NotLogged, Exposed
<1>13. c \in acked' => \/ c \in acked \/ fd # "open"
                       \/ c \in ToSet(file') /\ (phase = "writing" => c \in ToSet(buffer'))
  <2>1. CASE Logged(c)
    <3>1. c \in ToSet(file')
      <4>1. \A x \in ToSet(file) : x < c
        BY <1>3 DEF IInv, InOrder, Gathered
      <4> QED BY <1>1, <2>1, <4>1, AppendOrdered DEF Logged, IInv, InOrder
    <3>2. phase = "writing" => c \in ToSet(buffer')
      <4>1. \A x \in ToSet(buffer) : x < c
        BY <1>3 DEF IInv, InOrder, Gathered
      <4> QED BY <1>1, <2>1, <4>1, AppendOrdered DEF Logged, buffered, IInv, InOrder
    <3> QED BY <3>1, <3>2
  <2>2. CASE ~Logged(c)
    BY <2>2 DEF Execute, NotSynced, NotWritten, Refused, WrittenElsewhere, NotLogged
  <2> QED BY <2>1, <2>2
<1>14. ToSet(file) \subseteq ToSet(file') /\ ToSet(buffer) \subseteq ToSet(buffer')
  BY <1>6, <1>8
<1>15. NothingLost'
  BY <1>2, <1>12, <1>13, <1>14 DEF IInv, NothingLost, Covers
<1>16. SyncedUnlessRewritten'
  <2> SUFFICES ASSUME policy = "always", synced' > 0
               PROVE  acked' \subseteq ToSet(Durable') \cup Exposed'
    BY <1>2 DEF SyncedUnlessRewritten
  <2>1. CASE Logged(c)
    <3>1. synced' = Len(file')
      BY <2>1 DEF Logged
    <3>2. Durable' = file'
      BY <1>10, <3>1 DEF Durable
    <3> QED BY <1>15, <3>2 DEF NothingLost, Covers
  <2>2. CASE ~Logged(c)
    <3>1. synced' = synced
      BY <2>2 DEF Execute, NotSynced, NotWritten, Refused, WrittenElsewhere, NotLogged
    <3>2. Durable' = Durable
      BY <1>10, <3>1 DEF Durable
    <3>3. c \in acked' => c \in acked \/ fd # "open"
      BY <2>2 DEF Execute, NotSynced, NotWritten, Refused, WrittenElsewhere, NotLogged
    <3> QED BY <1>12, <3>1, <3>2, <3>3 DEF IInv, InSync, SyncedUnlessRewritten
  <2> QED BY <2>1, <2>2
<1>17. CleanCoversWrites'
  <2> SUFFICES ASSUME policy = "everysec", life = "running", fd = "open", ~dirty'
               PROVE  Durable' = file' \/ Len(file') = inherited'
    BY <1>2 DEF CleanCoversWrites
  <2>1. NotWritten(c)
    BY DEF Execute, Logged, NotSynced, NotWritten, Refused, WrittenElsewhere, NotLogged
  <2> QED BY <1>2, <2>1 DEF NotWritten, Durable, IInv, InSync, CleanCoversWrites
<1> QED BY <1>9, <1>11, <1>15, <1>16, <1>17 DEF IInv, InSync

\* The sync and the stop only change how much of the file is on the disk.
LEMMA SyncIInv == IInv /\ (SyncTimer \/ Stop) /\ UNCHANGED policy => IInv'
<1> SUFFICES ASSUME IInv, SyncTimer \/ Stop, UNCHANGED policy PROVE IInv'
  OBVIOUS
<1>1. /\ UNCHANGED <<file, inherited, rewriteVars, historyVars, policy>>
      /\ fd' \in {fd, "none"}
  BY DEF SyncTimer, Stop
<1>2. InOrder'
  BY <1>1 DEF rewriteVars, historyVars, IInv, InOrder, Gathered
<1>3. NothingLost'
  BY <1>1 DEF rewriteVars, historyVars, IInv, NothingLost, Covers, Exposed
<1>4. /\ file \in Seq(Commands) /\ Len(file) \in 0..Len(file)
      /\ SubSeq(file, 1, Len(file)) = file
  <2>1. file \in Seq(Commands) /\ Len(file) \in Nat
    BY LenProperties DEF IInv, TypeOK
  <2>2. Len(file) \in 0..Len(file)
    BY <2>1
  <2> QED BY <2>1, <2>2, DurablePart
<1>5. TypeOK'
  BY <1>1, <1>4 DEF rewriteVars, historyVars, IInv, TypeOK, SyncTimer, Stop
<1>6. synced' = synced \/ Durable' = file
  BY <1>1, <1>4 DEF SyncTimer, Stop, Durable
<1>7. SyncedUnlessRewritten'
  <2>1. CASE synced' = synced
    BY <1>1, <2>1 DEF historyVars, IInv, InSync, SyncedUnlessRewritten, Durable, Exposed
  <2>2. CASE Durable' = file
    BY <1>1, <1>3, <2>2 DEF SyncedUnlessRewritten, NothingLost, Covers
  <2> QED BY <1>6, <2>1, <2>2
<1>8. CleanCoversWrites'
  <2>1. CASE SyncTimer
    BY <1>1, <1>4, <2>1 DEF SyncTimer, CleanCoversWrites, Durable
  <2>2. CASE Stop
    BY <2>2 DEF Stop, CleanCoversWrites
  <2> QED BY <2>1, <2>2
<1> QED BY <1>2, <1>3, <1>5, <1>7, <1>8 DEF IInv, InSync

\* The steps of a rewrite before the rename leave the file and what is on the disk alone.
LEMMA FileUnchanged ==
  IInv /\ UNCHANGED <<policy, file, inherited, synced, dirty, life, historyVars>>
       /\ fd' \in {fd, "closed"}
    => InSync' /\ Covers(ToSet(file))'
  BY DEF historyVars, IInv, InSync, SyncedUnlessRewritten, CleanCoversWrites, Durable,
         NothingLost, Covers, Exposed

LEMMA BeginRewriteIInv == IInv /\ BeginRewrite /\ UNCHANGED policy => IInv'
<1> SUFFICES ASSUME IInv, BeginRewrite, UNCHANGED policy PROVE IInv'
  OBVIOUS
<1>1. /\ UNCHANGED <<policy, file, inherited, synced, fd, dirty, life>>
      /\ UNCHANGED <<executed, applied, acked, handedOver, fileless>>
      /\ phase' = "writing" /\ temp' = applied /\ buffer' = <<>> /\ taken' = <<>>
  BY DEF BeginRewrite, logVars, historyVars
<1>2. InSync' /\ Covers(ToSet(file))'
  BY <1>1, FileUnchanged DEF historyVars
<1>3. TypeOK'
  BY <1>1, EmptyOrdered DEF IInv, TypeOK, Ordered
<1>4. InOrder'
  BY <1>1, EmptyOrdered DEF IInv, InOrder, Gathered, Before
<1>5. NothingLost'
  <2>1. ToSet(file) \subseteq ToSet(applied)
    BY DEF IInv, InOrder, Gathered
  <2> QED BY <1>1, <1>2, <2>1 DEF NothingLost, Covers
<1> QED BY <1>2, <1>3, <1>4, <1>5 DEF IInv

\* The buffer is empty or becomes what is to be appended.
LEMMA TempWrittenIInv == IInv /\ TempWritten /\ UNCHANGED policy => IInv'
<1> SUFFICES ASSUME IInv, TempWritten, UNCHANGED policy PROVE IInv'
  OBVIOUS
<1>1. /\ UNCHANGED <<policy, file, inherited, synced, dirty, life, historyVars, temp>>
      /\ phase = "writing" /\ buffer' = <<>> /\ taken' \in {<<>>, buffer}
      /\ fd' \in {fd, "closed"} /\ phase' \in {"idle", "appending", "renaming"}
  BY DEF TempWritten, RewriteFails, CloseOld
<1>2. InSync' /\ Covers(ToSet(file))'
  BY <1>1, FileUnchanged
<1>3. TypeOK'
  BY <1>1, EmptyOrdered DEF historyVars, IInv, TypeOK, Ordered
<1>4. InOrder'
  BY <1>1, EmptyOrdered DEF historyVars, IInv, InOrder, Gathered, Before
<1>5. NothingLost'
  <2>2. Covers(ToSet(temp) \cup ToSet(buffer))
    BY <1>1 DEF IInv, NothingLost
  <2>3. CASE phase' = "appending"
    <3>1. taken' = buffer
      BY <2>3 DEF TempWritten, RewriteFails, CloseOld
    <3> QED BY <1>1, <1>2, <2>2, <2>3, <3>1 DEF historyVars, NothingLost, Covers, Exposed
  <2>4. CASE phase' = "renaming"
    <3>1. buffer = <<>> /\ fd' # "open"
      BY <2>4 DEF TempWritten, RewriteFails, CloseOld
    <3> QED BY <1>1, <1>2, <2>2, <2>4, <3>1, EmptyOrdered
            DEF historyVars, NothingLost, Covers, Exposed
  <2>5. CASE phase' = "idle"
    BY <1>2, <2>5 DEF NothingLost
  <2> QED BY <1>1, <2>3, <2>4, <2>5
<1> QED BY <1>2, <1>3, <1>4, <1>5 DEF IInv

LEMMA BufferAppendedIInv == IInv /\ BufferAppended /\ UNCHANGED policy => IInv'
<1> SUFFICES ASSUME IInv, BufferAppended, UNCHANGED policy PROVE IInv'
  OBVIOUS
<1>1. /\ UNCHANGED <<policy, file, inherited, synced, dirty, life, historyVars>>
      /\ phase = "appending" /\ taken' = <<>> /\ buffer' \in {<<>>, buffer}
      /\ temp' \in {temp, temp \o taken}
      /\ fd' \in {fd, "closed"} /\ phase' \in {"idle", "renaming"}
  BY DEF BufferAppended, RewriteFails, CloseOld, appended
<1>2. InSync' /\ Covers(ToSet(file))'
  BY <1>1, FileUnchanged
<1>3. /\ Ordered(temp') /\ Ordered(temp \o taken)
      /\ ToSet(temp \o taken) = ToSet(temp) \cup ToSet(taken)
  BY <1>1, ConcatOrdered DEF IInv, InOrder
<1>4. TypeOK'
  BY <1>1, <1>3, EmptyOrdered DEF historyVars, IInv, TypeOK, Ordered
<1>5. InOrder'
  <2>1. ToSet(temp') \subseteq ToSet(temp) \cup ToSet(taken)
    BY <1>1, <1>3
  <2>2. ToSet(buffer') \subseteq ToSet(buffer) /\ ToSet(taken') = {}
    BY <1>1, EmptyOrdered
  <2>3. Before(temp', buffer') /\ Before(temp', taken') /\ Before(taken', buffer')
    BY <2>1, <2>2 DEF IInv, InOrder, Before
  <2>4. Ordered(buffer') /\ Ordered(taken')
    BY <1>1, EmptyOrdered DEF IInv, InOrder
  <2>5. Gathered' \subseteq ToSet(applied)
    BY <1>1, <2>1, <2>2 DEF IInv, InOrder, Gathered
  <2> QED BY <1>1, <1>3, <2>3, <2>4, <2>5 DEF historyVars, IInv, InOrder
<1>6. NothingLost'
  <2>1. CASE phase' = "renaming"
    <3>1. temp' = temp \o taken /\ fd' # "open"
      BY <2>1 DEF BufferAppended, RewriteFails, CloseOld, appended
    <3>2. Covers(ToSet(temp) \cup ToSet(taken))
      BY <1>1 DEF IInv, NothingLost
    <3> QED BY <1>1, <1>2, <1>3, <2>1, <3>1, <3>2 DEF historyVars, NothingLost, Covers, Exposed
  <2>2. CASE phase' = "idle"
    BY <1>2, <2>2 DEF NothingLost
  <2> QED BY <1>1, <2>1, <2>2
<1> QED BY <1>2, <1>4, <1>5, <1>6 DEF IInv

\* The temporary file has all that is acknowledged, and none of it synced.
LEMMA RenamedIInv == IInv /\ Renamed /\ UNCHANGED policy => IInv'
<1> SUFFICES ASSUME IInv, Renamed, UNCHANGED policy PROVE IInv'
  OBVIOUS
<1>1. /\ UNCHANGED <<policy, dirty, life, historyVars>>
      /\ phase = "renaming" /\ phase' = "idle" /\ taken' = <<>> /\ buffer' = <<>>
  BY DEF Renamed, RewriteFails
<1>2. CASE UNCHANGED <<file, inherited, synced, fd, temp>>
  <2>1. InSync' /\ Covers(ToSet(file))'
    BY <1>1, <1>2, FileUnchanged
  <2>2. TypeOK'
    BY <1>1, <1>2, EmptyOrdered DEF historyVars, IInv, TypeOK, Ordered
  <2>3. InOrder'
    BY <1>1, <1>2, EmptyOrdered DEF historyVars, IInv, InOrder, Gathered, Before
  <2>4. NothingLost'
    BY <1>1, <2>1 DEF NothingLost
  <2> QED BY <2>1, <2>2, <2>3, <2>4 DEF IInv
<1>3. CASE /\ file' = temp /\ inherited' = Len(temp) /\ synced' = 0
           /\ temp' = <<>> /\ fd' \in {"open", fd}
  <2>1. temp \in Seq(Commands) /\ Len(temp) \in Nat /\ 0 \in 0..Len(temp)
    BY LenProperties DEF IInv, TypeOK
  <2>2. TypeOK'
    BY <1>1, <1>3, <2>1, EmptyOrdered DEF historyVars, IInv, TypeOK, Ordered
  <2>3. InOrder'
    BY <1>1, <1>3, EmptyOrdered DEF historyVars, IInv, InOrder, Gathered, Before
  <2>4. NothingLost'
    BY <1>1, <1>3 DEF historyVars, IInv, NothingLost, Covers, Exposed
  <2>5. InSync'
    BY <1>3 DEF InSync, SyncedUnlessRewritten, CleanCoversWrites
  <2> QED BY <2>2, <2>3, <2>4, <2>5 DEF IInv
<1> QED BY <1>2, <1>3 DEF Renamed, RewriteFails

\* A restart has what the file has.
LEMMA RestartIInv == IInv /\ Restart /\ UNCHANGED policy => IInv'
<1> SUFFICES ASSUME IInv, Restart, UNCHANGED policy PROVE IInv'
  OBVIOUS
<1>1. /\ UNCHANGED <<policy, file, synced, executed, acked, handedOver, fileless>>
      /\ applied' = file /\ inherited' = Len(file) /\ phase' = "idle"
      /\ buffer' = <<>> /\ taken' = <<>> /\ temp' = <<>>
  BY DEF Restart
<1>2. TypeOK'
  <2>1. Len(file) \in Nat
    BY LenProperties DEF IInv, TypeOK
  <2> QED BY <1>1, <2>1, EmptyOrdered DEF Restart, IInv, TypeOK, Ordered
<1>3. InOrder'
  BY <1>1, EmptyOrdered DEF IInv, InOrder, Gathered, Before
<1>4. NothingLost'
  BY <1>1 DEF IInv, NothingLost, Covers, Exposed
<1>5. InSync'
  BY <1>1 DEF IInv, InSync, SyncedUnlessRewritten, CleanCoversWrites, Durable, Exposed
<1> QED BY <1>2, <1>3, <1>4, <1>5 DEF IInv

LEMMA StutterIInv == IInv /\ UNCHANGED vars => IInv'
<1> SUFFICES ASSUME IInv, UNCHANGED vars PROVE IInv'
  OBVIOUS
<1>1. TypeOK'
  BY DEF vars, logVars, rewriteVars, historyVars, IInv, TypeOK
<1>2. InOrder'
  BY DEF vars, logVars, rewriteVars, historyVars, IInv, InOrder, Gathered
<1>3. NothingLost'
  BY DEF vars, logVars, rewriteVars, historyVars, IInv, NothingLost, Covers, Exposed
<1>4. InSync'
  BY DEF vars, logVars, rewriteVars, historyVars, IInv, InSync, SyncedUnlessRewritten,
         CleanCoversWrites, Durable, Exposed
<1> QED BY <1>1, <1>2, <1>3, <1>4 DEF IInv

LEMMA AofInvariant == Spec => []IInv
<1>1. IInv /\ [Next]_vars => IInv'
  BY ExecuteIInv, SyncIInv, BeginRewriteIInv, TempWrittenIInv, BufferAppendedIInv,
     RenamedIInv, RestartIInv, StutterIInv DEF Next
<1> QED BY <1>1, InitIInv, PTL DEF Spec

-----------------------------------------------------------------------------
(***************************************************************************)
(* The theorems.                                                           *)
(***************************************************************************)
\* However rewrites, crashes and restarts alternate, the file lists executed
\* commands in the order of their execution, each once.
THEOREM InOrderOnceHolds == Spec => []InOrderOnce
<1>1. IInv => InOrderOnce
  BY DEF IInv, InOrder, Ordered, Gathered, InOrderOnce
<1> QED BY <1>1, AofInvariant, PTL

\* Whatever fails, an acknowledged command is in the file unless it was executed
\* while a rewrite ended or the file was not open.
THEOREM LossOnlyWhenExposedHolds == Spec => []LossOnlyWhenExposed
<1>1. IInv => LossOnlyWhenExposed
  BY DEF IInv, NothingLost, Covers, LossOnlyWhenExposed
<1> QED BY <1>1, AofInvariant, PTL

\* Under "always" it is on the disk, unless a rewrite has just replaced the file.
THEOREM SyncedUnlessRewrittenHolds == Spec => []SyncedUnlessRewritten
<1>1. IInv => SyncedUnlessRewritten
  BY DEF IInv, InSync
<1> QED BY <1>1, AofInvariant, PTL

\* Under "everysec" a writer with nothing left to sync has the file on the disk
\* as soon as it has written a line to it.
THEOREM CleanCoversWritesHolds == Spec => []CleanCoversWrites
<1>1. IInv => CleanCoversWrites
  BY DEF IInv, InSync
<1> QED BY <1>1, AofInvariant, PTL

-----------------------------------------------------------------------------
(***************************************************************************)
(* The server about the log.                                               *)
(***************************************************************************)
\* The server drives the log as AofWriter allows.
LEMMA LogStepsAllowed == [ServerNext]_serverVars => [Next]_vars
<1> SUFFICES ASSUME [ServerNext]_serverVars PROVE [Next]_vars
  OBVIOUS
<1>1. CASE UNCHANGED serverVars
  BY <1>1 DEF serverVars, aofVars, vars
<1>2. CASE ServerNext
  <2>1. CASE Command
    BY <1>2, <2>1 DEF ServerNext, Command, Next
  <2>2. CASE LogStep
    BY <1>2, <2>2 DEF ServerNext, LogStep, Next
  <2>3. CASE TimerTick \/ BgSave
    BY <2>3 DEF TimerTick, BgSave, aofVars, vars
  <2>4. CASE \E s \in Savers : TempOpened(s) \/ TempFilled(s) \/ DumpRenamed(s) \/ SaveFails(s)
    BY <2>4 DEF TempOpened, TempFilled, DumpRenamed, SaveFails, Ended, aofVars, vars
  <2>5. CASE Signal
    BY <1>2, <2>5 DEF ServerNext, Signal, Next
  <2>6. CASE StatsStopped \/ Exit
    BY <2>6 DEF StatsStopped, Exit, Proceed, aofVars, vars
  <2> QED BY <1>2, <2>1, <2>2, <2>3, <2>4, <2>5, <2>6 DEF ServerNext
<1> QED BY <1>1, <1>2

\* Within the server the log is the one that AofWriter describes: whatever is
\* proved of it there holds here.
THEOREM ServerRunsLog == ServerSpec => Spec
<1>1. ServerInit => Init
  BY DEF ServerInit
<1> QED BY <1>1, LogStepsAllowed, PTL DEF ServerSpec, Spec

-----------------------------------------------------------------------------
(***************************************************************************)
(* The inductive invariant.  There is no restart, so the contents at any   *)
(* time are the first so many commands, and what a save has taken is such  *)
(* a prefix with the count that belongs to it.  At most one save is under  *)
(* way, which is why the temporary file is its own, and it is not older    *)
(* than the snapshot that it will replace.                                 *)
(***************************************************************************)
Prefix(n) == [i \in 1..n |-> i]
CountedUpTo(n) == Cardinality(counted \cap (1..n))

Saving(s) == saver[s].phase # "idle"

Contents ==
  /\ executed \in Nat /\ applied = Prefix(executed)
  /\ counted \subseteq 1..executed

Snapshot ==
  \E n \in 0..executed : dump = Prefix(n) /\ lastSaved = CountedUpTo(n)

Saves ==
  /\ saver \in [Savers -> [phase : {"idle", "writing", "filling", "renaming"},
                           contents : Seq(Nat), count : Nat]]
  /\ \A s \in Savers : Saving(s) =>
       \E n \in Len(dump)..executed :
         saver[s].contents = Prefix(n) /\ saver[s].count = CountedUpTo(n)
  /\ \A s, t \in Savers : Saving(s) /\ Saving(t) => s = t
  /\ \A s \in Savers : saver[s].phase = "renaming" => dumpTemp = saver[s].contents

Ending ==
  /\ atSignal \in 0..executed
  /\ stage = "serving" => lastSave = "none"
  /\ Saving("shutdown") => stage = "saving" /\ atSignal <= Len(saver["shutdown"].contents)
  /\ lastSave = "saved" => atSignal <= Len(dump)

ServerInv == Contents /\ Snapshot /\ Saves /\ Ending

LEMMA PrefixProperties ==
  ASSUME NEW n \in Nat
  PROVE  /\ Prefix(n) \in Seq(Nat) /\ Len(Prefix(n)) = n /\ ToSet(Prefix(n)) = 1..n
         /\ Append(Prefix(n), n + 1) = Prefix(n + 1)
<1>1. Prefix(n) \in Seq(Nat) /\ Len(Prefix(n)) = n /\ DOMAIN Prefix(n) = 1..n
  BY IsASeq, LenProperties DEF Prefix
<1>2. ToSet(Prefix(n)) = 1..n
  BY <1>1 DEF ToSet, Prefix
<1>3. Append(Prefix(n), n + 1) = Prefix(n + 1)
  <2> DEFINE a == Append(Prefix(n), n + 1)
             b == Prefix(n + 1)
  <2>1. /\ a \in Seq(Nat) /\ Len(a) = n + 1
        /\ \A i \in 1..n : a[i] = Prefix(n)[i]
        /\ a[n + 1] = n + 1
    BY <1>1, AppendProperties
  <2>2. b \in Seq(Nat) /\ Len(b) = n + 1 /\ \A i \in 1..(n + 1) : b[i] = i
    BY IsASeq DEF Prefix
  <2>3. \A i \in 1..(n + 1) : a[i] = i
    BY <2>1 DEF Prefix
  <2> HIDE DEF a, b
  <2>4. a = b
    BY <2>1, <2>2, <2>3, SeqEqual
  <2> QED BY <2>4 DEF a, b
<1> QED BY <1>1, <1>2, <1>3

\* What is counted up to a command does not change with a later one.
LEMMA CountStays ==
  ASSUME Contents, counted' \in {counted, counted \cup {executed + 1}}, NEW n \in 0..executed
  PROVE  CountedUpTo(n)' = CountedUpTo(n)
<1>1. counted' \cap (1..n) = counted \cap (1..n)
  BY DEF Contents
<1> QED BY <1>1 DEF CountedUpTo

LEMMA CountIsNat ==
  ASSUME Contents, NEW n \in 0..executed
  PROVE  CountedUpTo(n) \in Nat /\ IsFiniteSet(counted) /\ IsFiniteSet(counted \cap (1..n))
<1>1. IsFiniteSet(1..executed)
  BY FS_Interval DEF Contents
<1>2. IsFiniteSet(counted) /\ IsFiniteSet(counted \cap (1..n))
  BY <1>1, FS_Subset DEF Contents
<1> QED BY <1>2, FS_CardinalityType DEF CountedUpTo

LEMMA InitServerInv == ServerInit => ServerInv
<1> SUFFICES ASSUME ServerInit PROVE ServerInv
  OBVIOUS
<1>1. Prefix(0) = <<>> /\ Len(<<>>) = 0 /\ <<>> \in Seq(Nat)
  BY PrefixProperties, EmptySeq
<1>2. Contents
  BY <1>1 DEF ServerInit, Init, Contents
<1>3. Snapshot
  <2>1. CountedUpTo(0) = 0
    BY FS_EmptySet DEF ServerInit, CountedUpTo
  <2> QED BY <1>1, <2>1 DEF ServerInit, Init, Snapshot
<1>4. Saves
  BY <1>1 DEF ServerInit, Saves, Saving, Idle
<1>5. Ending
  BY DEF ServerInit, Init, Ending, Saving, Idle, Savers
<1> QED BY <1>2, <1>3, <1>4, <1>5 DEF ServerInv

\* A command, or any other step of the log, leaves the saves alone.
LEMMA LogServerInv ==
  ASSUME ServerInv,
         \/ /\ executed' = executed + 1 /\ applied' = Append(applied, executed + 1)
            /\ counted' \in {counted, counted \cup {executed + 1}}
         \/ UNCHANGED <<executed, applied, counted>>,
         UNCHANGED <<stage, lastSaved, saver, dumpTemp, dump, atSignal, lastSave>>
  PROVE  ServerInv'
<1>1. CASE UNCHANGED <<executed, applied, counted>>
  BY <1>1 DEF ServerInv, Contents, Snapshot, Saves, Ending, Saving, CountedUpTo
<1>2. CASE /\ executed' = executed + 1 /\ applied' = Append(applied, executed + 1)
           /\ counted' \in {counted, counted \cup {executed + 1}}
  <2>1. \A n \in 0..executed : CountedUpTo(n)' = CountedUpTo(n)
    BY <1>2, CountStays DEF ServerInv
  <2>2. Contents'
    <3>1. executed \in Nat /\ applied = Prefix(executed) /\ counted \subseteq 1..executed
      BY DEF ServerInv, Contents
    <3>2. executed' \in Nat /\ executed + 1 \in 1..executed'
      BY <1>2, <3>1
    <3>3. applied' = Prefix(executed')
      BY <1>2, <3>1, PrefixProperties
    <3>4. 1..executed \subseteq 1..executed'
      BY <1>2, <3>1
    <3>5. counted' \subseteq 1..executed'
      BY <1>2, <3>1, <3>2, <3>4
    <3> QED BY <3>2, <3>3, <3>5 DEF Contents
  <2>3. Snapshot'
    <3>1. PICK n \in 0..executed : dump = Prefix(n) /\ lastSaved = CountedUpTo(n)
      BY DEF ServerInv, Snapshot
    <3>2. n \in 0..executed' /\ CountedUpTo(n)' = CountedUpTo(n)
      BY <1>2, <2>1 DEF ServerInv, Contents
    <3> QED BY <3>1, <3>2 DEF Snapshot
  <2>4. Saves'
    <3>1. ASSUME NEW s \in Savers, Saving(s)
          PROVE  \E n \in Len(dump)..executed' :
                   saver[s].contents = Prefix(n) /\ saver[s].count = CountedUpTo(n)'
      <4>1. PICK n \in Len(dump)..executed :
              saver[s].contents = Prefix(n) /\ saver[s].count = CountedUpTo(n)
        BY <3>1 DEF ServerInv, Saves
      <4>2. Len(dump) \in Nat
        BY PrefixProperties DEF ServerInv, Snapshot
      <4>3. n \in 0..executed /\ n \in Len(dump)..executed'
        BY <1>2, <4>2 DEF ServerInv, Contents
      <4> QED BY <2>1, <4>1, <4>3
    <3> QED BY <3>1 DEF ServerInv, Saves, Saving
  <2>5. Ending'
    BY <1>2 DEF ServerInv, Contents, Ending, Saving
  <2> QED BY <2>2, <2>3, <2>4, <2>5 DEF ServerInv
<1> QED BY <1>1, <1>2

\* The sizes of what is saved and being saved.
LEMMA Sizes ==
  ASSUME ServerInv
  PROVE  /\ Len(dump) \in 0..executed
         /\ \A s \in Savers : Saving(s) => Len(saver[s].contents) \in Len(dump)..executed
<1>1. Len(dump) \in 0..executed
  BY PrefixProperties DEF ServerInv, Snapshot
<1>2. ASSUME NEW s \in Savers, Saving(s)
      PROVE  Len(saver[s].contents) \in Len(dump)..executed
  <2>1. PICK n \in Len(dump)..executed : saver[s].contents = Prefix(n)
    BY <1>2 DEF ServerInv, Saves
  <2>2. n \in Nat
    BY <1>1
  <2> QED BY <2>1, <2>2, PrefixProperties
<1> QED BY <1>1, <1>2

\* A save takes the contents and their count, when none is under way.
LEMMA BeginServerInv ==
  ASSUME ServerInv, NEW s \in Savers, Begin(s), ~saveInProgress,
         UNCHANGED <<executed, applied, counted, lastSaved, dumpTemp, dump>>,
         \/ s # "shutdown" /\ UNCHANGED <<stage, atSignal, lastSave>>
         \/ /\ s = "shutdown" /\ stage = "serving" /\ stage' = "saving"
            /\ atSignal' = executed /\ UNCHANGED lastSave
  PROVE  ServerInv'
<1> DEFINE new == [phase |-> "writing", contents |-> applied, count |-> dirtyCount]
<1>1. saver' = [saver EXCEPT ![s] = new] /\ \A t \in Savers : ~Saving(t)
  BY DEF Begin, saveInProgress, Saving
<1>2. /\ new.contents = Prefix(executed) /\ new.count = CountedUpTo(executed)
      /\ new.contents \in Seq(Nat) /\ new.count \in Nat /\ executed \in 0..executed
  <2>1. counted \cap (1..executed) = counted
    BY DEF ServerInv, Contents
  <2>2. executed \in 0..executed
    BY DEF ServerInv, Contents
  <2> QED BY <2>1, <2>2, CountIsNat, PrefixProperties DEF ServerInv, Contents, CountedUpTo, dirtyCount
<1> HIDE DEF new
<1>3. new.phase = "writing" /\ new \in [phase : {"idle", "writing", "filling", "renaming"},
                                       contents : Seq(Nat), count : Nat]
  BY <1>2 DEF new
<1>4. saver \in [Savers -> [phase : {"idle", "writing", "filling", "renaming"},
                            contents : Seq(Nat), count : Nat]]
  BY DEF ServerInv, Saves
<1>5. saver'[s] = new /\ \A t \in Savers : t # s => saver'[t].phase = "idle"
  BY <1>1, <1>4 DEF Saving
<1>6. Contents' /\ Snapshot'
  BY DEF ServerInv, Contents, Snapshot, CountedUpTo
<1>7. Saves'
  <2>1. saver' \in [Savers -> [phase : {"idle", "writing", "filling", "renaming"},
                               contents : Seq(Nat), count : Nat]]
    BY <1>1, <1>3, <1>4
  <2>2. executed \in Len(dump)..executed
    BY <1>2, Sizes
  <2>3. \A t \in Savers : Saving(t)' => t = s
    BY <1>5 DEF Saving
  <2> QED BY <1>2, <1>3, <1>5, <2>1, <2>2, <2>3 DEF Saves, CountedUpTo
<1>8. Ending'
  <2>1. Len(new.contents) = executed
    BY <1>2, PrefixProperties DEF ServerInv, Contents
  <2>2. CASE s = "shutdown"
    BY <1>2, <1>5, <2>1, <2>2 DEF ServerInv, Ending, Saving
  <2>3. CASE s # "shutdown"
    BY <1>5, <2>3 DEF ServerInv, Ending, Saving, Savers
  <2> QED BY <2>2, <2>3
<1> QED BY <1>6, <1>7, <1>8 DEF ServerInv

\* A running save goes on, in the temporary file.
LEMMA TempServerInv ==
  ASSUME ServerInv, NEW s \in Savers, TempOpened(s) \/ TempFilled(s)
  PROVE  ServerInv'
<1>1. /\ UNCHANGED <<aofVars, stage, counted, lastSaved, dump, signalVars>>
      /\ Saving(s)
      /\ \E p \in {"filling", "renaming"} :
           /\ saver' = [saver EXCEPT ![s].phase = p]
           /\ p = "renaming" => dumpTemp' = saver[s].contents
  BY DEF TempOpened, TempFilled, At, Saving
<1>2. saver \in [Savers -> [phase : {"idle", "writing", "filling", "renaming"},
                            contents : Seq(Nat), count : Nat]]
  BY DEF ServerInv, Saves
<1>3. /\ saver' \in [Savers -> [phase : {"idle", "writing", "filling", "renaming"},
                                contents : Seq(Nat), count : Nat]]
      /\ \A t \in Savers : /\ saver'[t].contents = saver[t].contents
                           /\ saver'[t].count = saver[t].count
                           /\ Saving(t)' = Saving(t)
                           /\ t # s => saver'[t] = saver[t]
  BY <1>1, <1>2 DEF Saving
<1>4. \A t \in Savers : saver'[t].phase = "renaming" => dumpTemp' = saver'[t].contents
  <2> SUFFICES ASSUME NEW t \in Savers, saver'[t].phase = "renaming"
               PROVE  dumpTemp' = saver'[t].contents
    OBVIOUS
  <2>1. t = s
    BY <1>1, <1>3 DEF ServerInv, Saves, Saving
  <2> QED BY <1>1, <1>2, <1>3, <2>1
<1>5. Contents' /\ Snapshot'
  BY <1>1 DEF aofVars, historyVars, ServerInv, Contents, Snapshot, CountedUpTo
<1>6. Saves'
  <2>1. executed' = executed /\ dump' = dump /\ \A n \in 0..executed : CountedUpTo(n)' = CountedUpTo(n)
    BY <1>1 DEF aofVars, historyVars, CountedUpTo
  <2>2. ASSUME NEW t \in Savers, Saving(t)'
        PROVE  \E n \in Len(dump')..executed' :
                 saver'[t].contents = Prefix(n) /\ saver'[t].count = CountedUpTo(n)'
    <3>1. Saving(t)
      BY <1>3, <2>2
    <3>2. PICK n \in Len(dump)..executed :
            saver[t].contents = Prefix(n) /\ saver[t].count = CountedUpTo(n)
      BY <3>1 DEF ServerInv, Saves
    <3>3. n \in 0..executed
      BY <3>2, Sizes
    <3> QED BY <1>3, <2>1, <3>2, <3>3
  <2>3. \A t, u \in Savers : Saving(t)' /\ Saving(u)' => t = u
    BY <1>3 DEF ServerInv, Saves
  <2> QED BY <1>3, <1>4, <2>2, <2>3 DEF Saves
<1>7. Ending'
  BY <1>1, <1>3 DEF aofVars, historyVars, signalVars, ServerInv, Ending, Savers
<1> QED BY <1>5, <1>6, <1>7 DEF ServerInv

\* A save ends, with the snapshot replaced by what it took or left as it was.
LEMMA EndedServerInv ==
  ASSUME ServerInv, NEW s \in Savers, DumpRenamed(s) \/ SaveFails(s)
  PROVE  ServerInv' /\ Len(dump') >= Len(dump)
<1> DEFINE types == [phase : {"idle", "writing", "filling", "renaming"},
                     contents : Seq(Nat), count : Nat]
<1>1. /\ UNCHANGED <<executed, applied, counted, atSignal>>
      /\ Saving(s) /\ saver' = [saver EXCEPT ![s] = Idle]
  BY DEF DumpRenamed, SaveFails, Ended, At, Saving, aofVars, historyVars
<1>2. saver \in [Savers -> types] /\ Idle \in types
  BY EmptySeq DEF ServerInv, Saves, Idle
<1>3. saver' \in [Savers -> types] /\ \A t \in Savers : ~Saving(t)'
  <2>1. \A t \in Savers : t # s => ~Saving(t)
    BY <1>1 DEF ServerInv, Saves
  <2> QED BY <1>1, <1>2, <2>1 DEF Saving, Idle
<1>4. Contents'
  BY <1>1 DEF ServerInv, Contents
<1>5. Saves'
  BY <1>3 DEF Saves, Saving
<1>6. PICK n \in Len(dump)..executed :
        saver[s].contents = Prefix(n) /\ saver[s].count = CountedUpTo(n)
  BY <1>1 DEF ServerInv, Saves
<1>7. n \in 0..executed /\ Len(Prefix(n)) = n /\ Len(dump) \in Nat /\ Len(dump) <= n
  BY Sizes, PrefixProperties
<1>8. \/ /\ DumpRenamed(s) /\ dump' = Prefix(n) /\ lastSaved' = CountedUpTo(n)
      \/ SaveFails(s) /\ UNCHANGED <<dump, lastSaved>>
  BY <1>6 DEF DumpRenamed, SaveFails, At, ServerInv, Saves
<1>9. Snapshot' /\ Len(dump') >= Len(dump)
  <2>1. executed' = executed /\ \A k \in 0..executed : CountedUpTo(k)' = CountedUpTo(k)
    BY <1>1 DEF CountedUpTo
  <2>2. CASE dump' = Prefix(n) /\ lastSaved' = CountedUpTo(n)
    <3>1. n \in 0..executed' /\ lastSaved' = CountedUpTo(n)'
      BY <1>7, <2>1, <2>2
    <3> QED BY <1>7, <2>2, <3>1 DEF Snapshot
  <2>3. CASE UNCHANGED <<dump, lastSaved>>
    <3>1. PICK k \in 0..executed : dump = Prefix(k) /\ lastSaved = CountedUpTo(k)
      BY DEF ServerInv, Snapshot
    <3>2. k \in 0..executed' /\ lastSaved' = CountedUpTo(k)'
      BY <2>1, <2>3, <3>1
    <3> QED BY <1>7, <2>3, <3>1, <3>2 DEF Snapshot
  <2> QED BY <1>8, <2>2, <2>3
<1>10. Ending'
  <2>1. CASE s = "shutdown"
    <3>1. stage' = "stats" /\ atSignal <= n
      BY <1>1, <1>6, <1>7, <2>1 DEF DumpRenamed, SaveFails, Ended, ServerInv, Ending
    <3>2. lastSave' = "saved" => dump' = Prefix(n)
      BY <1>8, <2>1 DEF DumpRenamed, SaveFails, Ended
    <3> QED BY <1>1, <1>3, <1>7, <2>1, <3>1, <3>2 DEF ServerInv, Ending
  <2>2. CASE s # "shutdown"
    <3>1. UNCHANGED <<stage, lastSave>>
      BY <2>2 DEF DumpRenamed, SaveFails, Ended
    <3>2. atSignal \in Nat
      BY DEF ServerInv, Ending
    <3> QED BY <1>1, <1>3, <1>7, <1>9, <2>2, <3>1, <3>2 DEF ServerInv, Ending, Savers
  <2> QED BY <2>1, <2>2
<1> QED BY <1>4, <1>5, <1>9, <1>10 DEF ServerInv

LEMMA SignalServerInv ==
  ASSUME ServerInv, Signal
  PROVE  ServerInv'
<1>1. /\ stage = "serving" /\ atSignal' = executed
      /\ UNCHANGED <<executed, applied, counted, lastSaved, dumpTemp, dump>>
  BY DEF Signal, Stop, historyVars
<1>2. CASE life' # "stopping" /\ ~saveInProgress
  <2>1. Begin("shutdown") /\ stage' = "saving" /\ UNCHANGED lastSave
    BY <1>2 DEF Signal
  <2>2. "shutdown" \in Savers
    BY DEF Savers
  <2> QED BY <1>1, <1>2, <2>1, <2>2, BeginServerInv
<1>3. CASE life' = "stopping" \/ saveInProgress
  <2>1. /\ UNCHANGED saver /\ stage' \in {"stuck", "stats"}
        /\ lastSave' \in {lastSave, "refused"}
    BY <1>3 DEF Signal
  <2>2. ~Saving("shutdown") /\ lastSave = "none" /\ executed \in 0..executed
    BY <1>1 DEF ServerInv, Ending, Contents
  <2>3. Contents' /\ Snapshot' /\ Saves'
    BY <1>1, <2>1 DEF ServerInv, Contents, Snapshot, Saves, Saving, CountedUpTo
  <2>4. Ending'
    BY <1>1, <2>1, <2>2 DEF Ending, Saving
  <2> QED BY <2>3, <2>4 DEF ServerInv
<1> QED BY <1>2, <1>3

LEMMA NextServerInv == ServerInv /\ [ServerNext]_serverVars => ServerInv'
<1> SUFFICES ASSUME ServerInv, [ServerNext]_serverVars PROVE ServerInv'
  OBVIOUS
<1>1. CASE Command
  <2>1. /\ executed' = executed + 1 /\ applied' = Append(applied, executed + 1)
        /\ counted' \in {counted, counted \cup {executed + 1}}
    BY <1>1 DEF Command, Execute
  <2> QED BY <1>1, <2>1, LogServerInv DEF Command, saveVars, signalVars
<1>2. CASE LogStep
  <2>1. UNCHANGED <<executed, applied, counted>>
    BY <1>2 DEF LogStep, BeginRewrite, SyncTimer, TempWritten, BufferAppended, Renamed, historyVars
  <2> QED BY <1>2, <2>1, LogServerInv DEF LogStep, signalVars
<1>3. CASE TimerTick \/ BgSave
  <2>1. PICK s \in {"timer", "bgsave"} : Begin(s)
    BY <1>3 DEF TimerTick, BgSave
  <2>2. s \in Savers /\ s # "shutdown" /\ ~saveInProgress
    BY <1>3 DEF TimerTick, BgSave, Savers
  <2>3. UNCHANGED <<executed, applied, counted, lastSaved, dumpTemp, dump, stage, atSignal, lastSave>>
    BY <1>3 DEF TimerTick, BgSave, aofVars, historyVars, signalVars
  <2> QED BY <2>1, <2>2, <2>3, BeginServerInv
<1>4. CASE \E s \in Savers : TempOpened(s) \/ TempFilled(s) \/ DumpRenamed(s) \/ SaveFails(s)
  BY <1>4, TempServerInv, EndedServerInv
<1>5. CASE Signal
  BY <1>5, SignalServerInv
<1>6. CASE StatsStopped \/ Exit
  <2>1. /\ UNCHANGED <<executed, applied, counted, lastSaved, saver, dumpTemp, dump, atSignal, lastSave>>
        /\ stage \in {"stats", "closed"} /\ stage' # "serving"
    BY <1>6 DEF StatsStopped, Exit, Proceed, aofVars, historyVars, saveVars, signalVars
  <2> QED BY <2>1 DEF ServerInv, Contents, Snapshot, Saves, Ending, Saving, CountedUpTo
<1>7. CASE UNCHANGED serverVars
  <2>1. UNCHANGED <<executed, applied, counted, stage, lastSaved, saver, dumpTemp, dump, atSignal, lastSave>>
    BY <1>7 DEF serverVars, aofVars, historyVars, saveVars, signalVars
  <2> QED BY <2>1, LogServerInv
<1> QED BY <1>1, <1>2, <1>3, <1>4, <1>5, <1>6, <1>7 DEF ServerNext

LEMMA ServerInvariant == ServerSpec => []ServerInv
  BY InitServerInv, NextServerInv, PTL DEF ServerSpec

-----------------------------------------------------------------------------
(***************************************************************************)
(* The theorems.                                                           *)
(***************************************************************************)
\* When the timer finds nothing to do, every counted command is in the snapshot.
THEOREM CleanMeansSavedHolds == ServerSpec => []CleanMeansSaved
<1>1. ServerInv => CleanMeansSaved
  <2> SUFFICES ASSUME ServerInv, ~Dirty PROVE counted \subseteq ToSet(dump)
    BY DEF CleanMeansSaved
  <2>1. PICK n \in 0..executed : dump = Prefix(n) /\ lastSaved = CountedUpTo(n)
    BY DEF ServerInv, Snapshot
  <2>2. Cardinality(counted \cap (1..n)) = Cardinality(counted)
    BY <2>1 DEF Dirty, dirtyCount, CountedUpTo
  <2>3. IsFiniteSet(counted)
    BY CountIsNat DEF ServerInv
  <2>4. counted \cap (1..n) = counted
    <3>1. counted \cap (1..n) \subseteq counted
      OBVIOUS
    <3> QED BY <2>2, <2>3, <3>1, FS_Subset
  <2>5. ToSet(dump) = 1..n
    <3>1. n \in Nat
      OBVIOUS
    <3> QED BY <2>1, <3>1, PrefixProperties
  <2> QED BY <2>4, <2>5
<1> QED BY <1>1, ServerInvariant, PTL

\* The snapshot on disk is always a whole one and never goes back.
THEOREM DumpOnlyAdvancesHolds == ServerSpec => DumpOnlyAdvances
<1>1. ServerInv /\ ServerInv' /\ [ServerNext]_serverVars =>
        [dump' # dump => dump' \notin {Partial, Absent} /\ Len(dump') >= Len(dump)]_serverVars
  <2> SUFFICES ASSUME ServerInv, ServerInv', ServerNext, dump' # dump
               PROVE  dump' \notin {Partial, Absent} /\ Len(dump') >= Len(dump)
    BY DEF serverVars, saveVars
  <2>1. PICK s \in Savers : DumpRenamed(s)
    BY DEF ServerNext, Command, LogStep, TimerTick, BgSave, TempOpened, TempFilled, SaveFails,
           Signal, StatsStopped, Exit, Proceed, saveVars
  <2>2. Len(dump') >= Len(dump)
    BY <2>1, EndedServerInv
  <2>3. PICK n \in Nat : dump' = Prefix(n)
    BY DEF ServerInv, Snapshot
  <2>4. dump' \notin {Partial, Absent}
    <3>1. \A i \in 1..n : dump'[i] = i
      BY <2>3 DEF Prefix
    <3>2. Len(dump') = n
      BY <2>3, PrefixProperties
    <3>3. Len(Partial) = 1 /\ Len(Absent) = 1 /\ Partial[1] = 0 /\ Absent[1] = -1
      BY DEF Partial, Absent
    <3> QED BY <3>1, <3>2, <3>3
  <2> QED BY <2>2, <2>4
<1> QED BY <1>1, ServerInvariant, PTL DEF ServerSpec, DumpOnlyAdvances

\* A process that has exited, or whose shutdown got stuck, leaves what was executed,
\* or at least what was acknowledged, before the signal behind it, but for what the
\* log is exposed for.
THEOREM ExitCoversHolds == ServerSpec => []ExitCovers
<1>1. ServerInv /\ LossOnlyWhenExposed => ExitCovers
  <2> SUFFICES ASSUME ServerInv, LossOnlyWhenExposed, stage \in {"exited", "stuck"}
               PROVE  IF lastSave = "saved" THEN 1..atSignal \subseteq ToSet(dump)
                      ELSE acked \cap (1..atSignal) \subseteq ToSet(dump) \cup ToSet(file) \cup Exposed
    BY DEF ExitCovers
  <2>1. CASE lastSave = "saved"
    <3>1. PICK n \in 0..executed : dump = Prefix(n)
      BY DEF ServerInv, Snapshot
    <3>2. n \in Nat
      OBVIOUS
    <3>3. Len(dump) = n /\ ToSet(dump) = 1..n
      BY <3>1, <3>2, PrefixProperties
    <3>4. atSignal <= n /\ atSignal \in Nat
      BY <2>1, <3>3 DEF ServerInv, Ending
    <3> QED BY <2>1, <3>2, <3>3, <3>4
  <2>2. CASE lastSave # "saved"
    BY <2>2 DEF LossOnlyWhenExposed
  <2> QED BY <2>1, <2>2
<1>2. ServerSpec => []LossOnlyWhenExposed
  BY ServerRunsLog, LossOnlyWhenExposedHolds
<1> QED BY <1>1, <1>2, ServerInvariant, PTL

=============================================================================
