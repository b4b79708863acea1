-------------------------- MODULE ConversationProofs --------------------------
(***************************************************************************)
(* Theorems about Conversation: the server's framing of lines and the      *)
(* client's matching of replies to requests, for every number of requests  *)
(* and of published messages, every limit on a line and however the two    *)
(* streams are cut into chunks.                                            *)
(***************************************************************************)
EXTENDS Conversation, FiniteSetTheorems, SequenceTheorems, FunctionTheorems,
        NaturalsInduction, WellFoundedInduction, TLAPS

-----------------------------------------------------------------------------
(***************************************************************************)
(* Induction over the naturals.                                            *)
(***************************************************************************)
\* A set of naturals that is not empty has a least element.
LEMMA LeastNatural ==
  ASSUME NEW T, T \subseteq Nat, T # {}
  PROVE  \E x \in T : \A y \in T : x <= y
<1>1. PICK x \in T : \A y \in T : <<y, x>> \notin OpToRel(<, Nat)
  BY NatLessThanWellFounded, WFMin
<1>2. \A y \in T : ~(y < x)
  BY <1>1, T \subseteq Nat DEF OpToRel
<1> QED
  BY <1>2, T \subseteq Nat

\* Induction up to n, for a set of numbers in place of a predicate.
LEMMA UpTo ==
  ASSUME NEW n \in Nat, NEW T, 0 \in T, \A i \in 1..n : i - 1 \in T => i \in T
  PROVE  0..n \subseteq T
<1> SUFFICES ASSUME (0..n) \ T # {} PROVE FALSE
  OBVIOUS
<1> DEFINE S == (0..n) \ T
<1>0. S \subseteq Nat /\ S # {}
  OBVIOUS
<1>1. PICK x \in S : \A y \in S : x <= y
  <2> HIDE DEF S
  <2> QED BY <1>0, LeastNatural
<1>2. x \in 1..n
  BY <1>1
<1>3. x - 1 \in T
  BY <1>1, <1>2
<1> QED BY <1>1, <1>2, <1>3

-----------------------------------------------------------------------------
(***************************************************************************)
(* The stream of requests, symbol by symbol: four for each.                *)
(***************************************************************************)
Symbols == {CR, LF} \cup {<<"body", r, p>> : r \in Nat, p \in {1, 2}}

Symbol(j) ==
  LET r == (j + 3) \div 4
      p == j - 4 * (r - 1)
  IN  IF p = 1 THEN <<"body", r, 1>> ELSE IF p = 2 THEN <<"body", r, 2>>
      ELSE IF p = 3 THEN CR ELSE LF

\* The four symbols of request r, whose last is the only line end.
LEMMA SymbolFacts ==
  /\ \A r \in Nat \ {0} : /\ Symbol(4 * r - 3) = <<"body", r, 1>>
                          /\ Symbol(4 * r - 2) = <<"body", r, 2>>
                          /\ Symbol(4 * r - 1) = CR /\ Symbol(4 * r) = LF
  /\ \A j \in Nat \ {0} : /\ Symbol(j) \in Symbols
                          /\ Symbol(j) = LF <=> j = 4 * (j \div 4)
<1>1. ASSUME NEW r \in Nat \ {0}
      PROVE  /\ Symbol(4 * r - 3) = <<"body", r, 1>>
             /\ Symbol(4 * r - 2) = <<"body", r, 2>>
             /\ Symbol(4 * r - 1) = CR /\ Symbol(4 * r) = LF
  <2>1. /\ ((4 * r - 3) + 3) \div 4 = r /\ ((4 * r - 2) + 3) \div 4 = r
        /\ ((4 * r - 1) + 3) \div 4 = r /\ ((4 * r) + 3) \div 4 = r
    OBVIOUS
  <2>2. /\ (4 * r - 3) - 4 * (r - 1) = 1 /\ (4 * r - 2) - 4 * (r - 1) = 2
        /\ (4 * r - 1) - 4 * (r - 1) = 3 /\ (4 * r) - 4 * (r - 1) = 4
    OBVIOUS
  <2> QED BY <2>1, <2>2 DEF Symbol
<1>2. ASSUME NEW j \in Nat \ {0}
      PROVE  Symbol(j) \in Symbols /\ (Symbol(j) = LF <=> j = 4 * (j \div 4))
  <2> DEFINE r == (j + 3) \div 4
             p == j - 4 * (r - 1)
  <2>1. r \in Nat /\ p \in 1..4 /\ (p = 4 <=> j = 4 * (j \div 4))
    OBVIOUS
  <2>2. Symbol(j) = IF p = 1 THEN <<"body", r, 1>> ELSE IF p = 2 THEN <<"body", r, 2>>
                    ELSE IF p = 3 THEN CR ELSE LF
    BY DEF Symbol
  <2> HIDE DEF r, p
  <2>3. Symbol(j) \in Symbols
    BY <2>1, <2>2 DEF Symbols
  <2>4. <<"body", r, 1>> # LF /\ <<"body", r, 2>> # LF /\ CR # LF
    <3>1. <<"body", r, 1>>[1] = "body" /\ <<"body", r, 2>>[1] = "body" /\ CR[1] = "cr" /\ LF[1] = "lf"
      BY DEF CR, LF
    <3> QED BY <3>1
  <2> QED BY <2>1, <2>2, <2>3, <2>4
<1> QED BY <1>1, <1>2

-----------------------------------------------------------------------------
(***************************************************************************)
(* Taking lines out of a buffer.                                           *)
(***************************************************************************)
\* Line ends at given places cut a text into the lines between them.
LEMMA SplitAt ==
  ASSUME NEW text, NEW m \in Nat, NEW at \in [0..m -> Nat], at[0] = 0,
         \A i, j \in 0..m : i < j => at[i] < at[j]
  PROVE  Split(text, {at[i] : i \in 1..m}) =
           [lines |-> [i \in 1..m |-> Stripped(SubSeq(text, at[i - 1] + 1, at[i] - 1))],
            rest  |-> SubSeq(text, at[m] + 1, Len(text))]
<1> DEFINE ends == {at[i] : i \in 1..m}
           n == Cardinality(ends)
           end == CHOOSE f : f = [i \in 0..n |->
                    IF i = 0 THEN 0
                    ELSE LET last == f[i - 1] IN Min({e \in ends : e > last})]
<1>1. n = m
  <2> DEFINE f == [i \in 1..m |-> at[i]]
  <2>1. f \in Bijection(1..m, ends)
    <3>1. f \in [1..m -> ends]
      OBVIOUS
    <3>2. \A i, j \in 1..m : f[i] = f[j] => i = j
      <4>1. \A i, j \in 1..m : i # j => at[i] # at[j]
        <5>1. \A i, j \in 1..m : i # j => i < j \/ j < i
          OBVIOUS
        <5>2. \A i \in 1..m : i \in 0..m /\ at[i] \in Nat
          OBVIOUS
        <5> QED BY <5>1, <5>2
      <4> QED BY <4>1
    <3>3. \A x \in ends : \E i \in 1..m : f[i] = x
      OBVIOUS
    <3> HIDE DEF f, ends
    <3> QED BY <3>1, <3>2, <3>3, Fun_IsBij
  <2>2. ExistsBijection(1..m, ends)
    BY <2>1 DEF ExistsBijection
  <2> HIDE DEF ends
  <2> QED BY <2>2, FS_CountingElements
<1>2. ASSUME NEW i \in 1..m PROVE Min({e \in ends : e > at[i - 1]}) = at[i]
  <2> DEFINE S == {e \in ends : e > at[i - 1]}
  <2>1. at[i] \in S
    <3>1. i - 1 \in 0..m /\ i \in 0..m /\ i - 1 < i
      OBVIOUS
    <3> QED BY <3>1
  <2>2. ASSUME NEW y \in S PROVE y \in Int /\ at[i] <= y
    <3>1. PICK k \in 1..m : y = at[k] /\ at[k] > at[i - 1]
      OBVIOUS
    <3>2. k \in 0..m /\ i \in 0..m /\ i - 1 \in 0..m /\ at[k] \in Nat /\ at[i] \in Nat /\ at[i - 1] \in Nat
      OBVIOUS
    <3>3. ~(k < i)
      <4>1. ASSUME k < i PROVE FALSE
        <5>1. k = i - 1 \/ k < i - 1
          BY <4>1
        <5>2. at[k] = at[i - 1] \/ at[k] < at[i - 1]
          BY <3>2, <5>1
        <5> QED BY <3>1, <3>2, <5>2
      <4> QED BY <4>1
    <3>4. k = i \/ i < k
      BY <3>3
    <3>5. at[k] = at[i] \/ at[i] < at[k]
      BY <3>2, <3>4
    <3> QED BY <3>1, <3>2, <3>5
  <2> HIDE DEF S
  <2>3. Min(S) \in S /\ \A y \in S : Min(S) <= y
    BY <2>1, <2>2 DEF Min
  <2>4. Min(S) = at[i]
    BY <2>1, <2>2, <2>3
  <2> QED BY <2>4 DEF S
<1>3. Split(text, ends) =
        [lines |-> [i \in 1..n |-> Stripped(SubSeq(text, end[i - 1] + 1, end[i] - 1))],
         rest  |-> SubSeq(text, end[n] + 1, Len(text))]
  BY DEF Split
<1> HIDE DEF ends, n
<1>4. \A i \in 0..m : end[i] = at[i]
  <2>1. at = [i \in 0..n |-> IF i = 0 THEN 0
                             ELSE LET last == at[i - 1] IN Min({e \in ends : e > last})]
    <3>1. \A i \in 0..m : at[i] = IF i = 0 THEN 0
                                  ELSE LET last == at[i - 1] IN Min({e \in ends : e > last})
      <4>1. \A i \in 0..m : i # 0 => i \in 1..m
        OBVIOUS
      <4> QED BY <1>2, <4>1
    <3>2. at = [i \in 0..m |-> at[i]]
      OBVIOUS
    <3> QED BY <1>1, <3>1, <3>2
  <2>2. end = [i \in 0..n |-> IF i = 0 THEN 0
                              ELSE LET last == end[i - 1] IN Min({e \in ends : e > last})]
    BY <2>1
  <2> HIDE DEF end
  <2> DEFINE T == {i \in 0..m : end[i] = at[i]}
  <2>3. 0 \in T
    BY <1>1, <2>2
  <2>4. ASSUME NEW i \in 1..m, i - 1 \in T PROVE i \in T
    <3>1. end[i - 1] = at[i - 1] /\ i \in 0..n /\ i # 0
      BY <1>1, <2>4
    <3>2. end[i] = Min({e \in ends : e > end[i - 1]})
      BY <2>2, <3>1
    <3>3. end[i] = at[i]
      BY <1>2, <3>1, <3>2
    <3> QED BY <3>3
  <2>5. 0..m \subseteq T
    <3> HIDE DEF T
    <3> QED BY <2>3, <2>4, UpTo
  <2> QED BY <2>5
<1> HIDE DEF end
<1>5. ASSUME NEW i \in 1..m
      PROVE  end[i - 1] + 1 = at[i - 1] + 1 /\ end[i] - 1 = at[i] - 1
  BY <1>4
<1>6. end[n] + 1 = at[m] + 1
  BY <1>1, <1>4
<1>7. [i \in 1..n |-> Stripped(SubSeq(text, end[i - 1] + 1, end[i] - 1))]
        = [i \in 1..m |-> Stripped(SubSeq(text, at[i - 1] + 1, at[i] - 1))]
  BY <1>1, <1>5
<1> QED BY <1>3, <1>6, <1>7 DEF ends

Fours(m) == {4 * i : i \in 1..m}

\* Line ends at every fourth place cut a text into lines of three.
LEMMA SplitFours ==
  ASSUME NEW text, NEW m \in Nat
  PROVE  Split(text, Fours(m)) =
           [lines |-> [i \in 1..m |-> Stripped(SubSeq(text, 4 * i - 3, 4 * i - 1))],
            rest  |-> SubSeq(text, 4 * m + 1, Len(text))]
<1> DEFINE at == [i \in 0..m |-> 4 * i]
<1>1. /\ at \in [0..m -> Nat] /\ at[0] = 0 /\ at[m] = 4 * m
      /\ \A i, j \in 0..m : i < j => at[i] < at[j]
  OBVIOUS
<1>2. \A i \in 1..m : at[i - 1] + 1 = 4 * i - 3 /\ at[i] - 1 = 4 * i - 1
  OBVIOUS
<1>3. Fours(m) = {at[i] : i \in 1..m}
  <2>1. \A i \in 1..m : at[i] = 4 * i
    OBVIOUS
  <2> HIDE DEF at
  <2> QED BY <2>1 DEF Fours
<1> HIDE DEF at
<1>4. Split(text, {at[i] : i \in 1..m}) =
        [lines |-> [i \in 1..m |-> Stripped(SubSeq(text, at[i - 1] + 1, at[i] - 1))],
         rest  |-> SubSeq(text, at[m] + 1, Len(text))]
  BY <1>1, SplitAt
<1>5. [i \in 1..m |-> Stripped(SubSeq(text, at[i - 1] + 1, at[i] - 1))]
        = [i \in 1..m |-> Stripped(SubSeq(text, 4 * i - 3, 4 * i - 1))]
  <2>1. ASSUME NEW i \in 1..m
        PROVE  Stripped(SubSeq(text, at[i - 1] + 1, at[i] - 1))
                 = Stripped(SubSeq(text, 4 * i - 3, 4 * i - 1))
    <3>1. at[i - 1] + 1 = 4 * i - 3 /\ at[i] - 1 = 4 * i - 1
      BY <1>2
    <3> QED BY <3>1
  <2> QED BY <2>1
<1> QED BY <1>1, <1>3, <1>4, <1>5

\* Leaving out blank lines leaves all lines if none is blank.
LEMMA NonBlankKeepsAll ==
  ASSUME NEW S, NEW lines \in Seq(S), \A i \in 1..Len(lines) : lines[i] # <<>>
  PROVE  NonBlank(lines) = lines
<1> DEFINE n == Len(lines)
           kept == CHOOSE f : f = [i \in 0..n |->
                     IF i = 0 THEN <<>>
                     ELSE IF lines[i] = <<>> THEN f[i - 1] ELSE Append(f[i - 1], lines[i])]
           g == [i \in 0..n |-> SubSeq(lines, 1, i)]
<1>1. n \in Nat /\ \A i \in 1..n : lines[i] \in S /\ lines[i] # <<>>
  BY LenProperties, ElementOfSeq
<1>2. NonBlank(lines) = kept[n]
  BY DEF NonBlank
<1> HIDE DEF n
<1>3. SubSeq(lines, 1, 0) = <<>> /\ SubSeq(lines, 1, n) = lines
  <2>1. SubSeq(lines, 1, 0) = <<>>
    BY EmptySeq, SubSeqProperties
  <2>2. SubSeq(lines, 1, Len(lines)) = lines
    BY <1>1, SubSeqProperties, SeqEqual DEF n
  <2> QED BY <2>1, <2>2 DEF n
<1>4. \A i \in 1..n : SubSeq(lines, 1, i) = Append(SubSeq(lines, 1, i - 1), lines[i])
  BY <1>1, SubSeqRecursiveSecond DEF n
<1>5. g = [i \in 0..n |-> IF i = 0 THEN <<>>
                          ELSE IF lines[i] = <<>> THEN g[i - 1] ELSE Append(g[i - 1], lines[i])]
  <2>1. g[0] = <<>> /\ g = [i \in 0..n |-> g[i]]
    BY <1>1, <1>3
  <2>2. ASSUME NEW i \in 1..n PROVE g[i] = Append(g[i - 1], lines[i])
    <3>1. g[i] = SubSeq(lines, 1, i) /\ g[i - 1] = SubSeq(lines, 1, i - 1)
      BY <1>1
    <3> QED BY <1>4, <3>1
  <2>3. \A i \in 0..n : i # 0 => i \in 1..n
    BY <1>1
  <2> HIDE DEF g
  <2> QED BY <1>1, <2>1, <2>2, <2>3
<1>6. kept = [i \in 0..n |-> IF i = 0 THEN <<>>
                             ELSE IF lines[i] = <<>> THEN kept[i - 1]
                             ELSE Append(kept[i - 1], lines[i])]
  <2> HIDE DEF g
  <2> QED BY <1>5
<1> HIDE DEF kept, g
<1> DEFINE T == {i \in 0..n : kept[i] = SubSeq(lines, 1, i)}
<1>7. 0 \in T
  BY <1>1, <1>3, <1>6
<1>8. ASSUME NEW i \in 1..n, i - 1 \in T PROVE i \in T
  <2>1. i \in 0..n /\ i # 0 /\ kept[i - 1] = SubSeq(lines, 1, i - 1)
    BY <1>1, <1>8
  <2>2. kept[i] = Append(kept[i - 1], lines[i])
    BY <1>1, <1>6, <2>1
  <2>3. kept[i] = SubSeq(lines, 1, i)
    BY <1>4, <2>1, <2>2
  <2> QED BY <2>1, <2>3
<1>9. n \in T
  <2> HIDE DEF T
  <2>1. 0..n \subseteq T
    BY <1>1, <1>7, <1>8, UpTo
  <2> QED BY <1>1, <2>1
<1> QED BY <1>2, <1>3, <1>9

\* A line of three symbols without the last.
LEMMA FirstTwo ==
  ASSUME NEW s \in Seq(Symbols), Len(s) = 3
  PROVE  SubSeq(s, 1, 2) = <<s[1], s[2]>>
<1> DEFINE front == SubSeq(s, 1, 2)
<1>1. front \in Seq(Symbols)
  BY SubSeqProperties
<1>2. Len(front) = 2
  BY SubSeqProperties
<1>3. \A i \in 1..2 : front[i] = s[i]
  BY SubSeqProperties
<1> HIDE DEF front
<1>4. front = <<front[1], front[2]>>
  BY <1>1, <1>2
<1>5. front[1] = s[1] /\ front[2] = s[2]
  BY <1>3
<1> QED BY <1>4, <1>5 DEF front

\* A buffer that begins with request h + 1 is cut into the whole requests in it,
\* and what is left is the beginning of the next.
LEMMA CutLines ==
  ASSUME NEW text \in Seq(Symbols), NEW h \in Nat, NEW m \in Nat, m = Len(text) \div 4,
         \A i \in 1..Len(text) : text[i] = Symbol(4 * h + i)
  PROVE  /\ NonBlank(Framed(text).lines) = [i \in 1..m |-> Body(h + i)]
         /\ Framed(text).rest = SubSeq(text, 4 * m + 1, Len(text))
<1> DEFINE n == Len(text)
           ends == {i \in DOMAIN text : text[i] = LF}
           lines == [i \in 1..m |-> Body(h + i)]
<1>0. n \in Nat /\ DOMAIN text = 1..n /\ 4 * m <= n /\ n < 4 * m + 4
  BY LenProperties
<1>1. ends = Fours(m)
  <2>1. ASSUME NEW i \in 1..n PROVE text[i] = LF <=> i \in Fours(m)
    <3>1. 4 * h + i \in Nat \ {0} /\ text[i] = Symbol(4 * h + i)
      BY <1>0
    <3>2. text[i] = LF <=> 4 * h + i = 4 * ((4 * h + i) \div 4)
      BY <3>1, SymbolFacts
    <3>3. 4 * h + i = 4 * ((4 * h + i) \div 4) <=> \E k \in 1..m : i = 4 * k
      <4>1. ASSUME 4 * h + i = 4 * ((4 * h + i) \div 4) PROVE \E k \in 1..m : i = 4 * k
        <5>1. (4 * h + i) \div 4 - h \in 1..m /\ i = 4 * ((4 * h + i) \div 4 - h)
          BY <1>0, <4>1
        <5> QED BY <5>1
      <4>2. ASSUME NEW k \in 1..m, i = 4 * k PROVE 4 * h + i = 4 * ((4 * h + i) \div 4)
        BY <4>2
      <4> QED BY <4>1, <4>2
    <3> QED BY <3>2, <3>3 DEF Fours
  <2>2. Fours(m) \subseteq 1..n
    BY <1>0 DEF Fours
  <2> HIDE DEF n
  <2> QED BY <1>0, <2>1, <2>2
<1>2. Framed(text) = [lines |-> [i \in 1..m |-> Stripped(SubSeq(text, 4 * i - 3, 4 * i - 1))],
                      rest  |-> SubSeq(text, 4 * m + 1, n)]
  BY <1>1, SplitFours DEF Framed
<1>3. ASSUME NEW i \in 1..m
      PROVE  Stripped(SubSeq(text, 4 * i - 3, 4 * i - 1)) = Body(h + i)
  <2> DEFINE line == SubSeq(text, 4 * i - 3, 4 * i - 1)
  <2>1. /\ 4 * i - 3 \in 1..n /\ 4 * i - 2 \in 1..n /\ 4 * i - 1 \in 1..n
        /\ 4 * i - 3 <= 4 * i - 1 + 1 /\ (4 * i - 1) - (4 * i - 3) + 1 = 3
    BY <1>0
  <2>2. /\ line \in Seq(Symbols) /\ Len(line) = 3
        /\ line[1] = text[4 * i - 3] /\ line[2] = text[4 * i - 2] /\ line[3] = text[4 * i - 1]
    BY <1>0, <2>1, SubSeqProperties
  <2>3. /\ line[1] = <<"body", h + i, 1>> /\ line[2] = <<"body", h + i, 2>> /\ line[3] = CR
    <3>1. /\ h + i \in Nat \ {0}
          /\ 4 * h + (4 * i - 3) = 4 * (h + i) - 3 /\ 4 * h + (4 * i - 2) = 4 * (h + i) - 2
          /\ 4 * h + (4 * i - 1) = 4 * (h + i) - 1
      OBVIOUS
    <3>2. /\ text[4 * i - 3] = Symbol(4 * (h + i) - 3) /\ text[4 * i - 2] = Symbol(4 * (h + i) - 2)
          /\ text[4 * i - 1] = Symbol(4 * (h + i) - 1)
      BY <2>1, <3>1
    <3> HIDE DEF line
    <3> QED BY <2>2, <3>1, <3>2, SymbolFacts
  <2> HIDE DEF line
  <2>4. Stripped(line) = SubSeq(line, 1, 2)
    <3>1. line # <<>>
      <4>1. Len(line) # 0
        BY <2>2
      <4>2. line = <<>> => Len(line) = 0
        OBVIOUS
      <4> QED BY <4>1, <4>2
    <3> QED BY <2>2, <2>3, <3>1 DEF Stripped, Last, Front
  <2>6. SubSeq(line, 1, 2) = <<line[1], line[2]>>
    BY <2>2, FirstTwo
  <2>7. Stripped(line) = Body(h + i)
    BY <2>3, <2>4, <2>6 DEF Body
  <2> QED BY <2>7 DEF line
<1>4. Framed(text).lines = lines /\ Framed(text).rest = SubSeq(text, 4 * m + 1, n)
  BY <1>2, <1>3
<1>5. NonBlank(lines) = lines
  <2> DEFINE Bodies == {Body(r) : r \in Nat}
  <2>1. lines \in Seq(Bodies) /\ Len(lines) = m
    <3>1. lines \in [1..m -> Bodies]
      OBVIOUS
    <3> HIDE DEF lines, Bodies
    <3>2. lines \in Seq(Bodies)
      BY <3>1, SeqDef
    <3> QED BY <3>1, <3>2, LenProperties
  <2>2. \A i \in 1..m : lines[i] # <<>>
    <3>1. \A i \in 1..m : lines[i] = Body(h + i)
      OBVIOUS
    <3>2. \A r \in Nat : Body(r) # <<>>
      <4> TAKE r \in Nat
      <4>1. Len(Body(r)) # 0
        BY DEF Body
      <4>2. Body(r) = <<>> => Len(Body(r)) = 0
        OBVIOUS
      <4> QED BY <4>1, <4>2
    <3>3. \A i \in 1..m : h + i \in Nat
      OBVIOUS
    <3> QED BY <3>1, <3>2, <3>3
  <2> HIDE DEF lines, Bodies
  <2> QED BY <2>1, <2>2, NonBlankKeepsAll
<1> QED BY <1>4, <1>5

-----------------------------------------------------------------------------
(***************************************************************************)
(* The inductive invariant: the lines handled are the first requests, and  *)
(* while the server's socket is open its buffer and the stream continue    *)
(* with the next one, symbol by symbol, to the end of the last request     *)
(* written.                                                                *)
(***************************************************************************)
\* h requests are handled and w written; on an open client's socket all are.
Continues(h, w) ==
  /\ h <= w /\ w <= Len(sent)
  /\ client = "open" => w = Len(sent)
  /\ Len(buffer) + Len(up) = 4 * (w - h)
  /\ \A i \in 1..Len(buffer) : buffer[i] = Symbol(4 * h + i)
  /\ \A i \in 1..Len(up) : up[i] = Symbol(4 * h + Len(buffer) + i)

HandledInv == Len(handled) <= Len(sent) /\ handled = [i \in 1..Len(handled) |-> Body(i)]
StreamInv  == server = "open" => \E w \in Nat : Continues(Len(handled), w)

FrameTypes ==
  /\ Len(sent) \in Nat /\ Len(handled) \in Nat
  /\ buffer \in Seq(Symbols) /\ up \in Seq(Symbols)

FrameInv == FrameTypes /\ HandledInv /\ StreamInv

\* Nothing is sent, buffered or handled at first.
LEMMA FrameInit == Init => FrameInv
<1> SUFFICES ASSUME Init PROVE FrameInv
  OBVIOUS
<1>1. Len(sent) = 0 /\ Len(handled) = 0 /\ Len(buffer) = 0 /\ Len(up) = 0
  BY DEF Init
<1>2. FrameTypes
  BY <1>1, EmptySeq DEF Init, FrameTypes
<1>3. handled = [i \in 1..Len(handled) |-> Body(i)]
  <2>1. handled = [i \in 1..0 |-> Body(i)]
    BY DEF Init
  <2> QED BY <1>1, <2>1
<1>4. Continues(0, 0)
  BY <1>1 DEF Continues
<1> QED BY <1>1, <1>2, <1>3, <1>4 DEF FrameInv, HandledInv, StreamInv

\* A request's body and line end behind a stream are four symbols behind it.
LEMMA FourBehind ==
  ASSUME NEW stream \in Seq(Symbols), NEW r \in Nat
  PROVE  stream \o Body(r) \o <<CR, LF>>
           = stream \o <<<<"body", r, 1>>, <<"body", r, 2>>, CR, LF>>
<1>1. Body(r) \in Seq(Symbols) /\ <<CR, LF>> \in Seq(Symbols)
  BY DEF Body, Symbols
<1>2. (stream \o Body(r)) \o <<CR, LF>> = stream \o (Body(r) \o <<CR, LF>>)
  <2> DEFINE body == Body(r)
             lineEnd == <<CR, LF>>
  <2>1. body \in Seq(Symbols) /\ lineEnd \in Seq(Symbols)
    BY <1>1
  <2> HIDE DEF body, lineEnd
  <2>2. (stream \o body) \o lineEnd = stream \o (body \o lineEnd)
    <3>1. \A s, t, u \in Seq(Symbols) : (s \o t) \o u = s \o (t \o u)
      BY ConcatAssociative
    <3> QED BY <2>1, <3>1
  <2> QED BY <2>2 DEF body, lineEnd
<1>3. ASSUME NEW a, NEW b, NEW c, NEW d PROVE <<a, b>> \o <<c, d>> = <<a, b, c, d>>
  <2> DEFINE S == {a, b, c, d}
             s == <<a, b>>
             t == <<c, d>>
             u == <<a, b, c, d>>
  <2>1. /\ s \in Seq(S) /\ Len(s) = 2 /\ s[1] = a /\ s[2] = b
        /\ t \in Seq(S) /\ Len(t) = 2 /\ t[1] = c /\ t[2] = d
        /\ u \in Seq(S) /\ Len(u) = 4 /\ u[1] = a /\ u[2] = b /\ u[3] = c /\ u[4] = d
    OBVIOUS
  <2> HIDE DEF S, s, t, u
  <2>2. /\ s \o t \in Seq(S) /\ Len(s \o t) = Len(s) + Len(t)
        /\ \A i \in 1..(Len(s) + Len(t)) :
             (s \o t)[i] = IF i <= Len(s) THEN s[i] ELSE t[i - Len(s)]
    BY <2>1, ConcatProperties
  <2>3. (s \o t)[1] = a /\ (s \o t)[2] = b /\ (s \o t)[3] = c /\ (s \o t)[4] = d
    BY <2>1, <2>2
  <2>4. \A i \in 1..4 : (s \o t)[i] = u[i]
    <3>1. \A i \in 1..4 : i = 1 \/ i = 2 \/ i = 3 \/ i = 4
      OBVIOUS
    <3> QED BY <2>1, <2>3, <3>1
  <2>5. Len(s \o t) = 4 /\ Len(u) = 4
    BY <2>1, <2>2
  <2>6. s \o t = u
    BY <2>1, <2>2, <2>4, <2>5, SeqEqual
  <2> QED BY <2>6 DEF s, t, u
<1>4. Body(r) \o <<CR, LF>> = <<<<"body", r, 1>>, <<"body", r, 2>>, CR, LF>>
  BY <1>3 DEF Body
<1> QED BY <1>2, <1>4

\* send() on an open socket puts the four symbols of the request behind the last.
LEMMA SendFrames ==
  ASSUME FrameInv, NEW kind \in Kinds, Send(kind), Len(sent') = Len(sent) + 1
  PROVE  FrameInv'
<1>1. /\ UNCHANGED <<client, buffer, server, handled>>
      /\ up' = IF client = "open" THEN up \o Body(Len(sent) + 1) \o <<CR, LF>> ELSE up
  BY DEF Send
<1>2. PICK k \in Nat, h \in Nat : k = Len(sent) /\ h = Len(handled)
  BY DEF FrameInv, FrameTypes
<1> DEFINE four == <<<<"body", k + 1, 1>>, <<"body", k + 1, 2>>, CR, LF>>
<1>3. /\ four \in Seq(Symbols) /\ Len(four) = 4
      /\ \A i \in 1..4 : four[i] = Symbol(4 * k + i)
  <2>1. /\ k + 1 \in Nat \ {0} /\ 4 * (k + 1) - 3 = 4 * k + 1 /\ 4 * (k + 1) - 2 = 4 * k + 2
        /\ 4 * (k + 1) - 1 = 4 * k + 3 /\ 4 * (k + 1) = 4 * k + 4
    OBVIOUS
  <2>2. /\ Symbol(4 * k + 1) = <<"body", k + 1, 1>> /\ Symbol(4 * k + 2) = <<"body", k + 1, 2>>
        /\ Symbol(4 * k + 3) = CR /\ Symbol(4 * k + 4) = LF
    BY <2>1, SymbolFacts
  <2>3. four \in Seq(Symbols) /\ Len(four) = 4
    BY DEF Symbols
  <2>5. /\ four[1] = <<"body", k + 1, 1>> /\ four[2] = <<"body", k + 1, 2>>
        /\ four[3] = CR /\ four[4] = LF
    OBVIOUS
  <2> HIDE DEF four
  <2>4. ASSUME NEW i \in 1..4 PROVE four[i] = Symbol(4 * k + i)
    <3>1. i = 1 \/ i = 2 \/ i = 3 \/ i = 4
      OBVIOUS
    <3> QED BY <2>2, <2>5, <3>1
  <2> QED BY <2>3, <2>4
<1>4. client = "open" => up' = up \o four
  <2> SUFFICES ASSUME client = "open" PROVE up' = up \o four
    OBVIOUS
  <2>1. up' = up \o Body(k + 1) \o <<CR, LF>>
    BY <1>1, <1>2
  <2>2. up \in Seq(Symbols) /\ k + 1 \in Nat
    BY DEF FrameInv, FrameTypes
  <2>3. up \o Body(k + 1) \o <<CR, LF>> = up \o four
    BY <2>2, FourBehind
  <2> QED BY <2>1, <2>3
<1> HIDE DEF four
<1>5. /\ up' \in Seq(Symbols)
      /\ client = "open" => /\ Len(up') = Len(up) + 4
                            /\ \A i \in 1..Len(up') : up'[i] = IF i <= Len(up) THEN up[i]
                                                              ELSE four[i - Len(up)]
  <2>1. CASE client = "open"
    <3>1. up \in Seq(Symbols) /\ Len(up) \in Nat
      BY LenProperties DEF FrameInv, FrameTypes
    <3>2. /\ up \o four \in Seq(Symbols) /\ Len(up \o four) = Len(up) + 4
          /\ \A i \in 1..(Len(up) + 4) : (up \o four)[i] = IF i <= Len(up) THEN up[i]
                                                          ELSE four[i - Len(up)]
      <4> DEFINE seq == up
      <4>1. seq \in Seq(Symbols) /\ four \in Seq(Symbols)
        BY <1>3, <3>1
      <4> HIDE DEF seq
      <4>2. /\ seq \o four \in Seq(Symbols) /\ Len(seq \o four) = Len(seq) + Len(four)
            /\ \A i \in 1..(Len(seq) + Len(four)) : (seq \o four)[i] = IF i <= Len(seq) THEN seq[i]
                                                          ELSE four[i - Len(seq)]
        BY <4>1, ConcatProperties
      <4> QED BY <1>3, <4>2 DEF seq
    <3>3. up' = up \o four
      BY <1>4, <2>1
    <3> QED BY <3>2, <3>3
  <2>2. CASE client # "open"
    BY <1>1, <2>2 DEF FrameInv, FrameTypes
  <2> QED BY <2>1, <2>2
<1>6. StreamInv'
  <2> SUFFICES ASSUME server = "open" PROVE \E w \in Nat : Continues(Len(handled), w)'
    BY <1>1 DEF StreamInv
  <2>1. PICK w \in Nat : Continues(Len(handled), w)
    BY DEF FrameInv, StreamInv
  <2>2. CASE client = "open"
    <3>1. w = k /\ Len(buffer) \in Nat /\ Len(up) \in Nat /\ Len(buffer) + Len(up) = 4 * (k - h)
      BY <1>2, <2>1, <2>2, LenProperties DEF Continues, FrameInv, FrameTypes
    <3>2. ASSUME NEW i \in 1..(Len(up) + 4) PROVE up'[i] = Symbol(4 * h + Len(buffer) + i)
      <4>1. CASE i <= Len(up)
        <5>1. i \in 1..Len(up)
          BY <3>1, <4>1
        <5>2. up'[i] = up[i]
          BY <1>5, <2>2, <4>1
        <5> QED BY <1>2, <2>1, <5>1, <5>2 DEF Continues
      <4>2. CASE i > Len(up)
        <5>1. i - Len(up) \in 1..4 /\ ~(i <= Len(up))
          BY <3>1, <4>2
        <5>2. up'[i] = four[i - Len(up)]
          BY <1>5, <2>2, <5>1
        <5>3. 4 * k + (i - Len(up)) = 4 * h + Len(buffer) + i
          BY <3>1
        <5> QED BY <1>3, <5>1, <5>2, <5>3
      <4> QED BY <3>1, <4>1, <4>2
    <3>3. Continues(h, k + 1)'
      <4>1. Len(up') = Len(up) + 4
        BY <1>5, <2>2
      <4>2. Len(buffer) + Len(up') = 4 * ((k + 1) - h) /\ h <= k + 1
        <5>1. h <= k
          BY <1>2, <2>1, <3>1 DEF Continues
        <5> QED BY <3>1, <4>1, <5>1
      <4>3. \A i \in 1..Len(buffer) : buffer[i] = Symbol(4 * h + i)
        BY <1>2, <2>1 DEF Continues
      <4>4. k + 1 = Len(sent')
        BY <1>2
      <4>5. \A i \in 1..Len(up') : up'[i] = Symbol(4 * h + Len(buffer) + i)
        BY <3>2, <4>1
      <4>6. k + 1 <= Len(sent') /\ (client' = "open" => k + 1 = Len(sent'))
        BY <4>4
      <4>7. buffer' = buffer
        BY <1>1
      <4> QED BY <4>2, <4>3, <4>5, <4>6, <4>7 DEF Continues
    <3> QED BY <1>1, <1>2, <3>3
  <2>3. CASE client # "open"
    <3>1. up' = up
      BY <1>1, <2>3
    <3>2. w <= Len(sent')
      BY <1>2, <2>1 DEF Continues
    <3>3. Continues(Len(handled), w)'
      BY <1>1, <2>1, <2>3, <3>1, <3>2 DEF Continues
    <3> QED BY <3>3
  <2> QED BY <2>2, <2>3
<1>7. FrameTypes'
  BY <1>1, <1>2, <1>5 DEF FrameInv, FrameTypes
<1>8. HandledInv'
  BY <1>1, <1>2 DEF FrameInv, HandledInv
<1> QED BY <1>6, <1>7, <1>8 DEF FrameInv

\* The rest of a sequence, from behind its first n.
LEMMA RestOf ==
  ASSUME NEW S, NEW s \in Seq(S), NEW n \in 0..Len(s)
  PROVE  /\ SubSeq(s, n + 1, Len(s)) \in Seq(S)
         /\ Len(SubSeq(s, n + 1, Len(s))) = Len(s) - n
         /\ \A i \in 1..(Len(s) - n) : SubSeq(s, n + 1, Len(s))[i] = s[n + i]
<1> DEFINE rest == SubSeq(s, n + 1, Len(s))
<1>0. Len(s) \in Nat
  BY LenProperties
<1>1. CASE n = Len(s)
  <2>1. rest = <<>>
    BY <1>0, <1>1, SubSeqEmpty
  <2>2. rest \in Seq(S) /\ Len(rest) = 0
    BY <2>1, EmptySeq
  <2> HIDE DEF rest
  <2>3. /\ rest \in Seq(S) /\ Len(rest) = Len(s) - n
        /\ \A i \in 1..(Len(s) - n) : rest[i] = s[n + i]
    BY <1>0, <1>1, <2>2
  <2> QED BY <2>3 DEF rest
<1>2. CASE n < Len(s)
  <2>1. rest \in Seq(S)
    BY <1>0, <1>2, SubSeqProperties
  <2>2. Len(rest) = Len(s) - n
    BY <1>0, <1>2, SubSeqProperties
  <2>3. \A i \in 1..(Len(s) - n) : rest[i] = s[n + i]
    BY <1>0, <1>2, SubSeqProperties
  <2> QED BY <2>1, <2>2, <2>3
<1> QED BY <1>0, <1>1, <1>2

\* What a data event looks at: the buffer and the chunk, which is the beginning of
\* the stream, n symbols of which it takes.
Taken(n, text) ==
  /\ n \in 1..Len(up)
  /\ text = buffer \o SubSeq(up, 1, n)
  /\ up' = SubSeq(up, n + 1, Len(up))

\* The buffer with the chunk, and what stays on the way, are the next requests,
\* symbol by symbol.
LEMMA TakenFacts ==
  ASSUME FrameInv, NEW n, NEW text, Taken(n, text), NEW w \in Nat, Continues(Len(handled), w)
  PROVE  /\ text \in Seq(Symbols) /\ Len(text) = Len(buffer) + n
         /\ \A i \in 1..Len(text) : text[i] = Symbol(4 * Len(handled) + i)
         /\ up' \in Seq(Symbols) /\ Len(up') = Len(up) - n
         /\ \A i \in 1..Len(up') : up'[i] = Symbol(4 * Len(handled) + Len(text) + i)
<1>1. PICK b, u, h : b = buffer /\ u = up /\ h = Len(handled)
  OBVIOUS
<1>2. /\ b \in Seq(Symbols) /\ u \in Seq(Symbols) /\ h \in Nat
      /\ Len(b) \in Nat /\ Len(u) \in Nat /\ n \in 1..Len(u)
  BY <1>1, LenProperties DEF FrameInv, FrameTypes, Taken
<1>3. /\ \A i \in 1..Len(b) : b[i] = Symbol(4 * h + i)
      /\ \A i \in 1..Len(u) : u[i] = Symbol(4 * h + Len(b) + i)
  BY <1>1 DEF Continues
<1> DEFINE chunk == SubSeq(u, 1, n)
           rest  == SubSeq(u, n + 1, Len(u))
<1>4. /\ chunk \in Seq(Symbols) /\ Len(chunk) = n
      /\ \A i \in 1..n : chunk[i] = u[i]
  <2>1. /\ 1 \in Int /\ n \in Int /\ (1 <= n => 1 \in 1..Len(u) /\ n \in 1..Len(u))
        /\ n - 1 + 1 = n
    BY <1>2
  <2>2. chunk \in Seq(Symbols)
    BY <1>2, SubSeqProperties
  <2>3. Len(chunk) = n
    BY <1>2, SubSeqProperties
  <2>4. \A i \in 1..n : chunk[i] = u[i]
    BY <1>2, SubSeqProperties
  <2> QED BY <2>2, <2>3, <2>4
<1>5. /\ rest \in Seq(Symbols) /\ Len(rest) = Len(u) - n
      /\ \A i \in 1..(Len(u) - n) : rest[i] = u[n + i]
  <2>1. n \in 0..Len(u)
    BY <1>2
  <2> QED BY <1>2, <2>1, RestOf
<1> HIDE DEF chunk, rest
<1>6. /\ b \o chunk \in Seq(Symbols) /\ Len(b \o chunk) = Len(b) + n
      /\ \A i \in 1..(Len(b) + n) : (b \o chunk)[i] = IF i <= Len(b) THEN b[i] ELSE chunk[i - Len(b)]
  BY <1>2, <1>4, ConcatProperties
<1>7. \A i \in 1..(Len(b) + n) : (b \o chunk)[i] = Symbol(4 * h + i)
  <2> TAKE i \in 1..(Len(b) + n)
  <2>1. CASE i <= Len(b)
    BY <1>2, <1>3, <1>6, <2>1
  <2>2. CASE ~(i <= Len(b))
    <3>1. i - Len(b) \in 1..n /\ i - Len(b) \in 1..Len(u) /\ Len(b) + (i - Len(b)) = i
      BY <1>2, <2>2
    <3>2. (b \o chunk)[i] = u[i - Len(b)]
      BY <1>4, <1>6, <2>2, <3>1
    <3>3. 4 * h + Len(b) + (i - Len(b)) = 4 * h + i
      BY <1>2
    <3> QED BY <1>3, <3>1, <3>2, <3>3
  <2> QED BY <2>1, <2>2
<1>8. \A i \in 1..(Len(u) - n) : rest[i] = Symbol(4 * h + (Len(b) + n) + i)
  <2> TAKE i \in 1..(Len(u) - n)
  <2>1. n + i \in 1..Len(u) /\ 4 * h + Len(b) + (n + i) = 4 * h + (Len(b) + n) + i
    BY <1>2
  <2> QED BY <1>3, <1>5, <2>1
<1>9. text = b \o chunk /\ up' = rest
  BY <1>1 DEF Taken, chunk, rest
<1> QED BY <1>1, <1>5, <1>6, <1>7, <1>8, <1>9

\* A data event within the limit hands the whole requests in the buffer on and
\* keeps the beginning of the next.
LEMMA AcceptFrames ==
  ASSUME FrameInv, server = "open", NEW n, NEW text, Taken(n, text), NEW chunk,
         Accept(chunk, text), UNCHANGED <<sent, client>>
  PROVE  FrameInv'
<1>1. PICK w \in Nat : Continues(Len(handled), w)
  BY DEF FrameInv, StreamInv
<1>2. PICK h \in Nat, t \in Nat, m \in Nat : h = Len(handled) /\ t = Len(text) /\ m = t \div 4
  <2>1. Len(text) \in Nat
    BY <1>1, TakenFacts, LenProperties
  <2>2. Len(text) \div 4 \in Nat
    BY <2>1
  <2> QED BY <2>1, <2>2 DEF FrameInv, FrameTypes
<1>3. /\ text \in Seq(Symbols) /\ t = Len(buffer) + n
      /\ \A i \in 1..t : text[i] = Symbol(4 * h + i)
      /\ up' \in Seq(Symbols) /\ Len(up') = Len(up) - n
      /\ \A i \in 1..Len(up') : up'[i] = Symbol(4 * h + t + i)
  BY <1>1, <1>2, TakenFacts
<1>4. n \in 1..Len(up) /\ Len(buffer) \in Nat /\ Len(up) \in Nat
  BY LenProperties DEF Taken, FrameInv, FrameTypes
<1>5. 4 * m <= t /\ t < 4 * m + 4 /\ t <= 4 * (w - h) /\ h <= w
  <2>1. Len(buffer) + Len(up) = 4 * (w - h) /\ h <= w
    BY <1>1, <1>2 DEF Continues
  <2>2. 4 * m <= t /\ t < 4 * m + 4
    BY <1>2
  <2>3. t = Len(buffer) + n
    BY <1>3
  <2> QED BY <1>4, <2>1, <2>2, <2>3
<1> DEFINE lines == [i \in 1..m |-> Body(h + i)]
           rest == SubSeq(text, 4 * m + 1, t)
<1>6. NonBlank(Framed(text).lines) = lines /\ Framed(text).rest = rest
  <2>1. /\ text \in Seq(Symbols) /\ h \in Nat /\ m \in Nat /\ m = Len(text) \div 4
        /\ \A i \in 1..Len(text) : text[i] = Symbol(4 * h + i)
    BY <1>2, <1>3
  <2>2. /\ NonBlank(Framed(text).lines) = [i \in 1..m |-> Body(h + i)]
        /\ Framed(text).rest = SubSeq(text, 4 * m + 1, Len(text))
    BY <2>1, CutLines, ZenonT(40)
  <2> QED BY <1>2, <2>2
<1>7. handled' = handled \o lines /\ buffer' = rest /\ server' = server
  BY <1>6 DEF Accept
<1>8. /\ rest \in Seq(Symbols) /\ Len(rest) = t - 4 * m
      /\ \A i \in 1..(t - 4 * m) : rest[i] = text[4 * m + i]
  <2> DEFINE k == 4 * m
  <2>1. k \in 0..Len(text)
    BY <1>2, <1>5
  <2> HIDE DEF k
  <2>2. /\ SubSeq(text, k + 1, Len(text)) \in Seq(Symbols)
        /\ Len(SubSeq(text, k + 1, Len(text))) = Len(text) - k
        /\ \A i \in 1..(Len(text) - k) : SubSeq(text, k + 1, Len(text))[i] = text[k + i]
    BY <1>3, <2>1, RestOf
  <2> QED BY <1>2, <2>2 DEF k
<1>9. handled' = [i \in 1..(h + m) |-> Body(i)] /\ Len(handled') = h + m
  <2> DEFINE Bodies == {Body(r) : r \in Nat}
             first == [i \in 1..h |-> Body(i)]
             all == [i \in 1..(h + m) |-> Body(i)]
  <2>1. handled = first
    BY <1>2 DEF FrameInv, HandledInv
  <2>2. /\ first \in Seq(Bodies) /\ Len(first) = h
        /\ lines \in Seq(Bodies) /\ Len(lines) = m
        /\ all \in Seq(Bodies) /\ Len(all) = h + m
    <3>1. /\ first \in [1..h -> Bodies] /\ lines \in [1..m -> Bodies]
          /\ all \in [1..(h + m) -> Bodies] /\ h + m \in Nat
      OBVIOUS
    <3> HIDE DEF first, lines, all, Bodies
    <3>2. first \in Seq(Bodies) /\ lines \in Seq(Bodies) /\ all \in Seq(Bodies)
      BY <3>1, SeqDef
    <3> QED BY <3>1, <3>2, LenProperties
  <2>4. /\ \A i \in 1..h : first[i] = Body(i)
        /\ \A i \in 1..m : lines[i] = Body(h + i)
        /\ \A i \in 1..(h + m) : all[i] = Body(i)
    OBVIOUS
  <2> HIDE DEF Bodies, first, all, lines
  <2>5. /\ first \o lines \in Seq(Bodies) /\ Len(first \o lines) = h + m
        /\ \A i \in 1..(h + m) : (first \o lines)[i] = IF i <= h THEN first[i] ELSE lines[i - h]
    BY <2>2, ConcatProperties
  <2>6. \A i \in 1..(h + m) : (first \o lines)[i] = all[i]
    <3> TAKE i \in 1..(h + m)
    <3>1. CASE i <= h
      BY <2>4, <2>5, <3>1
    <3>2. CASE ~(i <= h)
      <4>1. i - h \in 1..m /\ h + (i - h) = i
        BY <3>2
      <4> QED BY <2>4, <2>5, <3>2, <4>1
    <3> QED BY <3>1, <3>2
  <2>7. first \o lines = all
    BY <2>2, <2>5, <2>6, SeqEqual
  <2> QED BY <1>7, <2>1, <2>2, <2>7 DEF all
<1> HIDE DEF lines, rest
<1>10. Continues(h + m, w)'
  <2>1. h + m <= w /\ w <= Len(sent')
    BY <1>1, <1>2, <1>5 DEF Continues
  <2>2. client' = "open" => w = Len(sent')
    BY <1>1 DEF Continues
  <2>3. Len(buffer') + Len(up') = 4 * (w - (h + m))
    <3>1. Len(buffer') = t - 4 * m
      BY <1>7, <1>8
    <3>2. Len(buffer) + Len(up) = 4 * (w - h)
      BY <1>1, <1>2 DEF Continues
    <3>3. t = Len(buffer) + n /\ Len(up') = Len(up) - n /\ n \in Nat
      BY <1>3, <1>4
    <3>4. Len(buffer') + Len(up') = Len(buffer) + Len(up) - 4 * m
      BY <1>4, <3>1, <3>3
    <3> QED BY <1>5, <3>2, <3>4
  <2>4. \A i \in 1..Len(buffer') : buffer'[i] = Symbol(4 * (h + m) + i)
    <3>1. ASSUME NEW i \in 1..(t - 4 * m) PROVE rest[i] = Symbol(4 * (h + m) + i)
      <4>1. 4 * m + i \in 1..t /\ 4 * h + (4 * m + i) = 4 * (h + m) + i
        BY <1>5
      <4> QED BY <1>3, <1>8, <4>1
    <3> QED BY <1>7, <1>8, <3>1
  <2>5. \A i \in 1..Len(up') : up'[i] = Symbol(4 * (h + m) + Len(buffer') + i)
    <3>1. Len(buffer') = t - 4 * m /\ Len(up') \in Nat
      BY <1>3, <1>4, <1>7, <1>8
    <3> TAKE i \in 1..Len(up')
    <3>2. 4 * (h + m) + Len(buffer') + i = 4 * h + t + i
      BY <3>1
    <3> QED BY <1>3, <3>2
  <2> QED BY <2>1, <2>2, <2>3, <2>4, <2>5 DEF Continues
<1>11. FrameTypes'
  BY <1>3, <1>7, <1>8, <1>9 DEF FrameInv, FrameTypes
<1>12. HandledInv'
  <2>1. h + m <= Len(sent')
    BY <1>10 DEF Continues
  <2> QED BY <1>9, <2>1 DEF HandledInv
<1>13. StreamInv'
  BY <1>9, <1>10 DEF StreamInv
<1> QED BY <1>11, <1>12, <1>13 DEF FrameInv

\* A data event above the limit changes none of this but the state of the socket.
LEMMA RefuseFrames ==
  ASSUME FrameInv, server = "open", NEW n, NEW text, Taken(n, text), Refuse,
         UNCHANGED <<sent, client>>
  PROVE  FrameInv'
<1>1. PICK w \in Nat : Continues(Len(handled), w)
  BY DEF FrameInv, StreamInv
<1>2. up' \in Seq(Symbols)
  BY <1>1, TakenFacts
<1> QED BY <1>2 DEF FrameInv, FrameTypes, HandledInv, StreamInv, Refuse

-----------------------------------------------------------------------------
\* Every step keeps the invariant, and refuses a line only with two requests or
\* more that are written and not handled.
LEMMA FrameStep ==
  ASSUME FrameInv, [Next]_vars
  PROVE  /\ FrameInv'
         /\ server' = "refused" /\ server = "open" => Len(sent) - Len(handled) >= 2
<1>1. ASSUME NEW kind \in Kinds, Send(kind) PROVE FrameInv' /\ server' = server
  <2>1. Len(sent') = Len(sent) + 1
    <3>1. sent' = Append(sent, kind)
      BY <1>1 DEF Send
    <3> QED BY <3>1
  <2> QED BY <1>1, <2>1, SendFrames DEF Send
<1>2. ASSUME Data
      PROVE  /\ FrameInv'
             /\ server' = "refused" => Len(sent) - Len(handled) >= 2
  <2>1. PICK n \in 1..Len(up) :
          /\ up' = SubSeq(up, n + 1, Len(up))
          /\ IF Len(buffer \o SubSeq(up, 1, n)) > MaxLine THEN Refuse
             ELSE Accept(SubSeq(up, 1, n), buffer \o SubSeq(up, 1, n))
    BY <1>2 DEF Data
  <2> DEFINE chunk == SubSeq(up, 1, n)
             text  == buffer \o chunk
  <2>2. Taken(n, text) /\ server = "open" /\ UNCHANGED <<sent, client>>
    BY <1>2, <2>1 DEF Taken, Data
  <2>3. (Len(text) > MaxLine /\ Refuse) \/ Accept(chunk, text)
    BY <2>1
  <2> HIDE DEF chunk, text
  <2>4. CASE Accept(chunk, text)
    <3>1. server' = server
      BY <2>4 DEF Accept
    <3> QED BY <2>2, <2>4, <3>1, AcceptFrames
  <2>5. CASE Len(text) > MaxLine /\ Refuse
    <3>1. FrameInv'
      BY <2>2, <2>5, RefuseFrames
    <3>2. PICK w \in Nat : Continues(Len(handled), w)
      BY <2>2 DEF FrameInv, StreamInv
    <3>3. /\ Len(text) = Len(buffer) + n /\ Len(buffer) \in Nat /\ Len(up) \in Nat
          /\ n \in 1..Len(up) /\ Len(sent) \in Nat /\ Len(handled) \in Nat
      BY <2>2, <3>2, TakenFacts, LenProperties DEF FrameInv, FrameTypes
    <3>4. Len(buffer) + Len(up) = 4 * (w - Len(handled)) /\ w <= Len(sent)
      BY <3>2 DEF Continues
    <3>5. MaxLine \in Nat /\ MaxLine >= 4
      BY LineAssumption DEF MinLine, Body
    <3>6. Len(sent) - Len(handled) >= 2
      BY <2>5, <3>3, <3>4, <3>5
    <3> QED BY <3>1, <3>6
  <2> QED BY <2>3, <2>4, <2>5
<1>3. ASSUME server' # "open" \/ server' = server,
             UNCHANGED <<sent, up, buffer, handled>>, client' = client \/ client' # "open"
      PROVE  FrameInv'
  <2>1. ASSUME NEW w \in Nat, Continues(Len(handled), w) PROVE Continues(Len(handled), w)'
    BY <1>3, <2>1 DEF Continues
  <2>2. StreamInv'
    BY <1>3, <2>1 DEF FrameInv, StreamInv
  <2> QED BY <1>3, <2>2 DEF FrameInv, FrameTypes, HandledInv
<1>4. ASSUME Published \/ Received \/ Destroy \/ EndSeen \/ CloseEvent \/ UNCHANGED vars
      PROVE  /\ UNCHANGED <<sent, up, buffer, handled, server>>
             /\ client' = client \/ client' # "open"
  BY <1>4 DEF Published, Received, Destroy, EndSeen, CloseEvent, vars, upVars, downVars
<1>5. ASSUME ServerEnds
      PROVE  UNCHANGED <<sent, up, buffer, handled, client>> /\ server' = "ended"
  BY <1>5 DEF ServerEnds
<1> QED BY <1>1, <1>2, <1>3, <1>4, <1>5 DEF Next

\* The invariant of the framing holds in every behaviour.
THEOREM FrameInvariant == Spec => []FrameInv
<1>1. FrameInv /\ [Next]_vars => FrameInv'
  BY FrameStep
<1> QED BY <1>1, FrameInit, PTL DEF Spec

\* However the stream is cut into chunks, the handler of TcpServer.ts gets the
\* lines that the client sent, each whole, in order, none twice.
THEOREM HandledInOrderHolds == Spec => []HandledInOrder
<1>1. FrameInv => HandledInOrder
  <2> SUFFICES ASSUME FrameInv PROVE HandledInOrder
    OBVIOUS
  <2>1. DOMAIN handled = 1..Len(handled)
    BY DEF FrameInv, HandledInv
  <2> QED BY <2>1 DEF FrameInv, HandledInv, HandledInOrder
<1> QED BY <1>1, FrameInvariant, PTL

\* Whatever the limit and the chunks, TcpServer.ts refuses a line as too long only
\* if the client has sent two requests or more that have not been handled.
THEOREM RefusedOnlyWhenAheadHolds == Spec => RefusedOnlyWhenAhead
<1>1. FrameInv /\ [Next]_vars
        => [server' = "refused" /\ server = "open" => Len(sent) - Len(handled) >= 2]_vars
  BY FrameStep
<1> QED BY <1>1, FrameInvariant, PTL DEF Spec, RefusedOnlyWhenAhead

-----------------------------------------------------------------------------
(***************************************************************************)
(* The stream of replies, symbol by symbol: three for each line.           *)
(***************************************************************************)
LinePrefixes == {"*", "$", "+", "-", ":"}
Words == {"text", "message", "channel", "subscribe", "unsubscribe", "count", "only SUBSCRIBE",
          "unknown command", "line too long", "Connection closed"}
Lines == {Line(prefix, r, content) : prefix \in LinePrefixes, r \in Nat, content \in Words \cup Nat}
Marks == Lines \cup {CR, LF}

\* What Line makes of a prefix, a request and a content is a line.
LEMMA LineTyped ==
  ASSUME NEW prefix \in LinePrefixes, NEW r \in Nat, NEW content \in Words \cup Nat
  PROVE  Line(prefix, r, content) \in Lines
BY DEF Lines

\* A line is no part of a line end.
LEMMA LinesAreNoEnds == CR # LF /\ \A line \in Lines : line # CR /\ line # LF
<1>1. CR[1] = "cr" /\ LF[1] = "lf"
  BY DEF CR, LF
<1>2. ASSUME NEW line \in Lines PROVE line[1] = "line"
  <2>1. PICK prefix \in LinePrefixes, r \in Nat, content \in Words \cup Nat :
          line = Line(prefix, r, content)
    BY DEF Lines
  <2> QED BY <2>1 DEF Line
<1> QED BY <1>1, <1>2

\* The symbols of the lines W; the last of each three is the only LF.
LEMMA EncodedFacts ==
  ASSUME NEW W \in Seq(Lines)
  PROVE  /\ Encoded(W) \in Seq(Marks) /\ Len(Encoded(W)) = 3 * Len(W)
         /\ \A j \in 1..Len(W) : /\ Encoded(W)[3 * j - 2] = W[j]
                                 /\ Encoded(W)[3 * j - 1] = CR /\ Encoded(W)[3 * j] = LF
         /\ \A j \in 1..(3 * Len(W)) : /\ Encoded(W)[j] = LF => j % 3 = 0
                                       /\ Encoded(W)[j] = CR => j % 3 = 2
<1> DEFINE n == Len(W)
           sym(j) == CASE j % 3 = 1 -> W[(j + 2) \div 3]
                       [] j % 3 = 2 -> CR
                       [] j % 3 = 0 -> LF
<1>1. n \in Nat /\ \A j \in 1..n : W[j] \in Lines
  BY LenProperties, ElementOfSeq
<1>2. Encoded(W) = [j \in 1..(3 * n) |-> sym(j)]
  BY DEF Encoded
<1> HIDE DEF n
<1>3. ASSUME NEW j \in 1..(3 * n)
      PROVE  /\ sym(j) \in Marks
             /\ sym(j) = LF => j % 3 = 0
             /\ sym(j) = CR => j % 3 = 2
  <2>1. j % 3 = 1 => (j + 2) \div 3 \in 1..n
    BY <1>1
  <2>2. j % 3 = 0 \/ j % 3 = 1 \/ j % 3 = 2
    BY <1>1
  <2>3. CASE j % 3 = 1
    <3>1. sym(j) = W[(j + 2) \div 3] /\ W[(j + 2) \div 3] \in Lines
      BY <1>1, <2>1, <2>3
    <3> HIDE DEF sym
    <3> QED BY <3>1, LinesAreNoEnds DEF Marks
  <2>4. CASE j % 3 = 2
    <3>1. sym(j) = CR
      BY <2>4
    <3> HIDE DEF sym
    <3> QED BY <2>4, <3>1, LinesAreNoEnds DEF Marks
  <2>5. CASE j % 3 = 0
    <3>1. sym(j) = LF
      BY <2>5
    <3> HIDE DEF sym
    <3> QED BY <2>5, <3>1, LinesAreNoEnds DEF Marks
  <2> QED BY <2>2, <2>3, <2>4, <2>5
<1>4. ASSUME NEW j \in 1..n
      PROVE  /\ 3 * j - 2 \in 1..(3 * n) /\ 3 * j - 1 \in 1..(3 * n) /\ 3 * j \in 1..(3 * n)
             /\ sym(3 * j - 2) = W[j] /\ sym(3 * j - 1) = CR /\ sym(3 * j) = LF
  <2>1. /\ (3 * j - 2) % 3 = 1 /\ ((3 * j - 2) + 2) \div 3 = j
        /\ (3 * j - 1) % 3 = 2 /\ (3 * j) % 3 = 0
    BY <1>1
  <2>2. /\ 3 * j - 2 \in 1..(3 * n) /\ 3 * j - 1 \in 1..(3 * n) /\ 3 * j \in 1..(3 * n)
    BY <1>1
  <2>3. sym(3 * j - 2) = W[j]
    BY <2>1
  <2>4. sym(3 * j - 1) = CR
    BY <2>1
  <2>5. sym(3 * j) = LF
    BY <2>1
  <2> QED BY <2>2, <2>3, <2>4, <2>5
<1> HIDE DEF sym
<1>5. Encoded(W) \in [1..(3 * n) -> Marks] /\ 3 * n \in Nat
  BY <1>1, <1>2, <1>3
<1>6. Encoded(W) \in Seq(Marks) /\ Len(Encoded(W)) = 3 * n
  <2>1. Encoded(W) \in Seq(Marks)
    BY <1>5, SeqDef
  <2>2. DOMAIN Encoded(W) = 1..Len(Encoded(W)) /\ Len(Encoded(W)) \in Nat
    BY <2>1, LenProperties
  <2>3. DOMAIN Encoded(W) = 1..(3 * n)
    BY <1>5
  <2>4. Len(Encoded(W)) = 3 * n
    BY <1>5, <2>2, <2>3
  <2> QED BY <2>1, <2>4
<1>7. \A j \in 1..(3 * n) : Encoded(W)[j] = sym(j)
  BY <1>2
<1> QED BY <1>3, <1>4, <1>6, <1>7 DEF n

\* Lines that are written one after the other are joined on the wire.
LEMMA EncodedJoin ==
  ASSUME NEW W \in Seq(Lines), NEW L \in Seq(Lines)
  PROVE  W \o L \in Seq(Lines) /\ Encoded(W \o L) = Encoded(W) \o Encoded(L)
<1>1. /\ W \o L \in Seq(Lines) /\ Len(W \o L) = Len(W) + Len(L)
      /\ \A j \in 1..(Len(W) + Len(L)) : (W \o L)[j] = IF j <= Len(W) THEN W[j] ELSE L[j - Len(W)]
  BY ConcatProperties
<1>2. PICK m \in Nat, n \in Nat : m = Len(W) /\ n = Len(L)
  BY LenProperties
<1> DEFINE E == Encoded(W)
           F == Encoded(L)
           J == W \o L
           G == Encoded(J)
<1>3. /\ E \in Seq(Marks) /\ Len(E) = 3 * m
      /\ \A j \in 1..m : E[3 * j - 2] = W[j] /\ E[3 * j - 1] = CR /\ E[3 * j] = LF
  BY <1>2, EncodedFacts
<1>4. /\ F \in Seq(Marks) /\ Len(F) = 3 * n
      /\ \A j \in 1..n : F[3 * j - 2] = L[j] /\ F[3 * j - 1] = CR /\ F[3 * j] = LF
  BY <1>2, EncodedFacts
<1>5. /\ G \in Seq(Marks) /\ Len(G) = 3 * (m + n)
      /\ \A j \in 1..(m + n) : G[3 * j - 2] = J[j] /\ G[3 * j - 1] = CR /\ G[3 * j] = LF
  <2>1. J \in Seq(Lines) /\ Len(J) = m + n
    BY <1>1, <1>2
  <2> HIDE DEF J
  <2> QED BY <2>1, EncodedFacts
<1>6. \A j \in 1..(m + n) : J[j] = IF j <= m THEN W[j] ELSE L[j - m]
  BY <1>1, <1>2
<1> HIDE DEF E, F, G, J
<1>7. /\ E \o F \in Seq(Marks) /\ Len(E \o F) = 3 * m + 3 * n
      /\ \A j \in 1..(3 * m + 3 * n) : (E \o F)[j] = IF j <= 3 * m THEN E[j] ELSE F[j - 3 * m]
  <2>1. /\ E \o F \in Seq(Marks) /\ Len(E \o F) = Len(E) + Len(F)
        /\ \A j \in 1..(Len(E) + Len(F)) : (E \o F)[j] = IF j <= Len(E) THEN E[j] ELSE F[j - Len(E)]
    BY <1>3, <1>4, ConcatProperties
  <2> QED BY <1>3, <1>4, <2>1
<1>8. ASSUME NEW j \in 1..(m + n), NEW d \in {0, 1, 2}
      PROVE  (E \o F)[3 * j - d] = G[3 * j - d]
  <2>1. 3 * j - d \in 1..(3 * m + 3 * n)
    OBVIOUS
  <2>2. d = 0 \/ d = 1 \/ d = 2
    OBVIOUS
  <2>3. CASE j <= m
    <3>1. 3 * j - d <= 3 * m /\ j \in 1..m
      BY <2>3
    <3>2. (E \o F)[3 * j - d] = E[3 * j - d] /\ J[j] = W[j]
      BY <1>6, <1>7, <2>1, <2>3, <3>1
    <3>3. E[3 * j - d] = G[3 * j - d]
      <4>1. E[3 * j - 2] = G[3 * j - 2]
        BY <1>3, <1>5, <3>1, <3>2
      <4>2. E[3 * j - 1] = G[3 * j - 1]
        BY <1>3, <1>5, <3>1
      <4>3. E[3 * j] = G[3 * j]
        BY <1>3, <1>5, <3>1
      <4>4. 3 * j - 0 = 3 * j
        OBVIOUS
      <4> QED BY <2>2, <4>1, <4>2, <4>3, <4>4
    <3> QED BY <3>2, <3>3
  <2>4. CASE ~(j <= m)
    <3> DEFINE k == j - m
    <3>1. ~(3 * j - d <= 3 * m) /\ k \in 1..n /\ (3 * j - d) - 3 * m = 3 * k - d
      BY <2>4
    <3>2. (E \o F)[3 * j - d] = F[3 * k - d] /\ J[j] = L[k]
      BY <1>6, <1>7, <2>1, <2>4, <3>1
    <3> HIDE DEF k
    <3>3. F[3 * k - d] = G[3 * j - d]
      <4>1. F[3 * k - 2] = G[3 * j - 2]
        BY <1>4, <1>5, <3>1, <3>2
      <4>2. F[3 * k - 1] = G[3 * j - 1]
        BY <1>4, <1>5, <3>1
      <4>3. F[3 * k] = G[3 * j]
        BY <1>4, <1>5, <3>1
      <4>4. 3 * j - 0 = 3 * j /\ 3 * k - 0 = 3 * k
        BY <3>1
      <4> QED BY <2>2, <4>1, <4>2, <4>3, <4>4
    <3> QED BY <3>2, <3>3
  <2> QED BY <2>3, <2>4
<1>9. ASSUME NEW p \in 1..(3 * (m + n)) PROVE (E \o F)[p] = G[p]
  <2>1. \E j \in 1..(m + n) : \E d \in {0, 1, 2} : p = 3 * j - d
    <3>1. (p + 2) \div 3 \in 1..(m + n) /\ 3 * ((p + 2) \div 3) - p \in {0, 1, 2}
      OBVIOUS
    <3>2. p = 3 * ((p + 2) \div 3) - (3 * ((p + 2) \div 3) - p)
      OBVIOUS
    <3> QED BY <3>1, <3>2
  <2> QED BY <1>8, <2>1
<1>10. 3 * m + 3 * n = 3 * (m + n)
  OBVIOUS
<1>11. E \o F = G
  BY <1>5, <1>7, <1>9, <1>10, SeqEqual
<1> QED BY <1>1, <1>11 DEF E, F, G, J

\* The m lines behind line i, as the parser gets them.
Cut(W, i, m) == [k \in 1..m |-> <<W[i + k]>>]

\* A buffer that begins behind line i is cut into the whole lines in it, and what
\* is left is the beginning of the next.
LEMMA CutReplies ==
  ASSUME NEW W \in Seq(Lines), NEW i \in Nat, NEW text \in Seq(Marks),
         3 * i + Len(text) <= 3 * Len(W),
         \A k \in 1..Len(text) : text[k] = Encoded(W)[3 * i + k]
  PROVE  \E m \in Nat : /\ 3 * m <= Len(text)
                        /\ Delimited(text).lines = Cut(W, i, m)
                        /\ Delimited(text).rest = SubSeq(text, 3 * m + 1, Len(text))
<1>a. PICK m \in Nat : m = Len(text) \div 3
  <2>1. Len(text) \in Nat
    BY LenProperties
  <2> QED BY <2>1
<1> DEFINE n == Len(text)
           ends == {k \in DOMAIN text : k > 1 /\ text[k] = LF /\ text[k - 1] = CR}
           at == [k \in 0..m |-> 3 * k]
<1>0. n \in Nat /\ DOMAIN text = 1..n /\ 3 * m <= n /\ n < 3 * m + 3 /\ Len(W) \in Nat
  BY <1>a, LenProperties
<1>1. i + m <= Len(W) /\ 3 * i + n <= 3 * Len(W)
  BY <1>0
<1>2. ASSUME NEW k \in 1..m
      PROVE  /\ 3 * k \in 1..n /\ 3 * k - 1 \in 1..n /\ 3 * k - 2 \in 1..n
             /\ text[3 * k - 2] = W[i + k] /\ text[3 * k - 1] = CR /\ text[3 * k] = LF
  <2>1. /\ 3 * k \in 1..n /\ 3 * k - 1 \in 1..n /\ 3 * k - 2 \in 1..n
        /\ i + k \in 1..Len(W)
    BY <1>0, <1>1
  <2>2. /\ 3 * i + (3 * k - 2) = 3 * (i + k) - 2 /\ 3 * i + (3 * k - 1) = 3 * (i + k) - 1
        /\ 3 * i + 3 * k = 3 * (i + k)
    OBVIOUS
  <2>3. /\ Encoded(W)[3 * (i + k) - 2] = W[i + k]
        /\ Encoded(W)[3 * (i + k) - 1] = CR /\ Encoded(W)[3 * (i + k)] = LF
    BY <2>1, EncodedFacts
  <2>4. /\ text[3 * k - 2] = Encoded(W)[3 * (i + k) - 2]
        /\ text[3 * k - 1] = Encoded(W)[3 * (i + k) - 1]
        /\ text[3 * k] = Encoded(W)[3 * (i + k)]
    BY <2>1, <2>2
  <2> QED BY <2>1, <2>3, <2>4
<1>3. ends = {3 * k : k \in 1..m}
  <2>1. ASSUME NEW p \in ends PROVE p \in {3 * k : k \in 1..m}
    <3>1. p \in 1..n /\ text[p] = LF
      BY <1>0
    <3>2. Encoded(W)[3 * i + p] = LF
      BY <3>1
    <3>3. 3 * i + p \in 1..(3 * Len(W))
      BY <1>0, <1>1, <3>1
    <3>4. (3 * i + p) % 3 = 0
      BY <3>2, <3>3, EncodedFacts
    <3>5. 3 * i + p = 3 * ((3 * i + p) \div 3)
      <4>1. \A x \in Int : x % 3 = 0 => x = 3 * (x \div 3)
        OBVIOUS
      <4>2. 3 * i + p \in Int
        BY <3>1
      <4> QED BY <3>4, <4>1, <4>2
    <3> DEFINE q == (3 * i + p) \div 3
    <3>6. q \in Int /\ 3 * i + p = 3 * q
      BY <3>1, <3>5
    <3> HIDE DEF q
    <3>7. q - i \in 1..m /\ p = 3 * (q - i)
      <4>1. \A x \in Int : 3 * x \in 1..n => x \in 1..m
        BY <1>0
      <4>2. \A a, b, c \in Int : 3 * a + b = 3 * c => b = 3 * (c - a)
        OBVIOUS
      <4>3. p \in Int /\ i \in Int /\ q \in Int /\ q - i \in Int
        BY <1>0, <3>1, <3>6
      <4>4. p = 3 * (q - i)
        BY <3>6, <4>2, <4>3
      <4>5. q - i \in 1..m
        <5> DEFINE x == q - i
        <5>1. x \in Int /\ 3 * x \in 1..n
          BY <3>1, <4>3, <4>4
        <5> HIDE DEF x
        <5>2. x \in 1..m
          BY <4>1, <5>1
        <5> QED BY <5>2 DEF x
      <4> QED BY <4>4, <4>5
    <3> QED BY <3>7
  <2>2. ASSUME NEW k \in 1..m PROVE 3 * k \in ends
    <3>1. 3 * k > 1
      OBVIOUS
    <3> QED BY <1>0, <1>2, <3>1
  <2> HIDE DEF ends
  <2> QED BY <2>1, <2>2
<1>4. /\ at \in [0..m -> Nat] /\ at[0] = 0 /\ at[m] = 3 * m
      /\ \A p, q \in 0..m : p < q => at[p] < at[q]
  OBVIOUS
<1>5. \A k \in 1..m : at[k - 1] + 1 = 3 * k - 2 /\ at[k] - 1 = 3 * k - 1 /\ at[k] = 3 * k
  OBVIOUS
<1> HIDE DEF at
<1>6. {3 * k : k \in 1..m} = {at[k] : k \in 1..m}
  <2>1. \A k \in 1..m : at[k] = 3 * k
    BY <1>5
  <2> QED BY <2>1
<1>7. Delimited(text) = Split(text, ends)
  BY DEF Delimited
<1> HIDE DEF ends, n
<1>8. Split(text, {at[k] : k \in 1..m}) =
        [lines |-> [k \in 1..m |-> Stripped(SubSeq(text, at[k - 1] + 1, at[k] - 1))],
         rest  |-> SubSeq(text, at[m] + 1, Len(text))]
  BY <1>4, SplitAt
<1>9. ASSUME NEW k \in 1..m
      PROVE  Stripped(SubSeq(text, at[k - 1] + 1, at[k] - 1)) = <<W[i + k]>>
  <2> DEFINE line == SubSeq(text, 3 * k - 2, 3 * k - 1)
  <2>1. /\ \A p \in (3 * k - 2)..(3 * k - 1) : text[p] \in Marks
        /\ 3 * k - 2 \in Int /\ 3 * k - 1 \in Int
    <3>1. \A p \in 1..n : text[p] \in Marks
      BY ElementOfSeq DEF n
    <3>2. \A p \in (3 * k - 2)..(3 * k - 1) : p \in 1..n
      BY <1>0, <1>2
    <3> QED BY <3>1, <3>2
  <2>2. /\ line \in Seq(Marks) /\ Len(line) = 2
        /\ line[1] = text[3 * k - 2] /\ line[2] = text[3 * k - 1]
    <3>1. /\ line \in Seq(Marks)
          /\ Len(line) = IF 3 * k - 2 <= 3 * k - 1 THEN (3 * k - 1) - (3 * k - 2) + 1 ELSE 0
          /\ \A p \in 1..((3 * k - 1) - (3 * k - 2) + 1) : line[p] = text[(3 * k - 2) + p - 1]
      BY <2>1, SubSeqProperties
    <3> HIDE DEF line
    <3>2. (3 * k - 1) - (3 * k - 2) + 1 = 2 /\ 3 * k - 2 <= 3 * k - 1
      OBVIOUS
    <3>3. (3 * k - 2) + 1 - 1 = 3 * k - 2 /\ (3 * k - 2) + 2 - 1 = 3 * k - 1
      OBVIOUS
    <3>4. 1 \in 1..((3 * k - 1) - (3 * k - 2) + 1) /\ 2 \in 1..((3 * k - 1) - (3 * k - 2) + 1)
      BY <3>2
    <3> QED BY <3>1, <3>2, <3>3, <3>4
  <2> HIDE DEF line
  <2>3. line[1] = W[i + k] /\ line[2] = CR
    BY <1>2, <2>2
  <2>4. Stripped(line) = SubSeq(line, 1, 1)
    <3>1. line # <<>>
      <4>1. line = <<>> => Len(line) = 0
        OBVIOUS
      <4> QED BY <2>2, <4>1
    <3> QED BY <2>2, <2>3, <3>1 DEF Stripped, Last, Front
  <2>5. SubSeq(line, 1, 1) = <<line[1]>>
    <3>1. /\ SubSeq(line, 1, 1) \in Seq(Marks) /\ Len(SubSeq(line, 1, 1)) = 1
          /\ SubSeq(line, 1, 1)[1] = line[1]
      <4>1. \A p \in 1..1 : line[p] \in Marks
        BY <2>2, ElementOfSeq
      <4> QED BY <4>1, SubSeqProperties
    <3> DEFINE s == SubSeq(line, 1, 1)
    <3>2. s \in Seq(Marks) /\ Len(s) = 1 /\ s[1] = line[1]
      BY <3>1
    <3> HIDE DEF s
    <3>3. s = <<s[1]>>
      BY <3>2
    <3> QED BY <3>2, <3>3 DEF s
  <2>6. at[k - 1] + 1 = 3 * k - 2 /\ at[k] - 1 = 3 * k - 1
    BY <1>5
  <2> QED BY <2>3, <2>4, <2>5, <2>6 DEF line
<1>10. [k \in 1..m |-> Stripped(SubSeq(text, at[k - 1] + 1, at[k] - 1))]
         = [k \in 1..m |-> <<W[i + k]>>]
  BY <1>9
<1>11. Delimited(text) = [lines |-> [k \in 1..m |-> <<W[i + k]>>],
                          rest  |-> SubSeq(text, 3 * m + 1, Len(text))]
  BY <1>3, <1>4, <1>6, <1>7, <1>8, <1>10
<1>12. 3 * m <= Len(text)
  BY <1>0 DEF n
<1> QED BY <1>11, <1>12 DEF Cut


-----------------------------------------------------------------------------
(***************************************************************************)
(* Frames: what the parser takes for one reply, a line of its own or a     *)
(* header and as many lines as it announces.                               *)
(***************************************************************************)
IsHeader(line) == line[2] = "*" /\ line[4] # 0

IsFrame(x) ==
  /\ x \in Seq(Lines)
  /\ x[1][2] = "*" => x[1][4] \in Nat
  /\ Len(x) = IF IsHeader(x[1]) THEN 1 + x[1][4] ELSE 1

\* A frame that the parser takes for a message.
Dropped(x) == IsHeader(x[1]) /\ IsPush(x)

\* A line of another prefix than that of a header is a frame.
LEMMA LineFrame ==
  ASSUME NEW prefix \in LinePrefixes, prefix # "*", NEW r \in Nat, NEW content \in Words
  PROVE  /\ Line(prefix, r, content) \in Lines
         /\ IsFrame(<<Line(prefix, r, content)>>) /\ ~Dropped(<<Line(prefix, r, content)>>)
<1> DEFINE line == Line(prefix, r, content)
<1>1. line \in Lines
  BY DEF Lines
<1>2. line[2] = prefix
  BY DEF Line
<1> HIDE DEF line
<1>3. <<line>> \in Seq(Lines) /\ Len(<<line>>) = 1 /\ <<line>>[1] = line
  BY <1>1
<1>4. IsFrame(<<line>>) /\ ~Dropped(<<line>>)
  BY <1>2, <1>3 DEF IsFrame, Dropped, IsHeader
<1> QED BY <1>1, <1>4 DEF line

\* A header in front of as many lines as it announces makes a frame with them.
LEMMA HeaderFrame ==
  ASSUME NEW r \in Nat, NEW lines \in Seq(Lines), NEW n \in Nat, n = Len(lines)
  PROVE  /\ IsFrame(<<Line("*", r, n)>> \o lines)
         /\ Dropped(<<Line("*", r, n)>> \o lines) <=> n > 0 /\ lines[1][4] \in PushWords
         /\ Len(<<Line("*", r, n)>> \o lines) = 1 + n
<1> DEFINE header == Line("*", r, n)
           x == <<header>> \o lines
<1>1. header \in Lines /\ header[2] = "*" /\ header[4] = n
  <2>1. n \in Words \cup Nat /\ "*" \in LinePrefixes
    BY DEF LinePrefixes
  <2>2. header \in Lines
    BY <2>1 DEF Lines
  <2>3. header[2] = "*" /\ header[4] = n
    BY DEF Line
  <2> QED BY <2>2, <2>3
<1> HIDE DEF header
<1>2. /\ <<header>> \in Seq(Lines) /\ Len(<<header>>) = 1 /\ <<header>>[1] = header
  BY <1>1
<1>3. /\ x \in Seq(Lines) /\ Len(x) = 1 + n
      /\ \A i \in 1..(1 + n) : x[i] = IF i <= 1 THEN <<header>>[i] ELSE lines[i - 1]
  <2> DEFINE s == <<header>>
  <2>1. s \in Seq(Lines) /\ Len(s) = 1
    BY <1>2
  <2> HIDE DEF s
  <2>2. /\ s \o lines \in Seq(Lines) /\ Len(s \o lines) = Len(s) + Len(lines)
        /\ \A i \in 1..(Len(s) + Len(lines)) :
             (s \o lines)[i] = IF i <= Len(s) THEN s[i] ELSE lines[i - Len(s)]
    BY <2>1, ConcatProperties
  <2> QED BY <2>1, <2>2 DEF s
<1> HIDE DEF x
<1>4. x[1] = header
  <2>1. 1 \in 1..(1 + n)
    OBVIOUS
  <2> QED BY <1>2, <1>3, <2>1
<1>5. n > 0 => x[2] = lines[1]
  <2>1. n > 0 => 2 \in 1..(1 + n) /\ ~(2 <= 1) /\ 2 - 1 = 1
    OBVIOUS
  <2> QED BY <1>3, <2>1
<1>6. IsFrame(x)
  BY <1>1, <1>3, <1>4 DEF IsFrame, IsHeader
<1>7. Dropped(x) <=> n > 0 /\ lines[1][4] \in PushWords
  <2>1. IsHeader(x[1]) <=> n > 0
    BY <1>1, <1>4 DEF IsHeader
  <2> QED BY <1>5, <2>1 DEF Dropped, IsPush
<1> QED BY <1>3, <1>6, <1>7 DEF x, header

\* A list of words is a frame, and a message if its first word is one of theirs.
LEMMA ArrayFrame ==
  ASSUME NEW r \in Nat, NEW items \in Seq(Words)
  PROVE  /\ IsFrame(array(r, items)) /\ Len(array(r, items)) = 1 + Len(items)
         /\ Dropped(array(r, items)) <=> Len(items) > 0 /\ items[1] \in PushWords
<1> DEFINE lines == [i \in DOMAIN items |-> Line("$", r, items[i])]
<1>1. PICK n \in Nat : n = Len(items) /\ DOMAIN items = 1..n /\ \A i \in 1..n : items[i] \in Words
  BY LenProperties, ElementOfSeq
<1>2. lines \in Seq(Lines) /\ Len(lines) = n
  <2>1. \A i \in 1..n : Line("$", r, items[i]) \in Lines
    BY <1>1 DEF Lines, LinePrefixes
  <2>2. lines \in [1..n -> Lines]
    BY <1>1, <2>1
  <2> HIDE DEF lines
  <2>3. lines \in Seq(Lines)
    BY <2>2, SeqDef
  <2> QED BY <2>2, <2>3, LenProperties
<1>3. n > 0 => lines[1][4] = items[1]
  <2>1. n > 0 => lines[1] = Line("$", r, items[1])
    BY <1>1
  <2> HIDE DEF lines
  <2> QED BY <2>1 DEF Line
<1>4. array(r, items) = <<Line("*", r, n)>> \o lines
  BY <1>1 DEF array
<1> HIDE DEF lines
<1>5. /\ IsFrame(<<Line("*", r, n)>> \o lines) /\ Len(<<Line("*", r, n)>> \o lines) = 1 + n
      /\ Dropped(<<Line("*", r, n)>> \o lines) <=> n > 0 /\ lines[1][4] \in PushWords
  BY <1>2, HeaderFrame
<1> QED BY <1>1, <1>3, <1>4, <1>5

\* What is sent without a request: a message is dropped, a refusal is an answer.
LEMMA UnrequestedFrames ==
  /\ Push \in Seq(Lines) /\ IsFrame(Push) /\ Dropped(Push)
  /\ TooLong \in Seq(Lines) /\ IsFrame(TooLong) /\ ~Dropped(TooLong)
<1>1. IsFrame(Push) /\ Dropped(Push)
  <2> DEFINE items == <<"message", "channel", "text">>
  <2>1. items \in Seq(Words) /\ Len(items) = 3 /\ items[1] \in PushWords
    BY DEF PushWords, Words
  <2> HIDE DEF items
  <2>2. IsFrame(array(0, items)) /\ (Dropped(array(0, items)) <=> Len(items) > 0 /\ items[1] \in PushWords)
    BY <2>1, ArrayFrame
  <2>3. IsFrame(array(0, items)) /\ Dropped(array(0, items))
    BY <2>1, <2>2
  <2> QED BY <2>3 DEF Push, items
<1>2. IsFrame(TooLong) /\ ~Dropped(TooLong)
  <2>1. "-" \in LinePrefixes /\ "-" # "*" /\ "line too long" \in Words /\ 0 \in Nat
    BY DEF LinePrefixes, Words
  <2> QED BY <2>1, LineFrame DEF TooLong
<1> QED BY <1>1, <1>2 DEF IsFrame

\* A sequence is joined to two others, one after the other or both at once.
LEMMA JoinAssociates ==
  ASSUME NEW S, NEW s \in Seq(S), NEW t \in Seq(S), NEW u \in Seq(S),
         NEW p, p = s \o t, NEW q, q = t \o u
  PROVE  p \o u = s \o q
<1>1. PICK k \in Nat, l \in Nat, m \in Nat : k = Len(s) /\ l = Len(t) /\ m = Len(u)
  BY LenProperties
<1>2. /\ p \in Seq(S) /\ Len(p) = k + l
      /\ \A i \in 1..(k + l) : p[i] = IF i <= k THEN s[i] ELSE t[i - k]
  BY <1>1, ConcatProperties
<1>3. /\ q \in Seq(S) /\ Len(q) = l + m
      /\ \A i \in 1..(l + m) : q[i] = IF i <= l THEN t[i] ELSE u[i - l]
  BY <1>1, ConcatProperties
<1>4. PICK x, y : x = p \o u /\ y = s \o q
  OBVIOUS
<1>5. /\ x \in Seq(S) /\ Len(x) = (k + l) + m
      /\ \A i \in 1..((k + l) + m) : x[i] = IF i <= k + l THEN p[i] ELSE u[i - (k + l)]
  BY <1>1, <1>2, <1>4, ConcatProperties
<1>6. /\ y \in Seq(S) /\ Len(y) = k + (l + m)
      /\ \A i \in 1..(k + (l + m)) : y[i] = IF i <= k THEN s[i] ELSE q[i - k]
  BY <1>1, <1>3, <1>4, ConcatProperties
<1>7. ASSUME NEW i \in 1..((k + l) + m) PROVE x[i] = y[i]
  <2>1. i \in 1..(k + (l + m)) /\ (i <= k + l => i \in 1..(k + l))
    OBVIOUS
  <2>2. CASE i <= k
    <3>1. i <= k + l /\ i \in 1..(k + l)
      BY <2>2
    <3>2. x[i] = s[i]
      BY <1>2, <1>5, <2>2, <3>1
    <3>3. y[i] = s[i]
      BY <1>6, <2>1, <2>2
    <3> QED BY <3>2, <3>3
  <2>3. CASE ~(i <= k) /\ i <= k + l
    <3>1. i - k \in 1..(l + m) /\ i - k <= l
      BY <2>3
    <3> QED BY <1>2, <1>3, <1>5, <1>6, <2>1, <2>3, <3>1
  <2>4. CASE ~(i <= k + l)
    <3>1. i - k \in 1..(l + m) /\ ~(i - k <= l) /\ (i - k) - l = i - (k + l) /\ ~(i <= k)
      BY <2>4
    <3> QED BY <1>3, <1>5, <1>6, <2>1, <2>4, <3>1
  <2> QED BY <2>2, <2>3, <2>4
<1>8. (k + l) + m = k + (l + m)
  OBVIOUS
<1>9. x = y
  BY <1>5, <1>6, <1>7, <1>8, SeqEqual
<1> QED BY <1>4, <1>9

\* p is t put behind s.
Joined(p, s, t) == p = s \o t

\* It does not matter in which order three sequences are joined.
LEMMA JoinedRegrouped ==
  ASSUME NEW S, NEW s \in Seq(S), NEW t \in Seq(S), NEW u \in Seq(S), NEW p, NEW q, NEW z,
         Joined(p, s, t), Joined(q, t, u)
  PROVE  Joined(z, p, u) <=> Joined(z, s, q)
<1>1. p = s \o t /\ q = t \o u
  BY DEF Joined
<1>2. p \o u = s \o q
  BY <1>1, JoinAssociates
<1> QED BY <1>2 DEF Joined

\* The lines of a nested list, and the same lines cut into its three frames.
InThreeFrames(a, b, y) == a \o (b \o (a \o (y \o y))) = ((a \o (b \o a)) \o y) \o y

\* The lines of a nested list are the lines of its three frames.
LEMMA FramesRegrouped ==
  ASSUME NEW S, NEW a \in Seq(S), NEW b \in Seq(S), NEW y \in Seq(S)
  PROVE  InThreeFrames(a, b, y)
<1>1. PICK c : Joined(c, b, a)
  BY DEF Joined
<1>2. PICK d : Joined(d, y, y)
  BY DEF Joined
<1>3. PICK x : Joined(x, a, c)
  BY DEF Joined
<1>4. PICK e : Joined(e, a, d)
  BY DEF Joined
<1>5. PICK g : Joined(g, x, y)
  BY DEF Joined
<1>6. PICK f : Joined(f, c, d)
  BY DEF Joined
<1>7. PICK z : Joined(z, x, d)
  BY DEF Joined
<1>8. c \in Seq(S)
  BY <1>1, ConcatProperties DEF Joined
<1>9. d \in Seq(S)
  BY <1>2, ConcatProperties DEF Joined
<1>10. x \in Seq(S)
  BY <1>3, <1>8, ConcatProperties DEF Joined
<1>11. Joined(z, g, y)
  BY <1>2, <1>5, <1>7, <1>10, JoinedRegrouped
<1>12. Joined(z, a, f)
  BY <1>3, <1>6, <1>7, <1>8, <1>9, JoinedRegrouped
<1>13. Joined(f, b, e)
  BY <1>1, <1>4, <1>6, <1>9, JoinedRegrouped
<1>14. z = ((a \o (b \o a)) \o y) \o y
  BY <1>1, <1>3, <1>5, <1>11 DEF Joined
<1>15. z = a \o (b \o (a \o (y \o y)))
  BY <1>2, <1>4, <1>12, <1>13 DEF Joined
<1> QED BY <1>14, <1>15 DEF InThreeFrames

\* Three sequences are put behind a fourth one by one, and all at once.
BehindAtOnce(d, x, y, z) == ((d \o x) \o y) \o z = d \o ((x \o y) \o z)

\* It does not matter whether three sequences are put behind a fourth one by one.
LEMMA ThreeBehind ==
  ASSUME NEW S, NEW d \in Seq(S), NEW x \in Seq(S), NEW y \in Seq(S), NEW z \in Seq(S)
  PROVE  BehindAtOnce(d, x, y, z)
<1>1. PICK c : Joined(c, d, x)
  BY DEF Joined
<1>2. PICK e : Joined(e, x, y)
  BY DEF Joined
<1>3. PICK g : Joined(g, c, y)
  BY DEF Joined
<1>4. PICK f : Joined(f, e, z)
  BY DEF Joined
<1>5. PICK v : Joined(v, g, z)
  BY DEF Joined
<1>6. e \in Seq(S)
  BY <1>2, ConcatProperties DEF Joined
<1>7. Joined(g, d, e)
  BY <1>1, <1>2, <1>3, JoinedRegrouped
<1>8. Joined(v, d, f)
  BY <1>4, <1>5, <1>6, <1>7, JoinedRegrouped
<1>9. v = ((d \o x) \o y) \o z
  BY <1>1, <1>3, <1>5 DEF Joined
<1>10. v = d \o ((x \o y) \o z)
  BY <1>2, <1>4, <1>8 DEF Joined
<1> QED BY <1>9, <1>10 DEF BehindAtOnce

\* A pair is its first element followed by its second.
LEMMA PairIsConcat ==
  ASSUME NEW S, NEW a \in S, NEW b \in S
  PROVE  <<a, b>> = <<a>> \o <<b>>
<1>1. <<a>> \in Seq(S) /\ <<a, b>> = Append(<<a>>, b)
  OBVIOUS
<1> QED BY <1>1, AppendIsConcat

\* Lines that the client reads as three frames, none of which it drops.
ThreeFrames(lines) ==
  \E x, y, z : /\ IsFrame(x) /\ ~Dropped(x) /\ IsFrame(y) /\ ~Dropped(y)
               /\ IsFrame(z) /\ ~Dropped(z)
               /\ lines = (x \o y) \o z

\* The reply to an EXEC that nests a list.
NestedLines(r) == rawArray(r, 2, <<Line(":", r, "text")>> \o array(r, <<"text", "text">>))

\* The frames of an EXEC that nests a list: its header takes the header of the list
\* for its second element, and the elements of the list are frames of their own.
LEMMA NestedFrames ==
  ASSUME NEW r \in Nat
  PROVE  ThreeFrames(NestedLines(r))
<1> DEFINE header == Line("*", r, 2)
           number == Line(":", r, "text")
           word   == Line("$", r, "text")
           all    == <<header>> \o (<<number>> \o (<<header>> \o <<word, word>>))
           x      == <<header>> \o <<number, header>>
           y      == <<word>>
<1>1. header \in Lines /\ number \in Lines /\ word \in Lines /\ number[4] = "text"
  <2>1. /\ "*" \in LinePrefixes /\ ":" \in LinePrefixes /\ "$" \in LinePrefixes
        /\ 2 \in Words \cup Nat /\ "text" \in Words \cup Nat
    BY DEF LinePrefixes, Words
  <2>2. number[4] = "text"
    BY DEF Line
  <2> QED BY <2>1, <2>2, LineTyped
<1>2. NestedLines(r) = all
  <2>1. array(r, <<"text", "text">>) = <<header>> \o <<word, word>>
    <3> DEFINE items == <<"text", "text">>
    <3>1. [i \in DOMAIN items |-> Line("$", r, items[i])] = <<word, word>>
      <4>1. DOMAIN items = 1..2 /\ items[1] = "text" /\ items[2] = "text"
        OBVIOUS
      <4>2. <<word, word>> = [i \in 1..2 |-> word]
        OBVIOUS
      <4>3. \A i \in 1..2 : items[i] = "text"
        OBVIOUS
      <4> HIDE DEF items
      <4> QED BY <4>1, <4>2, <4>3
    <3>2. Len(items) = 2
      OBVIOUS
    <3> HIDE DEF items
    <3>3. array(r, items) = <<header>> \o <<word, word>>
      BY <3>1, <3>2 DEF array
    <3> QED BY <3>3 DEF items
  <2> QED BY <2>1 DEF NestedLines, rawArray
<1>3. IsFrame(x) /\ ~Dropped(x)
  <2> DEFINE lines == <<number, header>>
  <2>1. lines \in Seq(Lines) /\ Len(lines) = 2 /\ lines[1] = number
    BY <1>1
  <2> HIDE DEF lines, number
  <2>2. IsFrame(<<Line("*", r, 2)>> \o lines)
    BY <2>1, HeaderFrame
  <2>3. Dropped(<<Line("*", r, 2)>> \o lines) <=> 2 > 0 /\ lines[1][4] \in PushWords
    BY <2>1, HeaderFrame
  <2>4. "text" \notin PushWords
    BY DEF PushWords
  <2> QED BY <1>1, <2>1, <2>2, <2>3, <2>4 DEF lines
<1>4. IsFrame(y) /\ ~Dropped(y)
  <2>1. "$" \in LinePrefixes /\ "$" # "*" /\ "text" \in Words
    BY DEF LinePrefixes, Words
  <2> QED BY <2>1, LineFrame
<1>5. all = (x \o y) \o y
  <2> DEFINE a == <<header>>
             b == <<number>>
  <2>1. a \in Seq(Lines) /\ b \in Seq(Lines) /\ y \in Seq(Lines)
    BY <1>1
  <2>2. <<number, header>> = b \o a /\ <<word, word>> = y \o y
    <3>1. number \in Lines /\ header \in Lines /\ word \in Lines
      BY <1>1
    <3> HIDE DEF number, header, word
    <3>2. <<number, header>> = <<number>> \o <<header>>
      BY <3>1, PairIsConcat
    <3>3. <<word, word>> = <<word>> \o <<word>>
      BY <3>1, PairIsConcat
    <3> QED BY <3>2, <3>3
  <2>3. all = a \o (b \o (a \o (y \o y))) /\ x = a \o (b \o a)
    BY <2>2
  <2> HIDE DEF a, b, y, all, x
  <2>4. InThreeFrames(a, b, y)
    BY <2>1, FramesRegrouped
  <2> QED BY <2>3, <2>4 DEF InThreeFrames
<1> HIDE DEF x, y, all
<1> QED BY <1>2, <1>3, <1>4, <1>5 DEF ThreeFrames

\* A reply is one frame, dropped only if the request is not of a regular kind, or it
\* is nothing or, for a nested list, three frames.
LEMMA ReplyFrames ==
  ASSUME sent \in Seq(AllKinds), NEW r \in 1..Len(sent)
  PROVE  \/ Reply(r) = <<>> /\ sent[r] \notin Regular
         \/ IsFrame(Reply(r)) /\ (Dropped(Reply(r)) => sent[r] \notin Regular)
         \/ sent[r] = "nested" /\ ThreeFrames(Reply(r))
<1>1. r \in Nat /\ sent[r] \in AllKinds
  BY LenProperties, ElementOfSeq
<1> DEFINE refused == Subscribed(r) /\ sent[r] \notin {"subscribe", "unsubscribe"}
<1>2. CASE refused
  <2>1. Reply(r) = <<Line("-", r, "only SUBSCRIBE")>>
    BY <1>2 DEF Reply
  <2>2. "-" \in LinePrefixes /\ "-" # "*" /\ "only SUBSCRIBE" \in Words
    BY DEF LinePrefixes, Words
  <2> QED BY <1>1, <2>1, <2>2, LineFrame
<1>3. CASE ~refused
  <2>1. Reply(r) = ReplyOfKind(r, sent[r])
    BY <1>3 DEF Reply
  <2>2. CASE sent[r] = "plain"
    <3>1. Reply(r) = <<Line("+", r, "text")>>
      BY <2>1, <2>2 DEF ReplyOfKind
    <3>2. "+" \in LinePrefixes /\ "+" # "*" /\ "text" \in Words
      BY DEF LinePrefixes, Words
    <3> QED BY <1>1, <3>1, <3>2, LineFrame
  <2>3. ASSUME NEW items \in Seq(Words), Reply(r) = array(r, items),
               Len(items) = 0 \/ items[1] \notin PushWords \/ sent[r] \notin Regular
        PROVE  IsFrame(Reply(r)) /\ (Dropped(Reply(r)) => sent[r] \notin Regular)
    <3>1. /\ IsFrame(array(r, items))
          /\ Dropped(array(r, items)) <=> Len(items) > 0 /\ items[1] \in PushWords
      BY <1>1, ArrayFrame
    <3> QED BY <2>3, <3>1
  <2>4. CASE sent[r] = "empty"
    <3>1. Reply(r) = array(r, <<>>)
      BY <2>1, <2>4 DEF ReplyOfKind
    <3>2. <<>> \in Seq(Words) /\ Len(<<>>) = 0
      OBVIOUS
    <3> QED BY <2>3, <3>1, <3>2
  <2>5. CASE sent[r] = "list"
    <3> DEFINE items == <<"text", "text">>
    <3>1. Reply(r) = array(r, items)
      BY <2>1, <2>5 DEF ReplyOfKind
    <3>2. items \in Seq(Words) /\ items[1] \notin PushWords
      BY DEF PushWords, Words
    <3> HIDE DEF items
    <3> QED BY <2>3, <3>1, <3>2
  <2>6. CASE sent[r] = "word"
    <3> DEFINE items == <<"message", "text">>
    <3>1. Reply(r) = array(r, items)
      BY <2>1, <2>6 DEF ReplyOfKind
    <3>2. items \in Seq(Words) /\ sent[r] \notin Regular
      BY <2>6 DEF Regular, Words
    <3> HIDE DEF items
    <3> QED BY <2>3, <3>1, <3>2
  <2>7. CASE sent[r] = "subscribe"
    <3> DEFINE items == <<"subscribe", "channel", "count">>
    <3>1. Reply(r) = array(r, items)
      BY <2>1, <2>7 DEF ReplyOfKind
    <3>2. items \in Seq(Words) /\ sent[r] \notin Regular
      BY <2>7 DEF Regular, Words
    <3> HIDE DEF items
    <3> QED BY <2>3, <3>1, <3>2
  <2>8. CASE sent[r] = "unsubscribe"
    <3> DEFINE items == <<"unsubscribe", "channel", "count">>
    <3>1. Reply(r) = array(r, items) \/ Reply(r) = <<>>
      BY <2>1, <2>8 DEF ReplyOfKind
    <3>2. items \in Seq(Words) /\ sent[r] \notin Regular
      BY <2>8 DEF Regular, Words
    <3> HIDE DEF items
    <3> QED BY <2>3, <3>1, <3>2
  <2>9. CASE sent[r] = "exec"
    <3> DEFINE lines == <<Line(":", r, "text"), Line("+", r, "text")>>
    <3>1. Reply(r) = rawArray(r, 2, lines)
      BY <2>1, <2>9 DEF ReplyOfKind
    <3>2. lines \in Seq(Lines) /\ Len(lines) = 2 /\ lines[1] = Line(":", r, "text")
      <4>1. Line(":", r, "text") \in Lines /\ Line("+", r, "text") \in Lines
        <5>1. /\ ":" \in LinePrefixes /\ "+" \in LinePrefixes /\ "text" \in Words \cup Nat
          BY DEF LinePrefixes, Words
        <5> QED BY <1>1, <5>1, LineTyped
      <4> QED BY <4>1
    <3>3. Line(":", r, "text")[4] \notin PushWords
      BY DEF Line, PushWords
    <3> HIDE DEF lines
    <3>4. /\ IsFrame(<<Line("*", r, 2)>> \o lines)
          /\ Dropped(<<Line("*", r, 2)>> \o lines) <=> 2 > 0 /\ lines[1][4] \in PushWords
      BY <1>1, <3>2, HeaderFrame
    <3>5. Reply(r) = <<Line("*", r, 2)>> \o lines
      BY <3>1 DEF rawArray
    <3> QED BY <3>2, <3>3, <3>4, <3>5
  <2>10. CASE sent[r] = "nested"
    <3>1. Reply(r) = NestedLines(r)
      BY <2>1, <2>10 DEF ReplyOfKind, NestedLines
    <3>2. ThreeFrames(NestedLines(r))
      BY <1>1, NestedFrames
    <3>3. ThreeFrames(Reply(r))
      BY <3>1, <3>2
    <3> QED BY <2>10, <3>3
  <2> QED BY <1>1, <2>2, <2>4, <2>5, <2>6, <2>7, <2>8, <2>9, <2>10 DEF AllKinds
<1> QED BY <1>2, <1>3


-----------------------------------------------------------------------------
(***************************************************************************)
(* The inductive invariant of the answers.  W are all lines written to the *)
(* client, of which i are parsed; B are the places where a frame begins,   *)
(* the next one included, and slot[b] says which of the requests the frame *)
(* at b resolves when a frame, unless it is dropped, resolves the oldest   *)
(* that waits and one always waits; f is where the frame that is being     *)
(* parsed begins, and a is how many requests are resolved.                 *)
(***************************************************************************)
\* One of the first requests, s at most, of the h handled is not of a regular kind.
Irregular(s, h) == \E n \in 1..h : n <= s /\ sent[n] \notin Regular

\* The frame x may resolve request s when h are handled.
Fits(x, s, h) ==
  /\ x = TooLong \/ (\E n \in 1..h : sent[n] = "nested") \/ \E q \in s..h : x = Reply(q)
  /\ (s \in 1..Len(sent) /\ (x = TooLong \/ x = Reply(s))) \/ Irregular(s, h)

FrameAt(W, b, e, slot, h) ==
  LET x == SubSeq(W, b, e - 1)
  IN  /\ b < e /\ IsFrame(x)
      /\ slot[e] = IF Dropped(x) THEN slot[b] ELSE slot[b] + 1
      /\ Dropped(x) \/ Fits(x, slot[b], h)

Framing(W, B, slot, h) ==
  /\ W \in Seq(Lines) /\ slot \in [Nat -> Nat \ {0}]
  /\ B \subseteq 1..(Len(W) + 1) /\ Len(W) + 1 \in B
  /\ \A b \in B : b <= Len(W) => \E e \in B : FrameAt(W, b, e, slot, h)

\* What the parser has in its buffer, and what is under way, are the lines behind i.
Wire(W, i, b, d) ==
  /\ b \in Seq(Marks) /\ d \in Seq(Marks) /\ i \in 0..Len(W)
  /\ Len(b) + Len(d) = 3 * (Len(W) - i)
  /\ \A k \in 1..Len(b) : b[k] = Encoded(W)[3 * i + k]
  /\ \A k \in 1..Len(d) : d[k] = Encoded(W)[3 * i + Len(b) + k]

Convs == [parsing : BOOLEAN, length : Nat, items : Seq(Lines),
          pending : Seq(Nat), answer : Seq(Seq(Lines))]

\* What a request may have been resolved with.
Sound(x, r) ==
  x \notin {NotYet, ConnectionClosed, TooLong} =>
    /\ "nested" \in ToSet(sent) \/ \E q \in r..Len(sent) : x = Reply(q)
    /\ RegularUpTo(r) => x = Reply(r)

Answers(replies) ==
  /\ replies \in Seq(Seq(Lines)) /\ Len(replies) = Len(sent)
  /\ \A r \in 1..Len(sent) : Sound(replies[r], r)

\* a requests are resolved and the others wait for a frame that comes for request s.
Waiting(conv, a, s) ==
  /\ conv \in Convs /\ a \in 0..Len(sent) /\ s \in Nat
  /\ conv.pending = [j \in 1..(Len(sent) - a) |-> a + j]
  /\ Answers(conv.answer)
  /\ a < s /\ (s = a + 1 \/ Irregular(a, a))

Parsed(conv, W, B, slot, i, f, a) ==
  /\ f \in B /\ i \in 0..Len(W) /\ f <= i + 1
  /\ Waiting(conv, a, slot[f])
  /\ conv.items = SubSeq(W, f, i) /\ (conv.parsing <=> f <= i)
  /\ f <= i => IsHeader(W[f]) /\ conv.length = W[f][4] /\ i < f + W[f][4]

\* The slot of the next frame when h requests are handled.
NextSlot(s, h) ==
  /\ (\E n \in 1..h : sent[n] = "nested") \/ s <= h + 1
  /\ s = h + 1 \/ Irregular(s, h)

SentTyped == sent \in Seq(AllKinds)

\* More handled requests leave a frame as fitting as it was.
LEMMA FitsMore ==
  ASSUME NEW h \in Nat, NEW h2 \in Nat, h <= h2, NEW x, NEW s \in Nat, Fits(x, s, h)
  PROVE  Fits(x, s, h2)
<1>1. 1..h \subseteq 1..h2 /\ s..h \subseteq s..h2
  OBVIOUS
<1> QED BY <1>1 DEF Fits, Irregular

\* So they leave all frames.
LEMMA FramingMore ==
  ASSUME NEW h \in Nat, NEW h2 \in Nat, h <= h2, NEW W, NEW B, NEW slot, Framing(W, B, slot, h)
  PROVE  Framing(W, B, slot, h2)
<1>1. ASSUME NEW b \in B, NEW e \in B, FrameAt(W, b, e, slot, h)
      PROVE  FrameAt(W, b, e, slot, h2)
  <2>1. slot[b] \in Nat
    <3>1. W \in Seq(Lines) /\ B \subseteq 1..(Len(W) + 1) /\ slot \in [Nat -> Nat \ {0}]
      BY DEF Framing
    <3>2. Len(W) \in Nat
      BY <3>1, LenProperties
    <3> QED BY <3>1, <3>2
  <2>2. Dropped(SubSeq(W, b, e - 1)) \/ Fits(SubSeq(W, b, e - 1), slot[b], h2)
    BY <1>1, <2>1, FitsMore DEF FrameAt
  <2> QED BY <1>1, <2>2 DEF FrameAt
<1> QED BY <1>1 DEF Framing

\* A part of a sequence is the same in a longer one.
LEMMA PartOfJoin ==
  ASSUME NEW S, NEW W \in Seq(S), NEW x \in Seq(S), NEW b \in Nat \ {0}, NEW e \in Nat, e <= Len(W)
  PROVE  SubSeq(W \o x, b, e) = SubSeq(W, b, e)
<1>1. Len(W) \in Nat
  BY LenProperties
<1>2. CASE b <= e
  <2>1. b \in 1..Len(W) /\ e \in 1..Len(W)
    BY <1>1, <1>2
  <2> QED BY <2>1, SubSeqOfConcat1
<1>3. CASE e < b
  <2>1. SubSeq(W \o x, b, e) = <<>> /\ SubSeq(W, b, e) = <<>>
    BY <1>3, SubSeqEmpty
  <2> QED BY <2>1
<1> QED BY <1>2, <1>3

\* A frame has a line.
LEMMA FrameLength ==
  ASSUME NEW x, IsFrame(x)
  PROVE  /\ x \in Seq(Lines) /\ Len(x) \in Nat \ {0}
         /\ IsHeader(x[1]) => x[1][4] \in Nat \ {0} /\ Len(x) = 1 + x[1][4]
         /\ ~IsHeader(x[1]) => Len(x) = 1
BY DEF IsFrame, IsHeader

\* A frame that fits, behind what is written, is one more frame.
LEMMA FramingJoin ==
  ASSUME NEW h \in Nat, NEW W, NEW B, NEW slot, Framing(W, B, slot, h),
         NEW x, IsFrame(x), Dropped(x) \/ Fits(x, slot[Len(W) + 1], h)
  PROVE  \E B2, slot2 :
           /\ Framing(W \o x, B2, slot2, h)
           /\ B \subseteq B2 /\ \A b \in B : slot2[b] = slot[b]
           /\ slot2[Len(W \o x) + 1] = IF Dropped(x) THEN slot[Len(W) + 1] ELSE slot[Len(W) + 1] + 1
<1>1. W \in Seq(Lines) /\ slot \in [Nat -> Nat \ {0}] /\ B \subseteq 1..(Len(W) + 1) /\ Len(W) + 1 \in B
  BY DEF Framing
<1>2. x \in Seq(Lines) /\ Len(x) \in Nat \ {0}
  BY FrameLength
<1>3. PICK m \in Nat, n \in Nat : m = Len(W) /\ n = Len(x) /\ n > 0
  BY <1>1, <1>2, LenProperties
<1>4. W \o x \in Seq(Lines) /\ Len(W \o x) = m + n
  BY <1>1, <1>2, <1>3, ConcatProperties
<1> DEFINE s == slot[m + 1]
           t == IF Dropped(x) THEN s ELSE s + 1
           J == W \o x
           B2 == B \cup {m + n + 1}
           slot2 == [slot EXCEPT ![m + n + 1] = t]
<1>5. s \in Nat \ {0} /\ t \in Nat \ {0} /\ m + n + 1 \in Nat
  <2>1. s \in Nat \ {0} /\ m + n + 1 \in Nat
    <3>1. m + 1 \in Nat /\ m + n + 1 \in Nat
      OBVIOUS
    <3> QED BY <1>1, <3>1
  <2> HIDE DEF s
  <2> QED BY <2>1
<1>6. /\ slot2 \in [Nat -> Nat \ {0}] /\ slot2[m + n + 1] = t
      /\ \A b \in B : slot2[b] = slot[b]
  <2>1. slot2 \in [Nat -> Nat \ {0}] /\ slot2[m + n + 1] = t
    <3> HIDE DEF t
    <3> QED BY <1>1, <1>5
  <2>2. ASSUME NEW b \in B PROVE slot2[b] = slot[b]
    <3>1. b \in Nat /\ b # m + n + 1
      BY <1>1, <1>3
    <3> HIDE DEF t
    <3> QED BY <1>1, <3>1
  <2> QED BY <2>1, <2>2
<1> HIDE DEF slot2, t
<1>7. ASSUME NEW b \in B, b <= m
      PROVE  \E e \in B2 : FrameAt(J, b, e, slot2, h)
  <2>1. PICK e \in B : FrameAt(W, b, e, slot, h)
    BY <1>3, <1>7 DEF Framing
  <2>2. b \in Nat \ {0} /\ e - 1 \in Nat /\ e - 1 <= Len(W)
    BY <1>1, <1>3, <2>1 DEF FrameAt
  <2>3. SubSeq(J, b, e - 1) = SubSeq(W, b, e - 1)
    BY <1>1, <1>2, <2>2, PartOfJoin
  <2>4. slot2[b] = slot[b] /\ slot2[e] = slot[e]
    BY <1>6
  <2> HIDE DEF J
  <2>5. FrameAt(J, b, e, slot2, h)
    BY <2>1, <2>3, <2>4 DEF FrameAt
  <2> QED BY <2>5
<1>8. FrameAt(J, m + 1, m + n + 1, slot2, h)
  <2>1. SubSeq(J, m + 1, m + n) = x
    <3> DEFINE p == m + 1
               q == m + n
    <3>1. p \in (Len(W) + 1)..(Len(W) + Len(x)) /\ q \in (Len(W) + 1)..(Len(W) + Len(x))
      BY <1>3
    <3>3. p - Len(W) = 1 /\ q - Len(W) = Len(x)
      BY <1>3
    <3> HIDE DEF p, q
    <3>2. SubSeq(W \o x, p, q) = SubSeq(x, p - Len(W), q - Len(W))
      BY <1>1, <1>2, <3>1, SubSeqOfConcat2
    <3>4. SubSeq(x, 1, Len(x)) = x
      BY <1>2, SubSeqFull
    <3> QED BY <3>2, <3>3, <3>4 DEF p, q
  <2>2. (m + n + 1) - 1 = m + n /\ m + 1 < m + n + 1
    BY <1>3
  <2>3. slot2[m + 1] = s /\ slot2[m + n + 1] = t
    BY <1>1, <1>3, <1>6
  <2>4. Dropped(x) \/ Fits(x, s, h)
    BY <1>3
  <2> HIDE DEF J, s
  <2> QED BY <2>1, <2>2, <2>3, <2>4 DEF FrameAt, t
<1>9. Framing(J, B2, slot2, h)
  <2>1. Len(J) = m + n /\ J \in Seq(Lines)
    BY <1>4
  <2> HIDE DEF J
  <2>2. B2 \subseteq 1..(Len(J) + 1) /\ Len(J) + 1 \in B2
    <3>1. \A b \in B : b \in 1..(m + 1)
      BY <1>1, <1>3
    <3>2. 1..(m + 1) \subseteq 1..(m + n + 1)
      OBVIOUS
    <3>3. m + n + 1 \in 1..(m + n + 1)
      OBVIOUS
    <3> QED BY <2>1, <3>1, <3>2, <3>3
  <2>3. ASSUME NEW b \in B2, b <= Len(J) PROVE \E e \in B2 : FrameAt(J, b, e, slot2, h)
    <3>1. CASE b \in B /\ b <= m
      BY <1>7, <3>1
    <3>2. CASE b = m + 1
      BY <1>8, <3>2
    <3>3. b # m + n + 1
      BY <2>1, <2>3
    <3>4. b \in B /\ (b <= m \/ b = m + 1)
      <4>1. b \in B
        BY <3>3
      <4>2. b \in 1..(m + 1)
        BY <1>1, <1>3, <4>1
      <4> QED BY <4>1, <4>2
    <3> QED BY <3>1, <3>2, <3>4
  <2> HIDE DEF J, B2
  <2> QED BY <1>6, <2>1, <2>2, <2>3 DEF Framing
<1>10. B \subseteq B2 /\ slot2[Len(J) + 1] = IF Dropped(x) THEN slot[Len(W) + 1] ELSE slot[Len(W) + 1] + 1
  BY <1>3, <1>4, <1>6 DEF t
<1> HIDE DEF J, B2
<1> QED BY <1>6, <1>9, <1>10 DEF J

\* Lines that are written come behind what is under way.
LEMMA WireJoin ==
  ASSUME NEW W \in Seq(Lines), NEW L \in Seq(Lines), NEW i, NEW b, NEW d, Wire(W, i, b, d)
  PROVE  Wire(W \o L, i, b, d \o Encoded(L))
<1>1. PICK m \in Nat, n \in Nat : m = Len(W) /\ n = Len(L)
  BY LenProperties
<1>2. W \o L \in Seq(Lines) /\ Len(W \o L) = m + n
  BY <1>1, ConcatProperties
<1> DEFINE E == Encoded(W)
           F == Encoded(L)
           G == Encoded(W \o L)
<1>3. E \in Seq(Marks) /\ Len(E) = 3 * m /\ F \in Seq(Marks) /\ Len(F) = 3 * n
  BY <1>1, EncodedFacts
<1>4. G = E \o F
  BY EncodedJoin
<1>5. PICK p \in Nat, q \in Nat : p = Len(b) /\ q = Len(d)
  BY LenProperties DEF Wire
<1>6. /\ b \in Seq(Marks) /\ d \in Seq(Marks) /\ i \in 0..m /\ p + q = 3 * (m - i)
      /\ \A k \in 1..p : b[k] = E[3 * i + k]
      /\ \A k \in 1..q : d[k] = E[3 * i + p + k]
  BY <1>1, <1>5 DEF Wire
<1> HIDE DEF E, F, G
<1>7. /\ \A k \in 1..(3 * m + 3 * n) : G[k] = IF k <= 3 * m THEN E[k] ELSE F[k - 3 * m]
  <2>1. \A k \in 1..(Len(E) + Len(F)) : (E \o F)[k] = IF k <= Len(E) THEN E[k] ELSE F[k - Len(E)]
    BY <1>3, ConcatProperties
  <2> QED BY <1>3, <1>4, <2>1
<1>8. /\ d \o F \in Seq(Marks) /\ Len(d \o F) = q + 3 * n
      /\ \A k \in 1..(q + 3 * n) : (d \o F)[k] = IF k <= q THEN d[k] ELSE F[k - q]
  <2>1. /\ d \o F \in Seq(Marks) /\ Len(d \o F) = Len(d) + Len(F)
        /\ \A k \in 1..(Len(d) + Len(F)) : (d \o F)[k] = IF k <= Len(d) THEN d[k] ELSE F[k - Len(d)]
    BY <1>3, <1>6, ConcatProperties
  <2> QED BY <1>3, <1>5, <2>1
<1>9. ASSUME NEW k \in 1..p PROVE b[k] = G[3 * i + k]
  <2>1. 3 * i + k \in 1..(3 * m + 3 * n) /\ 3 * i + k <= 3 * m
    BY <1>6
  <2> QED BY <1>6, <1>7, <2>1
<1>10. ASSUME NEW k \in 1..(q + 3 * n) PROVE (d \o F)[k] = G[3 * i + p + k]
  <2>0. i \in Nat /\ p + q = 3 * (m - i)
    BY <1>6
  <2>1. 3 * i + p + k \in 1..(3 * m + 3 * n) /\ 3 * i + p + q = 3 * m
    BY <2>0
  <2>2. CASE k <= q
    <3>1. k \in 1..q /\ 3 * i + p + k <= 3 * m
      BY <2>0, <2>1, <2>2
    <3> QED BY <1>6, <1>7, <1>8, <2>1, <2>2, <3>1
  <2>3. CASE ~(k <= q)
    <3>1. ~(3 * i + p + k <= 3 * m) /\ (3 * i + p + k) - 3 * m = k - q
      BY <2>0, <2>1, <2>3
    <3> QED BY <1>7, <1>8, <2>1, <2>3, <3>1
  <2> QED BY <2>2, <2>3
<1>11. p + (q + 3 * n) = 3 * ((m + n) - i) /\ i \in 0..(m + n)
  BY <1>6
<1> DEFINE J == W \o L
           d2 == d \o F
<1>12. /\ Len(J) = m + n /\ d2 \in Seq(Marks) /\ Len(d2) = q + 3 * n
       /\ \A k \in 1..p : b[k] = Encoded(J)[3 * i + k]
       /\ \A k \in 1..(q + 3 * n) : d2[k] = Encoded(J)[3 * i + p + k]
  BY <1>2, <1>8, <1>9, <1>10 DEF G
<1> HIDE DEF J, d2
<1>13. Wire(J, i, b, d2)
  BY <1>5, <1>6, <1>11, <1>12 DEF Wire
<1> QED BY <1>13 DEF J, d2, F

\* They leave the parser where it is.
LEMMA ParsedJoin ==
  ASSUME NEW W \in Seq(Lines), NEW L \in Seq(Lines), NEW B, NEW slot, NEW B2, NEW slot2,
         B \subseteq Nat \ {0}, B \subseteq B2, \A b \in B : slot2[b] = slot[b],
         NEW conv, NEW i, NEW f, NEW a, Parsed(conv, W, B, slot, i, f, a)
  PROVE  Parsed(conv, W \o L, B2, slot2, i, f, a)
<1>1. f \in B /\ f \in B2 /\ f \in Nat \ {0} /\ i \in 0..Len(W) /\ f <= i + 1 /\ slot2[f] = slot[f]
  BY DEF Parsed
<1>2. Len(W) \in Nat /\ Len(L) \in Nat
  BY LenProperties
<1> DEFINE J == W \o L
<1>3. /\ Len(J) = Len(W) + Len(L)
      /\ \A j \in 1..Len(W) : J[j] = W[j]
  <2>1. /\ Len(J) = Len(W) + Len(L)
        /\ \A j \in 1..(Len(W) + Len(L)) : J[j] = IF j <= Len(W) THEN W[j] ELSE L[j - Len(W)]
    BY ConcatProperties
  <2> HIDE DEF J
  <2> QED BY <1>2, <2>1
<1>4. SubSeq(J, f, i) = SubSeq(W, f, i)
  <2>1. i \in Nat /\ i <= Len(W)
    BY <1>1, <1>2
  <2> QED BY <1>1, <2>1, PartOfJoin
<1>5. f <= i => J[f] = W[f]
  <2>1. f <= i => f \in 1..Len(W)
    BY <1>1, <1>2
  <2> QED BY <1>3, <2>1
<1>6. i \in 0..Len(J)
  BY <1>1, <1>2, <1>3
<1> HIDE DEF J
<1>7. Parsed(conv, J, B2, slot2, i, f, a)
  BY <1>1, <1>4, <1>5, <1>6 DEF Parsed
<1> QED BY <1>7 DEF J


-----------------------------------------------------------------------------
(***************************************************************************)
(* The parser.                                                             *)
(***************************************************************************)
\* A frame that fits resolves the request that has waited longest with what it may
\* be resolved with; if nobody waits it comes too late for all.
LEMMA ResolveWaiting ==
  ASSUME SentTyped, NEW h \in Nat, h <= Len(sent), NEW conv, NEW a, NEW s, Waiting(conv, a, s),
         NEW x \in Seq(Lines), Fits(x, s, h)
  PROVE  /\ \E a2 : Waiting(Resolve(conv, x), a2, s + 1)
         /\ Resolve(conv, x).parsing = conv.parsing /\ Resolve(conv, x).length = conv.length
         /\ Resolve(conv, x).items = conv.items
<1>1. PICK n \in Nat : n = Len(sent) /\ DOMAIN sent = 1..n
  BY LenProperties DEF SentTyped
<1>2. /\ conv \in Convs /\ a \in 0..n /\ s \in Nat /\ Answers(conv.answer)
      /\ a < s /\ (s = a + 1 \/ Irregular(a, a))
  BY <1>1 DEF Waiting
<1>3. conv.pending = [j \in 1..(n - a) |-> a + j]
  BY <1>1 DEF Waiting
<1>4. conv.pending \in Seq(Nat) /\ Len(conv.pending) = n - a
  <2>1. conv.pending \in Seq(Nat)
    BY <1>2 DEF Convs
  <2>2. DOMAIN conv.pending = 1..(n - a) /\ n - a \in Nat
    BY <1>2, <1>3
  <2>3. DOMAIN conv.pending = 1..Len(conv.pending) /\ Len(conv.pending) \in Nat
    BY <2>1, LenProperties
  <2> QED BY <2>1, <2>2, <2>3
<1>5. CASE conv.pending = <<>>
  <2>1. Resolve(conv, x) = conv
    BY <1>5 DEF Resolve
  <2>2. a = n
    <3>1. Len(conv.pending) = 0
      BY <1>5
    <3> QED BY <1>2, <1>4, <3>1
  <2>3. Irregular(s, h)
    <3>1. s \notin 1..Len(sent)
      BY <1>1, <1>2, <2>2
    <3> QED BY <3>1 DEF Fits
  <2>4. Irregular(a, a)
    <3>1. PICK p \in 1..h : sent[p] \notin Regular
      BY <2>3 DEF Irregular
    <3>2. p \in 1..a /\ p <= a
      BY <1>1, <2>2
    <3> QED BY <3>1, <3>2 DEF Irregular
  <2>5. Waiting(conv, a, s + 1)
    <3>1. s + 1 \in Nat /\ a < s + 1
      BY <1>2
    <3> QED BY <2>4, <3>1 DEF Waiting
  <2> QED BY <2>1, <2>5
<1>6. CASE conv.pending # <<>>
  <2>1. a < n
    <3>1. Len(conv.pending) # 0
      BY <1>4, <1>6, EmptySeq
    <3> QED BY <1>2, <1>4, <3>1
  <2>2. Head(conv.pending) = a + 1
    <3>1. 1 \in 1..(n - a)
      BY <1>2, <2>1
    <3>2. conv.pending[1] = a + 1
      BY <1>3, <3>1
    <3> QED BY <1>4, <1>6, <3>2
  <2> DEFINE waits == Tail(conv.pending)
             replies == [conv.answer EXCEPT ![a + 1] = x]
             next == Resolve(conv, x)
  <2>3. waits = [j \in 1..(n - (a + 1)) |-> (a + 1) + j] /\ waits \in Seq(Nat)
    <3> DEFINE p == conv.pending
               t == [j \in 1..(n - (a + 1)) |-> (a + 1) + j]
    <3>1. /\ waits \in Seq(Nat) /\ Len(waits) = (n - a) - 1
          /\ \A j \in 1..Len(waits) : waits[j] = p[j + 1]
      BY <1>4, <1>6, HeadTailProperties
    <3>2. t \in Seq(Nat) /\ Len(t) = (n - a) - 1
      <4>1. t \in [1..(n - (a + 1)) -> Nat] /\ n - (a + 1) \in Nat /\ n - (a + 1) = (n - a) - 1
        BY <1>2, <2>1
      <4> HIDE DEF t
      <4>2. t \in Seq(Nat)
        BY <4>1, SeqDef
      <4>3. DOMAIN t = 1..Len(t) /\ Len(t) \in Nat /\ DOMAIN t = 1..(n - (a + 1))
        BY <4>1, <4>2, LenProperties
      <4> QED BY <4>1, <4>2, <4>3
    <3>3. \A j \in 1..((n - a) - 1) : p[j + 1] = t[j]
      <4> TAKE j \in 1..((n - a) - 1)
      <4>1. j + 1 \in 1..(n - a) /\ j \in 1..(n - (a + 1)) /\ a + (j + 1) = (a + 1) + j
        BY <1>2
      <4>2. p[j + 1] = a + (j + 1)
        BY <1>3, <4>1
      <4>3. t[j] = (a + 1) + j
        BY <4>1
      <4> QED BY <4>1, <4>2, <4>3
    <3> HIDE DEF p, t, waits
    <3>4. waits = t
      BY <3>1, <3>2, <3>3, SeqEqual
    <3> QED BY <3>1, <3>4 DEF t
  <2>4. /\ conv.answer \in Seq(Seq(Lines)) /\ Len(conv.answer) = n
        /\ \A r \in 1..n : Sound(conv.answer[r], r)
    BY <1>1, <1>2 DEF Answers
  <2>5. /\ next.answer = replies /\ next.pending = waits
        /\ next.parsing = conv.parsing /\ next.length = conv.length /\ next.items = conv.items
        /\ next = [conv EXCEPT !.answer = replies, !.pending = waits]
    <3>1. next = [conv EXCEPT !.answer = replies, !.pending = waits]
      BY <1>2, <1>6, <2>2 DEF Resolve, Convs
    <3> HIDE DEF next, waits, replies
    <3> QED BY <1>2, <3>1 DEF Convs
  <2>6. /\ replies \in Seq(Seq(Lines)) /\ Len(replies) = n
        /\ \A r \in 1..n : replies[r] = IF r = a + 1 THEN x ELSE conv.answer[r]
    <3>1. a + 1 \in 1..Len(conv.answer)
      BY <1>2, <2>1, <2>4
    <3> HIDE DEF replies
    <3> QED BY <2>4, <3>1, ExceptSeq DEF replies
  <2>7. Sound(x, a + 1)
    <3> SUFFICES ASSUME x \notin {NotYet, ConnectionClosed, TooLong}
                 PROVE  /\ "nested" \in ToSet(sent) \/ \E q \in (a + 1)..Len(sent) : x = Reply(q)
                        /\ RegularUpTo(a + 1) => x = Reply(a + 1)
      BY DEF Sound
    <3>1. "nested" \in ToSet(sent) \/ \E q \in (a + 1)..Len(sent) : x = Reply(q)
      <4>1. CASE \E p \in 1..h : sent[p] = "nested"
        <5>1. \E p \in 1..n : sent[p] = "nested"
          BY <1>1, <4>1
        <5> QED BY <1>1, <5>1 DEF ToSet
      <4>2. CASE \E q \in s..h : x = Reply(q)
        <5>1. s..h \subseteq (a + 1)..Len(sent)
          BY <1>1, <1>2
        <5> QED BY <4>2, <5>1
      <4> QED BY <4>1, <4>2 DEF Fits
    <3>2. ASSUME RegularUpTo(a + 1) PROVE x = Reply(a + 1)
      <4>1. ~Irregular(a, a)
        <5>1. 1..a \subseteq 1..(a + 1)
          BY <1>2
        <5> QED BY <3>2, <5>1 DEF Irregular, RegularUpTo
      <4>2. s = a + 1
        BY <1>2, <4>1
      <4>3. ~Irregular(s, h)
        <5>1. \A p \in 1..h : p <= s => p \in 1..(a + 1)
          BY <1>2, <4>2
        <5> QED BY <3>2, <5>1 DEF Irregular, RegularUpTo
      <4> QED BY <4>2, <4>3 DEF Fits
    <3> QED BY <3>1, <3>2
  <2> HIDE DEF replies, waits, next
  <2>8. Answers(next.answer)
    BY <1>1, <2>4, <2>5, <2>6, <2>7 DEF Answers
  <2>9. next \in Convs
    BY <1>2, <2>3, <2>5, <2>6 DEF Convs
  <2>10. /\ a + 1 \in 0..n /\ s + 1 \in Nat /\ a + 1 < s + 1
         /\ s + 1 = (a + 1) + 1 \/ Irregular(a + 1, a + 1)
    <3>1. a + 1 \in 0..n /\ s + 1 \in Nat /\ a + 1 < s + 1
      BY <1>2, <2>1
    <3>2. Irregular(a, a) => Irregular(a + 1, a + 1)
      <4>1. \A p \in 1..a : p \in 1..(a + 1) /\ p <= a + 1
        BY <1>2
      <4> QED BY <4>1 DEF Irregular
    <3>3. s = a + 1 => s + 1 = (a + 1) + 1
      OBVIOUS
    <3> QED BY <1>2, <3>1, <3>2, <3>3
  <2>11. Waiting(next, a + 1, s + 1)
    BY <1>1, <2>3, <2>5, <2>8, <2>9, <2>10 DEF Waiting
  <2> QED BY <2>5, <2>11 DEF next
<1> QED BY <1>5, <1>6

\* One line takes the parser one line on: further into the frame, or behind it.
LEMMA LineParsed ==
  ASSUME SentTyped, NEW h \in Nat, h <= Len(sent), NEW W, NEW B, NEW slot, Framing(W, B, slot, h),
         NEW conv, NEW i, NEW f, NEW a, Parsed(conv, W, B, slot, i, f, a), i < Len(W)
  PROVE  \E f2, a2 : Parsed(processLine(conv, W[i + 1]), W, B, slot, i + 1, f2, a2)
<1>1. /\ W \in Seq(Lines) /\ Len(W) \in Nat /\ slot \in [Nat -> Nat \ {0}] /\ B \subseteq 1..(Len(W) + 1)
      /\ \A j \in 1..Len(W) : W[j] \in Lines
  <2>1. W \in Seq(Lines) /\ slot \in [Nat -> Nat \ {0}] /\ B \subseteq 1..(Len(W) + 1)
    BY DEF Framing
  <2> QED BY <2>1, LenProperties, ElementOfSeq
<1>2. /\ f \in B /\ i \in 0..Len(W) /\ f <= i + 1 /\ Waiting(conv, a, slot[f]) /\ conv \in Convs
      /\ conv.items = SubSeq(W, f, i) /\ (conv.parsing <=> f <= i)
      /\ f <= i => IsHeader(W[f]) /\ conv.length = W[f][4] /\ i < f + W[f][4]
  BY DEF Parsed, Waiting
<1>3. f \in Nat \ {0} /\ f <= Len(W) /\ i + 1 \in 1..Len(W) /\ i \in Nat
  <2>1. f \in 1..(Len(W) + 1) /\ Len(W) \in Nat
    BY <1>1, <1>2
  <2>2. i \in 0..Len(W) /\ f <= i + 1 /\ i < Len(W)
    BY <1>2
  <2> QED BY <2>1, <2>2
<1>4. PICK e \in B : FrameAt(W, f, e, slot, h)
  BY <1>2, <1>3 DEF Framing
<1>5. e \in Nat \ {0} /\ e <= Len(W) + 1 /\ f < e /\ e - 1 \in 1..Len(W) /\ f \in 1..Len(W)
  BY <1>1, <1>3, <1>4 DEF FrameAt
<1> DEFINE x == SubSeq(W, f, e - 1)
           line == W[i + 1]
<1>6. /\ x \in Seq(Lines) /\ Len(x) = e - f /\ x[1] = W[f]
  <2>1. \A j \in f..(e - 1) : W[j] \in Lines
    <3>1. \A j \in f..(e - 1) : j \in 1..Len(W)
      BY <1>1, <1>5
    <3> QED BY <1>1, <3>1
  <2>2. /\ x \in Seq(Lines) /\ Len(x) = IF f <= e - 1 THEN e - 1 - f + 1 ELSE 0
        /\ \A j \in 1..(e - 1 - f + 1) : x[j] = W[f + j - 1]
    BY <1>5, <2>1, SubSeqProperties
  <2> HIDE DEF x
  <2>3. f <= e - 1 /\ e - 1 - f + 1 = e - f /\ 1 \in 1..(e - 1 - f + 1) /\ f + 1 - 1 = f
    BY <1>5
  <2> QED BY <2>2, <2>3
<1>7. /\ IsFrame(x) /\ (Dropped(x) \/ Fits(x, slot[f], h))
      /\ slot[e] = IF Dropped(x) THEN slot[f] ELSE slot[f] + 1
  BY <1>4 DEF FrameAt
<1> HIDE DEF x
<1>8. /\ IsHeader(W[f]) => W[f][4] \in Nat \ {0} /\ e = f + 1 + W[f][4]
      /\ ~IsHeader(W[f]) => e = f + 1
  <2>1. /\ IsHeader(x[1]) => x[1][4] \in Nat \ {0} /\ Len(x) = 1 + x[1][4]
        /\ ~IsHeader(x[1]) => Len(x) = 1
    BY <1>7, FrameLength
  <2>2. IsHeader(W[f]) => W[f][4] \in Nat \ {0} /\ e - f = 1 + W[f][4]
    BY <1>6, <2>1
  <2>3. ~IsHeader(W[f]) => e - f = 1
    BY <1>6, <2>1
  <2>4. CASE IsHeader(W[f])
    <3> DEFINE k == W[f][4]
    <3>1. k \in Nat \ {0} /\ e - f = 1 + k
      BY <2>2, <2>4
    <3> HIDE DEF k
    <3>2. e = f + 1 + k
      BY <1>5, <3>1
    <3> QED BY <2>4, <3>1, <3>2 DEF k
  <2>5. CASE ~IsHeader(W[f])
    <3>1. e = f + 1
      BY <1>5, <2>3, <2>5
    <3> QED BY <2>5, <3>1
  <2> QED BY <2>4, <2>5
<1>9. ASSUME NEW c, NEW a2, Waiting(c, a2, slot[e]), ~c.parsing, c.items = <<>>, e = i + 2
      PROVE  Parsed(c, W, B, slot, i + 1, e, a2)
  <2>1. SubSeq(W, e, i + 1) = <<>>
    BY <1>3, <1>5, <1>9, SubSeqEmpty
  <2>2. i + 1 \in 0..Len(W) /\ e <= (i + 1) + 1 /\ ~(e <= i + 1)
    BY <1>3, <1>9
  <2> QED BY <1>9, <2>1, <2>2 DEF Parsed
<1>10. CASE f <= i
  <2> DEFINE items == Append(conv.items, line)
             done == [conv EXCEPT !.parsing = FALSE, !.length = 0, !.items = <<>>]
  <2>1. items = SubSeq(W, f, i + 1) /\ items \in Seq(Lines) /\ Len(items) - 1 = (i + 1) - f
    <3>1. SubSeq(W, f, i + 1) = Append(SubSeq(W, f, (i + 1) - 1), W[i + 1])
      <4>1. f \in 1..Len(W) /\ i + 1 \in f..Len(W)
        BY <1>3, <1>5, <1>10
      <4>2. SubSeq(W, f, i + 1) = SubSeq(W, f, (i + 1) - 1) \o <<W[i + 1]>>
        BY <1>1, <4>1, SubSeqRecursiveSecond
      <4>3. SubSeq(W, f, (i + 1) - 1) \in Seq(Lines)
        <5>1. \A j \in f..((i + 1) - 1) : W[j] \in Lines
          BY <1>1, <1>3
        <5>2. f \in Int /\ (i + 1) - 1 \in Int
          BY <1>3
        <5> QED BY <5>1, <5>2, SubSeqProperties
      <4> QED BY <1>1, <1>3, <4>2, <4>3, AppendIsConcat
    <3>2. (i + 1) - 1 = i
      BY <1>3
    <3>3. items = SubSeq(W, f, i + 1)
      BY <1>2, <3>1, <3>2
    <3> DEFINE k == i + 1
    <3>4. /\ SubSeq(W, f, k) \in Seq(Lines)
          /\ Len(SubSeq(W, f, k)) = IF f <= k THEN k - f + 1 ELSE 0
      <4>1. \A j \in f..k : W[j] \in Lines
        BY <1>1, <1>3
      <4>2. f \in Int /\ k \in Int
        BY <1>3
      <4> HIDE DEF k
      <4> QED BY <4>1, <4>2, SubSeqProperties
    <3>5. f <= k /\ k - f + 1 = ((i + 1) - f) + 1
      BY <1>3, <1>10
    <3> HIDE DEF items
    <3>6. Len(items) = ((i + 1) - f) + 1 /\ items \in Seq(Lines)
      <4>1. items = SubSeq(W, f, k)
        BY <3>3
      <4> HIDE DEF k
      <4> QED BY <3>4, <3>5, <4>1
    <3>7. Len(items) - 1 = (i + 1) - f
      BY <1>3, <3>6
    <3> QED BY <3>3, <3>6, <3>7
  <2>2. processLine(conv, line) = IF Len(items) - 1 # conv.length THEN [conv EXCEPT !.items = items]
                                  ELSE IF IsPush(items) THEN done ELSE Resolve(done, items)
    BY <1>2, <1>10 DEF processLine
  <2>3. IsHeader(W[f]) /\ conv.length = W[f][4] /\ i < f + W[f][4]
        /\ W[f][4] \in Nat \ {0} /\ e = f + 1 + W[f][4]
    BY <1>2, <1>8, <1>10
  <2> HIDE DEF items
  <2>4. CASE Len(items) - 1 # conv.length
    <3> DEFINE c == [conv EXCEPT !.items = items]
    <3>1. /\ c \in Convs /\ c.items = items /\ c.parsing = conv.parsing /\ c.length = conv.length
          /\ c.pending = conv.pending /\ c.answer = conv.answer
      BY <1>2, <2>1 DEF Convs
    <3> HIDE DEF c
    <3>2. Waiting(c, a, slot[f])
      BY <1>2, <3>1 DEF Waiting
    <3>3. (i + 1) - f # W[f][4]
      BY <2>1, <2>3, <2>4
    <3>4. i + 1 \in 0..Len(W) /\ f <= (i + 1) + 1 /\ f <= i + 1 /\ i + 1 < f + W[f][4]
      <4> DEFINE k == W[f][4]
      <4>1. k \in Nat /\ i < f + k /\ (i + 1) - f # k
        BY <2>3, <3>3
      <4> HIDE DEF k
      <4>2. i + 1 < f + k
        BY <1>3, <4>1
      <4>3. i + 1 \in 0..Len(W) /\ f <= (i + 1) + 1 /\ f <= i + 1
        BY <1>3, <1>10
      <4> QED BY <4>2, <4>3 DEF k
    <3>5. Parsed(c, W, B, slot, i + 1, f, a)
      BY <1>2, <1>10, <2>1, <2>3, <3>1, <3>2, <3>4 DEF Parsed
    <3>6. processLine(conv, line) = c
      BY <2>2, <2>4 DEF c
    <3> QED BY <3>5, <3>6
  <2>5. CASE Len(items) - 1 = conv.length
    <3>1. e = i + 2 /\ e - 1 = i + 1
      <4>1. (i + 1) - f = W[f][4]
        BY <2>1, <2>3, <2>5
      <4> QED BY <1>3, <2>3, <4>1
    <3>2. items = x
      BY <2>1, <3>1 DEF x
    <3>3. /\ done \in Convs /\ done.items = <<>> /\ done.parsing = FALSE
          /\ done.pending = conv.pending /\ done.answer = conv.answer
      <4>1. <<>> \in Seq(Lines) /\ 0 \in Nat /\ FALSE \in BOOLEAN
        OBVIOUS
      <4>2. conv \in Convs
        BY <1>2
      <4> QED BY <4>1, <4>2 DEF Convs
    <3> HIDE DEF done
    <3>4. Waiting(done, a, slot[f])
      BY <1>2, <3>3 DEF Waiting
    <3>5. Dropped(x) <=> IsPush(items)
      BY <1>6, <2>3, <3>2 DEF Dropped
    <3>6. CASE IsPush(items)
      <4>1. processLine(conv, line) = done
        BY <2>2, <2>5, <3>6
      <4>2. Waiting(done, a, slot[e])
        BY <1>7, <3>4, <3>5, <3>6
      <4>3. Parsed(done, W, B, slot, i + 1, e, a)
        BY <1>9, <3>1, <3>3, <4>2
      <4> QED BY <4>1, <4>3
    <3>7. CASE ~IsPush(items)
      <4> DEFINE c == Resolve(done, items)
      <4>1. processLine(conv, line) = c
        BY <2>2, <2>5, <3>7
      <4>2. Fits(items, slot[f], h) /\ slot[e] = slot[f] + 1
        BY <1>7, <3>2, <3>5, <3>7
      <4>3. /\ \E a2 : Waiting(c, a2, slot[f] + 1)
            /\ c.parsing = done.parsing /\ c.items = done.items
        BY <2>1, <3>4, <4>2, ResolveWaiting
      <4> HIDE DEF c
      <4>4. PICK a2 : Waiting(c, a2, slot[e])
        BY <4>2, <4>3
      <4>5. Parsed(c, W, B, slot, i + 1, e, a2)
        BY <1>9, <3>1, <3>3, <4>3, <4>4
      <4> QED BY <4>1, <4>5
    <3> QED BY <3>6, <3>7
  <2> QED BY <2>4, <2>5
<1>11. CASE ~(f <= i)
  <2>1. f = i + 1 /\ line = W[f] /\ ~conv.parsing
    BY <1>2, <1>3, <1>11
  <2>2. /\ SubSeq(W, f, f) = <<line>> /\ SubSeq(W, f, i) = <<>>
    <3>1. SubSeq(W, f, i) = <<>>
      BY <1>3, <1>11, SubSeqEmpty
    <3>2. f \in f..Len(W) /\ f - 1 = i
      BY <1>1, <1>3, <2>1
    <3>3. SubSeq(W, f, f) = SubSeq(W, f, f - 1) \o <<W[f]>>
      BY <1>1, <1>5, <3>2, SubSeqRecursiveSecond
    <3>4. <<>> \o <<line>> = <<line>>
      <4>1. <<line>> \in Seq(Lines)
        BY <1>1, <1>3
      <4> HIDE DEF line
      <4> QED BY <4>1, ConcatEmptySeq
    <3> QED BY <2>1, <3>1, <3>2, <3>3, <3>4
  <2>3. CASE IsHeader(line)
    <3> DEFINE c == [conv EXCEPT !.parsing = TRUE, !.length = line[4], !.items = <<line>>]
    <3>1. processLine(conv, line) = c
      BY <2>1, <2>3 DEF processLine, IsHeader
    <3>2. line[4] \in Nat \ {0} /\ <<line>> \in Seq(Lines)
      <4>1. line \in Lines
        BY <1>1, <1>3
      <4> QED BY <1>8, <2>1, <2>3, <4>1
    <3> HIDE DEF line
    <3>3. /\ c \in Convs /\ c.items = <<line>> /\ c.parsing = TRUE /\ c.length = line[4]
          /\ c.pending = conv.pending /\ c.answer = conv.answer
      BY <1>2, <3>2 DEF Convs
    <3> HIDE DEF c
    <3>4. Waiting(c, a, slot[f])
      BY <1>2, <3>3 DEF Waiting
    <3>5. i + 1 \in 0..Len(W) /\ f <= (i + 1) + 1 /\ f <= i + 1 /\ i + 1 < f + W[f][4]
      BY <1>3, <2>1, <3>2
    <3>6. c.items = SubSeq(W, f, i + 1)
      BY <2>1, <2>2, <3>3
    <3>7. IsHeader(W[f]) /\ c.length = W[f][4]
      BY <2>1, <2>3, <3>3
    <3>8. c.parsing <=> f <= i + 1
      BY <3>3, <3>5
    <3>9. Parsed(c, W, B, slot, i + 1, f, a)
      BY <1>2, <3>4, <3>5, <3>6, <3>7, <3>8 DEF Parsed
    <3> QED BY <3>1, <3>9 DEF line
  <2>4. CASE ~IsHeader(line)
    <3> DEFINE c == Resolve(conv, <<line>>)
    <3>1. processLine(conv, line) = c
      BY <2>1, <2>4 DEF processLine, IsHeader
    <3>2. e = i + 2 /\ e - 1 = f
      BY <1>3, <1>8, <2>1, <2>4
    <3>3. x = <<line>>
      BY <2>2, <3>2 DEF x
    <3>4. ~Dropped(x)
      BY <1>6, <2>1, <2>4 DEF Dropped
    <3>5. Fits(<<line>>, slot[f], h) /\ slot[e] = slot[f] + 1 /\ <<line>> \in Seq(Lines)
      BY <1>6, <1>7, <3>3, <3>4
    <3> HIDE DEF line
    <3>6. /\ \E a2 : Waiting(c, a2, slot[f] + 1)
          /\ c.parsing = conv.parsing /\ c.items = conv.items
      BY <1>2, <3>5, ResolveWaiting
    <3> HIDE DEF c
    <3>7. PICK a2 : Waiting(c, a2, slot[e])
      BY <3>5, <3>6
    <3>8. ~c.parsing /\ c.items = <<>>
      BY <1>2, <2>1, <2>2, <3>6
    <3>9. Parsed(c, W, B, slot, i + 1, e, a2)
      BY <1>9, <3>2, <3>7, <3>8
    <3> QED BY <3>1, <3>9 DEF line
  <2> QED BY <2>3, <2>4
<1> QED BY <1>3, <1>10, <1>11


-----------------------------------------------------------------------------
(***************************************************************************)
(* The invariant.                                                          *)
(***************************************************************************)
Conversing == [parsing |-> parser.parsing, length |-> parser.length, items |-> parser.items,
               pending |-> pending, answer |-> answer]

\* h requests are handled and d is under way to the client.
Talk(W, B, slot, i, f, a, h, d) ==
  /\ Framing(W, B, slot, h) /\ Wire(W, i, parser.buffer, d)
  /\ Parsed(Conversing, W, B, slot, i, f, a)

Exchange(W, B, slot, i, f, a) ==
  /\ Talk(W, B, slot, i, f, a, Len(handled), down)
  /\ server = "open" => NextSlot(slot[Len(W) + 1], Len(handled))

MatchInv ==
  /\ SentTyped /\ Answers(answer)
  /\ client = "open" => \E W, B, slot, i, f, a : Exchange(W, B, slot, i, f, a)

\* At first there is no line, and the next frame is for the first request.
LEMMA MatchInit == Init => MatchInv
<1> SUFFICES ASSUME Init PROVE MatchInv
  OBVIOUS
<1>1. /\ sent = <<>> /\ answer = <<>> /\ pending = <<>> /\ down = <<>> /\ handled = <<>>
      /\ parser = [buffer |-> <<>>, parsing |-> FALSE, length |-> 0, items |-> <<>>]
  BY DEF Init, Fresh
<1>2. Len(sent) = 0 /\ Len(answer) = 0 /\ Len(handled) = 0 /\ sent \in Seq(AllKinds)
  BY <1>1
<1>3. Answers(answer)
  <2>1. answer \in Seq(Seq(Lines))
    BY <1>1
  <2> QED BY <1>2, <2>1 DEF Answers
<1> DEFINE W == <<>>
           B == {1}
           slot == [n \in Nat |-> 1]
<1>4. W \in Seq(Lines) /\ Len(W) = 0 /\ slot \in [Nat -> Nat \ {0}] /\ slot[1] = 1
  OBVIOUS
<1>5. SubSeq(W, 1, 0) = <<>>
  BY SubSeqEmpty
<1> HIDE DEF W, slot
<1>6. Framing(W, B, slot, 0)
  BY <1>4 DEF Framing
<1>7. Wire(W, 0, parser.buffer, down)
  <2>1. parser.buffer = <<>> /\ <<>> \in Seq(Marks) /\ Len(<<>>) = 0
    BY <1>1
  <2> QED BY <1>1, <1>4, <2>1 DEF Wire
<1>8. Parsed(Conversing, W, B, slot, 0, 1, 0)
  <2> DEFINE conv == [parsing |-> FALSE, length |-> 0, items |-> <<>>,
                      pending |-> <<>>, answer |-> <<>>]
  <2>1. Conversing = conv
    BY <1>1 DEF Conversing
  <2>2. /\ conv.items = <<>> /\ conv.parsing = FALSE /\ conv.pending = <<>> /\ conv.answer = <<>>
    OBVIOUS
  <2>3. conv \in Convs
    <3>1. /\ <<>> \in Seq(Lines) /\ <<>> \in Seq(Nat) /\ <<>> \in Seq(Seq(Lines))
          /\ FALSE \in BOOLEAN /\ 0 \in Nat
      OBVIOUS
    <3> QED BY <3>1 DEF Convs
  <2> HIDE DEF conv
  <2>4. Waiting(conv, 0, slot[1])
    <3>1. <<>> = [j \in 1..(0 - 0) |-> 0 + j]
      OBVIOUS
    <3>2. Answers(conv.answer)
      BY <1>1, <1>3, <2>2
    <3>3. 0 \in 0..Len(sent) /\ conv.pending = [j \in 1..(Len(sent) - 0) |-> 0 + j]
      BY <1>2, <2>2, <3>1
    <3>4. slot[1] \in Nat /\ 0 < slot[1] /\ slot[1] = 0 + 1
      BY <1>4
    <3> QED BY <2>3, <3>2, <3>3, <3>4 DEF Waiting
  <2>5. 1 \in B /\ 0 \in 0..Len(W) /\ 1 <= 0 + 1 /\ ~(1 <= 0)
    BY <1>4
  <2> QED BY <1>5, <2>1, <2>2, <2>4, <2>5 DEF Parsed
<1>9. NextSlot(slot[Len(W) + 1], 0)
  <2>1. slot[Len(W) + 1] = 1
    BY <1>4
  <2> QED BY <2>1 DEF NextSlot
<1>10. Exchange(W, B, slot, 0, 1, 0)
  BY <1>2, <1>6, <1>7, <1>8, <1>9 DEF Exchange, Talk
<1> QED BY <1>2, <1>3, <1>10 DEF MatchInv, SentTyped

-----------------------------------------------------------------------------
(***************************************************************************)
(* What a request more, or none, changes in the parts of the invariant.    *)
(***************************************************************************)
\* Without a new request what depends on the requests stays.
LEMMA Unsent ==
  ASSUME sent' = sent
  PROVE  /\ \A x, s, h : Fits(x, s, h)' <=> Fits(x, s, h)
         /\ \A s, h : Irregular(s, h)' <=> Irregular(s, h)
         /\ \A x : Answers(x)' <=> Answers(x)
         /\ \A s, h : NextSlot(s, h)' <=> NextSlot(s, h)
<1>1. \A q : Subscribed(q)' <=> Subscribed(q)
  BY DEF Subscribed
<1>2. \A q : Reply(q)' = Reply(q)
  <2> TAKE q
  <2>1. \A kind : ReplyOfKind(q, kind)' = ReplyOfKind(q, kind)
    BY <1>1 DEF ReplyOfKind
  <2> QED BY <1>1, <2>1 DEF Reply
<1>3. \A s, h : Irregular(s, h)' <=> Irregular(s, h)
  BY DEF Irregular
<1>4. \A x, s, h : Fits(x, s, h)' <=> Fits(x, s, h)
  BY <1>2, <1>3 DEF Fits
<1>5. \A x, r : Sound(x, r)' <=> Sound(x, r)
  BY <1>2 DEF Sound, RegularUpTo
<1>6. \A x : Answers(x)' <=> Answers(x)
  BY <1>5 DEF Answers
<1>7. \A s, h : NextSlot(s, h)' <=> NextSlot(s, h)
  BY <1>3 DEF NextSlot
<1> QED BY <1>3, <1>4, <1>6, <1>7

\* The invariant of a step that sends no request, in terms of the values behind it.
LEMMA ExchangeNext ==
  ASSUME sent' = sent, NEW W, NEW B, NEW slot, NEW i, NEW f, NEW a, NEW h, NEW b, NEW d, NEW conv,
         h = Len(handled'), b = parser'.buffer, d = down', conv = Conversing',
         Framing(W, B, slot, h), Wire(W, i, b, d), Parsed(conv, W, B, slot, i, f, a),
         server' = "open" => NextSlot(slot[Len(W) + 1], h)
  PROVE  Exchange(W, B, slot, i, f, a)'
<1>1. Framing(W, B, slot, h)'
  <2>1. ASSUME NEW p, NEW e, FrameAt(W, p, e, slot, h) PROVE FrameAt(W, p, e, slot, h)'
    BY <2>1, Unsent DEF FrameAt
  <2> QED BY <2>1 DEF Framing
<1>2. Parsed(conv, W, B, slot, i, f, a)'
  <2>1. Waiting(conv, a, slot[f])'
    BY Unsent DEF Waiting, Parsed
  <2> QED BY <2>1 DEF Parsed
<1>3. server' = "open" => NextSlot(slot[Len(W) + 1], h)'
  BY Unsent
<1> QED BY <1>1, <1>2, <1>3 DEF Exchange, Talk, Wire

\* A request more changes nothing of the replies to the others.
LEMMA ReplyKept ==
  ASSUME SentTyped, NEW kind \in AllKinds, sent' = Append(sent, kind)
  PROVE  /\ Len(sent') = Len(sent) + 1 /\ SentTyped'
         /\ \A n \in 1..Len(sent) : sent'[n] = sent[n]
         /\ \A q \in 1..Len(sent) : Reply(q)' = Reply(q)
<1>1. /\ Len(sent) \in Nat /\ Len(sent') = Len(sent) + 1 /\ sent' \in Seq(AllKinds)
      /\ \A n \in 1..Len(sent) : sent'[n] = sent[n]
  BY AppendProperties, LenProperties DEF SentTyped
<1>2. ASSUME NEW q \in 1..Len(sent) PROVE Reply(q)' = Reply(q)
  <2>1. Subscribed(q)' <=> Subscribed(q)
    <3>1. \A p \in 1..(q - 1) : sent'[p] = sent[p] /\ \A n \in p..(q - 1) : sent'[n] = sent[n]
      <4>1. \A p \in 1..(q - 1) : p \in 1..Len(sent) /\ \A n \in p..(q - 1) : n \in 1..Len(sent)
        BY <1>1
      <4> QED BY <1>1, <4>1
    <3> QED BY <3>1 DEF Subscribed
  <2>2. \A k : ReplyOfKind(q, k)' = ReplyOfKind(q, k)
    BY <2>1 DEF ReplyOfKind
  <2>3. sent'[q] = sent[q]
    BY <1>1
  <2> QED BY <2>1, <2>2, <2>3 DEF Reply
<1> QED BY <1>1, <1>2 DEF SentTyped

\* send() adds a request that is not resolved and waits behind the others.
LEMMA SendMatches ==
  ASSUME FrameInv, MatchInv, NEW kind \in Kinds, Send(kind)
  PROVE  MatchInv'
<1>1. /\ UNCHANGED <<client, parser, server, handled, down>>
      /\ sent' = Append(sent, kind) /\ answer' = Append(answer, NotYet)
      /\ pending' = Append(pending, Len(sent) + 1)
  BY DEF Send
<1>2. PICK n \in Nat, h \in Nat : n = Len(sent) /\ h = Len(handled) /\ h <= n
  BY DEF FrameInv, FrameTypes, HandledInv
<1>3. /\ Len(sent') = n + 1 /\ SentTyped'
      /\ \A p \in 1..n : sent'[p] = sent[p]
      /\ \A q \in 1..n : Reply(q)' = Reply(q)
  <2>1. kind \in AllKinds /\ SentTyped
    BY KindAssumption DEF MatchInv
  <2> QED BY <1>1, <1>2, <2>1, ReplyKept
<1>4. ASSUME NEW s, NEW m \in 0..n PROVE Irregular(s, m)' <=> Irregular(s, m)
  <2>1. \A p \in 1..m : sent'[p] = sent[p]
    BY <1>3
  <2> QED BY <2>1 DEF Irregular
<1>5. ASSUME NEW x, NEW s \in Nat \ {0}, Fits(x, s, h) PROVE Fits(x, s, h)'
  <2>1. x = TooLong \/ (\E p \in 1..h : sent[p] = "nested") \/ \E q \in s..h : x = Reply(q)
    BY <1>5 DEF Fits
  <2>2. (s \in 1..n /\ (x = TooLong \/ x = Reply(s))) \/ Irregular(s, h)
    BY <1>2, <1>5 DEF Fits
  <2>3. x = TooLong \/ (\E p \in 1..h : sent'[p] = "nested") \/ \E q \in s..h : x = Reply(q)'
    <3>1. \A p \in 1..h : sent'[p] = sent[p]
      BY <1>2, <1>3
    <3>2. ASSUME NEW q \in s..h, x = Reply(q) PROVE x = Reply(q)'
      <4>1. q \in 1..n
        BY <1>2
      <4> QED BY <1>3, <3>2, <4>1
    <3>3. CASE \E p \in 1..h : sent[p] = "nested"
      BY <3>1, <3>3
    <3>4. CASE \E q \in s..h : x = Reply(q)
      <4>1. PICK q \in s..h : x = Reply(q)
        BY <3>4
      <4>2. x = Reply(q)'
        BY <3>2, <4>1
      <4> QED BY <4>2
    <3> QED BY <2>1, <3>3, <3>4
  <2>4. (s \in 1..n /\ (x = TooLong \/ x = Reply(s)')) \/ Irregular(s, h)'
    <3>1. h \in 0..n
      BY <1>2
    <3> QED BY <1>3, <1>4, <2>2, <3>1
  <2>5. s \in 1..n => s \in 1..Len(sent')
    BY <1>3
  <2> QED BY <2>3, <2>4, <2>5 DEF Fits, TooLong
<1>6. ASSUME NEW W, NEW B, NEW slot, Framing(W, B, slot, h) PROVE Framing(W, B, slot, h)'
  <2>1. /\ W \in Seq(Lines) /\ slot \in [Nat -> Nat \ {0}]
        /\ B \subseteq 1..(Len(W) + 1) /\ Len(W) + 1 \in B
        /\ \A b \in B : b <= Len(W) => \E e \in B : FrameAt(W, b, e, slot, h)
    BY <1>6 DEF Framing
  <2>2. \A b \in B : slot[b] \in Nat \ {0}
    <3>1. Len(W) \in Nat
      BY <2>1, LenProperties
    <3>2. \A b \in B : b \in Nat
      BY <2>1, <3>1
    <3> QED BY <2>1, <3>2
  <2>3. ASSUME NEW b \in B, NEW e, FrameAt(W, b, e, slot, h) PROVE FrameAt(W, b, e, slot, h)'
    <3>1. Dropped(SubSeq(W, b, e - 1)) \/ Fits(SubSeq(W, b, e - 1), slot[b], h)'
      BY <1>5, <2>2, <2>3 DEF FrameAt
    <3> QED BY <2>3, <3>1 DEF FrameAt
  <2> QED BY <2>1, <2>3 DEF Framing
<1>7. ASSUME NEW x, NEW r \in 1..n, Sound(x, r) PROVE Sound(x, r)'
  <2> SUFFICES ASSUME x \notin {NotYet, ConnectionClosed, TooLong}
               PROVE  /\ ("nested" \in ToSet(sent))' \/ \E q \in r..(n + 1) : x = Reply(q)'
                      /\ RegularUpTo(r)' => x = Reply(r)'
    BY <1>3 DEF Sound, NotYet, ConnectionClosed, TooLong
  <2>1. DOMAIN sent = 1..n /\ DOMAIN sent' = 1..(n + 1)
    BY <1>2, <1>3, LenProperties DEF MatchInv, SentTyped
  <2>2. "nested" \in ToSet(sent) \/ \E q \in r..n : x = Reply(q)
    BY <1>2, <1>7 DEF Sound
  <2>3. "nested" \in ToSet(sent) => ("nested" \in ToSet(sent))'
    <3>1. ASSUME NEW p \in 1..n, sent[p] = "nested" PROVE p \in 1..(n + 1) /\ sent'[p] = "nested"
      BY <1>3, <3>1
    <3> QED BY <2>1, <3>1 DEF ToSet
  <2>4. ASSUME NEW q \in r..n, x = Reply(q) PROVE q \in r..(n + 1) /\ x = Reply(q)'
    BY <1>3, <2>4
  <2>5. RegularUpTo(r)' => RegularUpTo(r)
    <3>1. \A p \in 1..r : sent'[p] = sent[p]
      BY <1>3
    <3> QED BY <3>1 DEF RegularUpTo
  <2>6. RegularUpTo(r) => x = Reply(r)
    BY <1>7 DEF Sound
  <2>7. Reply(r)' = Reply(r)
    BY <1>3
  <2> QED BY <2>2, <2>3, <2>4, <2>5, <2>6, <2>7
<1>8. ASSUME NEW replies, Answers(replies) PROVE (Answers(Append(replies, NotYet)))'
  <2> DEFINE more == Append(replies, NotYet)
  <2>1. replies \in Seq(Seq(Lines)) /\ Len(replies) = n /\ \A r \in 1..n : Sound(replies[r], r)
    BY <1>2, <1>8 DEF Answers
  <2>2. NotYet \in Seq(Lines)
    BY DEF NotYet
  <2>3. /\ more \in Seq(Seq(Lines)) /\ Len(more) = n + 1 /\ more[n + 1] = NotYet
        /\ \A r \in 1..n : more[r] = replies[r]
    BY <2>1, <2>2, AppendProperties
  <2> HIDE DEF more
  <2>4. ASSUME NEW r \in 1..(n + 1) PROVE Sound(more[r], r)'
    <3>1. CASE r \in 1..n
      BY <1>7, <2>1, <2>3, <3>1
    <3>2. CASE r = n + 1
      BY <2>3, <3>2 DEF Sound, NotYet
    <3> QED BY <3>1, <3>2
  <2>5. Answers(more)'
    BY <1>3, <2>3, <2>4 DEF Answers
  <2> QED BY <2>5 DEF more, NotYet
<1>9. ASSUME NEW conv, NEW a, NEW s, Waiting(conv, a, s),
             NEW more, more = [conv EXCEPT !.pending = Append(conv.pending, n + 1),
                                           !.answer = Append(conv.answer, NotYet)]
      PROVE  Waiting(more, a, s)'
  <2>1. /\ conv \in Convs /\ a \in 0..n /\ s \in Nat /\ Answers(conv.answer)
        /\ a < s /\ (s = a + 1 \/ Irregular(a, a))
        /\ conv.pending = [j \in 1..(n - a) |-> a + j]
    BY <1>2, <1>9 DEF Waiting
  <2>2. /\ more.pending = Append(conv.pending, n + 1) /\ more.answer = Append(conv.answer, NotYet)
        /\ more \in Convs
    <3>1. conv.pending \in Seq(Nat) /\ conv.answer \in Seq(Seq(Lines)) /\ NotYet \in Seq(Lines)
      BY <2>1 DEF Convs, NotYet
    <3>2. Append(conv.pending, n + 1) \in Seq(Nat) /\ Append(conv.answer, NotYet) \in Seq(Seq(Lines))
      <4>1. n + 1 \in Nat
        OBVIOUS
      <4> QED BY <3>1, <4>1, AppendProperties
    <3> QED BY <1>9, <2>1, <3>2 DEF Convs
  <2>3. Append(conv.pending, n + 1) = [j \in 1..((n + 1) - a) |-> a + j]
    <3> DEFINE p == conv.pending
               t == [j \in 1..((n + 1) - a) |-> a + j]
    <3>1. p \in Seq(Nat) /\ Len(p) = n - a
      <4>1. p \in Seq(Nat)
        BY <2>1 DEF Convs
      <4>2. DOMAIN p = 1..(n - a) /\ n - a \in Nat
        BY <2>1
      <4>3. DOMAIN p = 1..Len(p) /\ Len(p) \in Nat
        BY <4>1, LenProperties
      <4> QED BY <4>1, <4>2, <4>3
    <3>2. \A j \in 1..(n - a) : p[j] = a + j
      BY <2>1
    <3>3. t \in Seq(Nat) /\ Len(t) = (n - a) + 1
      <4>1. t \in [1..((n + 1) - a) -> Nat] /\ (n + 1) - a \in Nat /\ (n + 1) - a = (n - a) + 1
        BY <2>1
      <4> HIDE DEF t
      <4>2. t \in Seq(Nat)
        BY <4>1, SeqDef
      <4>3. DOMAIN t = 1..Len(t) /\ Len(t) \in Nat /\ DOMAIN t = 1..((n + 1) - a)
        BY <4>1, <4>2, LenProperties
      <4> QED BY <4>1, <4>2, <4>3
    <3>4. \A j \in 1..((n - a) + 1) : t[j] = a + j
      BY <2>1
    <3> HIDE DEF p, t
    <3>5. /\ Append(p, n + 1) \in Seq(Nat) /\ Len(Append(p, n + 1)) = (n - a) + 1
          /\ \A j \in 1..(n - a) : Append(p, n + 1)[j] = p[j]
          /\ Append(p, n + 1)[(n - a) + 1] = n + 1
      <4>1. n + 1 \in Nat
        OBVIOUS
      <4> QED BY <3>1, <4>1, AppendProperties
    <3>6. \A j \in 1..((n - a) + 1) : Append(p, n + 1)[j] = t[j]
      <4> TAKE j \in 1..((n - a) + 1)
      <4>1. CASE j \in 1..(n - a)
        BY <3>2, <3>4, <3>5, <4>1
      <4>2. CASE j = (n - a) + 1
        <5>1. a + j = n + 1
          BY <2>1, <4>2
        <5> QED BY <3>4, <3>5, <4>2, <5>1
      <4>3. j \in 1..(n - a) \/ j = (n - a) + 1
        BY <2>1
      <4> QED BY <4>1, <4>2, <4>3
    <3>7. Append(p, n + 1) = t
      BY <3>3, <3>5, <3>6, SeqEqual
    <3> QED BY <3>7 DEF p, t
  <2>4. Answers(more.answer)'
    BY <1>8, <2>1, <2>2
  <2>5. (s = a + 1 \/ Irregular(a, a))'
    BY <1>4, <2>1
  <2>6. a \in 0..Len(sent') /\ more.pending = [j \in 1..(Len(sent') - a) |-> a + j]
    <3>1. a \in 0..(n + 1)
      BY <2>1
    <3> QED BY <1>3, <2>2, <2>3, <3>1
  <2> QED BY <2>1, <2>2, <2>4, <2>5, <2>6 DEF Waiting
<1>10. Answers(answer)'
  <2>1. PICK replies : replies = answer
    OBVIOUS
  <2>2. Answers(replies) /\ answer' = Append(replies, NotYet)
    BY <1>1, <2>1 DEF MatchInv
  <2> QED BY <1>8, <2>2
<1>11. ASSUME client = "open"
       PROVE  \E W, B, slot, i, f, a : Exchange(W, B, slot, i, f, a)'
  <2>1. PICK W, B, slot, i, f, a : Exchange(W, B, slot, i, f, a)
    BY <1>11 DEF MatchInv
  <2>2. PICK conv, d, b : conv = Conversing /\ d = down /\ b = parser.buffer
    OBVIOUS
  <2>3. /\ Framing(W, B, slot, h) /\ Wire(W, i, b, d) /\ Parsed(conv, W, B, slot, i, f, a)
        /\ server = "open" => NextSlot(slot[Len(W) + 1], h)
    BY <1>2, <2>1, <2>2 DEF Exchange, Talk
  <2> DEFINE more == [conv EXCEPT !.pending = Append(conv.pending, n + 1),
                                  !.answer = Append(conv.answer, NotYet)]
  <2>4. Conversing' = more
    <3> DEFINE p == Append(pending, n + 1)
               r == Append(answer, NotYet)
    <3>1. Conversing' = [parsing |-> parser.parsing, length |-> parser.length,
                         items |-> parser.items, pending |-> p, answer |-> r]
      BY <1>1, <1>2 DEF Conversing
    <3>2. conv = [parsing |-> parser.parsing, length |-> parser.length,
                  items |-> parser.items, pending |-> pending, answer |-> answer]
      BY <2>2 DEF Conversing
    <3>3. more = [conv EXCEPT !.pending = p, !.answer = r]
      BY <3>2
    <3> HIDE DEF p, r, more
    <3> QED BY <3>1, <3>2, <3>3
  <2>5. /\ f \in B /\ i \in 0..Len(W) /\ f <= i + 1
        /\ Waiting(conv, a, slot[f])
        /\ conv.items = SubSeq(W, f, i) /\ (conv.parsing <=> f <= i)
        /\ f <= i => IsHeader(W[f]) /\ conv.length = W[f][4] /\ i < f + W[f][4]
    BY <2>3 DEF Parsed
  <2>6. Waiting(more, a, slot[f])'
    BY <1>9, <2>5
  <2>7. more.items = conv.items /\ more.parsing = conv.parsing /\ more.length = conv.length
    BY <2>5 DEF Waiting, Convs
  <2> HIDE DEF more
  <2>8. Parsed(more, W, B, slot, i, f, a)'
    BY <2>5, <2>6, <2>7 DEF Parsed
  <2>9. (NextSlot(slot[Len(W) + 1], h))' \/ server # "open"
    <3>1. CASE server = "open"
      <4>1. NextSlot(slot[Len(W) + 1], h)
        BY <2>3, <3>1
      <4>2. \A p \in 1..h : sent'[p] = sent[p]
        BY <1>2, <1>3
      <4>3. Irregular(slot[Len(W) + 1], h)' <=> Irregular(slot[Len(W) + 1], h)
        BY <1>2, <1>4
      <4> QED BY <4>1, <4>2, <4>3 DEF NextSlot
    <3> QED BY <3>1
  <2>10. Exchange(W, B, slot, i, f, a)'
    <3>1. Framing(W, B, slot, h)'
      BY <1>6, <2>3
    <3>2. /\ h = Len(handled') /\ b = parser'.buffer /\ d = down' /\ server' = server
      BY <1>1, <1>2, <2>2
    <3> QED BY <2>3, <2>4, <2>8, <2>9, <3>1, <3>2 DEF Exchange, Talk, Wire
  <2> QED BY <2>10
<1> QED BY <1>1, <1>3, <1>10, <1>11 DEF MatchInv


-----------------------------------------------------------------------------
(***************************************************************************)
(* What is written to the client.                                          *)
(***************************************************************************)
\* A frame that fits is written behind the others.
LEMMA FrameWritten ==
  ASSUME NEW h \in Nat, NEW W, NEW B, NEW slot, NEW i, NEW f, NEW a, NEW d,
         Talk(W, B, slot, i, f, a, h, d), NEW x, IsFrame(x),
         Dropped(x) \/ Fits(x, slot[Len(W) + 1], h)
  PROVE  \E W2, B2, slot2 :
           /\ Talk(W2, B2, slot2, i, f, a, h, d \o Encoded(x))
           /\ slot2[Len(W2) + 1] = IF Dropped(x) THEN slot[Len(W) + 1] ELSE slot[Len(W) + 1] + 1
<1>1. Framing(W, B, slot, h) /\ Wire(W, i, parser.buffer, d) /\ Parsed(Conversing, W, B, slot, i, f, a)
  BY DEF Talk
<1>2. W \in Seq(Lines) /\ x \in Seq(Lines) /\ B \subseteq Nat \ {0}
  <2>1. W \in Seq(Lines) /\ B \subseteq 1..(Len(W) + 1) /\ x \in Seq(Lines)
    BY <1>1 DEF Framing, IsFrame
  <2>2. Len(W) \in Nat
    BY <2>1, LenProperties
  <2> QED BY <2>1, <2>2
<1>3. PICK B2, slot2 :
        /\ Framing(W \o x, B2, slot2, h)
        /\ B \subseteq B2 /\ \A b \in B : slot2[b] = slot[b]
        /\ slot2[Len(W \o x) + 1] = IF Dropped(x) THEN slot[Len(W) + 1] ELSE slot[Len(W) + 1] + 1
  BY <1>1, FramingJoin
<1>4. Wire(W \o x, i, parser.buffer, d \o Encoded(x))
  BY <1>1, <1>2, WireJoin
<1>5. Parsed(Conversing, W \o x, B2, slot2, i, f, a)
  BY <1>1, <1>2, <1>3, ParsedJoin
<1> QED BY <1>3, <1>4, <1>5 DEF Talk

\* The server has h requests handled and is ready for the next.
Ready(W, B, slot, i, f, a, h, d) ==
  Talk(W, B, slot, i, f, a, h, d) /\ NextSlot(slot[Len(W) + 1], h)

\* The next request is handled and its reply written.
LEMMA ReplyWritten ==
  ASSUME SentTyped, NEW h \in Nat, h + 1 <= Len(sent),
         NEW W, NEW B, NEW slot, NEW i, NEW f, NEW a, NEW d, Ready(W, B, slot, i, f, a, h, d)
  PROVE  \E W2, B2, slot2 : Ready(W2, B2, slot2, i, f, a, h + 1, d \o Encoded(Reply(h + 1)))
<1> DEFINE r == h + 1
           s == slot[Len(W) + 1]
<1>1. Talk(W, B, slot, i, f, a, h, d) /\ NextSlot(s, h)
  BY DEF Ready
<1>2. Len(sent) \in Nat /\ r \in Nat /\ r \in 1..Len(sent) /\ h <= r
  BY LenProperties DEF SentTyped
<1>3. Talk(W, B, slot, i, f, a, r, d)
  BY <1>1, <1>2, FramingMore DEF Talk
<1>4. s \in Nat \ {0}
  <2>1. W \in Seq(Lines) /\ slot \in [Nat -> Nat \ {0}]
    BY <1>1 DEF Talk, Framing
  <2>2. Len(W) + 1 \in Nat
    BY <2>1, LenProperties
  <2> QED BY <2>1, <2>2
<1>5. d \in Seq(Marks)
  BY <1>1 DEF Talk, Wire
<1>6. /\ (\E n \in 1..h : sent[n] = "nested") => \E n \in 1..r : sent[n] = "nested"
      /\ \A t \in Nat : t >= s /\ Irregular(s, h) => Irregular(t, r)
      /\ \A t \in Nat : t >= s /\ s = r /\ sent[r] \notin Regular => Irregular(t, r)
  <2>1. 1..h \subseteq 1..r /\ r \in 1..r
    BY <1>2
  <2>2. ASSUME NEW t \in Nat, t >= s, Irregular(s, h) PROVE Irregular(t, r)
    <3>1. PICK n \in 1..h : n <= s /\ sent[n] \notin Regular
      BY <2>2 DEF Irregular
    <3>2. n \in 1..r /\ n <= t
      BY <1>4, <2>1, <2>2, <3>1
    <3> QED BY <3>1, <3>2 DEF Irregular
  <2>3. ASSUME NEW t \in Nat, t >= s, s = r, sent[r] \notin Regular PROVE Irregular(t, r)
    <3>1. r <= t
      BY <2>3
    <3> QED BY <2>1, <2>3, <3>1 DEF Irregular
  <2> QED BY <2>1, <2>2, <2>3
<1>7. /\ (\E n \in 1..r : sent[n] = "nested") \/ s <= r
      /\ s = r \/ Irregular(s, h)
  BY <1>1, <1>6 DEF NextSlot
<1> HIDE DEF r, s
<1>8. /\ (\E n \in 1..r : sent[n] = "nested") \/ (s <= r + 1 /\ s + 1 <= r + 1)
      /\ s = r => s + 1 = r + 1
  BY <1>2, <1>4, <1>7
<1>9. ASSUME sent[r] \notin Regular PROVE NextSlot(s, r)
  <2>1. Irregular(s, r)
    BY <1>4, <1>6, <1>7, <1>9
  <2> QED BY <1>8, <2>1 DEF NextSlot
<1>10. NextSlot(s + 1, r)
  <2>1. s + 1 = r + 1 \/ Irregular(s + 1, r)
    <3>1. Irregular(s, h) => Irregular(s + 1, r)
      BY <1>4, <1>6
    <3> QED BY <1>7, <1>8, <3>1
  <2> QED BY <1>8, <2>1 DEF NextSlot
<1>11. CASE Reply(r) = <<>> /\ sent[r] \notin Regular
  <2>1. Encoded(<<>>) = <<>>
    <3>1. <<>> \in Seq(Lines) /\ Len(<<>>) = 0
      OBVIOUS
    <3>2. Encoded(<<>>) \in Seq(Marks) /\ Len(Encoded(<<>>)) = 3 * 0
      <4> DEFINE none == <<>>
      <4>1. none \in Seq(Lines) /\ Len(none) = 0
        OBVIOUS
      <4> HIDE DEF none
      <4>2. Encoded(none) \in Seq(Marks) /\ Len(Encoded(none)) = 3 * Len(none)
        BY <4>1, EncodedFacts
      <4> QED BY <4>1, <4>2 DEF none
    <3> QED BY <3>2, EmptySeq
  <2>2. d \o Encoded(Reply(r)) = d
    BY <1>5, <1>11, <2>1, ConcatEmptySeq
  <2>3. Ready(W, B, slot, i, f, a, r, d)
    BY <1>3, <1>9, <1>11 DEF Ready, s
  <2> QED BY <2>2, <2>3 DEF r
<1>12. CASE IsFrame(Reply(r)) /\ (Dropped(Reply(r)) => sent[r] \notin Regular)
  <2> DEFINE x == Reply(r)
  <2>1. Dropped(x) \/ Fits(x, s, r)
    <3>1. (\E n \in 1..r : sent[n] = "nested") \/ \E q \in s..r : x = Reply(q)
      <4>1. s <= r => r \in s..r
        BY <1>2, <1>4
      <4> QED BY <1>7, <4>1
    <3>2. s = r => s \in 1..Len(sent) /\ x = Reply(s)
      BY <1>2
    <3>3. Irregular(s, h) => Irregular(s, r)
      BY <1>4, <1>6
    <3> QED BY <1>7, <3>1, <3>2, <3>3 DEF Fits
  <2>2. IsFrame(x) /\ (Dropped(x) => sent[r] \notin Regular)
    BY <1>12
  <2> HIDE DEF x
  <2>3. PICK W2, B2, slot2 :
          /\ Talk(W2, B2, slot2, i, f, a, r, d \o Encoded(x))
          /\ slot2[Len(W2) + 1] = IF Dropped(x) THEN s ELSE s + 1
    BY <1>2, <1>3, <2>1, <2>2, FrameWritten DEF s
  <2>4. NextSlot(slot2[Len(W2) + 1], r)
    BY <1>9, <1>10, <2>2, <2>3
  <2> QED BY <2>3, <2>4 DEF Ready, r, x
<1>13. CASE sent[r] = "nested" /\ ThreeFrames(Reply(r))
  <2>1. PICK x, y, z : /\ IsFrame(x) /\ ~Dropped(x) /\ IsFrame(y) /\ ~Dropped(y)
                       /\ IsFrame(z) /\ ~Dropped(z)
                       /\ Reply(r) = (x \o y) \o z
    BY <1>13 DEF ThreeFrames
  <2>2. sent[r] = "nested" /\ sent[r] \notin Regular /\ \E n \in 1..r : sent[n] = "nested"
    <3>1. r \in 1..r
      BY <1>2
    <3> QED BY <1>13, <3>1 DEF Regular
  <2>3. \A t \in Nat : t >= s => Irregular(t, r)
    BY <1>6, <1>7, <2>2
  <2>4. \A t \in Nat : \A u : t >= s => Fits(u, t, r)
    BY <2>2, <2>3 DEF Fits
  <2>5. /\ s \in Nat /\ s + 1 \in Nat /\ (s + 1) + 1 \in Nat /\ ((s + 1) + 1) + 1 \in Nat
        /\ s >= s /\ s + 1 >= s /\ (s + 1) + 1 >= s /\ ((s + 1) + 1) + 1 >= s
    BY <1>4
  <2>6. PICK W2, B2, slot2 : /\ Talk(W2, B2, slot2, i, f, a, r, d \o Encoded(x))
                             /\ slot2[Len(W2) + 1] = s + 1
    <3>1. Fits(x, s, r)
      BY <2>4, <2>5
    <3> QED BY <1>2, <1>3, <2>1, <3>1, FrameWritten DEF s
  <2>7. PICK W3, B3, slot3 : /\ Talk(W3, B3, slot3, i, f, a, r, (d \o Encoded(x)) \o Encoded(y))
                             /\ slot3[Len(W3) + 1] = (s + 1) + 1
    <3>1. Fits(y, slot2[Len(W2) + 1], r)
      BY <2>4, <2>5, <2>6
    <3>2. \E W3, B3, slot3 : /\ Talk(W3, B3, slot3, i, f, a, r, (d \o Encoded(x)) \o Encoded(y))
                             /\ slot3[Len(W3) + 1] = IF Dropped(y) THEN slot2[Len(W2) + 1]
                                                     ELSE slot2[Len(W2) + 1] + 1
      BY <1>2, <2>1, <2>6, <3>1, FrameWritten
    <3> QED BY <2>1, <2>6, <3>2
  <2>8. PICK W4, B4, slot4 :
          /\ Talk(W4, B4, slot4, i, f, a, r, ((d \o Encoded(x)) \o Encoded(y)) \o Encoded(z))
          /\ slot4[Len(W4) + 1] = ((s + 1) + 1) + 1
    <3>1. Fits(z, slot3[Len(W3) + 1], r)
      BY <2>4, <2>5, <2>7
    <3>2. \E W4, B4, slot4 :
            /\ Talk(W4, B4, slot4, i, f, a, r, ((d \o Encoded(x)) \o Encoded(y)) \o Encoded(z))
            /\ slot4[Len(W4) + 1] = IF Dropped(z) THEN slot3[Len(W3) + 1]
                                    ELSE slot3[Len(W3) + 1] + 1
      BY <1>2, <2>1, <2>7, <3>1, FrameWritten
    <3> QED BY <2>1, <2>7, <3>2
  <2>9. ((d \o Encoded(x)) \o Encoded(y)) \o Encoded(z) = d \o Encoded(Reply(r))
    <3>1. x \in Seq(Lines) /\ y \in Seq(Lines) /\ z \in Seq(Lines)
      BY <2>1 DEF IsFrame
    <3> DEFINE w == x \o y
    <3>2. w \in Seq(Lines) /\ Encoded(w) = Encoded(x) \o Encoded(y)
      BY <3>1, EncodedJoin
    <3> HIDE DEF w
    <3>3. Encoded(w \o z) = Encoded(w) \o Encoded(z)
      BY <3>1, <3>2, EncodedJoin
    <3> DEFINE X == Encoded(x)
               Y == Encoded(y)
               Z == Encoded(z)
    <3>4. X \in Seq(Marks) /\ Y \in Seq(Marks) /\ Z \in Seq(Marks)
      BY <3>1, EncodedFacts
    <3> HIDE DEF X, Y, Z
    <3>5. BehindAtOnce(d, X, Y, Z)
      BY <1>5, <3>4, ThreeBehind
    <3>6. Encoded(Reply(r)) = (X \o Y) \o Z
      BY <2>1, <3>2, <3>3 DEF w, X, Y, Z
    <3> QED BY <3>5, <3>6 DEF BehindAtOnce, X, Y, Z
  <2>10. NextSlot(((s + 1) + 1) + 1, r)
    BY <2>2, <2>3, <2>5 DEF NextSlot
  <2> QED BY <2>8, <2>9, <2>10 DEF Ready, r
<1>14. \/ Reply(r) = <<>> /\ sent[r] \notin Regular
       \/ IsFrame(Reply(r)) /\ (Dropped(Reply(r)) => sent[r] \notin Regular)
       \/ sent[r] = "nested" /\ ThreeFrames(Reply(r))
  BY <1>2, ReplyFrames DEF SentTyped
<1> QED BY <1>11, <1>12, <1>13, <1>14


-----------------------------------------------------------------------------
(***************************************************************************)
(* What arrives at the client.                                             *)
(***************************************************************************)
\* A chunk behind the buffer is cut into the next lines, and the parser's buffer and
\* what is under way are then the lines behind those.
LEMMA WireTaken ==
  ASSUME NEW W \in Seq(Lines), NEW i, NEW b, NEW d, Wire(W, i, b, d), NEW n \in 1..Len(d),
         NEW text, text = b \o SubSeq(d, 1, n)
  PROVE  \E m \in Nat : /\ i + m \in 0..Len(W)
                        /\ Delimited(text).lines = Cut(W, i, m)
                        /\ Wire(W, i + m, Delimited(text).rest, SubSeq(d, n + 1, Len(d)))
<1>1. PICK p \in Nat, q \in Nat, l \in Nat : p = Len(b) /\ q = Len(d) /\ l = Len(W)
  BY LenProperties DEF Wire
<1>2. /\ b \in Seq(Marks) /\ d \in Seq(Marks) /\ i \in 0..l /\ p + q = 3 * (l - i)
      /\ \A k \in 1..p : b[k] = Encoded(W)[3 * i + k]
      /\ \A k \in 1..q : d[k] = Encoded(W)[3 * i + p + k]
      /\ n \in 1..q
  BY <1>1 DEF Wire
<1> DEFINE E == Encoded(W)
           chunk == SubSeq(d, 1, n)
           rest  == SubSeq(d, n + 1, q)
<1>3. /\ chunk \in Seq(Marks) /\ Len(chunk) = n
      /\ \A k \in 1..n : chunk[k] = d[k]
  <2>1. \A k \in 1..n : d[k] \in Marks
    BY <1>1, <1>2, ElementOfSeq
  <2>2. 1 \in Int /\ n \in Int /\ n - 1 + 1 = n /\ 1 <= n
    BY <1>2
  <2>3. /\ chunk \in Seq(Marks)
        /\ Len(chunk) = IF 1 <= n THEN n - 1 + 1 ELSE 0
        /\ \A k \in 1..(n - 1 + 1) : chunk[k] = d[1 + k - 1]
    BY <2>1, <2>2, SubSeqProperties
  <2>4. \A k \in 1..n : 1 + k - 1 = k
    OBVIOUS
  <2> HIDE DEF chunk
  <2> QED BY <2>2, <2>3, <2>4
<1>4. /\ rest \in Seq(Marks) /\ Len(rest) = q - n
      /\ \A k \in 1..(q - n) : rest[k] = d[n + k]
  <2>1. d \in Seq(Marks) /\ n \in 0..Len(d) /\ Len(d) = q
    BY <1>1, <1>2
  <2>2. /\ SubSeq(d, n + 1, Len(d)) \in Seq(Marks)
        /\ Len(SubSeq(d, n + 1, Len(d))) = Len(d) - n
        /\ \A k \in 1..(Len(d) - n) : SubSeq(d, n + 1, Len(d))[k] = d[n + k]
    BY <2>1, RestOf
  <2> QED BY <2>1, <2>2
<1> HIDE DEF E, chunk, rest
<1>5. /\ text \in Seq(Marks) /\ Len(text) = p + n
      /\ \A k \in 1..(p + n) : text[k] = IF k <= p THEN b[k] ELSE chunk[k - p]
  <2>1. /\ b \o chunk \in Seq(Marks) /\ Len(b \o chunk) = Len(b) + Len(chunk)
        /\ \A k \in 1..(Len(b) + Len(chunk)) :
             (b \o chunk)[k] = IF k <= Len(b) THEN b[k] ELSE chunk[k - Len(b)]
    <3>1. b \in Seq(Marks) /\ chunk \in Seq(Marks)
      BY <1>2, <1>3
    <3> QED BY <3>1, ConcatProperties
  <2> QED BY <1>1, <1>3, <2>1 DEF chunk
<1>6. \A k \in 1..(p + n) : text[k] = E[3 * i + k]
  <2> TAKE k \in 1..(p + n)
  <2>1. CASE k <= p
    <3>1. k \in 1..p
      BY <2>1
    <3>2. b[k] = E[3 * i + k]
      BY <1>2, <3>1 DEF E
    <3> QED BY <1>5, <2>1, <3>2
  <2>2. CASE ~(k <= p)
    <3>1. k - p \in 1..n /\ k - p \in 1..q /\ 3 * i + p + (k - p) = 3 * i + k
      BY <1>2, <2>2
    <3>2. text[k] = d[k - p]
      BY <1>3, <1>5, <2>2, <3>1
    <3>3. d[k - p] = E[3 * i + p + (k - p)]
      BY <1>2, <3>1 DEF E
    <3> QED BY <3>1, <3>2, <3>3
  <2> QED BY <2>1, <2>2
<1>7. PICK m \in Nat : /\ 3 * m <= p + n
                       /\ Delimited(text).lines = Cut(W, i, m)
                       /\ Delimited(text).rest = SubSeq(text, 3 * m + 1, p + n)
  <2>1. /\ i \in Nat /\ 3 * i + Len(text) <= 3 * Len(W)
    BY <1>1, <1>2, <1>5
  <2>2. \A k \in 1..Len(text) : text[k] = Encoded(W)[3 * i + k]
    BY <1>5, <1>6 DEF E
  <2>3. \E m \in Nat : /\ 3 * m <= Len(text)
                       /\ Delimited(text).lines = Cut(W, i, m)
                       /\ Delimited(text).rest = SubSeq(text, 3 * m + 1, Len(text))
    BY <1>5, <2>1, <2>2, CutReplies
  <2> QED BY <1>5, <2>3
<1>8. i + m \in 0..l
  <2>1. p + n <= 3 * (l - i) /\ i \in Nat
    BY <1>2
  <2>2. 3 * m <= 3 * (l - i)
    BY <1>2, <1>7, <2>1
  <2> QED BY <2>1, <2>2
<1> DEFINE left == SubSeq(text, 3 * m + 1, p + n)
<1>9. /\ left \in Seq(Marks) /\ Len(left) = (p + n) - 3 * m
      /\ \A k \in 1..((p + n) - 3 * m) : left[k] = text[3 * m + k]
  <2> DEFINE c == 3 * m
  <2>1. c \in 0..Len(text)
    BY <1>5, <1>7
  <2> HIDE DEF c
  <2>2. /\ SubSeq(text, c + 1, Len(text)) \in Seq(Marks)
        /\ Len(SubSeq(text, c + 1, Len(text))) = Len(text) - c
        /\ \A k \in 1..(Len(text) - c) : SubSeq(text, c + 1, Len(text))[k] = text[c + k]
    BY <1>5, <2>1, RestOf
  <2> QED BY <1>5, <2>2 DEF c
<1> HIDE DEF left
<1>10. ASSUME NEW k \in 1..((p + n) - 3 * m) PROVE left[k] = E[3 * (i + m) + k]
  <2>1. 3 * m + k \in 1..(p + n) /\ 3 * i + (3 * m + k) = 3 * (i + m) + k
    BY <1>2, <1>7
  <2>2. left[k] = text[3 * m + k]
    BY <1>9
  <2>3. text[3 * m + k] = E[3 * i + (3 * m + k)]
    BY <1>6, <2>1
  <2> QED BY <2>1, <2>2, <2>3
<1>11. ASSUME NEW k \in 1..(q - n) PROVE rest[k] = E[3 * (i + m) + ((p + n) - 3 * m) + k]
  <2>1. n + k \in 1..q /\ 3 * i + p + (n + k) = 3 * (i + m) + ((p + n) - 3 * m) + k
    BY <1>2, <1>7
  <2>2. rest[k] = d[n + k]
    BY <1>4
  <2>3. d[n + k] = E[3 * i + p + (n + k)]
    BY <1>2, <2>1 DEF E
  <2> QED BY <2>1, <2>2, <2>3
<1>12. ((p + n) - 3 * m) + (q - n) = 3 * (l - (i + m))
  <2>1. i \in Nat /\ n \in Nat /\ m \in Nat /\ p + q = 3 * (l - i)
    BY <1>2, <1>7
  <2>2. ((p + n) - 3 * m) + (q - n) = (p + q) - 3 * m
    BY <2>1
  <2>3. 3 * (l - (i + m)) = 3 * (l - i) - 3 * m
    BY <2>1
  <2> QED BY <2>1, <2>2, <2>3
<1>13. Wire(W, i + m, left, rest)
  <2>1. Len(left) = (p + n) - 3 * m /\ Len(rest) = q - n /\ i + m \in 0..Len(W)
    BY <1>1, <1>4, <1>7, <1>9, <1>8
  <2>2. Len(left) + Len(rest) = 3 * (Len(W) - (i + m))
    BY <1>1, <1>12, <2>1
  <2> QED BY <1>4, <1>9, <1>10, <1>11, <2>1, <2>2 DEF Wire, E
<1> QED BY <1>1, <1>7, <1>8, <1>13 DEF left, rest

\* The parser takes the lines one after the other.
LEMMA LinesParsed ==
  ASSUME SentTyped, NEW h \in Nat, h <= Len(sent), NEW W, NEW B, NEW slot, Framing(W, B, slot, h),
         NEW conv, NEW i \in Nat, NEW f, NEW a, Parsed(conv, W, B, slot, i, f, a),
         NEW m \in Nat, i + m <= Len(W), NEW lines, lines = Cut(W, i, m)
  PROVE  \E f2, a2 : Parsed(pump(conv, lines), W, B, slot, i + m, f2, a2)
<1>1. Len(lines) = m /\ \A k \in 1..m : lines[k][1] = W[i + k]
  <2>1. \A k \in 1..m : lines[k][1] = W[i + k]
    BY DEF Cut
  <2>2. lines \in Seq({lines[k] : k \in 1..m})
    <3>1. lines \in [1..m -> {lines[k] : k \in 1..m}]
      BY DEF Cut
    <3> QED BY <3>1, SeqDef
  <2>3. DOMAIN lines = 1..m
    BY DEF Cut
  <2>4. DOMAIN lines = 1..Len(lines) /\ Len(lines) \in Nat
    BY <2>2, LenProperties
  <2> QED BY <2>1, <2>3, <2>4
<1> DEFINE step(x, k) == processLine(x, lines[k][1])
           solves(g, n) == g = [k \in 0..n |-> IF k = 0 THEN conv ELSE step(g[k - 1], k)]
           after == CHOOSE g : solves(g, m)
<1>2. pump(conv, lines) = after[m]
  BY <1>1 DEF pump
<1> HIDE DEF step
<1>3. \E g : solves(g, m)
  <2> DEFINE T == {n \in 0..m : \E g : solves(g, n)}
  <2>1. 0 \in T
    <3> DEFINE g == [k \in 0..0 |-> conv]
    <3>1. solves(g, 0)
      OBVIOUS
    <3> HIDE DEF g, solves
    <3>2. \E x : solves(x, 0)
      BY <3>1
    <3> QED BY <3>2
  <2>2. ASSUME NEW n \in 1..m, n - 1 \in T PROVE n \in T
    <3>1. PICK g : solves(g, n - 1)
      BY <2>2
    <3> DEFINE e == [k \in 0..n |-> IF k = n THEN step(g[n - 1], n) ELSE g[k]]
    <3>2. \A k \in 0..(n - 1) : e[k] = g[k] /\ g[k] = IF k = 0 THEN conv ELSE step(g[k - 1], k)
      <4>1. \A k \in 0..(n - 1) : k \in 0..n /\ k # n
        OBVIOUS
      <4> QED BY <3>1, <4>1
    <3>3. e[n] = step(g[n - 1], n) /\ e = [k \in 0..n |-> e[k]]
      OBVIOUS
    <3> HIDE DEF e
    <3>4. ASSUME NEW k \in 0..n PROVE e[k] = IF k = 0 THEN conv ELSE step(e[k - 1], k)
      <4>1. CASE k = n
        <5>1. n - 1 \in 0..(n - 1) /\ n # 0
          OBVIOUS
        <5> QED BY <3>2, <3>3, <4>1, <5>1
      <4>2. CASE k # n
        <5>1. k \in 0..(n - 1) /\ (k # 0 => k - 1 \in 0..(n - 1))
          BY <4>2
        <5> QED BY <3>2, <5>1
      <4> QED BY <4>1, <4>2
    <3>5. solves(e, n)
      BY <3>3, <3>4
    <3> HIDE DEF solves
    <3>6. \E x : solves(x, n)
      BY <3>5
    <3> QED BY <3>6
  <2>3. 0..m \subseteq T
    <3> HIDE DEF T
    <3> QED BY <2>1, <2>2, UpTo
  <2>4. m \in T
    <3> HIDE DEF T
    <3> QED BY <2>3
  <2> HIDE DEF solves
  <2> QED BY <2>4
<1>4. solves(after, m)
  <2> HIDE DEF solves
  <2> QED BY <1>3
<1> HIDE DEF after
<1>5. after[0] = conv /\ \A k \in 1..m : after[k] = step(after[k - 1], k)
  BY <1>4
<1> DEFINE T == {k \in 0..m : \E f2, a2 : Parsed(after[k], W, B, slot, i + k, f2, a2)}
<1>6. 0 \in T
  <2>1. i + 0 = i
    OBVIOUS
  <2> QED BY <1>5, <2>1
<1>7. ASSUME NEW k \in 1..m, k - 1 \in T PROVE k \in T
  <2>1. PICK f2, a2 : Parsed(after[k - 1], W, B, slot, i + (k - 1), f2, a2)
    BY <1>7
  <2>2. i + (k - 1) < Len(W) /\ (i + (k - 1)) + 1 = i + k
    <3>1. Len(W) \in Nat
      BY LenProperties DEF Framing
    <3> QED BY <3>1
  <2> DEFINE j == i + (k - 1)
  <2>3. \E f3, a3 : Parsed(processLine(after[k - 1], W[j + 1]), W, B, slot, j + 1, f3, a3)
    <3>1. Parsed(after[k - 1], W, B, slot, j, f2, a2) /\ j < Len(W)
      BY <2>1, <2>2
    <3> HIDE DEF j
    <3> QED BY <3>1, LineParsed
  <2>4. processLine(after[k - 1], W[j + 1]) = after[k] /\ j + 1 = i + k
    BY <1>1, <1>5, <2>2 DEF step
  <2> HIDE DEF j
  <2> QED BY <2>3, <2>4
<1>8. m \in T
  <2> HIDE DEF T
  <2>1. 0..m \subseteq T
    BY <1>6, <1>7, UpTo
  <2> QED BY <2>1
<1> QED BY <1>2, <1>8


\* A data event of the client: the parser takes the lines that are whole.
LEMMA ReceivedMatches ==
  ASSUME FrameInv, MatchInv, Received
  PROVE  MatchInv'
<1>1. SentTyped /\ client = "open" /\ UNCHANGED <<sent, client, server, handled>>
  BY DEF MatchInv, Received, upVars
<1>2. PICK W, B, slot, i, f, a : Exchange(W, B, slot, i, f, a)
  BY <1>1 DEF MatchInv
<1>3. PICK h, b, d, conv : h = Len(handled) /\ b = parser.buffer /\ d = down /\ conv = Conversing
  OBVIOUS
<1>4. /\ Framing(W, B, slot, h) /\ Wire(W, i, b, d) /\ Parsed(conv, W, B, slot, i, f, a)
      /\ server = "open" => NextSlot(slot[Len(W) + 1], h)
  BY <1>2, <1>3 DEF Exchange, Talk
<1>5. h \in Nat /\ h <= Len(sent)
  BY <1>3 DEF FrameInv, FrameTypes, HandledInv
<1>6. PICK n, next :
        /\ n \in 1..Len(d) /\ down' = SubSeq(d, n + 1, Len(d))
        /\ next = pump(conv, Delimited(b \o SubSeq(d, 1, n)).lines)
        /\ parser' = [buffer  |-> Delimited(b \o SubSeq(d, 1, n)).rest, parsing |-> next.parsing,
                      length  |-> next.length, items |-> next.items]
        /\ pending' = next.pending /\ answer' = next.answer
  BY <1>3 DEF Received, Conversing
<1>7. PICK text : text = b \o SubSeq(d, 1, n)
  OBVIOUS
<1>9. W \in Seq(Lines) /\ Len(W) \in Nat /\ i \in Nat
  <2>1. W \in Seq(Lines) /\ i \in 0..Len(W)
    BY <1>4 DEF Framing, Wire
  <2> QED BY <2>1, LenProperties
<1>10. PICK m \in Nat :
         /\ i + m \in 0..Len(W) /\ Delimited(text).lines = Cut(W, i, m)
         /\ Wire(W, i + m, Delimited(text).rest, SubSeq(d, n + 1, Len(d)))
  <2>1. n \in 1..Len(d)
    BY <1>6
  <2>2. Wire(W, i, b, d) /\ W \in Seq(Lines)
    BY <1>4, <1>9
  <2> QED BY <1>7, <2>1, <2>2, WireTaken
<1>11. PICK f2, a2 : Parsed(next, W, B, slot, i + m, f2, a2)
  <2>1. next = pump(conv, Cut(W, i, m)) /\ i + m <= Len(W)
    BY <1>6, <1>7, <1>9, <1>10
  <2>2. \E f2, a2 : Parsed(pump(conv, Cut(W, i, m)), W, B, slot, i + m, f2, a2)
    BY <1>1, <1>4, <1>5, <1>9, <1>10, <2>1, LinesParsed
  <2> QED BY <2>1, <2>2
<1>12. next \in Convs /\ Answers(next.answer)
  BY <1>11 DEF Parsed, Waiting
<1>13. Conversing' = next /\ parser'.buffer = Delimited(text).rest
  <2>1. /\ parser'.buffer = Delimited(text).rest /\ parser'.parsing = next.parsing
        /\ parser'.length = next.length /\ parser'.items = next.items
    BY <1>6, <1>7
  <2>2. next = [parsing |-> next.parsing, length |-> next.length, items |-> next.items,
                pending |-> next.pending, answer |-> next.answer]
    BY <1>12 DEF Convs
  <2> QED BY <1>6, <2>1, <2>2 DEF Conversing
<1>14. Exchange(W, B, slot, i + m, f2, a2)'
  <2>1. PICK b2, d2 : b2 = Delimited(text).rest /\ d2 = SubSeq(d, n + 1, Len(d))
    OBVIOUS
  <2>2. Wire(W, i + m, b2, d2)
    BY <1>10, <2>1
  <2>3. /\ sent' = sent /\ h = Len(handled') /\ b2 = parser'.buffer /\ d2 = down'
        /\ next = Conversing'
    BY <1>1, <1>3, <1>6, <1>13, <2>1
  <2>4. server' = "open" => NextSlot(slot[Len(W) + 1], h)
    BY <1>1, <1>4
  <2> QED BY <1>4, <1>11, <2>2, <2>3, <2>4, ExchangeNext
<1>15. Answers(answer)'
  <2>1. PICK x : x = answer'
    OBVIOUS
  <2>2. Answers(x)
    BY <1>6, <1>12, <2>1
  <2>3. Answers(x)'
    BY <1>1, <2>2, Unsent
  <2> QED BY <2>1, <2>3 DEF Answers
<1> QED BY <1>1, <1>14, <1>15 DEF MatchInv, SentTyped

-----------------------------------------------------------------------------
\* After h handled requests the wire still holds d and, while the server is open,
\* the next frame belongs to the next request.
Spoken(i, f, a, h, d) ==
  \E W2, B2, slot2 : /\ Talk(W2, B2, slot2, i, f, a, h, d)
                     /\ server' = "open" => NextSlot(slot2[Len(W2) + 1], h)

\* What a step of the server must show that leaves the client's side alone.
LEMMA ServerMatches ==
  ASSUME MatchInv, UNCHANGED <<sent, client, parser, pending, answer>>,
         NEW h, h = Len(handled'), NEW d, d = down',
         ASSUME NEW W, NEW B, NEW slot, NEW i, NEW f, NEW a, Exchange(W, B, slot, i, f, a)
         PROVE  Spoken(i, f, a, h, d)
  PROVE  MatchInv'
<1>1. Answers(answer)'
  <2>1. PICK x : x = answer
    OBVIOUS
  <2>2. Answers(x)'
    BY <2>1, Unsent DEF MatchInv
  <2> QED BY <2>1, <2>2 DEF Answers
<1>2. ASSUME client' = "open" PROVE \E W, B, slot, i, f, a : Exchange(W, B, slot, i, f, a)'
  <2>1. PICK W, B, slot, i, f, a : Exchange(W, B, slot, i, f, a)
    BY <1>2 DEF MatchInv
  <2>2. PICK W2, B2, slot2 :
          /\ Talk(W2, B2, slot2, i, f, a, h, d)
          /\ server' = "open" => NextSlot(slot2[Len(W2) + 1], h)
    BY <2>1 DEF Spoken
  <2>3. PICK b, conv : b = parser.buffer /\ conv = Conversing
    OBVIOUS
  <2>4. b = parser'.buffer /\ conv = Conversing'
    BY <2>3 DEF Conversing
  <2>5. Framing(W2, B2, slot2, h) /\ Wire(W2, i, b, d) /\ Parsed(conv, W2, B2, slot2, i, f, a)
    BY <2>2, <2>3 DEF Talk
  <2>6. Exchange(W2, B2, slot2, i, f, a)'
    BY <2>2, <2>4, <2>5, ExchangeNext
  <2> QED BY <2>6
<1> QED BY <1>1, <1>2 DEF MatchInv, SentTyped

\* A message that others publish is written between two replies.
LEMMA PublishedMatches ==
  ASSUME FrameInv, MatchInv, Published
  PROVE  MatchInv'
<1>1. PICK h, d : h = Len(handled') /\ d = down'
  OBVIOUS
<1>2. PICK d0 : d0 = down
  OBVIOUS
<1>3. /\ UNCHANGED <<sent, client, parser, pending, answer, handled, server>>
      /\ d = d0 \o Encoded(Push) /\ h = Len(handled) /\ h \in Nat /\ server = "open"
  BY <1>1, <1>2 DEF Published, upVars, FrameInv, FrameTypes
<1>4. ASSUME NEW W, NEW B, NEW slot, NEW i, NEW f, NEW a, Exchange(W, B, slot, i, f, a)
      PROVE  Spoken(i, f, a, h, d)
  <2>1. Talk(W, B, slot, i, f, a, h, d0) /\ NextSlot(slot[Len(W) + 1], h)
    BY <1>2, <1>3, <1>4 DEF Exchange
  <2>2. IsFrame(Push) /\ Dropped(Push)
    BY UnrequestedFrames
  <2>3. \E W2, B2, slot2 : /\ Talk(W2, B2, slot2, i, f, a, h, d0 \o Encoded(Push))
                           /\ slot2[Len(W2) + 1] = IF Dropped(Push) THEN slot[Len(W) + 1]
                                                   ELSE slot[Len(W) + 1] + 1
    BY <1>3, <2>1, <2>2, FrameWritten
  <2> QED BY <1>3, <2>1, <2>2, <2>3 DEF Spoken
<1>5. UNCHANGED <<sent, client, parser, pending, answer>> /\ h = Len(handled')
  BY <1>1, <1>3
<1> QED BY <1>1, <1>4, <1>5, ServerMatches

\* A line that is refused is answered with an error that nobody asked for: at least
\* two requests are not handled, and it resolves the first of them, unless the
\* replies are out of step already.
LEMMA RefuseMatches ==
  ASSUME FrameInv, MatchInv, server = "open", Refuse, Len(sent) - Len(handled) >= 2,
         UNCHANGED <<sent, client, parser, pending, answer>>
  PROVE  MatchInv'
<1>1. PICK h, d : h = Len(handled') /\ d = down'
  OBVIOUS
<1>2. PICK d0 : d0 = down
  OBVIOUS
<1>3. /\ d = d0 \o Encoded(TooLong) /\ h = Len(handled) /\ h \in Nat /\ server' # "open"
      /\ Len(sent) \in Nat /\ h + 1 \in 1..Len(sent)
  BY <1>1, <1>2 DEF Refuse, FrameInv, FrameTypes
<1>4. ASSUME NEW W, NEW B, NEW slot, NEW i, NEW f, NEW a, Exchange(W, B, slot, i, f, a)
      PROVE  Spoken(i, f, a, h, d)
  <2>1. Talk(W, B, slot, i, f, a, h, d0) /\ NextSlot(slot[Len(W) + 1], h)
    BY <1>2, <1>3, <1>4 DEF Exchange
  <2>2. IsFrame(TooLong) /\ Fits(TooLong, slot[Len(W) + 1], h)
    BY <1>3, <2>1, UnrequestedFrames DEF NextSlot, Fits
  <2>3. \E W2, B2, slot2 : /\ Talk(W2, B2, slot2, i, f, a, h, d0 \o Encoded(TooLong))
                           /\ slot2[Len(W2) + 1] = IF Dropped(TooLong) THEN slot[Len(W) + 1]
                                                   ELSE slot[Len(W) + 1] + 1
    BY <1>3, <2>1, <2>2, FrameWritten
  <2> QED BY <1>3, <2>3 DEF Spoken
<1> QED BY <1>1, <1>4, ServerMatches

\* A step that writes nothing.
LEMMA SilentMatches ==
  ASSUME MatchInv, UNCHANGED <<sent, client, parser, pending, answer, handled, down>>,
         server' = "open" => server = "open"
  PROVE  MatchInv'
<1>1. PICK h, d : h = Len(handled) /\ d = down
  OBVIOUS
<1>2. h = Len(handled') /\ d = down'
  BY <1>1
<1>3. ASSUME NEW W, NEW B, NEW slot, NEW i, NEW f, NEW a, Exchange(W, B, slot, i, f, a)
      PROVE  Spoken(i, f, a, h, d)
  <2>1. Talk(W, B, slot, i, f, a, h, d) /\ (server = "open" => NextSlot(slot[Len(W) + 1], h))
    BY <1>1, <1>3 DEF Exchange
  <2> QED BY <2>1 DEF Spoken
<1> QED BY <1>2, <1>3, ServerMatches

\* The end of the connection on the client's side.
LEMMA DestroyMatches ==
  ASSUME MatchInv, UNCHANGED <<sent, answer>>, client' # "open"
  PROVE  MatchInv'
<1>1. PICK x : x = answer
  OBVIOUS
<1>2. Answers(x)'
  BY <1>1, Unsent DEF MatchInv
<1> QED BY <1>1, <1>2 DEF MatchInv, SentTyped, Answers

\* Whoever waits is told that the connection is closed.
LEMMA CloseMatches ==
  ASSUME MatchInv, CloseEvent
  PROVE  MatchInv'
<1>1. /\ sent' = sent /\ client' = "closed"
      /\ answer' = [r \in DOMAIN answer |-> IF r \in ToSet(pending) THEN ConnectionClosed ELSE answer[r]]
  BY DEF CloseEvent
<1>2. PICK n \in Nat : n = Len(sent) /\ n = Len(answer) /\ DOMAIN answer = 1..n
  BY LenProperties DEF MatchInv, Answers, SentTyped
<1>3. ConnectionClosed \in Seq(Lines)
  <2>1. "-" \in LinePrefixes /\ "Connection closed" \in Words \cup Nat /\ 0 \in Nat
    BY DEF LinePrefixes, Words
  <2> DEFINE line == Line("-", 0, "Connection closed")
  <2>2. line \in Lines
    BY <2>1, LineTyped
  <2> HIDE DEF line
  <2>3. <<line>> \in Seq(Lines)
    BY <2>2
  <2> QED BY <2>3 DEF ConnectionClosed, line
<1>4. PICK told : told = ToSet(pending)
  OBVIOUS
<1>5. PICK old : old = answer
  OBVIOUS
<1> DEFINE x == [r \in 1..n |-> IF r \in told THEN ConnectionClosed ELSE old[r]]
<1>6. old \in Seq(Seq(Lines)) /\ Len(old) = n /\ \A r \in 1..n : Sound(old[r], r)
  BY <1>2, <1>5 DEF MatchInv, Answers
<1>7. x \in Seq(Seq(Lines)) /\ Len(x) = n
  <2>1. \A r \in 1..n : old[r] \in Seq(Lines)
    BY <1>6, ElementOfSeq
  <2>2. x \in [1..n -> Seq(Lines)]
    BY <1>3, <2>1
  <2> HIDE DEF x
  <2>3. x \in Seq(Seq(Lines))
    BY <2>2, SeqDef
  <2>4. DOMAIN x = 1..n /\ DOMAIN x = 1..Len(x) /\ Len(x) \in Nat
    BY <2>2, <2>3, LenProperties
  <2> QED BY <2>3, <2>4
<1>8. ASSUME NEW r \in 1..n PROVE Sound(x[r], r)
  <2>1. x[r] = ConnectionClosed \/ x[r] = old[r]
    OBVIOUS
  <2> HIDE DEF x
  <2>2. CASE x[r] = ConnectionClosed
    BY <2>2 DEF Sound
  <2>3. CASE x[r] = old[r]
    BY <1>6, <2>3
  <2> QED BY <2>1, <2>2, <2>3
<1>9. answer' = x
  BY <1>1, <1>2, <1>4, <1>5
<1> HIDE DEF x
<1>10. Answers(x)
  BY <1>2, <1>7, <1>8 DEF Answers
<1>11. Answers(x)'
  BY <1>1, <1>10, Unsent
<1>12. Answers(answer)'
  BY <1>9, <1>11 DEF Answers
<1> QED BY <1>1, <1>12 DEF MatchInv, SentTyped


\* Requests tell their lines apart.
LEMMA BodyInjective == \A p, q \in Nat : Body(p) = Body(q) => p = q
<1> TAKE p, q \in Nat
<1>1. Body(p)[1][2] = p /\ Body(q)[1][2] = q
  BY DEF Body
<1> QED BY <1>1

\* A data event of the server within the limit: the reply of each whole request is
\* written, in order.
LEMMA AcceptMatches ==
  ASSUME FrameInv, MatchInv, server = "open", NEW n, NEW text, Taken(n, text), NEW chunk,
         Accept(chunk, text), UNCHANGED <<sent, client, parser, pending, answer>>
  PROVE  MatchInv'
<1>1. PICK w \in Nat : Continues(Len(handled), w)
  BY DEF FrameInv, StreamInv
<1>2. PICK h \in Nat, t \in Nat, m \in Nat : h = Len(handled) /\ t = Len(text) /\ m = t \div 4
  <2>1. Len(text) \in Nat
    BY <1>1, TakenFacts, LenProperties
  <2>2. Len(text) \div 4 \in Nat
    BY <2>1
  <2> QED BY <2>1, <2>2 DEF FrameInv, FrameTypes
<1> DEFINE lines == [k \in 1..m |-> Body(h + k)]
<1>3. NonBlank(Framed(text).lines) = lines
  <2>1. /\ text \in Seq(Symbols) /\ h \in Nat /\ m \in Nat /\ m = Len(text) \div 4
        /\ \A i \in 1..Len(text) : text[i] = Symbol(4 * h + i)
    BY <1>1, <1>2, TakenFacts
  <2> QED BY <2>1, CutLines
<1>4. /\ Len(lines) = m /\ \A k \in 1..m : lines[k] = Body(h + k)
      /\ Len(handled') = h + m
  <2> DEFINE Bodies == {Body(r) : r \in Nat}
             first == [i \in 1..h |-> Body(i)]
  <2>1. handled = first /\ handled' = handled \o lines
    BY <1>2, <1>3 DEF FrameInv, HandledInv, Accept
  <2>2. \A k \in 1..m : lines[k] = Body(h + k)
    OBVIOUS
  <2>3. first \in [1..h -> Bodies] /\ lines \in [1..m -> Bodies]
    OBVIOUS
  <2> HIDE DEF first, lines, Bodies
  <2>4. first \in Seq(Bodies) /\ lines \in Seq(Bodies)
    BY <2>3, SeqDef
  <2>5. Len(first) = h /\ Len(lines) = m
    BY <2>3, <2>4, LenProperties
  <2>6. Len(first \o lines) = h + m
    BY <2>4, <2>5, ConcatProperties
  <2> QED BY <2>1, <2>2, <2>5, <2>6
<1> HIDE DEF lines
<1>5. h + m <= Len(sent) /\ Len(sent) \in Nat /\ DOMAIN sent = 1..Len(sent) /\ SentTyped
  <2>1. FrameInv'
    BY AcceptFrames
  <2>2. Len(handled') <= Len(sent')
    BY <2>1 DEF FrameInv, HandledInv
  <2> QED BY <1>4, <2>2, LenProperties DEF MatchInv, SentTyped
<1> DEFINE reply(l) == IF \E r \in DOMAIN sent : l = Body(r)
                       THEN Reply(CHOOSE r \in DOMAIN sent : l = Body(r))
                       ELSE <<Line("-", 0, "unknown command")>>
<1>6. ASSUME NEW k \in 1..m PROVE reply(lines[k]) = Reply(h + k)
  <2>1. h + k \in DOMAIN sent /\ lines[k] = Body(h + k)
    BY <1>4, <1>5
  <2>2. \A r \in DOMAIN sent : lines[k] = Body(r) => r = h + k
    <3>1. \A r \in DOMAIN sent : r \in Nat
      BY <1>5
    <3>2. h + k \in Nat
      OBVIOUS
    <3> QED BY <2>1, <3>1, <3>2, BodyInjective
  <2>3. (CHOOSE r \in DOMAIN sent : lines[k] = Body(r)) = h + k
    BY <2>1, <2>2
  <2> QED BY <2>1, <2>3
<1>7. PICK d0 : d0 = down
  OBVIOUS
<1> DEFINE step(x, k) == x \o Encoded(reply(lines[k]))
           solves(g, u) == g = [k \in 0..u |-> IF k = 0 THEN d0 ELSE step(g[k - 1], k)]
           written == CHOOSE g : solves(g, m)
<1>8. down' = written[m]
  BY <1>3, <1>4, <1>7, ZenonT(40) DEF Accept
<1>9. \A x : \A k \in 1..m : step(x, k) = x \o Encoded(Reply(h + k))
  <2> HIDE DEF reply
  <2> QED BY <1>6
<1> HIDE DEF step, reply
<1>10. \E g : solves(g, m)
  <2> DEFINE T == {u \in 0..m : \E g : solves(g, u)}
  <2>1. 0 \in T
    <3> DEFINE g == [k \in 0..0 |-> d0]
    <3>1. solves(g, 0)
      OBVIOUS
    <3> HIDE DEF g, solves
    <3>2. \E x : solves(x, 0)
      BY <3>1
    <3> QED BY <3>2
  <2>2. ASSUME NEW u \in 1..m, u - 1 \in T PROVE u \in T
    <3>1. PICK g : solves(g, u - 1)
      BY <2>2
    <3> DEFINE e == [k \in 0..u |-> IF k = u THEN step(g[u - 1], u) ELSE g[k]]
    <3>2. \A k \in 0..(u - 1) : e[k] = g[k] /\ g[k] = IF k = 0 THEN d0 ELSE step(g[k - 1], k)
      <4>1. \A k \in 0..(u - 1) : k \in 0..u /\ k # u
        OBVIOUS
      <4> QED BY <3>1, <4>1
    <3>3. e[u] = step(g[u - 1], u) /\ e = [k \in 0..u |-> e[k]]
      OBVIOUS
    <3> HIDE DEF e
    <3>4. ASSUME NEW k \in 0..u PROVE e[k] = IF k = 0 THEN d0 ELSE step(e[k - 1], k)
      <4>1. CASE k = u
        <5>1. u - 1 \in 0..(u - 1) /\ u # 0
          OBVIOUS
        <5> QED BY <3>2, <3>3, <4>1, <5>1
      <4>2. CASE k # u
        <5>1. k \in 0..(u - 1) /\ (k # 0 => k - 1 \in 0..(u - 1))
          BY <4>2
        <5> QED BY <3>2, <5>1
      <4> QED BY <4>1, <4>2
    <3>5. solves(e, u)
      BY <3>3, <3>4
    <3> HIDE DEF solves
    <3>6. \E x : solves(x, u)
      BY <3>5
    <3> QED BY <3>6
  <2>3. 0..m \subseteq T
    <3> HIDE DEF T
    <3> QED BY <2>1, <2>2, UpTo
  <2>4. m \in T
    <3> HIDE DEF T
    <3> QED BY <2>3
  <2> HIDE DEF solves
  <2> QED BY <2>4
<1>11. solves(written, m)
  <2> HIDE DEF solves
  <2> QED BY <1>10
<1> HIDE DEF written
<1>12. written[0] = d0 /\ \A k \in 1..m : written[k] = step(written[k - 1], k)
  BY <1>11
<1>13. \A k \in 1..m : written[k] = written[k - 1] \o Encoded(Reply(h + k))
  BY <1>9, <1>12
<1>14. ASSUME NEW W, NEW B, NEW slot, NEW i, NEW f, NEW a, Exchange(W, B, slot, i, f, a)
       PROVE  \E W2, B2, slot2 : /\ Talk(W2, B2, slot2, i, f, a, h + m, written[m])
                                 /\ server' = "open" => NextSlot(slot2[Len(W2) + 1], h + m)
  <2> DEFINE T == {k \in 0..m : \E W2, B2, slot2 : Ready(W2, B2, slot2, i, f, a, h + k, written[k])}
  <2>1. 0 \in T
    <3>1. Ready(W, B, slot, i, f, a, h, d0)
      BY <1>2, <1>7, <1>14 DEF Exchange, Ready
    <3>2. h + 0 = h
      OBVIOUS
    <3> QED BY <1>12, <3>1, <3>2
  <2>2. ASSUME NEW k \in 1..m, k - 1 \in T PROVE k \in T
    <3>1. PICK W2, B2, slot2 : Ready(W2, B2, slot2, i, f, a, h + (k - 1), written[k - 1])
      BY <2>2
    <3> DEFINE p == h + (k - 1)
    <3>2. p \in Nat /\ p + 1 = h + k /\ p + 1 <= Len(sent)
      BY <1>5
    <3>3. Ready(W2, B2, slot2, i, f, a, p, written[k - 1])
      BY <3>1
    <3> HIDE DEF p
    <3>4. PICK W3, B3, slot3 :
            Ready(W3, B3, slot3, i, f, a, p + 1, written[k - 1] \o Encoded(Reply(p + 1)))
      BY <1>5, <3>2, <3>3, ReplyWritten
    <3>5. written[k - 1] \o Encoded(Reply(p + 1)) = written[k]
      <4>1. written[k] = written[k - 1] \o Encoded(Reply(h + k))
        BY <1>13
      <4> QED BY <3>2, <4>1
    <3>6. Ready(W3, B3, slot3, i, f, a, h + k, written[k])
      BY <3>2, <3>4, <3>5
    <3>7. \E W4, B4, slot4 : Ready(W4, B4, slot4, i, f, a, h + k, written[k])
      BY <3>6
    <3> QED BY <3>7
  <2>3. m \in T
    <3> HIDE DEF T
    <3>1. 0..m \subseteq T
      BY <2>1, <2>2, UpTo
    <3> QED BY <3>1
  <2> QED BY <2>3 DEF Ready
<1>15. PICK h2, d : h2 = Len(handled') /\ d = down'
  OBVIOUS
<1>16. ASSUME NEW W, NEW B, NEW slot, NEW i, NEW f, NEW a, Exchange(W, B, slot, i, f, a)
       PROVE  Spoken(i, f, a, h2, d)
  <2>1. h2 = h + m /\ d = written[m]
    BY <1>4, <1>8, <1>15
  <2>2. Spoken(i, f, a, h + m, written[m])
    BY <1>14, <1>16 DEF Spoken
  <2> QED BY <2>1, <2>2
<1> QED BY <1>15, <1>16, ServerMatches

-----------------------------------------------------------------------------
\* Every step keeps the invariant of the answers.
LEMMA MatchStep ==
  ASSUME FrameInv, MatchInv, [Next]_vars
  PROVE  MatchInv'
<1>1. CASE \E kind \in Kinds : Send(kind)
  BY <1>1, SendMatches
<1>2. CASE Data
  <2>1. PICK n \in 1..Len(up) :
          /\ up' = SubSeq(up, n + 1, Len(up))
          /\ IF Len(buffer \o SubSeq(up, 1, n)) > MaxLine THEN Refuse
             ELSE Accept(SubSeq(up, 1, n), buffer \o SubSeq(up, 1, n))
    BY <1>2 DEF Data
  <2> DEFINE chunk == SubSeq(up, 1, n)
             text  == buffer \o chunk
  <2>2. /\ Taken(n, text) /\ server = "open"
        /\ UNCHANGED <<sent, client, parser, pending, answer>>
    BY <1>2, <2>1 DEF Taken, Data
  <2>3. Refuse \/ Accept(chunk, text)
    BY <2>1
  <2> HIDE DEF chunk, text
  <2>4. CASE Accept(chunk, text)
    BY <2>2, <2>4, AcceptMatches
  <2>5. CASE Refuse
    <3>1. Len(sent) - Len(handled) >= 2
      BY <2>2, <2>5, FrameStep DEF Refuse
    <3> QED BY <2>2, <2>5, <3>1, RefuseMatches
  <2> QED BY <2>3, <2>4, <2>5
<1>3. CASE Published
  BY <1>3, PublishedMatches
<1>4. CASE ServerEnds \/ UNCHANGED vars
  <2>1. /\ UNCHANGED <<sent, client, parser, pending, answer, handled, down>>
        /\ server' = "open" => server = "open"
    BY <1>4 DEF ServerEnds, vars, upVars, downVars
  <2> QED BY <2>1, SilentMatches
<1>5. CASE Received
  BY <1>5, ReceivedMatches
<1>6. CASE Destroy \/ EndSeen
  <2>1. UNCHANGED <<sent, answer>> /\ client' # "open"
    BY <1>6 DEF Destroy, EndSeen, downVars
  <2> QED BY <2>1, DestroyMatches
<1>7. CASE CloseEvent
  BY <1>7, CloseMatches
<1> QED BY <1>1, <1>2, <1>3, <1>4, <1>5, <1>6, <1>7 DEF Next

\* The invariant of the answers holds in every behaviour.
THEOREM MatchInvariant == Spec => []MatchInv
<1>1. FrameInv /\ MatchInv /\ [Next]_vars => MatchInv'
  BY MatchStep
<1> QED BY <1>1, MatchInit, FrameInvariant, PTL DEF Spec

\* However both streams are cut into chunks, and whatever others publish: every
\* answer of Client.ts is one whole reply, to the request or to a later one unless
\* an EXEC has nested a list, and to the request itself as long as the requests up
\* to it are of the regular kinds.
THEOREM AnswersMatchHolds == Spec => []AnswersMatch
<1>1. MatchInv => AnswersMatch
  <2> SUFFICES ASSUME MatchInv PROVE AnswersMatch
    OBVIOUS
  <2>1. DOMAIN answer = 1..Len(sent) /\ \A r \in 1..Len(sent) : Sound(answer[r], r)
    BY LenProperties DEF MatchInv, Answers
  <2> QED BY <2>1 DEF Sound, AnswersMatch
<1> QED BY <1>1, MatchInvariant, PTL
=============================================================================
