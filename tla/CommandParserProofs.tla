-------------------------- MODULE CommandParserProofs --------------------------
(***************************************************************************)
(* Theorems about CommandParser: for every line, of whatever tokens and    *)
(* however long, the parser accepts just what the grammar of the command   *)
(* reference allows, and a command that it accepts can be written as a     *)
(* line again that means the same.  For the first, one lemma per form of   *)
(* usage says what it is to fit it, one per group of commands that the     *)
(* parser asks for just that.  For the second, an accepted line without    *)
(* numbers is rendered as itself but for its name, and lines that are      *)
(* alike are parsed alike; a number is rendered as some token of the same  *)
(* value, of which the parser makes the same number again.                 *)
(***************************************************************************)
EXTENDS CommandParser, SequenceTheorems, TLAPS

-----------------------------------------------------------------------------
(***************************************************************************)
(* The usages.                                                             *)
(***************************************************************************)
\* A usage without repetition is fitted by as many arguments, each of its kind.
LEMMA FitsFixed ==
  ASSUME NEW args, Len(args) \in Nat, DOMAIN args = 1..Len(args),
         NEW must, Len(must) \in Nat
  PROVE  Fits(args, [must |-> must, more |-> <<>>]) <=>
           Len(args) = Len(must) /\ \A i \in 1..Len(args) : IsA(args[i], must[i])
<1> DEFINE usage == [must |-> must, more |-> <<>>]
<1>1. Len(usage.more) = 0 /\ usage.must = must
  BY EmptySeq
<1>2. \A i \in 1..Len(args) : i <= Len(must) => Kinds(usage, Len(args))[i] = must[i]
  BY <1>1 DEF Kinds
<1> HIDE DEF usage
<1>3. Fits(args, usage) <=>
        Len(args) = Len(must) /\ \A i \in 1..Len(args) : IsA(args[i], Kinds(usage, Len(args))[i])
  BY <1>1 DEF Fits
<1> QED BY <1>2, <1>3 DEF usage

\* must is m times any argument.
AnyTimes(m, must) == Len(must) = m /\ \A i \in 1..m : must[i] = "any"

LEMMA Anys ==
  /\ AnyTimes(0, <<>>) /\ AnyTimes(1, <<"any">>)
  /\ AnyTimes(2, <<"any", "any">>) /\ AnyTimes(3, <<"any", "any", "any">>)
<1>1. /\ Len(<<"any">>) = 1 /\ <<"any">>[1] = "any"
      /\ Len(<<"any", "any">>) = 2 /\ <<"any", "any">>[1] = "any" /\ <<"any", "any">>[2] = "any"
  OBVIOUS
<1>2. /\ Len(<<"any", "any", "any">>) = 3 /\ <<"any", "any", "any">>[1] = "any"
      /\ <<"any", "any", "any">>[2] = "any" /\ <<"any", "any", "any">>[3] = "any"
  OBVIOUS
<1>3. /\ \A i \in 1..1 : i = 1
      /\ \A i \in 1..2 : i = 1 \/ i = 2
      /\ \A i \in 1..3 : i = 1 \/ i = 2 \/ i = 3
  OBVIOUS
<1>4. AnyTimes(0, <<>>)
  BY DEF AnyTimes
<1>5. AnyTimes(1, <<"any">>)
  BY <1>1, <1>3 DEF AnyTimes
<1>6. AnyTimes(2, <<"any", "any">>)
  BY <1>1, <1>3 DEF AnyTimes
<1>7. AnyTimes(3, <<"any", "any", "any">>)
  BY <1>2, <1>3 DEF AnyTimes
<1> QED BY <1>4, <1>5, <1>6, <1>7

\* So many arguments of any kind, and no more.
LEMMA FitsAnyFixed ==
  ASSUME NEW args, Len(args) \in Nat, DOMAIN args = 1..Len(args),
         NEW m \in Nat, NEW must, AnyTimes(m, must)
  PROVE  Fits(args, [must |-> must, more |-> <<>>]) <=> Len(args) = m
<1>1. \A t : IsA(t, "any")
  BY DEF IsA
<1>2. Len(must) = m /\ \A i \in 1..m : must[i] = "any"
  BY DEF AnyTimes
<1> QED BY <1>1, <1>2, FitsFixed

\* A usage of any arguments is fitted by as many, and by so many repetitions.
LEMMA FitsAny ==
  ASSUME NEW args, Len(args) \in Nat, DOMAIN args = 1..Len(args),
         NEW m \in Nat, NEW must, AnyTimes(m, must),
         NEW r \in Nat \ {0}, NEW more, AnyTimes(r, more)
  PROVE  Fits(args, [must |-> must, more |-> more]) <=>
           Len(args) >= m /\ (Len(args) - m) % r = 0
<1> DEFINE usage == [must |-> must, more |-> more]
           n == Len(args)
<1>1. /\ usage.must = must /\ Len(must) = m /\ \A i \in 1..m : must[i] = "any"
      /\ usage.more = more /\ Len(more) = r /\ \A i \in 1..r : more[i] = "any"
  BY DEF AnyTimes
<1> HIDE DEF usage
<1>2. \A i \in 1..n : Kinds(usage, n)[i] = "any"
  <2> TAKE i \in 1..n
  <2>1. Kinds(usage, n)[i] = IF i <= m THEN must[i] ELSE more[((i - m - 1) % r) + 1]
    BY <1>1 DEF Kinds
  <2>2. ((i - m - 1) % r) + 1 \in 1..r
    <3> DEFINE a == i - m - 1
    <3>1. a \in Int
      OBVIOUS
    <3> HIDE DEF a
    <3>2. a % r \in 0..(r - 1)
      BY <3>1
    <3>3. (a % r) + 1 \in 1..r
      BY <3>1, <3>2
    <3> QED BY <3>3 DEF a
  <2>3. i <= m => i \in 1..m
    OBVIOUS
  <2> QED BY <1>1, <2>1, <2>2, <2>3
<1>3. \A t : IsA(t, "any")
  BY DEF IsA
<1>4. Fits(args, usage) <=>
        /\ n >= m /\ (n - m) % r = 0
        /\ \A i \in 1..n : IsA(args[i], Kinds(usage, n)[i])
  BY <1>1 DEF Fits
<1> QED BY <1>2, <1>3, <1>4 DEF usage

-----------------------------------------------------------------------------
(***************************************************************************)
(* The commands.                                                           *)
(***************************************************************************)
\* A line that is not empty: its name, its length and its arguments.
Line(tokens, name, n, args) ==
  /\ tokens \in Seq(Tokens) /\ tokens # <<>>
  /\ name = toUpperCase(tokens[1])
  /\ n = Len(tokens) /\ args = Tail(tokens)

\* The parser and the grammar agree on it.
Agree(tokens, name, args) ==
  parseCommand(tokens).ok <=> \E usage \in Usage(name) : Fits(args, usage)

LEMMA LineFacts ==
  ASSUME NEW tokens, NEW name, NEW n, NEW args, Line(tokens, name, n, args)
  PROVE  /\ n \in Nat \ {0} /\ Len(args) = n - 1 /\ DOMAIN args = 1..Len(args)
         /\ \A i \in 1..(n - 1) : args[i] = tokens[i + 1]
<1>1. tokens \in Seq(Tokens) /\ tokens # <<>>
  BY DEF Line
<1>2. n \in Nat /\ n # 0 /\ n = Len(tokens)
  BY <1>1, LenProperties, EmptySeq DEF Line
<1>3. args = Tail(tokens) /\ Tail(tokens) \in Seq(Tokens) /\ Len(Tail(tokens)) = Len(tokens) - 1
  BY <1>1, HeadTailProperties DEF Line
<1>4. \A i \in 1..Len(args) : args[i] = tokens[i + 1]
  BY <1>1, <1>3, HeadTailProperties
<1>5. DOMAIN args = 1..Len(args)
  BY <1>3, LenProperties
<1> QED BY <1>2, <1>3, <1>4, <1>5

LEMMA ArityAlone ==
  ASSUME NEW fits \in BOOLEAN, NEW command
  PROVE  IfArity(fits, command).ok <=> fits
BY DEF IfArity, ok, err

\* Commands with a fixed number of arguments of any kind.
LEMMA FixedAgree ==
  ASSUME NEW tokens, NEW name, NEW n, NEW args, Line(tokens, name, n, args),
         name \in KeyCommands \cup BareCommands \cup {"KEYS", "AUTH", "HGET", "PUBLISH"}
  PROVE  Agree(tokens, name, args)
<1>1. n \in Nat \ {0} /\ Len(args) = n - 1 /\ DOMAIN args = 1..Len(args)
  BY LineFacts
<1>3. tokens # <<>> /\ name = toUpperCase(tokens[1]) /\ n = Len(tokens)
  BY DEF Line
<1>4. CASE name \in KeyCommands \cup {"KEYS", "AUTH"}
  <2>1. parseCommand(tokens).ok <=> n = 2
    BY <1>1, <1>3, <1>4, ArityAlone DEF parseCommand, KeyCommands, BareCommands
  <2>2. Usage(name) = {[must |-> <<"any">>, more |-> <<>>]}
    BY <1>4 DEF Usage, KeyCommands, BareCommands
  <2>3. Fits(args, [must |-> <<"any">>, more |-> <<>>]) <=> Len(args) = 1
    BY <1>1, Anys, FitsAnyFixed
  <2> QED BY <1>1, <2>1, <2>2, <2>3 DEF Agree
<1>5. CASE name \in BareCommands
  <2>1. parseCommand(tokens).ok <=> n = 1
    BY <1>1, <1>3, <1>5, ArityAlone DEF parseCommand, KeyCommands, BareCommands
  <2>2. Usage(name) = {[must |-> <<>>, more |-> <<>>]}
    BY <1>5 DEF Usage, KeyCommands, BareCommands
  <2>3. Fits(args, [must |-> <<>>, more |-> <<>>]) <=> Len(args) = 0
    BY <1>1, Anys, FitsAnyFixed
  <2> QED BY <1>1, <2>1, <2>2, <2>3 DEF Agree
<1>6. CASE name \in {"HGET", "PUBLISH"}
  <2>1. parseCommand(tokens).ok <=> n = 3
    BY <1>1, <1>3, <1>6, ArityAlone DEF parseCommand, KeyCommands, BareCommands
  <2> DEFINE must == <<"any", "any">>
  <2>2. Usage(name) = {[must |-> must, more |-> <<>>]}
    BY <1>6 DEF Usage, KeyCommands, BareCommands
  <2>4. AnyTimes(2, must)
    BY Anys
  <2> HIDE DEF must
  <2>3. Fits(args, [must |-> must, more |-> <<>>]) <=> Len(args) = 2
    BY <1>1, <2>4, FitsAnyFixed
  <2> QED BY <1>1, <2>1, <2>2, <2>3 DEF Agree
<1> QED BY <1>4, <1>5, <1>6

\* Commands with so many arguments or more.
LEMMA RepeatedAgree ==
  ASSUME NEW tokens, NEW name, NEW n, NEW args, Line(tokens, name, n, args),
         name \in {"LPUSH", "RPUSH", "HDEL", "HSET", "SUBSCRIBE", "UNSUBSCRIBE"}
  PROVE  Agree(tokens, name, args)
<1>1. n \in Nat \ {0} /\ Len(args) = n - 1 /\ DOMAIN args = 1..Len(args)
  BY LineFacts
<1>2. tokens # <<>> /\ name = toUpperCase(tokens[1]) /\ n = Len(tokens) /\ tokens \in Seq(Tokens)
  BY DEF Line
<1>3. CASE name \in {"LPUSH", "RPUSH", "HDEL"}
  <2>1. parseCommand(tokens).ok <=> n >= 3
    <3>1. CASE name \in {"LPUSH", "RPUSH"}
      <4>1. parseCommand(tokens) = parsePush(name, tokens)
        BY <1>2, <3>1 DEF parseCommand, KeyCommands, BareCommands
      <4> QED BY <1>1, <1>2, <4>1 DEF parsePush, IfArity, ok, err
    <3>2. CASE name = "HDEL"
      <4>1. parseCommand(tokens) = parseHdel(tokens)
        BY <1>2, <3>2 DEF parseCommand, KeyCommands, BareCommands
      <4> QED BY <1>1, <1>2, <4>1 DEF parseHdel, IfArity, ok, err
    <3> QED BY <1>3, <3>1, <3>2
  <2> DEFINE must == <<"any", "any">>
             more == <<"any">>
  <2>2. Usage(name) = {[must |-> must, more |-> more]}
    BY <1>3 DEF Usage, KeyCommands, BareCommands
  <2>3. AnyTimes(2, must) /\ AnyTimes(1, more)
    BY Anys
  <2> HIDE DEF must, more
  <2>4. Fits(args, [must |-> must, more |-> more]) <=> Len(args) >= 2 /\ (Len(args) - 2) % 1 = 0
    BY <1>1, <2>3, FitsAny
  <2>5. ((n - 1) - 2) % 1 = 0 /\ (n - 1 >= 2 <=> n >= 3)
    BY <1>1
  <2> QED BY <1>1, <2>1, <2>2, <2>4, <2>5 DEF Agree
<1>4. CASE name = "HSET"
  <2> DEFINE rest == SubSeq(tokens, 3, Len(tokens))
  <2>1. Len(rest) = IF n >= 3 THEN n - 2 ELSE 0
    <3>1. CASE n >= 3
      BY <1>1, <1>2, <3>1, SubSeqProperties
    <3>2. CASE n < 3
      <4>1. rest = <<>>
        BY <1>1, <1>2, <3>2, SubSeqEmpty
      <4>2. Len(rest) = 0
        BY <4>1, EmptySeq
      <4>3. ~(n >= 3)
        BY <1>1, <3>2
      <4> HIDE DEF rest
      <4> QED BY <4>2, <4>3
    <3> QED BY <1>1, <3>1, <3>2
  <2> HIDE DEF rest
  <2>2. parseCommand(tokens) =
          IfArity(Len(rest) >= 2 /\ Len(rest) % 2 = 0,
                  [name |-> "HSET", key |-> tokens[2], pairs |-> Pairs(rest)])
    BY <1>2, <1>4 DEF parseCommand, parseHset, KeyCommands, BareCommands, rest
  <2>3. parseCommand(tokens).ok <=> Len(rest) >= 2 /\ Len(rest) % 2 = 0
    BY <2>2, ArityAlone
  <2> DEFINE must == <<"any", "any", "any">>
             more == <<"any", "any">>
  <2>4. Usage(name) = {[must |-> must, more |-> more]}
    BY <1>4 DEF Usage, KeyCommands, BareCommands
  <2>8. AnyTimes(3, must) /\ AnyTimes(2, more)
    BY Anys
  <2> HIDE DEF must, more
  <2>5. Fits(args, [must |-> must, more |-> more]) <=> Len(args) >= 3 /\ (Len(args) - 3) % 2 = 0
    BY <1>1, <2>8, FitsAny
  <2>6. n >= 4 => ((n - 2) % 2 = 0 <=> ((n - 1) - 3) % 2 = 0)
    BY <1>1
  <2>7. (Len(rest) >= 2 /\ Len(rest) % 2 = 0) <=> (n - 1 >= 3 /\ ((n - 1) - 3) % 2 = 0)
    BY <1>1, <2>1, <2>6
  <2> QED BY <1>1, <2>3, <2>4, <2>5, <2>7 DEF Agree
<1>5. CASE name \in {"SUBSCRIBE", "UNSUBSCRIBE"}
  <2>1. parseCommand(tokens).ok <=> name = "UNSUBSCRIBE" \/ n >= 2
    BY <1>1, <1>2, <1>5, ArityAlone DEF parseCommand, parseChannels, KeyCommands, BareCommands
  <2> DEFINE none == <<>>
             one  == <<"any">>
  <2>2. AnyTimes(0, none) /\ AnyTimes(1, one)
    BY Anys
  <2>3. CASE name = "SUBSCRIBE"
    <3>1. Usage(name) = {[must |-> one, more |-> one]}
      BY <2>3 DEF Usage, KeyCommands, BareCommands
    <3> HIDE DEF one
    <3>2. Fits(args, [must |-> one, more |-> one]) <=> Len(args) >= 1 /\ (Len(args) - 1) % 1 = 0
      BY <1>1, <2>2, FitsAny
    <3>3. ((n - 1) - 1) % 1 = 0 /\ (n - 1 >= 1 <=> n >= 2)
      BY <1>1
    <3> QED BY <1>1, <2>1, <2>3, <3>1, <3>2, <3>3 DEF Agree
  <2>4. CASE name = "UNSUBSCRIBE"
    <3>1. Usage(name) = {[must |-> none, more |-> one]}
      BY <2>4 DEF Usage, KeyCommands, BareCommands
    <3> HIDE DEF none, one
    <3>2. Fits(args, [must |-> none, more |-> one]) <=> Len(args) >= 0 /\ (Len(args) - 0) % 1 = 0
      BY <1>1, <2>2, FitsAny
    <3>3. ((n - 1) - 0) % 1 = 0 /\ n - 1 >= 0
      BY <1>1
    <3> QED BY <1>1, <2>1, <2>4, <3>1, <3>2, <3>3 DEF Agree
  <2> QED BY <1>5, <2>3, <2>4
<1> QED BY <1>3, <1>4, <1>5

\* Commands that look at their arguments.
LEMMA CheckedAgree ==
  ASSUME NEW tokens, NEW name, NEW n, NEW args, Line(tokens, name, n, args),
         name \in {"SET", "EXPIRE", "LRANGE"}
  PROVE  Agree(tokens, name, args)
<1>1. /\ n \in Nat \ {0} /\ Len(args) = n - 1 /\ DOMAIN args = 1..Len(args)
      /\ \A i \in 1..(n - 1) : args[i] = tokens[i + 1]
  BY LineFacts
<1>2. tokens # <<>> /\ name = toUpperCase(tokens[1]) /\ n = Len(tokens)
  BY DEF Line
<1>3. \A t : /\ IsA(t, "any")
             /\ IsA(t, "EX") <=> toUpperCase(t) = "EX"
             /\ IsA(t, "seconds") <=> isPositiveInt(t)
             /\ IsA(t, "index") <=> isSignedInt(t)
  <2> TAKE t
  <2>1. t \in Digits => Value[t] \in Int
    BY ValueAssumption
  <2>2. IsA(t, "seconds") <=> t \in Digits /\ Value[t] >= 1 /\ Value[t] <= MAX_TTL_SECONDS
    BY DEF IsA
  <2>3. isPositiveInt(t) <=> t \in Digits /\ Value[t] \in 1..MAX_TTL_SECONDS
    BY DEF isPositiveInt
  <2>4. IsA(t, "seconds") <=> isPositiveInt(t)
    BY <2>1, <2>2, <2>3
  <2>5. DOMAIN Value = Digits \cup Negative
    BY ValueAssumption
  <2>6. IsA(t, "index") <=> isSignedInt(t)
    BY <2>5 DEF IsA, isSignedInt, isSafeInteger
  <2> QED BY <2>4, <2>6 DEF IsA
<1>4. CASE name = "EXPIRE"
  <2>1. parseCommand(tokens).ok <=> n = 3 /\ isPositiveInt(tokens[3])
    BY <1>2, <1>4 DEF parseCommand, parseExpire, ok, err, KeyCommands, BareCommands
  <2>2. Usage(name) = {[must |-> <<"any", "seconds">>, more |-> <<>>]}
    BY <1>4 DEF Usage, KeyCommands, BareCommands
  <2> DEFINE must == <<"any", "seconds">>
  <2>3. Len(must) = 2 /\ must[1] = "any" /\ must[2] = "seconds"
    OBVIOUS
  <2>4. Usage(name) = {[must |-> must, more |-> <<>>]}
    BY <2>2
  <2> HIDE DEF must
  <2>5. Fits(args, [must |-> must, more |-> <<>>]) <=>
          Len(args) = Len(must) /\ \A i \in 1..Len(args) : IsA(args[i], must[i])
    <3>1. Len(args) \in Nat /\ Len(must) \in Nat /\ DOMAIN args = 1..Len(args)
      BY <1>1, <2>3
    <3> QED BY <3>1, FitsFixed
  <2>6. Fits(args, [must |-> must, more |-> <<>>]) <=> n = 3 /\ isPositiveInt(tokens[3])
    <3>1. CASE n = 3
      <4>1. Len(args) = 2 /\ args[1] = tokens[2] /\ args[2] = tokens[3]
        BY <1>1, <3>1
      <4>2. \A i \in 1..2 : i = 1 \/ i = 2
        OBVIOUS
      <4> QED BY <1>3, <2>3, <2>5, <3>1, <4>1, <4>2
    <3>2. CASE n # 3
      BY <1>1, <2>3, <2>5, <3>2
    <3> QED BY <3>1, <3>2
  <2> QED BY <2>1, <2>4, <2>6 DEF Agree
<1>5. CASE name = "LRANGE"
  <2>1. parseCommand(tokens).ok <=> n = 4 /\ isSignedInt(tokens[3]) /\ isSignedInt(tokens[4])
    BY <1>2, <1>5 DEF parseCommand, parseLrange, ok, err, KeyCommands, BareCommands
  <2>2. Usage(name) = {[must |-> <<"any", "index", "index">>, more |-> <<>>]}
    BY <1>5 DEF Usage, KeyCommands, BareCommands
  <2> DEFINE must == <<"any", "index", "index">>
  <2>3. Len(must) = 3 /\ must[1] = "any" /\ must[2] = "index" /\ must[3] = "index"
    OBVIOUS
  <2>4. Usage(name) = {[must |-> must, more |-> <<>>]}
    BY <2>2
  <2> HIDE DEF must
  <2>5. Fits(args, [must |-> must, more |-> <<>>]) <=>
          Len(args) = Len(must) /\ \A i \in 1..Len(args) : IsA(args[i], must[i])
    <3>1. Len(args) \in Nat /\ Len(must) \in Nat /\ DOMAIN args = 1..Len(args)
      BY <1>1, <2>3
    <3> QED BY <3>1, FitsFixed
  <2>6. Fits(args, [must |-> must, more |-> <<>>])
          <=> n = 4 /\ isSignedInt(tokens[3]) /\ isSignedInt(tokens[4])
    <3>1. CASE n = 4
      <4>1. Len(args) = 3 /\ args[1] = tokens[2] /\ args[2] = tokens[3] /\ args[3] = tokens[4]
        BY <1>1, <3>1
      <4>2. \A i \in 1..3 : i = 1 \/ i = 2 \/ i = 3
        OBVIOUS
      <4> QED BY <1>3, <2>3, <2>5, <3>1, <4>1, <4>2
    <3>2. CASE n # 4
      BY <1>1, <2>3, <2>5, <3>2
    <3> QED BY <3>1, <3>2
  <2> QED BY <2>1, <2>4, <2>6 DEF Agree
<1>6. CASE name = "SET"
  <2>1. parseCommand(tokens).ok <=>
          \/ n = 3
          \/ n = 5 /\ toUpperCase(tokens[4]) = "EX" /\ isPositiveInt(tokens[5])
    BY <1>1, <1>2, <1>6 DEF parseCommand, parseSet, ok, err, KeyCommands, BareCommands
  <2> DEFINE must == <<"any", "any", "EX", "seconds">>
             two == <<"any", "any">>
             plain == [must |-> two, more |-> <<>>]
  <2>2. Usage(name) = {plain} \cup {[must |-> must, more |-> <<>>]}
    BY <1>6 DEF Usage, KeyCommands, BareCommands
  <2>3. Len(must) = 4 /\ must[1] = "any" /\ must[2] = "any" /\ must[3] = "EX" /\ must[4] = "seconds"
    OBVIOUS
  <2>4. Fits(args, plain) <=> n = 3
    <3>1. AnyTimes(2, two)
      BY Anys
    <3> HIDE DEF two
    <3>2. Fits(args, plain) <=> Len(args) = 2
      BY <1>1, <3>1, FitsAnyFixed
    <3> QED BY <1>1, <3>2
  <2> HIDE DEF must, two, plain
  <2>5. Fits(args, [must |-> must, more |-> <<>>]) <=>
          Len(args) = Len(must) /\ \A i \in 1..Len(args) : IsA(args[i], must[i])
    <3>1. Len(args) \in Nat /\ Len(must) \in Nat /\ DOMAIN args = 1..Len(args)
      BY <1>1, <2>3
    <3> QED BY <3>1, FitsFixed
  <2>6. Fits(args, [must |-> must, more |-> <<>>])
          <=> n = 5 /\ toUpperCase(tokens[4]) = "EX" /\ isPositiveInt(tokens[5])
    <3>1. CASE n = 5
      <4>1. /\ Len(args) = 4 /\ args[1] = tokens[2] /\ args[2] = tokens[3]
            /\ args[3] = tokens[4] /\ args[4] = tokens[5]
        BY <1>1, <3>1
      <4>2. \A i \in 1..4 : i = 1 \/ i = 2 \/ i = 3 \/ i = 4
        OBVIOUS
      <4> QED BY <1>3, <2>3, <2>5, <3>1, <4>1, <4>2
    <3>2. CASE n # 5
      BY <1>1, <2>3, <2>5, <3>2
    <3> QED BY <3>1, <3>2
  <2> QED BY <2>1, <2>2, <2>4, <2>6 DEF Agree
<1> QED BY <1>4, <1>5, <1>6

\* What is no command has no usage.
LEMMA UnknownAgree ==
  ASSUME NEW tokens, NEW name, NEW n, NEW args, Line(tokens, name, n, args),
         name \notin KeyCommands \cup BareCommands \cup
           {"KEYS", "AUTH", "HGET", "PUBLISH", "LPUSH", "RPUSH", "HDEL", "HSET",
            "SUBSCRIBE", "UNSUBSCRIBE", "SET", "EXPIRE", "LRANGE"}
  PROVE  Agree(tokens, name, args)
<1>1. tokens # <<>> /\ name = toUpperCase(tokens[1])
  BY DEF Line
<1>2. ~parseCommand(tokens).ok
  BY <1>1 DEF parseCommand, ok, err
<1>3. Usage(name) = {}
  BY DEF Usage
<1> QED BY <1>2, <1>3 DEF Agree

-----------------------------------------------------------------------------
(***************************************************************************)
(* What a command keeps of its line.                                       *)
(***************************************************************************)
Written == Tokens \cup {toUpperCase(t) : t \in Tokens}

\* Two lines that differ in the spelling of their first token at most.
Alike(s, t) ==
  /\ s \in Seq(Written) /\ t \in Seq(Written)
  /\ s # <<>> /\ Len(t) = Len(s)
  /\ toUpperCase(t[1]) = toUpperCase(s[1])
  /\ \A i \in 2..Len(s) : t[i] = s[i]

\* Sequences of up to three, spelt out.
LEMMA Short ==
  ASSUME NEW S, NEW s \in Seq(S)
  PROVE  /\ Len(s) = 0 => s = <<>>
         /\ Len(s) = 1 => s = <<s[1]>>
         /\ Len(s) = 2 => s = <<s[1], s[2]>>
         /\ Len(s) = 3 => s = <<s[1], s[2], s[3]>>
<1>1. Len(s) = 0 => s = <<>>
  BY EmptySeq
<1>2. \A i \in 1..Len(s) : s[i] \in S
  BY ElementOfSeq
<1>3. ASSUME Len(s) = 1 PROVE s = <<s[1]>>
  <2>1. s[1] \in S
    BY <1>2, <1>3
  <2> DEFINE t == <<s[1]>>
  <2>2. t \in Seq(S) /\ Len(t) = 1 /\ t[1] = s[1]
    BY <2>1
  <2> HIDE DEF t
  <2>3. \A i \in 1..Len(s) : s[i] = t[i]
    BY <1>3, <2>2
  <2>4. s = t
    BY <1>3, <2>2, <2>3, SeqEqual
  <2> QED BY <2>4 DEF t
<1>4. ASSUME Len(s) = 2 PROVE s = <<s[1], s[2]>>
  <2>1. s[1] \in S /\ s[2] \in S
    BY <1>2, <1>4
  <2> DEFINE t == <<s[1], s[2]>>
  <2>2. t \in Seq(S) /\ Len(t) = 2 /\ t[1] = s[1] /\ t[2] = s[2]
    BY <2>1
  <2> HIDE DEF t
  <2>3. \A i \in 1..Len(s) : s[i] = t[i]
    BY <1>4, <2>2
  <2>4. s = t
    BY <1>4, <2>2, <2>3, SeqEqual
  <2> QED BY <2>4 DEF t
<1>5. ASSUME Len(s) = 3 PROVE s = <<s[1], s[2], s[3]>>
  <2>1. s[1] \in S /\ s[2] \in S /\ s[3] \in S
    BY <1>2, <1>5
  <2> DEFINE t == <<s[1], s[2], s[3]>>
  <2>2. t \in Seq(S) /\ Len(t) = 3 /\ t[1] = s[1] /\ t[2] = s[2] /\ t[3] = s[3]
    BY <2>1
  <2> HIDE DEF t
  <2>3. \A i \in 1..Len(s) : s[i] = t[i]
    BY <1>5, <2>2
  <2>4. s = t
    BY <1>5, <2>2, <2>3, SeqEqual
  <2> QED BY <2>4 DEF t
<1> QED BY <1>1, <1>3, <1>4, <1>5

\* One token in front of others.
LEMMA InFront ==
  ASSUME NEW S, NEW x \in S, NEW s \in Seq(S)
  PROVE  /\ <<x>> \o s \in Seq(S) /\ Len(<<x>> \o s) = Len(s) + 1
         /\ (<<x>> \o s)[1] = x
         /\ \A i \in 1..Len(s) : (<<x>> \o s)[i + 1] = s[i]
<1> DEFINE one == <<x>>
<1>1. one \in Seq(S) /\ Len(one) = 1 /\ one[1] = x
  OBVIOUS
<1>2. Len(s) \in Nat
  BY LenProperties
<1> HIDE DEF one
<1>3. /\ one \o s \in Seq(S) /\ Len(one \o s) = Len(one) + Len(s)
      /\ \A i \in 1..(Len(one) + Len(s)) :
           (one \o s)[i] = IF i <= Len(one) THEN one[i] ELSE s[i - Len(one)]
  BY <1>1, ConcatProperties
<1>4. (one \o s)[1] = x
  BY <1>1, <1>2, <1>3
<1>5. \A i \in 1..Len(s) : (one \o s)[i + 1] = s[i]
  <2> TAKE i \in 1..Len(s)
  <2>1. i + 1 \in 1..(Len(one) + Len(s)) /\ ~(i + 1 <= Len(one)) /\ (i + 1) - Len(one) = i
    BY <1>1, <1>2
  <2> QED BY <1>3, <2>1
<1>6. Len(one \o s) = Len(s) + 1
  BY <1>1, <1>2, <1>3
<1> QED BY <1>3, <1>4, <1>5, <1>6 DEF one

\* A token or two in front of the rest of the line are the line.
LEMMA Behind ==
  ASSUME NEW S, NEW s \in Seq(S), Len(s) >= 1
  PROVE  /\ s = <<s[1]>> \o Tail(s)
         /\ Len(s) >= 2 => Tail(s) = <<s[2]>> \o SubSeq(s, 3, Len(s))
<1>1. /\ Len(s) \in Nat /\ Tail(s) \in Seq(S) /\ Len(Tail(s)) = Len(s) - 1
      /\ \A i \in 1..Len(Tail(s)) : Tail(s)[i] = s[i + 1]
  BY HeadTailProperties, LenProperties, EmptySeq
<1>2. \A i \in 1..Len(s) : s[i] \in S
  BY ElementOfSeq
<1>3. s = <<s[1]>> \o Tail(s)
  <2> DEFINE t == <<s[1]>> \o Tail(s)
  <2>1. s[1] \in S
    BY <1>1, <1>2
  <2>2. t \in Seq(S) /\ Len(t) = Len(Tail(s)) + 1 /\ t[1] = s[1]
        /\ \A i \in 1..Len(Tail(s)) : t[i + 1] = Tail(s)[i]
    BY <1>1, <2>1, InFront
  <2> HIDE DEF t
  <2>3. \A i \in 1..Len(s) : s[i] = t[i]
    <3> TAKE i \in 1..Len(s)
    <3>1. CASE i = 1
      BY <2>2, <3>1
    <3>2. CASE i # 1
      <4>1. i - 1 \in 1..Len(Tail(s)) /\ (i - 1) + 1 = i
        BY <1>1, <3>2
      <4> QED BY <1>1, <2>2, <4>1
    <3> QED BY <3>1, <3>2
  <2>4. Len(t) = Len(s)
    BY <1>1, <2>2
  <2>5. s = t
    BY <2>2, <2>3, <2>4, SeqEqual
  <2> QED BY <2>5 DEF t
<1>4. ASSUME Len(s) >= 2 PROVE Tail(s) = <<s[2]>> \o SubSeq(s, 3, Len(s))
  <2> DEFINE rest == SubSeq(s, 3, Len(s))
             t    == <<s[2]>> \o rest
  <2>1. rest \in Seq(S) /\ Len(rest) = Len(s) - 2
        /\ \A i \in 1..Len(rest) : rest[i] = s[i + 2]
    <3>1. CASE Len(s) >= 3
      <4>1. /\ rest \in Seq(S) /\ Len(rest) = Len(s) - 3 + 1
            /\ \A i \in 1..(Len(s) - 3 + 1) : rest[i] = s[3 + i - 1]
        BY <1>1, <3>1, SubSeqProperties
      <4> HIDE DEF rest
      <4>2. Len(s) - 3 + 1 = Len(s) - 2 /\ \A i \in Nat : 3 + i - 1 = i + 2
        BY <1>1
      <4> QED BY <4>1, <4>2
    <3>2. CASE Len(s) = 2
      <4>1. rest = <<>>
        BY <1>1, <3>2, SubSeqEmpty
      <4> HIDE DEF rest
      <4>2. rest \in Seq(S) /\ Len(rest) = 0
        BY <4>1, EmptySeq
      <4> QED BY <3>2, <4>2
    <3> QED BY <1>1, <1>4, <3>1, <3>2
  <2> HIDE DEF rest
  <2>2. s[2] \in S
    BY <1>1, <1>2, <1>4
  <2>3. t \in Seq(S) /\ Len(t) = Len(rest) + 1 /\ t[1] = s[2]
        /\ \A i \in 1..Len(rest) : t[i + 1] = rest[i]
    BY <2>1, <2>2, InFront
  <2> HIDE DEF t
  <2>4. \A i \in 1..Len(Tail(s)) : Tail(s)[i] = t[i]
    <3> TAKE i \in 1..Len(Tail(s))
    <3>1. CASE i = 1
      BY <1>1, <2>3, <3>1
    <3>2. CASE i # 1
      <4>1. i - 1 \in 1..Len(rest) /\ (i - 1) + 1 = i /\ (i - 1) + 2 = i + 1
        BY <1>1, <2>1, <3>2
      <4>2. t[i] = rest[i - 1] /\ rest[i - 1] = s[i + 1]
        BY <2>1, <2>3, <4>1
      <4> QED BY <1>1, <4>2
    <3> QED BY <3>1, <3>2
  <2>5. Len(t) = Len(Tail(s))
    BY <1>1, <2>1, <2>3
  <2>6. Tail(s) = t
    BY <1>1, <2>3, <2>4, <2>5, SeqEqual
  <2> QED BY <2>6 DEF t, rest
<1> QED BY <1>3, <1>4

\* Lines that are alike are parsed alike.
LEMMA AlikeParsed ==
  ASSUME NEW s, NEW t, Alike(s, t)
  PROVE  parseCommand(t) = parseCommand(s)
<1>1. /\ s \in Seq(Written) /\ t \in Seq(Written) /\ s # <<>> /\ Len(t) = Len(s)
      /\ toUpperCase(t[1]) = toUpperCase(s[1]) /\ \A i \in 2..Len(s) : t[i] = s[i]
  BY DEF Alike
<1>2. Len(s) \in Nat /\ Len(s) >= 1 /\ t # <<>>
  BY <1>1, EmptySeq, LenProperties
<1>3. Tail(t) = Tail(s)
  <2>1. \A u \in Seq(Written) : Len(u) >= 1 =>
          /\ Tail(u) \in Seq(Written) /\ Len(Tail(u)) = Len(u) - 1
          /\ \A i \in 1..Len(Tail(u)) : Tail(u)[i] = u[i + 1]
    BY HeadTailProperties, EmptySeq
  <2> DEFINE a == Tail(s)
             b == Tail(t)
  <2>2. /\ a \in Seq(Written) /\ b \in Seq(Written) /\ Len(a) = Len(s) - 1 /\ Len(b) = Len(s) - 1
        /\ \A i \in 1..Len(a) : a[i] = s[i + 1]
        /\ \A i \in 1..Len(b) : b[i] = t[i + 1]
    BY <1>1, <1>2, <2>1
  <2> HIDE DEF a, b
  <2>3. \A i \in 1..Len(a) : a[i] = b[i]
    <3> TAKE i \in 1..Len(a)
    <3>1. i + 1 \in 2..Len(s) /\ i \in 1..Len(b)
      BY <1>2, <2>2
    <3> QED BY <1>1, <2>2, <3>1
  <2>4. a = b
    BY <2>2, <2>3, SeqEqual
  <2> QED BY <2>4 DEF a, b
<1>4. SubSeq(t, 3, Len(t)) = SubSeq(s, 3, Len(s))
  <2>1. CASE Len(s) >= 3
    <3>1. \A u \in Seq(Written) : Len(u) >= 3 =>
            /\ SubSeq(u, 3, Len(u)) \in Seq(Written) /\ Len(SubSeq(u, 3, Len(u))) = Len(u) - 2
            /\ \A i \in 1..(Len(u) - 2) : SubSeq(u, 3, Len(u))[i] = u[i + 2]
      <4> TAKE u \in Seq(Written)
      <4> HAVE Len(u) >= 3
      <4>1. Len(u) \in Nat
        BY LenProperties
      <4> DEFINE rest == SubSeq(u, 3, Len(u))
      <4>2. /\ rest \in Seq(Written) /\ Len(rest) = Len(u) - 3 + 1
            /\ \A i \in 1..(Len(u) - 3 + 1) : rest[i] = u[3 + i - 1]
        BY <4>1, SubSeqProperties
      <4> HIDE DEF rest
      <4>3. Len(u) - 3 + 1 = Len(u) - 2 /\ \A i \in Nat : 3 + i - 1 = i + 2
        BY <4>1
      <4>4. /\ rest \in Seq(Written) /\ Len(rest) = Len(u) - 2
            /\ \A i \in 1..(Len(u) - 2) : rest[i] = u[i + 2]
        BY <4>2, <4>3
      <4> QED BY <4>4 DEF rest
    <3> DEFINE a == SubSeq(s, 3, Len(s))
               b == SubSeq(t, 3, Len(t))
    <3>2. /\ a \in Seq(Written) /\ b \in Seq(Written) /\ Len(a) = Len(s) - 2 /\ Len(b) = Len(s) - 2
          /\ \A i \in 1..(Len(s) - 2) : a[i] = s[i + 2] /\ b[i] = t[i + 2]
      BY <1>1, <2>1, <3>1
    <3> HIDE DEF a, b
    <3>3. \A i \in 1..Len(a) : a[i] = b[i]
      <4> TAKE i \in 1..Len(a)
      <4>1. i + 2 \in 2..Len(s) /\ i \in 1..(Len(s) - 2)
        BY <1>2, <3>2
      <4> QED BY <1>1, <3>2, <4>1
    <3>4. a = b
      BY <3>2, <3>3, SeqEqual
    <3> QED BY <3>4 DEF a, b
  <2>2. CASE Len(s) < 3
    BY <1>1, <1>2, <2>2, SubSeqEmpty
  <2> QED BY <1>2, <2>1, <2>2
<1> DEFINE name == toUpperCase(s[1])
<1>5. CASE name \in {"LPUSH", "RPUSH", "HSET", "HDEL"}
  <2>1. Len(s) >= 2 => t[2] = s[2]
    BY <1>1, <1>2
  <2>2. CASE name \in {"LPUSH", "RPUSH"}
    <3>1. parseCommand(s) = parsePush(name, s) /\ parseCommand(t) = parsePush(name, t)
      BY <1>1, <1>2, <2>2 DEF parseCommand, KeyCommands, BareCommands
    <3>2. CASE Len(s) >= 3
      <4>1. t[2] = s[2]
        BY <1>2, <2>1, <3>2
      <4> QED BY <1>1, <1>4, <3>1, <4>1 DEF parsePush
    <3>3. CASE ~(Len(s) >= 3)
      BY <1>1, <3>1, <3>3 DEF parsePush, IfArity
    <3> QED BY <3>2, <3>3
  <2>3. CASE name = "HSET"
    <3>1. parseCommand(s) = parseHset(s) /\ parseCommand(t) = parseHset(t)
      BY <1>1, <1>2, <2>3 DEF parseCommand, KeyCommands, BareCommands
    <3>2. CASE Len(s) >= 2
      BY <1>1, <1>4, <2>1, <3>1, <3>2 DEF parseHset
    <3>3. CASE Len(s) < 2
      <4>1. Len(SubSeq(s, 3, Len(s))) = 0
        BY <1>1, <1>2, <3>3, SubSeqEmpty, EmptySeq
      <4> DEFINE rest == SubSeq(s, 3, Len(s))
      <4>3. SubSeq(t, 3, Len(t)) = rest /\ Len(rest) = 0
        BY <1>4, <4>1
      <4> HIDE DEF rest
      <4>6. ~(Len(rest) >= 2)
        BY <4>3
      <4>2. \A command : IfArity(Len(rest) >= 2 /\ Len(rest) % 2 = 0, command) = err("arity")
        BY <4>6 DEF IfArity
      <4>4. parseHset(t) = IfArity(Len(rest) >= 2 /\ Len(rest) % 2 = 0,
                                   [name |-> "HSET", key |-> t[2], pairs |-> Pairs(rest)])
        BY <4>3 DEF parseHset
      <4>5. parseHset(s) = IfArity(Len(rest) >= 2 /\ Len(rest) % 2 = 0,
                                   [name |-> "HSET", key |-> s[2], pairs |-> Pairs(rest)])
        BY DEF parseHset, rest
      <4> QED BY <3>1, <4>2, <4>4, <4>5
    <3> QED BY <1>2, <3>2, <3>3
  <2>4. CASE name = "HDEL"
    <3>1. parseCommand(s) = parseHdel(s) /\ parseCommand(t) = parseHdel(t)
      BY <1>1, <1>2, <2>4 DEF parseCommand, KeyCommands, BareCommands
    <3>2. CASE Len(s) >= 3
      <4>1. t[2] = s[2]
        BY <1>2, <2>1, <3>2
      <4> QED BY <1>1, <1>4, <3>1, <4>1 DEF parseHdel
    <3>3. CASE ~(Len(s) >= 3)
      BY <1>1, <3>1, <3>3 DEF parseHdel, IfArity
    <3> QED BY <3>2, <3>3
  <2> QED BY <1>5, <2>2, <2>3, <2>4
<1>6. CASE name \in {"SUBSCRIBE", "UNSUBSCRIBE"}
  BY <1>1, <1>2, <1>3, <1>6 DEF parseCommand, parseChannels, KeyCommands, BareCommands
<1>7. CASE name \in {"SET", "EXPIRE", "LRANGE"}
  <2>1. /\ Len(s) = 3 => t[2] = s[2] /\ t[3] = s[3]
        /\ Len(s) = 4 => t[2] = s[2] /\ t[3] = s[3] /\ t[4] = s[4]
        /\ Len(s) = 5 => t[2] = s[2] /\ t[3] = s[3] /\ t[4] = s[4] /\ t[5] = s[5]
    BY <1>1
  <2>2. CASE name = "SET"
    <3>1. parseCommand(s) = parseSet(s) /\ parseCommand(t) = parseSet(t)
      BY <1>1, <1>2, <2>2 DEF parseCommand, KeyCommands, BareCommands
    <3>2. CASE Len(s) = 3
      BY <1>1, <2>1, <3>1, <3>2 DEF parseSet
    <3>3. CASE Len(s) = 5
      BY <1>1, <2>1, <3>1, <3>3 DEF parseSet
    <3>4. CASE Len(s) # 3 /\ Len(s) # 5
      BY <1>1, <3>1, <3>4 DEF parseSet
    <3> QED BY <3>2, <3>3, <3>4
  <2>3. CASE name = "EXPIRE"
    <3>1. parseCommand(s) = parseExpire(s) /\ parseCommand(t) = parseExpire(t)
      BY <1>1, <1>2, <2>3 DEF parseCommand, KeyCommands, BareCommands
    <3> QED BY <1>1, <2>1, <3>1 DEF parseExpire
  <2>4. CASE name = "LRANGE"
    <3>1. parseCommand(s) = parseLrange(s) /\ parseCommand(t) = parseLrange(t)
      BY <1>1, <1>2, <2>4 DEF parseCommand, KeyCommands, BareCommands
    <3> QED BY <1>1, <2>1, <3>1 DEF parseLrange
  <2> QED BY <1>7, <2>2, <2>3, <2>4
<1>8. CASE name \notin {"LPUSH", "RPUSH", "HSET", "HDEL", "SUBSCRIBE", "UNSUBSCRIBE",
                        "SET", "EXPIRE", "LRANGE"}
  <2>1. /\ Len(s) = 2 => t[2] = s[2]
        /\ Len(s) = 3 => t[2] = s[2] /\ t[3] = s[3]
    BY <1>1
  <2> HIDE DEF name
  <2>2. toUpperCase(s[1]) = name /\ toUpperCase(t[1]) = name
    BY <1>1 DEF name
  <2>3. CASE Len(s) = 2
    BY <1>1, <1>2, <1>8, <2>1, <2>2, <2>3 DEF parseCommand, IfArity
  <2>4. CASE Len(s) = 3
    BY <1>1, <1>2, <1>8, <2>1, <2>2, <2>4 DEF parseCommand, IfArity
  <2>5. CASE Len(s) # 2 /\ Len(s) # 3
    BY <1>1, <1>2, <1>8, <2>2, <2>5 DEF parseCommand, IfArity
  <2> QED BY <2>3, <2>4, <2>5
<1> QED BY <1>5, <1>6, <1>7, <1>8

\* A line rendered as its own name and arguments is alike.
LEMMA NameAndArguments ==
  ASSUME NEW tokens, NEW name, NEW n, NEW args, Line(tokens, name, n, args)
  PROVE  LET again == <<name>> \o args
         IN  /\ Alike(tokens, again) /\ Len(again) = Len(tokens)
             /\ \A i \in DOMAIN tokens : SaysTheSame(again[i], tokens[i])
<1>1. /\ tokens \in Seq(Tokens) /\ tokens # <<>> /\ name = toUpperCase(tokens[1])
      /\ n = Len(tokens) /\ args = Tail(tokens)
  BY DEF Line
<1>2. /\ n \in Nat \ {0} /\ Len(args) = n - 1 /\ DOMAIN args = 1..Len(args)
      /\ \A i \in 1..(n - 1) : args[i] = tokens[i + 1]
  BY LineFacts
<1>3. \A i \in 1..n : tokens[i] \in Tokens
  BY <1>1, ElementOfSeq
<1>4. Tokens \subseteq Written /\ name \in Written /\ toUpperCase(name) = name
  <2>1. tokens[1] \in Tokens
    BY <1>2, <1>3
  <2> QED BY <1>1, <2>1, CaseAssumption DEF Written
<1>5. tokens \in Seq(Written) /\ args \in Seq(Written)
  <2>1. args \in Seq(Tokens)
    BY <1>1, HeadTailProperties
  <2>2. \A s \in Seq(Tokens) : s \in Seq(Written)
    <3> TAKE s \in Seq(Tokens)
    <3>1. /\ Len(s) \in Nat /\ s = [i \in 1..Len(s) |-> s[i]]
          /\ \A i \in 1..Len(s) : s[i] \in Tokens
      BY ElementOfSeq, LenProperties
    <3>2. s \in [1..Len(s) -> Written]
      BY <1>4, <3>1
    <3> QED BY <3>1, <3>2, SeqDef
  <2> QED BY <1>1, <2>1, <2>2
<1> DEFINE again == <<name>> \o args
<1>6. /\ again \in Seq(Written) /\ Len(again) = Len(args) + 1 /\ again[1] = name
      /\ \A i \in 1..Len(args) : again[i + 1] = args[i]
  BY <1>4, <1>5, InFront
<1> HIDE DEF again
<1>7. \A i \in 2..n : again[i] = tokens[i]
  <2> TAKE i \in 2..n
  <2>1. i - 1 \in 1..(n - 1) /\ (i - 1) + 1 = i
    BY <1>2
  <2> QED BY <1>2, <1>6, <2>1
<1>8. Len(again) = n
  BY <1>2, <1>6
<1>9. Alike(tokens, again)
  BY <1>1, <1>4, <1>5, <1>6, <1>7, <1>8 DEF Alike
<1>10. \A i \in DOMAIN tokens : SaysTheSame(again[i], tokens[i])
  <2> TAKE i \in DOMAIN tokens
  <2>1. i \in 1..n
    BY <1>1, LenProperties
  <2>2. i = 1 \/ i \in 2..n
    BY <1>2, <2>1
  <2> QED BY <1>1, <1>6, <1>7, <2>2 DEF SaysTheSame
<1> QED BY <1>1, <1>8, <1>9, <1>10 DEF again

\* An even number of tokens is its pairs one after the other.
LEMMA PairsKept ==
  ASSUME NEW rest \in Seq(Tokens), Len(rest) % 2 = 0
  PROVE  Pairs(rest) \in Seq(Tokens \X Tokens) /\ Unpaired(Pairs(rest)) = rest
<1> DEFINE pairs == Pairs(rest)
           half  == Len(rest) \div 2
<1>1. Len(rest) \in Nat /\ rest = [i \in 1..Len(rest) |-> rest[i]]
  BY LenProperties
<1>2. half \in Nat /\ 2 * half = Len(rest)
  <2>1. \A k \in Nat : k % 2 = 0 => (k \div 2 \in Nat /\ 2 * (k \div 2) = k)
    OBVIOUS
  <2> QED BY <1>1, <2>1
<1> HIDE DEF half
<1>3. \A i \in 1..Len(rest) : rest[i] \in Tokens
  BY ElementOfSeq
<1>4. pairs = [i \in 1..half |-> <<rest[2 * i - 1], rest[2 * i]>>]
  BY DEF Pairs, half
<1> HIDE DEF pairs
<1>5. pairs \in [1..half -> Tokens \X Tokens]
  <2>1. \A i \in 1..half : <<rest[2 * i - 1], rest[2 * i]>> \in Tokens \X Tokens
    <3> TAKE i \in 1..half
    <3>1. 2 * i - 1 \in 1..Len(rest) /\ 2 * i \in 1..Len(rest)
      BY <1>1, <1>2
    <3> QED BY <1>3, <3>1
  <2> QED BY <1>4, <2>1
<1>6. pairs \in Seq(Tokens \X Tokens)
  BY <1>2, <1>5, SeqDef
<1>7. Len(pairs) = half
  <2>1. DOMAIN pairs = 1..half /\ DOMAIN pairs = 1..Len(pairs) /\ Len(pairs) \in Nat
    BY <1>4, <1>6, LenProperties
  <2> QED BY <1>2, <2>1
<1>8. Unpaired(pairs) = [i \in 1..Len(rest) |-> rest[i]]
  <2>1. Unpaired(pairs) = [i \in 1..Len(rest) |-> pairs[(i + 1) \div 2][IF i % 2 = 1 THEN 1 ELSE 2]]
    BY <1>2, <1>7 DEF Unpaired
  <2>2. \A i \in 1..Len(rest) : pairs[(i + 1) \div 2][IF i % 2 = 1 THEN 1 ELSE 2] = rest[i]
    <3> TAKE i \in 1..Len(rest)
    <3>1. (i + 1) \div 2 \in 1..half
      BY <1>1, <1>2
    <3>2. CASE i % 2 = 1
      <4>1. 2 * ((i + 1) \div 2) - 1 = i
        BY <3>2
      <4> QED BY <1>4, <3>1, <3>2, <4>1
    <3>3. CASE i % 2 # 1
      <4>1. 2 * ((i + 1) \div 2) = i
        BY <3>3
      <4> QED BY <1>4, <3>1, <3>3, <4>1
    <3> QED BY <3>2, <3>3
  <2> QED BY <2>1, <2>2
<1> QED BY <1>1, <1>6, <1>8 DEF pairs

\* A number is spelt as a token of the same value, which is accepted wherever
\* the token that it was read from is.
LEMMA SpelledBack ==
  ASSUME NEW t \in DOMAIN Value
  PROVE  LET u == Spelled(Value[t])
         IN  /\ u \in DOMAIN Value /\ u \in Tokens /\ Value[u] = Value[t]
             /\ SaysTheSame(u, t)
             /\ isPositiveInt(t) => isPositiveInt(u)
             /\ isSignedInt(t) => isSignedInt(u)
<1> DEFINE u == Spelled(Value[t])
<1>1. u \in DOMAIN Value /\ Value[u] = Value[t]
  BY DEF Spelled
<1> HIDE DEF u
<1>2. u \in Digits \cup Negative
  BY <1>1, ValueAssumption
<1>3. u \in Tokens
  BY <1>2, TokenAssumption
<1>4. SaysTheSame(u, t)
  BY <1>1 DEF SaysTheSame
<1>5. isPositiveInt(t) => isPositiveInt(u)
  <2> HAVE isPositiveInt(t)
  <2>1. Value[u] \in 1..MAX_TTL_SECONDS
    BY <1>1 DEF isPositiveInt
  <2>2. ~(Value[u] <= 0)
    BY <2>1
  <2>3. u \in Digits
    BY <1>2, <2>2, ValueAssumption
  <2> QED BY <2>1, <2>3 DEF isPositiveInt
<1>6. isSignedInt(t) => isSignedInt(u)
  BY <1>1, <1>2 DEF isSignedInt
<1> QED BY <1>1, <1>3, <1>4, <1>5, <1>6 DEF u

\* The command has its type, and is rendered as the name and the arguments.
Kept(command, name, args) ==
  command \in Command /\ Rendered(command) = <<name>> \o args

\* The tokens of a line and what is behind the second.
LEMMA LineTokens ==
  ASSUME NEW tokens, NEW name, NEW n, NEW args, Line(tokens, name, n, args)
  PROVE  /\ n >= 2 => tokens[2] \in Tokens
         /\ n >= 3 => tokens[3] \in Tokens
         /\ args \in Seq(Tokens)
         /\ n = 1 => args = <<>>
         /\ n = 2 => args = <<tokens[2]>>
         /\ n = 3 => args = <<tokens[2], tokens[3]>>
         /\ n = 4 => args = <<tokens[2], tokens[3], tokens[4]>>
         /\ n >= 2 => args = <<tokens[2]>> \o SubSeq(tokens, 3, Len(tokens))
         /\ SubSeq(tokens, 3, Len(tokens)) \in Seq(Tokens)
<1>1. tokens \in Seq(Tokens) /\ tokens # <<>> /\ n = Len(tokens) /\ args = Tail(tokens)
  BY DEF Line
<1>2. /\ n \in Nat \ {0} /\ Len(args) = n - 1
      /\ \A i \in 1..(n - 1) : args[i] = tokens[i + 1]
  BY LineFacts
<1>3. args \in Seq(Tokens)
  BY <1>1, HeadTailProperties
<1>4. \A i \in 1..n : tokens[i] \in Tokens
  BY <1>1, ElementOfSeq
<1>5. (n >= 2 => tokens[2] \in Tokens) /\ (n >= 3 => tokens[3] \in Tokens)
  BY <1>2, <1>4
<1>6. n = 1 => args = <<>>
  BY <1>2, <1>3, Short
<1>7. n = 2 => args = <<tokens[2]>>
  <2>1. n = 2 => Len(args) = 1 /\ args[1] = tokens[2]
    BY <1>2
  <2> QED BY <1>3, <2>1, Short
<1>8. n = 3 => args = <<tokens[2], tokens[3]>>
  <2>1. n = 3 => Len(args) = 2 /\ args[1] = tokens[2] /\ args[2] = tokens[3]
    BY <1>2
  <2> QED BY <1>3, <2>1, Short
<1>9. n = 4 => args = <<tokens[2], tokens[3], tokens[4]>>
  <2>1. n = 4 => Len(args) = 3 /\ args[1] = tokens[2] /\ args[2] = tokens[3] /\ args[3] = tokens[4]
    BY <1>2
  <2> QED BY <1>3, <2>1, Short
<1>10. n >= 2 => args = <<tokens[2]>> \o SubSeq(tokens, 3, Len(tokens))
  BY <1>1, <1>2, Behind
<1>11. SubSeq(tokens, 3, Len(tokens)) \in Seq(Tokens)
  BY <1>1, <1>2, SubSeqProperties, SubSeqEmpty, EmptySeq
<1> QED BY <1>3, <1>5, <1>6, <1>7, <1>8, <1>9, <1>10, <1>11

\* An accepted line without a number.
LEMMA CommandKept ==
  ASSUME NEW tokens, NEW name, NEW n, NEW args, Line(tokens, name, n, args),
         parseCommand(tokens).ok,
         name \notin {"EXPIRE", "LRANGE"}, ~(name = "SET" /\ n = 5)
  PROVE  Kept(parseCommand(tokens).command, name, args)
<1> DEFINE r == parseCommand(tokens)
           c == r.command
           rest == SubSeq(tokens, 3, Len(tokens))
<1>1. tokens # <<>> /\ name = toUpperCase(tokens[1]) /\ n = Len(tokens)
  BY DEF Line
<1>2. n \in Nat \ {0}
  BY LineFacts
<1>3. /\ n >= 2 => tokens[2] \in Tokens
      /\ n >= 3 => tokens[3] \in Tokens
      /\ args \in Seq(Tokens)
      /\ n = 1 => args = <<>>
      /\ n = 2 => args = <<tokens[2]>>
      /\ n = 3 => args = <<tokens[2], tokens[3]>>
      /\ n = 4 => args = <<tokens[2], tokens[3], tokens[4]>>
      /\ n >= 2 => args = <<tokens[2]>> \o rest
      /\ rest \in Seq(Tokens)
  BY LineTokens
<1> HIDE DEF rest
<1>4. r.ok
  OBVIOUS
<1> HIDE DEF r
<1>5. CASE name \in KeyCommands \cup {"KEYS", "AUTH"}
  <2>1. CASE name \in KeyCommands
    <3>1. r = IfArity(n = 2, [name |-> name, key |-> tokens[2]])
      BY <1>1, <2>1 DEF r, parseCommand, KeyCommands, BareCommands
    <3>2. n = 2 /\ c = [name |-> name, key |-> tokens[2]]
      BY <1>4, <3>1 DEF IfArity, ok, err
    <3>3. c \in Command
      BY <1>3, <2>1, <3>2 DEF Command
    <3>4. Rendered(c) = <<name>> \o <<tokens[2]>>
      BY <2>1, <3>2 DEF Rendered, KeyCommands, BareCommands
    <3> QED BY <1>3, <3>2, <3>3, <3>4 DEF Kept, r
  <2>2. CASE name = "KEYS"
    <3>1. r = IfArity(n = 2, [name |-> name, pattern |-> tokens[2]])
      BY <1>1, <2>2 DEF r, parseCommand, KeyCommands, BareCommands
    <3>2. n = 2 /\ c = [name |-> name, pattern |-> tokens[2]]
      BY <1>4, <3>1 DEF IfArity, ok, err
    <3>3. c \in Command
      BY <1>3, <2>2, <3>2 DEF Command
    <3>4. Rendered(c) = <<name>> \o <<tokens[2]>>
      BY <2>2, <3>2 DEF Rendered, KeyCommands, BareCommands
    <3> QED BY <1>3, <3>2, <3>3, <3>4 DEF Kept, r
  <2>3. CASE name = "AUTH"
    <3>1. r = IfArity(n = 2, [name |-> name, password |-> tokens[2]])
      BY <1>1, <2>3 DEF r, parseCommand, KeyCommands, BareCommands
    <3>2. n = 2 /\ c = [name |-> name, password |-> tokens[2]]
      BY <1>4, <3>1 DEF IfArity, ok, err
    <3>3. c \in Command
      BY <1>3, <2>3, <3>2 DEF Command
    <3>4. Rendered(c) = <<name>> \o <<tokens[2]>>
      BY <2>3, <3>2 DEF Rendered, KeyCommands, BareCommands
    <3> QED BY <1>3, <3>2, <3>3, <3>4 DEF Kept, r
  <2> QED BY <1>5, <2>1, <2>2, <2>3
<1>6. CASE name \in BareCommands
  <2>1. r = IfArity(n = 1, [name |-> name])
    BY <1>1, <1>6 DEF r, parseCommand, KeyCommands, BareCommands
  <2>2. n = 1 /\ c = [name |-> name]
    BY <1>4, <2>1 DEF IfArity, ok, err
  <2>3. c \in Command
    BY <1>6, <2>2 DEF Command
  <2>4. Rendered(c) = <<name>> \o <<>>
    <3>1. c.name = name
      BY <2>2
    <3> HIDE DEF c
    <3> QED BY <1>6, <3>1 DEF Rendered, KeyCommands, BareCommands
  <2> QED BY <1>3, <2>2, <2>3, <2>4 DEF Kept, r
<1>7. CASE name = "HGET"
  <2>1. r = IfArity(n = 3, [name |-> name, key |-> tokens[2], field |-> tokens[3]])
    BY <1>1, <1>7 DEF r, parseCommand, KeyCommands, BareCommands
  <2>2. n = 3 /\ c = [name |-> name, key |-> tokens[2], field |-> tokens[3]]
    BY <1>4, <2>1 DEF IfArity, ok, err
  <2>3. c \in Command
    BY <1>3, <1>7, <2>2 DEF Command
  <2>4. Rendered(c) = <<name>> \o <<tokens[2], tokens[3]>>
    BY <1>7, <2>2 DEF Rendered, KeyCommands, BareCommands
  <2> QED BY <1>3, <2>2, <2>3, <2>4 DEF Kept, r
<1>8. CASE name = "PUBLISH"
  <2>1. r = IfArity(n = 3, [name |-> name, channel |-> tokens[2], message |-> tokens[3]])
    BY <1>1, <1>8 DEF r, parseCommand, KeyCommands, BareCommands
  <2>2. n = 3 /\ c = [name |-> name, channel |-> tokens[2], message |-> tokens[3]]
    BY <1>4, <2>1 DEF IfArity, ok, err
  <2>3. c \in Command
    BY <1>3, <1>8, <2>2 DEF Command
  <2>4. Rendered(c) = <<name>> \o <<tokens[2], tokens[3]>>
    BY <1>8, <2>2 DEF Rendered, KeyCommands, BareCommands
  <2> QED BY <1>3, <2>2, <2>3, <2>4 DEF Kept, r
<1>9. CASE name \in {"LPUSH", "RPUSH"}
  <2>1. r = IfArity(n >= 3, [name |-> name, key |-> tokens[2], values |-> rest])
    BY <1>1, <1>9 DEF r, parseCommand, parsePush, KeyCommands, BareCommands, rest
  <2>2. n >= 3 /\ c = [name |-> name, key |-> tokens[2], values |-> rest]
    BY <1>4, <2>1 DEF IfArity, ok, err
  <2>3. c \in Command
    BY <1>2, <1>3, <1>9, <2>2 DEF Command
  <2>4. Rendered(c) = <<name>> \o (<<tokens[2]>> \o rest)
    BY <1>9, <2>2 DEF Rendered, KeyCommands, BareCommands
  <2>5. args = <<tokens[2]>> \o rest
    BY <1>2, <1>3, <2>2
  <2>6. Rendered(c) = <<name>> \o args
    BY <2>4, <2>5
  <2> QED BY <2>3, <2>6 DEF Kept, r
<1>10. CASE name = "HDEL"
  <2>1. r = IfArity(n >= 3, [name |-> name, key |-> tokens[2], fields |-> rest])
    BY <1>1, <1>10 DEF r, parseCommand, parseHdel, KeyCommands, BareCommands, rest
  <2>2. n >= 3 /\ c = [name |-> name, key |-> tokens[2], fields |-> rest]
    BY <1>4, <2>1 DEF IfArity, ok, err
  <2>3. c \in Command
    BY <1>2, <1>3, <1>10, <2>2 DEF Command
  <2>4. Rendered(c) = <<name>> \o (<<tokens[2]>> \o rest)
    BY <1>10, <2>2 DEF Rendered, KeyCommands, BareCommands
  <2>5. args = <<tokens[2]>> \o rest
    BY <1>2, <1>3, <2>2
  <2>6. Rendered(c) = <<name>> \o args
    BY <2>4, <2>5
  <2> QED BY <2>3, <2>6 DEF Kept, r
<1>11. CASE name = "HSET"
  <2>1. r = IfArity(Len(rest) >= 2 /\ Len(rest) % 2 = 0,
                                       [name |-> name, key |-> tokens[2], pairs |-> Pairs(rest)])
    BY <1>1, <1>11 DEF r, parseCommand, parseHset, KeyCommands, BareCommands, rest
  <2>2. /\ Len(rest) >= 2 /\ Len(rest) % 2 = 0
        /\ c = [name |-> name, key |-> tokens[2], pairs |-> Pairs(rest)]
    BY <1>4, <2>1 DEF IfArity, ok, err
  <2>3. n >= 2
    <3>1. n < 2 => rest = <<>>
      BY <1>1, <1>2, SubSeqEmpty DEF rest, Line
    <3> QED BY <1>2, <2>2, <3>1, EmptySeq
  <2>4. Pairs(rest) \in Seq(Tokens \X Tokens) /\ Unpaired(Pairs(rest)) = rest
    BY <1>3, <2>2, PairsKept
  <2> DEFINE pairs == Pairs(rest)
  <2> HIDE DEF pairs
  <2>5. c \in Command
    <3>1. c \in [name : {"HSET"}, key : Tokens, pairs : Seq(Tokens \X Tokens)]
      BY <1>3, <1>11, <2>2, <2>3, <2>4
    <3> QED BY <3>1 DEF Command
  <2>6. Rendered(c) = <<name>> \o (<<tokens[2]>> \o Unpaired(pairs))
    <3>1. c = [name |-> "HSET", key |-> tokens[2], pairs |-> pairs]
      BY <1>11, <2>2 DEF pairs
    <3>2. c.name = "HSET" /\ c.key = tokens[2] /\ c.pairs = pairs
      BY <3>1
    <3> QED BY <1>11, <3>2 DEF Rendered, KeyCommands, BareCommands
  <2> QED BY <1>3, <2>3, <2>4, <2>5, <2>6 DEF Kept, pairs, r
<1>12. CASE name \in {"SUBSCRIBE", "UNSUBSCRIBE"}
  <2>1. r = IfArity(name = "UNSUBSCRIBE" \/ n >= 2, [name |-> name, channels |-> args])
    BY <1>1, <1>12 DEF r, parseCommand, parseChannels, KeyCommands, BareCommands, Line
  <2>2. c = [name |-> name, channels |-> args]
    BY <1>4, <2>1 DEF IfArity, ok, err
  <2>3. c \in Command
    BY <1>3, <1>12, <2>2 DEF Command
  <2>4. Rendered(c) = <<name>> \o args
    BY <1>12, <2>2 DEF Rendered, KeyCommands, BareCommands
  <2> QED BY <2>3, <2>4 DEF Kept, r
<1>13. CASE name = "SET"
  <2>1. r = parseSet(tokens)
    BY <1>1, <1>13 DEF r, parseCommand, KeyCommands, BareCommands
  <2>2. n = 3 /\ c = [name |-> "SET", key |-> tokens[2], value |-> tokens[3]]
    BY <1>1, <1>4, <1>13, <2>1 DEF parseSet, ok, err
  <2>3. c \in Command
    BY <1>3, <2>2 DEF Command
  <2>4. "ttlSeconds" \notin DOMAIN c
    BY <2>2
  <2>5. Rendered(c) = <<name>> \o (<<tokens[2], tokens[3]>> \o <<>>)
    BY <1>13, <2>2, <2>4 DEF Rendered, KeyCommands, BareCommands
  <2>6. <<tokens[2], tokens[3]>> \o <<>> = <<tokens[2], tokens[3]>>
    <3>1. <<tokens[2], tokens[3]>> \in Seq(Tokens)
      BY <1>3, <2>2
    <3> QED BY <3>1, ConcatEmptySeq
  <2> QED BY <1>3, <2>2, <2>3, <2>5, <2>6 DEF Kept, r
<1>14. CASE name \notin KeyCommands \cup BareCommands \cup
             {"KEYS", "AUTH", "HGET", "PUBLISH", "LPUSH", "RPUSH", "HDEL", "HSET",
              "SUBSCRIBE", "UNSUBSCRIBE", "SET", "EXPIRE", "LRANGE"}
  <2>1. ~r.ok
    BY <1>1, <1>14 DEF r, parseCommand, ok, err
  <2> QED BY <1>4, <2>1
<1> QED BY <1>5, <1>6, <1>7, <1>8, <1>9, <1>10, <1>11, <1>12, <1>13, <1>14

-----------------------------------------------------------------------------
(***************************************************************************)
(* Lines with numbers in them.                                             *)
(***************************************************************************)
\* The line gives a command that says the same, written as a line again.
WrittenBack(tokens) ==
  LET c     == parseCommand(tokens).command
      again == Rendered(c)
  IN  /\ c \in Command
      /\ Len(again) = Len(tokens)
      /\ \A i \in DOMAIN tokens : SaysTheSame(again[i], tokens[i])
      /\ parseCommand(again) = parseCommand(tokens)

\* The five tokens of an accepted SET with a TTL, which is rendered in capitals.
LEMMA SetWithTtlKept ==
  ASSUME NEW tokens, NEW name, NEW args, Line(tokens, name, 5, args),
         name = "SET", parseCommand(tokens).ok
  PROVE  WrittenBack(tokens)
<1> DEFINE r == parseCommand(tokens)
           c == r.command
           again == Rendered(c)
           u == Spelled(Value[tokens[5]])
<1>1. /\ tokens \in Seq(Tokens) /\ tokens # <<>> /\ toUpperCase(tokens[1]) = "SET"
      /\ Len(tokens) = 5
  BY DEF Line
<1>2. DOMAIN tokens = 1..5 /\ \A i \in 1..5 : tokens[i] \in Tokens
  BY <1>1, LenProperties, ElementOfSeq
<1>3. r = parseSet(tokens)
  BY <1>1 DEF parseCommand, KeyCommands, BareCommands
<1>4. r.ok
  OBVIOUS
<1> HIDE DEF r
<1>5. /\ toUpperCase(tokens[4]) = "EX" /\ isPositiveInt(tokens[5])
      /\ r = ok([name |-> "SET", key |-> tokens[2], value |-> tokens[3],
                 ttlSeconds |-> Value[tokens[5]]])
  BY <1>1, <1>3, <1>4 DEF parseSet, ok, err
<1>6. c = [name |-> "SET", key |-> tokens[2], value |-> tokens[3], ttlSeconds |-> Value[tokens[5]]]
  BY <1>5 DEF ok
<1>7. tokens[5] \in DOMAIN Value /\ Value[tokens[5]] \in 1..MAX_TTL_SECONDS
  BY <1>5, ValueAssumption DEF isPositiveInt
<1>8. c \in Command
  BY <1>2, <1>6, <1>7 DEF Command
<1>9. again = <<"SET">> \o (<<tokens[2], tokens[3]>> \o <<"EX", u>>)
  <2>1. /\ c.name = "SET" /\ c.key = tokens[2] /\ c.value = tokens[3]
        /\ c.ttlSeconds = Value[tokens[5]] /\ "ttlSeconds" \in DOMAIN c
    BY <1>6
  <2>2. Spelled(c.ttlSeconds) = u
    BY <2>1
  <2> HIDE DEF c, u
  <2> QED BY <2>1, <2>2 DEF Rendered, KeyCommands, BareCommands
<1>10. /\ u \in Tokens /\ Value[u] = Value[tokens[5]]
       /\ SaysTheSame(u, tokens[5]) /\ isPositiveInt(u)
  BY <1>5, <1>7, SpelledBack
<1> HIDE DEF again, u
<1>11. /\ Len(again) = 5 /\ again[1] = "SET" /\ again[2] = tokens[2]
       /\ again[3] = tokens[3] /\ again[4] = "EX" /\ again[5] = u
  <2> DEFINE S    == Tokens \cup {"SET", "EX"}
             keys == <<tokens[2], tokens[3]>>
             ttl  == <<"EX", u>>
             rest == keys \o ttl
  <2>1. /\ keys \in Seq(S) /\ Len(keys) = 2 /\ keys[1] = tokens[2] /\ keys[2] = tokens[3]
        /\ ttl \in Seq(S) /\ Len(ttl) = 2 /\ ttl[1] = "EX" /\ ttl[2] = u
    BY <1>2, <1>10
  <2>2. "SET" \in S
    OBVIOUS
  <2> HIDE DEF S, keys, ttl
  <2>3. /\ rest \in Seq(S) /\ Len(rest) = Len(keys) + Len(ttl)
        /\ \A i \in 1..(Len(keys) + Len(ttl)) :
             rest[i] = IF i <= Len(keys) THEN keys[i] ELSE ttl[i - Len(keys)]
    <3>1. keys \in Seq(S) /\ ttl \in Seq(S)
      BY <2>1
    <3> QED BY <3>1, ConcatProperties
  <2> HIDE DEF rest
  <2>4. /\ rest \in Seq(S) /\ Len(rest) = 4 /\ rest[1] = tokens[2] /\ rest[2] = tokens[3]
        /\ rest[3] = "EX" /\ rest[4] = u
    BY <2>1, <2>3
  <2>5. again = <<"SET">> \o rest
    BY <1>9 DEF rest, keys, ttl
  <2>6. /\ Len(again) = Len(rest) + 1 /\ again[1] = "SET"
        /\ \A i \in 1..Len(rest) : again[i + 1] = rest[i]
    <3> DEFINE first == "SET"
    <3>1. first \in S /\ rest \in Seq(S) /\ again = <<first>> \o rest
      BY <2>2, <2>4, <2>5
    <3> HIDE DEF first
    <3>2. /\ Len(again) = Len(rest) + 1 /\ again[1] = first
          /\ \A i \in 1..Len(rest) : again[i + 1] = rest[i]
      BY <3>1, InFront
    <3> QED BY <3>2 DEF first
  <2>7. /\ again[1 + 1] = rest[1] /\ again[2 + 1] = rest[2]
        /\ again[3 + 1] = rest[3] /\ again[4 + 1] = rest[4]
    BY <2>4, <2>6
  <2> QED BY <2>4, <2>6, <2>7
<1>12. toUpperCase(again[1]) = "SET" /\ toUpperCase(again[4]) = "EX"
  BY <1>1, <1>2, <1>5, <1>11, CaseAssumption
<1>13. \A i \in DOMAIN tokens : SaysTheSame(again[i], tokens[i])
  <2>1. \A i \in 1..5 : i = 1 \/ i = 2 \/ i = 3 \/ i = 4 \/ i = 5
    OBVIOUS
  <2>2. \A i \in {1, 2, 3, 4} : SaysTheSame(again[i], tokens[i])
    BY <1>1, <1>5, <1>11 DEF SaysTheSame
  <2> QED BY <1>2, <1>10, <1>11, <2>1, <2>2
<1>14. parseCommand(again) = parseSet(again)
  <2>1. again # <<>>
    <3>1. Len(<<>>) = 0
      BY EmptySeq
    <3>2. Len(again) = 5
      BY <1>11
    <3> QED BY <3>1, <3>2
  <2> QED BY <1>12, <2>1 DEF parseCommand, KeyCommands, BareCommands
<1>15. parseSet(again) = ok([name |-> "SET", key |-> again[2], value |-> again[3],
                             ttlSeconds |-> Value[again[5]]])
  BY <1>10, <1>11, <1>12 DEF parseSet
<1>16. parseCommand(again) = r
  BY <1>5, <1>10, <1>11, <1>14, <1>15
<1> QED BY <1>1, <1>8, <1>11, <1>13, <1>16 DEF WrittenBack, again, r

\* A name in capitals in front of two tokens or three.
LEMMA NameInFront ==
  ASSUME NEW S, NEW name \in S, NEW k \in S, NEW x \in S, NEW y \in S
  PROVE  /\ LET again == <<name>> \o <<k, x>>
             IN  Len(again) = 3 /\ again[1] = name /\ again[2] = k /\ again[3] = x
         /\ LET again == <<name>> \o <<k, x, y>>
             IN  /\ Len(again) = 4 /\ again[1] = name /\ again[2] = k
                 /\ again[3] = x /\ again[4] = y
<1>1. LET again == <<name>> \o <<k, x>>
      IN  Len(again) = 3 /\ again[1] = name /\ again[2] = k /\ again[3] = x
  <2> DEFINE rest == <<k, x>>
  <2>1. rest \in Seq(S) /\ Len(rest) = 2 /\ rest[1] = k /\ rest[2] = x
    OBVIOUS
  <2> HIDE DEF rest
  <2> DEFINE again == <<name>> \o rest
  <2>2. /\ Len(again) = Len(rest) + 1 /\ again[1] = name
        /\ \A i \in 1..Len(rest) : again[i + 1] = rest[i]
    <3>1. rest \in Seq(S) /\ name \in S
      BY <2>1
    <3> QED BY <3>1, InFront
  <2> HIDE DEF again
  <2>3. again[1 + 1] = rest[1] /\ again[2 + 1] = rest[2]
    BY <2>1, <2>2
  <2>4. Len(again) = 3 /\ again[1] = name /\ again[2] = k /\ again[3] = x
    BY <2>1, <2>2, <2>3
  <2> QED BY <2>4 DEF again, rest
<1>2. LET again == <<name>> \o <<k, x, y>>
      IN  /\ Len(again) = 4 /\ again[1] = name /\ again[2] = k
          /\ again[3] = x /\ again[4] = y
  <2> DEFINE rest == <<k, x, y>>
  <2>1. rest \in Seq(S) /\ Len(rest) = 3 /\ rest[1] = k /\ rest[2] = x /\ rest[3] = y
    OBVIOUS
  <2> HIDE DEF rest
  <2> DEFINE again == <<name>> \o rest
  <2>2. /\ Len(again) = Len(rest) + 1 /\ again[1] = name
        /\ \A i \in 1..Len(rest) : again[i + 1] = rest[i]
    <3>1. rest \in Seq(S) /\ name \in S
      BY <2>1
    <3> QED BY <3>1, InFront
  <2> HIDE DEF again
  <2>3. again[1 + 1] = rest[1] /\ again[2 + 1] = rest[2] /\ again[3 + 1] = rest[3]
    BY <2>1, <2>2
  <2>4. /\ Len(again) = 4 /\ again[1] = name /\ again[2] = k
        /\ again[3] = x /\ again[4] = y
    BY <2>1, <2>2, <2>3
  <2> QED BY <2>4 DEF again, rest
<1> QED BY <1>1, <1>2

\* An accepted EXPIRE.
LEMMA ExpireKept ==
  ASSUME NEW tokens, NEW name, NEW n, NEW args, Line(tokens, name, n, args),
         name = "EXPIRE", parseCommand(tokens).ok
  PROVE  WrittenBack(tokens)
<1> DEFINE r == parseCommand(tokens)
           c == r.command
           again == Rendered(c)
           u == Spelled(Value[tokens[3]])
<1>1. /\ tokens \in Seq(Tokens) /\ tokens # <<>> /\ toUpperCase(tokens[1]) = "EXPIRE"
      /\ n = Len(tokens)
  BY DEF Line
<1>2. DOMAIN tokens = 1..n /\ \A i \in 1..n : tokens[i] \in Tokens
  BY <1>1, LenProperties, ElementOfSeq
<1>3. r = parseExpire(tokens)
  BY <1>1 DEF parseCommand, KeyCommands, BareCommands
<1>4. r.ok
  OBVIOUS
<1> HIDE DEF r
<1>5. /\ n = 3 /\ isPositiveInt(tokens[3])
      /\ r = ok([name |-> "EXPIRE", key |-> tokens[2], seconds |-> Value[tokens[3]]])
  BY <1>1, <1>3, <1>4 DEF parseExpire, err
<1>6. c = [name |-> "EXPIRE", key |-> tokens[2], seconds |-> Value[tokens[3]]]
  BY <1>5 DEF ok
<1>7. tokens[3] \in DOMAIN Value /\ Value[tokens[3]] \in 1..MAX_TTL_SECONDS
  BY <1>5, ValueAssumption DEF isPositiveInt
<1>8. c \in Command
  BY <1>2, <1>5, <1>6, <1>7 DEF Command
<1>9. again = <<"EXPIRE">> \o <<tokens[2], u>>
  BY <1>6 DEF Rendered, KeyCommands, BareCommands
<1>10. /\ u \in Tokens /\ Value[u] = Value[tokens[3]]
       /\ SaysTheSame(u, tokens[3]) /\ isPositiveInt(u)
  BY <1>5, <1>7, SpelledBack
<1> HIDE DEF again, u
<1>11. Len(again) = 3 /\ again[1] = "EXPIRE" /\ again[2] = tokens[2] /\ again[3] = u
  <2> DEFINE S == Tokens \cup {"EXPIRE"}
  <2>1. "EXPIRE" \in S /\ tokens[2] \in S /\ u \in S
    BY <1>2, <1>5, <1>10
  <2> HIDE DEF S
  <2> QED BY <1>9, <2>1, NameInFront
<1>12. toUpperCase(again[1]) = "EXPIRE"
  BY <1>1, <1>2, <1>5, <1>11, CaseAssumption
<1>13. \A i \in DOMAIN tokens : SaysTheSame(again[i], tokens[i])
  <2>1. \A i \in 1..3 : i = 1 \/ i = 2 \/ i = 3
    OBVIOUS
  <2>2. \A i \in {1, 2} : SaysTheSame(again[i], tokens[i])
    BY <1>1, <1>11 DEF SaysTheSame
  <2> QED BY <1>2, <1>5, <1>10, <1>11, <2>1, <2>2
<1>14. parseCommand(again) = parseExpire(again)
  <2>1. again # <<>>
    <3>1. Len(<<>>) = 0
      BY EmptySeq
    <3>2. Len(again) = 3
      BY <1>11
    <3> QED BY <3>1, <3>2
  <2> QED BY <1>12, <2>1 DEF parseCommand, KeyCommands, BareCommands
<1>15. parseExpire(again) = ok([name |-> "EXPIRE", key |-> again[2], seconds |-> Value[again[3]]])
  BY <1>10, <1>11 DEF parseExpire
<1>16. parseCommand(again) = r
  BY <1>5, <1>10, <1>11, <1>14, <1>15
<1> QED BY <1>1, <1>5, <1>8, <1>11, <1>13, <1>16 DEF WrittenBack, again, r

\* An accepted LRANGE.
LEMMA LrangeKept ==
  ASSUME NEW tokens, NEW name, NEW n, NEW args, Line(tokens, name, n, args),
         name = "LRANGE", parseCommand(tokens).ok
  PROVE  WrittenBack(tokens)
<1> DEFINE r == parseCommand(tokens)
           c == r.command
           again == Rendered(c)
           u == Spelled(Value[tokens[3]])
           v == Spelled(Value[tokens[4]])
<1>1. /\ tokens \in Seq(Tokens) /\ tokens # <<>> /\ toUpperCase(tokens[1]) = "LRANGE"
      /\ n = Len(tokens)
  BY DEF Line
<1>2. DOMAIN tokens = 1..n /\ \A i \in 1..n : tokens[i] \in Tokens
  BY <1>1, LenProperties, ElementOfSeq
<1>3. r = parseLrange(tokens)
  BY <1>1 DEF parseCommand, KeyCommands, BareCommands
<1>4. r.ok
  OBVIOUS
<1> HIDE DEF r
<1>5. /\ n = 4 /\ isSignedInt(tokens[3]) /\ isSignedInt(tokens[4])
      /\ r = ok([name |-> "LRANGE", key |-> tokens[2],
                 start |-> Value[tokens[3]], stop |-> Value[tokens[4]]])
  BY <1>1, <1>3, <1>4 DEF parseLrange, err
<1>6. c = [name |-> "LRANGE", key |-> tokens[2],
           start |-> Value[tokens[3]], stop |-> Value[tokens[4]]]
  BY <1>5 DEF ok
<1>7. /\ tokens[3] \in DOMAIN Value /\ tokens[4] \in DOMAIN Value
      /\ Value[tokens[3]] \in Int /\ Value[tokens[4]] \in Int
  BY <1>5, ValueAssumption DEF isSignedInt
<1>8. c \in Command
  BY <1>2, <1>5, <1>6, <1>7 DEF Command
<1>9. again = <<"LRANGE">> \o <<tokens[2], u, v>>
  BY <1>6 DEF Rendered, KeyCommands, BareCommands
<1>10. /\ u \in Tokens /\ Value[u] = Value[tokens[3]]
       /\ SaysTheSame(u, tokens[3]) /\ isSignedInt(u)
  BY <1>5, <1>7, SpelledBack
<1>11. /\ v \in Tokens /\ Value[v] = Value[tokens[4]]
       /\ SaysTheSame(v, tokens[4]) /\ isSignedInt(v)
  BY <1>5, <1>7, SpelledBack
<1> HIDE DEF again, u, v
<1>12. /\ Len(again) = 4 /\ again[1] = "LRANGE" /\ again[2] = tokens[2]
       /\ again[3] = u /\ again[4] = v
  <2> DEFINE S == Tokens \cup {"LRANGE"}
  <2>1. "LRANGE" \in S /\ tokens[2] \in S /\ u \in S /\ v \in S
    BY <1>2, <1>5, <1>10, <1>11
  <2> HIDE DEF S
  <2> QED BY <1>9, <2>1, NameInFront
<1>13. toUpperCase(again[1]) = "LRANGE"
  BY <1>1, <1>2, <1>5, <1>12, CaseAssumption
<1>14. \A i \in DOMAIN tokens : SaysTheSame(again[i], tokens[i])
  <2>1. \A i \in 1..4 : i = 1 \/ i = 2 \/ i = 3 \/ i = 4
    OBVIOUS
  <2>2. \A i \in {1, 2} : SaysTheSame(again[i], tokens[i])
    BY <1>1, <1>12 DEF SaysTheSame
  <2> QED BY <1>2, <1>5, <1>10, <1>11, <1>12, <2>1, <2>2
<1>15. parseCommand(again) = parseLrange(again)
  <2>1. again # <<>>
    <3>1. Len(<<>>) = 0
      BY EmptySeq
    <3>2. Len(again) = 4
      BY <1>12
    <3> QED BY <3>1, <3>2
  <2> QED BY <1>13, <2>1 DEF parseCommand, KeyCommands, BareCommands
<1>16. parseLrange(again) = ok([name |-> "LRANGE", key |-> again[2],
                                start |-> Value[again[3]], stop |-> Value[again[4]]])
  BY <1>10, <1>11, <1>12 DEF parseLrange
<1>17. parseCommand(again) = r
  BY <1>5, <1>10, <1>11, <1>12, <1>15, <1>16
<1> QED BY <1>1, <1>5, <1>8, <1>12, <1>14, <1>17 DEF WrittenBack, again, r

-----------------------------------------------------------------------------
TypeOK == line \in Seq(Tokens)

LEMMA LineTyped == Spec => []TypeOK
<1>1. Init => TypeOK
  BY EmptySeq DEF Init, TypeOK
<1>2. TypeOK /\ [Next]_line => TypeOK'
  <2> SUFFICES ASSUME line \in Seq(Tokens), Next PROVE line' \in Seq(Tokens)
    BY DEF TypeOK
  <2>1. PICK t \in Tokens : line' = Append(line, t)
    BY DEF Next, Tokens
  <2> QED BY <2>1, AppendProperties
<1> QED BY <1>1, <1>2, PTL DEF Spec

\* Of whatever tokens and however long a line is, CommandParser.ts accepts it just
\* when it is a usage of a command in the reference.
THEOREM AcceptsGrammarHolds == Spec => []AcceptsGrammar
<1>1. TypeOK => AcceptsGrammar
  <2> SUFFICES ASSUME line \in Seq(Tokens) PROVE AcceptsGrammar
    BY DEF TypeOK
  <2>1. CASE line = <<>>
    <3>1. ~parseCommand(line).ok
      BY <2>1 DEF parseCommand, err
    <3> QED BY <2>1, <3>1 DEF AcceptsGrammar
  <2>2. CASE line # <<>>
    <3> DEFINE name == toUpperCase(line[1])
               args == Tail(line)
    <3>1. Line(line, name, Len(line), args)
      BY <2>2 DEF Line
    <3> HIDE DEF name, args
    <3>2. Agree(line, name, args)
      BY <3>1, FixedAgree, RepeatedAgree, CheckedAgree, UnknownAgree
    <3> QED BY <2>2, <3>2 DEF Agree, AcceptsGrammar, name, args
  <2> QED BY <2>1, <2>2
<1> QED BY <1>1, LineTyped, PTL

\* Of an accepted line nothing is lost: the command is one of the command types,
\* the line it is rendered as says in every place what the line says there (the
\* token itself, or in capitals, or the same number perhaps written otherwise),
\* and CommandParser.ts makes the same command of it again.
THEOREM NothingLostHolds == Spec => []NothingLost
<1>1. TypeOK => NothingLost
  <2> SUFFICES ASSUME line \in Seq(Tokens), parseCommand(line).ok
               PROVE  WrittenBack(line)
    BY DEF TypeOK, NothingLost, WrittenBack
  <2> DEFINE name == toUpperCase(line[1])
             args == Tail(line)
             c    == parseCommand(line).command
  <2>1. line # <<>>
    BY DEF parseCommand, err
  <2>2. Line(line, name, Len(line), args)
    BY <2>1 DEF Line
  <2> HIDE DEF name, args
  <2>3. CASE name = "SET" /\ Len(line) = 5
    <3>1. Line(line, name, 5, args)
      BY <2>2, <2>3
    <3> QED BY <2>3, <3>1, SetWithTtlKept
  <2>4. CASE name = "EXPIRE"
    BY <2>2, <2>4, ExpireKept
  <2>5. CASE name = "LRANGE"
    BY <2>2, <2>5, LrangeKept
  <2>6. CASE name \notin {"EXPIRE", "LRANGE"} /\ ~(name = "SET" /\ Len(line) = 5)
    <3>1. c \in Command /\ Rendered(c) = <<name>> \o args
      BY <2>2, <2>6, CommandKept DEF Kept
    <3> DEFINE again == <<name>> \o args
    <3>2. /\ Alike(line, again) /\ Len(again) = Len(line)
          /\ \A i \in DOMAIN line : SaysTheSame(again[i], line[i])
      BY <2>2, NameAndArguments
    <3>3. Rendered(c) = again
      BY <3>1
    <3> HIDE DEF again
    <3>4. parseCommand(again) = parseCommand(line)
      BY <3>2, AlikeParsed
    <3> QED BY <3>1, <3>2, <3>3, <3>4 DEF WrittenBack
  <2> QED BY <2>3, <2>4, <2>5, <2>6
<1> QED BY <1>1, LineTyped, PTL

=============================================================================
