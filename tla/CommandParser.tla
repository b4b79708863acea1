---------------------------- MODULE CommandParser ----------------------------
(***************************************************************************)
(* From a line to a command (protocol/src/CommandParser.ts, Command.ts).   *)
(* A line is the sequence of its tokens: blanks only separate them.  A     *)
(* token is a string that is only compared, but for the case of a command  *)
(* name and the value of a number, which the constants give.  Several      *)
(* tokens can have one value: 7 and 007 have, 0 and -0 have.  An error     *)
(* message is the reason it names.                                         *)
(***************************************************************************)
EXTENDS Integers, Sequences

CONSTANTS
  Names,             \* tokens to begin a line with
  Arguments,         \* tokens to go on with
  UpperCase,         \* toUpperCase where it changes a token: a function
  Digits, Negative,  \* the tokens that match ^\d+$ and ^-\d+$
  Value,             \* what Number makes of them
  MAX_TTL_SECONDS,   \* 9_999_999_999 in the code; only its place between 1
  MAX_SAFE_INTEGER,  \* and this one matters
  MaxTokens          \* bound on the length of a line

Tokens == Names \cup Arguments

ASSUME TokenAssumption  == Digits \cup Negative \subseteq Tokens /\ DOMAIN UpperCase \subseteq Tokens
\* -0 counts as 0, and what is no safe integer is some number that is none.
ASSUME ValueAssumption  ==
  /\ Value \in [Digits \cup Negative -> Int]
  /\ \A t \in Digits : Value[t] >= 0
  /\ \A t \in Negative : Value[t] <= 0
ASSUME NumberAssumption == 1 < MAX_TTL_SECONDS /\ MAX_TTL_SECONDS < MAX_SAFE_INTEGER
ASSUME LengthAssumption == MaxTokens \in Nat

VARIABLE line

\* Every line, token by token.
Init == line = <<>>
Next == /\ Len(line) < MaxTokens
        /\ \E t \in IF line = <<>> THEN Names ELSE Arguments : line' = Append(line, t)
Spec == Init /\ [][Next]_line

-----------------------------------------------------------------------------
toUpperCase(t) == IF t \in DOMAIN UpperCase THEN UpperCase[t] ELSE t

\* What is in capitals already stays as it is.
ASSUME CaseAssumption ==
  \A t \in Tokens : toUpperCase(toUpperCase(t)) = toUpperCase(t)

isSafeInteger(n) == n \in -MAX_SAFE_INTEGER..MAX_SAFE_INTEGER

isPositiveInt(t) == t \in Digits /\ Value[t] \in 1..MAX_TTL_SECONDS
isSignedInt(t)   == t \in Digits \cup Negative /\ isSafeInteger(Value[t])

KeyCommands  == {"GET", "DEL", "LPOP", "RPOP", "LLEN", "EXISTS", "TTL", "PERSIST", "HGETALL", "HLEN"}
BareCommands == {"BGSAVE", "BGREWRITEAOF", "MULTI", "EXEC", "DISCARD"}

\* The union of the command types.
Command ==
       [name : KeyCommands, key : Tokens]
  \cup [name : BareCommands]
  \cup [name : {"SET"}, key : Tokens, value : Tokens]
  \cup [name : {"SET"}, key : Tokens, value : Tokens, ttlSeconds : 1..MAX_TTL_SECONDS]
  \cup [name : {"EXPIRE"}, key : Tokens, seconds : 1..MAX_TTL_SECONDS]
  \cup [name : {"LPUSH", "RPUSH"}, key : Tokens, values : Seq(Tokens)]
  \cup [name : {"LRANGE"}, key : Tokens, start : Int, stop : Int]
  \cup [name : {"HSET"}, key : Tokens, pairs : Seq(Tokens \X Tokens)]
  \cup [name : {"HGET"}, key : Tokens, field : Tokens]
  \cup [name : {"HDEL"}, key : Tokens, fields : Seq(Tokens)]
  \cup [name : {"KEYS"}, pattern : Tokens]
  \cup [name : {"SUBSCRIBE", "UNSUBSCRIBE"}, channels : Seq(Tokens)]
  \cup [name : {"PUBLISH"}, channel : Tokens, message : Tokens]
  \cup [name : {"AUTH"}, password : Tokens]

ok(command) == [ok |-> TRUE, command |-> command]
err(reason) == [ok |-> FALSE, message |-> reason]

\* The command if the line has the arity, else the error.
IfArity(fits, command) == IF fits THEN ok(command) ELSE err("arity")

-----------------------------------------------------------------------------
parseSet(tokens) ==
  LET plain == [name |-> "SET", key |-> tokens[2], value |-> tokens[3]]
  IN  CASE Len(tokens) = 3 -> ok(plain)
        [] Len(tokens) = 5 ->
             IF toUpperCase(tokens[4]) # "EX" THEN err("syntax")
             ELSE IF ~isPositiveInt(tokens[5]) THEN err("seconds")
             ELSE ok([name |-> "SET", key |-> tokens[2], value |-> tokens[3],
                      ttlSeconds |-> Value[tokens[5]]])
        [] OTHER -> err("arity")

parseExpire(tokens) ==
  IF Len(tokens) # 3 THEN err("arity")
  ELSE IF ~isPositiveInt(tokens[3]) THEN err("seconds")
  ELSE ok([name |-> "EXPIRE", key |-> tokens[2], seconds |-> Value[tokens[3]]])

parseLrange(tokens) ==
  IF Len(tokens) # 4 THEN err("arity")
  ELSE IF ~(isSignedInt(tokens[3]) /\ isSignedInt(tokens[4])) THEN err("index")
  ELSE ok([name |-> "LRANGE", key |-> tokens[2],
           start |-> Value[tokens[3]], stop |-> Value[tokens[4]]])

\* One pair for every two of the remaining tokens, an odd one out ignored.
Pairs(rest) == [i \in 1..(Len(rest) \div 2) |-> <<rest[2 * i - 1], rest[2 * i]>>]

parseHset_OddToo(tokens) ==                       \* mutant
  LET rest == SubSeq(tokens, 3, Len(tokens))
  IN  IfArity(Len(rest) >= 2, [name |-> "HSET", key |-> tokens[2], pairs |-> Pairs(rest)])
parseHset(tokens) ==
  LET rest == SubSeq(tokens, 3, Len(tokens))
  IN  IfArity(Len(rest) >= 2 /\ Len(rest) % 2 = 0,
              [name |-> "HSET", key |-> tokens[2], pairs |-> Pairs(rest)])

parseHdel_KeyToo(tokens) ==                       \* mutant
  IfArity(Len(tokens) >= 3,
          [name |-> "HDEL", key |-> tokens[2], fields |-> SubSeq(tokens, 2, Len(tokens))])
parseHdel(tokens) ==
  IfArity(Len(tokens) >= 3,
          [name |-> "HDEL", key |-> tokens[2], fields |-> SubSeq(tokens, 3, Len(tokens))])

parsePush(name, tokens) ==
  IfArity(Len(tokens) >= 3,
          [name |-> name, key |-> tokens[2], values |-> SubSeq(tokens, 3, Len(tokens))])

parseChannels(name, tokens) ==
  IfArity(name = "UNSUBSCRIBE" \/ Len(tokens) >= 2,
          [name |-> name, channels |-> Tail(tokens)])

parseCommand(tokens) ==
  IF tokens = <<>> THEN err("empty")
  ELSE LET name == toUpperCase(tokens[1])
           n    == Len(tokens)
       IN  CASE name \in KeyCommands  -> IfArity(n = 2, [name |-> name, key |-> tokens[2]])
             [] name \in BareCommands -> IfArity(n = 1, [name |-> name])
             [] name = "SET"      -> parseSet(tokens)
             [] name = "EXPIRE"   -> parseExpire(tokens)
             [] name = "LRANGE"   -> parseLrange(tokens)
             [] name = "HSET"     -> parseHset(tokens)
             [] name = "HDEL"     -> parseHdel(tokens)
             [] name \in {"LPUSH", "RPUSH"}           -> parsePush(name, tokens)
             [] name \in {"SUBSCRIBE", "UNSUBSCRIBE"} -> parseChannels(name, tokens)
             [] name = "HGET"     -> IfArity(n = 3, [name |-> name, key |-> tokens[2], field |-> tokens[3]])
             [] name = "PUBLISH"  -> IfArity(n = 3, [name |-> name, channel |-> tokens[2], message |-> tokens[3]])
             [] name = "KEYS"     -> IfArity(n = 2, [name |-> name, pattern |-> tokens[2]])
             [] name = "AUTH"     -> IfArity(n = 2, [name |-> name, password |-> tokens[2]])
             [] OTHER             -> err("unknown")

-----------------------------------------------------------------------------
(***************************************************************************)
(* The grammar that README's command reference and the comments of the     *)
(* parser give: of each command some usages, a usage being the arguments   *)
(* that must be there and those that may follow again and again.           *)
(***************************************************************************)
Usage(name) ==
  LET fixed(args) == {[must |-> args, more |-> <<>>]}
  IN  CASE name = "SET"         -> fixed(<<"any", "any">>) \cup fixed(<<"any", "any", "EX", "seconds">>)
        [] name = "EXPIRE"      -> fixed(<<"any", "seconds">>)
        [] name = "LRANGE"      -> fixed(<<"any", "index", "index">>)
        [] name \in {"HGET", "PUBLISH"} -> fixed(<<"any", "any">>)
        [] name \in {"LPUSH", "RPUSH", "HDEL"} -> {[must |-> <<"any", "any">>, more |-> <<"any">>]}
        [] name = "HSET"        -> {[must |-> <<"any", "any", "any">>, more |-> <<"any", "any">>]}
        [] name = "SUBSCRIBE"   -> {[must |-> <<"any">>, more |-> <<"any">>]}
        [] name = "UNSUBSCRIBE" -> {[must |-> <<>>, more |-> <<"any">>]}
        [] name \in KeyCommands \cup {"KEYS", "AUTH"} -> fixed(<<"any">>)
        [] name \in BareCommands -> fixed(<<>>)
        [] OTHER                -> {}

IsA(t, kind) ==
  CASE kind = "any"     -> TRUE
    [] kind = "EX"      -> toUpperCase(t) = "EX"
    [] kind = "seconds" -> t \in Digits /\ Value[t] >= 1 /\ Value[t] <= MAX_TTL_SECONDS
    [] kind = "index"   -> t \in DOMAIN Value /\ Value[t] \in -MAX_SAFE_INTEGER..MAX_SAFE_INTEGER

\* The usage unrolled to n arguments.
Kinds(usage, n) == [i \in 1..n |->
  IF i <= Len(usage.must) THEN usage.must[i]
  ELSE usage.more[((i - Len(usage.must) - 1) % Len(usage.more)) + 1]]

Fits(args, usage) ==
  LET n == Len(args)
      m == Len(usage.must)
      r == Len(usage.more)
  IN  /\ IF r = 0 THEN n = m ELSE n >= m /\ (n - m) % r = 0
      /\ \A i \in DOMAIN args : IsA(args[i], Kinds(usage, n)[i])

\* A line is accepted just when it is a usage of a command: no argument too few
\* or too many is let through, none is refused that the reference allows.
AcceptsGrammar ==
  parseCommand(line).ok <=>
    line # <<>> /\ \E usage \in Usage(toUpperCase(line[1])) : Fits(Tail(line), usage)

\* A token of that value; which of them String writes does not matter here.
Spelled(n) == CHOOSE t \in DOMAIN Value : Value[t] = n

\* The pairs one after the other.
Unpaired(pairs) ==
  [i \in 1..(2 * Len(pairs)) |-> pairs[(i + 1) \div 2][IF i % 2 = 1 THEN 1 ELSE 2]]

\* The line that a command came from, in capitals: what a rewrite of the
\* append-only file makes up for a SET, an EXPIRE, an RPUSH or an HSET.
Rendered(c) == <<c.name>> \o
  CASE c.name = "SET" -> <<c.key, c.value>> \o
         (IF "ttlSeconds" \in DOMAIN c THEN <<"EX", Spelled(c.ttlSeconds)>> ELSE <<>>)
    [] c.name = "EXPIRE"  -> <<c.key, Spelled(c.seconds)>>
    [] c.name = "LRANGE"  -> <<c.key, Spelled(c.start), Spelled(c.stop)>>
    [] c.name = "HSET"    -> <<c.key>> \o Unpaired(c.pairs)
    [] c.name = "HDEL"    -> <<c.key>> \o c.fields
    [] c.name = "HGET"    -> <<c.key, c.field>>
    [] c.name = "KEYS"    -> <<c.pattern>>
    [] c.name = "AUTH"    -> <<c.password>>
    [] c.name = "PUBLISH" -> <<c.channel, c.message>>
    [] c.name \in {"LPUSH", "RPUSH"}           -> <<c.key>> \o c.values
    [] c.name \in {"SUBSCRIBE", "UNSUBSCRIBE"} -> c.channels
    [] c.name \in KeyCommands                  -> <<c.key>>
    [] c.name \in BareCommands                 -> <<>>

\* u is the token t, or t in capitals, or another way to write the number t.
SaysTheSame(u, t) ==
  \/ u \in {t, toUpperCase(t)}
  \/ {u, t} \subseteq DOMAIN Value /\ Value[u] = Value[t]

\* An accepted line is one of the command types, holds what every token of the
\* line says in its place, and its rendering is accepted as the same command
\* again: what is logged or made up for a value means that value when replayed.
NothingLost ==
  LET r == parseCommand(line)
  IN  r.ok =>
        /\ r.command \in Command
        /\ LET again == Rendered(r.command)
           IN  /\ Len(again) = Len(line)
               /\ \A i \in DOMAIN line : SaysTheSame(again[i], line[i])
               /\ parseCommand(again) = r

=============================================================================
