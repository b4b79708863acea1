--------------------------- MODULE MCCommandParser ---------------------------
(***************************************************************************)
(* Instances of CommandParser for TLC: every command name, one in small    *)
(* letters, one that is no command, and arguments at both ends of the      *)
(* ranges of numbers, two of which are written in two ways.                *)
(***************************************************************************)
EXTENDS CommandParser

AllNames == KeyCommands \cup BareCommands \cup
  {"SET", "set", "EXPIRE", "LRANGE", "HSET", "HDEL", "HGET", "LPUSH", "RPUSH",
   "KEYS", "AUTH", "PUBLISH", "SUBSCRIBE", "UNSUBSCRIBE", "INCR"}
SomeArguments == {"k", "EX", "ex", "-10", "-3", "-0", "0", "5", "05", "6", "10"}
Capitals  == [t \in {"set", "ex"} |-> IF t = "set" THEN "SET" ELSE "EX"]
Naturals  == {"0", "5", "05", "6", "10"}
Below     == {"-0", "-3", "-10"}
NumberOf  == [t \in Naturals \cup Below |->
  CASE t = "-10" -> -10 [] t = "-3" -> -3 [] t \in {"-0", "0"} -> 0
    [] t \in {"5", "05"} -> 5 [] t = "6" -> 6 [] t = "10" -> 10]

=============================================================================
