------------------------------ MODULE StoreState ------------------------------
(***************************************************************************)
(* What the modules that run the store have in common: its contents, the   *)
(* clock, the arguments that commands are given, and the bounds.           *)
(***************************************************************************)
EXTENDS StoreOps

CONSTANTS
  Ttls,            \* the TTLs in seconds that commands give (positive)
  MaxTime,         \* bound: the clock stops there
  MaxArgs,         \* bound on the values LPUSH and RPUSH are given
  MaxItems         \* bound on the length of a list

ASSUME TtlAssumption   == Ttls \subseteq Nat \ {0}
ASSUME BoundAssumption == {MaxTime, MaxArgs, MaxItems} \subseteq Nat

VARIABLES
  store,           \* the contents, a record of StoreOps
  now              \* the clock

Arguments == UNION {[1..n -> Vals] : n \in 1..MaxArgs}

ShortLists(s) ==
  \A k \in Present(s) : Holds(s, k, "list") => Len(ValueOf(s, k)) <= MaxItems

===============================================================================
