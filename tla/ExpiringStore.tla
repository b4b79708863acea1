---------------------------- MODULE ExpiringStore ----------------------------
(***************************************************************************)
(* What the storage contract (store-engine/src/store/Store.ts) promises,   *)
(* with nothing of how it is kept: a map from live keys to a value and a   *)
(* deadline.  A key vanishes the instant the clock reaches its deadline.   *)
(* A command changes the key it addresses and no other, except that a      *)
(* command that adds a key may cost one other key its place.               *)
(***************************************************************************)
EXTENDS Integers, FiniteSets

CONSTANTS Keys, MaxKeys

VARIABLES
  live,            \* a function from the live keys to [type, value, deadline]
  now

vars == <<live, now>>

NoDeadline == 0   \* no deadline is ever 0: a TTL is positive

Init == /\ live = [k \in {} |-> k]
        /\ now \in Nat

\* The keys other than k, less at most one that made room for a new k.
OthersKept(k) ==
  LET others  == DOMAIN live \ {k}
      others2 == DOMAIN live' \ {k}
  IN  /\ others2 \subseteq others
      /\ \A x \in others2 : live'[x] = live[x]
      /\ \/ others2 = others
         \/ /\ k \notin DOMAIN live /\ k \in DOMAIN live'
            /\ \E victim \in others : others2 = others \ {victim}

Timely(entry) == entry.deadline = NoDeadline \/ entry.deadline > now

\* SET: any string over anything, with a fresh deadline or none.
Replace(k) ==
  /\ k \in DOMAIN live'
  /\ live'[k].type = "string"
  /\ Timely(live'[k])
  /\ OthersKept(k)

\* A list or hash command: the value changes but not its kind, and the
\* deadline stays; a new key never inherits the deadline of a predecessor.
Modify(k) ==
  /\ k \in DOMAIN live'
  /\ live'[k].type # "string"
  /\ IF k \in DOMAIN live
       THEN /\ live'[k].type = live[k].type
            /\ live'[k].deadline = live[k].deadline
       ELSE live'[k].deadline = NoDeadline
  /\ OthersKept(k)

\* EXPIRE and PERSIST: the deadline changes and the value stays.
Reschedule(k) ==
  /\ k \in DOMAIN live /\ k \in DOMAIN live'
  /\ live'[k].type = live[k].type /\ live'[k].value = live[k].value
  /\ Timely(live'[k])
  /\ OthersKept(k)

\* DEL, or the command that took the last element.
Remove(k) ==
  /\ k \in DOMAIN live /\ k \notin DOMAIN live'
  /\ OthersKept(k)

Command ==
  /\ \E k \in Keys : Replace(k) \/ Modify(k) \/ Reschedule(k) \/ Remove(k)
  /\ Cardinality(DOMAIN live') <= MaxKeys
  /\ now' = now

\* Time passes: exactly the keys whose deadline is reached go.
Pass ==
  /\ now' \in Nat /\ now' > now
  /\ live' = [k \in {x \in DOMAIN live : \/ live[x].deadline = NoDeadline
                                          \/ live[x].deadline > now'} |-> live[k]]

Next == Command \/ Pass

Spec == Init /\ [][Next]_vars

=============================================================================
