---------------------------- MODULE StatsSnapshot ----------------------------
(***************************************************************************)
(* The statistics page's snapshot (StatsServer buildSnapshot), which walks *)
(* the recency list by a chain of generators while the lazy expiry of the  *)
(* keys it meets takes nodes out of that same list.                        *)
(*                                                                         *)
(* LRUTracker.keysMRU is suspended at a node while its consumer runs:      *)
(* InMemoryStore.keysMRU first expires the key, then yields it to          *)
(* buildSnapshot, which asks for the key's type and for its TTL, and each  *)
(* of the two expires the key if it is due by then.  No other code runs    *)
(* during the walk, but the clock does not stop for it.                    *)
(***************************************************************************)
EXTENDS LRUTracker, Integers

CONSTANT MaxTime   \* bound: the clock stops there

ASSUME SnapshotAssumption == MaxTime \in Nat

VARIABLES
  deadline,        \* the deadlines of the keys that have one
  now,
  phase,           \* where the walk stands, or "idle" between walks
  current,         \* the node at which LRUTracker.keysMRU is suspended
  snapshot         \* the keys put into the snapshot so far

svars == <<list, deadline, now, phase, current, snapshot>>

Due(k) == k \in DOMAIN deadline /\ now >= deadline[k]

SnapshotTypeOK ==
  /\ TypeOK
  /\ DOMAIN deadline \subseteq list.nodes /\ deadline \in [DOMAIN deadline -> Nat]
  /\ now \in Nat
  /\ phase \in {"idle", "check", "type", "ttl", "resume"}
  /\ current \in NodeOrNone
  /\ snapshot \in Seq(Keys)

SInit ==
  /\ Init
  /\ deadline = [k \in {} |-> 0] /\ now = 0
  /\ phase = "idle" /\ current = Undefined /\ snapshot = <<>>

-----------------------------------------------------------------------------
\* Between walks commands use keys, with a deadline or without, and remove
\* them.
Use(k) ==
  /\ phase = "idle"
  /\ Touch(k)
  /\ \/ UNCHANGED deadline
     \/ \E d \in (now + 1)..(MaxTime + 1) :
          deadline' = [x \in DOMAIN deadline \cup {k} |-> IF x = k THEN d ELSE deadline[x]]
  /\ UNCHANGED <<now, phase, current, snapshot>>

removed(k) ==
  /\ Delete(k)
  /\ deadline' = [x \in DOMAIN deadline \ {k} |-> deadline[x]]

RemoveKey(k) ==
  /\ phase = "idle" /\ k \in list.nodes
  /\ removed(k)
  /\ UNCHANGED <<now, phase, current, snapshot>>

\* A full store makes room for a new key: its peekLRU and removeKey come to the
\* evictLRU of the tracker.
Evict ==
  /\ phase = "idle" /\ list.tail # Undefined
  /\ EvictLRU
  /\ deadline' = [x \in DOMAIN deadline \ {list.tail} |-> deadline[x]]
  /\ UNCHANGED <<now, phase, current, snapshot>>

Tick ==
  /\ now < MaxTime
  /\ now' = now + 1
  /\ UNCHANGED <<list, deadline, phase, current, snapshot>>

-----------------------------------------------------------------------------
\* One expireIfNeeded: a due key goes, and the walk continues at "gone".
ExpireOr(stage, gone, next) ==
  /\ phase = stage
  /\ IF Due(current) THEN removed(current) /\ phase' = gone
     ELSE UNCHANGED <<list, deadline>> /\ phase' = next
  /\ UNCHANGED <<now, current>>

Begin_AtTail ==                                   \* mutant
  /\ phase = "idle"
  /\ current' = list.tail /\ snapshot' = <<>>
  /\ phase' = IF list.tail = Undefined THEN "idle" ELSE "check"
  /\ UNCHANGED <<list, deadline, now>>
Begin ==
  /\ phase = "idle"
  /\ current' = list.head /\ snapshot' = <<>>
  /\ phase' = IF list.head = Undefined THEN "idle" ELSE "check"
  /\ UNCHANGED <<list, deadline, now>>

\* InMemoryStore.keysMRU: an expired key is not yielded.
Check == ExpireOr("check", "resume", "type") /\ UNCHANGED snapshot

AskType_ListsToo ==                               \* mutant
  ExpireOr("type", "resume", "ttl") /\ snapshot' = Append(snapshot, current)

\* keyType: a key that has expired since is left out.
AskType == ExpireOr("type", "resume", "ttl") /\ UNCHANGED snapshot

\* ttl: a key that has expired since is listed all the same, with TTL -2.
AskTtl == ExpireOr("ttl", "resume", "resume") /\ snapshot' = Append(snapshot, current)

\* LRUTracker.keysMRU reads the next pointer of the node it stopped at.
Resume ==
  /\ phase = "resume"
  /\ current' = list.next[current]
  /\ phase' = IF list.next[current] = Undefined THEN "idle" ELSE "check"
  /\ UNCHANGED <<list, deadline, now, snapshot>>

Walk == Begin \/ Check \/ AskType \/ AskTtl \/ Resume

SNext == Walk \/ Tick \/ Evict \/ \E k \in Keys : Use(k) \/ RemoveKey(k)

SSpec == SInit /\ [][SNext]_svars

-----------------------------------------------------------------------------
\* No sequence of uses, removals, evictions and walks breaks a link, nor leaves a
\* deadline behind: the pointers always form one list, through every node of the
\* Map and nothing else.
WellKept == SnapshotTypeOK /\ WellLinked

\* While the walk is on, what it has listed is what the recency list holds in
\* front of the key it stands at, in that order: it lists no key twice and
\* passes none over.
ListedInOrder ==
  phase \in {"check", "type", "ttl"} =>
    \E q \in Sequences(list) :
      /\ Spells(list, q)
      /\ Len(snapshot) < Len(q) /\ q[Len(snapshot) + 1] = current
      /\ SubSeq(q, 1, Len(snapshot)) = snapshot

\* A walk that ends without removing a key has listed every key.
EndsWalk == phase # "idle" /\ phase' = "idle"

UndisturbedWalkIsComplete ==
  [][EndsWalk /\ current \in list.nodes => ToSet(snapshot') = list'.nodes]_svars

=============================================================================
