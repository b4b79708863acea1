---------------------------- MODULE ExpiryManager ----------------------------
(***************************************************************************)
(* The deadlines (store-engine/src/store/ExpiryManager.ts) and the sweep   *)
(* that reclaims due keys: ExpirySweeper's timer calls sweepExpired, which *)
(* asks collectExpired for the due keys among the next few of a dense      *)
(* array and then clears each.  Commands set and clear deadlines between   *)
(* sweeps, and each clear swaps the array's last key into the hole, under  *)
(* the rotating cursor's feet.  Array indices count from 0, as in the code.*)
(***************************************************************************)
EXTENDS Integers, SequencesExt

CONSTANTS
  Keys,
  Ttls,            \* ticks from now that a command asks for
  SampleSize,      \* how many keys a sweep examines
  MaxTime          \* bound: the clock stops there

ASSUME ManagerAssumption == /\ Ttls \subseteq Nat \ {0}
                            /\ SampleSize \in Nat /\ MaxTime \in Nat

VARIABLES
  expiresAt,       \* key -> deadline
  keys,            \* the keys of expiresAt, densely
  pos,             \* key -> its index in keys
  cursor,          \* where the next sweep begins
  now,
  collected        \* due keys that the running sweep has yet to remove

vars == <<expiresAt, keys, pos, cursor, now, collected>>

Tracked == DOMAIN expiresAt
Due     == {k \in Tracked : now >= expiresAt[k]}
KeyAt(i) == keys[i + 1]

\* What collected holds is the matter of SweepContract.
TypeOK ==
  /\ Tracked \subseteq Keys /\ expiresAt \in [Tracked -> Nat]
  /\ keys \in Seq(Keys)
  /\ pos \in [DOMAIN pos -> Nat]
  /\ cursor \in Nat /\ now \in Nat

Init ==
  /\ expiresAt = [k \in {} |-> 0] /\ keys = <<>> /\ pos = [k \in {} |-> 0]
  /\ cursor = 0 /\ now = 0 /\ collected = <<>>

-----------------------------------------------------------------------------
Mapped(f, k, v) == [x \in DOMAIN f \cup {k} |-> IF x = k THEN v ELSE f[x]]
Unmapped(f, k)  == [x \in DOMAIN f \ {k} |-> f[x]]

\* A new deadline of a tracked key leaves its place in the array alone.
set(k, deadline) ==
  /\ expiresAt' = Mapped(expiresAt, k, deadline)
  /\ IF k \in Tracked THEN UNCHANGED <<keys, pos>>
     ELSE /\ pos' = Mapped(pos, k, Len(keys))
          /\ keys' = Append(keys, k)
  /\ UNCHANGED cursor

clear_PosNotMoved(k) ==                           \* mutant
  LET idx == pos[k]
  IN  /\ k \in DOMAIN pos
      /\ expiresAt' = Unmapped(expiresAt, k)
      /\ keys' = SubSeq([keys EXCEPT ![idx + 1] = Last(keys)], 1, Len(keys) - 1)
      /\ pos' = Unmapped(pos, k)
      /\ UNCHANGED cursor

\* The last key of the array takes the place of the cleared one.
clear(k) ==
  LET idx     == pos[k]
      lastIdx == Len(keys) - 1
      lastKey == KeyAt(lastIdx)
  IN  /\ k \in DOMAIN pos
      /\ expiresAt' = Unmapped(expiresAt, k)
      /\ keys' = SubSeq([keys EXCEPT ![idx + 1] = lastKey], 1, lastIdx)
      /\ pos' = IF idx = lastIdx THEN Unmapped(pos, k)
                ELSE Mapped(Unmapped(pos, k), lastKey, idx)
      /\ UNCHANGED cursor

Examined_OneShort ==                              \* mutant
  LET n     == Len(keys)
      start == IF cursor >= n THEN 0 ELSE cursor
  IN  [i \in 1..(IF n = 0 THEN 0 ELSE IF SampleSize < n THEN SampleSize ELSE n - 1) |-> (start + i - 1) % n]

\* The loop's indices: from the cursor (or 0, if the array has shrunk below
\* it), around the end of the array.
Examined ==
  LET n     == Len(keys)
      start == IF cursor >= n THEN 0 ELSE cursor
  IN  [i \in 1..(IF SampleSize < n THEN SampleSize ELSE n) |-> (start + i - 1) % n]

\* The loop itself: of the keys at these indices, the due ones in their order.
Expired(indices) ==
  LET expired[i \in 0..Len(indices)] ==
        IF i = 0 THEN <<>>
        ELSE IF KeyAt(indices[i]) \in Due THEN Append(expired[i - 1], KeyAt(indices[i]))
        ELSE expired[i - 1]
  IN  expired[Len(indices)]

collectExpired_CursorReset ==                     \* mutant
  collected' = Expired(Examined) /\ cursor' = 0 /\ UNCHANGED <<expiresAt, keys, pos>>
collectExpired ==
  /\ collected' = Expired(Examined)
  /\ cursor' = IF Examined = <<>> THEN cursor
               ELSE (Last(Examined) + 1) % Len(keys)
  /\ UNCHANGED <<expiresAt, keys, pos>>

-----------------------------------------------------------------------------
\* Commands and the clock wait for a running sweep: it is one callback.
Idle == collected = <<>>

SetExpiry(k, ticks) == Idle /\ set(k, now + ticks) /\ UNCHANGED <<now, collected>>
ClearExpiry(k)      == Idle /\ clear(k) /\ UNCHANGED <<now, collected>>

Tick == /\ Idle /\ now < MaxTime
        /\ now' = now + 1
        /\ UNCHANGED <<expiresAt, keys, pos, cursor, collected>>

Sweep == Idle /\ collectExpired /\ UNCHANGED now

\* The store removes the collected keys, which clears their deadlines.
Reclaim ==
  /\ ~Idle
  /\ clear(Head(collected))
  /\ collected' = Tail(collected)
  /\ UNCHANGED now

Next ==
  \/ \E k \in Keys : ClearExpiry(k) \/ \E ticks \in Ttls : SetExpiry(k, ticks)
  \/ Tick \/ Sweep \/ Reclaim

\* setInterval keeps calling the sweep, and the callback runs to its end.
Fairness == WF_vars(Sweep) /\ WF_vars(Reclaim)

Spec == Init /\ [][Next]_vars /\ Fairness

-----------------------------------------------------------------------------
\* However sets, clears and sweeps alternate, the array is an exact mirror of
\* the Map: each tracked key stands once, where its index says.
Mirrored ==
  /\ TypeOK
  /\ Len(keys) = Cardinality(Tracked)
  /\ DOMAIN pos = Tracked
  /\ \A k \in Tracked : pos[k] < Len(keys) /\ KeyAt(pos[k]) = k

\* A sweep collects only due keys, none twice and never more than its sample,
\* and one that can examine every key misses no due key.
SweepContract ==
  [][Sweep => /\ ToSet(collected') \subseteq Due
              /\ Cardinality(ToSet(collected')) = Len(collected')
              /\ Len(collected') <= SampleSize
              /\ Len(keys) <= SampleSize => ToSet(collected') = Due]_vars

\* The sweep starves no key: whatever other keys come and go and however the
\* array is shuffled, a due key is eventually removed or given a new deadline.
DueKeysGo == \A k \in Keys : k \in Due ~> k \notin Due

=============================================================================
