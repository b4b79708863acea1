------------------------------- MODULE Recency -------------------------------
(***************************************************************************)
(* What the recency tracker promises its caller: a sequence of distinct    *)
(* keys, the most recently used first.                                     *)
(***************************************************************************)
EXTENDS SequencesExt

CONSTANT Keys

VARIABLE recency

Without(q, k) == IF \E i \in DOMAIN q : q[i] = k
                   THEN RemoveAt(q, CHOOSE i \in DOMAIN q : q[i] = k) ELSE q

\* What a use of k, the removal of k and the eviction of the least recently
\* used key, if there is one, make of the sequence q.
Touched(q, k)   == <<k>> \o Without(q, k)
Forgotten(q, k) == Without(q, k)
Evicted(q)      == IF q = <<>> THEN <<>> ELSE Front(q)

Init == recency = <<>>

Touch(k)  == recency' = Touched(recency, k)
Forget(k) == recency' = Forgotten(recency, k)
Evict     == recency' = Evicted(recency)

Next == Evict \/ \E k \in Keys : Touch(k) \/ Forget(k)

Spec == Init /\ [][Next]_recency

=============================================================================
