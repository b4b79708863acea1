----------------------------- MODULE LRUTracker -----------------------------
(***************************************************************************)
(* The recency tracker (store-engine/src/store/LRUTracker.ts) at the level *)
(* of its pointers: a doubly linked list threaded through the nodes of a   *)
(* Map, with the most recently used key at the head.  A node is named by   *)
(* its key: the Map holds one node per key, and the fields of a node that  *)
(* has been deleted are undefined, as those of a new one are.              *)
(***************************************************************************)
EXTENDS SequencesExt

CONSTANTS
  Keys,
  Undefined        \* no node

ASSUME UndefinedAssumption == Undefined \notin Keys

VARIABLE list      \* a record of #nodes (its keys), prev and next of every
                   \* node, #head and #tail

NodeOrNone == Keys \cup {Undefined}

Lists == [nodes : SUBSET Keys,
          prev  : [Keys -> NodeOrNone],
          next  : [Keys -> NodeOrNone],
          head  : NodeOrNone,
          tail  : NodeOrNone]

TypeOK == list \in Lists

EmptyList == [nodes |-> {},
              prev  |-> [k \in Keys |-> Undefined],
              next  |-> [k \in Keys |-> Undefined],
              head  |-> Undefined,
              tail  |-> Undefined]

Init == list = EmptyList

-----------------------------------------------------------------------------
pushFront_AtTheTail(l, k) ==                      \* mutant
  [l EXCEPT
     !.prev[k] = l.tail,
     !.next    = [x \in Keys |-> IF x = l.tail THEN k ELSE @[x]],
     !.tail    = k,
     !.head    = IF @ = Undefined THEN k ELSE @]

\* The old head, if any, points back at k; an empty list gets its tail too.
pushFront(l, k) ==
  [l EXCEPT
     !.next[k] = l.head,
     !.prev    = [x \in Keys |-> IF x = k THEN Undefined
                                 ELSE IF x = l.head THEN k ELSE @[x]],
     !.head    = k,
     !.tail    = IF @ = Undefined THEN k ELSE @]

unlink_TailKept(l, k) ==                          \* mutant
  LET before == l.prev[k]
      after  == l.next[k]
  IN  [l EXCEPT
         !.next = [x \in Keys |-> IF x = k THEN Undefined
                                  ELSE IF x = before THEN after ELSE @[x]],
         !.prev = [x \in Keys |-> IF x = k THEN Undefined
                                  ELSE IF x = after THEN before ELSE @[x]],
         !.head = IF before = Undefined THEN after ELSE @]

\* The neighbours of k, or the list's ends where it has none, close over it.
unlink(l, k) ==
  LET before == l.prev[k]
      after  == l.next[k]
  IN  [l EXCEPT
         !.next = [x \in Keys |-> IF x = k THEN Undefined
                                  ELSE IF x = before THEN after ELSE @[x]],
         !.prev = [x \in Keys |-> IF x = k THEN Undefined
                                  ELSE IF x = after THEN before ELSE @[x]],
         !.head = IF before = Undefined THEN after ELSE @,
         !.tail = IF after = Undefined THEN before ELSE @]

touched(l, k) ==
  IF k \notin l.nodes THEN pushFront([l EXCEPT !.nodes = @ \cup {k}], k)
  ELSE IF k = l.head THEN l
  ELSE pushFront(unlink(l, k), k)

deleted(l, k) ==
  IF k \in l.nodes THEN [unlink(l, k) EXCEPT !.nodes = @ \ {k}] ELSE l

evicted(l) == IF l.tail = Undefined THEN l ELSE deleted(l, l.tail)

Touch(k)  == list' = touched(list, k)
Delete(k) == list' = deleted(list, k)
EvictLRU  == list' = evicted(list)

-----------------------------------------------------------------------------
(***************************************************************************)
(* The sequence that the pointers spell out: q lists the nodes from head   *)
(* to tail, along next, and prev is its mirror image.                      *)
(***************************************************************************)
Spells(l, q) ==
  /\ ToSet(q) = l.nodes /\ \A i, j \in DOMAIN q : q[i] = q[j] => i = j
  /\ l.head = IF q = <<>> THEN Undefined ELSE q[1]
  /\ l.tail = IF q = <<>> THEN Undefined ELSE q[Len(q)]
  /\ \A i \in DOMAIN q :
       /\ l.next[q[i]] = IF i = Len(q) THEN Undefined ELSE q[i + 1]
       /\ l.prev[q[i]] = IF i = 1 THEN Undefined ELSE q[i - 1]

Sequences(l) == [1..Cardinality(l.nodes) -> l.nodes]

\* No sequence of touches, deletes and evictions breaks a link: the pointers
\* always form one list, through every node of the Map and nothing else.
WellLinked ==
  /\ \E q \in Sequences(list) : Spells(list, q)
  /\ \A k \in Keys \ list.nodes : list.prev[k] = Undefined /\ list.next[k] = Undefined

Order(l) == CHOOSE q \in Sequences(l) : Spells(l, q)

Abstract == INSTANCE Recency WITH recency <- Order(list)

\* However the operations follow each other, the tracker implements the abstract
\* recency order: a touched key goes to the front, a removed one leaves the rest
\* in order, and the evicted one is the last.
ImplementsRecency == Abstract!Spec

=============================================================================
