------------------------------- MODULE StoreOps -------------------------------
(***************************************************************************)
(* The methods of the in-memory store (store-engine/src/store/             *)
(* InMemoryStore.ts) as functions of the store's contents.  A method runs  *)
(* to completion on the event loop, so it is an operator from the contents *)
(* and the clock to the new contents and what the method returns.  The     *)
(* modules that run commands against the store, one at a time, in a        *)
(* transaction or replayed from a log, are built from these operators.     *)
(*                                                                         *)
(* The contents are one record:                                            *)
(*   values     #values: each present key's tagged value                   *)
(*   order      the insertion order of the Map #values                     *)
(*   lru        #lru: the keys, most recently used first                   *)
(*   expiry     #expiry: the deadline of each key that has one             *)
(*   evictions  #evictionCount                                             *)
(*   dirty      whether #dirtyCount has moved since the count that the     *)
(*              persistence manager last recorded (the code compares the   *)
(*              two for equality and never reads the number itself)        *)
(* A time is a natural number of clock ticks.                              *)
(***************************************************************************)
EXTENDS Integers, SequencesExt

CONSTANTS
  Keys,            \* names a command can address
  Vals,            \* what strings, list elements and hash fields hold
  Fields,          \* field names of hashes
  MaxKeys,         \* capacity (maxKeys)
  TicksPerSecond   \* clock ticks in a second (1000 in the code)

ASSUME CapacityAssumption == MaxKeys \in Nat \ {0}
ASSUME ClockAssumption == TicksPerSecond \in Nat \ {0}

-----------------------------------------------------------------------------
(***************************************************************************)
(* Values and contents.                                                    *)
(***************************************************************************)
\* A stored value is its kind and its data: one kind is never looked at as
\* another.
StringValue(v) == <<"string", v>>
ListValue(q)   == <<"list", q>>
HashValue(h)   == <<"hash", h>>

Hashes == UNION {[F -> Vals] : F \in SUBSET Fields}

IsStoredValue(x) == \/ x \in {"string"} \X Vals
                    \/ x \in {"list"} \X Seq(Vals)
                    \/ x \in {"hash"} \X Hashes

\* What a method returns, with the contents it leaves.  A reply is tagged, as
\* on the wire, so that replies of different kinds can be compared.
Result(s, reply) == [store |-> s, reply |-> reply]
Nil        == <<"nil">>
Ok         == <<"ok">>
WrongType  == <<"wrongtype">>
Number(n)  == <<"integer", n>>
Bulk(v)    == <<"bulk", v>>
Array(q)   == <<"array", q>>

EmptyStore == [values    |-> [k \in {} |-> StringValue(k)],
               order     |-> <<>>,
               lru       |-> <<>>,
               expiry    |-> [k \in {} |-> 0],
               evictions |-> 0,
               dirty     |-> FALSE]

Present(s)       == DOMAIN s.values
TypeOf(s, k)     == s.values[k][1]
ValueOf(s, k)    == s.values[k][2]
Holds(s, k, typ) == k \in Present(s) /\ TypeOf(s, k) = typ

\* The contents are a record of these fields; the two Maps are functions on
\* some of the keys.
WellTyped(s) ==
  /\ s \in [values : {s.values}, order : Seq(Keys), lru : Seq(Keys),
            expiry : {s.expiry}, evictions : Nat, dirty : BOOLEAN]
  /\ Present(s) \subseteq Keys /\ s.values = [k \in Present(s) |-> s.values[k]]
  /\ \A k \in Present(s) : IsStoredValue(s.values[k])
  /\ DOMAIN s.expiry \subseteq Keys /\ s.expiry \in [DOMAIN s.expiry -> Nat]

\* The data, the Map's order and the recency list hold the same keys, once
\* each, and only a present key has a deadline.
NoRepeats(q) == \A i, j \in DOMAIN q : q[i] = q[j] => i = j

InLockstep(s) ==
  /\ ToSet(s.lru) = Present(s) /\ NoRepeats(s.lru)
  /\ ToSet(s.order) = Present(s) /\ NoRepeats(s.order)
  /\ DOMAIN s.expiry \subseteq Present(s)

\* No list and no hash is empty.
IsFilled(x) == /\ x[1] = "list" => x[2] # <<>>
               /\ x[1] = "hash" => DOMAIN x[2] # {}

Filled(s) == \A k \in Present(s) : IsFilled(s.values[k])

Fits(s) == IsFiniteSet(Present(s)) /\ Cardinality(Present(s)) <= MaxKeys

\* q without its element k; f with k mapped to v; f without k.
Without(q, k) == IF \E i \in DOMAIN q : q[i] = k
                   THEN RemoveAt(q, CHOOSE i \in DOMAIN q : q[i] = k)
                   ELSE q
With(f, k, v) == [x \in DOMAIN f \cup {k} |-> IF x = k THEN v ELSE f[x]]
Drop(f, k)    == [x \in DOMAIN f \ {k} |-> f[x]]

-----------------------------------------------------------------------------
(***************************************************************************)
(* The private parts every method is made of.                              *)
(***************************************************************************)
isExpired(s, k, t) == k \in DOMAIN s.expiry /\ t >= s.expiry[k]

Live(s, t) == {k \in Present(s) : ~isExpired(s, k, t)}

touch(s, k) == [s EXCEPT !.lru = <<k>> \o Without(@, k)]

mutated(s) == [s EXCEPT !.dirty = TRUE]

\* #values.set (or a change of the list or hash in place) and the touch that
\* always follows it.  A Map keeps the place of a key it already has.
put(s, k, v) ==
  [touch(s, k) EXCEPT
     !.values = With(@, k, v),
     !.order  = IF k \in Present(s) THEN @ ELSE Append(@, k)]

removeKey_KeepsDeadline(s, k) ==                  \* mutant
  IF k \in Present(s)
    THEN [s EXCEPT !.values = Drop(@, k), !.order = Without(@, k),
                   !.lru = Without(@, k), !.dirty = TRUE]
    ELSE s
removeKey(s, k) ==
  IF k \in Present(s)
    THEN [s EXCEPT !.values = Drop(@, k),
                   !.order  = Without(@, k),
                   !.lru    = Without(@, k),
                   !.expiry = Drop(@, k),
                   !.dirty  = TRUE]
    ELSE s

expireIfNeeded(s, k, t) ==
  IF k \in Present(s) /\ isExpired(s, k, t) THEN removeKey(s, k) ELSE s

makeRoomForNewKey_CountsExpiries(s, t) ==         \* mutant
  IF s.lru = <<>> THEN s
  ELSE [removeKey(s, Last(s.lru)) EXCEPT !.evictions = @ + 1]

\* The victim is the least recently used key; an expired victim is an expiry
\* and not an eviction.
makeRoomForNewKey(s, t) ==
  IF s.lru = <<>> THEN s
  ELSE LET victim == Last(s.lru)
           gone   == removeKey(s, victim)
       IN  IF isExpired(s, victim, t) THEN gone
           ELSE [gone EXCEPT !.evictions = @ + 1]

reserveSlotFor_OneTooMany(s, k, t) ==             \* mutant
  IF k \notin Present(s) /\ Cardinality(Present(s)) > MaxKeys
    THEN makeRoomForNewKey(s, t)
    ELSE s
reserveSlotFor(s, k, t) ==
  IF k \notin Present(s) /\ Cardinality(Present(s)) >= MaxKeys
    THEN makeRoomForNewKey(s, t)
    ELSE s

setDeadline(s, k, d) == [s EXCEPT !.expiry = With(@, k, d)]
clearDeadline(s, k)  == [s EXCEPT !.expiry = Drop(@, k)]

\* The three ways a list or hash method ends: the key is absent, it holds
\* another kind of value (nothing more happens), or the method proceeds.
OnKind(s, k, typ, absent, found) ==
  IF k \notin Present(s) THEN absent
  ELSE IF TypeOf(s, k) # typ THEN Result(s, WrongType)
  ELSE found

-----------------------------------------------------------------------------
(***************************************************************************)
(* Strings and key-level methods.  p is the contents after the lazy expiry *)
(* of the key.                                                             *)
(***************************************************************************)
NoTTL == 0   \* the optional argument of SET left out

get(s, k, t) ==
  LET p == expireIfNeeded(s, k, t)
  IN  IF Holds(p, k, "string") THEN Result(touch(p, k), Bulk(ValueOf(p, k)))
      ELSE Result(p, Nil)

set(s, k, v, ttlSeconds, t) ==
  LET p == reserveSlotFor(expireIfNeeded(s, k, t), k, t)
      w == mutated(put(p, k, StringValue(v)))
  IN  Result(IF ttlSeconds # NoTTL
               THEN setDeadline(w, k, t + ttlSeconds * TicksPerSecond)
               ELSE clearDeadline(w, k), Ok)

del(s, k, t) ==
  LET p == expireIfNeeded(s, k, t)
  IN  IF k \in Present(p) THEN Result(removeKey(p, k), Number(1))
      ELSE Result(p, Number(0))

expire(s, k, seconds, t) ==
  LET p == expireIfNeeded(s, k, t)
      d == setDeadline(p, k, t + seconds * TicksPerSecond)
  IN  IF k \in Present(p) THEN Result(mutated(touch(d, k)), Number(1))
      ELSE Result(p, Number(0))

exists_Ungated(s, k, t) ==                        \* mutant
  Result(s, Number(IF k \in Present(s) THEN 1 ELSE 0))
exists(s, k, t) ==
  LET p == expireIfNeeded(s, k, t)
  IN  Result(p, Number(IF k \in Present(p) THEN 1 ELSE 0))

\* Seconds left, rounded up.
ttl(s, k, t) ==
  LET p    == expireIfNeeded(s, k, t)
      left == p.expiry[k] - t
  IN  Result(p, Number(IF k \notin Present(p) THEN -2
                     ELSE IF k \notin DOMAIN p.expiry THEN -1
                     ELSE (left + TicksPerSecond - 1) \div TicksPerSecond))

persist(s, k, t) ==
  LET p == expireIfNeeded(s, k, t)
  IN  IF k \in Present(p) /\ k \in DOMAIN p.expiry
        THEN Result(mutated(touch(clearDeadline(p, k), k)), Number(1))
        ELSE Result(p, Number(0))

keyType(s, k, t) ==
  LET p == expireIfNeeded(s, k, t)
  IN  Result(p, IF k \in Present(p) THEN Bulk(TypeOf(p, k)) ELSE Nil)

-----------------------------------------------------------------------------
(***************************************************************************)
(* Lists.  vals is a non-empty sequence (the parser refuses an empty one). *)
(***************************************************************************)
\* A new list does not move #dirtyCount: only what makes room for it does.
pushNewList(s, k, list, t) ==
  Result(put(reserveSlotFor(s, k, t), k, ListValue(list)), Number(Len(list)))

lpush_DropsDeadline(s, k, vals, t) ==             \* mutant
  LET p    == expireIfNeeded(s, k, t)
      list == Reverse(vals) \o ValueOf(p, k)
  IN  OnKind(p, k, "list",
             pushNewList(p, k, Reverse(vals), t),
             Result(mutated(clearDeadline(put(p, k, ListValue(list)), k)), Number(Len(list))))
lpush(s, k, vals, t) ==
  LET p    == expireIfNeeded(s, k, t)
      list == Reverse(vals) \o ValueOf(p, k)   \* each value is unshifted
  IN  OnKind(p, k, "list",
             pushNewList(p, k, Reverse(vals), t),
             Result(mutated(put(p, k, ListValue(list))), Number(Len(list))))

rpush(s, k, vals, t) ==
  LET p    == expireIfNeeded(s, k, t)
      list == ValueOf(p, k) \o vals
  IN  OnKind(p, k, "list",
             pushNewList(p, k, vals, t),
             Result(mutated(put(p, k, ListValue(list))), Number(Len(list))))

popped_NotCounted(s, k, rest) ==                  \* mutant
  IF rest = <<>> THEN removeKey(s, k) ELSE put(s, k, ListValue(rest))

\* A list that becomes empty takes its key with it.
popped(s, k, rest) == IF rest = <<>> THEN removeKey(s, k)
                      ELSE mutated(put(s, k, ListValue(rest)))

lpop(s, k, t) ==
  LET p    == expireIfNeeded(s, k, t)
      list == ValueOf(p, k)
  IN  OnKind(p, k, "list", Result(p, Nil),
             Result(popped(p, k, Tail(list)), Bulk(Head(list))))

rpop(s, k, t) ==
  LET p    == expireIfNeeded(s, k, t)
      list == ValueOf(p, k)
  IN  OnKind(p, k, "list", Result(p, Nil),
             Result(popped(p, k, Front(list)), Bulk(Last(list))))

slice_StopExcluded(list, start, stop) ==          \* mutant
  LET len  == Len(list)
      lo   == IF start < 0 THEN len + start ELSE start
      hi   == IF stop < 0 THEN len + stop ELSE stop
      from == IF lo < 0 THEN 0 ELSE lo
      to   == IF hi >= len THEN len - 1 ELSE hi
  IN  IF from > to THEN <<>> ELSE SubSeq(list, from + 1, to)

\* Indices count from 0; a negative one counts from the end.
slice(list, start, stop) ==
  LET len  == Len(list)
      lo   == IF start < 0 THEN len + start ELSE start
      hi   == IF stop < 0 THEN len + stop ELSE stop
      from == IF lo < 0 THEN 0 ELSE lo
      to   == IF hi >= len THEN len - 1 ELSE hi
  IN  IF from > to THEN <<>> ELSE SubSeq(list, from + 1, to + 1)

lrange_NotAUse(s, k, start, stop, t) ==           \* mutant
  LET p == expireIfNeeded(s, k, t)
  IN  OnKind(p, k, "list", Result(p, Array(<<>>)),
             Result(p, Array(slice(ValueOf(p, k), start, stop))))
lrange(s, k, start, stop, t) ==
  LET p == expireIfNeeded(s, k, t)
  IN  OnKind(p, k, "list", Result(p, Array(<<>>)),
             Result(touch(p, k), Array(slice(ValueOf(p, k), start, stop))))

\* answer holds, in order, exactly the elements of list at the positions from start
\* to stop, counted from 0, a negative index counting from the end.
IsRange(answer, list, start, stop) ==
  LET Index(x) == IF x < 0 THEN Len(list) + x ELSE x
      wanted   == {p \in 0..Len(list) - 1 : Index(start) <= p /\ p <= Index(stop)}
  IN  /\ Len(answer) = Cardinality(wanted)
      /\ \A p \in wanted : answer[Cardinality({q \in wanted : q <= p})] = list[p + 1]

llen(s, k, t) ==
  LET p == expireIfNeeded(s, k, t)
  IN  OnKind(p, k, "list", Result(p, Number(0)),
             Result(touch(p, k), Number(Len(ValueOf(p, k)))))

-----------------------------------------------------------------------------
(***************************************************************************)
(* Hashes.  pairs is a non-empty function from fields to values: a later   *)
(* pair for the same field wins.  HGETALL's reply is the hash itself.      *)
(***************************************************************************)
hset(s, k, pairs, t) ==
  LET p    == expireIfNeeded(s, k, t)
      old  == ValueOf(p, k)
      all  == [f \in DOMAIN pairs \cup DOMAIN old |->
                 IF f \in DOMAIN pairs THEN pairs[f] ELSE old[f]]
  IN  OnKind(p, k, "hash",
        Result(mutated(put(reserveSlotFor(p, k, t), k, HashValue(pairs))),
               Number(Cardinality(DOMAIN pairs))),
        Result(mutated(put(p, k, HashValue(all))),
               Number(Cardinality(DOMAIN pairs \ DOMAIN old))))

hget(s, k, f, t) ==
  LET p == expireIfNeeded(s, k, t)
      h == ValueOf(p, k)
  IN  OnKind(p, k, "hash", Result(p, Nil),
             Result(touch(p, k), IF f \in DOMAIN h THEN Bulk(h[f]) ELSE Nil))

\* A hash that becomes empty takes its key with it; a call that removes no
\* field does not even count as a use.
hdel(s, k, fields, t) ==
  LET p       == expireIfNeeded(s, k, t)
      h       == ValueOf(p, k)
      removed == DOMAIN h \cap fields
      rest    == [f \in DOMAIN h \ fields |-> h[f]]
      after   == IF DOMAIN rest = {} THEN removeKey(p, k)
                 ELSE IF removed = {} THEN p
                 ELSE mutated(put(p, k, HashValue(rest)))
  IN  OnKind(p, k, "hash", Result(p, Number(0)),
             Result(after, Number(Cardinality(removed))))

hgetall(s, k, t) ==
  LET p == expireIfNeeded(s, k, t)
  IN  OnKind(p, k, "hash", Result(p, Array(<<>>)),
             Result(touch(p, k), <<"map", ValueOf(p, k)>>))

hlen(s, k, t) ==
  LET p == expireIfNeeded(s, k, t)
  IN  OnKind(p, k, "hash", Result(p, Number(0)),
             Result(touch(p, k), Number(Cardinality(DOMAIN ValueOf(p, k)))))

-----------------------------------------------------------------------------
(***************************************************************************)
(* Whole-keyspace reads.                                                   *)
(***************************************************************************)
\* KEYS: what it returns; the expired keys it meets on the way are removed.
keys(s, matching, t) ==
  Array(SelectSeq(s.order, LAMBDA k : k \in Live(s, t) /\ k \in matching))

\* The statistics page's walk from the most recently used key.  Removing an
\* expired key clears the next pointer the walk is about to follow, so the
\* walk ends at the first expired key it meets.
keysMRU(s, t) ==
  LET due  == {i \in DOMAIN s.lru : isExpired(s, s.lru[i], t)}
      stop == CHOOSE i \in due : \A j \in due : i <= j
  IN  IF due = {} THEN Result(s, Array(s.lru))
      ELSE Result(removeKey(s, s.lru[stop]), Array(SubSeq(s.lru, 1, stop - 1)))

=============================================================================
