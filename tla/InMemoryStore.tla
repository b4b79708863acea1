---------------------------- MODULE InMemoryStore ----------------------------
(***************************************************************************)
(* The in-memory store as the commands of its clients, the expiry sweeper, *)
(* the statistics page and the clock drive it.  One action is one call of  *)
(* a method (see StoreOps), except that the two loops that remove expired  *)
(* keys one by one (the sweep and KEYS) take a step per key: while such a  *)
(* loop runs nothing else does, because the process has one thread.        *)
(***************************************************************************)
EXTENDS StoreState

CONSTANTS
  Indices,         \* the indices that LRANGE is given
  SampleSize,      \* how many deadlines a sweep examines
  MaxEvictions     \* bound on the eviction counter

ASSUME EvictionAssumption == MaxEvictions \in Nat

VARIABLE reclaiming   \* the expired keys the running loop has yet to remove

vars == <<store, now, reclaiming>>

-----------------------------------------------------------------------------
TypeOK ==
  /\ WellTyped(store)
  /\ now \in Nat
  /\ reclaiming \subseteq Keys

Init ==
  /\ store = EmptyStore
  /\ now = 0
  /\ reclaiming = {}

-----------------------------------------------------------------------------
WithinBounds(s) == s.evictions <= MaxEvictions /\ ShortLists(s)

\* One method call: it starts when no loop is running and ends before any
\* other code runs.
Call(result) ==
  /\ reclaiming = {}
  /\ WithinBounds(result.store)
  /\ store' = result.store
  /\ UNCHANGED <<now, reclaiming>>

Pairs == UNION {[F -> Vals] : F \in (SUBSET Fields) \ {{}}}

Get(k)          == Call(get(store, k, now))
Set(k, v, secs) == Call(set(store, k, v, secs, now))
Del(k)          == Call(del(store, k, now))
Expire(k, secs) == Call(expire(store, k, secs, now))
Exists(k)       == Call(exists(store, k, now))
Ttl(k)          == Call(ttl(store, k, now))
Persist(k)      == Call(persist(store, k, now))
KeyType(k)      == Call(keyType(store, k, now))

LPush(k, vals)  == Call(lpush(store, k, vals, now))
RPush(k, vals)  == Call(rpush(store, k, vals, now))
LPop(k)         == Call(lpop(store, k, now))
RPop(k)         == Call(rpop(store, k, now))
LLen(k)         == Call(llen(store, k, now))
LRange(k, i, j) == Call(lrange(store, k, i, j, now))

HSet(k, pairs)  == Call(hset(store, k, pairs, now))
HGet(k, f)      == Call(hget(store, k, f, now))
HDel(k, fields) == Call(hdel(store, k, fields, now))
HGetAll(k)      == Call(hgetall(store, k, now))
HLen(k)         == Call(hlen(store, k, now))

KeysMRU         == Call(keysMRU(store, now))

-----------------------------------------------------------------------------
Expired == {k \in Present(store) : isExpired(store, k, now)}

\* KEYS walks the whole Map and removes every expired key it meets.
KeysCommand ==
  /\ reclaiming = {} /\ Expired # {}
  /\ reclaiming' = Expired
  /\ UNCHANGED <<store, now>>

\* A sweep: collectExpired examines SampleSize deadlines, all of them if there
\* are no more (which ones is the business of module ExpiryManager).
SweepExpired ==
  /\ reclaiming = {}
  /\ \E collected \in (SUBSET Expired) \ {{}} :
       /\ Cardinality(collected) <= SampleSize
       /\ Cardinality(DOMAIN store.expiry) <= SampleSize => collected = Expired
       /\ reclaiming' = collected
  /\ UNCHANGED <<store, now>>

\* The body of either loop.
Reclaim(k) ==
  /\ k \in reclaiming
  /\ store' = removeKey(store, k)
  /\ reclaiming' = reclaiming \ {k}
  /\ now' = now

\* The persistence manager records the present mutation count.
Recorded ==
  /\ reclaiming = {}
  /\ store' = [store EXCEPT !.dirty = FALSE]
  /\ UNCHANGED <<now, reclaiming>>

Tick ==
  /\ reclaiming = {} /\ now < MaxTime
  /\ now' = now + 1
  /\ UNCHANGED <<store, reclaiming>>

StringCommand(k) ==
  \/ Get(k)
  \/ \E v \in Vals, secs \in Ttls \cup {NoTTL} : Set(k, v, secs)

KeyCommand(k) ==
  \/ Del(k) \/ Exists(k) \/ Ttl(k) \/ Persist(k) \/ KeyType(k)
  \/ \E secs \in Ttls : Expire(k, secs)

ListCommand(k) ==
  \/ \E vals \in Arguments : LPush(k, vals) \/ RPush(k, vals)
  \/ LPop(k) \/ RPop(k) \/ LLen(k)
  \/ \E i, j \in Indices : LRange(k, i, j)

HashCommand(k) ==
  \/ \E pairs \in Pairs : HSet(k, pairs)
  \/ \E f \in Fields : HGet(k, f)
  \/ \E fields \in (SUBSET Fields) \ {{}} : HDel(k, fields)
  \/ HGetAll(k) \/ HLen(k)

Command(k) == StringCommand(k) \/ KeyCommand(k) \/ ListCommand(k) \/ HashCommand(k)

Next ==
  \/ \E k \in Keys : Command(k) \/ Reclaim(k)
  \/ KeysMRU \/ KeysCommand \/ SweepExpired \/ Recorded \/ Tick

Spec == Init /\ [][Next]_vars

-----------------------------------------------------------------------------
(***************************************************************************)
(* Safety.                                                                 *)
(***************************************************************************)
\* The three structures never drift apart (the class's stated invariant): the
\* data, the Map's order and the recency list hold the same keys, once each,
\* and only a present key has a deadline.
Lockstep == InLockstep(store)

\* No sequence of commands, whatever it overwrites, expires or evicts, leaves
\* more than maxKeys keys.
Capacity == Fits(store)

\* Popping or deleting the last element removes the key with it, so no list
\* or hash is ever empty.
NoEmptyContainer == Filled(store)

\* All that the methods take for granted of the contents.
Consistent == TypeOK /\ Lockstep /\ NoEmptyContainer

\* Everything the methods of contents s return for key k.
Outcomes(s, k) ==
     {<<"key", get(s, k, now), del(s, k, now), exists(s, k, now), ttl(s, k, now),
        persist(s, k, now), keyType(s, k, now)>>}
\cup {<<"set", secs, set(s, k, v, secs, now)>> : v \in Vals, secs \in Ttls \cup {NoTTL}}
\cup {<<"expire", secs, expire(s, k, secs, now)>> : secs \in Ttls}
\cup {<<"list", lpop(s, k, now), rpop(s, k, now), llen(s, k, now)>>}
\cup {<<"lrange", i, j, lrange(s, k, i, j, now)>> : i, j \in Indices}
\cup {<<"push", vals, lpush(s, k, vals, now), rpush(s, k, vals, now)>> : vals \in Arguments}
\cup {<<"hash", hgetall(s, k, now), hlen(s, k, now)>>}
\cup {<<"hget", f, hget(s, k, f, now)>> : f \in Fields}
\cup {<<"hset", pairs, hset(s, k, pairs, now)>> : pairs \in Pairs}
\cup {<<"hdel", fields, hdel(s, k, fields, now)>> : fields \in SUBSET Fields}

\* A key past its deadline cannot be told from an absent one: every method that is
\* given a key returns, and leaves, what it would had the key been removed beforehand.
ExpiredIsAbsent ==
  \A k \in Expired : Outcomes(store, k) = Outcomes(removeKey(store, k), k)

\* What the methods that create a key, and those for lists and hashes, return.
Sets(k)   == {set(store, k, v, secs, now) : v \in Vals, secs \in Ttls \cup {NoTTL}}
Pushes(k) == {lpush(store, k, vals, now) : vals \in Arguments}
        \cup {rpush(store, k, vals, now) : vals \in Arguments}
HSets(k)  == {hset(store, k, pairs, now) : pairs \in Pairs}

ListCalls(k) == Pushes(k)
  \cup {lpop(store, k, now), rpop(store, k, now), llen(store, k, now)}
  \cup {lrange(store, k, i, j, now) : i, j \in Indices}

HashCalls(k) == HSets(k)
  \cup {hgetall(store, k, now), hlen(store, k, now)}
  \cup {hget(store, k, f, now) : f \in Fields}

HDels(k, fieldSets) == {hdel(store, k, fields, now) : fields \in fieldSets}

\* A command refused with WRONGTYPE changes nothing at all, recency included.
RefusedChangesNothing ==
  \A k \in Keys :
    \A result \in ListCalls(k) \cup HashCalls(k) \cup HDels(k, SUBSET Fields) :
      result.reply = WrongType => result.store = store

\* The calls that count as a use of a key that is live, and those that do not: to
\* ask for its presence, its TTL or its type, or to ask for what is not there.
Touched(k) ==
  {F \in SUBSET Fields : Holds(store, k, "hash") /\ F \cap DOMAIN ValueOf(store, k) # {}}

Uses(k) ==
       Sets(k) \cup {expire(store, k, secs, now) : secs \in Ttls} \cup {del(store, k, now)}
  \cup {r \in {get(store, k, now), persist(store, k, now)} : r.reply \notin {Nil, Number(0)}}
  \cup {r \in ListCalls(k) \cup HashCalls(k) : r.reply # WrongType}
  \cup HDels(k, Touched(k))

Looks(k) ==
       {exists(store, k, now), ttl(store, k, now), keyType(store, k, now)}
  \cup {r \in {get(store, k, now), persist(store, k, now)} : r.reply \in {Nil, Number(0)}}
  \cup HDels(k, (SUBSET Fields) \ Touched(k))

\* A use brings its key to the front of the order of use, ahead of all others
\* and without moving them, unless it removes it; what is not a use moves nothing.
UsesComeFirst ==
  \A k \in Live(store, now) :
    /\ \A r \in Uses(k) :
         r.store.lru = (IF k \in Present(r.store) THEN <<k>> ELSE <<>>) \o Without(store.lru, k)
    /\ \A r \in Looks(k) : r.store = store

\* A new key comes first too, and what makes room for it is the last one.
NewComesFirst ==
  \A k \in Keys \ Present(store) : \A r \in Sets(k) \cup Pushes(k) \cup HSets(k) :
    r.store.lru = <<k>> \o (IF Cardinality(Present(store)) < MaxKeys THEN store.lru
                                                                    ELSE Front(store.lru))

\* The order of use, by which keys are evicted, is the order in which the clients
\* used them: every method moves its key in it if, and only if, it is a use.
OrderOfUse == RefusedChangesNothing /\ UsesComeFirst /\ NewComesFirst

-----------------------------------------------------------------------------
(***************************************************************************)
(* What a step may never do.                                               *)
(***************************************************************************)
Gone == Live(store, now) \ Present(store')
New  == Present(store') \ Present(store)

\* A live key leaves in two ways only: alone, by the command that removes it;
\* or, counted as an eviction, as the least recently used key of a full store
\* that takes a new key.  No eviction is counted otherwise.
LiveKeysLeaveTwoWays ==
  [][IF store'.evictions = store.evictions
       THEN Gone # {} => /\ Cardinality(Gone) = 1
                         /\ Present(store') = Present(store) \ Gone
       ELSE /\ store'.evictions = store.evictions + 1
            /\ Gone = {Last(store.lru)}
            /\ New # {} /\ Cardinality(Present(store)) = MaxKeys]_vars

Changed == <<store'.values, store'.expiry>> # <<store.values, store.expiry>>

\* Creating a list is the one change of data or deadlines that the mutation
\* count misses; after any other the next save is not skipped.
OtherMutationsCounted ==
  [][Changed /\ ~store'.dirty =>
       \E k \in New : /\ Present(store') = Present(store) \cup {k}
                      /\ Holds(store', k, "list")]_vars

-----------------------------------------------------------------------------
(***************************************************************************)
(* The storage contract: the live keys, each with its value and deadline,  *)
(* behave as the map of ExpiringStore.  Lazy expiry, sweeps and reads,     *)
(* which change what is stored, do not change what is live.                *)
(***************************************************************************)
LiveEntries ==
  [k \in Live(store, now) |->
     [type     |-> TypeOf(store, k),
      value    |-> ValueOf(store, k),
      deadline |-> IF k \in DOMAIN store.expiry THEN store.expiry[k] ELSE 0]]

Contract == INSTANCE ExpiringStore WITH live <- LiveEntries

\* The store implements the contract.
ImplementsContract == Contract!Spec

=============================================================================
