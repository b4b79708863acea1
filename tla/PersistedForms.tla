---------------------------- MODULE PersistedForms ----------------------------
(***************************************************************************)
(* The two forms in which the store is kept on disk, as functions of its   *)
(* contents: the entries of a snapshot (PersistenceManager) and the lines  *)
(* of a log, those that commands write as they are executed                *)
(* (CommandHandler) and those that a rewrite makes up for the contents     *)
(* (AofWriter); and what a start makes of them (index.ts).                 *)
(***************************************************************************)
EXTENDS StoreOps

-----------------------------------------------------------------------------
(***************************************************************************)
(* Commands: what they do to the store and whether they are logged.        *)
(***************************************************************************)
Perform(s, cmd, t) ==
  CASE cmd.name = "SET"     -> set(s, cmd.key, cmd.value, cmd.secs, t)
    [] cmd.name = "GET"     -> get(s, cmd.key, t)
    [] cmd.name = "DEL"     -> del(s, cmd.key, t)
    [] cmd.name = "EXPIRE"  -> expire(s, cmd.key, cmd.secs, t)
    [] cmd.name = "PERSIST" -> persist(s, cmd.key, t)
    [] cmd.name = "LPUSH"   -> lpush(s, cmd.key, cmd.values, t)
    [] cmd.name = "RPUSH"   -> rpush(s, cmd.key, cmd.values, t)
    [] cmd.name = "LPOP"    -> lpop(s, cmd.key, t)
    [] cmd.name = "RPOP"    -> rpop(s, cmd.key, t)
    [] cmd.name = "HSET"    -> hset(s, cmd.key, cmd.pairs, t)
    [] cmd.name = "HDEL"    -> hdel(s, cmd.key, cmd.fields, t)

\* A line is logged if the reply says that something was done.
IsLogged_NotPersist(cmd, reply) ==                \* mutant
  \/ cmd.name = "SET"
  \/ cmd.name \in {"DEL", "EXPIRE", "HSET", "HDEL"} /\ reply \notin {WrongType, Number(0)}
  \/ cmd.name \in {"LPUSH", "RPUSH"} /\ reply # WrongType
  \/ cmd.name \in {"LPOP", "RPOP"} /\ reply \notin {WrongType, Nil}

IsLogged_NotPops(cmd, reply) ==                   \* mutant
  \/ cmd.name = "SET"
  \/ cmd.name \in {"DEL", "EXPIRE", "PERSIST", "HSET", "HDEL"}
     /\ reply \notin {WrongType, Number(0)}
  \/ cmd.name \in {"LPUSH", "RPUSH"} /\ reply # WrongType
IsLogged(cmd, reply) ==
  \/ cmd.name = "SET"
  \/ cmd.name \in {"DEL", "EXPIRE", "PERSIST", "HSET", "HDEL"}
     /\ reply \notin {WrongType, Number(0)}
  \/ cmd.name \in {"LPUSH", "RPUSH"} /\ reply # WrongType
  \/ cmd.name \in {"LPOP", "RPOP"} /\ reply \notin {WrongType, Nil}

\* The lines carried out one after the other, beginning with contents s.
Replayed(s, lines, t) ==
  LET after[i \in 0..Len(lines)] ==
        IF i = 0 THEN s ELSE LET last == after[i - 1] IN Perform(last, lines[i], t).store
  IN  after[Len(lines)]

-----------------------------------------------------------------------------
(***************************************************************************)
(* Snapshot and rewrite.  Both list the live keys in the Map's order, which *)
(* removes the expired ones, and then read each key, which counts as a use. *)
(***************************************************************************)
\* The sequences of seqs in a row.
Joined(seqs) ==
  LET all[i \in 0..Len(seqs)] == IF i = 0 THEN <<>> ELSE all[i - 1] \o seqs[i]
  IN  all[Len(seqs)]

\* The lazy expiry of each of some keys, and reading each.
Lapsed(s, ks, t) ==
  LET after[i \in 0..Len(ks)] ==
        IF i = 0 THEN s ELSE LET last == after[i - 1] IN expireIfNeeded(last, ks[i], t)
  IN  after[Len(ks)]

read(s, k, t) == LET p == expireIfNeeded(s, k, t)
                 IN  IF k \in Present(p) THEN touch(p, k) ELSE p

Reads(s, ks, t) ==
  LET after[i \in 0..Len(ks)] ==
        IF i = 0 THEN s ELSE LET last == after[i - 1] IN read(last, ks[i], t)
  IN  after[Len(ks)]

Unexpired(s, t) == Lapsed(s, s.order, t)
Walked(s, t)    == LET p == Unexpired(s, t) IN Reads(p, p.order, t)

Entry(s, k, t) == [key |-> k, value |-> s.values[k], secs |-> ttl(s, k, t).reply[2]]

\* An entry has a TTL unless ttl answers -1 or -2.
HasTtl(entry) == entry.secs >= 0

Dumped(s, t) == LET p == Unexpired(s, t)
                IN  [i \in DOMAIN p.order |-> Entry(p, p.order[i], t)]

\* The same by a walk during which the clock ticks, after the value of its i-th
\* key is read and before that key's TTL is: a later key that has expired by
\* then is left out (and removed), the i-th is not left out (but removed), and an
\* earlier one is not looked at again.
DumpedAcrossTick(s, t, i) ==
  LET p      == Unexpired(s, t)
      key(j) == p.order[j]
      entries(j) == IF j < i THEN <<Entry(p, key(j), t)>>
                    ELSE IF j = i \/ key(j) \in Live(p, t + 1) THEN <<Entry(p, key(j), t + 1)>>
                    ELSE <<>>
  IN  Joined([j \in DOMAIN p.order |-> entries(j)])

WalkedAcrossTick(s, t, i) ==
  LET p     == Unexpired(s, t)
      early == Reads(p, SubSeq(p.order, 1, i), t)
      asked == expireIfNeeded(early, p.order[i], t + 1)
  IN  Reads(asked, SubSeq(p.order, i + 1, Len(p.order)), t + 1)

\* The command that writes a value into an empty place.
Creation(key, value) ==
  CASE value[1] = "string" -> [name |-> "SET", key |-> key, value |-> value[2], secs |-> NoTTL]
    [] value[1] = "list"   -> [name |-> "RPUSH", key |-> key, values |-> value[2]]
    [] value[1] = "hash"   -> [name |-> "HSET", key |-> key, pairs |-> value[2]]

\* A string is set with its TTL, a list or hash is given it by EXPIRE.
LinesOf_TtlDropped(entry) == <<Creation(entry.key, entry.value)>>   \* mutant
LinesOf(entry) ==
  LET create == Creation(entry.key, entry.value)
  IN  IF entry.secs <= 0 THEN <<create>>
      ELSE IF entry.value[1] = "string" THEN <<[create EXCEPT !.secs = entry.secs]>>
      ELSE <<create, [name |-> "EXPIRE", key |-> entry.key, secs |-> entry.secs]>>

Lines(entries) == Joined([i \in DOMAIN entries |-> LinesOf(entries[i])])

\* restore() does to the store what the same lines do, but for an entry whose
\* TTL is 0, which it skips.
RestoreOf(entry) == IF HasTtl(entry) /\ entry.secs = 0 THEN <<>> ELSE LinesOf(entry)
Restored(entries, t) ==
  Replayed(EmptyStore, Joined([i \in DOMAIN entries |-> RestoreOf(entries[i])]), t)

-----------------------------------------------------------------------------
Data(s, t) == [k \in Live(s, t) |-> s.values[k]]

\* The elements of q are found in r in the same order.
KeepsOrder(q, r) ==
  \A i, j \in DOMAIN q : i < j => \E m, n \in DOMAIN r : m < n /\ r[m] = q[i] /\ r[n] = q[j]

\* r holds the live data of s at time t, its keys in the same order, with
\* deadlines for the same keys and each of them late by less than a second;
\* nothing has been evicted to make room.
SameData(r, s, t) ==
  /\ Data(r, t) = Data(s, t)
  /\ ToSet(r.order) = Live(s, t) /\ KeepsOrder(r.order, s.order)
  /\ r.evictions = 0
  /\ DOMAIN r.expiry = DOMAIN s.expiry \cap Live(s, t)
  /\ \A k \in DOMAIN r.expiry : r.expiry[k] - s.expiry[k] \in 0..(TicksPerSecond - 1)

=============================================================================
