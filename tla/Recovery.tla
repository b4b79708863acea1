------------------------------- MODULE Recovery -------------------------------
(***************************************************************************)
(* What a restart makes of the store: commands are executed and logged     *)
(* (CommandHandler), the snapshot is saved and restored                    *)
(* (PersistenceManager), the log is rewritten (AofWriter) and replayed on  *)
(* top of the restored snapshot (index.ts).  The contents are those of     *)
(* StoreOps.  Saves and rewrites are single steps here: what happens       *)
(* between their awaits is the business of module AofWriter.               *)
(***************************************************************************)
EXTENDS StoreState, PersistedForms

CONSTANT MaxLog    \* bound on the lines of the log

ASSUME LogAssumption == MaxLog \in Nat

VARIABLES
  log,             \* the lines of the append-only file
  dump,            \* the snapshot, a sequence of entries
  replayable       \* history: whether every change of the data since the log
                   \* was begun is one that its lines make again

recoveryVars == <<store, now, log, dump, replayable>>

-----------------------------------------------------------------------------
(***************************************************************************)
(* The commands that can change the data, and one that is a use.           *)
(***************************************************************************)
NoArgs == [name : {"GET", "DEL", "PERSIST", "LPOP", "RPOP"}, key : Keys]

\* HSET and HDEL are given one field or more.
FieldSets == {F \in SUBSET Fields : F # {} /\ IsFiniteSet(F)}

Commands ==
       NoArgs
  \cup [name : {"SET"}, key : Keys, value : Vals, secs : Ttls \cup {NoTTL}]
  \cup [name : {"EXPIRE"}, key : Keys, secs : Ttls]
  \cup [name : {"LPUSH", "RPUSH"}, key : Keys, values : Arguments]
  \cup [name : {"HSET"}, key : Keys, pairs : UNION {[F -> Vals] : F \in FieldSets}]
  \cup [name : {"HDEL"}, key : Keys, fields : FieldSets]

-----------------------------------------------------------------------------
\* The contents but for the two counters, which nothing here reads between steps:
\* a save may come at any time.
Uncounted(s) == [s EXCEPT !.evictions = 0, !.dirty = FALSE]

RecoveryInit ==
  /\ store = EmptyStore /\ now = 0
  /\ log = <<>> /\ dump = <<>>
  /\ replayable = TRUE

\* The change is one that the log makes again when no key has been evicted for
\* it and, if it is not logged, nothing has changed.
Execute(cmd) ==
  \E result \in {Perform(store, cmd, now)} : LET logs == IsLogged(cmd, result.reply) IN
    /\ logs => Len(log) < MaxLog
    /\ log' = IF logs THEN Append(log, cmd) ELSE log
    /\ ShortLists(result.store)
    /\ store' = Uncounted(result.store)
    /\ replayable' = /\ replayable
                     /\ result.store.evictions = 0
                     /\ logs \/ Data(result.store, now) = Data(store, now)
    /\ UNCHANGED <<now, dump>>

\* A key that expires is not logged.
ExpiryTick ==
  /\ now < MaxTime
  /\ now' = now + 1
  /\ replayable' = (replayable /\ Live(store, now') = Live(store, now))
  /\ UNCHANGED <<store, log, dump>>

Save ==
  /\ dump' = Dumped(store, now)
  /\ store' = Uncounted(Walked(store, now))
  /\ UNCHANGED <<now, log, replayable>>

SaveAcrossTick ==
  /\ now < MaxTime
  /\ now' = now + 1
  /\ \E i \in DOMAIN Dumped(store, now) :
       /\ dump' = DumpedAcrossTick(store, now, i)
       /\ store' = Uncounted(WalkedAcrossTick(store, now, i))
  /\ replayable' = (replayable /\ Live(store, now') = Live(store, now))
  /\ UNCHANGED log

Rewrite ==
  /\ log' = Lines(Dumped(store, now))
  /\ Len(log') <= MaxLog
  /\ store' = Uncounted(Walked(store, now))
  /\ replayable' = TRUE
  /\ UNCHANGED <<now, dump>>

\* The process ends, having saved or not, and starts again: the snapshot first
\* and the log on top of it.
Restart ==
  \E recovered \in {Replayed(Restored(dump, now), log, now)} :
    /\ ShortLists(recovered)
    /\ store' = Uncounted(recovered)
    /\ replayable' = (dump = <<>>)
    /\ UNCHANGED <<now, log, dump>>

RecoveryNext ==
  \/ \E cmd \in Commands : Execute(cmd)
  \/ ExpiryTick \/ Save \/ SaveAcrossTick \/ Rewrite \/ Restart

RecoverySpec == RecoveryInit /\ [][RecoveryNext]_recoveryVars

-----------------------------------------------------------------------------
(***************************************************************************)
(* Properties.                                                             *)
(***************************************************************************)
\* The contents keep the shape every method relies on through saves, rewrites,
\* restores and replays, and the files hold commands and entries.
RecoveryTypeOK ==
  /\ WellTyped(store) /\ InLockstep(store) /\ Filled(store) /\ Fits(store)
  /\ now \in 0..MaxTime
  /\ Len(log) <= MaxLog
  /\ \A i \in DOMAIN log : log[i].key \in Keys
  /\ \A i \in DOMAIN dump : dump[i].key \in Keys /\ IsStoredValue(dump[i].value)
  /\ replayable \in BOOLEAN

\* The contents always have the shape the methods rely on, the files hold commands
\* and entries; and as long as nothing has expired or been evicted, nor an
\* unlogged command changed the data, the lines make the live data from nothing,
\* with deadlines for the same keys, at whatever later time they are replayed and
\* whatever saves, rewrites and restarts lie between.  A TTL that is set again
\* starts afresh, so a deadline may come back later; none comes back earlier.
LogReproduces ==
  /\ RecoveryTypeOK
  /\ replayable =>
       LET s == Replayed(EmptyStore, log, now)
       IN  /\ Data(s, now) = Data(store, now)
           /\ DOMAIN s.expiry = DOMAIN store.expiry \cap Live(store, now)
           /\ \A k \in DOMAIN s.expiry : s.expiry[k] >= store.expiry[k]

\* LRANGE returns, in order, exactly the elements at the positions from start
\* to stop, a negative index counting from the end: what the walks of save and
\* rewrite read with 0 and -1 is the whole list.
RangeContract ==
  \A k \in Live(store, now), i, j \in -MaxItems - 1..MaxItems :
    Holds(store, k, "list") =>
      IsRange(lrange(store, k, i, j, now).reply[2], ValueOf(store, k), i, j)

\* No step changes the live data behind the log's back while the clock stands
\* still, neither a command (CommandHandler logs by the reply) nor a save or a
\* rewrite, but for an HSET that only overwrites fields, and for a restart.
Overwrites(cmd) ==
  /\ cmd.name = "HSET"
  /\ cmd.key \in Live(store, now) /\ Holds(store, cmd.key, "hash")
  /\ DOMAIN cmd.pairs \subseteq DOMAIN ValueOf(store, cmd.key)

UnloggedChange == log' = log /\ now' = now /\ Data(store', now') # Data(store, now)

OtherMutationsLogged ==
  [][UnloggedChange => \/ \E cmd \in Commands : Overwrites(cmd) /\ Execute(cmd)
                       \/ Restart]_recoveryVars

\* The README: a start replays the log on top of the snapshot "to recover the
\* exact pre-crash state".
RecoversExactState == [][Restart => Data(store', now) = Data(store, now)]_recoveryVars

===============================================================================
