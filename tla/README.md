# MiniStore verification

TLA+ models of the MiniStore engine, the TLC runs that check them and the
theorems that TLAPS proves about them. MiniStore is an in-memory key-value
server in TypeScript: strings, lists and hashes with deadlines, LRU eviction,
a snapshot and an append-only file, publish/subscribe and transactions, on one
Node.js event loop. Paths are relative to the repository's root (`src/`).

## Inventory

The core of the program is `store-engine/src`; `protocol/src` holds the parsing
of lines and replies, `cli/src` a client, `dashboard/` web pages.

| Part | State it keeps | Operations | Talks to |
| --- | --- | --- | --- |
| In-memory store (`store/InMemoryStore.ts`, contract in `Store.ts`) | `#values`, recency, deadlines, eviction and mutation counts | string, list, hash and key commands, `keys`, `keysMRU`, `sweepExpired` | recency tracker, expiry manager |
| Recency tracker (`LRUTracker.ts`) | doubly linked list and a map to its nodes | `touch`, `delete`, `evictLRU`, `keysMRU` | called by the store |
| Expiry manager, sweeper (`ExpiryManager.ts`, `ExpirySweeper.ts`) | deadlines, dense key array, positions, cursor | `set`, `clear`, `collectExpired`; a timer | called by the store; calls its sweep |
| Append-only file (`AofWriter.ts`) | descriptor, dirty flag, rewrite buffer, the files | `write`, `rewrite`, `start`, `stop`, sync timer | called by the handler; reads the store |
| Persistence manager (`PersistenceManager.ts`) | count at the last save, save in progress, the dump file | `save`, `restore`, timer | reads and writes the store |
| Command handler (`server/CommandHandler.ts`) | authenticated ids, open transactions, recent lines | `handleLine` | store, both persistence parts, subscriptions |
| Publish/subscribe (`PubSubManager.ts`) | channel → connections and its inverse | `subscribe`, `unsubscribe`, `publish`, `removeConnection` | writes to connections |
| TCP server (`TcpServer.ts`) | open sockets, a line buffer each | connect, data, error, close, shutdown | handler, subscriptions |
| Statistics server (`StatsServer.ts`) | WebSocket clients, a rate window per playground | snapshot broadcast, playground lines | store, handler |
| Composition (`index.ts`) | whether it is shutting down | start: restore, replay, serve; shutdown | everything |
| Command parser, replies (`protocol/src/CommandParser.ts`, `replies.ts`) | none | line → command, result → frames | server, client |
| Client and reply parser (`cli/src/Client.ts`, `protocol/src/ReplyParser.ts`) | pending requests; buffer and the list being parsed | `send`, `close`; data, error and close events | TCP server |
| Playground page (`dashboard/.../PlaygroundSection.tsx`) | history of commands and replies, a WebSocket, a reconnect timer | enter a command, message, close, unmount | statistics server |
| Configuration, other dashboard pages, benchmark and export scripts | none that the engine depends on | parsing of the environment, presentation, stand-alone | – |

What is hard in it:

* **Several structures, one truth.** Values, recency and deadlines must name
  the same keys whatever expires or is evicted in between, and keys past
  their deadline remain stored until somebody looks.
* **Walks over structures that change under them**: the statistics walk
  removes the node it stands at; the sweep's array is reshuffled by `clear`.
* **Awaits.** All commands are synchronous, so the process interleaves only at
  awaits and timers: the rewrite (three awaits), the save (three), the
  shutdown. Commands are executed in between.
* **Crash and restart.** Two files with overlapping contents, relative TTLs,
  logging decided by a command's reply.
* **Sessions.** Gates are checked per line, transactions run lines later, and
  sockets die before their close event is handled.
* **Streams.** TCP cuts lines and replies anywhere; replies carry no number and
  are matched by order, between messages that are pushed.
* **Shutdown.** Timers, a running save or rewrite and commands that are still
  served meet the last save.

What makes each part correct is stated as the properties below; the hazards
they are for are listed, with their lines, in `PROJECT.json`.

## Modules

| Module | Models | Notes |
| --- | --- | --- |
| `StoreOps` | every method of `InMemoryStore` as a function of contents and clock | no variables; used by the two modules that run commands |
| `StoreState` | what these two have in common: contents, clock, arguments, bounds | no actions |
| `InMemoryStore` | the store driven by clients, sweeper, statistics and clock | one action per method; sweep and `KEYS` remove key by key |
| `ExpiringStore` | abstract: a map from live keys to values and deadlines | what `Store.ts` promises; refined by `InMemoryStore` |
| `PersistedForms` | snapshot entries and log lines as functions of the contents, and what a start makes of them | no variables; used by the next and by `Recovery` |
| `MCInMemoryStore` | instances for TLC, and the two round trips through disk | symmetry and index ranges |
| `LRUTracker` | the linked list, pointer by pointer | its operations are driven by `StatsSnapshot`; refines `Recency` |
| `Recency` | abstract: a sequence of keys, most recent first | |
| `StatsSnapshot` | uses, removals and evictions, and `#buildSnapshot` walking the list | extends `LRUTracker` |
| `ExpiryManager` | deadline map, array, positions, cursor; the sweep timer | fair sweep |
| `AofWriter` | the append-only file, its writer, rewrite, stop, crash, restart | a command is its number |
| `Shutdown` | one life of the server: the saves of the persistence manager, the log, the signal | extends `AofWriter` |
| `Sessions` | authentication, transactions, subscriptions, sockets | one action per line or socket event |
| `Recovery`, `MCRecovery` | commands, logging, save, rewrite, restore and replay | contents and methods of `StoreOps`, files of `PersistedForms` |
| `CommandParser`, `MCCommandParser` | from tokens to a command or an error | against a grammar and a rendering |
| `Conversation` | client, streams in both directions, framing, reply parser | |
| `Playground` | page, WebSocket, rate window | |
| `StoreProofs` | theorems about the store and its contract, and about `Recovery` | see *Proofs* |
| `ShutdownProofs` | theorems about `AofWriter` and `Shutdown` | see *Proofs* |
| `ExpiryManagerProofs`, `StatsSnapshotProofs`, `SessionsProofs`, `ConversationProofs`, `CommandParserProofs`, `PlaygroundProofs` | theorems about the module of that name | see *Proofs* |

### How state and actions correspond to the code

**StoreOps / InMemoryStore.** The contents are one record: `values`, `order`
(the Map's insertion order), `lru`, `expiry`, `evictions`, and `dirty`, which
is `dirtyCount # #lastSavedDirtyCount`, the only question the code asks of the
count. A value is a pair of its kind and its data. Each method is an operator
with the method's name that returns the new contents and a tagged reply; the
private helpers (`touch`, `removeKey`, `expireIfNeeded`, `makeRoomForNewKey`,
`reserveSlotFor`) keep their names. A method is atomic, and the clock is one
instant during it: the code reads `Date.now()` more than once in a call, and a
call that straddles a tick is not distinguished from one on either side, except
where callers combine several calls (`StatsSnapshot`, `Recovery`).
`Command(k)` collects the commands on key `k`; `Reclaim` is the body of the two
loops that remove expired keys, during which nothing else runs; `Recorded` is
the persistence manager taking note of the count. Which keys a sweep examines
is left open here and settled in `ExpiryManager`.

**LRUTracker / Recency.** `list` is the record of `#nodes`, head, tail and the
two pointers of each node; `pushFront` and `unlink` assign pointer by pointer.

**ExpiryManager.** `expiresAt`, `keys`, `pos` and `cursor` are the fields of
those names. `collected` is the rest of a running sweep's result, which the
store removes, one `clear` at a time.

**StatsSnapshot.** Between walks keys are used, removed and evicted. The walk is split where the code reads the clock: the check
in the store's `keysMRU`, `keyType`, `ttl`, and the step to the next node. Time
may pass between them; commands cannot run, for the walk is synchronous.

**AofWriter.** The contents of the store are the sequence of commands that
built them (`applied`), so what a rewrite writes is that sequence. `policy` is
the `fsync` setting, chosen once. `file` is
what the operating system has, `synced` how much of it is known to be on disk.
`Execute` is a command that changes the store and then calls `write`, in every
way `write` can end. `BeginRewrite`, `TempWritten`, `BufferAppended` and
`Renamed` are `rewrite` from await to await, with failures of each call
(`Faults`); a closed descriptor that is used again fails or hits whatever has
been given its number since. `Restart` follows a crash at any point.

**Shutdown.** The commands and the log are those of `AofWriter`, with one life:
`Restart` does not occur, so the contents are simply all commands executed.
`counted` are the commands that moved `dirtyCount`: some do not. `saver` says
for each of the three callers of `save()` where it awaits; they share one
temporary file. `Signal` is everything up to the first await of `shutdown`,
`Ended` the `finally` clause and the caller's continuation. `stage = "stuck"` is
the shutdown that ended in an exception of `aofWriter.stop()`.

**Sessions.** `pubsub` is the two maps, `transactions` and `authenticated` the
handler's, `socket` the life of a connection. A line that is refused changes
nothing and has no action. `ran` records what the last line executed. WebSocket
playground connections are connections like the others.

**PersistedForms, Recovery.** `Perform` and `IsLogged` are `#executeCommand`
for the commands that can change the data (and `GET`, a use).
`Dumped`/`Restored` are the two halves of the persistence manager, `Lines` the
commands that a rewrite writes, `Replayed` the loop of `index.ts`. Saves and
rewrites are single steps in `Recovery`, `SaveAcrossTick` excepted, in which the
clock ticks between the reading of a key's value and of its TTL. `replayable`
is a history variable for the properties. The two
modules split the matter: `AofWriter` and `Shutdown` have the awaits and no
contents, `Recovery` the contents and no awaits.

**CommandParser.** A line is the sequence of its tokens, `Init`/`Next` enumerate
every line. `UpperCase`, `Digits`, `Negative` and `Value` give what JavaScript's
`toUpperCase`, the two regular expressions and `Number` make of the tokens at
hand. An error is the reason it names. The property's grammar (`Usage`) is
written from the command reference of `README.md` and the parser's comments.

**Conversation.** `up` and `down` are the two streams, symbol by symbol: a
request is two parts, a CR and an LF; a line of a reply is one symbol, for only
where it ends can be mistaken. `Data` and `Received` take any prefix of a
stream, which is how TCP may deliver it. `Reply` gives the frames of each kind of
reply as `replies.ts` builds them. What the handler does with a line is
`Sessions`' matter; here a request has only the shape of its reply.

**Playground.** A command is the number of its place in `history`. `up` and
`down` are the messages under way on the page's one WebSocket, lost when it
closes. `commandCount` and `lastTime` are the closure of the server's connection
handler. `alone` in the history, `executedAt`, are kept for the properties.

## Runs

Passing runs (`recovery` takes a minute and a half on two cores, the others at most one minute):

| Run | Checks | Instance and why it is enough |
| --- | --- | --- |
| `store_lifecycle` | `Consistent` (types, lockstep, no empty container), `Capacity`, `ExpiredIsAbsent`, `OrderOfUse`, `FormsReproduce`, `LiveKeysLeaveTwoWays`, `OtherMutationsCounted`, `ImplementsContract` | 3 keys for 2 places, half-second ticks up to 4, one eviction: expired and live victims, a deadline set, met, reset, with fractions of a second left. Keys are symmetric. `ExpiredIsAbsent` is about the methods that are given a key (`SET` with and without a TTL among them); what `KEYS` leaves out is `FormsReproduce`'s matter, what the walk of the statistics does with expired keys is `stats_snapshot`'s. |
| `stats_snapshot` | `WellKept`, `ListedInOrder`, `ImplementsRecency`, `UndisturbedWalkIsComplete` | every list over 3 keys: head, tail and a node between; each may fall due at every stage of the walk |
| `expiry_manager` | `Mirrored`, `SweepContract`, `DueKeysGo` | 4 keys, samples of 2: the cursor wraps and stands before, at and behind a hole |
| `aof_writer` | `InOrderOnce`, `LossOnlyWhenExposed`, `SyncedUnlessRewritten`, `CleanCoversWrites` | each policy; 4 commands: one before, two in and one after a rewrite; every call may fail; any number of lives |
| `shutdown` | `CleanMeansSaved`, `ExitCovers`, `DumpOnlyAdvances`, `SavedInTheEnd`, `SignalEnds` | 2 commands, one rewrite, one failing save: a command before and one during a save, a save that is refused, one that fails, a signal during the rename. `no` policy: what is synced is `aof_writer`'s matter |
| `sessions` | `MapsMirrored`, `NeverStuckInTransaction`, `CountExceedsByBroken`, `OnlyPermittedRuns` | 2 connections, 2 channels, queues of 2, password, a disabled command, and log writes that fail within an `EXEC` |
| `recovery` | `LogReproduces`, `RangeContract`, `OtherMutationsLogged` | two keys for one place, two values, one at a push, two fields, one or both in an `HSET` or `HDEL` (new, overwritten and mixed), lists up to 2 and indices past both ends, two log lines between rewrites, one tick: overwriting, evicting, expiring and unlogged commands between saves, rewrites and restarts. Keys, values and fields are symmetric. How several keys lie in the files is checked by `store_lifecycle`. |
| `parser` | `AcceptsGrammar`, `NothingLost` | every line of up to 6 tokens (an `HSET` of two pairs, a `SET` with one token too many) over all names, a name in small letters, an unknown one, and numbers on both sides of every limit, one of them with leading zeros and a minus zero |
| `conversation` | `HandledInOrder`, `AnswersMatch`, `RefusedOnlyWhenAhead`, `Answered` | 2 requests of all 8 shapes of reply, 2 messages pushed among them, every cut of both streams, refusal, either side ending at any moment. A line of 4 symbols against a limit of 6: two lines can be too long, one cannot. |
| `playground` | `RateBound`, `OwnReply`, `Reconnects` | a limit of 1 in a window of 1 tick, 3 commands over 3 ticks (more than two windows' worth fit), one message published, two breaks |

Every bound (`MaxTime`, `MaxItems`, `MaxEvictions`, `MaxArgs`, `MaxCommands`,
`MaxQueue`, `MaxLog`, `MaxFailures`, `MaxRewrites`, `MaxTokens`, `MaxRequests`,
`MaxPushes`, `MaxBreaks`) is a constant named in its module and stands in a
guard. Deadlock checking is off in `sessions` (all connections may have closed,
ids are not used again), `shutdown` (the process exits), `conversation` (both
ends may have closed), and in `recovery`, `parser` and `playground`, where the
bounds stop the model.

Runs that find what the repository says of the program violated:

| Run | What is said | What happens |
| --- | --- | --- |
| `aof_lost` | every mutating command is logged (`README.md:110`) | one executed while the rewrite appends its buffer is lost at the rename |
| `recovery_twice` | exact pre-crash state (`README.md:115`) | the log is applied on top of a snapshot that contains it: lists grow |

Beside them the passing runs say what does hold:

* `LossOnlyWhenExposed`: commands are lost in no other window than while a
  rewrite ends or the file is not open. `ExitCovers` composes this with the
  last save: after a successful one nothing executed before the signal is
  missing; after a refused or failed one, or a shutdown that is stuck, only what
  the log was exposed for.
* `OtherMutationsLogged` and `OtherMutationsCounted`: the commands named there are
  the only exceptions (a restart, which reads the log, apart). `LogReproduces`: a log is enough when nothing has
  expired, been evicted or gone unlogged; the deadlines it gives are for the same
  keys and never earlier, though a TTL that starts afresh may end later.
* `OrderOfUse`: which calls count as a use of a key and which do not, against every
  method; eviction is by this order.
* `CleanMeansSaved`: the count taken at the beginning of a save and noted at its
  end never makes a later command look saved. `DumpOnlyAdvances`: the shared
  temporary file is safe because saves exclude each other.
* `CountExceedsByBroken`: by how much the answer to `PUBLISH` can be wrong.
  `OnlyPermittedRuns`: the queue is the only way round the restriction of
  subscribers.
* `AnswersMatch`: what an answer can be for all kinds of requests, and that it is
  the right one as long as every reply is one line or an ordinary list.
  `RefusedOnlyWhenAhead`: a client that awaits each reply is never refused for
  the length of its lines.
* `RateBound`: the windows let twice the limit through in the length of one, and
  never more. `OwnReply`: when a reply on the page can be trusted.

### Other disagreements met while modelling

The models do what the code does in each of these; no run of its own shows them.

* `dirtyCount` is "the number of mutations", but creating a list by a push does
  not move it (`InMemoryStore.ts:343`, against `:322`), so an interval save can
  be skipped; this is the exception in `OtherMutationsCounted`.
* `Store.ts:79` says the leftmost value of `LPUSH` ends up furthest left. The
  last one does, as in Redis: the comment is wrong.
* An `HSET` that only overwrites fields answers 0 and is not logged
  (`CommandHandler.ts:180`, against `README.md:110`); this is the exception in
  `OtherMutationsLogged`.
* Lines carry relative TTLs, so a replay gives a key that has expired a new
  life; a key deleted after the snapshot and before a rewrite comes back from
  the snapshot, for the rewritten log has no line of it (against
  `README.md:115`).
* The rewritten file is never synced unless a later write makes it dirty
  (`AofWriter.ts:123`), nor are lines of an earlier life: more than the second
  of `README.md:111` can be lost. `SyncedUnlessRewritten` and
  `CleanCoversWrites` say what is synced.
* `stop()` during the rename closes the same descriptor twice and throws
  (`AofWriter.ts:50`). The "graceful shutdown" of `index.ts:15` ends there: the
  process runs on, its save timer off, and ignores the next signal
  (`SignalEnds` has the exception `"stuck"`; what such a server leaves behind is in
  `ExitCovers`). A shutdown that meets a running
  save is refused its own (`PersistenceManager.ts:59`), and commands served
  after the signal are in neither file.
* The statistics walk ends at the first expired key it removes, and the live
  keys behind it are missing from that snapshot (`LRUTracker.ts:88` reads the
  pointer of a node that is gone, against `InMemoryStore.ts:331`);
  `UndisturbedWalkIsComplete` has the exception.
* A key that expires between the two reads of `save()` is saved without a TTL
  and never expires after a restore (`PersistenceManager.ts:95`, against `:118`,
  "Expired keys are skipped."). `Recovery` has the action, `SaveAcrossTick`.
* `restore` says that it bypasses the capacity, but the methods it uses evict
  (`PersistenceManager.ts:134`).
* A `SUBSCRIBE` queued in a transaction restricts nothing behind it in the
  queue (`CommandHandler.ts:107`, against `:86`).
* `PUBLISH` counts destroyed sockets (`PubSubManager.ts:88`, against `:75`).
* A log write that fails ends `EXEC` half-way, with the earlier commands
  executed and not undone (`CommandHandler.ts:107`, against the "atomic execution"
  of `README.md:201`). `Exec` has the step; the transaction is closed before the
  queue runs, and `NeverStuckInTransaction` shows why it must be.
* The confirmation of a `SUBSCRIBE` is taken for a push (`ReplyParser.ts:46`),
  so the promise of that `send` is resolved by a later reply, if any; an
  `UNSUBSCRIBE` without subscriptions is answered with nothing; a list in an
  `EXEC` ends the array early, although `replies.ts:43` is "Used by EXEC to
  return an array of already-formatted RESP replies"; a list whose first
  element is `message` is taken for a push; the value `(nil)` is read as nil.
  From then on answers are one off. These are the irregular kinds of
  `Conversation`.
* The limit on an "unterminated line buffer" (`TcpServer.ts:15`, `:28`) also
  refuses several complete lines that arrive together.
* `Client.ts:29` and `ReplyParser.ts:19` turn each chunk to text by itself: a
  character of several bytes that is cut by a chunk is garbled.
* A request sent on a client that is closed already is never resolved
  (`Client.ts:56`; `Answered` asks for an open connection), and an `error` event
  without a listener ends the process (`Client.ts:33`).
* A character that the parser takes for a blank but readline for a line end (CR,
  U+2028, U+2029) inside a logged line makes two lines of it at the replay
  (`index.ts:50`), as does an LF in a message of the playground, which
  `AofWriter.ts:59` writes as it is.
* The playground calls the handler outside any `try` (`StatsServer.ts:149`),
  unlike the TCP server (`TcpServer.ts:114`): a log write that fails ends the
  process.
* The playground page reconnects after it has been unmounted
  (`PlaygroundSection.tsx:66`, the close event comes after the cleanup), gives
  a reply to the newest command without one, and sends no token, so with a
  dashboard password it never connects. The statistics page's `onclose` reads
  the `connected` of the render it was made in (`LiveDashboard.tsx:54`) and
  reports a wrong password whenever a connection ends.
* Ids stay in the handler's sets of authenticated connections and open
  transactions when a connection closes (`CommandHandler.ts:28`).

## Fairness

* `ExpiryManager`: weak fairness of `Sweep` and `Reclaim`. `setInterval` calls
  the sweep for ever and one callback runs to its end. Nothing is assumed of
  commands or the clock; `DueKeysGo` therefore also says that no traffic of
  other keys can starve a due one.
* `Shutdown`: weak fairness of the save timer (`setInterval`), of the steps of a
  running save (a call of the operating system returns, in success or failure)
  and of the two closes. Nothing is assumed of commands, rewrites or the signal.
  That `statsServer.stop()` ends relies on the WebSocket library, which closes
  a connection whose other side does not answer.
* `Conversation`: the network delivers what has been sent while the connection
  stands, in chunks of any size (`WF_up`, `WF_down` of steps that shorten a
  stream, which only `Data` and `Received` do), reports its end, and the
  client's loop runs its close event. The server or the user may end it at any
  moment or never.
* `Playground`: the events of the WebSocket and the timer come. The server may
  stay down for ever; `Reconnects` asks for one that stays up in the end.

The other specifications are checked for safety alone and state no fairness.

## Proofs

Each theorem holds for every value of the constants that meets the named
assumptions of its module (positive capacity, clock resolution, TTLs, rate
limit; bounds that are natural numbers; known sync policies). TLC evaluates
them in every run of the module.

**The store's invariant** (`StoreProofs`):
`TypeCorrect`, `LockstepHolds` (the class's stated invariant),
`NoEmptyContainerHolds`, the three together as `ConsistencyHolds`, and
`CapacityHolds`. None is inductive alone: to see that eviction makes room one
needs that the recency list names exactly the present keys, to see that a
popped list still has a head that no stored list is empty, and typing
throughout. `IInv` is their conjunction, as `Sound(store)` of the contents, plus
the types of clock and loop. The argument goes bottom up: facts on sequences
without repetition, then each private helper keeps contents `Sound`, then each
method, then one case per action.

**The store's contract** (same module, on the same `IInv`):
`ImplementsContractHolds`, `LiveKeysLeaveTwoWaysHolds`,
`OtherMutationsCountedHolds`. The three are read off one account of a method,
`Effect(s, k, t, r)`: after the lazy expiry of `k` it looks, removes `k`, gives
it another deadline, replaces it or modifies it, the last two after room has
been made. Every method is shown to be such an effect. `EffectElsewhere` says
what it does to other keys (nothing, or the least recently used key of a full
store goes), `EffectAtKey` what to `k`; together they are a step of
`ExpiringStore`. That an expiry which has just relieved the store cannot be
followed by an eviction (`RoomEffect`) is a matter of counting, and the reason
why no command loses two keys. Sweeps, `KEYS` and the statistics walk remove at
most one key a step (`Trimmed`); the clock takes exactly the entries whose
deadline it reaches (`PassContract`). `ExpiredIsAbsentHolds` follows
from the lazy expiry with which each method begins. `OrderOfUseHolds` goes through
the methods once more, for the one field that the contract leaves open: `InFrontOf`
and `Used` say that a key has been put in front and nothing else moved, for the
private helpers, then for each method on a live key (`KeyUses`, `ListUses`,
`HashUses`) and on a new one (`NewInFront`, where room may cost the last key). `LRangeIsExact` is about the operator `IsRange` of the run's
`RangeContract`, for lists of any length and any two integers;
`RangeContractHolds` says it of `Recovery`.

**The two files** (same module): `FormsReproduceHolds`, `LogReproducesHolds`,
`OtherMutationsLoggedHolds`, `RangeContractHolds`.

* *A dump and a rewritten log reproduce the contents* in every state that `IInv`
  admits. Contents whose expired keys have been removed (`UnexpiredProperties`)
  are listed in the Map's order; `Rebuilt(p, t, i, r, u)` says that `r` is what
  the first `i` entries tell, at the time `u` of the replay, and is shown along
  the list: the key of the next entry is absent and has room, so its lines create
  it (`LinesCreate`), and its TTL, rounded up, is a deadline that lies ahead and
  is late by less than a second (`EntryProperties`, `RoundUp`), hence not earlier when
  it is counted from a later replay (`RebuiltLater`).
* *The log makes the data again.* The invariant `RInv` of `Recovery` is that the
  contents are `Sound`, that log and snapshot hold lines and entries (the log
  also the lines of a rewrite, whose lists, hashes and TTLs are those of the
  contents), and, while `replayable`, that a replay from nothing at *any* time
  agrees with the store: same values, deadlines for the same keys, none of them
  reached on either side, and none of the replay's before the store's if the replay
  is not before now (`NoneEarlier`; all of it is `Agree`). The quantifier is what makes it inductive: the
  log is replayed at a time that is unknown when a line is written. One more
  command keeps two contents in agreement (`PerformAgrees`, method by method) if
  it has not evicted; one that is not logged leaves values and deadlines alone
  (`UnloggedEffect`), if not its overwriting, and it is excluded by `replayable`;
  a walk of a save or a rewrite changes neither when nothing is due. That two
  replays at different times agree (`ReplaysAgree`) needs no such condition, for
  both keep the same order of use and evict the same key; this is what a restart
  without a snapshot relies on.
* `OtherMutationsLoggedHolds` reads off `UnloggedEffect` which replies hide a
  change, and off the walks of save and rewrite that they make none.

**The recency list** (`StatsSnapshotProofs`): `WellKeptHolds`,
`ImplementsRecencyHolds`, `ListedInOrderHolds`, `UndisturbedWalkHolds`. `Spells`
ties the pointers to one sequence of keys; each of `pushFront` and `unlink` is
shown to spell the sequence that `Recency` has after the same step, and that a
list spells one sequence only makes the abstract state a function of the
pointers. The refinement is then step by step. For the walk the invariant adds
that the key it stands at is the one behind those it has listed.

**The expiry manager** (`ExpiryManagerProofs`): `MirroredHolds`,
`SweepContractHolds`. That each key stands where its position says does not
exclude a second place in the array, which a swap would bring to light;
`Inverse2` adds the converse, and the number of places follows by counting. The
sweep's indices are distinct because fewer steps than places are taken round the
array, so the keys are; if every place is visited no due key is missed.

**The append-only file** (`ShutdownProofs`, first part): `InOrderOnceHolds`,
`LossOnlyWhenExposedHolds`, `SyncedUnlessRewrittenHolds`,
`CleanCoversWritesHolds`. The invariant is `TypeOK`, `InOrder` (file, rewrite
buffer and temporary file are increasing, and the buffer lies behind what the
rewrite has read), `NothingLost` (an acknowledged command is in the file, or
will be by the rename under way, or was exposed) and `InSync`. A case for each
await of the rewrite and for each way a call can fail.

**Shutdown** (`ShutdownProofs`, second part): `ServerRunsLog`, every behaviour of
the server is one of `AofWriter`, carries the theorems above over.
`CleanMeansSavedHolds`, `DumpOnlyAdvancesHolds` and `ExitCoversHolds` rest on
`ServerInv`: what is executed, what a save has taken and the dump are prefixes
of one sequence, each with the count that belongs to it; one save is under way
at a time, so that the temporary file is its own; and the shutdown's save has
taken at least what was there at the signal.

**Sessions** (`SessionsProofs`): `MapsMirroredHolds`, `NeverStuckHolds`,
`CountHolds`, `OnlyPermittedHolds`, for any connections and channels and
transactions of any length. The invariant adds what the queues hold: every
queued command passed the gates when it was queued, subscribers have sockets
that are open or broken, and only finitely many have ever been opened (for the
counting). What an `EXEC` does is shown command by
command along its queue: after each, the maps are still inverse, and nobody but
the executing connection has come to be subscribed.

**Framing** (`ConversationProofs`): `HandledInOrderHolds`,
`RefusedOnlyWhenAheadHolds`. `FrameInv` says that the handled lines are the first
requests sent, and that the server's buffer followed by the stream continues
them symbol by symbol (`Continues`): the symbol at a place is determined by the
place alone, four to a request, so an LF in it is the end of a request wherever
the chunks were cut. A buffer over the limit then reaches into a second request.

**The replies** (`ConversationProofs`): `AnswersMatchHolds`, for any number of
requests of any kinds, any number of messages published in between, and any
cutting of both streams. The invariant `MatchInv` is about all that has ever been
written to the client, which no variable keeps: it says that there are lines `W`
such that

* `Wire`: the parser's buffer followed by the stream is what the first `i` lines
  of `W` leave, symbol by symbol (three to a line, the last of them the only LF);
* `Framing`: `W` divides into frames, each what the parser takes for one reply (a
  line, or a header and as many lines as it announces, whatever they are). A frame
  has a slot, the request that it resolves if each frame that is not dropped as a
  push resolves the oldest. A frame fits its slot `s` when it is the reply to `s`,
  or some request up to `s` was irregular; and when it is the reply to `s` or a
  later request, or a list has been nested (`Fits`). The refusal of a long line
  fits too, for by `FrameStep` two requests are then unhandled;
* `Parsed`: the parser is at line `i` within the frame at `f`, holds what it has
  read of it, and the requests that wait begin with the frame's slot, or before it
  when one of those answered was irregular (`Waiting`);
* `NextSlot`: while the server is open, the next frame will be for the next
  request, unless an irregular one has been handled.

`ReplyFrames` shows, kind by kind, which frames a reply consists of: none for an
`UNSUBSCRIBE` without subscriptions, three for an `EXEC` that nests a list (its
header swallows that of the list), one otherwise. `ReplyWritten` and
`FrameWritten` extend `W`, `LineParsed` moves the parser by a line, and both are
repeated along a data event by induction. Nothing else in the invariant says which
request is answered: that one and only one waits for each slot is what keeps the
client, who counts, in step with the server, who answers in order.

**The parser** (`CommandParserProofs`): `AcceptsGrammarHolds`,
`NothingLostHolds`. For the first, what it is to fit each form of usage is
reduced to a condition on the number of arguments and the few that are looked
at, and the parser is shown to ask for that. For the second, an accepted line is
rendered as itself but for the capitals of its name (and of `EX`), and lines
that are alike in that way are parsed alike; it needs that capitals stay as
they are (`CaseAssumption`). Several tokens may stand for one number (`007` and `7`,
`-0` and `0`, which the parser's regular expressions accept): a rendering has one of
them, and `SaysTheSame` is what remains of "token by token" for a number.

**The playground** (`PlaygroundProofs`): `RateBoundHolds`, `OwnReplyHolds`.
`RateInv` says where the windows' contents lie in time; the step of the argument
is that between a command and the one two limits later there is more than a
window. For the replies, `ReplyInv` says that behind a command that waits by
itself no more replies are under way than commands entered after it wait for, so
that the newest without a reply is never handed one that is not its own.

Recursion is written as recursive functions in the modules that are proved
about. Facts about them are proved by least counterexample, from the
well-foundedness of `<` on the naturals that the library has (`LeastNatural`,
`UpTo`).

Only model-checked is liveness (`DueKeysGo`, `SavedInTheEnd`, `SignalEnds`,
`Answered`, `Reconnects`), which is out of the prover's reach, as is whether an
action is `ENABLED`. Every invariant and every action property of the passing runs
has a theorem.

## Not modelled

* Configuration (pure parsing of the environment, once), the dashboard's other
  pages, the activity log, `/health`, the token check, the CLI's prompt, the
  benchmark and export scripts: they keep no state that the engine depends on.
* Wording and layout of replies and errors; the text of values. Keys whose
  *spelling* matters to JavaScript (integer-like names are reordered by
  `Object.entries` in a dump, `__proto__` is lost) are outside models in which
  names are values, and so are the bytes of a character.
* Node's timers, `fs` and the WebSocket library, except for which calls may
  fail and how connections end.
* A restart under another capacity, a clock that goes back.

## Plan

The order was: the store, because everything else relies on it; the files, where
the awaits and crashes are; sessions; then the shutdown, the streams, the parser
and the page. These are done, and so are the theorems. What is left is a restart
under another `maxKeys`, with the dump restored through methods that evict, and
several lives in `Shutdown`, with dump and log both read.
