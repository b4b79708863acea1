------------------------------- MODULE Sessions -------------------------------
(***************************************************************************)
(* What the server keeps per connection: authentication and transactions   *)
(* (store-engine/src/server/CommandHandler.ts), subscriptions              *)
(* (PubSubManager.ts) and the life of the socket (TcpServer.ts).  One      *)
(* action is the handling of one line, or of one event of a socket; lines  *)
(* of different connections interleave freely.  A line that is refused     *)
(* changes nothing and has no action.                                      *)
(*                                                                         *)
(* A command on keys is a WRITE, which changes the store and then logs     *)
(* itself, which may throw, or one of the OTHERs, which log nothing.       *)
(***************************************************************************)
EXTENDS Integers, Sequences, FiniteSets

CONSTANTS
  Conns,           \* connections; an id is never used again
  Channels,
  RequirePass,     \* whether a password is configured
  Disabled,        \* names of the disabled commands
  LogFails,        \* whether the append-only file can fail
  MaxQueue         \* bound on the commands queued in a transaction

ASSUME PassAssumption  == RequirePass \in BOOLEAN /\ LogFails \in BOOLEAN
ASSUME QueueAssumption == MaxQueue \in Nat

VARIABLES
  socket,          \* conn -> "new", "open", "destroyed" or "closed"
  authenticated,   \* #authenticated
  transactions,    \* #transactions: conn -> queued commands
  pubsub,          \* #channels (channel -> conns) and #connections (conn -> channels)
  ran              \* history: what the last line executed, each command with
                   \* its connection, whether that was subscribed, and how many
                   \* subscribers PUBLISH counted and which it reached

vars == <<socket, authenticated, transactions, pubsub, ran>>

NoChannels == {}
Named(name, channels) == [name |-> name, channels |-> channels]

\* The commands that can be queued.  UNSUBSCRIBE without channels means all.
Commands ==
       {Named(name, NoChannels) : name \in {"WRITE", "OTHER", "AUTH"}}
  \cup {Named("PUBLISH", {ch}) : ch \in Channels}
  \cup {Named("SUBSCRIBE", chs) : chs \in (SUBSET Channels) \ {{}}}
  \cup {Named("UNSUBSCRIBE", chs) : chs \in SUBSET Channels}

Maps(A, B) == UNION {[D -> B] : D \in SUBSET A}

TypeOK ==
  /\ socket \in [Conns -> {"new", "open", "destroyed", "closed"}]
  /\ authenticated \subseteq Conns
  /\ DOMAIN transactions \subseteq Conns
  /\ \A c \in DOMAIN transactions : transactions[c] \in Seq(Commands)
  /\ pubsub \in [channels    : Maps(Channels, SUBSET Conns),
                 connections : Maps(Conns, SUBSET Channels)]
  /\ \A i \in DOMAIN ran : ran[i].by \in Conns /\ ran[i].command \in Commands

Init ==
  /\ socket = [c \in Conns |-> "new"]
  /\ authenticated = {}
  /\ transactions = [c \in {} |-> <<>>]
  /\ pubsub = [channels |-> [ch \in {} |-> {}], connections |-> [c \in {} |-> {}]]
  /\ ran = <<>>

-----------------------------------------------------------------------------
(***************************************************************************)
(* PubSubManager.                                                          *)
(***************************************************************************)
\* f as a Map that drops a key when its set becomes empty.
NonEmpty(f) == [x \in {y \in DOMAIN f : f[y] # {}} |-> f[x]]
At(f, x)    == IF x \in DOMAIN f THEN f[x] ELSE {}

isSubscribed(p, c) == At(p.connections, c) # {}

subscribe(p, c, chs) ==
  [channels    |-> [ch \in DOMAIN p.channels \cup chs |->
                      At(p.channels, ch) \cup (IF ch \in chs THEN {c} ELSE {})],
   connections |-> [d \in DOMAIN p.connections \cup {c} |->
                      At(p.connections, d) \cup (IF d = c THEN chs ELSE {})]]

\* c leaves the channels in chs.
left_ChannelsKept(p, c, chs) ==                   \* mutant
  [p EXCEPT !.connections = NonEmpty([d \in DOMAIN @ |-> IF d = c THEN @[d] \ chs ELSE @[d]])]
left(p, c, chs) ==
  [channels    |-> NonEmpty([ch \in DOMAIN p.channels |->
                      p.channels[ch] \ (IF ch \in chs THEN {c} ELSE {})]),
   connections |-> NonEmpty([d \in DOMAIN p.connections |->
                      p.connections[d] \ (IF d = c THEN chs ELSE {})])]

unsubscribe(p, c, chs) ==
  IF c \notin DOMAIN p.connections THEN p
  ELSE left(p, c, IF chs = {} THEN p.connections[c] ELSE chs)

removeConnection_OneChannel(p, c) ==              \* mutant
  IF c \in DOMAIN p.connections
    THEN left(p, c, {CHOOSE ch \in p.connections[c] : TRUE}) ELSE p
removeConnection(p, c) ==
  IF c \in DOMAIN p.connections THEN left(p, c, p.connections[c]) ELSE p

\* publish returns how many connections the channel has; a destroyed socket
\* is not written to.
publish(p, chs) ==
  LET conns == UNION {At(p.channels, ch) : ch \in chs}
  IN  [count |-> Cardinality(conns), reached |-> {c \in conns : socket[c] = "open"}]

-----------------------------------------------------------------------------
(***************************************************************************)
(* #executeCommand, and the loop of EXEC.                                  *)
(***************************************************************************)
Executed(p, c, cmd) ==
  CASE cmd.name = "SUBSCRIBE"   -> subscribe(p, c, cmd.channels)
    [] cmd.name = "UNSUBSCRIBE" -> unsubscribe(p, c, cmd.channels)
    [] OTHER                    -> p

\* The subscriptions after the first i commands of the queue.
After(p, c, queue) ==
  LET after[i \in 0..Len(queue)] ==
        IF i = 0 THEN p ELSE Executed(after[i - 1], c, queue[i])
  IN  after

Execution(c, queue) ==
  LET after == After(pubsub, c, queue)
  IN  /\ pubsub' = after[Len(queue)]
      /\ ran' = [i \in 1..Len(queue) |->
                   [by         |-> c,
                    command    |-> queue[i],
                    subscribed |-> isSubscribed(after[i - 1], c),
                    published  |-> IF queue[i].name = "PUBLISH"
                                     THEN publish(after[i - 1], queue[i].channels)
                                     ELSE [count |-> 0, reached |-> {}]]]

\* The gates that a line passes, in the order of handleLine.
Permitted(c, name) == /\ RequirePass => c \in authenticated
                      /\ name \notin Disabled

Admitted_QueuedUnchecked(c, name) ==              \* mutant
  /\ socket[c] = "open"
  /\ Permitted(c, name) \/ c \in DOMAIN transactions
  /\ isSubscribed(pubsub, c) => name \in {"SUBSCRIBE", "UNSUBSCRIBE"}

Admitted(c, name) ==
  /\ socket[c] = "open"
  /\ Permitted(c, name)
  /\ isSubscribed(pubsub, c) => name \in {"SUBSCRIBE", "UNSUBSCRIBE"}

\* AUTH with the right password, the only line that an unauthenticated
\* connection gets anything from.
Authenticate(c) ==
  /\ socket[c] = "open"
  /\ RequirePass /\ c \notin authenticated
  /\ authenticated' = authenticated \cup {c}
  /\ ran' = <<>>
  /\ UNCHANGED <<socket, transactions, pubsub>>

Multi(c) ==
  /\ Admitted(c, "MULTI") /\ c \notin DOMAIN transactions
  /\ transactions' = [d \in DOMAIN transactions \cup {c} |->
                        IF d = c THEN <<>> ELSE transactions[d]]
  /\ ran' = <<>>
  /\ UNCHANGED <<socket, authenticated, pubsub>>

Queue(c, cmd) ==
  /\ Admitted(c, cmd.name) /\ c \in DOMAIN transactions
  /\ Len(transactions[c]) < MaxQueue
  /\ transactions' = [transactions EXCEPT ![c] = Append(@, cmd)]
  /\ ran' = <<>>
  /\ UNCHANGED <<socket, authenticated, pubsub>>

Closed(c) == [d \in DOMAIN transactions \ {c} |-> transactions[d]]

Discard(c) ==
  /\ Admitted(c, "DISCARD") /\ c \in DOMAIN transactions
  /\ transactions' = Closed(c)
  /\ ran' = <<>>
  /\ UNCHANGED <<socket, authenticated, pubsub>>

Exec_ClosedLast(c) ==                             \* mutant
  /\ Admitted(c, "EXEC") /\ c \in DOMAIN transactions
  /\ LET queue == transactions[c]
     IN  \/ Execution(c, queue) /\ transactions' = Closed(c)
         \/ \E n \in DOMAIN queue :
              /\ LogFails /\ queue[n].name = "WRITE"
              /\ Execution(c, SubSeq(queue, 1, n)) /\ UNCHANGED transactions
  /\ UNCHANGED <<socket, authenticated>>

\* The transaction ends, then its commands run, up to one whose logging throws
\* if there is one.
Exec(c) ==
  /\ Admitted(c, "EXEC") /\ c \in DOMAIN transactions
  /\ transactions' = Closed(c)
  /\ LET queue == transactions[c]
     IN  \/ Execution(c, queue)
         \/ \E n \in DOMAIN queue :
              /\ LogFails /\ queue[n].name = "WRITE"
              /\ Execution(c, SubSeq(queue, 1, n))
  /\ UNCHANGED <<socket, authenticated>>

Run(c, cmd) ==
  /\ Admitted(c, cmd.name) /\ c \notin DOMAIN transactions
  /\ Execution(c, <<cmd>>)
  /\ UNCHANGED <<socket, authenticated, transactions>>

-----------------------------------------------------------------------------
(***************************************************************************)
(* Sockets.                                                                *)
(***************************************************************************)
Connect(c) ==
  /\ socket[c] = "new"
  /\ socket' = [socket EXCEPT ![c] = "open"]
  /\ ran' = <<>>
  /\ UNCHANGED <<authenticated, transactions, pubsub>>

\* An error, the client's end, a line that is too long, or the server's close.
Destroy(c) ==
  /\ socket[c] = "open"
  /\ socket' = [socket EXCEPT ![c] = "destroyed"]
  /\ ran' = <<>>
  /\ UNCHANGED <<authenticated, transactions, pubsub>>

\* The close event, which comes later.
Close(c) ==
  /\ socket[c] = "destroyed"
  /\ socket' = [socket EXCEPT ![c] = "closed"]
  /\ pubsub' = removeConnection(pubsub, c)
  /\ ran' = <<>>
  /\ UNCHANGED <<authenticated, transactions>>

Next == \E c \in Conns :
  \/ Connect(c) \/ Destroy(c) \/ Close(c)
  \/ Authenticate(c) \/ Multi(c) \/ Exec(c) \/ Discard(c)
  \/ \E cmd \in Commands : Queue(c, cmd) \/ Run(c, cmd)

Spec == Init /\ [][Next]_vars

-----------------------------------------------------------------------------
\* The two maps of the subscriptions are each other's inverse and hold no
\* empty set, whatever mix of subscriptions, disconnects and transactions made
\* them, and a closed connection is in neither: no message goes to, and no
\* count includes, who has left.
MapsMirrored ==
  /\ TypeOK
  /\ \A c \in Conns, ch \in Channels :
       c \in At(pubsub.channels, ch) <=> ch \in At(pubsub.connections, c)
  /\ \A ch \in DOMAIN pubsub.channels : pubsub.channels[ch] # {}
  /\ \A c \in DOMAIN pubsub.connections : pubsub.connections[c] # {} /\ socket[c] # "closed"

\* No connection is both subscribed and in a transaction, not even after an EXEC
\* that ended in the middle of its queue: since a subscriber may neither EXEC nor
\* DISCARD, it could never leave the transaction.
NeverStuckInTransaction ==
  \A c \in DOMAIN transactions : ~isSubscribed(pubsub, c)

\* Nothing runs for a connection that has not given the password, and no
\* disabled command runs, not even out of a transaction's queue; nor does such
\* a connection come to hold a transaction or a subscription.  A subscribed one
\* is held to SUBSCRIBE and UNSUBSCRIBE except inside a transaction, where the
\* commands queued behind a SUBSCRIBE still run.
OnlyPermittedRuns ==
  /\ \A i \in DOMAIN ran : Permitted(ran[i].by, ran[i].command.name)
  /\ RequirePass =>
       DOMAIN transactions \cup DOMAIN pubsub.connections \subseteq authenticated
  /\ \A i \in DOMAIN ran : ran[i].subscribed =>
       \/ ran[i].command.name \in {"SUBSCRIBE", "UNSUBSCRIBE"}
       \/ \E j \in 1..(i - 1) : ran[j].command.name = "SUBSCRIBE"

\* PUBLISH counts the connections that receive the message and, beside them,
\* only such as have broken and not been closed yet.
CountExceedsByBroken ==
  \A i \in DOMAIN ran :
    ran[i].published.count - Cardinality(ran[i].published.reached)
      <= Cardinality({c \in Conns : socket[c] = "destroyed"})

=============================================================================
