------------------------------ MODULE Playground ------------------------------
(***************************************************************************)
(* The playground: one page (dashboard/src/components/sections/            *)
(* PlaygroundSection.tsx) and the WebSocket server it talks to             *)
(* (store-engine/src/server/StatsServer.ts) with its limit on the rate.    *)
(*                                                                         *)
(* A command is the number of its entry in the page's history.  A message  *)
(* to the page is a reply, named by its entry, or one that somebody        *)
(* publishes.  The page has one WebSocket at a time: a new one is made only*)
(* after the close event of the last.                                      *)
(***************************************************************************)
EXTENDS Integers, FiniteSets, SequencesExt

CONSTANTS
  Limit,           \* commands per window: 20 in the code
  Window,          \* its length: 1000 ms in the code
  MaxTime,         \* bound on the clock
  MaxCommands,     \* bound on the commands entered
  MaxPushes,       \* bound on the messages published to the page
  MaxBreaks        \* bound on the failures of the connection or the server

ASSUME LimitAssumption == Limit \in Nat \ {0} /\ Window \in Nat
ASSUME BoundAssumption == {MaxTime, MaxCommands, MaxPushes, MaxBreaks} \subseteq Nat

VARIABLES
  now,             \* the server's clock
  mounted,         \* the page is shown
  history,         \* for every command: its reply, and whether it was alone
  socket,          \* the page's WebSocket: "connecting", "open", "closing", "closed"
  timer,           \* reconnectTimeout is armed
  up, down,        \* the messages under way, of the last connection made
  server,          \* the server runs
  accepted,        \* its end of the connection is open
  commandCount, lastTime,
  subscribed,      \* the connection has subscribed
  executedAt,      \* history: when its commands were executed
  pushes, breaks

pageVars == <<mounted, history, socket, timer>>
linkVars == <<up, down>>
rateVars == <<commandCount, lastTime, subscribed, executedAt>>
endVars  == <<server, accepted, breaks>>
vars     == <<now, pageVars, linkVars, rateVars, endVars, pushes>>

Pending == -1
Offline == -2
Pushed  == 0       \* a published message, among the replies

Init ==
  /\ now = 0
  /\ mounted = TRUE /\ history = <<>> /\ socket = "connecting" /\ timer = FALSE
  /\ up = <<>> /\ down = <<>>
  /\ server = TRUE /\ accepted = FALSE
  /\ commandCount = 0 /\ lastTime = 0 /\ subscribed = FALSE /\ executedAt = <<>>
  /\ pushes = 0 /\ breaks = 0

Tick == /\ now < MaxTime /\ now' = now + 1
        /\ UNCHANGED <<pageVars, linkVars, rateVars, endVars, pushes>>

-----------------------------------------------------------------------------
(***************************************************************************)
(* The page.                                                               *)
(***************************************************************************)
\* The server accepts: a count and a window of its own for the connection.
Opened ==
  /\ socket = "connecting" /\ server
  /\ socket' = "open" /\ timer' = FALSE
  /\ accepted' = TRUE /\ commandCount' = 0 /\ lastTime' = now
  /\ subscribed' = FALSE /\ executedAt' = <<>> /\ up' = <<>> /\ down' = <<>>
  /\ UNCHANGED <<now, mounted, history, server, breaks, pushes>>

InFlight == ToSet(up) \cup ToSet(down)
IsPending(i) == history[i].reply = Pending

\* A command sent while others are under way is not alone, and nor are they.
Entered(flying, reply) ==
  history' = Append([i \in DOMAIN history |-> [history[i] EXCEPT !.alone = @ /\ i \notin flying]],
                    [reply |-> reply, alone |-> flying = {}])

SendCommand ==
  LET i == Len(history) + 1
  IN  /\ mounted /\ i <= MaxCommands
      /\ IF socket = "open" THEN Entered(InFlight, Pending) /\ up' = Append(up, i)
         ELSE Entered({}, Offline) /\ UNCHANGED up
      /\ UNCHANGED <<now, mounted, socket, timer, down, rateVars, endVars, pushes>>

Attach_Oldest(reply) ==                           \* mutant
  LET waiting == {i \in DOMAIN history : IsPending(i)}
  IN  history' = [i \in DOMAIN history |->
        IF waiting # {} /\ i = Min(waiting) THEN [history[i] EXCEPT !.reply = reply]
        ELSE [history[i] EXCEPT !.alone = @ /\ ~(reply = Pushed /\ i \in waiting)]]

\* Whatever arrives is the reply of the latest command that has none.
Attach(reply) ==
  LET waiting == {i \in DOMAIN history : IsPending(i)}
  IN  history' = [i \in DOMAIN history |->
        [reply |-> IF waiting # {} /\ i = Max(waiting) THEN reply ELSE history[i].reply,
         alone |-> history[i].alone /\ ~(reply = Pushed /\ i \in waiting)]]

Received ==
  /\ socket \in {"open", "closing"} /\ down # <<>>
  /\ down' = Tail(down)
  /\ IF mounted THEN Attach(Head(down)) ELSE UNCHANGED history
  /\ UNCHANGED <<now, mounted, socket, timer, up, rateVars, endVars, pushes>>

Closed_OnceOpen ==                                \* mutant
  /\ \/ socket = "connecting" /\ ~server
     \/ socket \in {"open", "closing"} /\ ~accepted
  /\ socket' = "closed" /\ timer' = (socket # "connecting")
  /\ up' = <<>> /\ down' = <<>>
  /\ UNCHANGED <<now, mounted, history, rateVars, endVars, pushes>>

\* onclose, after a refused connection too, and after the page is gone: what is
\* still under way is lost, and the next connection is due in two seconds.
Closed ==
  /\ \/ socket = "connecting" /\ ~server
     \/ socket \in {"open", "closing"} /\ ~accepted
  /\ socket' = "closed" /\ timer' = TRUE
  /\ up' = <<>> /\ down' = <<>>
  /\ UNCHANGED <<now, mounted, history, rateVars, endVars, pushes>>

Reconnect ==
  /\ timer /\ timer' = FALSE
  /\ socket' = "connecting"
  /\ UNCHANGED <<now, mounted, history, linkVars, rateVars, endVars, pushes>>

\* The user goes to another page: the cleanup of the effect.
Unmount ==
  /\ mounted /\ mounted' = FALSE
  /\ timer' = FALSE
  /\ socket' = IF socket \in {"open", "connecting"} THEN "closing" ELSE socket
  /\ UNCHANGED <<now, history, linkVars, rateVars, endVars, pushes>>

-----------------------------------------------------------------------------
(***************************************************************************)
(* The server.                                                             *)
(***************************************************************************)
NextWindow_NotMoved ==                                \* mutant
  [count |-> IF now - lastTime > Window THEN 1 ELSE commandCount + 1, since |-> lastTime]

\* A window begins with the first message after the end of the last.
NextWindow ==
  IF now - lastTime > Window THEN [count |-> 1, since |-> now]
  ELSE [count |-> commandCount + 1, since |-> lastTime]

\* A message is counted, and executed or refused; either way it has one reply.
Handle ==
  /\ accepted /\ up # <<>>
  /\ commandCount' = NextWindow.count /\ lastTime' = NextWindow.since
  /\ IF NextWindow.count > Limit THEN UNCHANGED <<executedAt, subscribed>>
     ELSE executedAt' = Append(executedAt, now) /\ subscribed' \in {subscribed, TRUE}
  /\ up' = Tail(up) /\ down' = Append(down, Head(up))
  /\ UNCHANGED <<now, pageVars, endVars, pushes>>

\* A message of a channel goes to the page.
Publish ==
  /\ accepted /\ subscribed /\ pushes < MaxPushes
  /\ pushes' = pushes + 1 /\ down' = Append(down, Pushed)
  /\ UNCHANGED <<now, pageVars, up, rateVars, endVars>>

\* The connection breaks, or the server closes it or dies.
Break ==
  /\ breaks < MaxBreaks /\ breaks' = breaks + 1
  /\ accepted' = FALSE /\ server' \in {server, FALSE}
  /\ UNCHANGED <<now, pageVars, linkVars, rateVars, pushes>>

ServerBack ==
  /\ ~server /\ server' = TRUE
  /\ UNCHANGED <<now, pageVars, linkVars, rateVars, accepted, breaks, pushes>>

\* The close frame of the page is answered.
CloseHandshake ==
  /\ socket = "closing" /\ accepted /\ accepted' = FALSE
  /\ UNCHANGED <<now, pageVars, linkVars, rateVars, server, breaks, pushes>>

Next == \/ Tick \/ Opened \/ SendCommand \/ Received \/ Closed \/ Reconnect \/ Unmount
        \/ Handle \/ Publish \/ Break \/ ServerBack \/ CloseHandshake

\* The events of the connection and the timer come.
Fairness == WF_vars(Opened) /\ WF_vars(Closed) /\ WF_vars(Reconnect) /\ WF_vars(CloseHandshake)

Spec == Init /\ [][Next]_vars /\ Fairness

-----------------------------------------------------------------------------
\* The windows are not aligned to anything, yet in no span of the length of one
\* does a connection execute more than two windows' worth.
RateBound ==
  \A i \in DOMAIN executedAt :
    Cardinality({j \in DOMAIN executedAt : executedAt[j] \in executedAt[i]..executedAt[i] + Window})
      <= 2 * Limit

\* A command that no other was under way with, and that nothing was published to
\* the page during, shows its own reply or none: not one that an earlier command
\* still waits for, lost with its connection.
OwnReply ==
  \A i \in DOMAIN history :
    history[i].alone => history[i].reply \in {i, Pending, Offline}

\* Once the server stays up, the page gets its connection back, however the last
\* one ended.
Reconnects == <>[]server => []<>(socket = "open" \/ ~mounted)

=============================================================================
