----------------------------- MODULE Conversation -----------------------------
(***************************************************************************)
(* One TCP connection from end to end: the client that matches replies to  *)
(* requests (cli/src/Client.ts), the server's framing of lines             *)
(* (store-engine/src/server/TcpServer.ts), the frames of its replies       *)
(* (protocol/src/replies.ts) and the parser that puts them together again  *)
(* (protocol/src/ReplyParser.ts).                                          *)
(*                                                                         *)
(* Each direction is a stream of symbols that arrives in chunks cut        *)
(* anywhere.  A request is its number; of its text only the parts and the  *)
(* line end are kept, of its command only the kind, which fixes the shape  *)
(* of the reply:                                                           *)
(*   plain       one line          empty  a list of no element             *)
(*   list, word  a list, word one whose first element is a word of the     *)
(*               push messages     exec   EXEC of commands with one line   *)
(*   nested      EXEC of commands, one of which is answered with a list    *)
(*   subscribe   SUBSCRIBE to the channel                                *)
(*   unsubscribe UNSUBSCRIBE without naming channels                     *)
(***************************************************************************)
EXTENDS Integers, SequencesExt

CONSTANTS
  Kinds,           \* the kinds of request to send
  MaxLine,         \* maxLineBytes
  MaxRequests,     \* bound on the requests sent
  MaxPushes        \* bound on the messages that others publish

AllKinds == {"plain", "empty", "list", "word", "exec", "nested", "subscribe", "unsubscribe"}
Regular  == {"plain", "empty", "list", "exec"}

ASSUME KindAssumption  == Kinds \subseteq AllKinds
ASSUME BoundAssumption == MaxRequests \in Nat /\ MaxPushes \in Nat

VARIABLES
  sent,            \* the kinds of the requests passed to send(), in order
  pending,         \* #pendingResolvers: the requests that wait, in order
  answer,          \* what each request was resolved with
  client,          \* the client's socket: "open", "destroyed", "closed"
  parser,          \* the ReplyParser: its buffer, parsingArray, length, items
  up,              \* the stream to the server
  buffer,          \* the server's line buffer
  server,          \* its socket: "open", "refused" (line too long), "ended"
  handled,         \* history: the lines handed to the handler
  down,            \* the stream to the client
  pushes           \* how many messages have been pushed

upVars   == <<up, buffer, server, handled>>
downVars == <<down, parser, pending, answer>>
vars     == <<sent, client, upVars, downVars, pushes>>

CR == <<"cr">>
LF == <<"lf">>

\* A line of a request, in two parts, and a line of a reply: its prefix, the
\* request it answers, and its content.
Body(r) == <<<<"body", r, 1>>, <<"body", r, 2>>>>
Line(prefix, r, content) == <<"line", prefix, r, content>>
\* Lines on the wire, each with its line end.
Encoded(lines) ==
  [j \in 1..(3 * Len(lines)) |-> CASE j % 3 = 1 -> lines[(j + 2) \div 3]
                                  [] j % 3 = 2 -> CR
                                  [] j % 3 = 0 -> LF]

MinLine == Len(Body(1)) + 2
\* A request for itself is not too long.
ASSUME LineAssumption == MaxLine \in Nat /\ MaxLine >= MinLine

-----------------------------------------------------------------------------
(***************************************************************************)
(* The replies.                                                            *)
(***************************************************************************)
array(r, items) == <<Line("*", r, Len(items))>> \o [i \in DOMAIN items |-> Line("$", r, items[i])]
rawArray(r, n, replies) == <<Line("*", r, n)>> \o replies

PushWords == {"message", "subscribe", "unsubscribe"}
Push == array(0, <<"message", "channel", "text">>)
TooLong == <<Line("-", 0, "line too long")>>

\* The last of its own requests to (un)subscribe says whether the connection that
\* makes request r is subscribed.
Subscribed(r) ==
  \E q \in 1..(r - 1) : /\ sent[q] = "subscribe"
                        /\ \A p \in q..(r - 1) : sent[p] # "unsubscribe"

\* A subscriber's other commands are refused with one line; an UNSUBSCRIBE that
\* finds no subscription is answered with nothing.
ReplyOfKind(r, kind) ==
  CASE kind = "plain"       -> <<Line("+", r, "text")>>
    [] kind = "empty"       -> array(r, <<>>)
    [] kind = "list"        -> array(r, <<"text", "text">>)
    [] kind = "word"        -> array(r, <<"message", "text">>)
    [] kind = "exec"        -> rawArray(r, 2, <<Line(":", r, "text"), Line("+", r, "text")>>)
    [] kind = "nested"      -> rawArray(r, 2, <<Line(":", r, "text")>> \o array(r, <<"text", "text">>))
    [] kind = "subscribe"   -> array(r, <<"subscribe", "channel", "count">>)
    [] kind = "unsubscribe" -> IF Subscribed(r) THEN array(r, <<"unsubscribe", "channel", "count">>)
                               ELSE <<>>
Reply(r) ==
  IF Subscribed(r) /\ sent[r] \notin {"subscribe", "unsubscribe"}
  THEN <<Line("-", r, "only SUBSCRIBE")>> ELSE ReplyOfKind(r, sent[r])

-----------------------------------------------------------------------------
(***************************************************************************)
(* Taking lines out of a buffer, one line end after the other.             *)
(***************************************************************************)
Stripped(line) == IF line # <<>> /\ Last(line) = CR THEN Front(line) ELSE line

Split(text, ends) ==
  LET n == Cardinality(ends)
      end[i \in 0..n] == IF i = 0 THEN 0
                         ELSE LET last == end[i - 1] IN Min({e \in ends : e > last})
  IN  [lines |-> [i \in 1..n |-> Stripped(SubSeq(text, end[i - 1] + 1, end[i] - 1))],
       rest  |-> SubSeq(text, end[n] + 1, Len(text))]

Framed_AllKept(text) ==                           \* mutant
  [Split(text, {i \in DOMAIN text : text[i] = LF}) EXCEPT !.rest = text]

Framed_RestDropped(text) ==                       \* mutant
  [Split(text, {i \in DOMAIN text : text[i] = LF}) EXCEPT !.rest = <<>>]

\* The server's lines end in LF, after a CR or not.
Framed(text) == Split(text, {i \in DOMAIN text : text[i] = LF})

\* Blank lines are left out.
NonBlank(lines) ==
  LET kept[i \in 0..Len(lines)] == IF i = 0 THEN <<>>
                                   ELSE IF lines[i] = <<>> THEN kept[i - 1]
                                   ELSE Append(kept[i - 1], lines[i])
  IN  kept[Len(lines)]

\* The parser's end in CR LF.
Delimited(text) == Split(text, {i \in DOMAIN text : i > 1 /\ text[i] = LF /\ text[i - 1] = CR})

-----------------------------------------------------------------------------
Fresh == [buffer |-> <<>>, parsing |-> FALSE, length |-> 0, items |-> <<>>]

Init ==
  /\ sent = <<>> /\ pending = <<>> /\ answer = <<>> /\ client = "open"
  /\ parser = Fresh
  /\ up = <<>> /\ buffer = <<>> /\ server = "open" /\ handled = <<>>
  /\ down = <<>> /\ pushes = 0

NotYet == <<>>
ConnectionClosed == <<Line("-", 0, "Connection closed")>>

\* Client.send: on a destroyed socket nothing is written, but the request waits
\* all the same.
Send(kind) ==
  LET r == Len(sent) + 1
  IN  /\ r <= MaxRequests
      /\ sent' = Append(sent, kind)
      /\ answer' = Append(answer, NotYet)
      /\ pending' = Append(pending, r)
      /\ up' = IF client = "open" THEN up \o Body(r) \o <<CR, LF>> ELSE up
      /\ UNCHANGED <<client, parser, buffer, server, handled, down, pushes>>

\* The server's data event: everything buffered counts as one line for the
\* limit; then all complete lines are handled, in order.
Accept(chunk, text) ==
  LET framed == Framed(text)
      lines  == NonBlank(framed.lines)
      reply(l) == IF \E r \in DOMAIN sent : l = Body(r)
                  THEN Reply(CHOOSE r \in DOMAIN sent : l = Body(r))
                  ELSE <<Line("-", 0, "unknown command")>>
      written[i \in 0..Len(lines)] ==
        IF i = 0 THEN down ELSE LET last == written[i - 1] IN last \o Encoded(reply(lines[i]))
  IN  /\ handled' = handled \o lines
      /\ down' = written[Len(lines)]
      /\ buffer' = framed.rest
      /\ UNCHANGED server

Refuse ==
  /\ server' = "refused"
  /\ down' = down \o Encoded(TooLong)
  /\ UNCHANGED <<handled, buffer>>

Data ==
  /\ server = "open"
  /\ \E n \in 1..Len(up) :
       LET chunk == SubSeq(up, 1, n)
       IN  /\ up' = SubSeq(up, n + 1, Len(up))
           /\ IF Len(buffer \o chunk) > MaxLine THEN Refuse ELSE Accept(chunk, buffer \o chunk)
  /\ UNCHANGED <<sent, client, parser, pending, answer, pushes>>

\* Another connection publishes to this one, while it is subscribed.
Published ==
  /\ server = "open" /\ pushes < MaxPushes
  /\ Subscribed(Len(handled) + 1)
  /\ down' = down \o Encoded(Push) /\ pushes' = pushes + 1
  /\ UNCHANGED <<sent, client, upVars, parser, pending, answer>>

\* An error of the socket or the shutdown of the server.
ServerEnds ==
  /\ server = "open"
  /\ server' = "ended"
  /\ UNCHANGED <<sent, client, up, buffer, handled, downVars, pushes>>

-----------------------------------------------------------------------------
(***************************************************************************)
(* The client's side.  A conversation is the parser and who waits.         *)
(***************************************************************************)
\* The parser hands a reply to the request that has waited longest, if any.
Resolve(conv, reply) ==
  IF conv.pending = <<>> THEN conv
  ELSE [conv EXCEPT !.answer[Head(conv.pending)] = reply, !.pending = Tail(@)]

IsPush_Confirmations(items) ==                    \* mutant
  items[2][4] \in {"subscribe", "unsubscribe"}
IsPush(items) == items[2][4] \in PushWords        \* items[1] is the header

\* One line: an element of the list that is being parsed, whatever its prefix,
\* or a reply or header of its own.  items holds the header too.
processLine(conv, line) ==
  IF conv.parsing
  THEN LET items == Append(conv.items, line)
           done  == [conv EXCEPT !.parsing = FALSE, !.length = 0, !.items = <<>>]
       IN  IF Len(items) - 1 # conv.length THEN [conv EXCEPT !.items = items]
           ELSE IF IsPush(items) THEN done
           ELSE Resolve(done, items)
  ELSE IF line[2] = "*" /\ line[4] # 0
       THEN [conv EXCEPT !.parsing = TRUE, !.length = line[4], !.items = <<line>>]
       ELSE Resolve(conv, <<line>>)

\* The complete lines, one after the other.
pump(conv, lines) ==
  LET after[i \in 0..Len(lines)] ==
        IF i = 0 THEN conv ELSE LET last == after[i - 1] IN processLine(last, lines[i][1])
  IN  after[Len(lines)]

\* ReplyParser.append on a data event: every complete line is processed.
Received ==
  /\ client = "open"
  /\ \E n \in 1..Len(down) :
       LET text == Delimited(parser.buffer \o SubSeq(down, 1, n))
           conv == [parsing |-> parser.parsing, length |-> parser.length,
                    items |-> parser.items, pending |-> pending, answer |-> answer]
       IN  /\ down' = SubSeq(down, n + 1, Len(down))
           /\ \E next \in {pump(conv, text.lines)} :
                /\ parser' = [buffer |-> text.rest, parsing |-> next.parsing,
                              length |-> next.length, items |-> next.items]
                /\ pending' = next.pending /\ answer' = next.answer
  /\ UNCHANGED <<sent, client, upVars, pushes>>

\* The user leaves (close), or the socket fails.
Destroy ==
  /\ client = "open"
  /\ client' = "destroyed"
  /\ UNCHANGED <<sent, upVars, downVars, pushes>>

\* The end of the server's side arrives, and with a reset what is still under
\* way is lost.
EndSeen ==
  /\ client = "open" /\ server # "open"
  /\ client' = "destroyed"
  /\ UNCHANGED <<sent, upVars, downVars, pushes>>

CloseEvent_OnlyOldest ==                          \* mutant
  /\ client = "destroyed"
  /\ client' = "closed"
  /\ answer' = [r \in DOMAIN answer |-> IF pending # <<>> /\ r = Head(pending)
                                        THEN ConnectionClosed ELSE answer[r]]
  /\ pending' = <<>>
  /\ UNCHANGED <<sent, upVars, down, parser, pushes>>

\* The close event: whoever waits is told.
CloseEvent ==
  /\ client = "destroyed"
  /\ client' = "closed"
  /\ answer' = [r \in DOMAIN answer |-> IF r \in ToSet(pending) THEN ConnectionClosed ELSE answer[r]]
  /\ pending' = <<>>
  /\ UNCHANGED <<sent, upVars, down, parser, pushes>>

Next == \/ \E kind \in Kinds : Send(kind)
        \/ Data \/ Published \/ ServerEnds
        \/ Received \/ Destroy \/ EndSeen \/ CloseEvent

\* The network delivers, the end of a connection included, and the client's loop
\* runs.  Only Data shortens the one stream, only Received the other.
UpShortened == server = "open" /\ \E n \in 1..Len(up) : up' = SubSeq(up, n + 1, Len(up))
DownShortened ==
  client = "open" /\ \E n \in 1..Len(down) : down' = SubSeq(down, n + 1, Len(down))
Fairness ==
  /\ WF_up(UpShortened) /\ WF_down(DownShortened)
  /\ WF_vars(EndSeen) /\ WF_vars(CloseEvent)

Spec == Init /\ [][Next]_vars /\ Fairness

-----------------------------------------------------------------------------
RegularUpTo(r) == \A q \in 1..r : sent[q] \in Regular

\* However the stream is cut, the handler gets the lines that were sent, each
\* whole, in order, none twice.
HandledInOrder ==
  /\ Len(handled) <= Len(sent)
  /\ \A i \in DOMAIN handled : handled[i] = Body(i)

\* Every answer is one whole reply, never a message or a mixture, to the request
\* or to a later one, unless an EXEC has nested a list; and it is to the request
\* itself if no reply up to it is of another kind than one line or a list
\* without a push word in front.
AnswersMatch ==
  \A r \in DOMAIN answer : answer[r] \notin {NotYet, ConnectionClosed, TooLong} =>
    /\ "nested" \in ToSet(sent) \/ \E q \in r..Len(sent) : answer[r] = Reply(q)
    /\ RegularUpTo(r) => answer[r] = Reply(r)

\* A client that awaits each reply is never refused for the length of its lines:
\* there must be two unhandled ones.
RefusedOnlyWhenAhead ==
  [][server' = "refused" /\ server = "open" => Len(sent) - Len(handled) >= 2]_vars

\* A request made on an open connection is answered in the end, or told that the
\* connection is closed, as long as those before it are of the regular kinds.
Answered ==
  \A r \in 1..MaxRequests :
    (r \in DOMAIN sent /\ RegularUpTo(r) /\ client # "closed" /\ answer[r] = NotYet)
      ~> (r \in DOMAIN sent /\ answer[r] # NotYet)

=============================================================================
