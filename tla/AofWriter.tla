------------------------------ MODULE AofWriter ------------------------------
(***************************************************************************)
(* The append-only file and its writer (store-engine/src/store/            *)
(* AofWriter.ts), with the callers that matter to it: commands that change *)
(* the store and are then logged (CommandHandler), the once-a-second sync, *)
(* the rewrite with its awaits, shutdown, and crash and restart (index.ts).*)
(*                                                                         *)
(* A command is its number, in the order of execution.  The contents of    *)
(* the store are abstracted to the sequence of the commands that built     *)
(* them, so the lines that a rewrite writes for the contents are that very *)
(* sequence, and replaying a file gives the file.                          *)
(***************************************************************************)
EXTENDS Integers, SequencesExt

CONSTANTS
  FsyncPolicies,   \* the policies to configure: "always", "everysec", "no"
  Faults,          \* the calls of the operating system that may fail
  MaxCommands      \* bound on the commands ever executed

ASSUME PolicyAssumption == FsyncPolicies \subseteq {"always", "everysec", "no"}
ASSUME FaultAssumption ==
  Faults \subseteq {"write", "sync", "writeFile", "appendFile", "rename", "open"}
ASSUME CommandAssumption == MaxCommands \in Nat

VARIABLES
  policy,          \* #fsyncPolicy, the same in every life
  executed,        \* how many commands have been executed, over all lives
  applied,         \* the commands that built the store's contents
  file,            \* the lines of the AOF, as the operating system has them
  synced,          \* how many of its lines are known to be on the disk
  fd,              \* #fd: "none" (undefined), "open", or "closed" when the
                   \* descriptor it names has been closed behind its back
  dirty,           \* #dirty
  phase,           \* where the running rewrite awaits, or "idle"
  buffer,          \* #rewriteBuffer, defined only in phase "writing"
  temp,            \* the lines of the rewrite's temporary file
  taken,           \* buf, the buffered lines being appended to it
  life,            \* "running", "stopped", or "stopping" if stop() threw
  acked,           \* commands answered with success
  handedOver,      \* history: commands executed after a rewrite has taken the
                   \* buffer, so that no line of theirs can reach its file
  fileless,        \* history: commands executed on no descriptor, or on one
                   \* that had been closed
  inherited        \* history: how many lines the file had when it was opened

logVars     == <<file, inherited, synced, fd, dirty>>
rewriteVars == <<phase, buffer, temp, taken>>
historyVars == <<executed, applied, acked, handedOver, fileless>>
vars        == <<policy, logVars, rewriteVars, life, historyVars>>

Commands == 1..MaxCommands
Rewriting == phase # "idle"
Durable   == SubSeq(file, 1, synced)
Exposed   == handedOver \cup fileless

TypeOK ==
  /\ policy \in FsyncPolicies
  /\ executed \in 0..MaxCommands /\ applied \in Seq(Commands)
  /\ file \in Seq(Commands) /\ synced \in 0..Len(file)
  /\ fd \in {"none", "open", "closed"} /\ dirty \in BOOLEAN
  /\ phase \in {"idle", "writing", "appending", "renaming"}
  /\ buffer \in Seq(Commands) /\ temp \in Seq(Commands) /\ taken \in Seq(Commands)
  /\ life \in {"running", "stopped", "stopping"}
  /\ UNION {acked, handedOver, fileless} \subseteq Commands /\ inherited \in Nat

\* A first start, on an empty disk.
Init ==
  /\ policy \in FsyncPolicies
  /\ executed = 0 /\ applied = <<>> /\ acked = {} /\ handedOver = {} /\ fileless = {}
  /\ file = <<>> /\ inherited = 0 /\ synced = 0 /\ fd = "open" /\ dirty = FALSE
  /\ phase = "idle" /\ buffer = <<>> /\ temp = <<>> /\ taken = <<>>
  /\ life = "running"

-----------------------------------------------------------------------------
(***************************************************************************)
(* write(line).  It runs after the store has changed; if it throws, the    *)
(* client gets an error although the change stays.                         *)
(***************************************************************************)
Fails(call) == call \in Faults

buffered_Never(c) == UNCHANGED buffer             \* mutant
buffered(c) == buffer' = IF phase = "writing" THEN Append(buffer, c) ELSE buffer

Logged_SyncedFirst(c) ==                          \* mutant
  /\ fd = "open"
  /\ file' = Append(file, c)
  /\ IF policy = "always" THEN synced' = Len(file) /\ dirty' = FALSE
     ELSE synced' = synced /\ dirty' = TRUE
  /\ buffered(c)
  /\ acked' = acked \cup {c}

\* The line is written and, under "always", synced; then it is buffered for
\* the running rewrite.
Logged(c) ==
  /\ fd = "open"
  /\ file' = Append(file, c)
  /\ IF policy = "always" THEN synced' = Len(file') /\ dirty' = FALSE
     ELSE synced' = synced /\ dirty' = TRUE
  /\ buffered(c)
  /\ acked' = acked \cup {c}

\* fsyncSync throws: the line is in the file but not in the buffer.
NotSynced(c) ==
  /\ fd = "open" /\ policy = "always" /\ Fails("sync")
  /\ file' = Append(file, c) /\ dirty' = TRUE
  /\ UNCHANGED <<synced, buffer, acked>>

\* writeSync throws.
NotWritten(c) ==
  /\ fd = "open" /\ Fails("write")
  /\ UNCHANGED <<file, synced, dirty, buffer, acked>>

\* On a closed descriptor writeSync throws; or its number has been given to
\* another file or socket meanwhile, which takes the line and may refuse the
\* sync.
Refused(c) ==
  /\ fd = "closed"
  /\ \/ UNCHANGED dirty
     \/ policy = "always" /\ dirty' = TRUE
  /\ UNCHANGED <<file, synced, buffer, acked>>

WrittenElsewhere(c) ==
  /\ fd = "closed"
  /\ acked' = acked \cup {c}
  /\ dirty' = (policy # "always")
  /\ buffered(c)
  /\ UNCHANGED <<file, synced>>

\* After stop() write returns at once.
NotLogged(c) ==
  /\ fd = "none"
  /\ acked' = acked \cup {c}
  /\ UNCHANGED <<file, synced, dirty, buffer>>

Execute ==
  LET c == executed + 1
  IN  /\ executed < MaxCommands
      /\ executed' = c
      /\ applied' = Append(applied, c)
      /\ \/ Logged(c) \/ NotSynced(c) \/ NotWritten(c)
         \/ Refused(c) \/ WrittenElsewhere(c) \/ NotLogged(c)
      /\ fileless' = IF fd # "open" THEN fileless \cup {c} ELSE fileless
      /\ handedOver' = IF phase = "appending" THEN handedOver \cup {c} ELSE handedOver
      /\ UNCHANGED <<inherited, fd, phase, temp, taken, life>>

\* The once-a-second sync.  A failure leaves everything as it is, to be tried
\* again.
Syncable == policy = "everysec" /\ life = "running" /\ dirty /\ fd # "none"

SyncTimer_FailureForgets ==                       \* mutant
  /\ Syncable
  /\ dirty' = FALSE
  /\ \/ synced' = Len(file)
     \/ Fails("sync") /\ UNCHANGED synced
  /\ UNCHANGED <<file, inherited, fd, rewriteVars, life, historyVars>>
SyncTimer ==
  /\ Syncable
  /\ dirty' = FALSE
  /\ \/ fd = "open" /\ synced' = Len(file)
     \/ fd = "closed" /\ UNCHANGED synced         \* another file's lines
  /\ UNCHANGED <<file, inherited, fd, rewriteVars, life, historyVars>>

-----------------------------------------------------------------------------
(***************************************************************************)
(* rewrite(), from await to await.                                         *)
(***************************************************************************)
\* The contents are read at once and the buffer starts empty.  A rewrite that
\* is asked for while one is running is refused.
BeginRewrite ==
  /\ ~Rewriting
  /\ phase' = "writing"
  /\ temp' = applied /\ buffer' = <<>> /\ taken' = <<>>
  /\ UNCHANGED <<logVars, life, historyVars>>

\* The finally clause.
RewriteFails(call) ==
  /\ Fails(call)
  /\ phase' = "idle" /\ buffer' = <<>> /\ taken' = <<>>
  /\ UNCHANGED <<fd, temp>>

\* The old descriptor is closed, and the rename begins.  Closing it twice
\* throws, unless the number is somebody else's by now.
CloseOld ==
  \/ /\ fd' = IF fd = "open" THEN "closed" ELSE fd
     /\ phase' = "renaming"
  \/ /\ fd = "closed"
     /\ phase' = "idle" /\ UNCHANGED fd

TempWritten ==
  /\ phase = "writing"
  /\ \/ RewriteFails("writeFile")
     \/ /\ taken' = buffer /\ buffer' = <<>> /\ UNCHANGED temp
        /\ IF buffer = <<>> THEN CloseOld ELSE phase' = "appending" /\ UNCHANGED fd
  /\ UNCHANGED <<file, inherited, synced, dirty, life, historyVars>>

appended_First(q, late) == late \o q              \* mutant
appended(q, late) == q \o late

BufferAppended ==
  /\ phase = "appending"
  /\ \/ RewriteFails("appendFile")
     \/ /\ temp' = appended(temp, taken) /\ taken' = <<>>
        /\ CloseOld
        /\ UNCHANGED buffer
  /\ UNCHANGED <<file, inherited, synced, dirty, life, historyVars>>

\* The temporary file, never synced, takes the place of the AOF.
Renamed ==
  /\ phase = "renaming"
  /\ \/ RewriteFails("rename") /\ UNCHANGED <<file, inherited, synced>>
     \/ /\ file' = temp /\ inherited' = Len(temp) /\ synced' = 0
        /\ \/ fd' = "open"
           \/ Fails("open") /\ UNCHANGED fd
        /\ phase' = "idle" /\ taken' = <<>> /\ buffer' = <<>> /\ temp' = <<>>
  /\ UNCHANGED <<dirty, life, historyVars>>

-----------------------------------------------------------------------------
\* stop(), called once, by shutdown.  Commands are still served after it, and
\* a running rewrite still ends.
Stop ==
  /\ life = "running"
  /\ \/ /\ fd = "open"
        /\ \/ dirty /\ synced' = Len(file)
           \/ (dirty => Fails("sync")) /\ UNCHANGED synced
        /\ fd' = "none" /\ dirty' = FALSE /\ life' = "stopped"
     \/ /\ fd \in {"none", "closed"}
        /\ fd' = "none" /\ dirty' = FALSE /\ life' = "stopped" /\ UNCHANGED synced
     \/ fd = "closed" /\ life' = "stopping" /\ UNCHANGED <<fd, dirty, synced>>
  /\ UNCHANGED <<file, inherited, rewriteVars, historyVars>>

\* The process ends, at any moment, and is started again: the file is replayed
\* and then opened.  What the operating system has of it is kept.
Restart ==
  /\ applied' = file /\ inherited' = Len(file)
  /\ fd' = "open" /\ dirty' = FALSE /\ life' = "running"
  /\ phase' = "idle" /\ buffer' = <<>> /\ taken' = <<>> /\ temp' = <<>>
  /\ UNCHANGED <<file, synced, executed, acked, handedOver, fileless>>

Next ==
  /\ \/ Execute \/ SyncTimer
     \/ BeginRewrite \/ TempWritten \/ BufferAppended \/ Renamed
     \/ Stop \/ Restart
  /\ UNCHANGED policy

Spec == Init /\ [][Next]_vars

-----------------------------------------------------------------------------
Increasing(q) == \A i, j \in DOMAIN q : i < j => q[i] < q[j]

\* Whatever rewrites and crashes do to it, the file lists executed commands in
\* the order of their execution and none twice: a replay never reorders.
InOrderOnce == TypeOK /\ Increasing(file) /\ ToSet(file) \subseteq ToSet(applied)

\* An acknowledged command can be missing from the file only if it was
\* executed after a rewrite had taken the buffer or while the file was not
\* open (the end of a rewrite, shutdown): never otherwise, whatever fails and
\* whenever the process dies.
LossOnlyWhenExposed == acked \subseteq ToSet(file) \cup Exposed

\* Under "always" the acknowledged commands are on the disk, exposed ones
\* apart, unless the file is one that a rewrite has just put in place.
SyncedUnlessRewritten ==
  policy = "always" /\ synced > 0 => acked \subseteq ToSet(Durable) \cup Exposed

\* Under "everysec", whenever the sync has nothing left to do, every line
\* written since the file was opened is on the disk, and all before it.
CleanCoversWrites ==
  policy = "everysec" /\ life = "running" /\ fd = "open" /\ ~dirty =>
    Durable = file \/ Len(file) = inherited

\* "Logs every mutating command as it happens" (README, Persistence): what is
\* acknowledged while the file is open is in it.
AcknowledgedAreLogged == acked \ fileless \subseteq ToSet(file)

=============================================================================
