------------------------------- MODULE Shutdown -------------------------------
(***************************************************************************)
(* One life of the server: the snapshots (store-engine/src/store/          *)
(* PersistenceManager.ts), the log (AofWriter) and the shutdown that index *)
(* .ts composes of both, with the commands that are served all along.      *)
(*                                                                         *)
(* save() takes the contents at once and then awaits the writing of a      *)
(* temporary file and its renaming.  Three callers may run it: the timer,  *)
(* BGSAVE and the shutdown.  There is no restart here, so the contents are *)
(* the numbers of all commands executed so far, and so is a snapshot.      *)
(***************************************************************************)
EXTENDS AofWriter, FiniteSets

CONSTANTS
  MaxFailures,     \* bound on the saves that fail
  MaxRewrites      \* bound on the rewrites of the log

ASSUME BoundAssumption == MaxFailures \in Nat /\ MaxRewrites \in Nat

VARIABLES
  stage,           \* of the shutdown: "serving", "saving" (the last snapshot),
                   \* "stats" (closing the dashboard's server), "closed" (the
                   \* server's sockets), "exited", or "stuck" if stop() threw
  counted,         \* the commands that moved the store's dirtyCount
  lastSaved,       \* #lastSavedDirtyCount
  saver,           \* for every caller of save(), where it awaits
  dumpTemp,        \* the temporary file of the snapshot
  dump,            \* the snapshot
  failures,        \* how many saves have failed
  rewrites,        \* how many rewrites have begun
  atSignal,        \* history: the commands executed when the signal came
  lastSave         \* history: what became of the save that shutdown asks for

aofVars    == <<policy, logVars, rewriteVars, life, historyVars>>
saveVars   == <<lastSaved, saver, dumpTemp, dump, failures, rewrites>>
signalVars == <<atSignal, lastSave>>

\* What a file holds that is half written or not there: no command is number 0.
Partial == <<0>>
Absent  == <<-1>>

Savers == {"timer", "bgsave", "shutdown"}
Idle   == [phase |-> "idle", contents |-> <<>>, count |-> 0]

dirtyCount == Cardinality(counted)
Accepting  == stage \in {"serving", "saving", "stats", "stuck"}

ServerInit ==
  /\ Init
  /\ stage = "serving" /\ counted = {} /\ lastSaved = 0
  /\ saver = [s \in Savers |-> Idle] /\ dumpTemp = Absent /\ dump = <<>>
  /\ failures = 0 /\ rewrites = 0 /\ atSignal = 0 /\ lastSave = "none"

-----------------------------------------------------------------------------
(***************************************************************************)
(* Commands, and the log's own steps.  A push that creates its list changes*)
(* the store without moving the count.                                     *)
(***************************************************************************)
Command ==
  /\ Accepting
  /\ Execute
  /\ counted' \in {counted, counted \cup {executed'}}
  /\ UNCHANGED <<stage, saveVars, signalVars>>

LogStep ==
  /\ stage # "exited"
  /\ \/ /\ Accepting /\ BeginRewrite
        /\ rewrites < MaxRewrites /\ rewrites' = rewrites + 1
     \/ /\ SyncTimer \/ TempWritten \/ BufferAppended \/ Renamed
        /\ UNCHANGED rewrites
  /\ UNCHANGED <<stage, counted, lastSaved, saver, dumpTemp, dump, failures, signalVars>>

-----------------------------------------------------------------------------
(***************************************************************************)
(* save(), from await to await.                                            *)
(***************************************************************************)
saveInProgress_Unset == FALSE                     \* mutant
saveInProgress == \E s \in Savers : saver[s].phase # "idle"

\* The count is taken before the contents, and both before the first await.
Begin(s) == saver' = [saver EXCEPT ![s] =
  [phase |-> "writing", contents |-> applied, count |-> dirtyCount]]

Dirty == dirtyCount # lastSaved

\* The interval, until shutdown stops it.  A tick that meets a running save
\* does nothing but log an error, and so does a BGSAVE.
TimerTick ==
  /\ stage = "serving"
  /\ Dirty /\ ~saveInProgress
  /\ Begin("timer")
  /\ UNCHANGED <<aofVars, stage, counted, lastSaved, dumpTemp, dump, failures, rewrites, signalVars>>

BgSave ==
  /\ Accepting /\ ~saveInProgress
  /\ Begin("bgsave")
  /\ UNCHANGED <<aofVars, stage, counted, lastSaved, dumpTemp, dump, failures, rewrites, signalVars>>

At(s, point) == stage # "exited" /\ saver[s].phase = point

\* The directory is there, and writeFile empties the file.
TempOpened(s) ==
  /\ At(s, "writing")
  /\ dumpTemp' = Partial
  /\ saver' = [saver EXCEPT ![s].phase = "filling"]
  /\ UNCHANGED <<aofVars, stage, counted, lastSaved, dump, failures, rewrites, signalVars>>

TempFilled(s) ==
  /\ At(s, "filling")
  /\ dumpTemp' = saver[s].contents
  /\ saver' = [saver EXCEPT ![s].phase = "renaming"]
  /\ UNCHANGED <<aofVars, stage, counted, lastSaved, dump, failures, rewrites, signalVars>>

Ended_NotCaught(s, outcome) ==                    \* mutant
  /\ saver' = [saver EXCEPT ![s] = Idle]
  /\ IF s = "shutdown" /\ outcome = "saved" THEN stage' = "stats" /\ lastSave' = outcome
     ELSE UNCHANGED <<stage, lastSave>>
  /\ UNCHANGED <<aofVars, counted, atSignal>>

\* The finally clause, and what awaits the promise.
Ended(s, outcome) ==
  /\ saver' = [saver EXCEPT ![s] = Idle]
  /\ IF s = "shutdown" THEN stage' = "stats" /\ lastSave' = outcome
     ELSE UNCHANGED <<stage, lastSave>>
  /\ UNCHANGED <<aofVars, counted, atSignal>>

DumpRenamed_CountedLate(s) ==                     \* mutant
  /\ At(s, "renaming") /\ dumpTemp # Absent
  /\ dump' = dumpTemp /\ dumpTemp' = Absent
  /\ lastSaved' = dirtyCount
  /\ Ended(s, "saved")
  /\ UNCHANGED <<failures, rewrites>>
DumpRenamed(s) ==
  /\ At(s, "renaming") /\ dumpTemp # Absent
  /\ dump' = dumpTemp /\ dumpTemp' = Absent
  /\ lastSaved' = saver[s].count
  /\ Ended(s, "saved")
  /\ UNCHANGED <<failures, rewrites>>

SaveFails_NoFinally(s) ==                         \* mutant
  /\ stage # "exited" /\ saver[s].phase # "idle"
  /\ failures < MaxFailures /\ failures' = failures + 1
  /\ saver' = [saver EXCEPT ![s].phase = "failed"]
  /\ IF s = "shutdown" THEN stage' = "stats" /\ lastSave' = "failed"
     ELSE UNCHANGED <<stage, lastSave>>
  /\ UNCHANGED <<aofVars, counted, atSignal, lastSaved, dumpTemp, dump, rewrites>>

\* Any of the calls fails, the writing perhaps in the middle.
SaveFails(s) ==
  /\ stage # "exited" /\ saver[s].phase # "idle"
  /\ failures < MaxFailures /\ failures' = failures + 1
  /\ Ended(s, "failed")
  /\ UNCHANGED <<lastSaved, dumpTemp, dump, rewrites>>

-----------------------------------------------------------------------------
(***************************************************************************)
(* The shutdown.  Up to its first await it is one step: the timers and the *)
(* log are stopped and the contents taken.  If stopping the log throws,    *)
(* that was all: later signals are ignored, and the timer is off.          *)
(***************************************************************************)
Signal_NotAwaited ==                              \* mutant
  /\ stage = "serving"
  /\ Stop
  /\ atSignal' = executed
  /\ stage' = IF life' = "stopping" THEN "stuck" ELSE "stats"
  /\ IF stage' = "stuck" \/ saveInProgress THEN UNCHANGED <<saver, lastSave>>
     ELSE Begin("shutdown") /\ lastSave' = "saved"
  /\ UNCHANGED <<policy, counted, lastSaved, dumpTemp, dump, failures, rewrites>>
Signal ==
  /\ stage = "serving"
  /\ Stop
  /\ atSignal' = executed
  /\ IF life' = "stopping" THEN stage' = "stuck" /\ UNCHANGED <<saver, lastSave>>
     ELSE IF saveInProgress THEN stage' = "stats" /\ lastSave' = "refused" /\ UNCHANGED saver
     ELSE stage' = "saving" /\ Begin("shutdown") /\ UNCHANGED lastSave
  /\ UNCHANGED <<policy, counted, lastSaved, dumpTemp, dump, failures, rewrites>>

Proceed(from, to) ==
  /\ stage = from /\ stage' = to
  /\ UNCHANGED <<aofVars, counted, saveVars, signalVars>>

StatsStopped == Proceed("stats", "closed")
Exit == Proceed("closed", "exited")

ServerNext ==
  /\ \/ Command \/ LogStep
     \/ TimerTick \/ BgSave
     \/ \E s \in Savers : TempOpened(s) \/ TempFilled(s) \/ DumpRenamed(s) \/ SaveFails(s)
     \/ Signal \/ StatsStopped \/ Exit
  /\ UNCHANGED policy

serverVars == <<aofVars, stage, counted, saveVars, signalVars>>

\* Timers fire, the calls of the operating system return, and the servers
\* close.  Nothing makes a signal or a command come.
Fairness ==
  /\ WF_serverVars(TimerTick) /\ WF_serverVars(StatsStopped) /\ WF_serverVars(Exit)
  /\ \A s \in Savers : WF_serverVars(TempOpened(s) \/ TempFilled(s) \/ DumpRenamed(s))

ServerSpec == ServerInit /\ [][ServerNext]_serverVars /\ Fairness

-----------------------------------------------------------------------------
\* Whoever saves, and whatever fails: the snapshot on disk is never a half
\* written file and never goes back to older contents.
DumpOnlyAdvances ==
  [][dump' # dump => dump' \notin {Partial, Absent} /\ Len(dump') >= Len(dump)]_serverVars

\* When the timer finds nothing to do, every command that was counted is in the
\* snapshot, even those that came while it was being written.
CleanMeansSaved == ~Dirty => counted \subseteq ToSet(dump)

\* A process that has exited after its last save succeeded leaves everything
\* executed up to the signal in the snapshot; if that save was refused or
\* failed, or never came because stopping the log threw, what was acknowledged is in
\* the snapshot or the log, but for the commands the log is exposed for.
ExitCovers ==
  stage \in {"exited", "stuck"} =>
    IF lastSave = "saved" THEN 1..atSignal \subseteq ToSet(dump)
    ELSE acked \cap (1..atSignal) \subseteq ToSet(dump) \cup ToSet(file) \cup Exposed

\* A counted command reaches the snapshot in the end, if the server is not shut
\* down before.
SavedInTheEnd ==
  \A c \in Commands : c \in counted ~> (c \in ToSet(dump) \/ stage # "serving")

\* The first signal ends the process, unless stopping the log throws.
SignalEnds == (stage # "serving") ~> (stage \in {"exited", "stuck"})

===============================================================================
