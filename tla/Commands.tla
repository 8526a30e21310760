------------------------------ MODULE Commands ------------------------------
(***************************************************************************)
(* The commands that reach beyond the key stream (&ShellExecute, &HelpMessage,  *)
(* &LoadSetting, &Sync, &Wait, &PlugIn), run by the keyboard handler thread     *)
(* with m_cs held, and the window thread that serves the messages they post     *)
(* and replaces the setting.                                                   *)
(***************************************************************************)
EXTENDS Integers, Sequences

CONSTANTS
  Program,       \* what &ShellExecute commands of the settings start
  LateNotice,    \* may the hook's notification come after the 5 seconds &Sync waits
  Threaded,      \* values of &PlugIn's last argument in the settings, a set of Booleans
  MaxSettings_,  \* bound: settings loaded
  MaxCommands_   \* bound: commands run

ASSUME CommandAssumption == LateNotice \in BOOLEAN /\ Threaded \subseteq BOOLEAN /\ MaxSettings_ \in Nat \ {0} /\ MaxCommands_ \in Nat

VARIABLES
  runner,     \* the handler thread: where it is in a command, and the setting the command is part of
  syncing,    \* m_isSynchronizing
  eSync,      \* m_eSync, an automatic event
  notices,    \* notifications of the sync key on their way, by the number of their &Sync
  current,    \* m_setting
  kept,       \* the settings not deleted
  building,   \* the setting load() has built and not yet installed, 0 for none
  slot,       \* m_afShellExecute
  help,       \* m_helpMessage
  balloon,    \* the text of the tray's balloon
  inbox,      \* WM_APP_engineNotify messages
  asked,      \* history variable: the programs the user asked for
  ran,        \* history variable: the programs started
  hurt,       \* history variable: was memory used after it was freed
  libs,       \* plug-in libraries: loaded and running, loaded and left behind
  syncs,      \* history variable: &Syncs so far, and whether one ended with another's notification
  paced,      \* do keys come only when the window thread has caught up
  alive_,     \* is the engine there
  ncommands   \* commands run so far

runVars == <<runner, syncing, eSync, notices, syncs>>
settingVars == <<current, kept, building>>
postVars == <<slot, help, balloon, inbox, asked, ran, hurt>>
commandVars == <<runVars, settingVars, postVars, libs, paced, alive_, ncommands>>

Resting == [at |-> "idle", setting |-> 0]
NoSlot_ == [setting |-> 0, program |-> "none"]

CommandsInit ==
  /\ runner = Resting /\ syncing = FALSE /\ eSync = FALSE /\ notices = {} /\ syncs = [count |-> 0, stray |-> FALSE]
  /\ current = 1 /\ kept = {1} /\ building = 0
  /\ slot = NoSlot_ /\ help = "" /\ balloon = "" /\ inbox = <<>> /\ asked = <<>> /\ ran = <<>> /\ hurt = FALSE
  /\ libs = [running |-> 0, left |-> 0] /\ paced \in BOOLEAN /\ alive_ = TRUE /\ ncommands = 0

(* --------------------------- commands of the handler thread --------------------------- *)

\* A command starts: the handler has m_cs.
Command ==
  /\ alive_ /\ runner = Resting /\ ncommands < MaxCommands_ /\ ncommands' = ncommands + 1
  /\ paced => inbox = <<>> /\ building = 0 /\ notices = {}
  /\ UNCHANGED <<paced, alive_>>

ShellExecute(p) ==
  /\ Command /\ slot' = [setting |-> current, program |-> p]
  /\ inbox' = Append(inbox, "shell") /\ asked' = Append(asked, p)
  /\ UNCHANGED <<runVars, settingVars, help, balloon, ran, hurt, libs>>

\* &HelpMessage: without a text it takes the balloon away.
HelpMessage(text) ==
  /\ Command /\ help' = text /\ inbox' = Append(inbox, IF text = "" THEN "hide" ELSE "help")
  /\ UNCHANGED <<runVars, settingVars, slot, balloon, asked, ran, hurt, libs>>

\* &LoadSetting: an unknown name is only logged.
LoadSetting ==
  /\ Command /\ (inbox' = Append(inbox, "load") \/ UNCHANGED inbox)
  /\ UNCHANGED <<runVars, settingVars, slot, help, balloon, asked, ran, hurt, libs>>

\* &Sync: types the sync key and waits with m_cs released.
SyncCommand ==
  /\ Command /\ syncing' = TRUE /\ runner' = [at |-> "sync", setting |-> current]
  /\ syncs' = [syncs EXCEPT !.count = @ + 1] /\ notices' = notices \cup {syncs.count + 1}
  /\ UNCHANGED <<eSync, settingVars, postVars, libs>>

\* &Wait: up to 5 seconds; more is not waited at all.
WaitUnmarked ==
  /\ Command /\ runner' = [at |-> "sleep", setting |-> current]
  /\ UNCHANGED <<syncing, eSync, notices, syncs, settingVars, postVars, libs>>
Wait ==
  /\ Command
  /\ \/ syncing' = TRUE /\ runner' = [at |-> "sleep", setting |-> current]
     \/ UNCHANGED <<syncing, runner>>
  /\ UNCHANGED <<eSync, notices, syncs, settingVars, postVars, libs>>

\* The event wakes it; which &Sync set the event is seen in notices.
SyncWoken ==
  /\ runner.at = "sync" /\ eSync /\ eSync' = FALSE /\ runner' = [runner EXCEPT !.at = "back"]
  /\ syncs' = [syncs EXCEPT !.stray = @ \/ syncs.count \in notices]
  /\ UNCHANGED <<syncing, notices, settingVars, postVars, libs, paced, alive_, ncommands>>

\* Five seconds pass: the notification was lost, the window thread is in load(), or it is late.
TimesOutNever == FALSE /\ UNCHANGED commandVars
TimesOut ==
  /\ runner.at = "sync" /\ ~eSync /\ (LateNotice \/ notices = {} \/ building # 0) /\ runner' = [runner EXCEPT !.at = "back"]
  /\ UNCHANGED <<syncing, eSync, notices, syncs, settingVars, postVars, libs, paced, alive_, ncommands>>

\* Both commands take m_cs again.
Back ==
  /\ runner.at \in {"sleep", "back"} /\ runner' = Resting /\ syncing' = FALSE
  /\ UNCHANGED <<eSync, notices, syncs, settingVars, postVars, libs, paced, alive_, ncommands>>

\* &PlugIn: the library or its function may be missing, the thread may fail to start.
PlugIn(thread) ==
  /\ Command
  /\ \/ UNCHANGED libs
     \/ libs' = [libs EXCEPT ![IF thread THEN "running" ELSE "left"] = @ + 1]
  /\ UNCHANGED <<runVars, settingVars, postVars>>

\* plugInThread ends: delete plugin, which asks the engine's window system to free the library.
PlugInThread ==
  /\ libs.running > 0 /\ libs' = [libs EXCEPT !.running = @ - 1] /\ hurt' = (hurt \/ ~alive_)
  /\ UNCHANGED <<runVars, settingVars, slot, help, balloon, inbox, asked, ran, paced, alive_, ncommands>>

(* ---------------------------------- the window thread ---------------------------------- *)

\* syncNotify, when the hook has seen the sync key; the notification may also be lost.
Notify(n) ==
  /\ alive_ /\ building = 0 /\ n \in notices /\ notices' = notices \ {n}
  /\ (eSync' = (eSync \/ syncing) \/ UNCHANGED eSync)
  /\ UNCHANGED <<runner, syncing, syncs, settingVars, postVars, libs, paced, alive_, ncommands>>

\* Command_ShellExecute::executeOnMainThread.
Execute ==
  /\ IF slot.setting \in kept THEN ran' = Append(ran, slot.program) /\ UNCHANGED hurt
     ELSE hurt' = TRUE /\ UNCHANGED ran
  /\ UNCHANGED <<balloon, building>>

\* showHelpMessage(false), then showHelpMessage(true) if there is a text.
ShowHelp(message) ==
  /\ balloon' = IF message = "help" THEN help ELSE ""
  /\ UNCHANGED <<ran, hurt, building>>

\* load: reads the files with no lock and no message served.
LoadFile ==
  /\ building' \in {0, current + 1} \cap 0..MaxSettings_
  /\ UNCHANGED <<balloon, ran, hurt>>

EngineNotify ==
  /\ alive_ /\ building = 0 /\ inbox # <<>> /\ inbox' = Tail(inbox)
  /\ CASE Head(inbox) = "shell" -> Execute
       [] Head(inbox) = "load" -> LoadFile
       [] OTHER -> ShowHelp(Head(inbox))
  /\ UNCHANGED <<runVars, current, kept, slot, help, asked, libs, paced, alive_, ncommands>>

\* The menu's reload.
ReloadMenu ==
  /\ alive_ /\ building = 0 /\ current < MaxSettings_ /\ (paced => inbox = <<>>) /\ building' = current + 1
  /\ UNCHANGED <<runVars, current, kept, postVars, libs, paced, alive_, ncommands>>

\* setSetting, tried again until no command waits; then the old setting is deleted.
SetSetting ==
  /\ building # 0 /\ ~syncing /\ current' = building /\ kept' = {building} /\ building' = 0
  /\ UNCHANGED <<runVars, postVars, libs, paced, alive_, ncommands>>

\* The program ends between commands.
EngineDeleted ==
  /\ alive_ /\ runner = Resting /\ building = 0 /\ (paced => libs.running = 0) /\ alive_' = FALSE
  /\ UNCHANGED <<runVars, settingVars, postVars, libs, paced, ncommands>>

HandlerSteps == SyncWoken \/ TimesOut \/ Back
WindowSteps == SetSetting \/ EngineNotify \/ \E n \in notices : Notify(n)

CommandsNext ==
  \/ \E p \in Program : ShellExecute(p) \/ \E text \in {"", p} : HelpMessage(text)
  \/ LoadSetting \/ SyncCommand \/ Wait \/ (\E thread \in Threaded : PlugIn(thread)) \/ PlugInThread
  \/ HandlerSteps \/ WindowSteps \/ ReloadMenu \/ EngineDeleted

\* The handler and the window thread keep running.
CommandsFairness == WF_commandVars(HandlerSteps) /\ WF_commandVars(WindowSteps)

CommandsSpec == CommandsInit /\ [][CommandsNext]_commandVars /\ CommandsFairness

(* ------------------------------------- properties ------------------------------------- *)

CommandsTypeOK ==
  /\ runner.at \in {"idle", "sync", "sleep", "back"} /\ runner.setting \in 0..MaxSettings_
  /\ syncing \in BOOLEAN /\ eSync \in BOOLEAN /\ notices \subseteq 1..MaxCommands_ /\ syncs.count \in 0..MaxCommands_
  /\ current \in 1..MaxSettings_ /\ kept = {current} /\ building \in 0..MaxSettings_
  /\ help \in Program \cup {""} /\ balloon \in Program \cup {""} /\ Len(inbox) <= MaxCommands_
  /\ libs.running + libs.left <= MaxCommands_ /\ ncommands \in 0..MaxCommands_

\* A command that waits with m_cs released (&Sync, &Wait) comes back to the setting it is part of: no reload
\* deletes its key sequence meanwhile.
RunningKept == runner.at # "idle" => runner.setting \in kept

\* When keys come no faster than the window thread serves them, everything &ShellExecute was asked for is
\* started, once and in order.
ShellRuns == paced /\ inbox = <<>> => ran = asked

\* The same for any typing: the one slot m_afShellExecute is written again before it is read.
ShellAlways == inbox = <<>> => ran = asked

\* Once its messages are served, the balloon shows the last help message.
HelpShown == inbox = <<>> => balloon = help

\* When keys are paced, &Sync ends with the notification of its own sync key or with its timeout, never with an
\* earlier key's.
SyncOwn == paced => ~syncs.stray

\* A plug-in library is freed when its function has returned.
LibrariesFreed == libs.left = 0

\* Nothing is used after it is freed; but a command pressed while load() reads the files points into the setting
\* load() then deletes, and a plug-in's thread outlives the window system.
NeverFreedUsed == ~hurt

\* &Sync never blocks the handler for good: the notification or the timeout ends it.
SyncEnds == syncing ~> ~syncing

\* A reload is done in the end, however many commands wait.
ReloadDone == building # 0 ~> building = 0

\* A command that waits keeps its setting, and what it posts or starts is done once.
CommandsSafe == CommandsTypeOK /\ RunningKept /\ ShellRuns /\ HelpShown /\ SyncOwn /\ LibrariesFreed
=============================================================================
