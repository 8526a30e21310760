------------------------------- MODULE Tasktray -------------------------------
(***************************************************************************)
(* The Windows front end: class Mayu (mayu.cpp), the window procedure of    *)
(* its tray window, and FixScancodeMap, a thread that escapes the NLS keys  *)
(* (Caps Lock, Zenkaku, ...).  To escape them it writes a modified          *)
(* "Scancode Map" to the registry, makes winlogon reload it and writes the  *)
(* original back; to restore them it only makes winlogon reload.  The       *)
(* window asks for either with a manual-reset event.                        *)
(*                                                                         *)
(* The window's thread handles a message in one step.  Only load() waits:   *)
(* as long as the engine synchronizes, it sleeps and tries again, and the   *)
(* window handles nothing.                                                  *)
(***************************************************************************)
EXTENDS Naturals, Sequences, FiniteSets

CONSTANTS
  EscapeNlsKeys, \* the option escapeNLSKeys
  AnyTime,       \* do remote commands and answers also come while the keys have to be restored?
  MaxEvents      \* bound: messages to the window

ASSUME TasktrayAssumption == {EscapeNlsKeys, AnyTime} \subseteq BOOLEAN /\ MaxEvents \in Nat

VARIABLES
  life,       \* "none", "starting", "loop", "quit", "down", "gone"
  session,    \* m_sessionState
  enabled,    \* Engine::getIsEnabled
  events,     \* the events that are set: "fix", "restore", "quit"
  worker,     \* where FixScancodeMap's thread is
  code,       \* what it is about to report
  nls,        \* what winlogon has loaded: is it the modified map?
  map,        \* what the registry holds: is it the modified map?
  kept,       \* what fix read as the user's map: is it the modified one?
  failed,     \* history: has a request failed?  At most one does
  unwritten,  \* history: could the map not be written back?
  late,       \* injected threads that were given up and still run (m_wlTrash)
  posted,     \* reports that the window has not handled
  retryBox,   \* is the question whether to retry on the screen?
  explorer, icon, \* is there a taskbar; the icon in it
  dialog,     \* m_isSettingDialogOpened
  loading,    \* the setting that load() tries to give to the engine, 0 for none
  setting, inUse, alive, \* m_setting, the engine's setting, what is not deleted
  syncing,    \* Engine::m_isSynchronizing
  helper,     \* yamyd32: "none", "hooked", "ended"
  budget      \* messages so far

nlsVars  == <<events, worker, code, nls, map, kept, failed, unwritten, late, posted, retryBox>>
trayVars == <<explorer, icon>>
loadVars == <<loading, setting, inUse, alive, syncing>>
tasktrayVars == <<life, session, enabled, nlsVars, trayVars, dialog, loadVars, helper, budget>>

NoIcon == "none"
Settings == 0..3

TasktrayInit ==
  /\ life = "none" /\ session = {} /\ enabled = TRUE
  /\ events = {} /\ worker = "wait" /\ code = "none" /\ nls = FALSE /\ map = FALSE /\ kept = FALSE
  /\ failed = FALSE /\ unwritten = FALSE /\ late = 0 /\ posted = <<>> /\ retryBox = FALSE
  /\ explorer = TRUE /\ icon = NoIcon /\ dialog = FALSE
  /\ loading = 0 /\ setting = 0 /\ inUse = 0 /\ alive = {} /\ syncing = FALSE
  /\ helper = "none" /\ budget = 0

(* -------------------------------- The window -------------------------------- *)

\* showTasktrayIcon: the icon is changed if there is a taskbar; m_ni keeps it otherwise.
IconAfter(e) == IF explorer THEN (IF e THEN "enabled" ELSE "disabled") ELSE icon

\* FixScancodeMap::escape.
Escape(yes) == events' = events \cup {IF yes THEN "fix" ELSE "restore"}

\* Mayu::Mayu.  WM_CREATE asks for the keys; the engine is started, the icon is
\* tried for a minute, yamyd32 may fail to start.
Construct ==
  /\ life = "none" /\ life' = "starting"
  /\ IF EscapeNlsKeys THEN Escape(TRUE) ELSE UNCHANGED events
  /\ icon' = IconAfter(TRUE)
  /\ helper' \in {"none", "hooked"}
  /\ UNCHANGED <<session, enabled, worker, code, nls, map, kept, failed, unwritten, late, posted, retryBox, explorer, dialog, loadVars, budget>>

\* new Setting.
Fresh == CHOOSE s \in {1, 2, 3} : s \notin alive /\ \A t \in 1..s - 1 : t \in alive

\* Mayu::load: a file with an error changes nothing.
Load ==
  /\ loading = 0
  /\ \/ UNCHANGED <<loading, alive>>
     \/ loading' = Fresh /\ alive' = alive \cup {Fresh}

\* Mayu::load, the loop: setSetting refuses while the engine synchronizes.
LoadSet ==
  /\ loading # 0 /\ ~syncing
  /\ inUse' = loading /\ setting' = loading /\ alive' = alive \ {setting} /\ loading' = 0
  /\ UNCHANGED <<life, session, enabled, nlsVars, trayVars, dialog, syncing, helper, budget>>

\* messageLoop, before the loop.
FirstLoad ==
  /\ life = "starting" /\ life' = "loop" /\ Load
  /\ UNCHANGED <<session, enabled, nlsVars, trayVars, dialog, setting, inUse, syncing, helper, budget>>

\* A message is handled.
Message ==
  /\ life = "loop" /\ loading = 0 /\ budget < MaxEvents /\ budget' = budget + 1

\* ID_MENUITEM_reload and the entries of its menu, EngineNotify_loadSetting.
Reload ==
  /\ Message /\ Load
  /\ UNCHANGED <<life, session, enabled, nlsVars, trayVars, dialog, setting, inUse, syncing, helper>>

\* ID_MENUITEM_setting: the dialog has a message loop of its own.
OpenSetting ==
  /\ Message /\ ~dialog /\ session = {} /\ dialog' = TRUE
  /\ UNCHANGED <<life, session, enabled, nlsVars, trayVars, loadVars, helper>>

CloseSetting ==
  /\ life = "loop" /\ dialog /\ dialog' = FALSE
  /\ (Load \/ (loading = 0 /\ UNCHANGED <<loading, alive>>))
  /\ UNCHANGED <<life, session, enabled, nlsVars, trayVars, setting, inUse, syncing, helper, budget>>

\* Engine::enable, then the keys and the icon follow.
Enable(e) ==
  /\ enabled' = e /\ Escape(e) /\ icon' = IconAfter(e)
  /\ UNCHANGED <<life, session, worker, code, nls, map, kept, failed, unwritten, late, posted, retryBox, explorer, dialog, loadVars, helper>>

\* ID_MENUITEM_disable.  Nobody uses the menu of a locked session.
MenuDisable == Message /\ session = {} /\ Enable(~enabled)

\* MayuIPCCommand_Enable comes from another application.
RemoteEnable == Message /\ (AnyTime \/ session = {}) /\ \E e \in BOOLEAN : Enable(e)

\* Are the NLS keys escaped while mayu is in charge?
Managed == EscapeNlsKeys /\ enabled

\* Mutant: the other reasons to restore the keys are not looked at.
SessionOnHasty(bit) ==
  /\ session' = session \ {bit}
  /\ IF Managed THEN Escape(TRUE) ELSE UNCHANGED events

\* WTS_SESSION_UNLOCK, WTS_CONSOLE_CONNECT, WTS_REMOTE_CONNECT.
SessionOn(bit) ==
  /\ session' = session \ {bit}
  /\ IF session' = {} /\ Managed THEN Escape(TRUE) ELSE UNCHANGED events

\* WTS_SESSION_LOCK, WTS_CONSOLE_DISCONNECT, WTS_REMOTE_DISCONNECT, WM_QUERYENDSESSION.
SessionOff(bit) ==
  /\ session' = session \cup {bit}
  /\ IF session = {} /\ Managed THEN Escape(FALSE) ELSE UNCHANGED events

\* WM_WTSSESSION_CHANGE.
SessionChange ==
  /\ Message /\ \E bit \in {"locked", "disconnected"} : SessionOn(bit) \/ SessionOff(bit)
  /\ UNCHANGED <<life, enabled, worker, code, nls, map, kept, failed, unwritten, late, posted, retryBox, trayVars, dialog, loadVars, helper>>

\* WM_QUERYENDSESSION, which also posts WM_QUIT.
QueryEndSession ==
  /\ life = "loop" /\ loading = 0 /\ SessionOff("end") /\ life' = "quit" /\ dialog' = FALSE /\ retryBox' = FALSE
  /\ UNCHANGED <<enabled, worker, code, nls, map, kept, failed, unwritten, late, posted, trayVars, loadVars, helper, budget>>

\* ID_MENUITEM_quit.
MenuQuit ==
  /\ life = "loop" /\ loading = 0 /\ session = {} /\ life' = "quit" /\ dialog' = FALSE /\ retryBox' = FALSE
  /\ UNCHANGED <<session, enabled, events, worker, code, nls, map, kept, failed, unwritten, late, posted, trayVars, loadVars, helper, budget>>

\* WM_APP_escapeNLSKeysFailed.  A timeout is shown to the user.
Report ==
  /\ life = "loop" /\ loading = 0 /\ posted # <<>>
  /\ posted' = Tail(posted)
  /\ retryBox' = (retryBox \/ Head(posted) = [code |-> "timeout", escape |-> TRUE])
  /\ UNCHANGED <<life, session, enabled, events, worker, code, nls, map, kept, failed, unwritten, late, trayVars, dialog, loadVars, helper, budget>>

\* errorDialogWithCode returns.
AnswerRetry ==
  /\ life = "loop" /\ loading = 0 /\ retryBox /\ retryBox' = FALSE
  /\ \/ (AnyTime \/ (session = {} /\ enabled)) /\ Escape(TRUE)
     \/ UNCHANGED events
  /\ UNCHANGED <<life, session, enabled, worker, code, nls, map, kept, failed, unwritten, late, posted, trayVars, dialog, loadVars, helper, budget>>

\* The explorer ends; when it is back it broadcasts TaskbarCreated, and the icon is added.
ExplorerEnds ==
  /\ life = "loop" /\ explorer /\ budget < MaxEvents /\ budget' = budget + 1
  /\ explorer' = FALSE /\ icon' = NoIcon
  /\ UNCHANGED <<life, session, enabled, nlsVars, dialog, loadVars, helper>>

TaskbarRestart ==
  /\ life \in {"starting", "loop"} /\ loading = 0 /\ ~explorer /\ explorer' = TRUE
  /\ icon' = (IF enabled THEN "enabled" ELSE "disabled")
  /\ UNCHANGED <<life, session, enabled, nlsVars, dialog, loadVars, helper, budget>>

\* ~Mayu: the hooks go, yamyd32 is released, WM_DESTROY restores the keys, the icon is
\* deleted, the engine stopped.
Destroy ==
  /\ life = "quit" /\ life' = "down"
  /\ helper' = IF helper = "hooked" THEN "ended" ELSE helper
  /\ IF session = {} /\ Managed THEN Escape(FALSE) ELSE UNCHANGED events
  /\ icon' = NoIcon
  /\ UNCHANGED <<session, enabled, worker, code, nls, map, kept, failed, unwritten, late, posted, retryBox, explorer, dialog, loadVars, budget>>

\* ~FixScancodeMap waits for its thread.
Join ==
  /\ life = "down" /\ events' = events \cup {"quit"}
  /\ life' = IF worker = "ended" THEN "gone" ELSE "down"
  /\ UNCHANGED <<session, enabled, worker, code, nls, map, kept, failed, unwritten, late, posted, retryBox, trayVars, dialog, loadVars, helper, budget>>

(* ---------------------------- FixScancodeMap's thread --------------------------- *)

\* threadLoop: of several events, the one with the smallest index.
ThreadLoop ==
  /\ worker = "wait" /\ events # {}
  /\ LET e == IF "fix" \in events THEN "fix" ELSE IF "restore" \in events THEN "restore" ELSE "quit"
     IN /\ events' = events \ {e}
        /\ worker' = CASE e = "fix" -> "write" [] e = "restore" -> "restore" [] e = "quit" -> "ended"
  /\ UNCHANGED <<life, session, enabled, code, nls, map, kept, failed, unwritten, late, posted, retryBox, trayVars, dialog, loadVars, helper, budget>>

\* fix: the registry's map is read and kept, the modified one written.
FixWrite ==
  /\ worker = "write"
  /\ \/ map' = TRUE /\ kept' = map /\ worker' = "fix" /\ UNCHANGED <<code, failed>>
     \/ ~failed /\ worker' = "report" /\ code' = "error" /\ failed' = TRUE /\ UNCHANGED <<map, kept>>
  /\ UNCHANGED <<life, session, enabled, events, nls, unwritten, late, posted, retryBox, trayVars, dialog, loadVars, helper, budget>>

\* update: winlogon loads what the registry holds.  After a timeout it is tried once
\* more; the injected thread is left running.
Update ==
  /\ worker \in {"fix", "restore"}
  /\ \/ nls' = map /\ code' = "ok" /\ UNCHANGED <<late, failed>>
     \/ ~failed /\ late = 0 /\ late' = late + 1 /\ nls' = map /\ code' = "ok" /\ UNCHANGED failed
     \/ ~failed /\ late = 0 /\ late' = 2 /\ code' = "timeout" /\ failed' = TRUE /\ UNCHANGED nls
     \/ ~failed /\ code' = "error" /\ failed' = TRUE /\ UNCHANGED <<nls, late>>
  /\ worker' = IF worker = "fix" THEN "back" ELSE "done"
  /\ UNCHANGED <<life, session, enabled, events, map, kept, unwritten, posted, retryBox, trayVars, dialog, loadVars, helper, budget>>

\* fix: what was kept is written back, or removed if there was none, whatever update said.
\* If that fails, the next fix takes the modified map for the user's.
FixBack ==
  /\ worker = "back" /\ worker' = "report"
  /\ \/ map' = kept /\ UNCHANGED <<code, failed, unwritten>>
     \/ ~failed /\ code' = "error" /\ failed' = TRUE /\ unwritten' = TRUE /\ UNCHANGED map
  /\ UNCHANGED <<life, session, enabled, events, nls, kept, late, posted, retryBox, trayVars, dialog, loadVars, helper, budget>>

\* PostMessage: nobody gets it once the window is destroyed.
PostReport ==
  /\ worker \in {"report", "done"} /\ worker' = "wait" /\ code' = "none"
  /\ posted' = IF life \in {"starting", "loop"}
               THEN Append(posted, [code |-> code, escape |-> worker = "report"]) ELSE posted
  /\ UNCHANGED <<life, session, enabled, events, nls, map, kept, failed, unwritten, late, retryBox, trayVars, dialog, loadVars, helper, budget>>

\* A thread that was given up loads what the registry holds now.
LateUpdate ==
  /\ late > 0 /\ late' = late - 1 /\ nls' = map
  /\ UNCHANGED <<life, session, enabled, events, worker, code, map, kept, failed, unwritten, posted, retryBox, trayVars, dialog, loadVars, helper, budget>>

(* --------------------------------- The engine ----------------------------------- *)

\* &Sync: the engine waits until the window passes on a notification ...
SyncBegins ==
  /\ life = "loop" /\ ~syncing /\ loading = 0 /\ budget < MaxEvents /\ budget' = budget + 1 /\ syncing' = TRUE
  /\ UNCHANGED <<life, session, enabled, nlsVars, trayVars, dialog, loading, setting, inUse, alive, helper>>

SyncNotify ==
  /\ life = "loop" /\ loading = 0 /\ syncing /\ syncing' = FALSE
  /\ UNCHANGED <<life, session, enabled, nlsVars, trayVars, dialog, loading, setting, inUse, alive, helper, budget>>

\* ... or five seconds have passed.
SyncTimeout ==
  /\ syncing /\ syncing' = FALSE
  /\ UNCHANGED <<life, session, enabled, nlsVars, trayVars, dialog, loading, setting, inUse, alive, helper, budget>>

Worker == ThreadLoop \/ FixWrite \/ Update \/ FixBack \/ PostReport
Ending == Destroy \/ Join

Window ==
  \/ Construct \/ FirstLoad \/ LoadSet \/ Reload \/ OpenSetting \/ CloseSetting \/ MenuDisable \/ RemoteEnable
  \/ SessionChange \/ QueryEndSession \/ MenuQuit \/ Report \/ AnswerRetry \/ ExplorerEnds \/ TaskbarRestart
  \/ Ending

TasktrayNext == Window \/ Worker \/ LateUpdate \/ SyncBegins \/ SyncNotify \/ SyncTimeout

TasktraySpec == TasktrayInit /\ [][TasktrayNext]_tasktrayVars

\* The window's thread and FixScancodeMap's run on; winlogon's thread ends some time.
TasktrayFairness ==
  /\ WF_tasktrayVars(LoadSet) /\ WF_tasktrayVars(Ending) /\ WF_tasktrayVars(Worker)
  /\ WF_tasktrayVars(LateUpdate) /\ WF_tasktrayVars(SyncTimeout)

(* --------------------------------- Properties ----------------------------------- *)

TasktrayTypeOK ==
  /\ life \in {"none", "starting", "loop", "quit", "down", "gone"}
  /\ session \subseteq {"locked", "disconnected", "end"} /\ events \subseteq {"fix", "restore", "quit"}
  /\ {enabled, nls, map, kept, failed, unwritten, retryBox, explorer, dialog, syncing} \subseteq BOOLEAN
  /\ worker \in {"wait", "write", "fix", "restore", "back", "report", "done", "ended"}
  /\ code \in {"none", "ok", "error", "timeout"} /\ late \in 0..2
  /\ icon \in {NoIcon, "enabled", "disabled"} /\ {loading, setting, inUse} \cup alive \subseteq Settings
  /\ helper \in {"none", "hooked", "ended"} /\ budget \in 0..MaxEvents
  /\ \A i \in DOMAIN posted : posted[i] \in [code : {"ok", "error", "timeout"}, escape : BOOLEAN]

\* When mayu has ended, the NLS keys work as before, unless winlogon or the registry
\* refused a request.  Holds only with escapeNLSKeys: without it, whoever disables and
\* enables mayu escapes the keys, and nothing restores them.
NlsRestored == life = "gone" /\ ~failed => ~nls

\* The session that others log in to has its keys: while it is locked or disconnected
\* and all requests are served, the keys are restored.  Holds only with escapeNLSKeys.
NlsAway == session # {} /\ events = {} /\ worker = "wait" /\ ~failed => ~nls

\* The keys are escaped whenever mayu is in charge and all requests are served.
NlsEscaped ==
  life = "loop" /\ session = {} /\ Managed /\ events = {} /\ worker = "wait" /\ ~failed => nls

\* The user's scancode map is in the registry whenever FixScancodeMap is not at work, also
\* after an injection that failed and whatever fix found there, unless it could not be
\* written back; that is reported.
RegistryRestored ==
  /\ worker \in {"wait", "restore", "done", "report", "ended"} /\ ~unwritten => ~map
  /\ worker = "report" /\ map /\ ~kept => code = "error"

\* The icon says whether mayu is enabled, also after the explorer was started again.
IconHonest == life = "loop" /\ icon # NoIcon => (icon = "enabled" <=> enabled)

\* The engine works with a setting that exists, also while a file is loaded.
SettingAlive == inUse # 0 => inUse \in alive

\* load ends: the engine stops synchronizing although the notification that it waits
\* for is not handled meanwhile.
LoadEnds == loading # 0 ~> loading = 0

\* Whoever quits mayu gets rid of it, and of yamyd32.
TrayQuits == life = "quit" ~> (life = "gone" /\ helper # "hooked")

\* What mayu changes in the session it undoes (NLS keys, scancode map), the icon tells the
\* truth, and the engine's setting exists, through sessions, loads and the end.
TasktraySafe == TasktrayTypeOK /\ NlsRestored /\ NlsAway /\ RegistryRestored /\ IconHonest /\ SettingAlive
=============================================================================
