-------------------------------- MODULE HookDll --------------------------------
(***************************************************************************)
(* hook.cpp: the DLL that Windows loads into every process with a window    *)
(* while mayu's message hooks are installed.  On its first call it opens    *)
(* mayu's mailslot and shared memory; from then on it tells mayu which      *)
(* thread has the focus and what the lock keys are, through the mailslot    *)
(* or, without one, with WM_COPYDATA.  mayu.cpp's notifyHandler gives it    *)
(* to the engine.                                                           *)
(*                                                                         *)
(* Windows itself (who has the focus, when the DLL is loaded and unloaded)  *)
(* is modelled as far as hook.cpp relies on it.                             *)
(***************************************************************************)
EXTENDS Naturals, Sequences, FiniteSets

CONSTANTS
  Proc,      \* processes with a window
  Nobody,
  NoSlot,    \* processes that may not open the mailslot
  NoMap,     \* processes that may not open the shared memory
  Hung,      \* processes that may stop handling messages
  MaxRuns,   \* bound: how often mayu is started
  MaxMoves   \* bound: what users do

ASSUME HookDllAssumption ==
  /\ Nobody \notin Proc /\ NoSlot \cup NoMap \cup Hung \subseteq Proc
  /\ MaxRuns \in Nat /\ MaxMoves \in Nat

VARIABLES
  mayu,      \* is it running?
  run,       \* its number
  mail,      \* its mailslot
  foreground, lock, \* the process with the focus, Caps Lock
  dll,       \* what the DLL's globals hold in each process
  hung,      \* processes that do not handle messages
  eFocus, eLock, attached, synchronizing, \* the engine: focus, locks, attached threads, m_isSynchronizing
  told,      \* history: since mayu started, has the focus changed, was the lock told,
             \* and was it told while the engine could listen?
  moves

dllVars == <<mayu, run, mail, foreground, lock, dll, hung, eFocus, eLock, attached, synchronizing, told, moves>>

Invalid == MaxRuns + 1

\* slot: 0 is null, as loaded; Invalid is INVALID_HANDLE_VALUE; otherwise the run whose
\* mailslot it is.  focus is g.m_hwndFocus, opened counts the handles that were opened.
Unloaded == [loaded |-> FALSE, init |-> FALSE, slot |-> 0, tray |-> 0, focus |-> FALSE, opened |-> 0]

DllInit ==
  /\ mayu = FALSE /\ run = 0 /\ mail = <<>> /\ foreground = Nobody /\ lock = FALSE
  /\ dll = [p \in Proc |-> Unloaded] /\ hung = {}
  /\ eFocus = Nobody /\ eLock = FALSE /\ attached = {} /\ synchronizing = FALSE
  /\ told = [focus |-> FALSE, lock |-> FALSE, heard |-> FALSE] /\ moves = 0

(* -------------------------- What mayu does with a message ------------------------- *)

\* notifyHandler, and Engine::setLockState, which refuses while it synchronizes.
Handled(e, n) ==
  CASE n.type = "setFocus" -> [e EXCEPT !.focus = IF n.focus THEN n.from ELSE Nobody]
    [] n.type = "lockState" -> IF e.synchronizing THEN e ELSE [e EXCEPT !.lock = n.lock]
    [] n.type = "threadAttach" -> [e EXCEPT !.attached = @ \cup {n.from}]
    [] n.type = "threadDetach" -> [e EXCEPT !.attached = @ \ {n.from}]
    [] n.type = "sync" -> [e EXCEPT !.synchronizing = FALSE]

HandleAll(e, ns) ==
  LET h[i \in 0..Len(ns)] == IF i = 0 THEN e ELSE Handled(h[i - 1], ns[i]) IN h[Len(ns)]

EngineState == [focus |-> eFocus, lock |-> eLock, attached |-> attached, synchronizing |-> synchronizing]

EngineBecomes(e) ==
  /\ eFocus' = e.focus /\ eLock' = e.lock /\ attached' = e.attached /\ synchronizing' = e.synchronizing

\* mailslotHandler.
ReadMailslot ==
  /\ mayu /\ mail # <<>>
  /\ EngineBecomes(Handled(EngineState, Head(mail))) /\ mail' = Tail(mail)
  /\ UNCHANGED <<mayu, run, foreground, lock, dll, hung, told, moves>>

(* --------------------------------- The DLL ---------------------------------------- *)

\* notify: the mailslot if there is a handle, otherwise WM_COPYDATA, which is not used
\* for threadDetach (which is always alone).
ViaCopyData(d, ns) == d.slot = Invalid /\ d.tray = run /\ \A i \in DOMAIN ns : ns[i].type # "threadDetach"
ViaMailslot(d) == d.slot = run

Note(p, type) == [type |-> type, from |-> p, focus |-> FALSE, lock |-> FALSE]

\* Notifications of one process: those through the mailslot are queued, the others are
\* handled at once.
Notify(d, ns) ==
  IF ~mayu THEN UNCHANGED <<mail, eFocus, eLock, attached, synchronizing>>
  ELSE /\ mail' = IF ViaMailslot(d) THEN mail \o ns ELSE mail
       /\ EngineBecomes(IF ViaCopyData(d, ns) THEN HandleAll(EngineState, ns) ELSE EngineState)

\* initialize(false): the mailslot, the shared memory, the tray window.
Initialized(p) ==
  LET d == dll[p]
  IN IF d.init THEN d
     ELSE [d EXCEPT !.loaded = TRUE, !.init = p \notin NoMap,
                    !.slot = IF p \in NoSlot THEN Invalid ELSE run,
                    !.opened = IF p \in NoSlot THEN @ ELSE @ + 1,
                    !.tray = IF p \in NoMap THEN @ ELSE run]

\* The notification of initialize.
Greeting(p) == IF ~dll[p].init /\ p \notin NoMap THEN <<Note(p, "threadAttach")>> ELSE <<>>

\* A hook procedure is called in p: with the shared memory, the notifications are sent.
Hook(p, ns, focus) ==
  LET d == [Initialized(p) EXCEPT !.focus = IF p \in NoMap THEN @ ELSE focus]
  IN /\ dll' = [dll EXCEPT ![p] = d]
     /\ Notify(d, Greeting(p) \o (IF p \in NoMap THEN <<>> ELSE ns))

Live(p) == mayu /\ p \notin hung
Move == moves < MaxMoves /\ moves' = moves + 1

LockNote(p, l) == [Note(p, "lockState") EXCEPT !.lock = l]
\* Mutant: every window is notified of, also the known one, but the flag stays.
FocusNotesOnce(p, has) == IF dll[p].init THEN <<>> ELSE <<[Note(p, "setFocus") EXCEPT !.focus = has]>>

\* notifySetFocus: only a window that is not known to have it.
FocusNotes(p, has) == IF dll[p].focus = has THEN <<>> ELSE <<[Note(p, "setFocus") EXCEPT !.focus = has]>>

\* A DLL that has stayed in its process since an earlier mayu.
Stale(p) == dll[p].init /\ dll[p].tray # run

\* The window of p loses the focus: WM_NCACTIVATE and WM_ACTIVATEAPP while GetFocus
\* returns null.
LoseFocus(p) ==
  /\ Move /\ foreground = p /\ p \notin hung /\ foreground' = Nobody
  /\ IF mayu THEN Hook(p, FocusNotes(p, FALSE), FALSE) ELSE UNCHANGED <<mail, dll, eFocus, eLock, attached, synchronizing>>
  /\ UNCHANGED <<mayu, run, lock, hung, told>>

\* The window of p gets the focus: WM_SETFOCUS.
GetFocus(p) ==
  /\ Move /\ foreground = Nobody /\ p \notin hung /\ foreground' = p
  /\ IF mayu THEN Hook(p, FocusNotes(p, TRUE) \o <<LockNote(p, lock)>>, TRUE)
             ELSE UNCHANGED <<mail, dll, eFocus, eLock, attached, synchronizing>>
  /\ told' = IF mayu THEN [focus |-> TRUE, lock |-> TRUE, heard |-> ~synchronizing /\ ~Stale(p)] ELSE told
  /\ UNCHANGED <<mayu, run, lock, hung>>

\* Caps Lock in p: WM_KEYDOWN in getMessageProc.
LockKey(p) ==
  /\ Move /\ foreground = p /\ p \notin hung /\ lock' = ~lock
  /\ IF mayu THEN Hook(p, <<LockNote(p, ~lock)>>, dll[p].focus)
             ELSE UNCHANGED <<mail, dll, eFocus, eLock, attached, synchronizing>>
  /\ told' = IF mayu THEN [told EXCEPT !.lock = TRUE, !.heard = ~synchronizing /\ ~Stale(p)] ELSE told
  /\ UNCHANGED <<mayu, run, foreground, hung>>

\* The sync key arrives in p: notifySync.
SyncKey(p) ==
  /\ Live(p) /\ foreground = p /\ synchronizing /\ Move
  /\ Hook(p, <<Note(p, "sync")>>, dll[p].focus)
  /\ UNCHANGED <<mayu, run, foreground, lock, hung, told>>

\* Any other message.
OtherMessage(p) ==
  /\ Live(p) /\ Move /\ Hook(p, <<>>, dll[p].focus)
  /\ UNCHANGED <<mayu, run, foreground, lock, hung, told>>

\* DLL_PROCESS_DETACH: notifyThreadDetach, then everything is closed.
Detach(p) ==
  /\ dll[p].loaded /\ Notify(dll[p], <<Note(p, "threadDetach")>>)
  /\ dll' = [dll EXCEPT ![p] = Unloaded]

\* A process ends.
Exits(p) ==
  /\ Move /\ Detach(p) /\ hung' = hung \ {p}
  /\ foreground' = IF foreground = p THEN Nobody ELSE foreground
  /\ UNCHANGED <<mayu, run, lock, told>>

\* Once the hooks are gone, the DLL leaves a process with its next message.
Unload(p) ==
  /\ ~mayu /\ p \notin hung /\ Detach(p)
  /\ UNCHANGED <<mayu, run, foreground, lock, hung, told, moves>>

Hangs(p) ==
  /\ Move /\ p \in Hung \ hung /\ hung' = hung \cup {p}
  /\ UNCHANGED <<mayu, run, mail, foreground, lock, dll, eFocus, eLock, attached, synchronizing, told>>

WakesUp(p) ==
  /\ p \in hung /\ hung' = hung \ {p}
  /\ UNCHANGED <<mayu, run, mail, foreground, lock, dll, eFocus, eLock, attached, synchronizing, told, moves>>

(* ------------------------------- mayu and the engine ------------------------------- *)

\* installMessageHook.  The last mayu has told every window that it is gone
\* (SendMessageTimeout), and the windows that answered have unloaded the DLL.
MayuStarts ==
  /\ ~mayu /\ run < MaxRuns /\ \A p \in Proc \ hung : ~dll[p].loaded
  /\ mayu' = TRUE /\ run' = run + 1 /\ mail' = <<>>
  /\ eFocus' = Nobody /\ eLock' = lock /\ attached' = {} /\ synchronizing' = FALSE
  /\ told' = [focus |-> FALSE, lock |-> FALSE, heard |-> FALSE]
  /\ UNCHANGED <<foreground, lock, dll, hung, moves>>

\* ~Mayu and uninstallMessageHook: the mailslot is closed.
MayuStops ==
  /\ mayu /\ mayu' = FALSE /\ mail' = <<>> /\ synchronizing' = FALSE
  /\ UNCHANGED <<run, foreground, lock, dll, hung, eFocus, eLock, attached, told, moves>>

\* &Sync.
SyncStarts ==
  /\ mayu /\ ~synchronizing /\ Move /\ synchronizing' = TRUE /\ told' = [told EXCEPT !.heard = @ /\ mail = <<>>]
  /\ UNCHANGED <<mayu, run, mail, foreground, lock, dll, hung, eFocus, eLock, attached>>

SyncEnds ==
  /\ synchronizing /\ synchronizing' = FALSE
  /\ UNCHANGED <<mayu, run, mail, foreground, lock, dll, hung, eFocus, eLock, attached, told, moves>>

DllNext ==
  \/ ReadMailslot \/ MayuStarts \/ MayuStops \/ SyncStarts \/ SyncEnds
  \/ \E p \in Proc : \/ LoseFocus(p) \/ GetFocus(p) \/ LockKey(p) \/ SyncKey(p) \/ OtherMessage(p)
                     \/ Exits(p) \/ Unload(p) \/ Hangs(p) \/ WakesUp(p)

DllSpec == DllInit /\ [][DllNext]_dllVars

(* ----------------------------------- Properties ------------------------------------ *)

DllTypeOK ==
  /\ {mayu, lock, eLock, synchronizing} \subseteq BOOLEAN /\ run \in 0..MaxRuns /\ moves \in 0..MaxMoves
  /\ {foreground, eFocus} \subseteq Proc \cup {Nobody} /\ hung \cup attached \subseteq Proc
  /\ \A p \in Proc : dll[p].slot \in 0..Invalid /\ dll[p].tray \in 0..MaxRuns

\* When mayu has read what it was told, the engine takes the window that has the focus
\* for the one that has it, through changes of focus, processes that end or hang, and
\* restarts; a process that still has the DLL of an earlier run is not heard.
FocusFollows ==
  mayu /\ mail = <<>> /\ told.focus /\ foreground # Nobody /\ ~Stale(foreground) => eFocus = foreground

\* ... whatever state the process is in.
FocusAlways == mayu /\ mail = <<>> /\ told.focus /\ foreground # Nobody => eFocus = foreground

\* The engine has the state of the lock keys if it was told while it did not synchronize.
LockFollows == mayu /\ mail = <<>> /\ told.heard => eLock = lock

\* ... if it was told at all.
LockAlways == mayu /\ mail = <<>> /\ told.lock /\ ~synchronizing => eLock = lock

\* The engine's list of threads names no thread that is gone.
AttachedAlive == mayu /\ mail = <<>> => \A p \in attached : dll[p].loaded

\* A process opens the mailslot once.
OneHandle == \A p \in Proc : dll[p].opened <= 1

\* mayu knows focus, locks and threads as they are, once it has read its mail, and every
\* process has one handle.
DllSafe == DllTypeOK /\ FocusFollows /\ LockFollows /\ AttachedAlive /\ OneHandle
=============================================================================
