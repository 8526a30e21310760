------------------------------ MODULE HookThreads ------------------------------
(***************************************************************************)
(* InputHookWin32: two threads, made suspended by the constructor, each     *)
(* install a low-level hook and then wait for messages; Windows calls the   *)
(* hook on that thread.  install() resumes them one after the other and     *)
(* waits until each has signalled an auto-reset event; uninstall() posts    *)
(* WM_QUIT to each and joins it.                                            *)
(***************************************************************************)
EXTENDS Naturals, FiniteSets

CONSTANTS
  MaxInputs,    \* bound: keys and mouse events
  MaxInstalls   \* bound: calls of install()

ASSUME HookThreadsAssumption == MaxInputs \in Nat /\ MaxInstalls \in Nat

VARIABLES
  isInstalled, isEnabled, callbacks, \* m_isInstalled, m_isEnabled, m_keyCallback and m_mouseCallback
  thread,    \* where each thread is
  signalled, \* m_hEvent of each
  quit,      \* is WM_QUIT in the thread's queue?
  hook,      \* is its hook installed?
  owner,     \* where the engine's thread is: "idle" or <<step, thread>>
  inputs,    \* events so far
  toEngine, toSystem, \* who got them
  installs

hookVars == <<isInstalled, isEnabled, callbacks, thread, signalled, quit, hook, owner, inputs, toEngine, toSystem, installs>>

Handlers == {"keyboard", "mouse"}
Idle == <<"idle", "none">>

HookInit ==
  /\ isInstalled = FALSE /\ isEnabled = FALSE /\ callbacks = FALSE
  /\ thread = [h \in Handlers |-> "suspended"] /\ signalled = [h \in Handlers |-> FALSE]
  /\ quit = [h \in Handlers |-> FALSE] /\ hook = [h \in Handlers |-> FALSE]
  /\ owner = Idle /\ inputs = 0 /\ toEngine = {} /\ toSystem = {} /\ installs = 0

HookUnchanged == UNCHANGED <<isInstalled, isEnabled, callbacks, inputs, toEngine, toSystem, installs>>

\* install: nothing to do if it is installed.
Install ==
  /\ owner = Idle /\ ~isInstalled /\ installs < MaxInstalls
  /\ callbacks' = TRUE /\ isEnabled' = TRUE /\ installs' = installs + 1
  /\ owner' = <<"start", "keyboard">>
  /\ UNCHANGED <<isInstalled, thread, signalled, quit, hook, inputs, toEngine, toSystem>>

\* InputHandler::start: a thread that has ended is not resumed.
StartThread(h) ==
  /\ owner = <<"start", h>> /\ owner' = <<"wait", h>>
  /\ thread' = [thread EXCEPT ![h] = IF @ = "suspended" THEN "install" ELSE @]
  /\ UNCHANGED <<signalled, quit, hook>> /\ HookUnchanged

StartWait(h) ==
  /\ owner = <<"wait", h>> /\ signalled[h]
  /\ signalled' = [signalled EXCEPT ![h] = FALSE]
  /\ owner' = IF h = "keyboard" THEN <<"start", "mouse">> ELSE Idle
  /\ isInstalled' = (isInstalled \/ h = "mouse")
  /\ UNCHANGED <<isEnabled, callbacks, thread, quit, hook, inputs, toEngine, toSystem, installs>>

\* Mutant: the callbacks are taken away before the threads are stopped.
UninstallHasty ==
  /\ owner = Idle /\ isInstalled
  /\ isEnabled' = FALSE /\ callbacks' = FALSE /\ owner' = <<"stop", "mouse">>
  /\ UNCHANGED <<isInstalled, thread, signalled, quit, hook, inputs, toEngine, toSystem, installs>>

Uninstall ==
  /\ owner = Idle /\ isInstalled
  /\ isEnabled' = FALSE /\ owner' = <<"stop", "mouse">>
  /\ UNCHANGED <<isInstalled, callbacks, thread, signalled, quit, hook, inputs, toEngine, toSystem, installs>>

\* InputHandler::stop.  PostThreadMessage fails for a thread without a queue.
StopThread(h) ==
  /\ owner = <<"stop", h>> /\ owner' = <<"join", h>>
  /\ quit' = [quit EXCEPT ![h] = thread[h] \notin {"suspended", "install", "queue", "ended"}]
  /\ UNCHANGED <<thread, signalled, hook>> /\ HookUnchanged

StopJoin(h) ==
  /\ owner = <<"join", h>> /\ thread[h] = "ended"
  /\ owner' = IF h = "mouse" THEN <<"stop", "keyboard">> ELSE Idle
  /\ isInstalled' = (isInstalled /\ h = "mouse") /\ callbacks' = (callbacks /\ h = "mouse")
  /\ UNCHANGED <<isEnabled, thread, signalled, quit, hook, inputs, toEngine, toSystem, installs>>

\* InputHandler::run: the hook, ...
ThreadInstall(h) ==
  /\ thread[h] = "install"
  /\ hook' = [hook EXCEPT ![h] = TRUE] /\ thread' = [thread EXCEPT ![h] = "queue"]
  /\ UNCHANGED <<signalled, quit, owner>> /\ HookUnchanged

\* ... PeekMessage, which makes the queue, ...
ThreadQueue(h) ==
  /\ thread[h] = "queue" /\ thread' = [thread EXCEPT ![h] = "signal"]
  /\ UNCHANGED <<signalled, quit, hook, owner>> /\ HookUnchanged

\* ... SetEvent, ...
ThreadSignal(h) ==
  /\ thread[h] = "signal" /\ thread' = [thread EXCEPT ![h] = "loop"]
  /\ signalled' = [signalled EXCEPT ![h] = TRUE]
  /\ UNCHANGED <<quit, hook, owner>> /\ HookUnchanged

\* ... GetMessage until WM_QUIT; the hook is removed.
ThreadEnd(h) ==
  /\ thread[h] = "loop" /\ quit[h]
  /\ thread' = [thread EXCEPT ![h] = "ended"] /\ quit' = [quit EXCEPT ![h] = FALSE]
  /\ hook' = [hook EXCEPT ![h] = FALSE]
  /\ UNCHANGED <<signalled, owner>> /\ HookUnchanged

\* Something is typed or moved.  Without a hook the system gets it; otherwise Windows
\* calls lowLevelKeyboardProc or lowLevelMouseProc, where injected input and input while
\* the hook is disabled pass.
Input(h) ==
  /\ inputs < MaxInputs /\ inputs' = inputs + 1
  /\ IF hook[h]
     THEN /\ thread[h] = "loop"
          /\ IF callbacks /\ isEnabled
             THEN thread' = [thread EXCEPT ![h] = "callback"] /\ UNCHANGED toSystem
             ELSE toSystem' = toSystem \cup {inputs + 1} /\ UNCHANGED thread
     ELSE toSystem' = toSystem \cup {inputs + 1} /\ UNCHANGED thread
  /\ UNCHANGED <<isInstalled, isEnabled, callbacks, signalled, quit, hook, owner, toEngine, installs>>

Injected(h) ==
  /\ inputs < MaxInputs /\ inputs' = inputs + 1 /\ (hook[h] => thread[h] = "loop")
  /\ toSystem' = toSystem \cup {inputs + 1}
  /\ UNCHANGED <<isInstalled, isEnabled, callbacks, thread, signalled, quit, hook, owner, toEngine, installs>>

\* keyboardDetour, mouseDetour: the callback of the engine takes the event.
Callback(h) ==
  /\ thread[h] = "callback" /\ thread' = [thread EXCEPT ![h] = "loop"]
  /\ toEngine' = toEngine \cup {inputs}
  /\ UNCHANGED <<isInstalled, isEnabled, callbacks, signalled, quit, hook, owner, inputs, toSystem, installs>>

HookThread(h) == ThreadInstall(h) \/ ThreadQueue(h) \/ ThreadSignal(h) \/ ThreadEnd(h) \/ Callback(h)
Owner(h) == StartThread(h) \/ StartWait(h) \/ StopThread(h) \/ StopJoin(h)

HookNext ==
  \/ Install \/ Uninstall
  \/ \E h \in Handlers : HookThread(h) \/ Owner(h) \/ Input(h) \/ Injected(h)

HookSpec == HookInit /\ [][HookNext]_hookVars
HookFairness == \A h \in Handlers : WF_hookVars(HookThread(h)) /\ WF_hookVars(Owner(h))

HookTypeOK ==
  /\ {isInstalled, isEnabled, callbacks} \subseteq BOOLEAN
  /\ thread \in [Handlers -> {"suspended", "install", "queue", "signal", "loop", "callback", "ended"}]
  /\ {signalled, quit, hook} \subseteq [Handlers -> BOOLEAN]
  /\ owner \in {Idle} \cup ({"start", "wait", "stop", "join"} \X Handlers)
  /\ inputs \in 0..MaxInputs /\ toEngine \cup toSystem \subseteq 1..MaxInputs /\ installs \in 0..MaxInstalls

\* The engine's callbacks exist as long as a hook may be running one of them, also while
\* the hooks are being uninstalled.
CallbackSafe == \A h \in Handlers : thread[h] = "callback" => callbacks

\* Once uninstall() has returned, Windows calls no hook of a thread that has ended, so
\* that input is not held up.
HooksRemoved == ~isInstalled /\ owner = Idle => \A h \in Handlers : ~hook[h]

\* install() returns with both hooks in place.
InstallEnds == owner \in {"start", "wait"} \X Handlers ~> (isInstalled /\ \A h \in Handlers : hook[h])

\* uninstall() returns: WM_QUIT does not get lost.
UninstallEnds == owner[1] = "stop" ~> owner = Idle

\* A callback runs only while there is one, and no hook outlives uninstall().
HooksSafe == HookTypeOK /\ CallbackSafe /\ HooksRemoved
=============================================================================
