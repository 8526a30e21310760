-------------------------------- MODULE WindowsMC --------------------------------
(***************************************************************************)
(* The parts of yamy for Windows for TLC: the driver and its key queue, the *)
(* task tray program, the low-level hooks and the DLL in every process.  A  *)
(* behaviour exercises one part, chosen at the beginning.                   *)
(***************************************************************************)
EXTENDS Detour, KeyQue, Tasktray, HookThreads, HookDll

VARIABLE part

windowsVars == <<part, detourVars, queVars, tasktrayVars, hookVars, dllVars>>

WindowsInit ==
  /\ part \in {"detour", "que", "tasktray", "hooks", "dll"}
  /\ DetourInit /\ KqInit /\ TasktrayInit /\ HookInit /\ DllInit
  \* a part that is not exercised has one state
  /\ part # "detour" => current = CHOOSE k \in Kbd : TRUE
  /\ part # "que" => que = CHOOSE q \in [0..Size - 1 -> Datum] : TRUE

WindowsNext ==
  /\ UNCHANGED part
  /\ \/ part = "detour" /\ DetourNext /\ UNCHANGED <<queVars, tasktrayVars, hookVars, dllVars>>
     \/ part = "que" /\ KqNext /\ UNCHANGED <<detourVars, tasktrayVars, hookVars, dllVars>>
     \/ part = "tasktray" /\ TasktrayNext /\ UNCHANGED <<detourVars, queVars, hookVars, dllVars>>
     \/ part = "hooks" /\ HookNext /\ UNCHANGED <<detourVars, queVars, tasktrayVars, dllVars>>
     \/ part = "dll" /\ DllNext /\ UNCHANGED <<detourVars, queVars, tasktrayVars, hookVars>>

WindowsSpec ==
  /\ WindowsInit /\ [][WindowsNext]_windowsVars
  \* no fair action of the other two is enabled in its initial state
  /\ (part = "detour" => DetourFairness) /\ TasktrayFairness /\ HookFairness


\* Nothing on Windows waits forever: closing the device, loading a setting while the engine
\* synchronizes, quitting, installing and uninstalling the hooks.
WindowsLive == CloseCompletes /\ LoadEnds /\ TrayQuits /\ InstallEnds /\ UninstallEnds
=============================================================================
