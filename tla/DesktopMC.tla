-------------------------------- MODULE DesktopMC --------------------------------
(***************************************************************************)
(* The parts around the engine that have threads or event loops of their   *)
(* own, for TLC: the GUI and its channel, the tray, crash reports, plugins, *)
(* the commands that talk to other threads, and the metrics.  A behaviour  *)
(* exercises one part, chosen at the beginning.                            *)
(***************************************************************************)
EXTENDS GuiChannel, Tray, CrashReports, Plugins, Commands, Metrics

CONSTANT Exercised   \* the parts a run is about

VARIABLE desktop

desktopVars == <<desktop, guiVars, trayVars, crashVars, pluginVars, commandVars, metricsVars>>

\* Two of three plugin files name their plugin alike.
TwoNames(f) == IF f = "f2" THEN "n2" ELSE "n1"

DesktopInit ==
  /\ desktop \in Exercised
  /\ GuiInit /\ TrayInit /\ CrashInit /\ PluginsInit /\ CommandsInit /\ MetricsInit
  \* a part that is not exercised has one state
  /\ desktop # "gui" => ~listening
  /\ desktop # "tray" => kind = "qt" /\ configs = <<>>
  /\ desktop # "commands" => paced

DesktopNext ==
  /\ UNCHANGED desktop
  /\ \/ desktop = "gui" /\ GuiNext /\ UNCHANGED <<trayVars, crashVars, pluginVars, commandVars, metricsVars>>
     \/ desktop = "tray" /\ TrayNext /\ UNCHANGED <<guiVars, crashVars, pluginVars, commandVars, metricsVars>>
     \/ desktop = "crash" /\ CrashNext /\ UNCHANGED <<guiVars, trayVars, pluginVars, commandVars, metricsVars>>
     \/ desktop = "plugins" /\ PluginsNext /\ UNCHANGED <<guiVars, trayVars, crashVars, commandVars, metricsVars>>
     \/ desktop = "commands" /\ CommandsNext /\ UNCHANGED <<guiVars, trayVars, crashVars, pluginVars, metricsVars>>
     \/ desktop = "metrics" /\ MetricsNext /\ UNCHANGED <<guiVars, trayVars, crashVars, pluginVars, commandVars>>

\* No action that is fair is enabled in the initial state of its part, so a part that rests is not forced to move.
DesktopSpec ==
  /\ DesktopInit /\ [][DesktopNext]_desktopVars
  /\ GuiFairness /\ TrayFairness /\ CrashFairness /\ PluginsFairness /\ CommandsFairness /\ MetricsFairness

\* Foreign code, in plugins and behind commands, is loaded, called and given up in order.
ExtensionsSafe == [](PluginsSafe /\ CommandsSafe) /\ LastFirst

\* Nothing around the engine waits forever: buttons, reconnection, the loading icon, a crash,
\* the scan for plugins, &Sync, a reload that waits for commands, and the logging thread.
DesktopLive ==
  ButtonsBack /\ Reconnects /\ LoadingEnds /\ CrashEnds /\ ScanEnds /\ SyncEnds /\ ReloadDone /\ StopReturns
=============================================================================
