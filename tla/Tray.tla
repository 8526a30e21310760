---------------------------------- MODULE Tray ----------------------------------
(***************************************************************************)
(* The two tray icons of the Qt build, TrayIconQt and SystemTrayAppIndicator. *)
(*                                                                         *)
(* The engine dispatches its messages from whatever thread runs the         *)
(* operation; they reach handleEngineMessage on the GUI thread through the   *)
(* event queue.  The connection itself is not under src/ (no file constructs *)
(* a tray), so Deliver is external.  Icons: "disabled" stands for             *)
(* m_iconStopped too, loadIcons makes them equal.                            *)
(***************************************************************************)
EXTENDS Naturals, Sequences

CONSTANTS
  TrayConfig,          \* configuration files
  kMaxDisplayed,       \* MAX_DISPLAYED_CONFIGS
  ChangesWhileOpen,    \* may the list of configurations change while the Qt menu is open?
  MaxEngineSteps,      \* bound: operations of the engine
  MaxTraySteps         \* bound: what the user does

ASSUME TrayAssumption ==
  /\ kMaxDisplayed \in Nat \ {0}
  /\ ChangesWhileOpen \in BOOLEAN /\ MaxEngineSteps \in Nat /\ MaxTraySteps \in Nat

VARIABLES
  kind,       \* which of the two the program made: "qt" or "indicator"
  run,        \* the engine: "stopped", "starting", "running" or "stopping"
  on,         \* Engine::m_isEnabled
  loading,    \* is a switch on another thread under way?
  configs, activeConfig,  \* ConfigManager: the list and the active index, 0 for none
  posted,     \* messages on their way to the GUI thread
  qt,         \* TrayIconQt
  ind,        \* SystemTrayAppIndicator; fresh: does the GTK menu refer to the present actions?
  engineSteps, traySteps

trayVars == <<kind, run, on, loading, configs, activeConfig, posted, qt, ind, engineSteps, traySteps>>
engineSide == <<kind, run, on, loading, engineSteps>>

FirstOf(s, n) == SubSeq(s, 1, IF Len(s) < n THEN Len(s) ELSE n)

TrayInit ==
  /\ kind \in {"qt", "indicator"}
  /\ run = "stopped" /\ on = TRUE /\ loading = FALSE
  /\ configs \in UNION {[1..n -> TrayConfig] : n \in 0..2} /\ \A i, j \in DOMAIN configs : i # j => configs[i] # configs[j]
  /\ activeConfig \in 0..Len(configs) /\ posted = <<>>
  /\ qt = [icon |-> "disabled", enabled |-> TRUE, checked |-> TRUE, menu |-> FirstOf(configs, kMaxDisplayed), open |-> FALSE]
  /\ ind = [icon |-> "disabled", enabled |-> FALSE, checked |-> FALSE, fresh |-> TRUE,
            managing |-> FALSE]
  /\ engineSteps = 0 /\ traySteps = 0

(* ---------------------------------- The engine ---------------------------------- *)

Working == engineSteps < MaxEngineSteps /\ engineSteps' = engineSteps + 1

\* start and stop announce themselves before and after.
EngineRuns(from, to, type) ==
  /\ run = from /\ run' = to /\ posted' = Append(posted, type)
  /\ UNCHANGED <<kind, on, loading, configs, activeConfig, qt, ind, traySteps>>

EngineStart == Working /\ EngineRuns("stopped", "starting", "EngineStarting")
EngineStarted == EngineRuns("starting", "running", "EngineStarted") /\ UNCHANGED engineSteps
EngineStop == Working /\ EngineRuns("running", "stopping", "EngineStopping")
EngineStopped == EngineRuns("stopping", "stopped", "EngineStopped") /\ UNCHANGED engineSteps

\* switchConfiguration called by another client: ConfigLoading first, ...
LoadBegins ==
  /\ Working /\ ~loading /\ loading' = TRUE /\ posted' = Append(posted, "ConfigLoading")
  /\ UNCHANGED <<kind, run, on, configs, activeConfig, qt, ind, traySteps>>

\* ... ConfigLoaded or ConfigError at the end.
LoadEnds(type) ==
  /\ loading /\ loading' = FALSE /\ posted' = Append(posted, type)
  /\ UNCHANGED <<kind, run, on, configs, activeConfig, qt, ind, engineSteps, traySteps>>

\* Another channel enables or disables the engine; no message tells the trays.
ToggledElsewhere ==
  /\ Working /\ on' = ~on
  /\ UNCHANGED <<kind, run, loading, configs, activeConfig, posted, qt, ind, traySteps>>

(* --------------------------- handleEngineMessage, twice --------------------------- *)

Busy == {"EngineStarting", "EngineStopping", "ConfigLoading"}
Fault == {"EngineError", "ConfigError"}

\* TrayIconQt: m_currentState is set before it is looked at, so ConfigLoaded always means running.
QtIcon(m, icon) ==
  CASE m \in Busy -> "loading"
    [] m \in Fault -> "error"
    [] m \in {"EngineStarted", "ConfigLoaded"} -> "running"
    [] m = "EngineStopped" -> "disabled"

\* updateMenuState reads the engine again.
QtMessage(q, m) ==
  LET known == IF m \in {"EngineStarted", "EngineStopped", "ConfigLoaded"} THEN on ELSE q.enabled IN
  [q EXCEPT !.icon = QtIcon(m, @), !.enabled = known, !.checked = known]

\* updateMenuState of the indicator: the GTK menu is built again from the Qt actions.
RebuildGtk(i) == [i EXCEPT !.fresh = TRUE]

\* populateConfigMenu: the actions are deleted and made again, then the GTK menu.
PopulateIndicator(i) == RebuildGtk([i EXCEPT !.fresh = FALSE])

\* SystemTrayAppIndicator::handleEngineMessage.
IndicatorMessage(i, m) ==
  LET enabled(b) == [i EXCEPT !.enabled = b, !.icon = IF b THEN "running" ELSE "disabled"] IN
  RebuildGtk(CASE m = "EngineStarting" -> enabled(FALSE)
               [] m = "EngineStarted" -> [enabled(TRUE) EXCEPT !.checked = TRUE]
               [] m = "EngineStopped" -> [enabled(FALSE) EXCEPT !.checked = FALSE]
               [] m = "ConfigLoaded" -> PopulateIndicator(i)
               [] m \in Fault -> [i EXCEPT !.icon = "error"]
               [] m \in {"EngineStopping", "ConfigLoading"} -> i)

\* The GUI thread takes a message.
Deliver ==
  /\ posted # <<>> /\ posted' = Tail(posted)
  /\ qt' = IF kind = "qt" THEN QtMessage(qt, Head(posted)) ELSE qt
  /\ ind' = IF kind = "indicator" THEN IndicatorMessage(ind, Head(posted)) ELSE ind
  /\ UNCHANGED <<engineSide, configs, activeConfig, traySteps>>

(* ------------------------------------ The user ------------------------------------ *)

Acts == traySteps < MaxTraySteps /\ traySteps' = traySteps + 1

QtToggleSilent ==
  /\ Acts /\ kind = "qt" /\ on' = ~on /\ qt' = [qt EXCEPT !.open = FALSE, !.icon = IF qt.enabled THEN "disabled" ELSE "running"]
  /\ UNCHANGED <<kind, run, loading, configs, activeConfig, posted, ind, engineSteps>>

\* TrayIconQt::onToggleEnable, from the menu or a double click: it asks the engine.
QtToggle ==
  /\ Acts /\ kind = "qt" /\ on' = ~on
  /\ qt' = [qt EXCEPT !.enabled = ~on, !.checked = ~on, !.icon = IF on THEN "disabled" ELSE "running", !.open = FALSE]
  /\ UNCHANGED <<kind, run, loading, configs, activeConfig, posted, ind, engineSteps>>

\* SystemTrayAppIndicator::onToggleEnable negates its own m_enabled.
IndicatorToggle ==
  /\ Acts /\ kind = "indicator" /\ on' = ~ind.enabled
  /\ ind' = [ind EXCEPT !.enabled = ~@, !.checked = ~@, !.icon = IF ind.enabled THEN "disabled" ELSE "running"]
  /\ UNCHANGED <<kind, run, loading, configs, activeConfig, posted, qt, engineSteps>>

\* onReload switches to the active configuration on the GUI thread; its messages are queued.
Reload ==
  /\ Acts /\ activeConfig # 0 /\ ~loading
  /\ \E type \in {"ConfigLoaded", "ConfigError"} :
       posted' = posted \o <<"ConfigLoading", type>>
  /\ UNCHANGED <<engineSide, configs, activeConfig, qt, ind>>

\* aboutToShow: populateConfigMenu.
QtMenu ==
  /\ Acts /\ kind = "qt" /\ ~qt.open /\ qt' = [qt EXCEPT !.open = TRUE, !.menu = FirstOf(configs, kMaxDisplayed)]
  /\ UNCHANGED <<engineSide, configs, activeConfig, posted, ind>>

\* onSwitchConfig(index): the index the action was made with.
QtSwitch(i) ==
  /\ qt.open /\ i \in DOMAIN qt.menu /\ qt' = [qt EXCEPT !.open = FALSE]
  /\ activeConfig' = IF i <= Len(configs) THEN i ELSE activeConfig
  /\ UNCHANGED <<engineSide, configs, posted, ind, traySteps>>

\* onQuickSwitchHotkey: setNextConfig goes round the list and passes over files that are
\* missing; the only entry of a list is not looked at.
QuickSwitch(missing) ==
  /\ Acts /\ configs # <<>>
  /\ LET After(k) == ((activeConfig + k - 1) % Len(configs)) + 1
         there == {k \in 1..Len(configs) : configs[After(k)] \notin missing}
     IN activeConfig' = IF Len(configs) = 1 THEN 1
                        ELSE IF there = {} THEN activeConfig
                        ELSE After(CHOOSE k \in there : \A l \in there : k <= l)
  /\ UNCHANGED <<engineSide, configs, posted, qt, ind>>

\* onManageConfigs of the indicator runs the dialog's event loop and populates the menu after it.
ManageBegins ==
  /\ Acts /\ kind = "indicator" /\ ~ind.managing /\ ind' = [ind EXCEPT !.managing = TRUE]
  /\ UNCHANGED <<engineSide, configs, activeConfig, posted, qt>>
ManageEnds ==
  /\ ind.managing /\ ind' = PopulateIndicator([ind EXCEPT !.managing = FALSE])
  /\ UNCHANGED <<engineSide, configs, activeConfig, posted, qt, traySteps>>

\* The dialog, or another client, adds or removes a configuration; the active one is kept.
ConfigAdded(c) ==
  /\ Acts /\ (qt.open => ChangesWhileOpen) /\ ~ \E i \in DOMAIN configs : configs[i] = c
  /\ configs' = Append(configs, c)
  /\ UNCHANGED <<engineSide, activeConfig, posted, qt, ind>>
ConfigRemoved(i) ==
  /\ Acts /\ (qt.open => ChangesWhileOpen) /\ i \in DOMAIN configs /\ i # activeConfig
  /\ configs' = SubSeq(configs, 1, i - 1) \o SubSeq(configs, i + 1, Len(configs))
  /\ activeConfig' = IF i < activeConfig THEN activeConfig - 1 ELSE activeConfig
  /\ UNCHANGED <<engineSide, posted, qt, ind>>

\* createMenu of either tray: the entries and what they are connected to.
TrayMenu == QtToggle \/ Reload \/ QtMenu \/ \E i \in 1..Len(qt.menu) : QtSwitch(i)
IndicatorMenu == IndicatorToggle \/ ManageBegins \/ ManageEnds

TrayNext ==
  \/ EngineStart \/ EngineStarted \/ EngineStop \/ EngineStopped \/ ToggledElsewhere \/ Deliver
  \/ LoadBegins \/ \E c \in TrayConfig : ConfigAdded(c)
  \/ \E type \in {"ConfigLoaded", "ConfigError"} : LoadEnds(type)
  \/ TrayMenu \/ IndicatorMenu \/ \E missing \in SUBSET TrayConfig : QuickSwitch(missing)
  \/ \E i \in 1..Len(configs) : ConfigRemoved(i)

\* Operations of the engine end and the GUI thread takes its events.
TrayFairness ==
  /\ WF_trayVars(EngineStarted) /\ WF_trayVars(EngineStopped) /\ WF_trayVars(Deliver)
  /\ WF_trayVars(\E type \in {"ConfigLoaded", "ConfigError"} : LoadEnds(type))

TraySpec == TrayInit /\ [][TrayNext]_trayVars /\ TrayFairness

(* ------------------------------------ Properties ------------------------------------ *)

TrayTypeOK ==
  /\ run \in {"stopped", "starting", "running", "stopping"} /\ on \in BOOLEAN /\ loading \in BOOLEAN
  /\ configs \in Seq(TrayConfig) /\ activeConfig \in 0..Len(configs)
  /\ qt.icon \in {"disabled", "running", "loading", "error"} /\ qt.menu \in Seq(TrayConfig)
  /\ ind.icon \in {"disabled", "running", "error"}

Idle == posted = <<>> /\ ~loading /\ run \in {"stopped", "running"}

\* Once every message is handled, a running engine that is enabled, and that the tray believes enabled,
\* does not have the disabled icon, whatever operations of several threads led there
\* (TrayIconQt::handleEngineMessage, onToggleEnable).
RunningShown == (kind = "qt" /\ Idle /\ run = "running" /\ on /\ qt.enabled) => qt.icon # "disabled"

\* No entry of the GTK menu holds a QAction that populateConfigMenu has deleted.
MenuAlive == ind.fresh

\* A click in the Qt menu makes the configuration it showed the active one (populateConfigMenu,
\* onSwitchConfig).
ClickMeant == [][\A i \in 1..Len(qt.menu) : QtSwitch(i) => <<activeConfig', qt.menu[i]>> \in {<<j, configs[j]>> : j \in DOMAIN configs}]_trayVars

\* The loading icon does not stay.
LoadingEnds == qt.icon = "loading" ~> qt.icon # "loading"

\* Refuted: the engine is disabled or stopped and the icon says running, since ConfigLoaded and
\* EngineStarted set it whatever the engine's state.
NeverFalselyRunning == (kind = "qt" /\ Idle /\ (~on \/ run = "stopped")) => qt.icon # "running"

\* Refuted: the indicator toggles its own m_enabled, which starts as FALSE and follows start and stop.
IndicatorToggles == [][IndicatorToggle => on' # on]_trayVars

\* The tray shows and means what it says: icon, menu and click.
TraySafe == [](TrayTypeOK /\ RunningShown /\ MenuAlive) /\ ClickMeant
=============================================================================
