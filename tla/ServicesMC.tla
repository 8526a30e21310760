------------------------------- MODULE ServicesMC -------------------------------
(***************************************************************************)
(* The parts of the desktop and of the Linux platform that keep state      *)
(* between short operations, for TLC: dialogs, viewers and settings of the  *)
(* Qt interface; devices, key codes and windows of the platform; the list   *)
(* of settings of the Windows program.  A behaviour exercises one part,     *)
(* chosen at the beginning.                                                 *)
(***************************************************************************)
EXTENDS NotificationHistory, Preferences, ConfigDialog, LogViewer, Investigate,
        KeyPath, Devices, WindowQueries, SettingList

CONSTANT Exercised   \* the parts a run is about

VARIABLE service

servicesVars ==
  <<service, historyVars, prefVars, dialogVars, viewerVars, inspectVars, keyPathVars, deviceVars, cacheVars, treeVars, listVars>>

(* -------------------------- Values for the constants -------------------------- *)

\* What the configuration dialog finds: two of three paths.
TwoPaths == <<"a", "b">>

\* The keys of a 104 key keyboard, without Pause.
Kb104 == 1..83 \cup {87, 88} \cup ((96..111) \ {101}) \cup {125, 126, 139}
\* A configuration that names the keys of such a keyboard, but for the menu key and Scroll Lock.
Layout102 == (1..83 \cup {87, 88} \cup DOMAIN Extended) \ {70, E0(93)}
\* The same place on two layouts, and a key above 255.
TwoCodes == {30, 57372}
\* Wheel deltas below and above a detent of 120, of both signs.
SmallDeltas == {-300, -30, 50, 100}

\* The keys devices announce: keyboards, yamy's own output device, a mouse, a drawing tablet.
Bits(d) == CASE d = "own" -> 0..511 [] d = "mouse" -> 272..276 [] d = "tablet" -> {272, 320, 324} [] OTHER -> 1..127
\* Devices that EnumerateKeyboards skips by name.
SkippedByName(d) == d \in {"own", "mouse"}

\* The engine asks about every window, the window of the interface about one.
OneForU(t) == IF t = "t" THEN XWin ELSE {"w"}

\* A setting with a name, one without that defines symbols, and one with a semicolon in its name.
ThreeRows ==
  {[name |-> <<"n">>, filename |-> <<"f">>, symbols |-> <<"">>],
   [name |-> <<"">>, filename |-> <<"g">>, symbols |-> <<"-D", "-E">>],
   [name |-> <<"n", "m">>, filename |-> <<"f">>, symbols |-> <<"">>]}

(* --------------------------------- The parts --------------------------------- *)

Rests(p) == service # p

\* A part that is not exercised has one state.
ServicesInit ==
  /\ service \in Exercised /\ InvestigateInit /\ CacheInit
  /\ HistoryInit /\ (Rests("history") => pastMax = 1)
  /\ PrefInit /\ (Rests("preferences") => stored["hotSeq"] \in Supported /\ stored["default"] = "" /\ hot = SetupGlobalHotkey(stored, TRUE))
  /\ DialogInit /\ (Rests("dialog") => managedActive = 0 /\ disk["a"] = "good" /\ disk["b"] = "good")
  /\ ViewerInit /\ (Rests("log") => limit = 1)
  /\ KeyPathInit /\ (Rests("keys") => layout.xkb = "us")
  /\ DevicesInit /\ (Rests("devices") => plugged = {})
  /\ TreeInit /\ (Rests("tree") => primary = 0 /\ \A w \in TreeWin : parent[w] = Root)
  /\ ListInit /\ (Rests("list") => reg = Converted(FALSE, FALSE).values /\ regIndex = 0)

ServicesNext ==
  /\ UNCHANGED service
  /\ \/ service = "history" /\ HistoryNext
        /\ UNCHANGED <<prefVars, dialogVars, viewerVars, inspectVars, keyPathVars, deviceVars, cacheVars, treeVars, listVars>>
     \/ service = "preferences" /\ PrefNext
        /\ UNCHANGED <<historyVars, dialogVars, viewerVars, inspectVars, keyPathVars, deviceVars, cacheVars, treeVars, listVars>>
     \/ service = "dialog" /\ DialogNext
        /\ UNCHANGED <<historyVars, prefVars, viewerVars, inspectVars, keyPathVars, deviceVars, cacheVars, treeVars, listVars>>
     \/ service = "log" /\ ViewerNext
        /\ UNCHANGED <<historyVars, prefVars, dialogVars, inspectVars, keyPathVars, deviceVars, cacheVars, treeVars, listVars>>
     \/ service = "investigate" /\ InvestigateNext
        /\ UNCHANGED <<historyVars, prefVars, dialogVars, viewerVars, keyPathVars, deviceVars, cacheVars, treeVars, listVars>>
     \/ service = "keys" /\ KeyPathNext
        /\ UNCHANGED <<historyVars, prefVars, dialogVars, viewerVars, inspectVars, deviceVars, cacheVars, treeVars, listVars>>
     \/ service = "devices" /\ DevicesNext
        /\ UNCHANGED <<historyVars, prefVars, dialogVars, viewerVars, inspectVars, keyPathVars, cacheVars, treeVars, listVars>>
     \/ service = "cache" /\ CacheNext
        /\ UNCHANGED <<historyVars, prefVars, dialogVars, viewerVars, inspectVars, keyPathVars, deviceVars, treeVars, listVars>>
     \/ service = "tree" /\ TreeNext
        /\ UNCHANGED <<historyVars, prefVars, dialogVars, viewerVars, inspectVars, keyPathVars, deviceVars, cacheVars, listVars>>
     \/ service = "list" /\ ListNext
        /\ UNCHANGED <<historyVars, prefVars, dialogVars, viewerVars, inspectVars, keyPathVars, deviceVars, cacheVars, treeVars>>

\* Only install and uninstall of the hook are fair; neither is under way in the initial state.
ServicesSpec == ServicesInit /\ [][ServicesNext]_servicesVars /\ DevicesFairness

\* Viewers show what happened: the newest notifications and log entries up to their
\* limits, in order, through clears, pauses, filters and changes of the limit.
ViewersFaithful ==
  /\ HistoryTypeOK /\ HistoryFaithful /\ ViewerShows
  /\ ViewerTypeOK /\ BufferNewest /\ ViewFaithful /\ PauseHonest /\ StatsHonest /\ HighlightsGone

\* The configuration dialog shows and changes the file it names, and the investigate dialog
\* reports the window that was selected.
DialogsHonest ==
  /\ [](DialogTypeOK /\ IconsTruthful /\ FilterTruthful) /\ ActiveKept /\ SetActiveMeant
  /\ [](InvestigateTypeOK /\ ModeFollows /\ KeymapOfSelected /\ GrabReleasable)

\* The preferences store what was edited and nothing else, in all the places that keep them.
PreferencesKept == [](PrefTypeOK /\ PrefsStored /\ SoundStored /\ FiltersShortcut) /\ UneditedKept

\* The setting list stores what was entered, and loads the entry that was chosen.
ListKept == [](ListTypeOK /\ ListStored /\ SelectedLoaded /\ NameMeant) /\ MoveMeant /\ MenuMeant

\* A key that no rule touches comes out as it went in or not at all, from the devices that
\* are read through the code tables and the engine to the injector.
KeysThrough ==
  /\ DevicesTypeOK /\ KeyboardsFound /\ ReadsOwn /\ HookHonest
  /\ KeyPathTypeOK /\ KeyEcho /\ WheelConserved

\* What the engine asks about windows is answered as it is, or was a moment ago, also while
\* two threads share the cache and windows and monitors move.
WindowsFound == [](CacheTypeOK /\ AnswerRecent /\ TreeTypeOK /\ ToplevelIsWindow /\ PointOnMonitor) /\ EvictsOldest
=============================================================================
