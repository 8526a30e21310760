------------------------------- MODULE Preferences -------------------------------
(***************************************************************************)
(* What the user prefers, in four places: the QSettings store, the singletons *)
(* NotificationPrefs and NotificationSound, the controls of the two dialogs   *)
(* that edit it (PreferencesDialog and DialogSettingsQt) and the GlobalHotkey *)
(* the tray registers when it starts.  The dialogs are not modal.            *)
(*                                                                         *)
(* A group of settings that one dialog alone has is one key: "other" for     *)
(* PreferencesDialog, "editor" for DialogSettingsQt.  The default            *)
(* configuration is chosen from the list keymaps/files, which the program    *)
(* reads but does not write.                                                 *)
(***************************************************************************)
EXTENDS Naturals

CONSTANTS
  Supported,   \* shortcuts qtKeyToX11 knows
  Unsupported, \* shortcuts it returns 0 for
  Configs,     \* what general/defaultConfig may hold from elsewhere: by hand or an older version
  KeymapFiles, \* those of them that keymaps/files lists
  MaxPrefSteps \* bound: what the user does

ASSUME PreferencesAssumption ==
  "" \notin Supported \cup Unsupported \cup Configs /\ KeymapFiles \subseteq Configs /\ MaxPrefSteps \in Nat

VARIABLES
  stored,   \* QSettings("YAMY", "YAMY")
  prefs,    \* NotificationPrefs: are desktop notifications on?
  sound,    \* NotificationSound: m_enabled and m_volume
  win,      \* the dialogs: their controls, and what the user edited
  hot,      \* GlobalHotkey
  tested,   \* history variable: was a sound tested since the settings were saved or loaded?
  prefSteps

prefVars == <<stored, prefs, sound, win, hot, tested, prefSteps>>

Window == {"preferences", "settings"}
Shared == {"hotOn", "hotSeq", "desktop", "soundOn", "volume"}
LogTabs == {"other"} \* logging and performance, only in the preferences
Startup == {"login", "default"}
PreferencesKeys == Shared \cup LogTabs \cup Startup
SettingsKeys == Shared \cup {"editor"}
KeysOf(w) == IF w = "preferences" THEN PreferencesKeys ELSE SettingsKeys
Choice(k) == CASE k = "hotSeq" -> Supported \cup Unsupported \cup {""}
               [] k = "volume" -> {"70%", "30%"}
               [] k = "default" -> {""} \cup Configs
               [] k \in {"hotOn", "desktop", "soundOn", "other", "login", "editor"} -> BOOLEAN

(* ---------------------------------- GlobalHotkey ---------------------------------- *)

NoHotkey == [enabled |-> TRUE, shortcut |-> "", registered |-> FALSE, keycode |-> ""]

\* registerHotkey.  The grab is asked for on a connection that is closed at once, and XGrabKey reports
\* nothing, so all it can fail for is the key or the display.
RegisterHotkey(h, display) ==
  IF h.shortcut \notin Supported \/ ~display THEN h
  ELSE [h EXCEPT !.registered = TRUE, !.keycode = h.shortcut]

\* unregister: without a display the keycode stays, the flag does not.
Unregister(h, display) ==
  IF ~h.registered THEN h ELSE [h EXCEPT !.registered = FALSE, !.keycode = IF display THEN "" ELSE @]

\* setShortcut and setEnabled.
SetShortcut(h, s, display) ==
  LET g == [Unregister(h, display) EXCEPT !.shortcut = s] IN
  IF s # "" /\ h.enabled THEN RegisterHotkey(g, display) ELSE g
SetEnabled(h, b, display) ==
  LET g == [h EXCEPT !.enabled = b] IN
  IF h.enabled = b THEN h ELSE IF b THEN RegisterHotkey(g, display) ELSE Unregister(g, display)

\* setupGlobalHotkey of the tray.
SetupGlobalHotkey(s, display) ==
  SetShortcut(SetEnabled(NoHotkey, s["hotOn"], display), IF s["hotOn"] THEN s["hotSeq"] ELSE "", display)

(* ----------------------------------- The dialogs ----------------------------------- *)

Shut == [open |-> FALSE]

\* populateConfigDropdown: what is not in the list is not found, and "(None)" is left.
Listed(s) == IF s["default"] \in KeymapFiles THEN s["default"] ELSE ""

\* loadSettings: desktop notifications from the singleton, everything else from the store.
\* Mutant: the sounds from their singleton, too.
LoadedSound(w) ==
  [k \in KeysOf(w) |-> CASE k = "desktop" -> prefs [] k = "default" -> Listed(stored)
                         [] k = "soundOn" -> sound.on [] k = "volume" -> sound.volume [] OTHER -> stored[k]]
Loaded(w) ==
  [k \in KeysOf(w) |-> CASE k = "desktop" -> prefs [] k = "default" -> Listed(stored) [] OTHER -> stored[k]]

PrefInit ==
  /\ stored \in {[k \in PreferencesKeys \cup SettingsKeys |->
                    CASE k = "hotSeq" -> s [] k = "volume" -> "70%" [] k = "default" -> c
                      [] k \in {"hotOn", "desktop"} -> TRUE [] k \in {"soundOn", "other", "login", "editor"} -> FALSE] :
                 s \in Supported \cup Unsupported, c \in {""} \cup Configs}
  /\ prefs = stored["desktop"] /\ sound = [on |-> stored["soundOn"], volume |-> stored["volume"]]
  /\ win = [w \in Window |-> Shut] /\ \E display \in BOOLEAN : hot = SetupGlobalHotkey(stored, display)
  /\ tested = FALSE /\ prefSteps = 0

PrefAct == prefSteps < MaxPrefSteps /\ prefSteps' = prefSteps + 1

\* The constructor of a dialog; the tray raises the preferences that are open.
Open(w) ==
  /\ ~win[w].open
  /\ win' = [win EXCEPT ![w] = [open |-> TRUE, ctl |-> Loaded(w), base |-> stored, edited |-> {}]]
  /\ UNCHANGED <<stored, prefs, sound, hot, tested, prefSteps>>

\* A control may be used when the switch it depends on is checked (updateSoundControlsState, ...).
Usable(c, k) == (k = "hotSeq" => c["hotOn"]) /\ (k = "volume" => c["soundOn"])

EditControl(w, k) ==
  /\ PrefAct /\ win[w].open /\ Usable(win[w].ctl, k)
  /\ \E v \in (IF k = "default" THEN {""} \cup KeymapFiles ELSE Choice(k)) \ {win[w].ctl[k]} :
       win' = [win EXCEPT ![w].ctl[k] = v, ![w].edited = @ \cup {k}]
  /\ UNCHANGED <<stored, prefs, sound, hot, tested>>

\* onResetGeneralDefaults, onResetNotificationDefaults, onResetLoggingDefaults, onResetAdvancedDefaults.
Defaults == [hotOn |-> TRUE, hotSeq |-> CHOOSE s \in Supported : TRUE, desktop |-> TRUE, soundOn |-> FALSE,
             volume |-> "70%", other |-> FALSE, login |-> FALSE, default |-> ""]
ResetTab(keys) ==
  /\ PrefAct /\ win["preferences"].open
  /\ win' = [win EXCEPT !["preferences"].ctl = [k \in KeysOf("preferences") |-> IF k \in keys THEN Defaults[k] ELSE @[k]],
                        !["preferences"].edited = @ \cup keys]
  /\ UNCHANGED <<stored, prefs, sound, hot, tested>>

\* saveSettings of either dialog: its keys are stored, the singletons take what it shows.
SaveSettings(w) ==
  /\ stored' = [k \in DOMAIN stored |-> IF k \in KeysOf(w) THEN win[w].ctl[k] ELSE stored[k]]
  /\ prefs' = win[w].ctl["desktop"] /\ sound' = [on |-> win[w].ctl["soundOn"], volume |-> win[w].ctl["volume"]]
  /\ tested' = FALSE

\* onOk and onSave close the dialog, onApply keeps it.
Save(w) ==
  /\ win[w].open /\ SaveSettings(w) /\ win' = [win EXCEPT ![w] = Shut] /\ UNCHANGED <<hot, prefSteps>>
Apply ==
  /\ PrefAct /\ win["preferences"].open /\ SaveSettings("preferences") /\ UNCHANGED <<win, hot>>

\* onCancel forgets the controls.
Cancel(w) == win[w].open /\ win' = [win EXCEPT ![w] = Shut] /\ UNCHANGED <<stored, prefs, sound, hot, tested, prefSteps>>

\* onTestSound: the singleton gets the volume and the switch of the dialog, saved or not.
TestSound(w) ==
  /\ win[w].open /\ win[w].ctl["soundOn"] /\ tested' = TRUE
  /\ sound' = [on |-> win[w].ctl["soundOn"], volume |-> win[w].ctl["volume"]]
  /\ UNCHANGED <<stored, prefs, win, hot, prefSteps>>

\* The program starts again: loadSettings of both singletons, the hotkey.
Restart ==
  /\ PrefAct /\ prefs' = stored["desktop"] /\ sound' = [on |-> stored["soundOn"], volume |-> stored["volume"]]
  /\ win' = [w \in Window |-> Shut] /\ tested' = FALSE /\ UNCHANGED stored
  /\ \E display \in BOOLEAN : hot' = SetupGlobalHotkey(stored, display)

\* The hotkey's interface, called in any order; the display may be missing at any call.
HotkeyCall ==
  /\ PrefAct /\ UNCHANGED <<stored, prefs, sound, win, tested>>
  /\ \E display \in BOOLEAN :
       \/ \E s \in Supported \cup Unsupported \cup {""} : hot' = SetShortcut(hot, s, display)
       \/ \E b \in BOOLEAN : hot' = SetEnabled(hot, b, display)

PrefNext ==
  \/ \E w \in Window : Open(w) \/ Save(w) \/ Cancel(w) \/ TestSound(w)
  \/ \E w \in Window : \E k \in KeysOf(w) : EditControl(w, k)
  \/ \E keys \in {{"hotOn", "hotSeq", "login", "default"}, {"desktop", "soundOn", "volume"}, {"other"}} : ResetTab(keys)
  \/ Apply \/ Restart \/ HotkeyCall

PrefSpec == PrefInit /\ [][PrefNext]_prefVars

(* ------------------------------------ Properties ------------------------------------ *)

PrefTypeOK ==
  /\ \A k \in DOMAIN stored : stored[k] \in Choice(k)
  /\ prefs \in BOOLEAN /\ sound \in [on : BOOLEAN, volume : Choice("volume")]
  /\ \A w \in Window : win[w].open => \A k \in KeysOf(w) : win[w].ctl[k] \in Choice(k)
  /\ hot.shortcut \in Choice("hotSeq") /\ hot.enabled \in BOOLEAN /\ hot.registered \in BOOLEAN

\* Desktop notifications are shown as they will be after the next start: the singleton and the store agree
\* (NotificationPrefs is saved whenever a dialog sets it).
PrefsStored == prefs = stored["desktop"]

\* So do the sounds, unless one was tested since.
SoundStored == ~tested => sound = [on |-> stored["soundOn"], volume |-> stored["volume"]]

\* Saving stores nothing the user did not edit in that dialog, except over what another dialog stored
\* since it was opened, and except a default configuration that the list does not have: a sound that was
\* only tested is not stored by the next dialog.
Saves(w) == Save(w) \/ (w = "preferences" /\ Apply)
UneditedKept ==
  [][\A w \in Window : Saves(w) =>
       \A k \in DOMAIN stored : \/ stored'[k] = stored[k] \/ k \in win[w].edited \/ stored[k] # win[w].base[k]
                                \/ k = "default" /\ stored[k] \notin KeymapFiles]_prefVars

\* Refuted: a dialog that is opened and saved erases the default configuration, which its list does not have
\* (populateConfigDropdown: "Restore selection").
DefaultKept == [][\A w \in Window : Saves(w) => stored'["default"] = stored["default"] \/ "default" \in win[w].edited]_prefVars

\* The filter only reacts to the shortcut that was set, and only while it is enabled, whatever failed.
FiltersShortcut == hot.registered => (hot.enabled /\ hot.keycode = hot.shortcut)

\* Refuted: the dialog that saves last overwrites the other one's changes with what it had loaded.
NoLostUpdate ==
  [][\A w \in Window : Saves(w) => \A k \in DOMAIN stored : stored'[k] = stored[k] \/ k \in win[w].edited]_prefVars

\* Refuted: a sound test followed by Cancel leaves the singleton as tested.
CancelForgets == (\A w \in Window : ~win[w].open) => sound = [on |-> stored["soundOn"], volume |-> stored["volume"]]

\* Refuted: the hotkey is only set up at the start.
HotkeyStored == (\A w \in Window : ~win[w].open) => hot.shortcut = (IF stored["hotOn"] THEN stored["hotSeq"] ELSE "")
=============================================================================
