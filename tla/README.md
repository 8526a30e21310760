# A TLA+ verification of yamy

yamy remaps keyboards. On Linux a daemon reads key events from evdev devices,
passes them through an engine that knows a configuration (keys, virtual
modifiers with a hold/tap decision, mappings), and injects the result through
uinput. A GUI and a command line client change the configuration of the running
daemon. The Windows program does the same with a keyboard filter driver, low
level hooks and a DLL in every process.

The first subject is the Linux daemon (`src/src/app/main.cpp`) with JSON
configurations, the only kind that it loads; the settings library, the desktop
around the daemon and the Windows program follow. Source paths below are
relative to `src/src/`.

## 1. Inventory

| Part | State | Operations | Meets |
|---|---|---|---|
| Keyboard readers and devices, `platform/linux/input_hook_linux.cpp`, `device_manager_linux.cpp` | one thread, descriptor and `m_stopRequested` per keyboard | find keyboards, read, push, install, uninstall | queue; `start()`, `stop()` |
| Input queue and life cycle, `core/engine/engine_lifecycle.cpp`, `app/engine_adapter.cpp` | deque, mutex, manual-reset event, handler thread, engine state | `start`, `stop`, `pushInputEvent` | readers, handler |
| Keyboard handler, event generation, event processor, modifier key handler, keymap, `core/engine/`, `core/input/keymap.cpp` | key flags, press counters, compiled rules, IDLE / WAITING / ACTIVE per trigger | one key event under `m_cs` | queue, configuration switch, injector |
| Code tables and injector, `platform/linux/keycode_mapping.cpp`, `input_injector_linux.cpp` | layout, wheel rest | evdev code to scan code and back, inject | readers, event generation |
| Configuration switch, `core/engine/engine_setting.cpp`, `engine_ipc_handler.cpp` | `m_setting`, `m_currentKeymap`, `m_currentConfigPath` | `switchConfiguration`, `setSetting` | handler, both IPC threads |
| Daemon, session, control server, yamy-ctl, `app/main.cpp`, `app/yamy_ctl.cpp`, `platform/linux/ipc_control_server.cpp`, `core/settings/session_manager.cpp` | session file, socket, engine thread | boot, serve, start, stop, reload, quit, kill | engine; clients |
| Settings library, `core/settings/` | list and active index, store, watcher, backups, archives, metadata, the loaded `Setting` | add, remove, activate, watch, back up, restore, export, import, describe, load, validate | files, editors, engine |
| GUI channel and main window, `core/platform/linux/ipc_channel_qt.cpp`, `ui/qt/ipc_client_gui.cpp`, `main_window_gui.cpp` | socket buffers, timers, buttons, what the window shows | connect, reconnect, command, answer | daemon |
| Trays, dialogs and viewers, `ui/qt/` | icons, menus, rows, filters, histories, preferences | what the user clicks; what arrives meanwhile | engine messages, files, threads |
| Crash reports, plugins, notifications, metrics, `utils/`, `core/` | reports, libraries, callbacks, samples | crash, list, load, unload, dispatch, record, report | all threads |
| Commands, `core/commands/` | the command under way, posted messages, threads | run with `m_cs` held, released or from another thread | handler, window thread |
| Window queries, `platform/linux/window_system_linux_*.cpp` | property cache | title, top-level window, monitor | X server |
| Driver, tray program, hooks, DLL and setting list on Windows, `../driver/`, `app/mayu.cpp`, `platform/windows/`, `ui/dlgsetting.cpp` | queues, reads, registry, threads, mailslot | read, write, cancel, open, close, load, install, notify, save | Windows |

What is hard here: four kinds of threads around one queue that is created and
destroyed while they run; a blocking `read()` that must end for `stop()` to end;
a hold/tap decision that depends on time, on the order of presses and releases
and on other keys; two lookup paths that must agree; objects that are replaced
and deleted while others use them; a configuration whose name is kept in four
places across exits and crashes; commands that time out while they are carried
out; files that editors replace and kills leave half written; messages that
arrive in pieces or after a dialog has changed; rings and buffers at their
limits. `PROJECT.json` lists the hazards at their lines.

What makes the parts correct:

* queue: events are handled in order, none is lost or handled twice, nobody
  sleeps while there is work, `stop()` ends and leaves nothing dangling;
* engine: a modifier is active exactly while its trigger is held, a press is
  either a tap or a hold, an assignment applies only under its modifiers, other
  keys pass through, and when the user lets go of everything nothing stays down;
* switch: the handler works on live objects, none is freed twice or lost, a
  command that succeeds did what it says, and the daemon comes back with the
  configuration that it had;
* daemon: exit codes and answers tell what happened, nobody waits forever, and a
  boot after a kill does something useful;
* settings: the list, the store and what is loaded agree; what was saved can be
  had back; an import is whole or reports failure;
* desktop: what is shown is so, what is clicked is meant, nothing waits forever;
* Windows: keys stay in order, and what is installed or changed is undone.

## 2. Modules

| Module | Models |
|---|---|
| `InputQueue` | readers, queue, handler loop, `start()` and `stop()` step by step |
| `KeyStream` | the promise of the queue: events come out in the order they went in, or are discarded together by `stop()` |
| `Keymap`, `ModifierKeyHandler` | both lookups of assignments, and the hold/tap decision for one trigger, as pure operators |
| `Engine` | one key event from `keyboardHandler` to the injector; time, configuration switches, enabling and disabling around it |
| `HoldTap` | the promise of the modifier handling: each press of a trigger ends as a tap or as a hold, never both |
| `ConfigSwitch` | `switchConfiguration` from two threads against the handler, the four copies of the path, edits of the files, exits and crashes |
| `InputQueueProofs`, `EngineProofs`, `ConfigSwitchProofs`, `SettingsProofs`, `WindowsProofs`, `DesktopProofs`, `ServicesProofs` | theorems; those about `Daemon` are in `SettingsProofs` |
| `ProofBasics` | what the proofs share: induction and recursion over the numbers, the last element of a kind in a queue |
| `Daemon` | `main()`, the session file, the adapter's engine thread, the control server and yamy-ctl |
| `ConfigManager` | list, active entry, store, watcher and debounce timer |
| `ConfigArchive`, `ConfigMetadata` | export and import file by file, and backups with their limit; what is written and read of a description |
| `JsonLoader` | the loader section by section, and the validator |
| `Detour`, `KeyQue`, `KeyFifo` | the filter driver `mayud.c`; its ring buffer; the promise of the ring |
| `Tasktray` | class Mayu: sessions, NLS keys and the thread that changes them, load, icon, quit |
| `HookThreads`, `HookDll` | the two low level hook threads; the DLL's notes to mayu |
| `SettingList` | the registry's list of settings, its dialog, the tray menu and `&LoadSetting` |
| `GuiChannel` | both ends of the GUI's socket, the main window and the daemon's answers |
| `Tray` | both tray icons |
| `ConfigDialog`, `Preferences`, `LogViewer`, `NotificationHistory`, `Investigate` | the dialogs and viewers, with what reaches them meanwhile |
| `CrashReports`, `Plugins`, `Commands`, `Metrics` | signal handler and reports; plugin manager and dispatcher; commands that wait or post; samples and the logging thread |
| `KeyPath`, `Devices` | code tables, layouts, injector; device detection and the life of the hook |
| `WindowQueries` | the property cache between threads, whose requests take time; the walk to the top-level window and to the monitor of a point, a request a step |
| `EngineMC` | the keyboards and configurations that TLC checks the engine with |
| `SettingsMC`, `WindowsMC`, `DesktopMC`, `ServicesMC` | suites of components that share no state: a behaviour exercises one part, chosen at the beginning, so that the state spaces add up instead of multiplying |

The parts meet as the code's do: `Engine` extends `Keymap` and
`ModifierKeyHandler` and is shown to implement `HoldTap`; `InputQueue` implements
`KeyStream`, `KeyQue` implements `KeyFifo`; `ConfigSwitch` has the handler, both
callers and the session; `Daemon`, `GuiChannel`, `HookDll`, `Detour` and
`Investigate` have both ends of their channel.

### InputQueue

An action is a stretch of code between two points where another thread can
notice something: taking the mutex, pushing, signalling, releasing; testing the
queue under the mutex, going to sleep, waking; each object that `start()` makes
and `stop()` destroys, and each pointer that it clears afterwards. `cpc`, `rpc` and
`hpc` say where the control thread, the readers and the handlers are.
`acquireMutex` on a null handle fails and its callers carry on without the lock,
and so does the model; on a mutex that is freed and not yet forgotten it may as
well block for ever. `EarlyInput` says
whether keys are hit while `start()` runs, `SlowHandler` whether an event
may take the handler longer than the 2000 ms for which `stop()` waits. Each
identity of `Handler` stands for one start of the engine.

### Engine

The handler holds `m_cs` for the whole event, so an event is one step: `Bypass`
(no setting, or disabled), `UnknownKey`, `ByKeymap` (the early match) or
`ByProcessor`. `desk` is what the desktop sees; `out` is `m_isPressedOnWin32`. Time
advances in `Tick`, in units chosen so that two are the threshold, and during an
event by up to `Lag`, since the code reads the clock several times. A key is its
scan code; `EvdevToYamy` is the translation that layer 1 applies to a code that
the reader has translated already.

Not reached with a JSON configuration, and left out: modifier keys of a keymap
(`adjustModifier` is never called, so `fixModifierKey` is always false), standard
modifiers in assignments, prefix keymaps, functions, hardware number modifiers,
log mode and the path through `generateKeyboardEvents`. A key with a "to" that has
standard modifiers is also left out: `generateModifierEvents` takes the front of a
list that is empty. Configurations in `Engine` have a "mappings" section;
what happens without one is in `ConfigSwitch`.

### ConfigSwitch

The commands of the control server and of the GUI channel go through the same
`switchConfiguration`, cut where it touches shared state outside `m_cs`: the test
of the path, reading `m_setting`, `setSetting` under `m_cs`, the delete, the two
stores of the path. Before it the adapter tests that the file exists (also for the
path that is loaded already); after it `setActiveConfig` follows only if the list has
the file, which `Unlist` takes away. Setting objects are numbers; `freed` are the
deleted ones.
`Restart` is exit or crash followed by the start that restores the session,
which happens before any other thread runs. `setSetting` fails only while
`m_isSynchronizing`, which nothing that JSON can bind sets, so the retry loop is
left out here; on Windows it is `Tasktray!Load`. (Its boundary deserves a look: if
the call after the tenth retry succeeds, the setting that was just installed is
deleted.)

### Daemon

`main` goes from boot to its event loop and through the exit; a kill may come
anywhere, also between truncating and writing the session file. The server is a
thread that serves one client at a time; a client connects, sends, waits and
gives up after its time-out, while the server may still execute its command. The loop
also ends when `poll()` or `accept()` fails, and then nobody is served any more.
`Engine::start` and `stop` are coarse here; `SlowStart` says whether `start()` may
take longer than the 100 ms that the adapter waits.

### Settings

`ConfigManager` takes its lock in every method, so a method is a step; edits of
the files (in place, or by a new file renamed over the old), the watcher's
signals and its timer interleave with them. `Initialize` reads the list and calls
nobody back, so after a restart nothing is loaded until a change is announced
(`since`). `ConfigArchive` extracts one entry a step: it is written, or refused, which
ends the import with an error, or cut short, which nobody notices since the results of
`write()` and `close()` are not looked at (`cut`). Backups are ordered by the clock in
their names. `ConfigMetadata` has texts as sequences of the characters that the escaping
treats in a special way. `JsonLoader` keeps the hash buckets and the order in
which sections are read.

### Windows

`Detour` keeps the two spin locks apart and cuts where one is released; a cancel
may come between any two sections. `SMP` allows other processors to run beside a
spin lock. `Tasktray` has the window's thread and the one of `FixScancodeMap`, which
may fail before it changes the scan code map, and again when it writes the user's map
back or removes it (`kept`); then it reports the failure and the registry keeps the map
that was written. `SettingList` has names and files with a semicolon, which the list
stores unescaped, and a list that grows beyond the rows that are read back.
`HookThreads` has the caller and both hook threads; `HookDll` has the processes, the
mailslot, `WM_COPYDATA` and several runs of mayu. What Windows does is modelled as
far as the code relies on it.

### Desktop

Handlers of a Qt event loop are steps; message boxes run an event loop inside a
handler, so their question and their answer are two. Signals between threads are
queues. In `ConfigDialog` the files are written, replaced, deleted and made again from
outside while the dialog is open: one that is away when its signal is handled is not
watched any more (`unseen`), and one that cannot be deleted brings a second box. In
`Preferences` the drop-down offers what `keymaps/files` lists (`KeymapFiles`), not what
`keymaps/paths` has, so a stored default may find no entry and is lost by saving. In
`KeyPath` a code that no rule touches is translated a second time while a
configuration is in force, and a prefixed one is swallowed there. `WindowQueries` has a
request a step, and time passes between the server's answer and the store of an entry
(`FetchTime`).

## 3. Runs that pass

A property of a run is often a conjunction of named parts, defined one by one in
the module of the component, each with a comment that says what of the code it is
about.

| Run (states) | Property: parts |
|---|---|
| `queue_restart` (93,042) | `TypeOK`; `QueueDiscipline`: `QueueExclusion`, `NoLostWakeup`, `SingleHandler`, `NoUseAfterDestroy`; `EventConservation`; `ImplementsKeyStream` |
| `queue_live` (15,195) | `QueueProgress`: `EventuallyHandled`, `StopCompletes`, also with a slow handler |
| `engine_hold_tap` (658) | `TypeOK`; `ModifiersFollow`: `ModifierTracksTrigger`, `NoStuckModifier`; `KeysBalanced`: `Accounting`, `NoStuckKeys`; `ImplementsHoldTap`; `WaitingEnds` |
| `engine_switch` (140,816) | `TranslationMeant`: `RequiredModsActive`, `PassThrough`, `HeldBeforeNextKey`, `Accounting` |
| `switch_one_caller` (47,748) | `SettingsAccounted`: `NoDoubleFree`, `NoLeak`, `PathNamesSetting`; `ConfigKept`: `SessionKeepsConfig`, `CrashKeepsConfig`; `CommandsMeant`: `AnsweredInForce`, `ReloadStays` |
| `switch_two_callers` (597,466) | `NoUseAfterFree` |
| `daemon_control` (432,282) | `DaemonHonest`: `ExitCodeHonest`, `StateHonest`, `AnswerUnderstood`, `StopAnswered`, `BootUseful`; `DaemonEnds`: `ClientEnds`, `QuitCompletes` |
| `settings` (449,810) | `ManagerSound`: `ListSound`, `StoreCurrent`; `ManagerFollows`: `NoSilentSwitch`, `ChangesLoaded`; `SavedRestored`: `RestoreExact`, `WithinLimit`, `RestoreUndoable`, `PrunesOwn`, `MetadataRoundTrip`; `ArchiveSound`: `ExportClosed`, `ImportFaithful`, `NoClobber`, `ListedWhole`, `ValidImports`; `KeysResolved`: `PhysicalKey`, `ModifierReachable` |
| `windows` (262,771) | `DetourSafe`: `KeysInOrder`, `ReadNotStarved`, `ReadCompletedOnce`, `LostAtLimits`; `KqCorrect`: `RingConsistent`, `KqIsFifo`; `TasktraySafe`: `NlsRestored`, `NlsAway`, `RegistryRestored`, `IconHonest`, `SettingAlive`; `HooksSafe`: `CallbackSafe`, `HooksRemoved`; `DllSafe`: `FocusFollows`, `LockFollows`, `AttachedAlive`, `OneHandle`; `WindowsLive`: `CloseCompletes`, `LoadEnds`, `TrayQuits`, `InstallEnds`, `UninstallEnds` |
| `desktop` (308,445) | `GuiSafe`: `FramesWhole`, `GuiHonest`; `TraySafe`: `RunningShown`, `MenuAlive`, `ClickMeant`; `CrashSafe`: `ReportWhole`, `DeletesShown`; `ExtensionsSafe`: `LibrariesBalanced`, `NamesUnique`, `HeardOnce`, `LastFirst`, `RunningKept`, `ShellRuns`, `HelpShown`, `SyncOwn`, `LibrariesFreed`; `MetricsSafe`: `SamplesNewest`, `StatsOrdered`, `LoggedOnce`, `NeverTerminates`; `DesktopLive`: `ButtonsBack`, `Reconnects`, `LoadingEnds`, `CrashEnds`, `ScanEnds`, `SyncEnds`, `ReloadDone`, `StopReturns` |
| `services` (2,688,684) | `ViewersFaithful`: `HistoryFaithful`, `ViewerShows`, `BufferNewest`, `ViewFaithful`, `PauseHonest`, `StatsHonest`, `HighlightsGone`; `KeysThrough`: `KeyEcho`, `WheelConserved`, `ReadsOwn`, `HookHonest`, `KeyboardsFound`; `DialogsHonest`: `IconsTruthful`, `FilterTruthful`, `ActiveKept`, `SetActiveMeant`, `ModeFollows`, `KeymapOfSelected`, `GrabReleasable`; `PreferencesKept`: `PrefsStored`, `SoundStored`, `FiltersShortcut`, `UneditedKept`; `ListKept`: `ListStored`, `SelectedLoaded`, `NameMeant`, `MoveMeant`, `MenuMeant`; `WindowsFound`: `AnswerRecent`, `EvictsOldest`, `ToplevelIsWindow`, `PointOnMonitor` |

The type invariant of each component is one more part of its property.

Bounds, and why they are enough for the cases that matter:

* queue: 2 keyboards with 2 events each and 2 starts, so that two pushers, the
  handler and a `stop()` meet and a second start finds what the first left;
* engine: 2 triggers (`engine_hold_tap`) or 1 trigger, 2 configurations, disabling and
  an unknown key (`engine_switch`); threshold 2, maximum 3, lag 1 give ages below, at
  and above the threshold and above the maximum;
* switch: 2 files and up to 3 edits, one `Broken` until an edit repairs it, one `Fragile`,
  which the first edit breaks, also by taking it away (`Missing`); either may be taken
  off the list; 3 or 4 settings per process, so that an old one can be freed while a new
  one is made;
* daemon: 2 clients, one of which only changes things (`Changer`) while the other may
  ask anything; an absolute path, and a relative one that the next boot rejects;
* settings: 2 configurations and 3 edits; 2 backups per file and 5 instants, so
  that the limit is passed and a restore prunes; every include graph of 3 files;
  3 keys in 2 hash buckets; texts of 2 characters with every special one;
* windows: queues of 2 and 2 keys typed, 1 put in; a ring of 3 with blocks up to 4,
  started from every content of the array; 2 processes, one of which may hang, and
  2 runs of mayu;
* desktop: one GUI, 3 commands, 1 death of the daemon, 3 reconnection attempts; 2
  configurations with room for 1 in the tray; 2 threads, 2 signals; 3 plugins, two
  of one name; 2 programs, 3 commands; a ring of 3 with 4 records;
* services: limits of 1 to 3 entries with 4 that come; in the configuration dialog 2
  user steps with 1 of others, an editor that works on one of the two files (the active
  one or the other, as others choose), and any return of a file that is away; all keys
  of a 104 key keyboard; 4 devices; 3 windows, of which one thread asks about all and
  the other about the one whose title changes, a cache of 2, and 2 monitors; 3 rows,
  one of them with a semicolon in its name, 5 steps and 1 kill for the setting list.

Within one instance there are restrictions, since outside of them the code does
not keep the property (section 4): `NoStuckKeys` where a key maps to the same key
under every modifier; `RequiredModsActive`, `PassThrough` and `HeldBeforeNextKey` with
one modifier and no extended key; one caller for `switch_one_caller`; no slow start
in `daemon_control`; one processor in `windows`; one starter in `MetricsSafe`.

Deadlock is not checked where the system may stop: users, keyboards and clients
need not go on, and identities and bounded steps run out. Each property is shown to
depend on the code by a mutant: an operator marked `Mutant` beside the definition
that it replaces.

## 4. Disagreements between code and documentation

`switch_race` is a run that TLC must refute, with the sentence it refutes under
"findings": two overlapping commands read the same `m_setting` and both delete it.

TLC refutes the following as well. The constants are those of the configuration
named, with the change given; definitions after `<-` are in the MC module.

| Configuration | Change | Property | The code |
|---|---|---|---|
| `QueueLive` | `FairSpec`, without `InputGoesOn` | `StopCompletes` | `stop()` joins a reader in a blocking `read()` (`input_hook_linux.cpp:59`) and hangs until a key is hit; `engine_adapter.h:48` says that it stops the engine and waits |
| `QueueRestart` | `SlowHandler = TRUE` | `ThreadsJoined`, `NoUseAfterDestroy` | `stop()` waits at most two seconds, logs the result, and then destroys event and mutex with the handler thread alive (`engine_lifecycle.cpp:290`); `engine_adapter.h:48` says that it waits for completion |
| `QueueRestart` | `EarlyInput = TRUE` | `NoEventRefused` | keys hit between `install()` and the creation of the queue are dropped |
| `QueueRestart` | `FairSpec` | `StrictStateMachine` | a failed start leaves Loading; `stop()` goes from there to Stopped, an edge that `engine_state.h` does not have |
| `EngineSwitch` | one configuration, `Trigger <- CapsOnly`, `Mappings <- UnderM00` | `NoStuckKeys` | hold Caps (M00), press A, release Caps, release A: the release is looked up without M00 (`engine_generator.cpp:342`), and what A pressed stays down |
| `EngineHoldTap` | `Trigger <- CapsOnly` | `PassThrough` | the handler passes a translated code to layer 1, which translates it again (`engine_keyboard_handler.cpp:302`); extended keys become 0 and are swallowed |
| `EngineSwitch` | `Restored = "main"` | `NoStuckModifier`, `ModifiersLetGo` | a switch while a trigger is held resets the trigger and keeps the modifier |
| `EngineSwitch` | `Keyboard <- AInMain`, `Mappings <- LayeredInMain` | `Accounting`, `CountsPhysical` | a switch to a configuration that lacks a pressed key drops the flag and keeps the count |
| `EngineSwitch` | one configuration | `SuspendIsNotHold` | the sweep activates a trigger before the five second rule is looked at |
| `EngineHoldTap` | `Mappings <- UnderM00` | `RequiredModsActive` | with M01 active, `searchAssignment`'s second attempt takes an assignment for M00 |
| `EngineHoldTap` | `Mappings <- Layered` | `HeldBeforeNextKey` | the early match returns before the sweep |
| `SwitchOneCaller` | `Caller = {"gui"}` | `ReloadIsFresh`, `SessionKeepsConfig` | reloading the active file after an edit returns success without parsing it (`engine_setting.cpp:100`; `quick-start.md:45` promises to "re-parse"); a switch through the GUI is not what the next start restores |
| `SwitchOneCaller` | `Unmapped = {"b"}` | `NoUseAfterFree` | after a switch to a file without mappings `m_currentKeymap` points into the deleted setting |
| `SwitchTwoCallers` | | `AnsweredInForce`, `ReloadStays`, `PathNamesSetting` | of two overlapping commands both succeed, and the path may name the one that lost (`engine_setting.cpp:195`; `engine.h:162` calls it the "currently loaded config path"); a reload without a name goes back to the file the server loaded last |
| `DaemonControl` | | `StartAnswered`, `EngineRestored` | a start is answered before the engine runs; the session's engine state is read after it was overwritten (`main.cpp:109`, `engine_adapter.cpp:163`) |
| `DaemonControl` | `SlowStart = TRUE` | `StateHonest`, `StopAnswered` | the adapter returns after 100 ms; a stop meets the half started engine |
| `Settings` | | `WatcherFollows`, `DatesOrdered` | `setNextConfig` does not tell the watcher; the modification date may precede the creation |
| `Settings` | `AutoReload = {TRUE, FALSE}` | `ChangesLoaded` | what is edited while reload is off is not loaded when it is turned on |
| `Settings` | `SuffixOf <-` a definition `{<<"vim", "other">>}` | `PrunesOwn` | the pattern that tells backups apart is not anchored (`config_manager.cpp:504`, `665`) |
| `Settings` | `SameInstant = TRUE` | `RestoreExact` | two backups of one millisecond have one name |
| `Settings` | | `ImportWhole` | `write()` and `close()` of an extracted file are not looked at (`config_manager.cpp:1104`): an import whose file was cut short by a full disk reports success |
| `Settings` | `RelativeTo <- SameName` | `ImportFaithful` | files outside the main file's directory lose their directories and overwrite each other |
| `Settings` | `MaxFiles = 2` | `ValidImports` | validation accepts more files than an import |
| `Settings` | `Document <- Aliases`, or `Fold <- AnyCase`; `OneKey`; `Unversioned` | `PhysicalKey`; `ModifierReachable`; `ValidLoads` | two names of a scan code are two keys; a trigger has one modifier; a document without a version validates and does not load |
| `Settings` | `Text <- Paths` | `MetadataRoundTrip` | a text that ends in a backslash ends with the quote of another |
| `Windows` | | `NothingLost`, `OutputDelivered`, `NlsEscaped`, `FocusAlways`, `LockAlways` | keys in the queue are lost at open and close; NLS keys stay as they are after a refused reload; notes during `&Sync` or to a hung window are lost |
| `Windows` | `EscapeNlsKeys = FALSE` | `NlsRestored` | the menu's and the IPC's enable and disable call `escape()` without a look at escapeNLSKeys (`mayu.cpp:707-713`, `822-827`), so with its default 0 keys are escaped that nobody restores when mayu ends |
| `Windows` | `Kbd = {"k1", "k2"}` | `KeysInOrder` | keys of two keyboards overtake each other |
| `Windows` | `SMP = TRUE` | `NoSpinDeadlock` | the device's lock and the cancel lock are taken in both orders |
| `Windows` | `MaxOpens = 2`; `MaxInstalls = 2`; `AnyTime = TRUE`; `NoSlot` or `NoMap = {"b"}` | `KeysInOrder`; `InstallEnds`; `NlsAway`; `FocusFollows`, `OneHandle` | keys of an earlier opening come late; threads are resumed once; a late request escapes keys of a session that is away; processes without mailslot or memory report late and open again |
| `Desktop` | | `LockShown`, `ButtonHonest` | daemon and GUI number the lock message differently (`ipc_defs.h:31`), so a lock is never shown; the toggle inverts what was last heard |
| `Desktop` | `Path = {"a", "b"}`, `MaxDeaths = 0`; `Eager = TRUE` | `ReloadActive`; `GuiHonest` | a reload in the window takes the first of two names; a manual reconnection keeps the old status |
| `Desktop` | | `NeverFalselyRunning`, `IndicatorToggles` | the icons are set by what was asked, not by what happened |
| `Desktop` | `ChangesWhileOpen = TRUE` | `ClickMeant` | the menu keeps indices |
| `Desktop` | | `DismissDeletesListed`, `EarlierKept`, `AllWhole` | "Dismiss all" lists again; a report of the same second is overwritten, or shared by two crashes |
| `Desktop` | | `CallbackMapped`, `ShellAlways`, `NeverFreedUsed` | a callback may run after its library was closed; one slot holds the command for the window thread; the end frees what a command still uses |
| `Desktop` | `Reentrant = {"f1"}`; `LateNotice = TRUE`; `Threaded = {TRUE, FALSE}` | `ScanEnds`; `SyncOwn`; `LibrariesFreed` | a plugin that asks the manager in `initialize` blocks itself; a late notification ends the next `&Sync`; an unthreaded plug-in stays loaded |
| `Desktop` | `Starter = {"t", "u"}`, `Overlap = TRUE` | `NeverTerminates` | two threads replace the `std::thread` (`metrics.cpp:106-131`): `std::terminate` |
| `Desktop` | `Duration = {1, 5}` | `EveryLogged`, `KeyCountGrows` | a latency between statistics and reset is in no report; the status' key count falls at each report |
| `Services` | | `CacheThreadSafe`, `AnswerFresh` | `get()` returns a pointer into the map and unlocks; `window_system_linux_queries.h:35` says "All methods are thread-safe"; an entry is dated by its store, not by the server's answer (`window_system_linux_queries.cpp:53`) |
| `Services` | | `UnmappedPasses` | with a configuration in force the second translation knows no key with a prefix (`engine_event_processor.cpp:71`), and the engine injects nothing for it though the configuration names it |
| `Services` | | `DefaultKept` | the drop-down offers what `keymaps/files` lists, which nothing writes; saving the preferences stores "" over a default configuration that nobody edited (`preferences_dialog.cpp:528`; `603` says "Restore selection") |
| `Services` | | `IconsFollow`, `ListAlwaysStored` | a file that is away when its signal is handled is not watched again (`config_manager_dialog.cpp:1073`); a name with a semicolon is read back as two fields, and one row more is kept than is read |
| `Services` | | `InstallReturns`, `HookAlways`, `PluggedRead` | an install without a keyboard locks its mutex twice (`input_hook_linux.cpp:333`, `382`); a failed thread leaves the hook half installed; keyboards plugged in later are not read |
| `Services` | `InKeys = {86}` (also 119, 183..194), or `RuleCodes = {112}` | `KeyEcho` | the two tables are not inverse on these keys, which are swallowed or exchanged (`keycode_mapping.cpp:150`) |
| `Services` | | `LayoutFollows`, `MonitorAlways`, `WorkAreaOrdered`, `ViewerBounded`, `ViewBounded`, `MatchNumbered`, `NameAlways` | the layout is detected once; a monitor that is switched off after it was found has an empty rectangle, and one outside the first desktop's work area has one that is inside out; viewers grow beyond the limit of what they view; the match count is stale; the list is written while `&LoadSetting` scans it |
| `Services` | "tablet" in `Device`; `Nameless = {"v"}` | `OnlyKeyboards`; `KeymapOfSelected` | a tablet has one of the eight keys; a window without a name cannot be selected |
| `Services` | | `CancelForgets`, `HotkeyStored`, `NoLostUpdate`, `ActiveAlwaysKept`, `JourneySafe`, `ModeAlways`, `ModeEnds` | a tested sound survives Cancel; the hotkey changes at the next start; two dialogs overwrite each other; a box acts on what is active by then; the journey callback uses a channel that may be gone; investigate mode outlives a client that died |

Observations without a property: `setNextConfig` returns true for a single
configuration though its comment says false; nothing in the program calls
`ConfigManager::initialize`, constructs a tray or a crash dialog, or uses the window
hierarchy classes; templates make `.mayu` files, which the JSON validator rejects;
`onRemoveKeymap` sends a display name as a path; answers go to all clients;
`engine_input.cpp:32` passes a magic number as the wheel's delta; on Linux `&Sync`
always waits five seconds.

## 5. Fairness

`InputQueue!Fairness` is weak fairness of the handler, of a reader that has an
event in hand, and of the control thread inside `start()` and `stop()`: they are
threads that are ready to run, and a mutex is held for a few instructions only.
Nobody has to call `start()` or `stop()`. `InputGoesOn` adds that every keyboard
goes on delivering something, which the user guarantees and the code does not;
`StopCompletes` holds with it and is refuted without it.
`Engine!Fairness` says that the clock goes on and that a key that is held down
repeats or is released, which the kernel's auto-repeat provides. `ConfigSwitch`
states no liveness: whether a switch gets `m_cs` from a busy handler is up to
the scheduler.

The other components assume weak fairness of the steps of threads that are inside
a call, of timers that are armed (the server's poll, the client's time-outs, the
watcher's debounce, reconnection), and of event loops with something in their queue.
Users, editors, clients and devices are never obliged to act. In a suite a part
that is not exercised has no fair action enabled in its initial state, or its
fairness is conditional on being exercised, so that it is not forced to move.

## 6. Theorems

| Theorem | Says | Assumes |
|---|---|---|
| `InputQueueProofs!TypeCorrect` | `Spec => []TypeOK` | |
| `InputQueueProofs!QueueSafe` | `Spec => []QueueDiscipline` | `~EarlyInput`, `~SlowHandler` |
| `InputQueueProofs!EventsConserved` | `Spec => []EventConservation` | the same |
| `InputQueueProofs!StreamImplemented` | `Spec => ImplementsKeyStream` | the same |
| `EngineProofs!EngineTypeCorrect` | `Spec => []TypeOK` | |
| `EngineProofs!ModifiersAreHeld` | `Spec => []ModifiersFollow` | `OneConfiguration`, `FreeTriggers` |
| `EngineProofs!HoldTapImplemented` | `Spec => ImplementsHoldTap` | the same |
| `EngineProofs!TranslationIsMeant` | `Spec => TranslationMeant` | `SameKeys`, `OneModifier`, `KeysTranslate` |
| `EngineProofs!KeysComeUp` | `Spec => []KeysBalanced` | `OneConfiguration`, `FreeTriggers`, `PlainMappings` |
| `ConfigSwitchProofs!SwitchTypeCorrect` | `Spec => []TypeOK` | |
| `ConfigSwitchProofs!HotReloadSafe` | `Spec => []NoUseAfterFree` | `Unmapped = {}` |
| `ConfigSwitchProofs!OneCallerSafe` | `Spec => []SettingsAccounted` | at most one caller |
| `ConfigSwitchProofs!ServerKeepsConfig` | `Spec => ConfigKept` | only the control server switches |
| `ConfigSwitchProofs!ServerCommandsMeant` | `Spec => CommandsMeant` | the same |
| `SettingsProofs!ManagerIsSound` | `ManagerSpec => []ManagerSound` | |
| `SettingsProofs!NothingSwitchesSilently` | `ManagerSpec => NoSilentSwitch` | |
| `SettingsProofs!BackupsAreSafe` | `BackupSpec => BackupsSafe` | `SuffixOf = {}`, `~SameInstant` |
| `SettingsProofs!ArchivesAreSound` | `ArchiveSpec => []ArchiveSound` | `NamesDiffer`, not more than `MaxFiles` files |
| `SettingsProofs!LoadedKeysResolve` | `LoaderSpec => []KeysResolved` | `OwnKeys`, `OwnTriggers` |
| `WindowsProofs!RingIsFifo` | `KqSpec => KqCorrect` | |
| `WindowsProofs!HooksAreSafe` | `HookSpec => []HooksSafe` | |
| `WindowsProofs!TasktrayIsSafe` | `TasktraySpec => [](TasktrayTypeOK /\ RegistryRestored /\ IconHonest /\ SettingAlive) /\ (EscapeNlsKeys /\ ~AnyTime => []TasktraySafe)` | |
| `WindowsProofs!DllIsSafe` | `DllSpec => []DllSafe` | `NoSlot = {}`, `NoMap = {}` |
| `WindowsProofs!ReadsAreServed` | `DetourSpec => [](DetourTypeOK /\ ReadNotStarved /\ ReadCompletedOnce) /\ LostAtLimits` | |
| `WindowsProofs!DetourIsSafe` | `DetourSpec => DetourSafe` | one keyboard, `MaxOpens <= 1` |
| `DesktopProofs!GuiIsSafe` | `GuiSpec => []GuiSafe` | `~Eager` |
| `DesktopProofs!MetricsSound` | `MetricsSpec => [](LoggedOnce /\ NeverTerminates)` | `~Overlap` |
| `DesktopProofs!TrayIsSafe` | `TraySpec => TraySafe` | `~ChangesWhileOpen` |
| `DesktopProofs!CrashesAreReported` | `CrashSpec => CrashSafe` | |
| `DesktopProofs!ExtensionsAreSafe` | `DesktopSpec => ExtensionsSafe` | `~LateNotice`, `FALSE \notin Threaded` |
| `SettingsProofs!ExitCodesHonest` | `Spec => [](TypeOK /\ ExitCodeHonest) /\ AnswerUnderstood /\ BootUseful` of `Daemon` | |
| `SettingsProofs!DaemonIsHonest` | `Spec => DaemonHonest` of `Daemon` | `SlowStart = FALSE` |
| `ServicesProofs!KeysGoThrough` | `ServicesSpec => []KeysThrough` | `KeysAlike` |
| `ServicesProofs!WindowsAreFound` | `ServicesSpec => WindowsFound` | |
| `ServicesProofs!ViewersAreFaithful` | `ServicesSpec => []ViewersFaithful` | |

They hold for every set of keyboards, keys, handlers, files, configurations and
processes and for every bound. The assumptions are needed: section 4 has what TLC
finds without them, except for the queue. There, with the constants of
`QueueRestart.cfg` and `SlowHandler = TRUE`, TLC refutes each of the four parts of
`QueueDiscipline`: `stop()` gives up after 2000 ms, its handler locks a mutex that is
freed, and a second `start()` meets the handler of the first. With `EarlyInput = TRUE` it refutes `QueueExclusion`: a reader
whose `acquireMutex` failed on the null handle pushes without the lock.

*Queue.* `NoLostWakeup` is not inductive by itself. The invariant is
`Inner == Objects /\ Readers /\ Handlers /\ Owned /\ NoLostWakeup`: which of queue, mutex and
event exist at each point of `start()` and `stop()`, where readers can be and that
one past the lock owns the mutex, and that only the current handler is alive and
owns the mutex where it tests the queue. The mutex then excludes the push between
the handler's test and its sleep, which is the heart of the argument.
`EventsConserved` adds `Kept`: the five places of an event are disjoint (`Partition`)
and make up what the readers have taken, and no sequence repeats an event, so that
the numbers add up. For the refinement, what `KeyStream` has pending is the event in
the handler's hand followed by the queue (`Pending`); every step of the queue then
is a put, a take, a discarding or a stutter of the abstract one.

*Engine.* `Followed` says that a trigger that is not IDLE belongs to the
configuration in force, and that the user holds a key that acts as it; with it
`ModifierTracksTrigger` is inductive. It needs triggers that no mapping takes away
from layer 1 (`FreeTriggers`), and one configuration, since a switch resets triggers
and keeps modifiers. The refinement of `HoldTap` maps the states of a trigger to its
phases. `Counted` makes each press counter the number of the flags that are set, and
keeps both inside the configuration's keys, which is why configurations must name
the same keys (`SameKeys`). `LayerKept` says that what fired had its modifiers active;
`OneModifier` is needed since the second attempt of `searchAssignment` and the early
match go wrong with two, `KeysTranslate` since the second translation swallows keys.
For `NoStuckKeys`, `Backed` says that all that is down on the desktop is down through
a key that the user holds. It is inductive only if the release of a key is
translated as its press was, that is for mappings that do not depend on modifiers
(`PlainMappings`), which also excludes an event so slow that a trigger passes from
below the threshold to above the maximum within it.

*Switch.* `Owned` says that a setting that was parsed and not yet installed is known
to its maker alone, and that nobody about to delete holds the installed one. So the
installed setting is never freed, however many callers there are, and with a keymap
in every file `m_currentKeymap` moves with it. `Ledger` accounts for every object:
alive are the installed one and the one the command has in hand; `Named` carries the
path from the parse to `m_currentConfigPath`. `Remembered` says at which points of a
command the adapter and the session name the configuration in force.

*Settings.* `MgrInv` makes the stored keys those of a list without repetitions also
across a restart that reads them back, and has the watcher's bookkeeping. For
backups, `BackupInv` says that copies differ both in the order of writing and in name
and time; the limit then follows by counting how many are older than the newest ones
that are kept. For archives, the walk over the includes needs at most as many rounds
as there are files: a round that finds nothing new ends it, and one that does uses up
a file. `ArchiveInv` then says that what an import has extracted so far is there, unless a file
was cut short, and was not there before. `LoaderInv` says for each section that its part of the document
is in the tables, all of it: with `OwnKeys` no entry is found in place of another.

*Windows.* `Ring` relates the two pointers and the count without remainders, so that
a block that wraps is the same case as one that does not; the contents are those of
`KeyFifo`. `HookInv` says which hook exists at which point of its thread. `TrayInv` has
the argument about the NLS keys, with escapeNLSKeys set: when another session has the
keyboard, mayu is disabled or ending, a restore is still to come or was the last thing
done (`NlsKnown`), whatever requests were merged in the events. What it says of the
registry needs no assumption: the thread leaves the map only where it read one, or where
a write was refused, and then its report says so. `DllInv` says of focus, lock
and each thread that mayu knows it, or that the last note about it in the mailslot
tells it (`EndsIn`); a DLL of an earlier run has nothing there. `DetourInv` says who holds
which of the two locks at which point, and that between taking the detour's lock and
keeping a read nobody else has touched it (`LocksKnown`); what an action loses then
follows from the sets of keys it moves. The order of keys is that of a line of seven
queues, from what the system has got to what the class driver holds (`Line`,
`Ordered`): each action moves keys to the next one, chops an end or leaves some out.
The way over mayu is part of the line while the device is detoured or a read is under
way that takes what was written (`Alive`).

*Desktop.* `GuiInv` looks at the receive buffer and the pieces on the way as one
stream. It consists of pairs of pieces; only a connection that the daemon has left
may lack the last one, and the buffer is empty before another is made (`Framed`,
`Ended`). While a window shows a connection that stands, it has the engine's state, the
last status in its stream tells it, or its question is still on the way (`Heard`,
`Asked`): a connection is made again only after the window has seen the loss of the
old one, and then asks again (`ClientKnown`). `MetricsInv` says that the buffer holds
nothing that was logged, except between the report and the reset, and which call may
give up the thread object. `TrayInv` follows the icon through the messages that are on
their way: the last one posted is `EngineStopped` only while the engine is stopped, and
with none on the way the disabled icon means a stopped engine or one the tray knows to
be disabled (`IconKnown`); an open menu shows the list as it is (`MenuKnown`). `CrashInv`
is about processes with at most one crash: before it every signal is handled, after it
one thread alone is in the handler and has written the parts before its own, unless the
file was deleted meanwhile (`CrashKnown`). `PluginInv` places the plugin that is being
unloaded at the head of a queue that is the list of plugins from its end (`CallKnown`):
the others run, those after it are closed, and what is open besides is the library at
hand, which has a name of its own. A dispatch that began has called what it copied but
for the rest it holds (`SpeechKnown`), so taking a callback back changes nothing of it.
`CommandInv` says that a command that waits holds `m_isSynchronizing`, which keeps
`setSetting` away from its setting (`WaitKnown`), that the last help message on its way is
about the present text (`HelpKnown`), and, of paced keys, that the one message that may
wait is for the present setting (`PostPaced`) and the sync event is set only while its own
`&Sync` waits (`SyncPaced`).

*Daemon.* `Queued` says whom the server serves: one client with an open connection, who
has sent its command and, once past `execute`, has had it carried out; those in the
backlog are others, each once. `KnownOf` follows a client: an answer on its connection is
the one of its command after it was carried out, so `SUCCESS` needs nothing of the client
but what it received, whatever timed out, was interrupted or crashed meanwhile.
`StartKnown` says what `main` has done by the time the threads run. `EngineKnown` places
the thread that starts the engine inside the boot or inside the server's 100 ms, where
nobody can stop the engine; with `SlowStart` it may outlive them (section 4).

*Services.* A behaviour of `ServicesSpec` moves one part (`OnePart`), so each part has an
invariant of its own. `DevicesInv` says where install and uninstall are, who has the mutex
meanwhile, and that threads read from open descriptors of devices that are not skipped.
`KeyPathInv` says that what is down on the virtual device is what the engine has put out
and the injector has a code for, and that each such key is backed by one that goes in or
by a rule: a key comes out as itself or not at all. The two tables are inverse on the 104 keys (`TablesInverse`, by arithmetic on the
ranges), which is why `KeysAlike` names them, and rules must make a code that is one key on
every layout since the layout may change between press and release. `CacheInv` dates every
title: what a thread is about to store the window had when the server answered, an entry
is of a title that the window had no longer than `FetchTime` before it was stored, and
what a thread copies the window had at most the lifetime and `FetchTime` before it asked,
in whatever order two threads that fetch at once store. `TreeInv`
keeps the climb at a window and what was found where the monitors say. For the
notifications, `LeadsTo` says that the signals that wait, after the last that clears the
list, bring the viewer's list to one that ends with the history; each signal handled moves
the place by one. `LogInv` says the same of lists that end with others (`EndsWith`): what
was seen ends with the buffer, a trim keeps an end, what is shown of an end is the end of
what is shown (`LinesEnd`, by induction over the recursion in `rebuildLogView`), and
nothing is lit while the search has found nothing.

Recursive functions (the search for assignments, the reach of includes, the view) are handled
by `ProofBasics`: a set of numbers that has a smallest element or none, and a
recursion that has a solution on every interval.

Only model-checked: all liveness (`QueueProgress`, `WaitingEnds`, `DaemonEnds`,
`ChangesLoaded`, `WindowsLive`, `DesktopLive`), which is out of the prover's reach under
fairness; `MetadataRoundTrip`, where TLC goes through the texts, and with it `SavedRestored`
as a whole; of `MetricsSafe`, what sorting the samples gives (`SamplesNewest`,
`StatsOrdered`), which is induction over data; `DialogsHonest`, `PreferencesKept` and
`ListKept`, whose models select from and sort lists with library operators that the
prover leaves closed (`SelectSeq`, `SortSeq`).

## 7. Not modelled

* The `.mayu` parser and compiler and the functions they bind: a recursive descent
  parser without concurrency or state that outlives a load, which the Linux daemon
  does not use. Of the commands, those that wait, post or start a thread are
  modelled; those that only set a field of the engine are not.
* Window manipulation on Linux, the injector and the window system on Windows: thin
  calls of X11 and of the Windows API without state of their own.
* `config_backup.cpp`: the steps of ConfigManager's backups in a class that nothing
  calls.
* Layout, fonts, wording, sound, the log file, window positions, autostart, the
  updater and the driver's plug and play and power requests, which pass through.
* JSON syntax, which is the library's.

`PROJECT.json` gives the status of every part.

## 8. Plan

1. Done: queue, engine and switch; the daemon; the settings library; the Windows
   program; the desktop and its services; the theorems of section 6.
2. Left: `DialogsHonest`, `PreferencesKept` and `ListKept`, with selections written as
   recursive functions as in `LogViewer`.
