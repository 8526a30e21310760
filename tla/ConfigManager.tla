------------------------------ MODULE ConfigManager ------------------------------
(***************************************************************************)
(* ConfigManager and its ConfigWatcher: the list of known configurations,   *)
(* the active one, what is kept of both in the ConfigStore, and the file    *)
(* watcher that reloads the active file when an editor has changed it.      *)
(*                                                                         *)
(* Every method holds the (recursive) lock m_cs, so a method is one step.   *)
(* The code counts from 0 and has -1 for "none"; here it is from 1, and 0.  *)
(***************************************************************************)
EXTENDS Naturals, Sequences, SequencesExt

CONSTANTS
  Config,     \* paths of .mayu files
  NoConfig,   \* the empty path
  Scanned,    \* the ones in the directories that refreshList scans
  MaxEdits,   \* bound: how often files change
  AutoReload, \* the values that setAutoReloadEnabled is called with
  Cycling     \* is setNextConfig used?

ASSUME ManagerAssumption ==
  /\ NoConfig \notin Config /\ Scanned \subseteq Config /\ IsFiniteSet(Scanned) /\ MaxEdits \in Nat \ {0}
  /\ AutoReload \subseteq BOOLEAN /\ Cycling \in BOOLEAN

VARIABLES
  file,     \* the content of each file, a number; 0 when there is no file
  edits,    \* how many changes there were
  up,       \* has initialize() been called in this process?
  configs,  \* m_configs: path and exists
  active,   \* m_activeIndex
  store,    \* the keys in memory: the paths and the active index
  disk,     \* the keys as QSettings wrote them last
  wpath,    \* ConfigWatcher::m_configPath
  watching, \* m_watching
  watched,  \* does the system watch the file (its inode)?
  existed,  \* m_fileExisted
  auto,     \* m_autoReloadEnabled
  timer,    \* is m_debounceTimer running?
  pending,  \* signals of QFileSystemWatcher that are queued: "file", "dir"
  loaded,   \* what the change callback has loaded last: path and content
  since     \* history: the changes that there were when initialize() was called

listVars    == <<configs, active, store>>
watcherVars == <<wpath, watching, watched, existed, timer>>
managerVars == <<file, edits, up, listVars, disk, watcherVars, auto, pending, loaded, since>>

Exists(p) == file[p] # 0
Entry(p)  == [path |-> p, exists |-> Exists(p)]
PathsOf(l) == [i \in DOMAIN l |-> l[i].path]

\* findConfig.
Find(l, p) == IF \E i \in DOMAIN l : l[i].path = p
              THEN CHOOSE i \in DOMAIN l : l[i].path = p /\ \A j \in 1..(i - 1) : l[j].path # p
              ELSE 0

\* getActiveConfig.
PathAt(l, a) == IF a \in DOMAIN l THEN l[a].path ELSE NoConfig
ActivePath   == PathAt(configs, active)

\* save(): count, paths and index.
Saved(l, a) == [paths |-> PathsOf(l), active |-> a]
Put(l, a)   == configs' = l /\ active' = a /\ store' = Saved(l, a)

ManagerInit ==
  /\ file \in [Config -> 0..1] /\ edits = 1
  /\ up = FALSE /\ configs = <<>> /\ active = 0
  /\ store = [paths |-> <<>>, active |-> 0]
  /\ disk = store
  /\ wpath = NoConfig /\ watching = FALSE /\ watched = FALSE /\ existed = FALSE
  /\ auto = TRUE /\ timer = FALSE /\ pending = {} /\ loaded = <<NoConfig, 0>> /\ since = 0

(* ------------------------------ ConfigWatcher ------------------------------ *)

\* start(): the file, if there is one, and its directory.
WatchFrom(p) ==
  /\ wpath' = p /\ timer' = FALSE
  /\ watching' = (p # NoConfig)
  /\ existed' = IF p # NoConfig THEN Exists(p) ELSE existed
  /\ watched' = (p # NoConfig /\ Exists(p))
  /\ pending' = pending \ {"file"}

\* setConfigPath: stop() and start(), but only if it was watching.
SetConfigPath(p) ==
  IF watching THEN WatchFrom(p)
  ELSE wpath' = p /\ UNCHANGED <<watching, watched, existed, timer, pending>>

\* onFileChanged: a signal for another path was dropped with the watch on it.
OnFileChanged ==
  /\ up /\ "file" \in pending
  /\ pending' = pending \ {"file"}
  /\ IF ~watching \/ ~auto THEN UNCHANGED <<existed, watched, timer>>
     ELSE IF ~Exists(wpath) THEN existed' = FALSE /\ UNCHANGED <<watched, timer>>
     ELSE timer' = TRUE /\ watched' = TRUE /\ existed' = (existed \/ ~watched)
  /\ UNCHANGED <<file, edits, up, listVars, disk, wpath, watching, auto, loaded, since>>

\* Mutant: the watch is not set again when the file comes back.
OnDirectoryChangedUnwatched ==
  /\ up /\ "dir" \in pending
  /\ pending' = pending \ {"dir"}
  /\ IF watching /\ ~existed /\ Exists(wpath)
     THEN existed' = TRUE /\ timer' = (timer \/ auto) /\ UNCHANGED watched
     ELSE UNCHANGED <<existed, watched, timer>>
  /\ UNCHANGED <<file, edits, up, listVars, disk, wpath, watching, auto, loaded, since>>

OnDirectoryChanged ==
  /\ up /\ "dir" \in pending
  /\ pending' = pending \ {"dir"}
  /\ IF watching /\ ~existed /\ Exists(wpath)
     THEN existed' = TRUE /\ watched' = TRUE /\ timer' = (timer \/ auto)
     ELSE UNCHANGED <<existed, watched, timer>>
  /\ UNCHANGED <<file, edits, up, listVars, disk, wpath, watching, auto, loaded, since>>

\* onDebounceTimeout, and onActiveConfigChanged in the manager.
OnDebounceTimeout ==
  /\ up /\ timer
  /\ timer' = FALSE
  /\ loaded' = IF watching /\ auto /\ Exists(wpath) /\ wpath = ActivePath
               THEN <<wpath, file[wpath]>> ELSE loaded
  /\ UNCHANGED <<file, edits, up, listVars, disk, wpath, watching, watched, existed, auto, pending, since>>

SetAutoReloadEnabled(b) ==
  /\ up /\ auto' = b
  /\ UNCHANGED <<file, edits, up, listVars, disk, watcherVars, pending, loaded, since>>

(* ------------------------------ ConfigManager ------------------------------ *)

\* refreshList and scanDirectory: existence is looked up again, and what is found in
\* the directories is added, in any order.
Refreshed(l, found) == [i \in DOMAIN l |-> Entry(l[i].path)] \o [i \in DOMAIN found |-> [path |-> found[i], exists |-> TRUE]]
Unlisted(l) == {p \in Scanned : Exists(p) /\ Find(l, p) = 0}

\* load(): entries with an empty path are skipped, an index beyond the list is none.
Loaded(s) ==
  LET l == [i \in DOMAIN s.paths |-> Entry(s.paths[i])]
  IN [list |-> l, active |-> IF s.active > Len(l) THEN 0 ELSE s.active]

\* initialize() reads the list and watches the active file; it loads nothing, which is
\* its caller's.
Initialize ==
  /\ ~up /\ up' = TRUE
  /\ \E found \in SetToSeqs(Unlisted(Loaded(store).list)) :
       LET l == Refreshed(Loaded(store).list, found)
           a == Loaded(store).active
       IN /\ configs' = l /\ active' = a
          /\ store' = IF found = <<>> THEN store ELSE Saved(l, a)
          /\ IF PathAt(l, a) # NoConfig THEN WatchFrom(PathAt(l, a))
             ELSE UNCHANGED <<watcherVars, pending>>
  /\ since' = edits
  /\ UNCHANGED <<file, edits, disk, auto, loaded>>

RefreshList ==
  /\ up
  /\ \E found \in SetToSeqs(Unlisted(configs)) :
       /\ configs' = Refreshed(configs, found)
       /\ store' = IF found = <<>> THEN store ELSE Saved(configs', active)
  /\ UNCHANGED <<file, edits, up, active, disk, watcherVars, auto, pending, loaded, since>>

\* setActiveConfig, by index and (through findConfig) by path.  The callback loads
\* the file.
SetActiveConfig(i) ==
  /\ up /\ i \in DOMAIN configs /\ i # active
  /\ Put(configs, i) /\ SetConfigPath(configs[i].path)
  /\ loaded' = <<configs[i].path, file[configs[i].path]>>
  /\ UNCHANGED <<file, edits, up, disk, auto, since>>

\* The entry that setNextConfig comes to: the first one after the active that was
\* there when the list was refreshed.
Following(k) == ((active + k - 1) % Len(configs)) + 1
NextIndex ==
  IF \E k \in 1..Len(configs) : configs[Following(k)].exists
  THEN Following(CHOOSE k \in 1..Len(configs) :
         configs[Following(k)].exists /\ \A j \in 1..(k - 1) : ~configs[Following(j)].exists)
  ELSE 0

\* setNextConfig.  A single entry is taken even if its file is missing.
SetNextConfig ==
  /\ up /\ Cycling /\ configs # <<>>
  /\ LET next == IF Len(configs) = 1 THEN 1 ELSE NextIndex
     IN /\ next \notin {0, active}
        /\ Put(configs, next) /\ loaded' = <<configs[next].path, file[configs[next].path]>>
  /\ UNCHANGED <<file, edits, up, disk, watcherVars, auto, pending, since>>

\* Mutant: the new entry is not saved.
AddConfigUnsaved(p) ==
  /\ up /\ Find(configs, p) = 0
  /\ configs' = Append(configs, Entry(p))
  /\ UNCHANGED <<file, edits, up, active, store, disk, watcherVars, auto, pending, loaded, since>>

AddConfig(p) ==
  /\ up /\ Find(configs, p) = 0
  /\ Put(Append(configs, Entry(p)), active)
  /\ UNCHANGED <<file, edits, up, disk, watcherVars, auto, pending, loaded, since>>

RemoveConfig(p) ==
  /\ up /\ Find(configs, p) # 0
  /\ LET i == Find(configs, p)
     IN Put(RemoveAt(configs, i), IF active = i THEN 0 ELSE IF active > i THEN active - 1 ELSE active)
  /\ UNCHANGED <<file, edits, up, disk, watcherVars, auto, pending, loaded, since>>

\* createFromTemplate writes a new file and lists it.
CreateFromTemplate(p) ==
  /\ up /\ ~Exists(p) /\ edits < MaxEdits
  /\ edits' = edits + 1 /\ file' = [file EXCEPT ![p] = edits + 1]
  /\ IF Find(configs, p) = 0 THEN Put(Append(configs, [path |-> p, exists |-> TRUE]), active)
                             ELSE UNCHANGED listVars
  /\ pending' = IF watching THEN pending \cup {"dir"} ELSE pending
  /\ UNCHANGED <<up, disk, watcherVars, auto, loaded, since>>

(* ------------------- The editor, QSettings and the process ------------------ *)

\* What the system reports of a change to p.
Report(p, entry) ==
  pending' = pending \cup (IF watching /\ watched /\ p = wpath THEN {"file"} ELSE {})
                     \cup (IF watching /\ entry THEN {"dir"} ELSE {})

\* An editor writes into the file, or puts a new file in its place: a vanished
\* inode takes its watch along.
EditInPlace(p) ==
  /\ Exists(p) /\ edits < MaxEdits
  /\ edits' = edits + 1 /\ file' = [file EXCEPT ![p] = edits + 1] /\ Report(p, FALSE)
  /\ UNCHANGED <<up, listVars, disk, watcherVars, auto, loaded, since>>

ReplaceOrCreate(p) ==
  /\ edits < MaxEdits
  /\ edits' = edits + 1 /\ file' = [file EXCEPT ![p] = edits + 1] /\ Report(p, TRUE)
  /\ watched' = (watched /\ p # wpath)
  /\ UNCHANGED <<up, listVars, disk, wpath, watching, existed, timer, auto, loaded, since>>

DeleteFile(p) ==
  /\ Exists(p) /\ edits < MaxEdits
  /\ edits' = edits + 1 /\ file' = [file EXCEPT ![p] = 0] /\ Report(p, TRUE)
  /\ watched' = (watched /\ p # wpath)
  /\ UNCHANGED <<up, listVars, disk, wpath, watching, existed, timer, auto, loaded, since>>

\* The event loop lets QSettings write its keys, all of them at once.
SyncStore ==
  /\ up /\ disk # store
  /\ disk' = store
  /\ UNCHANGED <<file, edits, up, listVars, watcherVars, auto, pending, loaded, since>>

\* The process ends without another sync; the next one begins.
Restart ==
  /\ up /\ up' = FALSE
  /\ configs' = <<>> /\ active' = 0 /\ store' = disk
  /\ wpath' = NoConfig /\ watching' = FALSE /\ watched' = FALSE /\ existed' = FALSE
  /\ auto' = TRUE /\ timer' = FALSE /\ pending' = {} /\ loaded' = <<NoConfig, 0>>
  /\ UNCHANGED <<file, edits, disk, since>>

Watch == OnFileChanged \/ OnDirectoryChanged \/ OnDebounceTimeout

ManagerNext ==
  \/ Initialize \/ RefreshList \/ SetNextConfig \/ SyncStore \/ Restart
  \/ Watch
  \/ \E i \in DOMAIN configs : SetActiveConfig(i)
  \/ \E b \in AutoReload : SetAutoReloadEnabled(b)
  \/ \E p \in Config : AddConfig(p) \/ RemoveConfig(p) \/ CreateFromTemplate(p)
                       \/ EditInPlace(p) \/ ReplaceOrCreate(p) \/ DeleteFile(p)

ManagerSpec == ManagerInit /\ [][ManagerNext]_managerVars

\* The event loop delivers signals and timeouts.
ManagerFairness == WF_managerVars(OnFileChanged) /\ WF_managerVars(OnDirectoryChanged) /\ WF_managerVars(OnDebounceTimeout)

ManagerFairSpec == ManagerSpec /\ ManagerFairness

(* -------------------------------- Properties ------------------------------- *)

ManagerTypeOK ==
  /\ file \in [Config -> 0..MaxEdits] /\ edits \in 0..MaxEdits
  /\ up \in BOOLEAN /\ configs \in Seq([path : Config, exists : BOOLEAN]) /\ active \in Nat
  /\ {store, disk} \subseteq [paths : Seq(Config), active : Nat]
  /\ wpath \in Config \cup {NoConfig}
  /\ {watching, watched, existed, auto, timer} \subseteq BOOLEAN
  /\ pending \subseteq {"file", "dir"}
  /\ loaded \in (Config \cup {NoConfig}) \X (0..MaxEdits) /\ since \in 0..MaxEdits

\* The list names every file once, and the index points into it.
ListSound ==
  /\ active \in 0..Len(configs)
  /\ \A i, j \in DOMAIN configs : configs[i].path = configs[j].path => i = j

\* The active configuration never changes behind the program's back: whatever is
\* done to the list, a new active configuration has been loaded.
NoSilentSwitch ==
  [][up /\ up' /\ PathAt(configs', active') # PathAt(configs, active) =>
       PathAt(configs', active') \in {NoConfig, loaded'[1]}]_managerVars

\* Nothing of the list is only in memory: the keys say what the list says, so a
\* restart after a sync comes up with the same list and the same active one.
StoreCurrent == up => store = Saved(configs, active)

\* As long as the watcher is on the active file, whatever an editor leaves in it
\* since initialize() is loaded, in whichever way it saves.
ChangesLoaded ==
  \A p \in Config, v \in 1..MaxEdits :
    (up /\ watching /\ wpath = p /\ ActivePath = p /\ file[p] = v /\ v > since) ~>
      (loaded = <<p, v>> \/ file[p] # v \/ ActivePath # p \/ ~up)

\* The watcher is on the active configuration.
WatcherFollows == up /\ active # 0 => watching /\ wpath = ActivePath

\* List, active index and store stay consistent through every operation and restart.
ManagerSound == ManagerTypeOK /\ ListSound /\ StoreCurrent

\* What is in force is what is active: a new active configuration is loaded, and so is
\* every change of its file.
ManagerFollows == NoSilentSwitch /\ ChangesLoaded
=============================================================================
