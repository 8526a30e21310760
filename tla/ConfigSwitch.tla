------------------------------ MODULE ConfigSwitch ------------------------------
(***************************************************************************)
(* Hot reload: Engine::switchConfiguration builds a new Setting, installs   *)
(* it under m_cs while the keyboard handler runs, and deletes the old one.  *)
(* It is called from two threads, neither of which knows of the other: the  *)
(* control server (yamy-ctl, through EngineAdapter::loadConfig) and the     *)
(* thread of the GUI channel (Engine::handleIpcMessage).  Four places       *)
(* remember which configuration is in force: the engine, the adapter, the   *)
(* ConfigManager and the session file, which main() reads at the next start.*)
(*                                                                         *)
(* m_isSynchronizing is never set by what a JSON configuration can bind, so *)
(* setSetting does not fail and the retries around it are left out.         *)
(***************************************************************************)
EXTENDS Naturals, FiniteSets

CONSTANTS
  Caller,      \* the threads that switch: "server", "gui"
  Path,        \* configuration files
  NoPath,      \* the empty path
  Broken,      \* files that do not exist or do not parse, until an edit repairs them
  Fragile,     \* files that the first edit breaks; another one repairs them
  Missing,     \* of those two: files that do not exist while they do not parse
  Unmapped,    \* files without a "mappings" section, hence without a keymap
  MaxSettings, \* bound: Setting objects made by one process
  MaxEdits     \* bound: edits of one file

ASSUME SwitchAssumption ==
  /\ Caller \subseteq {"server", "gui"} /\ NoPath \notin Path
  /\ Broken \subseteq Path /\ Fragile \subseteq Path /\ Missing \subseteq Path /\ Unmapped \subseteq Path
  /\ MaxSettings \in Nat /\ MaxEdits \in Nat

VARIABLES
  version,     \* how often each file was edited
  session,     \* activeConfigPath in the session file
  current,     \* m_setting; 0 is nullptr
  keymap,      \* the Setting that m_currentKeymap points into, 0 if nullptr
  path,        \* Engine::m_currentConfigPath
  adapterPath, \* EngineAdapter::m_configPath
  listed,      \* the configurations that the ConfigManager lists
  active,      \* the active one among them, which it saves
  made,        \* Setting objects made so far: 1 .. made
  freed,       \* the deleted ones
  content,     \* the file and the version that each object was parsed from
  pc,          \* where each caller is in its command
  target,      \* the path it was asked for
  asked,       \* history: a reload must show at least this version of the file
  new, old,    \* newSetting and oldSetting of each caller
  hpc          \* the keyboard handler: "idle", "checked" m_setting, "inside" m_cs

engineVars == <<current, keymap, path>>
listVars   == <<listed, active>>
heapVars   == <<made, freed, content>>
callVars   == <<target, asked, new, old>>
vars == <<version, session, engineVars, adapterPath, listVars, heapVars, pc, callVars, hpc>>

Setting == 1 .. MaxSettings
Blank   == [path |-> NoPath, version |-> 0]

Init ==
  /\ version = [p \in Path |-> 0] /\ session = NoPath
  /\ current = 0 /\ keymap = 0 /\ path = NoPath /\ adapterPath = NoPath
  /\ listed \in SUBSET Path /\ active = NoPath
  /\ made = 0 /\ freed = {} /\ content = [s \in Setting |-> Blank]
  /\ pc = [c \in Caller |-> "idle"] /\ target = [c \in Caller |-> NoPath]
  /\ asked = [c \in Caller |-> 0]
  /\ new = [c \in Caller |-> 0] /\ old = [c \in Caller |-> 0]
  /\ hpc = "idle"

AllIdle == \A c \in Caller : pc[c] = "idle"

\* What comes after a successful switchConfiguration.
Succeeded(c) == IF c = "server" THEN "adapter" ELSE "register"

\* JsonConfigLoader::load on the file as it is now.
Parses(p) == p \notin IF version[p] % 2 = 0 THEN Broken ELSE Fragile
Exists(p) == Parses(p) \/ p \notin Missing

(* -------------------------- switchConfiguration --------------------------- *)

\* "reload" without a name: the server asks the adapter for the path, the GUI
\* channel asks the ConfigManager.
Reloaded(c) == IF c = "server" THEN adapterPath ELSE active

\* A command arrives: a switch to p, or a reload when reload is TRUE.  The GUI
\* channel finds p in the list.
Request(c, p, reload) ==
  /\ pc[c] = "idle" /\ p \in Path
  /\ c = "gui" => p \in listed
  /\ reload => p = Reloaded(c)
  /\ target' = [target EXCEPT ![c] = p]
  /\ asked' = [asked EXCEPT ![c] = IF reload THEN version[p] ELSE 0]

\* EngineAdapter::loadConfig, by which the server comes, wants a file that exists.
Found(c, p) == c = "gui" \/ Exists(p)

\* The path is the one that is loaded: success, and nothing is parsed.
SwitchSame(c, p, reload) ==
  /\ Request(c, p, reload)
  /\ path = p /\ Found(c, p)
  /\ pc' = [pc EXCEPT ![c] = Succeeded(c)]
  /\ UNCHANGED <<version, session, engineVars, adapterPath, listVars, heapVars, new, old, hpc>>

\* Mutant: the rollback deletes the setting that is in force.
SwitchFailsDeletes(c, p, reload) ==
  /\ Request(c, p, reload)
  /\ ~Found(c, p) \/ (path # p /\ ~Parses(p))
  /\ freed' = freed \cup ({current} \ {0})
  /\ UNCHANGED <<version, session, engineVars, adapterPath, listVars, made, content, pc, new, old, hpc>>

\* Mutant: m_currentConfigPath is stored before the file is parsed.
SwitchFailsStores(c, p, reload) ==
  /\ Request(c, p, reload)
  /\ ~Found(c, p) \/ (path # p /\ ~Parses(p))
  /\ path' = p
  /\ UNCHANGED <<version, session, current, keymap, adapterPath, listVars, heapVars, pc, new, old, hpc>>

\* The file is missing or does not parse: the new Setting is deleted again.
SwitchFails(c, p, reload) ==
  /\ Request(c, p, reload)
  /\ ~Found(c, p) \/ (path # p /\ ~Parses(p))
  /\ UNCHANGED <<version, session, engineVars, adapterPath, listVars, heapVars, pc, new, old, hpc>>

SwitchParses(c, p, reload) ==
  /\ Request(c, p, reload)
  /\ path # p /\ Parses(p) /\ made < MaxSettings
  /\ made' = made + 1
  /\ content' = [content EXCEPT ![made + 1] = [path |-> p, version |-> version[p]]]
  /\ new' = [new EXCEPT ![c] = made + 1]
  /\ pc' = [pc EXCEPT ![c] = "parsed"]
  /\ UNCHANGED <<version, session, engineVars, adapterPath, listVars, freed, old, hpc>>

\* oldSetting = m_setting, outside m_cs.
ReadOld(c) ==
  /\ pc[c] = "parsed"
  /\ old' = [old EXCEPT ![c] = current]
  /\ pc' = [pc EXCEPT ![c] = "apply"]
  /\ UNCHANGED <<version, session, engineVars, adapterPath, listVars, heapVars, target, asked, new, hpc>>

\* Mutant: m_currentKeymap is set only when there is none yet.
ApplyKeepsKeymap(c) ==
  /\ pc[c] = "apply" /\ hpc # "inside"
  /\ current' = new[c]
  /\ keymap' = IF keymap # 0 \/ content[new[c]].path \in Unmapped THEN keymap ELSE new[c]
  /\ pc' = [pc EXCEPT ![c] = "delete"]
  /\ UNCHANGED <<version, session, path, adapterPath, listVars, heapVars, callVars, hpc>>

\* setSetting, under m_cs: m_setting changes, m_currentKeymap only if the new
\* setting has a keymap.
Apply(c) ==
  /\ pc[c] = "apply" /\ hpc # "inside"
  /\ current' = new[c]
  /\ keymap' = IF content[new[c]].path \in Unmapped THEN keymap ELSE new[c]
  /\ pc' = [pc EXCEPT ![c] = "delete"]
  /\ UNCHANGED <<version, session, path, adapterPath, listVars, heapVars, callVars, hpc>>

\* Mutant: a null pointer is deleted.
DeleteUnchecked(c) ==
  /\ pc[c] = "delete"
  /\ freed' = freed \cup {old[c]}
  /\ pc' = [pc EXCEPT ![c] = "path"]
  /\ UNCHANGED <<version, session, engineVars, adapterPath, listVars, made, content, callVars, hpc>>

\* delete oldSetting, outside m_cs.
Delete(c) ==
  /\ pc[c] = "delete"
  /\ freed' = freed \cup ({old[c]} \ {0})
  /\ pc' = [pc EXCEPT ![c] = "path"]
  /\ UNCHANGED <<version, session, engineVars, adapterPath, listVars, made, content, callVars, hpc>>

SetPath(c) ==
  /\ pc[c] = "path"
  /\ path' = target[c]
  /\ pc' = [pc EXCEPT ![c] = "active"]
  /\ UNCHANGED <<version, session, current, keymap, adapterPath, listVars, heapVars, callVars, hpc>>

\* ConfigManager::setActiveConfig(path), which does nothing for a path that is not
\* in the list.
SetActiveConfig(p) == active' = IF p \in listed THEN p ELSE active

\* ConfigManager::setActiveConfig at the end of switchConfiguration.
SetActive(c) ==
  /\ pc[c] = "active"
  /\ SetActiveConfig(target[c])
  /\ pc' = [pc EXCEPT ![c] = Succeeded(c)]
  /\ UNCHANGED <<version, session, engineVars, adapterPath, listed, heapVars, callVars, hpc>>

(* ------------------------------- The callers ------------------------------- *)

\* Mutant: the adapter saves the session and forgets the path.
SaveSessionOnly(c) ==
  /\ pc[c] = "adapter"
  /\ session' = target[c]
  /\ pc' = [pc EXCEPT ![c] = "register"]
  /\ UNCHANGED <<version, engineVars, adapterPath, listVars, heapVars, callVars, hpc>>

\* The rest of EngineAdapter::loadConfig: remember the path, save the session.
SaveSession(c) ==
  /\ pc[c] = "adapter"
  /\ adapterPath' = target[c] /\ session' = target[c]
  /\ pc' = [pc EXCEPT ![c] = "register"]
  /\ UNCHANGED <<version, engineVars, listVars, heapVars, callVars, hpc>>

\* The caller sets the active configuration once more and answers "success"; the
\* server has the file listed before.
Answer(c) ==
  /\ pc[c] = "register"
  /\ IF c = "server" THEN listed' = listed \cup {target[c]} /\ active' = target[c]
                     ELSE SetActiveConfig(target[c]) /\ UNCHANGED listed
  /\ pc' = [pc EXCEPT ![c] = "idle"]
  /\ UNCHANGED <<version, session, engineVars, adapterPath, heapVars, callVars, hpc>>

(* --------------------------- The keyboard handler -------------------------- *)

\* An event: m_setting is tested outside m_cs; without one the event is bypassed.
HandlerCheck ==
  /\ hpc = "idle" /\ current # 0
  /\ hpc' = "checked"
  /\ UNCHANGED <<version, session, engineVars, adapterPath, listVars, heapVars, pc, callVars>>

\* m_cs is taken; without a keymap the event is injected as it is.
HandlerEnter ==
  /\ hpc = "checked"
  /\ hpc' = IF keymap = 0 THEN "idle" ELSE "inside"
  /\ UNCHANGED <<version, session, engineVars, adapterPath, listVars, heapVars, pc, callVars>>

HandlerLeave ==
  /\ hpc = "inside"
  /\ hpc' = "idle"
  /\ UNCHANGED <<version, session, engineVars, adapterPath, listVars, heapVars, pc, callVars>>

(* ------------------------------- Environment ------------------------------- *)

\* The user edits a configuration file.
Edit(p) ==
  /\ version[p] < MaxEdits
  /\ version' = [version EXCEPT ![p] = @ + 1]
  /\ UNCHANGED <<session, engineVars, adapterPath, listVars, heapVars, pc, callVars, hpc>>

\* The user takes a configuration off the list: on the thread of the GUI channel.
Unlist(p) ==
  /\ p \in listed
  /\ "gui" \in Caller => pc["gui"] = "idle"
  /\ listed' = listed \ {p}
  /\ active' = IF active = p THEN NoPath ELSE active
  /\ UNCHANGED <<version, session, engineVars, adapterPath, heapVars, pc, callVars, hpc>>

\* The process ends and is started again.  A clean exit saves the adapter's path
\* in the session; a crash leaves the file as it is.  main() restores the session
\* before the server, the channel and the handler run.
Restart(clean) ==
  LET saved == IF clean THEN adapterPath ELSE session
      load  == saved # NoPath /\ Parses(saved)
  IN  /\ clean => AllIdle /\ hpc = "idle"
      /\ load => MaxSettings > 0
      /\ session' = saved
      /\ current' = IF load THEN 1 ELSE 0
      /\ keymap' = IF load /\ saved \notin Unmapped THEN 1 ELSE 0
      /\ path' = IF load THEN saved ELSE NoPath
      /\ adapterPath' = IF load THEN saved ELSE NoPath
      /\ listed' = IF load THEN listed \cup {saved} ELSE listed
      /\ active' = IF load THEN saved ELSE active
      /\ made' = IF load THEN 1 ELSE 0
      /\ freed' = {}
      /\ content' = [s \in Setting |->
           IF load /\ s = 1 THEN [path |-> saved, version |-> version[saved]] ELSE Blank]
      /\ pc' = [c \in Caller |-> "idle"] /\ target' = [c \in Caller |-> NoPath]
      /\ asked' = [c \in Caller |-> 0]
      /\ new' = [c \in Caller |-> 0] /\ old' = [c \in Caller |-> 0]
      /\ hpc' = "idle"
      /\ UNCHANGED version

Switch(c) ==
  \/ \E p \in Path, reload \in BOOLEAN :
       SwitchSame(c, p, reload) \/ SwitchFails(c, p, reload) \/ SwitchParses(c, p, reload)
  \/ ReadOld(c) \/ Apply(c) \/ Delete(c) \/ SetPath(c) \/ SetActive(c)
  \/ SaveSession(c) \/ Answer(c)

Handler == HandlerCheck \/ HandlerEnter \/ HandlerLeave

Next ==
  \/ \E c \in Caller : Switch(c)
  \/ Handler
  \/ \E p \in Path : Edit(p) \/ Unlist(p)
  \/ \E clean \in BOOLEAN : Restart(clean)

Spec == Init /\ [][Next]_vars

(* -------------------------------- Properties ------------------------------- *)

TypeOK ==
  /\ version \in [Path -> 0 .. MaxEdits] /\ session \in Path \cup {NoPath}
  /\ current \in 0 .. made /\ keymap \in 0 .. made
  /\ path \in Path \cup {NoPath} /\ adapterPath \in Path \cup {NoPath}
  /\ listed \subseteq Path /\ active \in listed \cup {NoPath}
  /\ made \in 0 .. MaxSettings /\ freed \subseteq 1 .. made
  /\ content \in [Setting -> [path : Path \cup {NoPath}, version : 0 .. MaxEdits]]
  /\ pc \in [Caller -> {"idle", "parsed", "apply", "delete", "path", "active", "adapter", "register"}]
  /\ target \in [Caller -> Path \cup {NoPath}]
  /\ \A c \in Caller : pc[c] # "idle" => target[c] \in Path
  /\ asked \in [Caller -> 0 .. MaxEdits]
  /\ new \in [Caller -> 0 .. made] /\ old \in [Caller -> 0 .. made]
  /\ hpc \in {"idle", "checked", "inside"}

\* While the handler is inside m_cs, the Setting and the Keymap that it works on
\* have not been deleted: switchConfiguration "is designed to handle hot reload
\* while running".
NoUseAfterFree == hpc = "inside" => current \notin freed /\ keymap \notin freed

\* No Setting is deleted twice.
NoDoubleFree == \A c \in Caller : pc[c] = "delete" => old[c] \notin freed

\* No Setting is lost: when no command is under way, the one in force is the only
\* one left.
NoLeak == AllIdle => (1 .. made) \ freed = {current} \ {0}

\* When no command is under way, m_currentConfigPath, on which the "already
\* loaded" test relies, names the file that m_setting was parsed from.
PathNamesSetting ==
  AllIdle => path = IF current = 0 THEN NoPath ELSE content[current].path

\* A command that is answered with success leaves the configuration that it named
\* in force.
AnsweredInForce ==
  [][\A c \in Caller : Answer(c) => current # 0 /\ content[current].path = target[c]]_vars

\* SessionManager "saves and restores: active config": the configuration in force
\* when the program is ended is the one that the next start loads, if it parses.
SessionKeepsConfig ==
  [][Restart(TRUE) /\ path # NoPath => path' = path \/ ~Parses(path)]_vars

\* A crash between commands loses nothing: the session file names the
\* configuration in force.
CrashKeepsConfig == AllIdle /\ path # NoPath => session = path

\* "Press Reload to force the active config to re-parse": after a reload that is
\* answered with success, m_setting holds the file as it was when the command
\* came, or newer.
ReloadIsFresh ==
  [][\A c \in Caller : Answer(c) => content[current].version >= asked[c]]_vars

\* "Reload configuration (optionally switch to NAME)": without a name, a reload
\* stays with the configuration that is in force.
ReloadStays ==
  AllIdle /\ path # NoPath => \A c \in Caller : Reloaded(c) \in {path, NoPath}

\* Every Setting is accounted for: none deleted twice, none lost, and the path names the
\* one in force (proved in ConfigSwitchProofs).
SettingsAccounted == TypeOK /\ NoDoubleFree /\ NoLeak /\ PathNamesSetting

\* The program comes back with the configuration that it had, after an exit and after a
\* crash between commands.
ConfigKept == SessionKeepsConfig /\ []CrashKeepsConfig

\* A command does what it says: success means that the named configuration is in force,
\* and a reload without a name stays with it.
CommandsMeant == AnsweredInForce /\ []ReloadStays
=============================================================================
