------------------------------- MODULE Plugins -------------------------------
(***************************************************************************)
(* PluginManager and NotificationDispatcher: the shared libraries that are      *)
(* opened, made, initialised, shut down, destroyed and closed under m_mutex by  *)
(* the main thread, and the callbacks they register, which the engine's threads *)
(* call from notifyGUI at any time, also while the plugins are being unloaded   *)
(* (main() shuts the plugins down before it deletes the engine).               *)
(*                                                                         *)
(* A plugin registers one callback in initialize and takes it back in shutdown. *)
(***************************************************************************)
EXTENDS Naturals, Sequences, FiniteSets, SequencesExt

CONSTANTS
  PluginFile,   \* .so files in the plugin directory
  NameOf(_),    \* file -> getName of its plugin
  Reentrant,    \* files whose plugin calls the manager from initialize (isPluginLoaded)
  Speaker,      \* threads of the engine that call notifyGUI
  MaxMessages,  \* bound: dispatches
  MaxLoads      \* bound: libraries opened

ASSUME PluginAssumption == MaxMessages \in Nat /\ MaxLoads \in Nat /\ Reentrant \subseteq PluginFile

VARIABLES
  started,     \* m_initialized
  plugins,     \* m_plugins, as numbers of loads
  loads,       \* history of loads: the file, its library, its instance
  op,          \* the call the main thread is in: what it does, files or loads left, the load at hand
  callbacks,   \* m_callbacks, as the loads they belong to
  speech,      \* thread -> callbacks it has still to call (toInvoke), those it called, those registered when it began
  messages,    \* dispatches so far
  fault        \* history variable: did a call enter a library that is closed

managerVars == <<started, plugins, loads, op>>
pluginVars == <<managerVars, callbacks, speech, messages, fault>>

NoOp == [at |-> "idle", files |-> {}, queue |-> <<>>, cur |-> 0]
NamesLoaded == {NameOf(loads[n].file) : n \in ToSet(plugins)}
SilentNow == [on |-> FALSE, rest |-> <<>>, heard |-> <<>>, due |-> <<>>]

PluginsInit ==
  /\ started = FALSE /\ plugins = <<>> /\ loads = <<>> /\ op = NoOp /\ callbacks = <<>>
  /\ speech = [t \in Speaker |-> SilentNow] /\ messages = 0 /\ fault = FALSE

(* ------------------------------------ Loading ------------------------------------ *)

\* initialize and its scanAndLoadPlugins.
Initialize ==
  /\ op = NoOp /\ ~started /\ started' = TRUE /\ op' = [NoOp EXCEPT !.at = "scan", !.files = PluginFile]
  /\ UNCHANGED <<plugins, loads, callbacks, speech, messages, fault>>

\* loadPlugin: not a file that is loaded already.
LoadPlugin(f) ==
  /\ op = NoOp /\ started /\ \A n \in ToSet(plugins) : loads[n].file # f
  /\ op' = [NoOp EXCEPT !.at = "load", !.files = {f}]
  /\ UNCHANGED <<started, plugins, loads, callbacks, speech, messages, fault>>

\* dlopen, plugin_create, getApiVersion, getName and the search for its name; what fails is destroyed and closed.
Outcome == {"unopened", "uncreated", "rejected", "made"}
Opened(f, made, usable) ==
  /\ op.cur = 0 /\ f \in op.files /\ Len(loads) < MaxLoads
  /\ loads' = IF made = "unopened" THEN loads
              ELSE Append(loads, [file |-> f, lib |-> IF usable THEN "open" ELSE "closed",
                                  inst |-> IF usable THEN "made" ELSE IF made = "uncreated" THEN "none" ELSE "gone"])
  /\ op' = [op EXCEPT !.files = @ \ {f}, !.cur = IF usable THEN Len(loads) + 1 ELSE 0]
  /\ UNCHANGED <<started, plugins, callbacks, speech, messages, fault>>
OpenLibrary(f) ==
  op.at \in {"scan", "load"} /\ \E made \in Outcome : Opened(f, made, made = "made" /\ NameOf(f) \notin NamesLoaded)

\* plugin->initialize, with m_mutex held; a plugin that fails, or throws, is destroyed and its library closed.
PluginInitialize(ok) ==
  /\ op.cur # 0 /\ loads[op.cur].file \notin Reentrant /\ op' = [op EXCEPT !.cur = 0]
  /\ loads' = [loads EXCEPT ![op.cur].inst = IF ok THEN "running" ELSE "gone", ![op.cur].lib = IF ok THEN @ ELSE "closed"]
  /\ plugins' = IF ok THEN Append(plugins, op.cur) ELSE plugins
  /\ callbacks' = IF ok THEN Append(callbacks, op.cur) ELSE callbacks
  /\ UNCHANGED <<started, speech, messages, fault>>

\* The end of the loop; the bound on loads ends it too.
LoadEnd ==
  /\ op.at \in {"scan", "load"} /\ op.cur = 0 /\ (op.files = {} \/ Len(loads) = MaxLoads) /\ op' = NoOp
  /\ UNCHANGED <<started, plugins, loads, callbacks, speech, messages, fault>>

(* ------------------------------------ Unloading ------------------------------------ *)

\* unloadPlugin.
UnloadPlugin(name) ==
  /\ op = NoOp
  /\ \E i \in DOMAIN plugins : NameOf(loads[plugins[i]].file) = name /\ op' = [NoOp EXCEPT !.at = "unload", !.queue = <<plugins[i]>>]
  /\ UNCHANGED <<started, plugins, loads, callbacks, speech, messages, fault>>

\* shutdown: the last one first.
Shutdown ==
  /\ op = NoOp /\ started /\ op' = [NoOp EXCEPT !.at = "shutdown", !.queue = Reverse(plugins)]
  /\ UNCHANGED <<started, plugins, loads, callbacks, speech, messages, fault>>

\* unloadPluginInternal: shutdown (where the plugin calls unregisterCallback), destroy, dlclose.
PluginShutdown ==
  /\ op.queue # <<>> /\ loads[Head(op.queue)].inst = "running"
  /\ loads' = [loads EXCEPT ![Head(op.queue)].inst = "shut"]
  /\ callbacks' = RemoveFirst(callbacks, Head(op.queue))
  /\ UNCHANGED <<started, plugins, op, speech, messages, fault>>
PluginDestroy ==
  /\ op.queue # <<>> /\ loads[Head(op.queue)].inst = "shut"
  /\ loads' = [loads EXCEPT ![Head(op.queue)].inst = "gone"]
  /\ UNCHANGED <<started, plugins, op, callbacks, speech, messages, fault>>
CloseLibrary ==
  /\ op.queue # <<>> /\ loads[Head(op.queue)].inst = "gone"
  /\ loads' = [loads EXCEPT ![Head(op.queue)].lib = "closed"] /\ op' = [op EXCEPT !.queue = Tail(@)]
  /\ plugins' = IF op.at = "unload" THEN RemoveFirst(plugins, Head(op.queue)) ELSE plugins
  /\ UNCHANGED <<started, callbacks, speech, messages, fault>>
UnloadEnd ==
  /\ op.at \in {"unload", "shutdown"} /\ op.queue = <<>> /\ op' = NoOp
  /\ plugins' = IF op.at = "shutdown" THEN <<>> ELSE plugins
  /\ started' = (started /\ op.at # "shutdown")
  /\ UNCHANGED <<loads, callbacks, speech, messages, fault>>

(* ------------------------------------ Dispatch ------------------------------------ *)

\* dispatch copies the callbacks under its lock.
Dispatch(t) ==
  /\ ~speech[t].on /\ messages < MaxMessages /\ messages' = messages + 1
  /\ speech' = [speech EXCEPT ![t] = [on |-> TRUE, rest |-> callbacks, heard |-> <<>>, due |-> callbacks]]
  /\ UNCHANGED <<managerVars, callbacks, fault>>

\* It calls them outside the lock: one may throw, and one may take itself back.
Callback(t, how) ==
  LET n == Head(speech[t].rest) IN
  /\ speech[t].on /\ speech[t].rest # <<>>
  /\ speech' = [speech EXCEPT ![t].rest = Tail(@), ![t].heard = Append(@, n)]
  /\ callbacks' = IF how = "unregisters" THEN RemoveFirst(callbacks, n) ELSE callbacks
  /\ fault' = (fault \/ loads[n].lib = "closed")
  /\ UNCHANGED <<managerVars, messages>>
Dispatched(t) ==
  /\ speech[t].on /\ speech[t].rest = <<>> /\ speech' = [speech EXCEPT ![t].on = FALSE]
  /\ UNCHANGED <<managerVars, callbacks, messages, fault>>

PluginSteps ==
  \/ \E f \in PluginFile : OpenLibrary(f)
  \/ \E ok \in BOOLEAN : PluginInitialize(ok)
  \/ LoadEnd \/ PluginShutdown \/ PluginDestroy \/ CloseLibrary \/ UnloadEnd

PluginsNext ==
  \/ PluginSteps \/ Initialize \/ Shutdown
  \/ \E f \in PluginFile : LoadPlugin(f) \/ UnloadPlugin(NameOf(f))
  \/ \E t \in Speaker : \/ Dispatch(t) \/ Dispatched(t)
                        \/ \E how \in {"returns", "throws", "unregisters"} : Callback(t, how)

\* A call that the main thread is in goes on; what a plugin's own code does ends (unless it waits for the manager).
PluginsFairness == WF_pluginVars(PluginSteps)

PluginsSpec == PluginsInit /\ [][PluginsNext]_pluginVars /\ PluginsFairness

(* ------------------------------------ Properties ------------------------------------ *)

PluginsTypeOK ==
  /\ started \in BOOLEAN /\ ToSet(plugins) \subseteq DOMAIN loads /\ op.cur \in 0..Len(loads) /\ fault \in BOOLEAN
  /\ op.at \in {"idle", "scan", "load", "unload", "shutdown"}

\* On every path, of success or error, a library is closed when and only when its plugin is destroyed or was never
\* made, and between calls the open libraries are those of m_plugins.
LibrariesBalanced ==
  /\ \A n \in DOMAIN loads : loads[n].lib = "closed" => loads[n].inst \in {"none", "gone"}
  /\ op = NoOp => \A n \in DOMAIN loads : loads[n].lib = "open" <=> n \in ToSet(plugins)

\* No two loaded plugins have one name, so unloadPlugin means one.
NamesUnique == \A i, j \in DOMAIN plugins : NameOf(loads[plugins[i]].file) = NameOf(loads[plugins[j]].file) => i = j

\* A message reaches every callback that was registered when dispatch began, once, in their order, whatever the
\* others do: throw, or take themselves back.
HeardOnce == \A t \in Speaker : ~speech[t].on => speech[t].heard = speech[t].due

\* shutdown unloads in the reverse order: a plugin may rely on those that were loaded before it.
LastFirst ==
  [][op.at = "shutdown" => \A i, j \in DOMAIN plugins :
       (i < j /\ loads[plugins[i]].inst = "running" /\ loads'[plugins[i]].inst # "running") => loads[plugins[j]].lib = "closed"]_pluginVars

\* The scan ends, whatever the plugins it meets: initialize holds m_mutex and must not take it again.
ScanEnds == op.at = "scan" ~> op.at # "scan"

\* Refuted: a callback runs only while its library is open.  A dispatch that has copied it may call it after
\* shutdown, destroy and dlclose (main.cpp shuts the plugins down while the engine runs).
CallbackMapped == ~fault

\* Plugins and their libraries come and go together, under one name each, and every
\* notification is heard once.
PluginsSafe == PluginsTypeOK /\ LibrariesBalanced /\ NamesUnique /\ HeardOnce
=============================================================================
