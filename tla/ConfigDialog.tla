------------------------------- MODULE ConfigDialog -------------------------------
(***************************************************************************)
(* ConfigManagerDialog: the list of configurations with its buttons, message *)
(* boxes, status filter, file watcher, debounce timer and validation worker.  *)
(*                                                                         *)
(* The worker is a thread; its answers, the watcher's signals and the timer  *)
(* reach the dialog through the event loop, which also runs while a message  *)
(* box waits.  Other clients of the ConfigManager (tray, hotkey, engine) act  *)
(* at any time.  A file is good, bad or missing.                             *)
(***************************************************************************)
EXTENDS Naturals, Sequences, FiniteSets

CONSTANTS
  DPath,        \* paths of configuration files
  Opened,       \* the configurations the dialog opens with
  Edits,        \* bound: the files that an editor works on
  EditKinds,    \* how files change on the disk: "write", "replace" (a new file renamed over it), "delete", "create"
  MaxUserSteps, \* bound: what the user does in the dialog
  MaxOtherSteps \* bound: what others do

ASSUME ConfigDialogAssumption ==
  /\ "" \notin DPath /\ Opened \in Seq(DPath) /\ Opened # <<>>
  /\ Edits \subseteq DPath /\ EditKinds \subseteq {"write", "replace", "delete", "create"}
  /\ MaxUserSteps \in Nat /\ MaxOtherSteps \in Nat

VARIABLES
  disk,       \* path -> "good", "bad" or "none"
  managed, managedActive, \* ConfigManager: the paths, the active index (0 for none)
  items,      \* the list widget: path, index and icon of each row
  sel,        \* the current row, 0 for none
  buttons,    \* which of delete, rename, set active are enabled
  box,        \* the message box that is open: the question and the path it is about
  filter, hidden, \* the status filter, the rows it hides
  cache,      \* m_validationCache
  watched, changed, \* the watcher's files, its queued signals
  due,        \* m_pendingValidations; the timer runs while it is not empty
  jobs, results, \* queued validations, queued answers
  moved,      \* history variable: did others change the list or the active index since the buttons were set?
  stale,      \* history variable: did others change the list since the rows were made?
  unseen,       \* history variable: files that were missing when the dialog last looked
  userSteps, otherSteps

disk_ == <<disk, managed, managedActive>>
rowVars == <<items, sel, buttons, box, filter, hidden>>
checkVars == <<cache, watched, changed, due, jobs, results>>
dialogVars == <<disk, managed, managedActive, items, sel, buttons, box, filter, hidden, cache, watched, changed,
                due, jobs, results, moved, stale, unseen, userSteps, otherSteps>>
history == <<moved, stale, unseen>>

NoBox == [ask |-> "", path |-> ""]
Exists(p) == disk[p] # "none"
Here(s) == {s[i] : i \in DOMAIN s}
Without(s, p) == SelectSeq(s, LAMBDA q : q # p)

(* ------------------------------ List, buttons, filter ------------------------------ *)

\* matchesFilter with an empty search text.
Matches(f, c) == f = "all" \/ (f = "valid" /\ c = "good") \/ (f = "errors" /\ c = "bad")

\* applyFilters.
Hidden(rows, f, c) == {i \in DOMAIN rows : ~Matches(f, c[rows[i].path])}

\* updateButtonStates.
NoButtons == [delete |-> FALSE, rename |-> FALSE, setActive |-> FALSE]
Buttons(row, d, active) ==
  LET exists == d[row.path] # "none"  isActive == row.index = active IN
  [delete |-> ~isActive, rename |-> exists /\ ~isActive, setActive |-> exists /\ ~isActive]

\* refreshConfigList: rows, watched files and validations are made again; the cache stays.
RefreshRows(list, d) == [i \in DOMAIN list |-> [path |-> list[i], index |-> i,
                                                icon |-> IF d[list[i]] = "none" THEN "error" ELSE "pending"]]
RefreshUnwatched(list, d) ==
  /\ items' = RefreshRows(list, d) /\ sel' = 0 /\ buttons' = NoButtons
  /\ hidden' = Hidden(RefreshRows(list, d), filter, cache)
  /\ watched' = watched \cap Here(list)
  /\ jobs' = jobs \o SelectSeq(list, LAMBDA p : d[p] # "none")
  /\ moved' = FALSE /\ stale' = FALSE /\ unseen' = {p \in Here(list) : d[p] = "none"}
Refresh(list, d) ==
  /\ items' = RefreshRows(list, d) /\ sel' = 0 /\ buttons' = NoButtons
  /\ hidden' = Hidden(RefreshRows(list, d), filter, cache)
  /\ watched' = {p \in Here(list) : d[p] # "none"}
  /\ jobs' = jobs \o SelectSeq(list, LAMBDA p : d[p] # "none")
  /\ moved' = FALSE /\ stale' = FALSE /\ unseen' = {p \in Here(list) : d[p] = "none"}

DialogInit ==
  /\ disk \in {d \in [DPath -> {"good", "bad", "none"}] :
                 d[Head(Opened)] # "none" /\ \A p \in DPath \ Here(Opened) : d[p] = "none"}
  /\ managed = Opened /\ managedActive \in {i \in 0..Len(Opened) : i # 0 => Exists(Opened[i])}
  /\ items = RefreshRows(managed, disk) /\ sel = 0 /\ buttons = NoButtons /\ box = NoBox
  /\ filter = "all" /\ hidden = {} /\ cache = [p \in DPath |-> ""]
  /\ watched = {p \in Here(managed) : disk[p] # "none"} /\ changed = <<>> /\ due = {}
  /\ jobs = SelectSeq(managed, LAMBDA p : disk[p] # "none") /\ results = <<>>
  /\ moved = FALSE /\ stale = FALSE /\ unseen = {p \in Here(managed) : ~Exists(p)}
  /\ userSteps = 0 /\ otherSteps = 0

(* -------------------------------------- The user -------------------------------------- *)

User_ == userSteps < MaxUserSteps /\ userSteps' = userSteps + 1 /\ UNCHANGED otherSteps /\ box = NoBox

\* onSelectionChanged.
SelectRow(i) ==
  /\ User_ /\ i \in DOMAIN items \ hidden /\ sel # i
  /\ sel' = i /\ buttons' = Buttons(items[i], disk, managedActive) /\ moved' = FALSE
  /\ UNCHANGED <<disk_, items, box, filter, hidden, checkVars, stale, unseen>>

\* onStatusFilterChanged.
SetFilter(f) ==
  /\ User_ /\ f # filter /\ filter' = f /\ hidden' = Hidden(items, f, cache)
  /\ UNCHANGED <<disk_, items, sel, buttons, box, checkVars, history>>

\* onDelete, onRename and onDuplicate take the path and ask.
Ask(ask) ==
  /\ User_ /\ sel # 0
  /\ \/ ask = "delete" /\ buttons.delete
     \/ ask = "rename" /\ buttons.rename
     \/ ask = "duplicate" /\ Exists(items[sel].path)
  /\ box' = [ask |-> ask, path |-> items[sel].path]
  /\ UNCHANGED <<disk_, items, sel, buttons, filter, hidden, checkVars, history>>

\* No, a name that is refused (empty, invalid or taken), or a file that cannot be copied or renamed; after the
\* warning that a file could not be deleted the list is refreshed.
Dismiss ==
  /\ box # NoBox /\ box' = NoBox
  /\ IF box.ask = "undeleted"
     THEN Refresh(managed, disk) /\ UNCHANGED <<disk_, filter, cache, changed, due, results, userSteps, otherSteps>>
     ELSE UNCHANGED <<disk_, items, sel, buttons, filter, hidden, checkVars, history, userSteps, otherSteps>>

\* ConfigManager::removeConfig keeps the active configuration active.
ActiveAfter(list, gone, active) ==
  LET at == {i \in DOMAIN list : list[i] = gone} IN
  IF at = {} \/ active = 0 THEN active
  ELSE LET i == CHOOSE i \in at : TRUE IN
       IF i = active THEN 0 ELSE IF i < active THEN active - 1 ELSE active

\* Yes: removeConfig, remove the file, refresh; a warning if it cannot be removed comes before the refresh.
DeleteYes ==
  /\ box.ask = "delete" /\ managed' = Without(managed, box.path)
  /\ managedActive' = ActiveAfter(managed, box.path, managedActive)
  /\ \/ /\ disk' = [disk EXCEPT ![box.path] = "none"] /\ Refresh(managed', disk')
        /\ box' = NoBox /\ UNCHANGED <<filter, cache, changed, due, results>>
     \/ /\ Exists(box.path) /\ box' = [box EXCEPT !.ask = "undeleted"] /\ moved' = TRUE /\ stale' = TRUE
        /\ UNCHANGED <<disk, items, sel, buttons, filter, hidden, checkVars, unseen>>
  /\ UNCHANGED <<userSteps, otherSteps>>

\* ConfigManager::addConfig: a path that is in the list, its file missing until now, stays where it is.
AddedToList(list, p) == IF p \in Here(list) THEN list ELSE Append(list, p)

\* A name whose file does not exist: rename the file, removeConfig, addConfig, refresh.
RenameTo(p) ==
  /\ box.ask = "rename" /\ Exists(box.path) /\ ~Exists(p)
  /\ disk' = [disk EXCEPT ![box.path] = "none", ![p] = disk[box.path]]
  /\ managed' = AddedToList(Without(managed, box.path), p)
  /\ managedActive' = ActiveAfter(managed, box.path, managedActive) /\ Refresh(managed', disk')
  /\ box' = NoBox /\ UNCHANGED <<filter, cache, changed, due, results, userSteps, otherSteps>>

\* onDuplicate's copy; onNew and onImport add a file in the same way.
DuplicateTo(p) ==
  /\ box.ask = "duplicate" /\ Exists(box.path) /\ ~Exists(p)
  /\ disk' = [disk EXCEPT ![p] = disk[box.path]] /\ managed' = AddedToList(managed, p) /\ Refresh(managed', disk')
  /\ box' = NoBox /\ UNCHANGED <<managedActive, filter, cache, changed, due, results, userSteps, otherSteps>>
New(p) ==
  /\ User_ /\ ~Exists(p)
  /\ \E content \in {"good", "bad"} : disk' = [disk EXCEPT ![p] = content]
  /\ managed' = AddedToList(managed, p) /\ Refresh(managed', disk')
  /\ UNCHANGED <<managedActive, box, filter, cache, changed, due, results>>

\* onSetActive: by the index the row was made with.
SetActive ==
  /\ User_ /\ sel # 0 /\ buttons.setActive
  /\ IF items[sel].index \in DOMAIN managed /\ Exists(managed[items[sel].index])
     THEN /\ managedActive' = items[sel].index /\ Refresh(managed, disk)
          /\ UNCHANGED <<disk, managed, box, filter, cache, changed, due, results>>
     ELSE UNCHANGED <<disk_, rowVars, checkVars, history>>

(* ---------------------------------- The event loop ---------------------------------- *)

\* validateConfig on the worker's thread: it reads the file as it is now.
Validate ==
  /\ jobs # <<>> /\ jobs' = Tail(jobs)
  /\ results' = Append(results, [path |-> Head(jobs), content |-> IF disk[Head(jobs)] = "good" THEN "good" ELSE "bad"])
  /\ UNCHANGED <<disk_, rowVars, cache, watched, changed, due, history, userSteps, otherSteps>>

\* onValidationComplete: cache, icon, filters, and the buttons if the row is selected.
ValidationComplete ==
  LET here == sel # 0 /\ items[sel].path = Head(results).path IN
  /\ results # <<>> /\ results' = Tail(results)
  /\ cache' = [cache EXCEPT ![Head(results).path] = Head(results).content]
  /\ items' = [i \in DOMAIN items |-> IF items[i].path = Head(results).path
                                      THEN [items[i] EXCEPT !.icon = Head(results).content] ELSE items[i]]
  /\ hidden' = Hidden(items', filter, cache')
  /\ buttons' = IF here THEN Buttons(items[sel], disk, managedActive) ELSE buttons
  /\ moved' = (moved /\ ~(here /\ box = NoBox))
  /\ UNCHANGED <<disk_, sel, box, filter, watched, changed, due, jobs, stale, unseen, userSteps, otherSteps>>

\* onFileChanged: remember, restart the timer, watch the file again if an editor replaced it; one that is gone is
\* not watched any more.
OnFileChanged ==
  /\ changed # <<>> /\ changed' = Tail(changed) /\ due' = due \cup {Head(changed)}
  /\ watched' = IF Exists(Head(changed)) THEN watched \cup {Head(changed)} ELSE watched
  /\ unseen' = IF Exists(Head(changed)) THEN unseen \ {Head(changed)} ELSE unseen \cup {Head(changed)}
  /\ UNCHANGED <<disk_, rowVars, cache, jobs, results, moved, stale, userSteps, otherSteps>>

\* The timer: startValidation for what is pending and still exists.
DebounceTimer ==
  /\ due # {} /\ due' = {}
  /\ \E order \in {s \in [1..Cardinality(due) -> due] : Here(s) = due} :
       jobs' = jobs \o SelectSeq(order, LAMBDA p : Exists(p))
  /\ UNCHANGED <<disk_, rowVars, cache, watched, changed, results, history, userSteps, otherSteps>>

(* -------------------------------------- Others -------------------------------------- *)

Other == otherSteps < MaxOtherSteps /\ otherSteps' = otherSteps + 1 /\ UNCHANGED userSteps

\* An editor.  The watcher signals, and forgets a path whose file is gone, if only for a moment.  That a file which
\* is away comes back is not counted.
Edited(p, how) ==
  /\ p \in Here(managed) \cap Edits
  /\ IF how = "create" THEN ~Exists(p) /\ UNCHANGED <<userSteps, otherSteps>> ELSE Exists(p) /\ Other
  /\ \/ how = "delete" /\ disk' = [disk EXCEPT ![p] = "none"]
     \/ how # "delete" /\ \E content \in {"good", "bad"} \ {disk[p]} : disk' = [disk EXCEPT ![p] = content]
  /\ changed' = IF p \in watched THEN Append(changed, p) ELSE changed
  /\ watched' = IF how = "write" THEN watched ELSE watched \ {p}
  /\ UNCHANGED <<managed, managedActive, rowVars, cache, due, jobs, results, history>>

\* The tray, the hotkey or the engine makes another configuration active.
OtherSwitches(i) ==
  /\ Other /\ i \in DOMAIN managed /\ i # managedActive /\ managedActive' = i /\ moved' = TRUE
  /\ UNCHANGED <<disk, managed, rowVars, checkVars, stale, unseen>>

\* Another client takes a configuration out of the list.
OtherRemoves(p) ==
  /\ Other /\ p \in Here(managed) /\ managed' = Without(managed, p)
  /\ managedActive' = ActiveAfter(managed, p, managedActive) /\ moved' = TRUE /\ stale' = TRUE
  /\ UNCHANGED <<disk, rowVars, checkVars, unseen>>

DialogNext ==
  \/ \E i \in DOMAIN items : SelectRow(i)
  \/ \E f \in {"all", "valid", "errors"} : SetFilter(f)
  \/ \E ask \in {"delete", "rename", "duplicate"} : Ask(ask)
  \/ SetActive \/ Dismiss \/ DeleteYes
  \/ Validate \/ ValidationComplete \/ OnFileChanged \/ DebounceTimer
  \/ \E p \in DPath : New(p) \/ RenameTo(p) \/ DuplicateTo(p) \/ OtherRemoves(p) \/ \E how \in EditKinds : Edited(p, how)
  \/ \E i \in DOMAIN managed : OtherSwitches(i)

DialogSpec == DialogInit /\ [][DialogNext]_dialogVars

(* ------------------------------------ Properties ------------------------------------ *)

DialogTypeOK ==
  /\ disk \in [DPath -> {"good", "bad", "none"}] /\ managed \in Seq(DPath) /\ managedActive \in 0..Len(managed)
  /\ \A i \in DOMAIN items : items[i].icon \in {"pending", "good", "bad", "error"}
  /\ sel \in 0..Len(items) /\ watched \subseteq DPath /\ due \subseteq DPath

Settled == changed = <<>> /\ due = {} /\ jobs = <<>> /\ results = <<>>

\* The dialog has seen the file and not seen it missing since.
Followed(p) == Exists(p) /\ p \notin unseen

\* Once signals, timer and validations are through, the icon of a file that exists tells what is in it,
\* however it was edited meanwhile (onFileChanged, startValidation, the queued answers), unless it had been
\* missing when the dialog last looked.
IconsTruthful == Settled => \A i \in DOMAIN items : Followed(items[i].path) => items[i].icon = disk[items[i].path]

\* Then the status filter shows the files it names and no others.
FilterTruthful ==
  Settled => \A i \in DOMAIN items : Followed(items[i].path) => (i \in hidden <=> ~Matches(filter, disk[items[i].path]))

\* The dialog deletes or renames the active configuration only if others made it active, or moved the list,
\* after its buttons were set (updateButtonStates: "Can't delete active config").
ActiveKept ==
  [][(DeleteYes \/ \E p \in DPath : RenameTo(p)) =>
       (managedActive = 0 \/ managed[managedActive] # box.path \/ moved \/ stale)]_dialogVars

\* Set Active makes the selected configuration the active one, unless others changed the list since.
SetActiveMeant == [][(SetActive /\ ~stale /\ managedActive' # managedActive) => managed[managedActive'] = items[sel].path]_dialogVars

\* Refuted: the buttons are not updated when others act, nor is the box closed.
ActiveAlwaysKept ==
  [][(DeleteYes \/ \E p \in DPath : RenameTo(p)) => (managedActive = 0 \/ managed[managedActive] # box.path)]_dialogVars

\* Refuted: a file that is deleted and made again is not watched any more.
IconsFollow == Settled => \A i \in DOMAIN items : Exists(items[i].path) => items[i].icon = disk[items[i].path]
=============================================================================
