-------------------------------- MODULE SettingsMC --------------------------------
(***************************************************************************)
(* The parts of the settings library for TLC.  They share no state, so a    *)
(* behaviour exercises one of them, chosen at the beginning, and the state  *)
(* spaces add up instead of multiplying.                                    *)
(***************************************************************************)
EXTENDS ConfigManager, ConfigArchive, JsonLoader, ConfigMetadata

VARIABLE part

settingsVars == <<part, managerVars, backupVars, archiveVars, loaderVars, metadataVars>>

SettingsInit ==
  /\ part \in {"manager", "backup", "archive", "loader", "metadata"}
  /\ file = [p \in Config |-> IF p = "b" THEN 0 ELSE 1]
  /\ includes \in IF part = "archive" THEN IncludeGraph ELSE {CHOOSE g \in IncludeGraph : TRUE}
  /\ doc \in IF part = "loader" THEN Document ELSE {CHOOSE d \in Document : TRUE}
  /\ ManagerInit /\ BackupInit /\ ArchiveInit /\ LoaderInit /\ MetadataInit

SettingsNext ==
  /\ UNCHANGED part
  /\ \/ part = "manager" /\ ManagerNext /\ UNCHANGED <<backupVars, archiveVars, loaderVars, metadataVars>>
     \/ part = "backup" /\ BackupNext /\ UNCHANGED <<managerVars, archiveVars, loaderVars, metadataVars>>
     \/ part = "archive" /\ ArchiveNext /\ UNCHANGED <<managerVars, backupVars, loaderVars, metadataVars>>
     \/ part = "loader" /\ LoaderNext /\ UNCHANGED <<managerVars, backupVars, archiveVars, metadataVars>>
     \/ part = "metadata" /\ MetadataNext /\ UNCHANGED <<managerVars, backupVars, archiveVars, loaderVars>>

SettingsSpec == SettingsInit /\ [][SettingsNext]_settingsVars /\ ManagerFairness

(* ------------------------------ The instances ------------------------------ *)

\* The ways in which three files may include one another, up to the order of the others.
Graphs == {g \in [SourceFile -> SUBSET SourceFile] :
             (\A f \in SourceFile : f \notin g[f]) /\ ("two" \in g["main"] => "one" \in g["main"])}
OwnName == [f \in SourceFile |-> f]
\* Two files outside the main file's directory have the same name.
SameName == [f \in SourceFile |-> IF f = "main" THEN "main" ELSE "one"]

Names    == 1..3
AsIs     == [n \in Names |-> n]
AnyCase  == [n \in Names |-> 1]
OneToOne == {k \in [Names -> {1, 3, 4}] : \A a, b \in Names : k[a] = k[b] => a = b}
Partial  == {[n \in {1, 2} |-> IF n = 1 THEN 1 ELSE BadScan], [n \in {2} |-> 3]}
Mods     == { <<>>, [m \in {0} |-> [trigger |-> 1, tap |-> 2]],
              [m \in {0, 255} |-> [trigger |-> IF m = 0 THEN 3 ELSE 2, tap |-> NoKey]] }
Maps     == { <<>>, <<[from |-> 1, to |-> <<2>>]>>,
              <<[from |-> 2, to |-> <<1, 3>>], [from |-> 3, to |-> <<>>]>>,
              <<[from |-> 2, to |-> <<2>>], [from |-> 1, to |-> <<3, 3>>]>> }
Whole(keys, mods) ==
  [version : {"absent", "2.0", "other"}, syntax : {TRUE}, keyboard : {TRUE}, keys : keys, mods : mods, maps : Maps]
Documents ==
  Whole(OneToOne \cup Partial, Mods) \cup
  {[version |-> "2.0", syntax |-> s, keyboard |-> ~s, keys |-> <<>>, mods |-> <<>>, maps |-> <<>>] : s \in BOOLEAN}
\* Two names for one scan code; two modifiers on one trigger.
Aliases   == Whole({[n \in Names |-> IF n = 3 THEN 3 ELSE 1]}, {<<>>})
OneKey    == Whole(OneToOne, {[m \in {0, 255} |-> [trigger |-> 1, tap |-> NoKey]]})
\* Complete but for the version.
Unversioned == {d \in Whole(OneToOne, {<<>>}) : d.version = "absent" /\ Len(d.maps) = 1}

Texts  == {t \in [1..2 -> Char \ {"bracket"}] : t[2] # "backslash"}
Paths  == {<<"x", "backslash">>, <<"x">>}
Own    == [c \in Described |-> c]

\* What was saved comes back: the backups of a configuration, and its metadata.
SavedRestored == BackupsSafe /\ MetadataRoundTrip
=============================================================================
