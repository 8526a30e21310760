------------------------------- MODULE ConfigArchive ------------------------------
(***************************************************************************)
(* The copies that ConfigManager makes of configuration files.             *)
(*                                                                         *)
(* exportConfig and importConfig: a configuration and all that it includes  *)
(* go into one archive and come out of it in another directory, one file    *)
(* after the other.  Any of them may fail.                                  *)
(*                                                                         *)
(* Backups: numbered by the clock, limited in number, and restored over the *)
(* file.  A file is its content; every file of a directory shares one       *)
(* .backups directory.                                                     *)
(***************************************************************************)
EXTENDS Naturals, FiniteSets, Sequences, SequencesExt

(* ------------------------------ Export and import ------------------------------ *)

CONSTANTS
  SourceFile,  \* files, by their canonical path; each has a content of its own
  MainFile,    \* the configuration that is exported
  IncludeGraph,\* what each file may include, as far as resolveIncludePath finds it
  ArchiveName, \* relative paths in an archive
  RelativeTo,  \* the relative path of each file: below the main file's directory, or
               \* the file name alone if it lies elsewhere
  Escaping,    \* relative paths with ".." or a leading slash
  MaxFiles     \* 1000 in the code

ASSUME ArchiveAssumption ==
  /\ IsFiniteSet(SourceFile) /\ MainFile \in SourceFile /\ Escaping \subseteq ArchiveName /\ MaxFiles \in Nat
  /\ IncludeGraph \subseteq [SourceFile -> SUBSET SourceFile]
  /\ RelativeTo \in [SourceFile -> ArchiveName]

VARIABLES
  includes,  \* what each file includes
  archive,   \* the file: its header's count and the entries that were written
  target,    \* the files in the target directory: what was there, an entry's content or less
  importing, \* "idle", "extracting", "imported", "refused"
  position,  \* entries that are extracted
  overwrite, \* the parameter
  before,    \* history: target when the import began
  ioError,   \* history: did the system refuse to open a file?
  cut,       \* history: did the system write less of a file than it was given?
  listed     \* names that the import has added to the list of configurations

archiveVars == <<includes, archive, target, importing, position, overwrite, before, ioError, cut, listed>>

NoFile    == "no file"
OldFile   == "old file"
CutFile   == "cut file"
NoArchive == [count |-> 0, entries |-> <<>>, valid |-> FALSE]

\* findDependencies: with `visited' a file is looked into once.  n rounds of it.
Reached[n \in 0..Cardinality(SourceFile)] ==
  IF n = 0 THEN {}
  ELSE Reached[n - 1] \cup UNION {includes[f] : f \in Reached[n - 1] \cup {MainFile}}

Dependencies == Reached[Cardinality(SourceFile)] \cup {MainFile}

ArchiveInit ==
  /\ includes \in IncludeGraph
  /\ archive = NoArchive /\ target = [a \in ArchiveName |-> NoFile]
  /\ importing = "idle" /\ position = 0 /\ overwrite = FALSE
  /\ before = target /\ ioError = FALSE /\ cut = FALSE /\ listed = {}

\* exportConfig; after an error the file stays as far as it was written.
ExportConfig(written) ==
  /\ importing # "extracting" /\ written <= Cardinality(Dependencies)
  /\ LET order == SetToSeq(Dependencies)
     IN archive' = [count   |-> Len(order), valid |-> TRUE,
                    entries |-> [i \in 1..written |-> [name |-> RelativeTo[order[i]], content |-> order[i]]]]
  /\ importing' = "idle" /\ listed' = {} /\ ioError' = FALSE /\ cut' = FALSE
  /\ UNCHANGED <<target, position, overwrite, before>>

\* readArchiveEntry.
Readable(a, i) == i \in DOMAIN a.entries

\* validateArchive.
Valid(a) ==
  /\ a.valid
  /\ \A i \in 1..a.count : Readable(a, i) /\ a.entries[i].name \notin Escaping

\* importConfig up to the extraction: the header, the count and, unless files may be
\* overwritten, a first pass over the entries.
StartImport(over) ==
  /\ importing # "extracting" /\ archive # NoArchive
  /\ overwrite' = over /\ position' = 0 /\ before' = target /\ ioError' = FALSE /\ cut' = FALSE /\ listed' = {}
  /\ importing' = IF /\ archive.valid /\ archive.count <= MaxFiles
                     /\ over \/ \A i \in 1..archive.count :
                                  Readable(archive, i) /\ target[archive.entries[i].name] = NoFile
                  THEN "extracting" ELSE "refused"
  /\ UNCHANGED <<archive, target>>

\* What the system does with a file that is to be written.
Outcome == {"written", "cut", "refused"}

\* Mutant: a file that cannot be written is passed over.
ExtractContinues(outcome) ==
  /\ importing = "extracting" /\ position < archive.count
  /\ LET i == position + 1
         entry == archive.entries[i]
     IN IF Readable(archive, i) /\ entry.name \notin Escaping
        THEN /\ target' = IF outcome = "refused" THEN target
                          ELSE [target EXCEPT ![entry.name] = IF outcome = "cut" THEN CutFile ELSE entry.content]
             /\ cut' = (cut \/ outcome = "cut") /\ position' = i /\ UNCHANGED <<importing, ioError>>
        ELSE importing' = "refused" /\ ioError' = (outcome = "refused") /\ UNCHANGED <<target, position, cut>>
  /\ UNCHANGED <<archive, overwrite, before, listed>>

\* One file is written, or the import ends with an error; what it has written stays.
\* Only the opening is checked: write and close may fail unnoticed.
Extract(outcome) ==
  /\ importing = "extracting" /\ position < archive.count
  /\ LET i == position + 1
         entry == archive.entries[i]
     IN IF Readable(archive, i) /\ entry.name \notin Escaping /\ outcome # "refused"
        THEN /\ target' = [target EXCEPT ![entry.name] = IF outcome = "cut" THEN CutFile ELSE entry.content]
             /\ cut' = (cut \/ outcome = "cut") /\ position' = i /\ UNCHANGED <<importing, ioError>>
        ELSE importing' = "refused" /\ ioError' = (outcome = "refused") /\ UNCHANGED <<target, position, cut>>
  /\ UNCHANGED <<archive, overwrite, before, listed>>

\* All files are there; they are listed and the list is saved.
FinishImport ==
  /\ importing = "extracting" /\ position = archive.count
  /\ importing' = "imported" /\ listed' = {archive.entries[i].name : i \in DOMAIN archive.entries}
  /\ UNCHANGED <<archive, target, position, overwrite, before, ioError, cut>>

\* Somebody puts a file into the target directory, or clears it, between imports.
UseTarget ==
  /\ importing \in {"idle", "imported", "refused"}
  /\ \/ \E a \in ArchiveName : target[a] = NoFile /\ target' = [target EXCEPT ![a] = OldFile]
     \/ target' = [a \in ArchiveName |-> NoFile]
  /\ importing' = "idle" /\ listed' = {} /\ ioError' = FALSE /\ cut' = FALSE
  /\ UNCHANGED <<archive, position, overwrite, before>>

ArchiveNext ==
  /\ UNCHANGED includes
  /\ \/ \E written \in 0..Cardinality(SourceFile) : ExportConfig(written)
     \/ \E over \in BOOLEAN : StartImport(over)
     \/ \E outcome \in Outcome : Extract(outcome)
     \/ FinishImport \/ UseTarget

ArchiveSpec == ArchiveInit /\ [][ArchiveNext]_archiveVars

(* -------------------------------- Properties ------------------------------- *)

\* What a file includes, directly or not, is exported with it: nothing that an
\* exported file includes stays behind, and nothing else comes along.
ExportClosed ==
  importing = "idle" /\ archive # NoArchive /\ archive.count = Len(archive.entries) =>
    LET exported == {archive.entries[i].content : i \in DOMAIN archive.entries}
        Closed(s) == MainFile \in s /\ \A f \in s : includes[f] \subseteq s
    IN Closed(exported) /\ \A s \in SUBSET SourceFile : Closed(s) => exported \subseteq s

\* An import that reports success has brought every exported file, with its content,
\* unless the system wrote less of a file than it was given: the code does not look.
ImportFaithful ==
  importing = "imported" /\ ~cut => \A f \in Dependencies : target[RelativeTo[f]] = f

\* Refuted: an import that reports success has brought every exported file.
ImportWhole == importing = "imported" => \A f \in Dependencies : target[RelativeTo[f]] = f

\* Without leave to overwrite, an import changes no file that was there.
NoClobber ==
  importing \in {"extracting", "imported", "refused"} /\ ~overwrite =>
    \A a \in ArchiveName : before[a] # NoFile => target[a] = before[a]

\* Whatever stops an import, no file is listed before all of them are there.
ListedWhole == listed # {} => importing = "imported"

\* An archive that validateArchive accepts can be imported: only the system stops it,
\* or a file that is in the way.
ValidImports ==
  importing = "refused" /\ overwrite /\ Valid(archive) => ioError

\* An export has all that the configuration includes, an import is whole or reports
\* failure, and validation promises what the import keeps.
ArchiveSound == ExportClosed /\ ImportFaithful /\ NoClobber /\ ListedWhole /\ ValidImports

(* ----------------------------------- Backups ----------------------------------- *)

CONSTANTS
  Stem,        \* names of configuration files in one directory
  SuffixOf,    \* pairs <<s, t>>: the name s is a proper suffix of the name t
  MaxBackups,  \* MAX_BACKUPS_PER_CONFIG, 10 in the code
  Clock,       \* bound: milliseconds that go by
  SameInstant  \* may two operations fall into one millisecond?

ASSUME BackupAssumption ==
  /\ SuffixOf \subseteq Stem \X Stem /\ MaxBackups \in Nat \ {0} /\ Clock \in Nat
  /\ SameInstant \in BOOLEAN

VARIABLES
  content,  \* of each file: 0 none, otherwise the edit that it comes from
  backups,  \* the files in .backups: name (stem and time), order of writing, content
  now,      \* the clock
  writes,   \* how many files were written, which orders their modification times
  last      \* history: the operation that was the last to return, and its result

backupVars == <<content, backups, now, writes, last>>

None == [op |-> "none", stem |-> "none", wanted |-> 0, ok |-> FALSE]
BackupInit ==
  /\ content = [s \in Stem |-> 1] /\ backups = {} /\ now = 0 /\ writes = 1 /\ last = None

Tick == IF SameInstant THEN now' \in {now, now + 1} ELSE now' = now + 1

\* copy_file to stem_TIMESTAMP.mayu.bak, over a file of that name.
Copied(bs, s, t) ==
  {b \in bs : ~(b.stem = s /\ b.time = t)} \cup {[stem |-> s, time |-> t, seq |-> writes + 1, content |-> content[s]]}

\* The backups that listBackups and enforceBackupLimit take for those of s: the
\* regular expression is not anchored at its beginning.
Matches(bs, s) == {b \in bs : b.stem = s \/ <<s, b.stem>> \in SuffixOf}

\* enforceBackupLimit: the oldest go.
Limited(bs, s) ==
  bs \ {b \in Matches(bs, s) : Cardinality({c \in Matches(bs, s) : c.seq > b.seq}) >= MaxBackups}

\* createBackup, which may fail without a file.
CreateBackup(s, ok) ==
  /\ content[s] # 0 /\ Tick
  /\ backups' = IF ok THEN Limited(Copied(backups, s, now'), s) ELSE backups
  /\ writes' = IF ok THEN writes + 1 ELSE writes
  /\ last' = [op |-> "create", stem |-> s, wanted |-> content[s], ok |-> ok]
  /\ UNCHANGED content

\* Mutant: the limit is enforced before the backup is read.
RestoreBackupLimitFirst(b, ok) ==
  /\ b \in backups /\ Tick
  /\ LET bs   == Limited(IF content[b.stem] = 0 THEN backups ELSE Copied(backups, b.stem, now'), b.stem)
         read == {c \in bs : c.stem = b.stem /\ c.time = b.time}
     IN /\ content' = [content EXCEPT ![b.stem] = IF ok /\ read # {} THEN (CHOOSE c \in read : TRUE).content ELSE @]
        /\ backups' = bs
        /\ last' = [op |-> "restore", stem |-> b.stem, wanted |-> b.content, ok |-> ok]
  /\ writes' = writes + 1

\* restoreBackup: the present file is copied first, then the backup is copied over it;
\* that may fail halfway, and then the limit is not enforced.
RestoreBackup(b, ok) ==
  /\ b \in backups /\ Tick
  /\ LET bs   == IF content[b.stem] = 0 THEN backups ELSE Copied(backups, b.stem, now')
         read == CHOOSE c \in bs : c.stem = b.stem /\ c.time = b.time
     IN /\ content' = [content EXCEPT ![b.stem] = IF ok THEN read.content ELSE 0]
        /\ backups' = IF ok THEN Limited(bs, b.stem) ELSE bs
        /\ last' = [op |-> "restore", stem |-> b.stem, wanted |-> b.content, ok |-> ok]
  /\ writes' = writes + 1

DeleteBackup(b) ==
  /\ b \in backups /\ Tick
  /\ backups' = backups \ {b} /\ last' = None
  /\ UNCHANGED <<content, writes>>

\* The user edits a file.
Edit(s) ==
  /\ Tick
  /\ content' = [content EXCEPT ![s] = writes + 1] /\ writes' = writes + 1 /\ last' = None
  /\ UNCHANGED backups

BackupNext ==
  /\ now < Clock
  /\ \/ \E s \in Stem, ok \in BOOLEAN : CreateBackup(s, ok)
     \/ \E b \in backups, ok \in BOOLEAN : RestoreBackup(b, ok)
     \/ \E b \in backups : DeleteBackup(b)
     \/ \E s \in Stem : Edit(s)

BackupSpec == BackupInit /\ [][BackupNext]_backupVars

(* -------------------------------- Properties ------------------------------- *)

\* What a restore puts into the file is what the backup held when it was chosen, and
\* a backup that was reported is there.
RestoreExact ==
  /\ last.op = "restore" /\ last.ok => content[last.stem] = last.wanted
  /\ last.op = "create" /\ last.ok =>
       \E b \in backups : b.stem = last.stem /\ b.content = last.wanted

\* A restore can be undone, also one that fails halfway: what was in the file is
\* kept as a backup.
RestoreUndoable ==
  [][\A s \in Stem : last'.op = "restore" /\ last'.stem = s /\ content[s] # 0 /\ content'[s] # content[s] =>
       \E b \in backups' : b.stem = s /\ b.content = content[s]]_backupVars

\* No file keeps more backups than the limit, once an operation has gone well.
WithinLimit == last.ok => Cardinality({b \in backups : b.stem = last.stem}) <= MaxBackups

\* The limit of one file is none of the business of the others.
PrunesOwn ==
  [][\A b \in backups \ backups' : last'.op # "none" => b.stem = last'.stem]_backupVars

\* Backups restore what they saved, can be undone, and are limited file by file.
BackupsSafe == [](RestoreExact /\ WithinLimit) /\ RestoreUndoable /\ PrunesOwn
=============================================================================
