SPECIFICATION SettingsSpec
\* Edits, the clock and the days are bounded, and a document is loaded once.
CHECK_DEADLOCK FALSE
CONSTANTS
  Config = {"a", "b"}
  NoConfig = "none"
  Scanned = {"b"}
  MaxEdits = 3
  AutoReload = {TRUE}
  Cycling = TRUE
  Stem = {"vim", "other"}
  SuffixOf = {}
  MaxBackups = 2
  Clock = 5
  SameInstant = FALSE
  SourceFile = {"main", "one", "two"}
  MainFile = "main"
  IncludeGraph <- Graphs
  ArchiveName = {"main", "one", "two"}
  RelativeTo <- OwnName
  Escaping = {}
  MaxFiles = 3
  KeyName <- Names
  Fold <- AsIs
  BadScan = BadScan
  NoKey = NoKey
  HashSize = 2
  Document <- Documents
  Described = {"a"}
  MetaFile <- Own
  Text <- Texts
  Days = 2
INVARIANTS
  ManagerSound
  ArchiveSound
  KeysResolved
PROPERTIES
  ManagerFollows
  SavedRestored
