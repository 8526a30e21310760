SPECIFICATION ServicesSpec
\* Entries, clicks, moves and hooks are bounded.
CHECK_DEADLOCK FALSE
CONSTANTS
  Exercised = {"history", "preferences", "dialog", "log", "investigate", "keys", "devices", "cache", "tree", "list"}
  Notice = {"x", "y"}
  Sizes = {0, 2, 3}
  kSizeLimit = 2
  MaxNotices = 4
  Supported = {"s"}
  Unsupported = {"u"}
  Configs = {"c"}
  KeymapFiles = {}
  MaxPrefSteps = 2
  DPath = {"a", "b", "c"}
  Opened <- TwoPaths
  Edits = {"b"}
  EditKinds = {"write", "replace", "delete", "create"}
  MaxUserSteps = 2
  MaxOtherSteps = 1
  Levels = {0, 1}
  Limits = {1, 3}
  TrimDivisor = 1
  MaxEntries = 4
  MaxClicks = 2
  Win = {"w", "v"}
  Nameless = {}
  MaxPicks = 3
  MaxKeys = 1
  MaxMishaps = 1
  InKeys <- Kb104
  Configured <- Layout102
  RuleCodes <- TwoCodes
  Deltas <- SmallDeltas
  Overrides = {"", "us", "jp"}
  MaxHeld = 1
  MaxKeySteps = 2
  Device = {"kbd", "usb", "own", "mouse"}
  KeyBits <- Bits
  Skipped <- SkippedByName
  MaxPlugs = 2
  MaxHooks = 2
  XWin = {"w", "v", "x"}
  Asker = {"t", "u"}
  AsksAbout <- OneForU
  Renamed = {"w"}
  kCacheTimeout = 1
  FetchTime = 1
  kMaxCacheEntries = 2
  MaxTitles = 1
  MaxTicks = 3
  TreeWin = {"w", "v", "x"}
  Monitor = {1, 2}
  kMaxDepth = 2
  MaxMoves = 3
  Row <- ThreeRows
  kMaxEntries = 3
  MaxListSteps = 5
  MaxKills = 1
INVARIANTS
  ViewersFaithful
  KeysThrough
PROPERTIES
  DialogsHonest
  PreferencesKept
  ListKept
  WindowsFound
