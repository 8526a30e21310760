SPECIFICATION DesktopSpec
\* Clicks, messages, loads, crashes and commands are bounded.
CHECK_DEADLOCK FALSE
CONSTANTS
  Exercised = {"gui", "tray", "crash", "plugins", "commands", "metrics"}
  Gui = {"g"}
  Path = {"a"}
  kMaxAttempts = 3
  Eager = FALSE
  MaxCommands = 3
  MaxDeaths = 1
  TrayConfig = {"a", "b"}
  kMaxDisplayed = 1
  ChangesWhileOpen = FALSE
  MaxEngineSteps = 2
  MaxTraySteps = 2
  CThread = {"t", "u"}
  Sig = {"segv", "abrt"}
  MaxCrashes = 2
  PluginFile = {"f1", "f2", "f3"}
  NameOf <- TwoNames
  Reentrant = {}
  Speaker = {"t"}
  MaxMessages = 1
  MaxLoads = 3
  Program = {"p", "q"}
  LateNotice = FALSE
  Threaded = {TRUE}
  MaxSettings_ = 3
  MaxCommands_ = 3
  Operation = {"key"}
  Duration = {0, 1, 5}
  BUFFER_SIZE = 3
  Starter = {"t"}
  Overlap = FALSE
  MaxRecords = 4
  MaxStarts = 3
INVARIANTS
  GuiSafe
  MetricsSafe
PROPERTIES
  TraySafe
  CrashSafe
  ExtensionsSafe
  DesktopLive
