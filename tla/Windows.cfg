SPECIFICATION WindowsSpec
\* Keys, messages, moves and runs are bounded.
CHECK_DEADLOCK FALSE
CONSTANTS
  Kbd = {"k1"}
  NoKbd = "none"
  QueSize = 2
  MaxKeys = 2
  MaxForced = 1
  MaxOpens = 1
  SMP = FALSE
  Datum = {0, 1}
  Size = 3
  MaxBlock = 4
  EscapeNlsKeys = TRUE
  AnyTime = FALSE
  MaxEvents = 2
  MaxInputs = 2
  MaxInstalls = 1
  Proc = {"a", "b"}
  Nobody = "nobody"
  NoSlot = {}
  NoMap = {}
  Hung = {"b"}
  MaxRuns = 2
  MaxMoves = 4
INVARIANTS
  TasktraySafe
  HooksSafe
  DllSafe
PROPERTIES
  DetourSafe
  KqCorrect
  WindowsLive
