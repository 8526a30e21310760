SPECIFICATION Spec
CONSTANTS
  Caller = {"server", "gui"}
  Path = {"a", "b"}
  NoPath = NoPath
  Broken = {}
  Fragile = {}
  Missing = {}
  Unmapped = {}
  MaxSettings = 4
  MaxEdits = 0
INVARIANTS
  NoDoubleFree
