SPECIFICATION Spec
CONSTANTS
  Caller = {"server", "gui"}
  Path = {"a", "b"}
  NoPath = NoPath
  Broken = {"b"}
  Fragile = {"a"}
  Missing = {}
  Unmapped = {}
  MaxSettings = 3
  MaxEdits = 1
INVARIANTS
  NoUseAfterFree
