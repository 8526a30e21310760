SPECIFICATION Spec
CONSTANTS
  Caller = {"server"}
  Path = {"a", "b"}
  NoPath = NoPath
  Broken = {"b"}
  Fragile = {"a"}
  Missing = {"a"}
  Unmapped = {}
  MaxSettings = 4
  MaxEdits = 3
INVARIANTS
  SettingsAccounted
PROPERTIES
  ConfigKept
  CommandsMeant
