SPECIFICATION Spec
CONSTANTS
  Key = {"Caps", "A", "X", "F9"}
  HasEvdev = {"Caps", "A", "X", "F9"}
  Mod = {"M00"}
  Config = {"main", "other"}
  Restored = NoSetting
  Trigger <- CapsInMain
  Mappings <- Layered
  MayDisable = TRUE
  NoKey = NoKey
  NoSetting = NoSetting
  Keyboard <- AllButF9
  TapAction <- TapX
  EvdevToYamy <- Retranslate
  HoldThreshold = 2
  MaximumHold = 3
  Lag = 1
PROPERTIES
  TranslationMeant
