SPECIFICATION FairSpec
CONSTANTS
  Key = {"Caps", "Tab", "A", "X", "Up"}
  HasEvdev = {"Caps", "Tab", "A", "X", "Up"}
  Mod = {"M00", "M01"}
  Config = {"main"}
  Restored = "main"
  Trigger <- CapsTab
  Mappings <- Plain
  MayDisable = FALSE
  NoKey = NoKey
  NoSetting = NoSetting
  Keyboard <- AllKeys
  TapAction <- TapX
  EvdevToYamy <- Retranslate
  HoldThreshold = 2
  MaximumHold = 3
  Lag = 1
INVARIANTS
  TypeOK
  ModifiersFollow
  KeysBalanced
PROPERTIES
  ImplementsHoldTap
  WaitingEnds
