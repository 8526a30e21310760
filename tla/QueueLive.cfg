SPECIFICATION FairInputSpec
\* The control thread may stay away, keyboards may fall silent, and the
\* identities for handler threads run out: the system may stop.
CHECK_DEADLOCK FALSE
CONSTANTS
  Reader = {r1, r2}
  Handler = {h1}
  Control = Control
  None = None
  MaxEvents = 2
  EarlyInput = FALSE
  SlowHandler = TRUE
PROPERTIES
  QueueProgress
