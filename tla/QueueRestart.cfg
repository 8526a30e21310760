SPECIFICATION Spec
\* The control thread may stay away, keyboards may fall silent, and the
\* identities for handler threads run out: the system may stop.
CHECK_DEADLOCK FALSE
CONSTANTS
  Reader = {r1, r2}
  Handler = {h1, h2}
  Control = Control
  None = None
  MaxEvents = 2
  EarlyInput = FALSE
  SlowHandler = FALSE
INVARIANTS
  TypeOK
  QueueDiscipline
  EventConservation
PROPERTIES
  ImplementsKeyStream
