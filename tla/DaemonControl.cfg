SPECIFICATION FairSpec
\* Every client runs one command, and nobody has to start or quit the daemon.
CHECK_DEADLOCK FALSE
CONSTANTS
  Client = {"first", "second"}
  Path = {"abs", "rel"}
  NoPath = NoPath
  Absolute = {"abs"}
  Broken = {}
  SlowStart = FALSE
  NoClient = NoClient
  Changer = {"first"}
PROPERTIES
  DaemonHonest
  DaemonEnds
