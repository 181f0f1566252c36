CONSTANTS
  MaxSessions = 1
  MaxCloses = 1
SPECIFICATION ThreadsSpec
INVARIANTS AudioSafe
CHECK_DEADLOCK FALSE
