CONSTANTS
  c1 = c1
  c2 = c2
  Clients = {c1, c2}
  Modes <- ThreeModes
  Mode0 <- Portrait
  Windows <- Dragged
  Byte = 8
  AllowResize = TRUE
  MaxDrags = 2
  MaxSessions = 2
  MaxCloses = 1
SPECIFICATION ViewerSpec
INVARIANTS TypesOK SizeOnItsWay NoUseAfterFree ClosedOnce
PROPERTIES Settles BackToMain
CHECK_DEADLOCK FALSE
