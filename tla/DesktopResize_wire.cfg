CONSTANTS
  c1 = c1
  c2 = c2
  Clients = {c1}
  Modes <- RealModes
  Mode0 <- FullHd
  Windows <- RealWindows
  Byte = 256
  AllowResize = TRUE
  MaxDrags = 2
SPECIFICATION Spec
INVARIANTS StreamInStep
CHECK_DEADLOCK FALSE
