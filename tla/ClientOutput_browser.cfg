SPECIFICATION OutputSpec
CONSTANTS
  WebSockets = {TRUE}
  Takes = {TRUE}
  InitSize = 2
  Slack = 1
  RectLens = {1, 2}
  MaxRects = 2
  MaxUnits = 7
  MaxCursors = 1
  FrameLens = {1}
  ExtLens = {0}
  MaskLens = {1}
  SizeWord = 16
  MaxFrames = 1
  ReadBuf = 6
INVARIANT FramesInStep
CHECK_DEADLOCK FALSE
