SPECIFICATION ChannelsSpec
CONSTANTS
  WebSockets = {TRUE, FALSE}
  Takes = {FALSE}
  InitSize = 2
  Slack = 1
  RectLens = {1, 2}
  MaxRects = 2
  MaxUnits = 7
  MaxCursors = 1
  FrameLens = {0, 1, 4}
  ExtLens = {0, 2}
  MaskLens = {0, 1}
  SizeWord = 16
  MaxFrames = 2
  ReadBuf = 7
  W = 4
  Counters = {0, 1, 2, 3, 4, 5, 6, 7}
INVARIANTS TypesOK LatestCursor InboundExact WindowExact
PROPERTIES ImplementsStream ImplementsReplayOnce
CHECK_DEADLOCK FALSE
