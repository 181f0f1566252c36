CONSTANTS
  s16 = s16
  u8 = u8
  s8 = s8
  v1 = v1
  v2 = v2
  Formats = {s16, u8, s8}
  PaFormat <- Recorded
  DefaultFormat = s16
  RingCap = 2
  EnableAudio = TRUE
  MaxChunks = 5
  MaxOrders = 6
  Viewers = {v1, v2}
  Texts = {"a", "b"}
  MaxCopies = 3
  WantAudio = TRUE
  MaxRectsOf = 2
  MaxServed = 3
  MaxConnects = 2
  Height = 3
  MaxFrames = 4
SPECIFICATION EndsSpec
INVARIANTS TypesOK LatestSamples OneCapture ClipboardsAgree HandledExact
INVARIANTS WholePicture
PROPERTIES HeardRight PollGoesOn
CHECK_DEADLOCK FALSE
