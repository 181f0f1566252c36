CONSTANTS
  FragCounts = {1, 2, 3}
  MaxFrags = 2
  MaxInFlight = 2
  MaxEvents = 2
  Tile = 4
  Word = 16
  RectRoom = 2
  Screens <- SmallScreens
  Requests <- SmallRequests
SPECIFICATION PictureSpec
INVARIANTS TypeOK ReadyIsCurrent FramesWhole ShownOverTcp
INVARIANTS ExactlyWanted ClearedWasSent
PROPERTIES CompletedInOrder
CHECK_DEADLOCK FALSE
