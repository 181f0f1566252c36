CONSTANTS
  c1 = c1
  c2 = c2
  Clients = {c1, c2}
  Tile = 1
  Word = 8
  RectRoom = 1
  Sizes <- DotAndWide
  Size0 <- Wide
  Values = {"black", "white"}
  Black = "black"
  MaxDrawings = 2
  MaxResizes = 1
  MaxUnread = 3
  Side = 3
  Shapes <- TileShapes
  Colours = {"black", "white", "red", "blue"}
  MaxColours = 3
  MaxSubrects = 2
  PixelBytes = 4
  StartBg = "white"
  StartFg = "black"
  MaxAhead = 1
SPECIFICATION UpdatesSpec
INVARIANTS TypesOK NoLostUpdate SizeKnown
INVARIANTS ShownAsDrawn FitsReserved
PROPERTIES Converges
CHECK_DEADLOCK FALSE
