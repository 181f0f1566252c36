-------------------------- MODULE DirtyTilesProofs --------------------------
(***************************************************************************)
(* The framebuffer and its copies at the peers, for desktops of any sizes, *)
(* any number of clients and any side of a tile: every client is told the  *)
(* size before it is sent pixels, and what a peer will not show as it is   *)
(* stays dirty.  The second rests on the geometry of an update: the        *)
(* rectangles made of runs of tiles and merged downwards cover the tiles   *)
(* whose flags are cleared for them.  And where the words in which they    *)
(* are computed do not wrap they are exactly what was asked for and is     *)
(* dirty, nothing twice.                                                   *)
(***************************************************************************)
EXTENDS DirtyTiles, UpdateCases, SteppingProofs, FiniteSetTheorems, TLAPS

-----------------------------------------------------------------------------
(* Pixels and tiles in one dimension. *)

LEMMA DivParts ==
  ASSUME NEW n \in Int
  PROVE  /\ n \div Tile \in Int
         /\ Tile * (n \div Tile) <= n
         /\ n < Tile * (n \div Tile) + Tile
BY TileAssumption

LEMMA TileSteps ==
  ASSUME NEW a \in Int, NEW b \in Int
  PROVE  /\ a < b => Tile * a + Tile <= Tile * b
         /\ a <= b => Tile * a <= Tile * b
         /\ Tile * a \in Int /\ Tile \in Nat \ {0}
         /\ a * Tile = Tile * a /\ Tile * (a + 1) = Tile * a + Tile
BY TileAssumption

LEMMA DivAbove ==
  ASSUME NEW n \in Int, NEW a \in Int
  PROVE  n \div Tile >= a <=> n >= Tile * a
<1> DEFINE d == n \div Tile
<1>1. d \in Int /\ Tile * d <= n /\ n < Tile * d + Tile
  BY DivParts
<1> HIDE DEF d
<1>2. Tile * d \in Int /\ Tile * a \in Int /\ Tile \in Nat
  BY <1>1, TileSteps
<1>3. a <= d => Tile * a <= Tile * d
  BY <1>1, TileSteps
<1>4. d < a => Tile * d + Tile <= Tile * a
  BY <1>1, TileSteps
<1>5. d >= a <=> n >= Tile * a
  BY <1>1, <1>2, <1>3, <1>4
<1>6. QED
  BY <1>5 DEF d

LEMMA DivMono ==
  ASSUME NEW n \in Int, NEW m \in Int, n <= m
  PROVE  n \div Tile <= m \div Tile
<1>1. n \div Tile \in Int /\ m \div Tile \in Int
  BY DivParts
<1>2. Tile * (n \div Tile) <= n /\ Tile * (n \div Tile) \in Int
  BY <1>1, DivParts, TileSteps
<1>3. m >= Tile * (n \div Tile)
  BY <1>2
<1>4. m \div Tile >= n \div Tile
  BY <1>1, <1>3, DivAbove
<1>5. QED
  BY <1>1, <1>4

\* Tiles of a line of n pixels.
LEMMA TileInLine ==
  ASSUME NEW n \in Nat, NEW i \in 0..n - 1
  PROVE  i \div Tile \in 0..((n + Tile - 1) \div Tile) - 1
<1> DEFINE d == i \div Tile
<1>1. d \in Int /\ Tile * d <= i /\ Tile \in Nat \ {0}
  BY DivParts, TileAssumption
<1>2. d >= 0
  <2>1. Tile * 0 = 0
    BY <1>1
  <2>2. QED
    BY <2>1, DivAbove
<1>3. Tile * (d + 1) = Tile * d + Tile /\ Tile * d \in Int
  BY <1>1, TileSteps
<1>4. n + Tile - 1 >= Tile * (d + 1)
  BY <1>1, <1>3
<1>5. (n + Tile - 1) \div Tile >= d + 1
  <2> DEFINE m == n + Tile - 1
  <2>1. m \in Int /\ d + 1 \in Int /\ m >= Tile * (d + 1)
    BY <1>1, <1>4
  <2> HIDE DEF m, d
  <2>2. m \div Tile >= d + 1
    BY <2>1, DivAbove
  <2>3. QED
    BY <2>2 DEF m
<1>6. (n + Tile - 1) \div Tile \in Int
  BY <1>1, DivParts
<1>7. QED
  BY <1>1, <1>2, <1>5, <1>6

LEMMA TouchedIn ==
  ASSUME NEW a \in Nat, NEW n \in Int, NEW k \in Int
  PROVE  Touched(a, n, k) \subseteq 0..k - 1
<1> DEFINE l == Greatest(a + n - 1, 0)
<1>1. a \div Tile \in Int /\ l \div Tile \in Int
  <2>1. l \in Int
    BY DEF Greatest
  <2> HIDE DEF l
  <2>2. QED
    BY <2>1, DivParts
<1>2. a \div Tile >= 0
  <2>1. Tile * 0 = 0
    BY TileAssumption
  <2>2. QED
    BY <2>1, DivAbove
<1>3. Touched(a, n, k) = a \div Tile .. Least(l \div Tile, k - 1)
  BY DEF Touched
<1> HIDE DEF l
<1>4. QED
  BY <1>1, <1>2, <1>3 DEF Least

\* Every pixel of a line of m that is among n from a is in a tile they touch.
LEMMA PixelTouched ==
  ASSUME NEW a \in Nat, NEW n \in Int, NEW m \in Nat, NEW i \in 0..m - 1,
         i \in a..a + n - 1
  PROVE  i \div Tile \in Touched(a, n, (m + Tile - 1) \div Tile)
<1>1. i \div Tile \in 0..((m + Tile - 1) \div Tile) - 1
  BY TileInLine
<1>2. a \div Tile <= i \div Tile /\ i \div Tile <= (a + n - 1) \div Tile
  BY DivMono
<1>3. /\ a \div Tile \in Int /\ (a + n - 1) \div Tile \in Int /\ i \div Tile \in Int
      /\ (m + Tile - 1) \div Tile \in Int
  BY DivParts, TileAssumption
<1>4. Greatest(a + n - 1, 0) = a + n - 1
  BY DEF Greatest
<1>5. QED
  BY <1>1, <1>2, <1>3, <1>4 DEF Touched, Least

-----------------------------------------------------------------------------
(* The rectangles of an update. *)

Screen == [w : Nat \ {0}, h : Nat \ {0}]
Rect == [x : Nat, y : Nat, w : Int, h : Int]

Solid == {r \in Rect : r.w > 0 /\ r.h > 0}

\* The requests that have a pixel of the screen, and those of which nothing
\* wraps.
Asks(req, s) == req.w > 0 /\ req.h > 0 /\ req.x < s.w /\ req.y < s.h
Plain(req, s) == Asks(req, s) /\ ~TooWide(s)

\* Each edge of a rectangle is one of a tile, or cut by the request or screen.
Edges(r, req, s, a, b, c, d) ==
  /\ r.x = Greatest(Tile * a, req.x)
  /\ r.x + r.w = Least(Least(Tile * b, req.x + req.w), s.w)
  /\ r.y = Greatest(Tile * c, req.y)
  /\ r.y + r.h = Least(Least(Tile * d, req.y + req.h), s.h)

Clipped(req, s) ==
  {r \in Solid : \E a, b, c, d \in Int : Edges(r, req, s, a, b, c, d)}

LEMMA Grids ==
  ASSUME NEW s \in Screen
  PROVE  Cols(s) \in Nat /\ Rows(s) \in Nat
<1>1. s.w \in Nat \ {0} /\ s.h \in Nat \ {0}
  BY DEF Screen
<1>2. 0 \in 0..s.w - 1 /\ 0 \in 0..s.h - 1
  BY <1>1
<1>3. 0 \div Tile \in 0..Cols(s) - 1 /\ 0 \div Tile \in 0..Rows(s) - 1
  BY <1>1, <1>2, TileInLine DEF Cols, Rows
<1>4. Cols(s) \in Int /\ Rows(s) \in Int
  BY <1>1, DivParts, TileAssumption DEF Cols, Rows
<1>5. QED
  BY <1>3, <1>4

LEMMA RunEnds ==
  ASSUME NEW s \in Screen, NEW tiles \in SUBSET Tiles(s), NEW t \in tiles
  PROVE  /\ RunLength(tiles, s, t) \in 1..Cols(s)
         /\ \A k \in 0..RunLength(tiles, s, t) - 1 : <<t[1], t[2] + k>> \in tiles
         /\ <<t[1], t[2] + RunLength(tiles, s, t)>> \notin tiles
<1> DEFINE Run(n) == \A k \in 0..n - 1 : <<t[1], t[2] + k>> \in tiles
           N == Cols(s)
           T == {n \in 1..N : <<t[1], t[2] + n>> \notin tiles}
<1>1. N \in Nat /\ Rows(s) \in Nat
  BY Grids
<1>2. t[1] \in 0..Rows(s) - 1 /\ t[2] \in 0..N - 1 /\ t = <<t[1], t[2]>>
  BY DEF Tiles
<1>3. N \in T
  <2>1. t[2] + N \notin 0..N - 1
    BY <1>1, <1>2
  <2>2. <<t[1], t[2] + N>> \notin tiles
    BY <2>1 DEF Tiles
  <2>3. N \in 1..N
    BY <1>1, <1>2
  <2>4. QED
    BY <2>2, <2>3
<1>4. T \in SUBSET Nat
  BY <1>1
<1>5. PICK m \in T : \A k \in T : m <= k
  <2> HIDE DEF T
  <2>1. QED
    BY <1>3, <1>4, LeastOne
<1>6. m \in 1..N /\ <<t[1], t[2] + m>> \notin tiles
  BY <1>5
<1>7. Run(m)
  <2> SUFFICES ASSUME NEW k \in 0..m - 1 PROVE <<t[1], t[2] + k>> \in tiles
    OBVIOUS
  <2>1. CASE k = 0
    <3>1. t[2] + k = t[2]
      BY <1>1, <1>2, <2>1
    <3>2. QED
      BY <1>2, <3>1
  <2>2. CASE k # 0
    <3>1. k \in 1..N /\ k < m
      BY <1>1, <1>6, <2>2
    <3>2. k \notin T
      <4> HIDE DEF T
      <4>1. ~(m <= k)
        BY <1>6, <3>1
      <4>2. QED
        BY <1>5, <4>1
    <3>3. QED
      BY <3>1, <3>2
  <2>3. QED
    BY <2>1, <2>2
<1>8. ~Run(m + 1)
  <2>1. m \in 0..m + 1 - 1
    BY <1>1, <1>6
  <2>2. QED
    BY <1>6, <2>1
<1> HIDE DEF Run
<1>9. \E n \in 1..N : Run(n) /\ ~Run(n + 1)
  BY <1>6, <1>7, <1>8
<1> DEFINE l == CHOOSE n \in 1..N : Run(n) /\ ~Run(n + 1)
<1>10. l \in 1..N /\ Run(l) /\ ~Run(l + 1)
  BY <1>9
<1>11. l = RunLength(tiles, s, t)
  BY DEF RunLength, Run
<1> HIDE DEF l
<1>12. <<t[1], t[2] + l>> \notin tiles
  <2>1. PICK k \in 0..(l + 1) - 1 : <<t[1], t[2] + k>> \notin tiles
    BY <1>10 DEF Run
  <2>2. k \notin 0..l - 1
    BY <1>10, <2>1 DEF Run
  <2>3. k = l
    BY <1>1, <1>10, <2>1, <2>2
  <2>4. QED
    BY <2>1, <2>3
<1>13. QED
  BY <1>10, <1>11, <1>12 DEF Run

LEMMA RectFields ==
  /\ \A r \in Rect : r.x \in Nat /\ r.y \in Nat /\ r.w \in Int /\ r.h \in Int
  /\ \A s \in Screen : s.w \in Nat \ {0} /\ s.h \in Nat \ {0}
BY DEF Rect, Screen

LEMMA SolidFields ==
  \A r \in Solid : /\ r \in Rect /\ r.x \in Nat /\ r.y \in Nat
                   /\ r.w \in Nat \ {0} /\ r.h \in Nat \ {0}
BY DEF Solid, Rect

\* There is something between the edges of tiles if the first tile is touched.
LEMMA LineNotEmpty ==
  ASSUME NEW a \in Int, NEW b \in Int, NEW q \in Nat, NEW n \in Nat \ {0}, NEW m \in Nat \ {0},
         q < m, a < b, a \in Touched(q, n, (m + Tile - 1) \div Tile)
  PROVE  Greatest(Tile * a, q) < Least(Least(Tile * b, q + n), m)
<1>1. Tile * a \in Int /\ Tile * b \in Int /\ Tile \in Nat \ {0}
      /\ Tile * a + Tile <= Tile * b /\ Tile * (a + 1) = Tile * a + Tile
  BY TileSteps
<1> DEFINE l == q + n - 1
           k == m + Tile - 1
<1>2. l \in Int /\ k \in Int
  BY <1>1
<1> HIDE DEF l, k
<1>3. q \div Tile \in Int /\ l \div Tile \in Int /\ k \div Tile \in Int
  BY <1>2, DivParts
<1>4. q \div Tile <= a /\ a <= l \div Tile /\ a <= k \div Tile - 1
  <2>1. a \in q \div Tile .. Least(l \div Tile, k \div Tile - 1)
    <3>1. Greatest(q + n - 1, 0) = q + n - 1
      BY DEF Greatest
    <3>2. QED
      BY <3>1 DEF Touched, l, k
  <2>2. QED
    BY <1>3, <2>1 DEF Least
<1>5. q < Tile * b
  <2>1. ~(q \div Tile >= b)
    BY <1>3, <1>4
  <2>2. ~(q >= Tile * b)
    BY <2>1, DivAbove
  <2>3. QED
    BY <1>1, <2>2
<1>6. Tile * a < q + n
  <2>1. l >= Tile * a
    BY <1>2, <1>3, <1>4, DivAbove
  <2>2. QED
    BY <1>1, <2>1 DEF l
<1>7. Tile * a < m
  <2>1. k \div Tile >= a + 1
    BY <1>3, <1>4
  <2>2. k >= Tile * (a + 1)
    BY <1>2, <2>1, DivAbove
  <2>3. QED
    BY <1>1, <2>2 DEF k
<1> DEFINE u == Tile * a
           v == Tile * b
<1>8. u \in Int /\ v \in Int /\ u < v /\ q < v /\ u < q + n /\ u < m
  BY <1>1, <1>5, <1>6, <1>7
<1> HIDE DEF u, v
<1>9. Greatest(u, q) < Least(Least(v, q + n), m)
  BY <1>8 DEF Greatest, Least
<1>10. QED
  BY <1>9 DEF u, v

\* The tiles of a request are tiles of the screen.
LEMMA TouchedTiles ==
  ASSUME NEW s \in Screen, NEW req \in Rect
  PROVE  TilesOf(req, s) \subseteq Tiles(s)
<1>1. /\ req.x \in Nat /\ req.y \in Nat /\ req.w \in Int /\ req.h \in Int
      /\ Cols(s) \in Int /\ Rows(s) \in Int
  BY RectFields, Grids
<1>2. /\ Touched(req.y, req.h, Rows(s)) \subseteq 0..Rows(s) - 1
      /\ Touched(req.x, req.w, Cols(s)) \subseteq 0..Cols(s) - 1
  BY <1>1, TouchedIn
<1>3. QED
  BY <1>2 DEF TilesOf, Tiles

\* What is less than a word is kept of it.
LEMMA WrapSmall ==
  ASSUME NEW k \in Nat, k < Word
  PROVE  Wrap(k) = k
BY TileAssumption DEF Wrap

\* If something is left of a run, its length is what was cut at both ends.
LEMMA ExtentExact ==
  \A a, q, len, m \in Int : \A n \in Nat :
    n < Word /\ Greatest(a, q) < Least(Least(a + n, q + len), m)
    => Extent(a, n, q, len, m) = Least(Least(a + n, q + len), m) - Greatest(a, q)
<1> TAKE a, q, len, m \in Int
<1> TAKE n \in Nat
<1> HAVE n < Word /\ Greatest(a, q) < Least(Least(a + n, q + len), m)
<1> DEFINE pos == Greatest(a, q)
           begun == Wrap(n - (pos - a))
           asked == IF pos + begun > q + len THEN Wrap(q + len - pos) ELSE begun
<1>1. /\ pos \in Int /\ a <= pos
      /\ pos < a + n /\ pos < q + len /\ pos < m
  BY DEF Greatest, Least
<1>2. Extent(a, n, q, len, m) = IF pos + asked > m THEN Wrap(m - pos) ELSE asked
  BY DEF Extent
<1> HIDE DEF pos
<1>3. begun = a + n - pos
  <2>1. n - (pos - a) \in Nat /\ n - (pos - a) < Word /\ n - (pos - a) = a + n - pos
    BY <1>1, TileAssumption
  <2>2. QED
    BY <2>1, WrapSmall
<1> HIDE DEF begun
<1>4. asked = Least(a + n, q + len) - pos
  <2>1. CASE pos + begun > q + len
    <3>1. q + len - pos \in Nat /\ q + len - pos < Word
      BY <1>1, <1>3, <2>1, TileAssumption
    <3>2. asked = q + len - pos
      BY <2>1, <3>1, WrapSmall
    <3>3. QED
      BY <1>1, <1>3, <2>1, <3>2 DEF Least
  <2>2. CASE ~(pos + begun > q + len)
    BY <1>1, <1>3, <2>2 DEF Least
  <2>3. QED
    BY <2>1, <2>2
<1>5. asked \in Nat /\ asked <= a + n - pos /\ pos + asked = Least(a + n, q + len)
  BY <1>1, <1>4 DEF Least
<1> HIDE DEF asked
<1>6. CASE pos + asked > m
  <2>1. m - pos \in Nat /\ m - pos < Word
    BY <1>1, <1>5, <1>6, TileAssumption
  <2>2. Extent(a, n, q, len, m) = m - pos
    BY <1>2, <1>6, <2>1, WrapSmall
  <2>3. Least(Least(a + n, q + len), m) = m
    BY <1>5, <1>6 DEF Least
  <2>4. QED
    BY <2>2, <2>3 DEF pos
<1>7. CASE ~(pos + asked > m)
  <2>1. Extent(a, n, q, len, m) = asked
    BY <1>2, <1>7
  <2>2. Least(Least(a + n, q + len), m) = pos + asked
    BY <1>1, <1>5, <1>7 DEF Least
  <2>3. QED
    BY <1>1, <1>5, <2>1, <2>2 DEF pos
<1>8. QED
  BY <1>6, <1>7

\* A run of tiles that a request touches, clipped: from the later of the two
\* left edges to the earliest of the three right ones, and so downwards.
LEMMA ClipIs ==
  ASSUME NEW s \in Screen, NEW req \in Rect, Plain(req, s),
         NEW t \in TilesOf(req, s), NEW n \in 1..Cols(s)
  PROVE  LET x == Greatest(Tile * t[2], req.x)
             xEnd == Least(Least(Tile * (t[2] + n), req.x + req.w), s.w)
             y == Greatest(Tile * t[1], req.y)
             yEnd == Least(Least(Tile * (t[1] + 1), req.y + req.h), s.h)
         IN  /\ Clip(t, n, req, s) = [x |-> x, y |-> y, w |-> xEnd - x, h |-> yEnd - y]
             /\ x < xEnd /\ y < yEnd
<1> DEFINE a == t[2]  b == t[2] + n  c == t[1]  d == t[1] + 1
           x == Greatest(Tile * a, req.x)
           xEnd == Least(Least(Tile * b, req.x + req.w), s.w)
           y == Greatest(Tile * c, req.y)
           yEnd == Least(Least(Tile * d, req.y + req.h), s.h)
<1>1. /\ req.x \in Nat /\ req.y \in Nat /\ req.w \in Nat \ {0} /\ req.h \in Nat \ {0}
      /\ s.w \in Nat \ {0} /\ s.h \in Nat \ {0}
      /\ req.x < s.w /\ req.y < s.h /\ Cols(s) * Tile < Word
  <2>1. Cols(s) * Tile \in Int /\ ~(Cols(s) * Tile >= Word) /\ Word \in Nat
    BY Grids, TileAssumption DEF Plain, TooWide
  <2>2. QED
    BY <2>1, RectFields DEF Plain, Asks
<1>2. Cols(s) \in Nat /\ Rows(s) \in Nat /\ n \in Nat /\ n <= Cols(s)
  BY Grids
<1>3. /\ a \in Touched(req.x, req.w, Cols(s)) /\ c \in Touched(req.y, req.h, Rows(s))
      /\ a \in Int /\ c \in Int
  <2>1. t \in Tiles(s)
    BY TouchedTiles
  <2>2. QED
    BY <1>2, <2>1 DEF TilesOf, Tiles
<1>4. b \in Int /\ d \in Int /\ a < b /\ c < d /\ b = a + n /\ d = c + 1
  BY <1>2, <1>3
<1> HIDE DEF a, b, c, d
<1>5. /\ Tile * a \in Int /\ Tile * b \in Int /\ Tile * c \in Int /\ Tile * d \in Int
      /\ Tile * n \in Nat /\ n * Tile = Tile * n /\ Tile * n < Word
      /\ Tile * b = Tile * a + Tile * n /\ Tile * d = Tile * c + Tile
      /\ a * Tile = Tile * a /\ c * Tile = Tile * c /\ Tile \in Nat /\ Tile < Word
  <2>1. Tile * n <= Tile * Cols(s) /\ Tile * Cols(s) = Cols(s) * Tile
        /\ Tile * n \in Int /\ n * Tile = Tile * n
    BY <1>2, TileSteps
  <2>2. Tile * n >= 0 /\ Tile * b = Tile * a + Tile * n
    BY <1>2, <1>3, <1>4, TileAssumption
  <2>3. /\ Tile * a \in Int /\ Tile * b \in Int /\ Tile * c \in Int /\ Tile * d \in Int
        /\ a * Tile = Tile * a /\ c * Tile = Tile * c /\ Tile * d = Tile * c + Tile
    BY <1>3, <1>4, TileSteps
  <2>4. Word \in Nat /\ Tile \in Nat /\ Tile < Word /\ Cols(s) * Tile \in Int
    BY <1>2, TileAssumption
  <2>5. QED
    BY <1>1, <2>1, <2>2, <2>3, <2>4
<1>6. x < xEnd /\ y < yEnd
  BY <1>1, <1>3, <1>4, LineNotEmpty DEF Cols, Rows
<1>7. Extent(Tile * a, Tile * n, req.x, req.w, s.w) = xEnd - x
  <2> DEFINE u == Tile * a  l == Tile * n  q == req.x  len == req.w  m == s.w
  <2>1. /\ u \in Int /\ l \in Nat /\ l < Word /\ Tile * b = u + l
        /\ q \in Int /\ len \in Int /\ m \in Int
    BY <1>1, <1>5
  <2>2. x = Greatest(u, q) /\ xEnd = Least(Least(u + l, q + len), m)
    BY <2>1
  <2> HIDE DEF u, l, q, len, m, x, y, xEnd, yEnd
  <2>3. Greatest(u, q) < Least(Least(u + l, q + len), m)
    BY <1>6, <2>2
  <2>4. Extent(u, l, q, len, m) = Least(Least(u + l, q + len), m) - Greatest(u, q)
    BY <2>1, <2>3, ExtentExact
  <2>5. QED
    BY <2>2, <2>4 DEF u, l, q, len, m
<1>8. Extent(Tile * c, Tile, req.y, req.h, s.h) = yEnd - y
  <2> DEFINE u == Tile * c  l == Tile  q == req.y  len == req.h  m == s.h
  <2>1. /\ u \in Int /\ l \in Nat /\ l < Word /\ Tile * d = u + l
        /\ q \in Int /\ len \in Int /\ m \in Int
    BY <1>1, <1>5
  <2>2. y = Greatest(u, q) /\ yEnd = Least(Least(u + l, q + len), m)
    BY <2>1
  <2> HIDE DEF u, l, q, len, m, x, y, xEnd, yEnd
  <2>3. Greatest(u, q) < Least(Least(u + l, q + len), m)
    BY <1>6, <2>2
  <2>4. Extent(u, l, q, len, m) = Least(Least(u + l, q + len), m) - Greatest(u, q)
    BY <2>1, <2>3, ExtentExact
  <2>5. QED
    BY <2>2, <2>4 DEF u, l, q, len, m
<1>9. Clip(t, n, req, s) = [x |-> x, y |-> y, w |-> xEnd - x, h |-> yEnd - y]
  BY <1>5, <1>7, <1>8 DEF Clip, a, c
<1>10. QED
  BY <1>6, <1>9 DEF a, b, c, d

LEMMA ClipEdges ==
  ASSUME NEW s \in Screen, NEW req \in Rect, Plain(req, s),
         NEW t \in TilesOf(req, s), NEW n \in 1..Cols(s)
  PROVE  Clip(t, n, req, s) \in Clipped(req, s)
<1> DEFINE a == t[2]  b == t[2] + n  c == t[1]  d == t[1] + 1
           r == Clip(t, n, req, s)
           x == Greatest(Tile * a, req.x)
           xEnd == Least(Least(Tile * b, req.x + req.w), s.w)
           y == Greatest(Tile * c, req.y)
           yEnd == Least(Least(Tile * d, req.y + req.h), s.h)
<1>1. a \in Int /\ b \in Int /\ c \in Int /\ d \in Int
  <2>1. Rows(s) \in Nat /\ Cols(s) \in Nat /\ t \in Tiles(s)
    BY Grids, TouchedTiles
  <2>2. QED
    BY <2>1 DEF Tiles
<1>2. r = [x |-> x, y |-> y, w |-> xEnd - x, h |-> yEnd - y] /\ x < xEnd /\ y < yEnd
  BY ClipIs
<1> HIDE DEF a, b, c, d, r
<1>3. /\ Tile * a \in Int /\ Tile * b \in Int /\ Tile * c \in Int /\ Tile * d \in Int
      /\ req.x \in Nat /\ req.y \in Nat /\ req.w \in Int /\ req.h \in Int
      /\ s.w \in Nat /\ s.h \in Nat
  BY <1>1, TileSteps, RectFields
<1>4. x \in Nat /\ y \in Nat
  BY <1>3 DEF Greatest
<1>5. xEnd \in Int /\ yEnd \in Int
  BY <1>3 DEF Least
<1>6. /\ x + (xEnd - x) = xEnd /\ y + (yEnd - y) = yEnd
      /\ xEnd - x \in Int /\ yEnd - y \in Int /\ xEnd - x > 0 /\ yEnd - y > 0
  <2> HIDE DEF x, y, xEnd, yEnd
  <2>1. QED
    BY <1>2, <1>4, <1>5
<1>7. r \in Solid
  <2> HIDE DEF x, y, xEnd, yEnd
  <2>1. QED
    BY <1>2, <1>4, <1>6 DEF Solid, Rect
<1>8. r.x = x /\ r.y = y /\ r.x + r.w = xEnd /\ r.y + r.h = yEnd
  <2> HIDE DEF x, y, xEnd, yEnd
  <2>1. QED
    BY <1>2, <1>6
<1>9. Edges(r, req, s, a, b, c, d)
  BY <1>8 DEF Edges
<1>10. QED
  BY <1>1, <1>7, <1>9 DEF Clipped, r

\* A run of tiles that a request touches is not clipped away.
LEMMA AddRunIs ==
  ASSUME NEW s \in Screen, NEW req \in Rect, Plain(req, s),
         NEW tiles \in SUBSET TilesOf(req, s)
  PROVE  \A rects, t :
           AddRun(rects, t, tiles, req, s) =
             IF StartsRun(tiles, t) /\ Len(rects) < RectRoom
             THEN Append(rects, Clip(t, RunLength(tiles, s, t), req, s)) ELSE rects
<1> TAKE rects, t
<1>1. CASE StartsRun(tiles, t)
  <2> DEFINE r == Clip(t, RunLength(tiles, s, t), req, s)
  <2>1. t \in tiles /\ t \in TilesOf(req, s) /\ tiles \in SUBSET Tiles(s)
    BY <1>1, TouchedTiles DEF StartsRun
  <2>2. RunLength(tiles, s, t) \in 1..Cols(s)
    BY <2>1, RunEnds
  <2>3. r \in Solid
    BY <2>1, <2>2, ClipEdges DEF Clipped
  <2>4. r.w > 0 /\ r.h > 0
    BY <2>3 DEF Solid
  <2>5. r \in rect_t
    BY <2>3, <2>4 DEF Solid, Rect, rect_t
  <2> DEFINE Kept == [q \in rect_t |-> IF q.w > 0 /\ q.h > 0 THEN Append(rects, q) ELSE rects]
  <2>6. Kept[r] = Append(rects, r)
    BY <2>4, <2>5
  <2>7. AddRun(rects, t, tiles, req, s) =
          IF StartsRun(tiles, t) /\ Len(rects) < RectRoom THEN Kept[r] ELSE rects
    BY Zenon DEF AddRun
  <2> HIDE DEF r, Kept
  <2>8. AddRun(rects, t, tiles, req, s) =
          IF StartsRun(tiles, t) /\ Len(rects) < RectRoom THEN Append(rects, r) ELSE rects
    BY <2>6, <2>7
  <2>9. QED
    BY <2>8 DEF r
<1>2. CASE ~StartsRun(tiles, t)
  BY <1>2 DEF AddRun
<1>3. QED
  BY <1>1, <1>2

LEMMA AddRunClips ==
  ASSUME NEW s \in Screen, NEW req \in Rect, Plain(req, s),
         NEW tiles \in SUBSET TilesOf(req, s), NEW t, NEW rects \in Seq(Clipped(req, s))
  PROVE  AddRun(rects, t, tiles, req, s) \in Seq(Clipped(req, s))
<1>1. CASE StartsRun(tiles, t) /\ Len(rects) < RectRoom
  <2>1. t \in tiles /\ t \in TilesOf(req, s) /\ tiles \in SUBSET Tiles(s)
    BY <1>1, TouchedTiles DEF StartsRun
  <2>2. RunLength(tiles, s, t) \in 1..Cols(s)
    BY <2>1, RunEnds
  <2>3. Clip(t, RunLength(tiles, s, t), req, s) \in Clipped(req, s)
    BY <2>1, <2>2, ClipEdges
  <2>4. AddRun(rects, t, tiles, req, s)
          = Append(rects, Clip(t, RunLength(tiles, s, t), req, s))
    BY <1>1, AddRunIs
  <2>5. QED
    BY <2>3, <2>4
<1>2. CASE ~(StartsRun(tiles, t) /\ Len(rects) < RectRoom)
  BY <1>2 DEF AddRun
<1>3. QED
  BY <1>1, <1>2

\* The rectangles of the runs come one tile after the other: h holds those of
\* the first i tiles, X all there can be.
RunHistory(h, X, tiles, req, s) ==
  /\ h[0] = <<>> /\ RunRects(tiles, req, s) = h[Rows(s) * Cols(s)]
  /\ \A i \in 1..Rows(s) * Cols(s) :
       h[i] = AddRun(h[i - 1], InOrder(i, s), tiles, req, s)
  /\ \A i \in 0..Rows(s) * Cols(s) : h[i] \in X

LEMMA RunSteps ==
  ASSUME NEW s \in Screen, NEW req, NEW tiles, NEW X, <<>> \in X,
         \A q \in X, i \in 1..Rows(s) * Cols(s) :
           AddRun(q, InOrder(i, s), tiles, req, s) \in X
  PROVE  \E h : RunHistory(h, X, tiles, req, s)
<1> DEFINE N == Rows(s) * Cols(s)
           F(f) == [i \in 0..N |-> IF i = 0 THEN <<>> ELSE AddRun(f[i - 1], InOrder(i, s), tiles, req, s)]
           step == [p \in X \X (1..N) |-> AddRun(p[1], InOrder(p[2], s), tiles, req, s)]
<1>1. N \in Nat /\ <<>> \in X
  BY Grids
<1>2. ASSUME NEW q \in X, NEW i \in 1..N PROVE AddRun(q, InOrder(i, s), tiles, req, s) \in X
  OBVIOUS
<1> HIDE DEF N
<1>3. step \in [X \X (1..N) -> X]
  BY <1>2
<1>4. \A q \in X, i \in 1..N : step[<<q, i>>] = AddRun(q, InOrder(i, s), tiles, req, s)
  OBVIOUS
<1> HIDE DEF step
<1>5. PICK g \in [0..N -> X] : Stepped(g, <<>>, step, N)
  BY <1>1, <1>3, Stepwise
<1>6. g = F(g)
  <2>1. ASSUME NEW i \in 0..N PROVE g[i] = F(g)[i]
    <3>1. CASE i = 0
      BY <3>1, <1>5 DEF Stepped
    <3>2. CASE i # 0
      <4>1. i \in 1..N /\ i - 1 \in 0..N
        BY <3>2, <1>1
      <4>2. g[i] = step[<<g[i - 1], i>>] /\ g[i - 1] \in X
        BY <4>1, <1>5 DEF Stepped
      <4>3. QED
        BY <3>2, <4>1, <4>2, <1>4
    <3>3. QED
      BY <3>1, <3>2
  <2>2. QED
    BY <1>5, <2>1
<1> DEFINE h == CHOOSE f : f = F(f)
<1> HIDE DEF F
<1>7. h = F(h)
  BY <1>6
<1> HIDE DEF h
<1> USE DEF F
<1> DEFINE S == {i \in 0..N : h[i] \in X}
<1>8. 0 \in S
  <2>1. 0 \in 0..N /\ F(h)[0] = <<>>
    BY <1>1
  <2>2. QED
    BY <2>1, <1>1, <1>7
<1>9. ASSUME NEW i \in 1..N, i - 1 \in S PROVE i \in S
  <2>1. i \in 0..N /\ i # 0
    BY <1>1
  <2>2. F(h)[i] = AddRun(h[i - 1], InOrder(i, s), tiles, req, s)
    BY <2>1
  <2>3. AddRun(h[i - 1], InOrder(i, s), tiles, req, s) \in X
    BY <1>9, <1>2
  <2>4. h[i] \in X
    BY <2>2, <2>3, <1>7
  <2>5. QED
    BY <2>1, <2>4
<1>10. \A i \in 0..N : h[i] \in X
  <2> HIDE DEF S
  <2>1. \A i \in 0..N : i \in S
    BY <1>1, <1>8, <1>9, UpTo
  <2>2. QED
    BY <2>1 DEF S
<1>11. h[0] = <<>>
  <2>1. 0 \in 0..N /\ F(h)[0] = <<>>
    BY <1>1
  <2>2. QED
    BY <2>1, <1>7
<1>12. ASSUME NEW i \in 1..N PROVE h[i] = AddRun(h[i - 1], InOrder(i, s), tiles, req, s)
  <2>1. i \in 0..N /\ i # 0
    BY <1>1
  <2>2. F(h)[i] = AddRun(h[i - 1], InOrder(i, s), tiles, req, s)
    BY <2>1
  <2>3. QED
    BY <2>2, <1>7
<1>13. RunRects(tiles, req, s) = h[N]
  BY DEF h, N, RunRects
<1>14. RunHistory(h, X, tiles, req, s)
  BY <1>10, <1>11, <1>12, <1>13 DEF N, RunHistory
<1>15. QED
  BY <1>14

LEMMA RunClipSteps ==
  ASSUME NEW s \in Screen, NEW req \in Rect, Plain(req, s),
         NEW tiles \in SUBSET TilesOf(req, s)
  PROVE  \E h : RunHistory(h, Seq(Clipped(req, s)), tiles, req, s)
<1> DEFINE X == Seq(Clipped(req, s))
<1>1. <<>> \in X
  OBVIOUS
<1>2. \A q \in X, i \in 1..Rows(s) * Cols(s) : AddRun(q, InOrder(i, s), tiles, req, s) \in X
  BY AddRunClips
<1> HIDE DEF X
<1>3. \E h : RunHistory(h, X, tiles, req, s)
  BY <1>1, <1>2, RunSteps
<1>4. QED
  BY <1>3 DEF X

LEMMA RunsClip ==
  ASSUME NEW s \in Screen, NEW req \in Rect, Plain(req, s),
         NEW tiles \in SUBSET TilesOf(req, s)
  PROVE  RunRects(tiles, req, s) \in Seq(Clipped(req, s))
<1>1. Rows(s) * Cols(s) \in 0..Rows(s) * Cols(s)
  BY Grids
<1>2. PICK h : RunHistory(h, Seq(Clipped(req, s)), tiles, req, s)
  BY RunClipSteps
<1>3. QED
  BY <1>1, <1>2 DEF RunHistory

LEMMA MergeClips ==
  ASSUME NEW s \in Screen, NEW req \in Rect, NEW done \in Seq(Clipped(req, s)),
         NEW r \in Clipped(req, s)
  PROVE  Merge(done, r) \in Seq(Clipped(req, s))
<1>1. CASE \E i \in DOMAIN done : Continues(done[i], r)
  <2> DEFINE m == [i \in DOMAIN done |->
                     IF Continues(done[i], r) THEN [done[i] EXCEPT !.h = @ + r.h]
                     ELSE done[i]]
  <2>1. Merge(done, r) = m
    BY <1>1 DEF Merge
  <2>2. ASSUME NEW i \in DOMAIN done PROVE m[i] \in Clipped(req, s)
    <3>1. done[i] \in Clipped(req, s)
      OBVIOUS
    <3>2. CASE Continues(done[i], r)
      <4> DEFINE q == done[i]
                 high == q.h + r.h
                 both == [q EXCEPT !.h = high]
      <4>1. PICK a, b, c, d \in Int : Edges(q, req, s, a, b, c, d)
        BY <3>1 DEF Clipped
      <4>2. PICK aa, bb, cc, dd \in Int : Edges(r, req, s, aa, bb, cc, dd)
        BY DEF Clipped
      <4>3. q \in Solid /\ r \in Solid /\ q \in Rect /\ r \in Rect
        BY <3>1 DEF Clipped, Solid
      <4>4. q.x = r.x /\ q.w = r.w /\ q.y + q.h = r.y
        BY <3>2 DEF Continues
      <4> HIDE DEF q
      <4>5. /\ both \in Solid
            /\ both.x = q.x /\ both.w = q.w /\ both.y = q.y
            /\ both.h = high
        <5>1. high \in Int /\ high > 0 /\ q.w > 0
          <6>1. /\ q.h \in Nat \ {0} /\ r.h \in Nat \ {0} /\ q.w \in Nat \ {0}
            BY <4>3, SolidFields
          <6>2. QED
            BY <6>1
        <5> HIDE DEF high
        <5>2. QED
          BY <4>3, <5>1 DEF Rect, Solid
      <4>6. both.y + both.h = r.y + r.h
        <5>1. /\ q.y \in Int /\ q.h \in Int /\ r.h \in Int
          BY <4>3 DEF Rect
        <5> HIDE DEF both
        <5>2. QED
          BY <4>4, <4>5, <5>1
      <4>7. Edges(both, req, s, a, b, c, dd)
        <5> HIDE DEF both
        <5>1. QED
          BY <4>1, <4>2, <4>5, <4>6 DEF Edges
      <4>8. both \in Clipped(req, s)
        BY <4>5, <4>7 DEF Clipped
      <4>9. QED
        BY <3>2, <4>8 DEF q
    <3>3. CASE ~Continues(done[i], r)
      BY <3>1, <3>3
    <3>4. QED
      BY <3>2, <3>3
  <2>3. DOMAIN done = 1..Len(done) /\ Len(done) \in Nat
    OBVIOUS
  <2>4. m \in [1..Len(done) -> Clipped(req, s)]
    BY <2>2, <2>3
  <2>5. QED
    <3> HIDE DEF m
    <3>1. m \in Seq(Clipped(req, s))
      BY <2>3, <2>4
    <3>2. QED
      BY <2>1, <3>1
<1>2. CASE ~(\E i \in DOMAIN done : Continues(done[i], r))
  <2>1. Merge(done, r) = Append(done, r)
    BY <1>2 DEF Merge
  <2>2. QED
    BY <2>1
<1>3. QED
  BY <1>1, <1>2

\* They are merged one after the other.
MergeHistory(h, X, tiles, req, s) ==
  /\ h[0] = <<>> /\ UpdateRects(tiles, req, s) = h[Len(RunRects(tiles, req, s))]
  /\ \A i \in 1..Len(RunRects(tiles, req, s)) :
       h[i] = Merge(h[i - 1], RunRects(tiles, req, s)[i])
  /\ \A i \in 0..Len(RunRects(tiles, req, s)) : h[i] \in X

LEMMA MergeSteps ==
  ASSUME NEW s, NEW req, NEW tiles, NEW X, <<>> \in X,
         Len(RunRects(tiles, req, s)) \in Nat,
         \A q \in X, i \in 1..Len(RunRects(tiles, req, s)) :
           Merge(q, RunRects(tiles, req, s)[i]) \in X
  PROVE  \E h : MergeHistory(h, X, tiles, req, s)
<1> DEFINE runs == RunRects(tiles, req, s)
           N == Len(runs)
           F(f) == [i \in 0..N |-> IF i = 0 THEN <<>> ELSE Merge(f[i - 1], runs[i])]
           step == [p \in X \X (1..N) |-> Merge(p[1], runs[p[2]])]
<1>1. N \in Nat /\ <<>> \in X
  OBVIOUS
<1>2. ASSUME NEW q \in X, NEW i \in 1..N PROVE Merge(q, runs[i]) \in X
  OBVIOUS
<1> HIDE DEF runs, N
<1>3. step \in [X \X (1..N) -> X]
  BY <1>2
<1>4. \A q \in X, i \in 1..N : step[<<q, i>>] = Merge(q, runs[i])
  OBVIOUS
<1> HIDE DEF step
<1>5. PICK g \in [0..N -> X] : Stepped(g, <<>>, step, N)
  BY <1>1, <1>3, Stepwise
<1>6. g = F(g)
  <2>1. ASSUME NEW i \in 0..N PROVE g[i] = F(g)[i]
    <3>1. CASE i = 0
      BY <3>1, <1>5 DEF Stepped
    <3>2. CASE i # 0
      <4>1. i \in 1..N /\ i - 1 \in 0..N
        BY <3>2, <1>1
      <4>2. g[i] = step[<<g[i - 1], i>>] /\ g[i - 1] \in X
        BY <4>1, <1>5 DEF Stepped
      <4>3. QED
        BY <3>2, <4>1, <4>2, <1>4
    <3>3. QED
      BY <3>1, <3>2
  <2>2. QED
    BY <1>5, <2>1
<1> DEFINE h == CHOOSE f : f = F(f)
<1> HIDE DEF F
<1>7. h = F(h)
  BY <1>6
<1> HIDE DEF h
<1> USE DEF F
<1> DEFINE S == {i \in 0..N : h[i] \in X}
<1>8. 0 \in S
  <2>1. 0 \in 0..N /\ F(h)[0] = <<>>
    BY <1>1
  <2>2. QED
    BY <2>1, <1>1, <1>7
<1>9. ASSUME NEW i \in 1..N, i - 1 \in S PROVE i \in S
  <2>1. i \in 0..N /\ i # 0
    BY <1>1
  <2>2. F(h)[i] = Merge(h[i - 1], runs[i])
    BY <2>1
  <2>3. Merge(h[i - 1], runs[i]) \in X
    BY <1>9, <1>2
  <2>4. h[i] \in X
    BY <2>2, <2>3, <1>7
  <2>5. QED
    BY <2>1, <2>4
<1>10. \A i \in 0..N : h[i] \in X
  <2> HIDE DEF S
  <2>1. \A i \in 0..N : i \in S
    BY <1>1, <1>8, <1>9, UpTo
  <2>2. QED
    BY <2>1 DEF S
<1>11. h[0] = <<>>
  <2>1. 0 \in 0..N /\ F(h)[0] = <<>>
    BY <1>1
  <2>2. QED
    BY <2>1, <1>7
<1>12. ASSUME NEW i \in 1..N PROVE h[i] = Merge(h[i - 1], runs[i])
  <2>1. i \in 0..N /\ i # 0
    BY <1>1
  <2>2. F(h)[i] = Merge(h[i - 1], runs[i])
    BY <2>1
  <2>3. QED
    BY <2>2, <1>7
<1>13. UpdateRects(tiles, req, s) = h[N]
  BY DEF h, N, runs, UpdateRects
<1>14. MergeHistory(h, X, tiles, req, s)
  BY <1>10, <1>11, <1>12, <1>13 DEF N, runs, MergeHistory
<1>15. QED
  BY <1>14

LEMMA MergeClipSteps ==
  ASSUME NEW s \in Screen, NEW req \in Rect, Plain(req, s),
         NEW tiles \in SUBSET TilesOf(req, s)
  PROVE  \E h : MergeHistory(h, Seq(Clipped(req, s)), tiles, req, s)
<1> DEFINE X == Seq(Clipped(req, s))
           runs == RunRects(tiles, req, s)
<1>1. runs \in X
  BY RunsClip
<1> HIDE DEF runs
<1>2. <<>> \in X /\ Len(runs) \in Nat
  BY <1>1
<1>3. \A q \in X, i \in 1..Len(runs) : Merge(q, runs[i]) \in X
  BY <1>1, MergeClips
<1> HIDE DEF X
<1>4. \E h : MergeHistory(h, X, tiles, req, s)
  BY <1>2, <1>3, MergeSteps DEF runs
<1>5. QED
  BY <1>4 DEF X

LEMMA UpdateClips ==
  ASSUME NEW s \in Screen, NEW req \in Rect, Plain(req, s),
         NEW tiles \in SUBSET TilesOf(req, s)
  PROVE  UpdateRects(tiles, req, s) \in Seq(Clipped(req, s))
<1>1. Len(RunRects(tiles, req, s)) \in 0..Len(RunRects(tiles, req, s))
  <2>1. Len(RunRects(tiles, req, s)) \in Nat
    BY RunsClip
  <2>2. QED
    BY <2>1
<1>2. PICK h : MergeHistory(h, Seq(Clipped(req, s)), tiles, req, s)
  BY MergeClipSteps
<1>3. QED
  BY <1>1, <1>2 DEF MergeHistory

-----------------------------------------------------------------------------
(* What a clipped rectangle shows, and what is then marked clean. *)

\* In one dimension: n units from e, cut by a request for those from x0 to
\* before x1 and by a screen of w, hold every unit of the two whose tile they
\* touch.
LEMMA TouchedIsInside ==
  ASSUME NEW e \in Nat, NEW n \in Nat \ {0}, NEW x0 \in Int, NEW x1 \in Int,
         NEW w \in Int, NEW a \in Int, NEW b \in Int, NEW k \in Int, NEW i \in Int,
         e = Greatest(Tile * a, x0), e + n = Least(Least(Tile * b, x1), w),
         x0 <= i, i < x1, i < w, i \div Tile \in Touched(e, n, k)
  PROVE  i \in e..e + n - 1
<1> DEFINE f == e + n
           last == e + n - 1
<1>1. Tile * a \in Int /\ Tile * b \in Int
  BY TileSteps
<1>2. f \in Int /\ last \in Int /\ last < f
  OBVIOUS
<1>3. /\ Tile * a <= e /\ last < Tile * b
      /\ e = Tile * a \/ e = x0
      /\ f = Tile * b \/ f = x1 \/ f = w
  BY <1>1 DEF Greatest, Least
<1>4. /\ i \div Tile \in Int /\ e \div Tile \in Int /\ last \div Tile \in Int
  BY <1>2, DivParts
<1>5. e \div Tile <= i \div Tile /\ i \div Tile <= last \div Tile
  <2>1. Greatest(e + n - 1, 0) = last
    BY DEF Greatest
  <2> HIDE DEF last
  <2>2. i \div Tile \in e \div Tile .. Least(last \div Tile, k - 1)
    BY <2>1 DEF Touched
  <2>3. QED
    BY <1>4, <2>2 DEF Least
<1> HIDE DEF last, f
<1>6. e \div Tile >= a
  BY <1>3, DivAbove
<1>7. i >= Tile * a
  <2>1. i \div Tile >= a
    BY <1>4, <1>5, <1>6
  <2>2. QED
    BY <2>1, DivAbove
<1>8. ~(last \div Tile >= b)
  <2>1. ~(last >= Tile * b)
    BY <1>1, <1>2, <1>3
  <2>2. QED
    BY <1>2, <2>1, DivAbove
<1>9. i < Tile * b
  <2>1. ~(i \div Tile >= b)
    BY <1>4, <1>5, <1>8
  <2>2. ~(i >= Tile * b)
    BY <2>1, DivAbove
  <2>3. QED
    BY <1>1, <2>2
<1>10. e <= i /\ i < f
  BY <1>1, <1>2, <1>3, <1>7, <1>9
<1>11. QED
  BY <1>10 DEF f

LEMMA ClippedInside ==
  ASSUME NEW s \in Screen, NEW req \in Rect, NEW r \in Clipped(req, s)
  PROVE  /\ r \in Rect /\ r.w > 0 /\ r.h > 0
         /\ r.x + r.w <= s.w /\ r.y + r.h <= s.h
         /\ r.x >= req.x /\ r.y >= req.y
         /\ r.x + r.w <= req.x + req.w /\ r.y + r.h <= req.y + req.h
<1>1. r \in Rect /\ r.w > 0 /\ r.h > 0
  BY DEF Clipped, Solid
<1>2. PICK a, b, c, d \in Int : Edges(r, req, s, a, b, c, d)
  BY DEF Clipped
<1>3. /\ Tile * a \in Int /\ Tile * b \in Int
      /\ Tile * c \in Int /\ Tile * d \in Int
  BY TileSteps
<1>4. /\ req.x \in Nat /\ req.y \in Nat /\ req.w \in Int /\ req.h \in Int
      /\ s.w \in Nat /\ s.h \in Nat
  BY RectFields
<1>5. \A t, x, z \in Int : /\ Greatest(t, x) >= x
                           /\ Least(Least(t, x), z) <= x
                           /\ Least(Least(t, x), z) <= z
  BY DEF Greatest, Least
<1>6. req.x + req.w \in Int /\ req.y + req.h \in Int
  BY <1>4
<1>7. /\ Greatest(Tile * a, req.x) >= req.x
      /\ Greatest(Tile * c, req.y) >= req.y
      /\ Least(Least(Tile * b, req.x + req.w), s.w) <= req.x + req.w
      /\ Least(Least(Tile * b, req.x + req.w), s.w) <= s.w
      /\ Least(Least(Tile * d, req.y + req.h), s.h) <= req.y + req.h
      /\ Least(Least(Tile * d, req.y + req.h), s.h) <= s.h
  BY <1>3, <1>4, <1>5, <1>6
<1>8. QED
  BY <1>1, <1>2, <1>7 DEF Edges

LEMMA ClippedOnScreen ==
  ASSUME NEW s \in Screen, NEW req \in Rect, NEW r \in Clipped(req, s)
  PROVE  Inside(r) \subseteq Pixels(s)
<1>1. /\ r.x \in Nat /\ r.y \in Nat /\ r.w \in Int /\ r.h \in Int
      /\ s.w \in Nat /\ s.h \in Nat
      /\ r.x + r.w <= s.w /\ r.y + r.h <= s.h
  BY ClippedInside, RectFields
<1>2. r.x..r.x + r.w - 1 \subseteq 0..s.w - 1
  BY <1>1
<1>3. r.y..r.y + r.h - 1 \subseteq 0..s.h - 1
  BY <1>1
<1>4. QED
  BY <1>2, <1>3 DEF Inside, Pixels

\* Every requested pixel of a tile that a rectangle clears is in the rectangle.
LEMMA ClearedIsInside ==
  ASSUME NEW s \in Screen, NEW req \in Rect, NEW r \in Clipped(req, s),
         NEW p \in Pixels(s) \cap Inside(req), TileOf(p) \in ClearedBy(r, s)
  PROVE  p \in Inside(r)
<1>1. PICK a, b, c, d \in Int : Edges(r, req, s, a, b, c, d)
  BY DEF Clipped
<1>2. /\ r.x \in Nat /\ r.y \in Nat /\ r.w \in Nat \ {0} /\ r.h \in Nat \ {0}
      /\ s.w \in Int /\ s.h \in Int
      /\ req.x \in Int /\ req.y \in Int /\ req.w \in Int /\ req.h \in Int
  BY ClippedInside, RectFields
<1>3. p = <<p[1], p[2]>> /\ p[1] \in Int /\ p[2] \in Int
  BY DEF Pixels
<1>4. /\ p[1] < s.w /\ p[2] < s.h
      /\ req.x <= p[1] /\ p[1] < req.x + req.w
      /\ req.y <= p[2] /\ p[2] < req.y + req.h
  BY <1>2 DEF Pixels, Inside
<1>5. /\ p[1] \div Tile \in Touched(r.x, r.w, Cols(s))
      /\ p[2] \div Tile \in Touched(r.y, r.h, Rows(s))
  BY DEF ClearedBy, TilesOf, TileOf
<1>6. /\ Cols(s) \in Int /\ Rows(s) \in Int
      /\ req.x + req.w \in Int /\ req.y + req.h \in Int
  BY <1>2, Grids
<1>7. p[1] \in r.x..r.x + r.w - 1
  BY <1>1, <1>2, <1>3, <1>4, <1>5, <1>6, TouchedIsInside DEF Edges
<1>8. p[2] \in r.y..r.y + r.h - 1
  BY <1>1, <1>2, <1>3, <1>4, <1>5, <1>6, TouchedIsInside DEF Edges
<1>9. QED
  BY <1>3, <1>7, <1>8 DEF Inside

\* A length is a word, whatever is cut.
LEMMA ExtentNat ==
  ASSUME NEW a \in Int, NEW n \in Int, NEW from \in Int, NEW len \in Int, NEW end \in Int
  PROVE  Extent(a, n, from, len, end) \in Nat
<1>1. \A i \in Int : Wrap(i) \in Nat
  BY TileAssumption DEF Wrap
<1>2. Greatest(a, from) \in Int
  BY DEF Greatest
<1> DEFINE pos == Greatest(a, from)
           begun == Wrap(n - (pos - a))
           asked == IF pos + begun > from + len THEN Wrap(from + len - pos) ELSE begun
<1>3. begun \in Nat
  BY <1>1, <1>2
<1>4. asked \in Nat
  BY <1>1, <1>2, <1>3
<1>5. (IF pos + asked > end THEN Wrap(end - pos) ELSE asked) \in Nat
  BY <1>1, <1>2, <1>4
<1>6. QED
  BY <1>5 DEF Extent

\* In one dimension: of a tile that no unit, or a unit beyond the screen's m,
\* touches nothing is left.
LEMMA ExtentNothing ==
  \A q, len \in Nat, m \in Nat \ {0}, t, l \in Int :
    /\ t \in Touched(q, len, (m + Tile - 1) \div Tile)
    /\ ~(m < q /\ q < ((m + Tile - 1) \div Tile) * Tile)
    /\ len = 0 \/ q >= m
    => Extent(t * Tile, l, q, len, m) = 0
<1> TAKE q, len \in Nat, m \in Nat \ {0}, t, l \in Int
<1> HAVE /\ t \in Touched(q, len, (m + Tile - 1) \div Tile)
         /\ ~(m < q /\ q < ((m + Tile - 1) \div Tile) * Tile)
         /\ len = 0 \/ q >= m
<1> DEFINE k == (m + Tile - 1) \div Tile
           last == Greatest(q + len - 1, 0)
           pos == Greatest(t * Tile, q)
           begun == Wrap(l - (pos - t * Tile))
           asked == IF pos + begun > q + len THEN Wrap(q + len - pos) ELSE begun
<1>1. Tile * t \in Int /\ t * Tile = Tile * t /\ Tile \in Nat \ {0} /\ Tile * (t + 1) = Tile * t + Tile
  BY TileSteps
<1>2. k \in Int /\ Tile * k \in Int /\ k * Tile = Tile * k /\ Tile * k <= m + Tile - 1
  <2>1. m + Tile - 1 \in Int
    BY <1>1
  <2>2. k \in Int /\ Tile * k <= m + Tile - 1
    BY <2>1, DivParts
  <2> HIDE DEF k
  <2>3. QED
    BY <2>2, TileSteps
<1>3. last \in Nat /\ q \div Tile \in Int /\ last \div Tile \in Int /\ (len = 0 => last <= q)
  <2>1. last \in Nat /\ (len = 0 => last <= q)
    BY DEF Greatest
  <2> HIDE DEF last
  <2>2. QED
    BY <2>1, DivParts
<1>4. q \div Tile <= t /\ t <= last \div Tile /\ t <= k - 1
  <2>1. t \in q \div Tile .. Least(last \div Tile, k - 1)
    BY DEF Touched
  <2> HIDE DEF last, k
  <2>2. QED
    BY <1>2, <1>3, <2>1 DEF Least
<1>5. q < Tile * t + Tile /\ Tile * t + Tile <= Tile * k
  <2>1. ~(q \div Tile >= t + 1)
    BY <1>3, <1>4
  <2>2. ~(q >= Tile * (t + 1))
    BY <2>1, DivAbove
  <2> HIDE DEF k
  <2>3. Tile * t + Tile <= Tile * k
    BY <1>2, <1>4, TileSteps
  <2>4. QED
    BY <1>1, <2>2, <2>3
<1>6. q <= m
  <2>1. q < k * Tile
    <3> HIDE DEF k
    <3>1. QED
      BY <1>1, <1>2, <1>5
  <2>2. ~(m < q /\ q < k * Tile)
    OBVIOUS
  <2>3. QED
    BY <2>1, <2>2
<1>7. Tile * t <= q
  <2>1. CASE len = 0
    <3>1. last \div Tile <= q \div Tile
      <4>1. last \in Int /\ q \in Int /\ last <= q
        BY <1>3, <2>1
      <4> HIDE DEF last
      <4>2. QED
        BY <4>1, DivMono
    <3> HIDE DEF last
    <3>2. q \div Tile >= t
      BY <1>3, <1>4, <3>1
    <3>3. QED
      BY <1>1, <3>2, DivAbove
  <2>2. CASE q >= m
    <3> HIDE DEF k
    <3>1. QED
      BY <1>1, <1>2, <1>5, <2>2
  <2>3. QED
    BY <2>1, <2>2
<1>8. pos = q
  BY <1>1, <1>7 DEF Greatest
<1>9. Extent(t * Tile, l, q, len, m) = IF pos + asked > m THEN Wrap(m - pos) ELSE asked
  BY DEF Extent
<1>10. begun \in Nat
  <2>1. l - (pos - t * Tile) \in Int
    BY <1>1, <1>8
  <2> HIDE DEF pos
  <2>2. QED
    BY <2>1, TileAssumption DEF Wrap
<1>11. Wrap(0) = 0
  BY TileAssumption, WrapSmall
<1> HIDE DEF pos, begun, last, k
<1>12. CASE len = 0
  <2>1. asked = 0
    <3>1. CASE pos + begun > q + len
      <4>1. q + len - pos = 0
        BY <1>8, <1>12
      <4>2. QED
        BY <1>11, <3>1, <4>1
    <3>2. CASE ~(pos + begun > q + len)
      BY <1>8, <1>10, <1>12, <3>2
    <3>3. QED
      BY <3>1, <3>2
  <2>2. ~(pos + asked > m)
    BY <1>6, <1>8, <2>1
  <2>3. QED
    BY <1>9, <2>1, <2>2
<1>13. CASE q >= m
  <2>1. asked \in Nat
    <3>1. CASE pos + begun > q + len
      <4>1. q + len - pos \in Int
        BY <1>8
      <4>2. Wrap(q + len - pos) \in Nat
        BY <4>1, TileAssumption DEF Wrap
      <4>3. QED
        BY <3>1, <4>2
    <3>2. CASE ~(pos + begun > q + len)
      BY <1>10, <3>2
    <3>3. QED
      BY <3>1, <3>2
  <2> HIDE DEF asked
  <2>2. CASE pos + asked > m
    <3>1. m - pos = 0
      BY <1>6, <1>8, <1>13
    <3>2. QED
      BY <1>9, <1>11, <2>2, <3>1
  <2>3. CASE ~(pos + asked > m)
    <3>1. asked = 0
      BY <1>8, <1>13, <2>1, <2>3
    <3>2. QED
      BY <1>9, <2>3, <3>1
  <2>4. QED
    BY <2>2, <2>3
<1>14. QED
  BY <1>12, <1>13

Request == [x : Nat, y : Nat, w : Nat, h : Nat]

\* For a request that has no pixel of the screen an update has no rectangle.
LEMMA NothingAsked ==
  ASSUME NEW s \in Screen, NEW req \in Request, ~Asks(req, s), ~Wraps(req, s),
         NEW tiles \in SUBSET TilesOf(req, s)
  PROVE  UpdateRects(tiles, req, s) = <<>>
<1>1. /\ req.x \in Nat /\ req.y \in Nat /\ req.w \in Nat /\ req.h \in Nat
      /\ s.w \in Nat \ {0} /\ s.h \in Nat \ {0} /\ req \in Rect
  BY RectFields DEF Request, Rect
<1>2. /\ ~(s.w < req.x /\ req.x < Cols(s) * Tile)
      /\ ~(s.h < req.y /\ req.y < Rows(s) * Tile)
  BY DEF Wraps, PastCutEdge
<1>3. ASSUME NEW t \in TilesOf(req, s), NEW n \in Int
      PROVE  ~(Clip(t, n, req, s).w > 0 /\ Clip(t, n, req, s).h > 0)
  <2> DEFINE a == t[2]  c == t[1]  l == n * Tile  side == Tile
             r == Clip(t, n, req, s)
  <2>1. /\ a \in Touched(req.x, req.w, Cols(s)) /\ c \in Touched(req.y, req.h, Rows(s))
        /\ a \in Int /\ c \in Int /\ l \in Int /\ side \in Int
    <3>1. t \in Tiles(s) /\ Cols(s) \in Nat /\ Rows(s) \in Nat
      BY <1>1, TouchedTiles, Grids
    <3>2. QED
      BY <3>1, TileAssumption DEF TilesOf, Tiles
  <2>2. /\ r.w = Extent(a * Tile, l, req.x, req.w, s.w)
        /\ r.h = Extent(c * Tile, side, req.y, req.h, s.h)
    BY DEF Clip
  <2> HIDE DEF a, c, l, side, r
  <2>3. req.w = 0 \/ req.x >= s.w => r.w = 0
    <3> DEFINE q == req.x  len == req.w  m == s.w
    <3>1. /\ q \in Nat /\ len \in Nat /\ m \in Nat \ {0}
          /\ a \in Touched(q, len, (m + Tile - 1) \div Tile)
          /\ a \in Int /\ l \in Int
          /\ ~(m < q /\ q < ((m + Tile - 1) \div Tile) * Tile)
      BY <1>1, <1>2, <2>1 DEF Cols
    <3> HIDE DEF q, len, m
    <3>2. len = 0 \/ q >= m => Extent(a * Tile, l, q, len, m) = 0
      BY <3>1, ExtentNothing, Zenon
    <3>3. QED
      BY <2>2, <3>2 DEF q, len, m
  <2>4. req.h = 0 \/ req.y >= s.h => r.h = 0
    <3> DEFINE q == req.y  len == req.h  m == s.h
    <3>1. /\ q \in Nat /\ len \in Nat /\ m \in Nat \ {0}
          /\ c \in Touched(q, len, (m + Tile - 1) \div Tile)
          /\ c \in Int /\ side \in Int
          /\ ~(m < q /\ q < ((m + Tile - 1) \div Tile) * Tile)
      BY <1>1, <1>2, <2>1 DEF Rows
    <3> HIDE DEF q, len, m
    <3>2. len = 0 \/ q >= m => Extent(c * Tile, side, q, len, m) = 0
      BY <3>1, ExtentNothing, Zenon
    <3>3. QED
      BY <2>2, <3>2 DEF q, len, m
  <2>5. req.w = 0 \/ req.x >= s.w \/ req.h = 0 \/ req.y >= s.h
    BY <1>1 DEF Asks
  <2>6. QED
    BY <2>3, <2>4, <2>5 DEF r
<1>4. ASSUME NEW t \in TilesOf(req, s), NEW n \in Int PROVE Clip(t, n, req, s) \in rect_t
  <2> DEFINE a == t[2] * Tile  c == t[1] * Tile  l == n * Tile
  <2>1. a \in Nat /\ c \in Nat /\ l \in Int /\ Tile \in Int
    <3>1. t \in Tiles(s) /\ Cols(s) \in Nat /\ Rows(s) \in Nat
      BY <1>1, TouchedTiles, Grids
    <3>2. t[1] \in Nat /\ t[2] \in Nat
      BY <3>1 DEF Tiles
    <3>3. QED
      BY <3>2, TileAssumption
  <2>2. Clip(t, n, req, s) =
          [x |-> Greatest(a, req.x), y |-> Greatest(c, req.y),
           w |-> Extent(a, l, req.x, req.w, s.w), h |-> Extent(c, Tile, req.y, req.h, s.h)]
    BY DEF Clip
  <2> HIDE DEF a, c, l
  <2>3. Extent(a, l, req.x, req.w, s.w) \in Nat /\ Extent(c, Tile, req.y, req.h, s.h) \in Nat
    <3>1. /\ req.x \in Int /\ req.w \in Int /\ s.w \in Int
          /\ req.y \in Int /\ req.h \in Int /\ s.h \in Int
          /\ a \in Int /\ c \in Int
      BY <1>1, <2>1
    <3>2. Extent(a, l, req.x, req.w, s.w) \in Nat
      BY <2>1, <3>1, ExtentNat, Zenon
    <3>3. Extent(c, Tile, req.y, req.h, s.h) \in Nat
      BY <2>1, <3>1, ExtentNat, Zenon
    <3>4. QED
      BY <3>2, <3>3
  <2>4. Greatest(a, req.x) \in Nat /\ Greatest(c, req.y) \in Nat
    BY <1>1, <2>1 DEF Greatest
  <2>5. QED
    BY <2>2, <2>3, <2>4 DEF rect_t
<1>5. ASSUME NEW t PROVE AddRun(<<>>, t, tiles, req, s) = <<>>
  <2>1. CASE StartsRun(tiles, t)
    <3>1. t \in tiles /\ t \in TilesOf(req, s) /\ tiles \in SUBSET Tiles(s)
      BY <1>1, <2>1, TouchedTiles DEF StartsRun
    <3>2. RunLength(tiles, s, t) \in Int
      <4>1. RunLength(tiles, s, t) \in 1..Cols(s) /\ Cols(s) \in Nat
        BY <3>1, RunEnds, Grids
      <4>2. QED
        BY <4>1
    <3> DEFINE r == Clip(t, RunLength(tiles, s, t), req, s)
               Kept == [q \in rect_t |-> IF q.w > 0 /\ q.h > 0 THEN Append(<<>>, q) ELSE <<>>]
    <3>3. r \in rect_t /\ ~(r.w > 0 /\ r.h > 0)
      BY <1>3, <1>4, <3>1, <3>2
    <3>4. Kept[r] = <<>>
      BY <3>3
    <3>5. AddRun(<<>>, t, tiles, req, s) =
            IF StartsRun(tiles, t) /\ Len(<<>>) < RectRoom THEN Kept[r] ELSE <<>>
      BY Zenon DEF AddRun
    <3> HIDE DEF Kept, r
    <3>6. QED
      BY <3>4, <3>5
  <2>2. CASE ~StartsRun(tiles, t)
    BY <2>2 DEF AddRun
  <2>3. QED
    BY <2>1, <2>2
<1> DEFINE X == {<<>>}
<1>6. RunRects(tiles, req, s) = <<>>
  <2>1. <<>> \in X /\ \A q \in X, i \in 1..Rows(s) * Cols(s) :
                        AddRun(q, InOrder(i, s), tiles, req, s) \in X
    BY <1>5
  <2>2. Rows(s) * Cols(s) \in 0..Rows(s) * Cols(s)
    BY Grids
  <2> HIDE DEF X
  <2>3. PICK h : RunHistory(h, X, tiles, req, s)
    BY <2>1, RunSteps
  <2>4. RunRects(tiles, req, s) \in X
    BY <2>2, <2>3 DEF RunHistory
  <2>5. QED
    BY <2>4 DEF X
<1>7. UpdateRects(tiles, req, s) = <<>>
  <2> DEFINE runs == RunRects(tiles, req, s)
  <2>1. <<>> \in X /\ Len(runs) \in Nat /\ Len(runs) = 0
    BY <1>6
  <2>2. \A q \in X, i \in 1..Len(runs) : Merge(q, runs[i]) \in X
    BY <2>1
  <2> HIDE DEF X
  <2>3. PICK h : MergeHistory(h, X, tiles, req, s)
    BY <2>1, <2>2, MergeSteps
  <2>4. UpdateRects(tiles, req, s) \in X
    BY <2>1, <2>3 DEF MergeHistory
  <2>5. QED
    BY <2>4 DEF X
<1>8. QED
  BY <1>7

\* For every screen of less than a word, every request that does not begin past
\* an edge of it that cuts a tile, and every set of dirty tiles it touches: no
\* rectangle of an update leaves the request or the screen, whatever was
\* clipped, in words, and merged, and a tile's flag is cleared only when every
\* pixel of it that was asked for is among those sent
\* (vnc_client_send_update(), src/src/leanrfb.c:1825-1904 and 1997).
THEOREM ClearedAreSent ==
  ASSUME NEW s \in Screen, NEW req \in Request, ~Wraps(req, s),
         NEW tiles \in SUBSET TilesOf(req, s),
         NEW r \in ToSet(UpdateRects(tiles, req, s))
  PROVE  /\ Inside(r) \subseteq Inside(req) \cap Pixels(s)
         /\ \A p \in Inside(req) \cap Pixels(s) :
              TileOf(p) \in ClearedBy(r, s) => p \in Inside(r)
<1>1. req \in Rect /\ Plain(req, s)
  <2>1. CASE ~Asks(req, s)
    <3>1. UpdateRects(tiles, req, s) = <<>>
      BY <2>1, NothingAsked
    <3>2. ToSet(UpdateRects(tiles, req, s)) = {}
      BY <3>1 DEF ToSet
    <3>3. QED
      BY <3>2
  <2>2. CASE Asks(req, s)
    BY <2>2 DEF Plain, Wraps, Request, Rect
  <2>3. QED
    BY <2>1, <2>2
<1>2. r \in Clipped(req, s)
  <2>1. UpdateRects(tiles, req, s) \in Seq(Clipped(req, s))
    BY <1>1, UpdateClips
  <2>2. QED
    BY <2>1 DEF ToSet
<1>3. Inside(r) \subseteq Inside(req)
  <2>1. /\ r.x \in Int /\ r.y \in Int /\ r.w \in Int /\ r.h \in Int
        /\ req.x \in Int /\ req.y \in Int /\ req.w \in Int /\ req.h \in Int
        /\ r.x >= req.x /\ r.y >= req.y
        /\ r.x + r.w <= req.x + req.w /\ r.y + r.h <= req.y + req.h
    BY <1>1, <1>2, ClippedInside, RectFields
  <2>2. /\ r.x..r.x + r.w - 1 \subseteq req.x..req.x + req.w - 1
        /\ r.y..r.y + r.h - 1 \subseteq req.y..req.y + req.h - 1
    BY <2>1
  <2>3. QED
    BY <2>2 DEF Inside
<1>4. QED
  BY <1>1, <1>2, <1>3, ClippedOnScreen, ClearedIsInside

-----------------------------------------------------------------------------
(* What the rectangles of an update show together. *)

\* The tiles of the run that a tile begins.
RunOf(tiles, s, t) == {<<t[1], t[2] + k>> : k \in 0..RunLength(tiles, s, t) - 1}

\* In one dimension: what is between the edges of tiles a to b - 1, from q on
\* and below e and m.
Line(a, b, q, e, m) == Greatest(Tile * a, q)..Least(Least(Tile * b, e), m) - 1

OnLine(i, a, b, q, e, m) ==
  /\ q <= i /\ i < e /\ i < m
  /\ a <= i \div Tile /\ i \div Tile < b

LEMMA LineShown ==
  ASSUME NEW a \in Int, NEW b \in Int, NEW q \in Int, NEW e \in Int, NEW m \in Int, NEW i \in Int
  PROVE  i \in Line(a, b, q, e, m) <=> OnLine(i, a, b, q, e, m)
<1>1. Tile * a \in Int /\ Tile * b \in Int
  BY TileSteps
<1>2. i \div Tile \in Int
  BY DivParts
<1>3. /\ a <= i \div Tile <=> Tile * a <= i
      /\ i \div Tile < b <=> i < Tile * b
  <2>1. i \div Tile >= a <=> i >= Tile * a
    BY DivAbove
  <2>2. i \div Tile >= b <=> i >= Tile * b
    BY DivAbove
  <2>3. QED
    BY <1>1, <1>2, <2>1, <2>2
<1> DEFINE u == Tile * a
           v == Tile * b
<1>4. u \in Int /\ v \in Int
  BY <1>1
<1> HIDE DEF u, v
<1>5. i \in Greatest(u, q)..Least(Least(v, e), m) - 1
        <=> q <= i /\ i < e /\ i < m /\ u <= i /\ i < v
  BY <1>4 DEF Greatest, Least
<1>6. QED
  BY <1>3, <1>5 DEF u, v, Line, OnLine

\* The rectangle of a run shows what is asked for of its tiles.
LEMMA ClipShows ==
  ASSUME NEW s \in Screen, NEW req \in Rect, Plain(req, s), NEW tiles \in SUBSET TilesOf(req, s),
         NEW t \in tiles
  PROVE  /\ Clip(t, RunLength(tiles, s, t), req, s) \in Solid
         /\ Inside(Clip(t, RunLength(tiles, s, t), req, s)) = Wanted(RunOf(tiles, s, t), req, s)
<1> DEFINE n == RunLength(tiles, s, t)
<1>1. /\ req.x \in Nat /\ req.y \in Nat /\ req.w \in Nat \ {0} /\ req.h \in Nat \ {0}
      /\ s.w \in Nat \ {0} /\ s.h \in Nat \ {0} /\ req \in Rect
      /\ req.x < s.w /\ req.y < s.h
  BY RectFields DEF Plain, Asks
<1>2. tiles \in SUBSET Tiles(s)
  BY <1>1, TouchedTiles
<1>3. Cols(s) \in Nat /\ Rows(s) \in Nat /\ n \in 1..Cols(s)
  BY <1>2, RunEnds, Grids
<1>4. t \in Tiles(s) /\ t[1] \in Nat /\ t[2] \in Nat
      /\ t[1] \in Touched(req.y, req.h, Rows(s)) /\ t[2] \in Touched(req.x, req.w, Cols(s))
  BY <1>2, <1>3 DEF Tiles, TilesOf
<1> DEFINE a == t[2]  b == t[2] + n  c == t[1]  d == t[1] + 1
           r == Clip(t, n, req, s)
           x == Greatest(Tile * a, req.x)
           xEnd == Least(Least(Tile * b, req.x + req.w), s.w)
           y == Greatest(Tile * c, req.y)
           yEnd == Least(Least(Tile * d, req.y + req.h), s.h)
<1>5. a \in Int /\ b \in Int /\ c \in Int /\ d \in Int /\ a < b /\ c < d /\ d = c + 1 /\ n \in Nat
  BY <1>3, <1>4
<1>6. RunOf(tiles, s, t) = {<<c, a + k>> : k \in 0..n - 1} /\ b = a + n
  BY DEF RunOf
<1>7. a \in Touched(req.x, req.w, Cols(s)) /\ c \in Touched(req.y, req.h, Rows(s))
  BY <1>4
<1>8. r = [x |-> x, y |-> y, w |-> xEnd - x, h |-> yEnd - y] /\ x < xEnd /\ y < yEnd
  <2>1. t \in TilesOf(req, s)
    OBVIOUS
  <2>2. QED
    BY <1>3, <2>1, ClipIs
<1> HIDE DEF a, b, c, d, r, n
<1>9. x < xEnd /\ y < yEnd
  BY <1>8
<1>10. x \in Nat /\ y \in Nat /\ xEnd \in Int /\ yEnd \in Int
  <2>1. /\ Tile * a \in Int /\ Tile * b \in Int
        /\ Tile * c \in Int /\ Tile * d \in Int
    BY <1>5, TileSteps
  <2>2. \A g \in Int, l \in Nat : Greatest(g, l) \in Nat
    BY DEF Greatest
  <2>3. \A g, l, z \in Int : Least(Least(g, l), z) \in Int
    BY DEF Least
  <2>4. req.x + req.w \in Int /\ req.y + req.h \in Int /\ s.w \in Int /\ s.h \in Int
    BY <1>1
  <2>5. x \in Nat /\ y \in Nat
    BY <1>1, <2>1, <2>2, Zenon
  <2>6. xEnd \in Int /\ yEnd \in Int
    BY <2>1, <2>3, <2>4, Zenon
  <2>7. QED
    BY <2>5, <2>6
<1>11. /\ \A i \in Int : i \in x..xEnd - 1 <=> OnLine(i, a, b, req.x, req.x + req.w, s.w)
       /\ \A i \in Int : i \in y..yEnd - 1 <=> OnLine(i, c, d, req.y, req.y + req.h, s.h)
  <2>1. req.x + req.w \in Int /\ req.y + req.h \in Int /\ req.x \in Int /\ req.y \in Int
        /\ s.w \in Int /\ s.h \in Int
    BY <1>1
  <2>2. /\ x..xEnd - 1 = Line(a, b, req.x, req.x + req.w, s.w)
        /\ y..yEnd - 1 = Line(c, d, req.y, req.y + req.h, s.h)
    BY DEF Line
  <2> HIDE DEF x, y, xEnd, yEnd
  <2>3. /\ \A i \in Int : i \in Line(a, b, req.x, req.x + req.w, s.w) 
                           <=> OnLine(i, a, b, req.x, req.x + req.w, s.w)
        /\ \A i \in Int : i \in Line(c, d, req.y, req.y + req.h, s.h)
                           <=> OnLine(i, c, d, req.y, req.y + req.h, s.h)
    BY <1>5, <2>1, LineShown
  <2>4. QED
    BY <2>2, <2>3
<1> HIDE DEF x, y, xEnd, yEnd
<1>12. r \in Solid /\ Inside(r) = (x..xEnd - 1) \X (y..yEnd - 1)
  <2>1. /\ r.x = x /\ r.y = y /\ r.w = xEnd - x /\ r.h = yEnd - y
        /\ r \in Rect
    BY <1>8, <1>10 DEF Rect
  <2>2. r.w > 0 /\ r.h > 0 /\ r.x + r.w - 1 = xEnd - 1 /\ r.y + r.h - 1 = yEnd - 1
    BY <1>9, <1>10, <2>1
  <2>3. QED
    BY <2>1, <2>2 DEF Solid, Inside
<1>13. ASSUME NEW i \in Int, NEW j \in Int
       PROVE  <<i, j>> \in Inside(r) <=> <<i, j>> \in Wanted(RunOf(tiles, s, t), req, s)
  <2>1. i \div Tile \in Int /\ j \div Tile \in Int
    BY DivParts
  <2>2. <<i, j>> \in Inside(req) \cap Pixels(s)
          <=> /\ req.x <= i /\ i < req.x + req.w /\ i < s.w
              /\ req.y <= j /\ j < req.y + req.h /\ j < s.h
    BY <1>1 DEF Inside, Pixels
  <2>3. <<j \div Tile, i \div Tile>> \in RunOf(tiles, s, t)
          <=> j \div Tile = c /\ a <= i \div Tile /\ i \div Tile < b
    <3> DEFINE g == i \div Tile  l == j \div Tile
    <3>1. <<l, g>> \in RunOf(tiles, s, t) <=> \E k \in 0..n - 1 : l = c /\ g = a + k
      BY <1>6
    <3>2. g \in Int
      BY <2>1
    <3> HIDE DEF g, l
    <3>3. (\E k \in 0..n - 1 : g = a + k) <=> a <= g /\ g < b
      <4>1. ASSUME a <= g, g < b PROVE g - a \in 0..n - 1 /\ g = a + (g - a)
        BY <1>5, <1>6, <3>2, <4>1
      <4>2. ASSUME NEW k \in 0..n - 1, g = a + k PROVE a <= g /\ g < b
        BY <1>5, <1>6, <3>2, <4>2
      <4>3. QED
        BY <4>1, <4>2
    <3>4. QED
      BY <3>1, <3>3 DEF g, l
  <2>4. j \div Tile = c <=> c <= j \div Tile /\ j \div Tile < d
    BY <1>5, <2>1
  <2>5. TileOf(<<i, j>>) = <<j \div Tile, i \div Tile>>
    BY DEF TileOf
  <2>6. <<i, j>> \in Inside(r) <=> i \in x..xEnd - 1 /\ j \in y..yEnd - 1
    BY <1>12
  <2>7. <<i, j>> \in Inside(r)
          <=> /\ <<i, j>> \in Inside(req) \cap Pixels(s)
              /\ <<j \div Tile, i \div Tile>> \in RunOf(tiles, s, t)
    <3>1. /\ i \in x..xEnd - 1 <=> OnLine(i, a, b, req.x, req.x + req.w, s.w)
          /\ j \in y..yEnd - 1 <=> OnLine(j, c, d, req.y, req.y + req.h, s.h)
      BY <1>11
    <3>2. QED
      BY <2>2, <2>3, <2>4, <2>6, <3>1, Zenon DEF OnLine
  <2>8. QED
    BY <2>5, <2>7 DEF Wanted
<1>14. Inside(r) \subseteq Int \X Int /\ Wanted(RunOf(tiles, s, t), req, s) \subseteq Int \X Int
  BY <1>1, <1>10, <1>12 DEF Wanted, Pixels
<1>15. Inside(r) = Wanted(RunOf(tiles, s, t), req, s)
  <2> DEFINE A == Inside(r)
             B == Wanted(RunOf(tiles, s, t), req, s)
  <2>1. A \subseteq Int \X Int /\ B \subseteq Int \X Int
    BY <1>14
  <2>2. \A i, j \in Int : <<i, j>> \in A <=> <<i, j>> \in B
    BY <1>13, Zenon
  <2> HIDE DEF A, B
  <2>3. ASSUME NEW p \in Int \X Int PROVE p \in A <=> p \in B
    <3>1. p = <<p[1], p[2]>> /\ p[1] \in Int /\ p[2] \in Int
      OBVIOUS
    <3>2. QED
      BY <2>2, <3>1
  <2>4. A = B
    BY <2>1, <2>3
  <2>5. QED
    BY <2>4 DEF A, B
<1>16. QED
  BY <1>12, <1>15 DEF r, n

\* Runs have no tile in common.
LEMMA RunsApart ==
  ASSUME NEW s \in Screen, NEW tiles \in SUBSET Tiles(s),
         NEW t, StartsRun(tiles, t), NEW u, StartsRun(tiles, u), t # u
  PROVE  RunOf(tiles, s, t) \cap RunOf(tiles, s, u) = {}
<1>1. /\ t \in tiles /\ u \in tiles /\ <<t[1], t[2] - 1>> \notin tiles /\ <<u[1], u[2] - 1>> \notin tiles
  BY DEF StartsRun
<1>2. t = <<t[1], t[2]>> /\ u = <<u[1], u[2]>> /\ t[2] \in Int /\ u[2] \in Int
  <2>1. Cols(s) \in Nat
    BY Grids
  <2>2. QED
    BY <1>1, <2>1 DEF Tiles
<1> DEFINE n == RunLength(tiles, s, t)
           m == RunLength(tiles, s, u)
<1>3. /\ n \in Int /\ m \in Int
      /\ \A k \in 0..n - 1 : <<t[1], t[2] + k>> \in tiles
      /\ \A k \in 0..m - 1 : <<u[1], u[2] + k>> \in tiles
  <2>1. Cols(s) \in Nat
    BY Grids
  <2>2. ASSUME NEW v \in tiles
        PROVE  /\ RunLength(tiles, s, v) \in Int
               /\ \A k \in 0..RunLength(tiles, s, v) - 1 : <<v[1], v[2] + k>> \in tiles
    <3>1. RunLength(tiles, s, v) \in 1..Cols(s)
      BY RunEnds, Zenon
    <3>2. \A k \in 0..RunLength(tiles, s, v) - 1 : <<v[1], v[2] + k>> \in tiles
      BY RunEnds, Zenon
    <3>3. QED
      BY <2>1, <3>1, <3>2
  <2>3. QED
    BY <1>1, <2>2
<1>4. SUFFICES ASSUME NEW k \in 0..n - 1, NEW l \in 0..m - 1, <<t[1], t[2] + k>> = <<u[1], u[2] + l>>
               PROVE  FALSE
  BY DEF RunOf
<1> HIDE DEF n, m
<1>5. t[1] = u[1] /\ t[2] + k = u[2] + l
  BY <1>4
<1>6. t[2] # u[2]
  BY <1>2, <1>5
<1>7. CASE t[2] < u[2]
  <2> DEFINE j == u[2] - 1 - t[2]
  <2>1. j \in 0..n - 1 /\ t[2] + j = u[2] - 1
    BY <1>2, <1>3, <1>5, <1>7
  <2> HIDE DEF j
  <2>2. <<t[1], t[2] + j>> \in tiles
    BY <1>3, <2>1
  <2>3. QED
    BY <1>1, <1>5, <2>1, <2>2
<1>8. CASE u[2] < t[2]
  <2> DEFINE j == t[2] - 1 - u[2]
  <2>1. j \in 0..m - 1 /\ u[2] + j = t[2] - 1
    BY <1>2, <1>3, <1>5, <1>8
  <2> HIDE DEF j
  <2>2. <<u[1], u[2] + j>> \in tiles
    BY <1>3, <2>1
  <2>3. QED
    BY <1>1, <1>5, <2>1, <2>2
<1>9. QED
  BY <1>2, <1>6, <1>7, <1>8

\* Every tile is in a run.
LEMMA RunsCover ==
  ASSUME NEW s \in Screen, NEW tiles \in SUBSET Tiles(s), NEW u \in tiles
  PROVE  \E t \in tiles : StartsRun(tiles, t) /\ u \in RunOf(tiles, s, t)
<1>1. Cols(s) \in Nat /\ u = <<u[1], u[2]>> /\ u[2] \in 0..Cols(s) - 1 /\ u[2] \in Nat
      /\ \A c \in Int : <<u[1], c>> \in tiles => c \in Nat
  <2>1. Cols(s) \in Nat
    BY Grids
  <2>2. QED
    BY <2>1 DEF Tiles
<1> DEFINE T == {c \in 0..u[2] : \A j \in c..u[2] : <<u[1], j>> \in tiles}
<1>2. u[2] \in T
  BY <1>1
<1>3. T \in SUBSET Nat
  BY <1>1
<1>4. PICK c \in T : \A k \in T : c <= k
  <2> HIDE DEF T
  <2>1. QED
    BY <1>2, <1>3, LeastOne
<1> DEFINE t == <<u[1], c>>
<1>5. c \in 0..u[2] /\ c \in Nat /\ \A j \in c..u[2] : <<u[1], j>> \in tiles
  BY <1>1, <1>4
<1>6. t \in tiles /\ t[1] = u[1] /\ t[2] = c
  BY <1>1, <1>5
<1>7. <<u[1], c - 1>> \notin tiles
  <2> SUFFICES ASSUME <<u[1], c - 1>> \in tiles PROVE FALSE
    OBVIOUS
  <2>1. c - 1 \in Nat
    BY <1>1, <1>5
  <2>2. \A j \in c - 1..u[2] : j = c - 1 \/ j \in c..u[2]
    BY <1>1, <1>5
  <2>3. c - 1 \in 0..u[2]
    BY <1>1, <1>5, <2>1
  <2>4. c - 1 \in T
    BY <1>5, <2>2, <2>3
  <2>5. c <= c - 1
    BY <1>4, <2>4
  <2>6. QED
    BY <1>5, <2>5
<1> HIDE DEF t
<1>8. StartsRun(tiles, t)
  BY <1>6, <1>7 DEF StartsRun
<1> DEFINE n == RunLength(tiles, s, t)
<1>9. n \in 1..Cols(s) /\ <<t[1], t[2] + n>> \notin tiles
  BY <1>6, RunEnds
<1> HIDE DEF n
<1>10. u[2] - c \in 0..n - 1 /\ c + (u[2] - c) = u[2]
  <2>1. c + n \notin c..u[2]
    BY <1>5, <1>6, <1>9
  <2>2. QED
    BY <1>1, <1>5, <1>9, <2>1
<1>11. u = <<t[1], t[2] + (u[2] - c)>>
  BY <1>1, <1>6, <1>10
<1>12. u \in RunOf(tiles, s, t)
  BY <1>10, <1>11 DEF RunOf, n
<1>13. QED
  BY <1>6, <1>8, <1>12

\* Rows of c tiles.
LEMMA RowParts ==
  ASSUME NEW c \in Nat \ {0}, NEW n \in Int
  PROVE  /\ n \div c \in Int /\ n % c \in 0..c - 1
         /\ n = c * (n \div c) + (n % c)
OBVIOUS

LEMMA RowSteps ==
  ASSUME NEW c \in Nat \ {0}, NEW a \in Int, NEW b \in Int
  PROVE  /\ c * a \in Int /\ c * b \in Int
         /\ a < b => c * a + c <= c * b
OBVIOUS

\* The i-th tile is each tile once.
LEMMA OrderFacts ==
  ASSUME NEW s \in Screen
  PROVE  /\ \A i, j \in 1..Rows(s) * Cols(s) : InOrder(i, s) = InOrder(j, s) => i = j
         /\ \A t \in Tiles(s) : \E i \in 1..Rows(s) * Cols(s) : InOrder(i, s) = t
<1> DEFINE c == Cols(s)
           n == Rows(s)
<1>1. c \in Nat /\ n \in Nat
  BY Grids
<1>2. Tiles(s) = (0..n - 1) \X (0..c - 1)
  BY DEF Tiles
<1>3. \A i : InOrder(i, s) = <<(i - 1) \div c, (i - 1) % c>>
  BY DEF InOrder
<1> HIDE DEF c, n
<1>4. CASE c = 0
  <2>1. n * c = 0
    BY <1>1, <1>4
  <2>2. Tiles(s) = {}
    BY <1>2, <1>4
  <2>3. QED
    BY <2>1, <2>2 DEF c, n
<1>5. CASE c # 0
  <2>1. c \in Nat \ {0} /\ n * c \in Int
    BY <1>1, <1>5
  <2>2. ASSUME NEW i \in 1..n * c, NEW j \in 1..n * c, InOrder(i, s) = InOrder(j, s)
        PROVE  i = j
    <3>1. (i - 1) \div c = (j - 1) \div c /\ (i - 1) % c = (j - 1) % c
      BY <1>3, <2>2
    <3>2. /\ i - 1 = c * ((i - 1) \div c) + ((i - 1) % c)
          /\ j - 1 = c * ((j - 1) \div c) + ((j - 1) % c)
      BY <2>1, RowParts
    <3>3. i - 1 = j - 1
      BY <3>1, <3>2
    <3>4. QED
      BY <2>1, <3>3
  <2>3. ASSUME NEW t \in Tiles(s)
        PROVE  \E i \in 1..n * c : InOrder(i, s) = t
    <3> DEFINE a == t[1]
               b == t[2]
               m == c * a + b
               d == m \div c
    <3>1. t = <<a, b>> /\ a \in 0..n - 1 /\ b \in 0..c - 1
      BY <1>2
    <3>2. c * a \in Int /\ n * c = c * n /\ c * n \in Int /\ c * a + c <= c * n /\ c * a >= 0
      <4> HIDE DEF a
      <4>1. a \in Int /\ a < n
        BY <1>1, <3>1
      <4>2. c * a >= 0 
        BY <1>1, <3>1
      <4>3. QED
        BY <1>1, <2>1, <4>1, <4>2, RowSteps
    <3> HIDE DEF a, b
    <3>3. m \in Int /\ m >= 0 /\ m < n * c
      BY <1>1, <3>1, <3>2
    <3> HIDE DEF m
    <3>4. d \in Int /\ m % c \in 0..c - 1 /\ m = c * d + (m % c)
      BY <2>1, <3>3, RowParts
    <3> HIDE DEF d
    <3>5. c * d \in Int /\ (a < d => c * a + c <= c * d) /\ (d < a => c * d + c <= c * a)
      BY <1>1, <2>1, <3>1, <3>4, RowSteps
    <3>6. m = c * a + b
      BY DEF m
    <3>7. d = a /\ m % c = b
      <4> DEFINE k == m % c
                 u == c * d
                 v == c * a
      <4>1. /\ k \in 0..c - 1 /\ u \in Int /\ v \in Int /\ u + k = v + b /\ b \in 0..c - 1
            /\ (a < d => v + c <= u) /\ (d < a => u + c <= v)
            /\ c \in Nat /\ a \in Int /\ d \in Int
        BY <1>1, <3>1, <3>2, <3>4, <3>5, <3>6
      <4> HIDE DEF k, u, v
      <4>2. ~(a < d) /\ ~(d < a)
        BY <4>1
      <4>3. d = a
        BY <4>1, <4>2
      <4>4. u = v
        BY <4>3 DEF u, v
      <4>5. k = b
        BY <4>1, <4>4
      <4>6. QED
        BY <4>3, <4>5 DEF k
    <3>8. InOrder(m + 1, s) = t
      <4>1. (m + 1) - 1 = m
        BY <3>3
      <4>2. InOrder(m + 1, s) = <<d, m % c>>
        BY <1>3, <4>1 DEF d
      <4>3. QED
        BY <3>1, <3>7, <4>2
    <3>9. m + 1 \in 1..n * c
      BY <2>1, <3>3
    <3>10. QED
      BY <3>8, <3>9
  <2>4. QED
    BY <2>2, <2>3 DEF c, n
<1>6. QED
  BY <1>4, <1>5

RunRect(t, tiles, req, s) == Clip(t, RunLength(tiles, s, t), req, s)

\* The rectangles made of the runs among the first n tiles.
RunsSoFar(rects, n, tiles, req, s) ==
  /\ Len(rects) <= RectRoom
  /\ \A k \in DOMAIN rects : \E j \in 1..n :
       /\ StartsRun(tiles, InOrder(j, s))
       /\ rects[k] = RunRect(InOrder(j, s), tiles, req, s)
  /\ Apart(rects)
  /\ Len(rects) < RectRoom =>
       \A j \in 1..n : StartsRun(tiles, InOrder(j, s)) =>
         \E k \in DOMAIN rects : rects[k] = RunRect(InOrder(j, s), tiles, req, s)

\* Rectangles of two runs show no pixel twice.
LEMMA RunRectsApart ==
  ASSUME NEW s \in Screen, NEW req \in Rect, Plain(req, s), NEW tiles \in SUBSET TilesOf(req, s),
         NEW t, StartsRun(tiles, t), NEW u, StartsRun(tiles, u), t # u
  PROVE  Inside(RunRect(t, tiles, req, s)) \cap Inside(RunRect(u, tiles, req, s)) = {}
<1>1. t \in tiles /\ u \in tiles
  BY DEF StartsRun
<1>2. tiles \in SUBSET Tiles(s)
  BY TouchedTiles
<1>3. RunOf(tiles, s, t) \cap RunOf(tiles, s, u) = {}
  BY <1>2, RunsApart
<1>4. /\ Inside(RunRect(t, tiles, req, s)) = Wanted(RunOf(tiles, s, t), req, s)
      /\ Inside(RunRect(u, tiles, req, s)) = Wanted(RunOf(tiles, s, u), req, s)
  BY <1>1, ClipShows DEF RunRect
<1>5. QED
  BY <1>3, <1>4 DEF Wanted

\* One tile more: it begins a run of other tiles than those before, or none.
LEMMA AddRunKeeps ==
  ASSUME NEW s \in Screen, NEW req \in Rect, Plain(req, s), NEW tiles \in SUBSET TilesOf(req, s),
         NEW rects \in Seq(Rect), NEW n \in Nat, n + 1 \in 1..Rows(s) * Cols(s),
         RunsSoFar(rects, n, tiles, req, s)
  PROVE  RunsSoFar(AddRun(rects, InOrder(n + 1, s), tiles, req, s), n + 1, tiles, req, s)
<1> DEFINE t == InOrder(n + 1, s)
           At(j) == InOrder(j, s)
           Made(j) == RunRect(At(j), tiles, req, s)
           new == AddRun(rects, t, tiles, req, s)
<1>1. /\ Len(rects) <= RectRoom
      /\ \A k \in DOMAIN rects : \E j \in 1..n : StartsRun(tiles, At(j)) /\ rects[k] = Made(j)
      /\ Apart(rects)
      /\ Len(rects) < RectRoom =>
           \A j \in 1..n : StartsRun(tiles, At(j)) => \E k \in DOMAIN rects : rects[k] = Made(j)
  BY DEF RunsSoFar
<1>2. new = IF StartsRun(tiles, t) /\ Len(rects) < RectRoom
            THEN Append(rects, Made(n + 1)) ELSE rects
  <2>1. \A q, u : AddRun(q, u, tiles, req, s) =
                    IF StartsRun(tiles, u) /\ Len(q) < RectRoom
                    THEN Append(q, Clip(u, RunLength(tiles, s, u), req, s)) ELSE q
    BY AddRunIs
  <2>2. QED
    BY <2>1 DEF RunRect
<1>3. \A j \in 1..n : j \in 1..Rows(s) * Cols(s) /\ j # n + 1
  <2>1. Rows(s) * Cols(s) \in Int
    BY Grids
  <2>2. QED
    BY <2>1
<1>4. \A j \in 1..n : At(j) # At(n + 1)
  BY <1>3, OrderFacts
<1>5. \A j \in 1..n : StartsRun(tiles, At(j)) /\ StartsRun(tiles, t)
                        => Inside(Made(j)) \cap Inside(Made(n + 1)) = {}
  BY <1>4, RunRectsApart
<1> HIDE DEF Made, At, new
<1>6. t = At(n + 1)
  BY DEF At
<1> HIDE DEF t
<1>7. \A j \in 1..n + 1 : j \in 1..n \/ j = n + 1
  OBVIOUS
<1>8. \A j \in 1..n : j \in 1..n + 1
  OBVIOUS
<1>9. n + 1 \in 1..n + 1 /\ Len(rects) \in Nat /\ RectRoom \in Nat /\ DOMAIN rects = 1..Len(rects)
  BY TileAssumption
<1>10. CASE StartsRun(tiles, t) /\ Len(rects) < RectRoom
  <2> DEFINE l == Len(rects) + 1
  <2>1. /\ DOMAIN new = 1..l /\ Len(new) = l /\ new[l] = Made(n + 1)
        /\ \A k \in DOMAIN rects : new[k] = rects[k] /\ k \in DOMAIN new /\ k # l
        /\ \A k \in DOMAIN new : k \in DOMAIN rects \/ k = l
        /\ l \in DOMAIN new
    BY <1>2, <1>9, <1>10
  <2>2. Len(new) <= RectRoom
    BY <1>9, <1>10, <2>1
  <2> HIDE DEF l
  <2>3. ASSUME NEW k \in DOMAIN new
        PROVE  \E j \in 1..n + 1 : StartsRun(tiles, At(j)) /\ new[k] = Made(j)
    <3>1. CASE k \in DOMAIN rects
      BY <1>1, <1>8, <2>1, <3>1
    <3>2. CASE k = l
      BY <1>6, <1>9, <1>10, <2>1, <3>2
    <3>3. QED
      BY <2>1, <3>1, <3>2
  <2>4. ASSUME NEW k \in DOMAIN rects
        PROVE  /\ Inside(new[k]) \cap Inside(new[l]) = {}
               /\ Inside(new[l]) \cap Inside(new[k]) = {}
    <3>1. PICK j \in 1..n : StartsRun(tiles, At(j)) /\ rects[k] = Made(j)
      BY <1>1
    <3>2. Inside(Made(j)) \cap Inside(Made(n + 1)) = {}
      BY <1>5, <1>10, <3>1
    <3>3. QED
      BY <2>1, <3>1, <3>2
  <2>5. Apart(new)
    BY <1>1, <2>1, <2>4 DEF Apart
  <2>6. ASSUME NEW j \in 1..n + 1, StartsRun(tiles, At(j))
        PROVE  \E k \in DOMAIN new : new[k] = Made(j)
    <3>1. CASE j \in 1..n
      BY <1>1, <1>10, <2>1, <2>6, <3>1
    <3>2. CASE j = n + 1
      BY <2>1, <3>2
    <3>3. QED
      BY <1>7, <3>1, <3>2
  <2>7. QED
    BY <2>2, <2>3, <2>5, <2>6 DEF RunsSoFar, Made, At, t, new
<1>11. CASE ~(StartsRun(tiles, t) /\ Len(rects) < RectRoom)
  <2>1. new = rects
    BY <1>2, <1>11
  <2>2. Len(rects) < RectRoom => ~StartsRun(tiles, At(n + 1))
    BY <1>6, <1>11
  <2>3. \A k \in DOMAIN rects : \E j \in 1..n + 1 : StartsRun(tiles, At(j)) /\ rects[k] = Made(j)
    BY <1>1, <1>8
  <2>4. Len(rects) < RectRoom =>
          \A j \in 1..n + 1 : StartsRun(tiles, At(j)) => \E k \in DOMAIN rects : rects[k] = Made(j)
    BY <1>1, <1>7, <2>2
  <2>5. RunsSoFar(rects, n + 1, tiles, req, s)
    BY <1>1, <2>3, <2>4 DEF RunsSoFar, Made, At
  <2>6. QED
    BY <2>1, <2>5 DEF new, t
<1>12. QED
  BY <1>10, <1>11

LEMMA RunsAll ==
  ASSUME NEW s \in Screen, NEW req \in Rect, Plain(req, s), NEW tiles \in SUBSET TilesOf(req, s)
  PROVE  RunsSoFar(RunRects(tiles, req, s), Rows(s) * Cols(s), tiles, req, s)
<1> DEFINE N == Rows(s) * Cols(s)
<1>1. N \in Nat
  BY Grids
<1>2. PICK h : RunHistory(h, Seq(Clipped(req, s)), tiles, req, s)
  BY RunClipSteps
<1>3. /\ h[0] = <<>> /\ RunRects(tiles, req, s) = h[N]
      /\ \A i \in 1..N : h[i] = AddRun(h[i - 1], InOrder(i, s), tiles, req, s)
      /\ \A i \in 0..N : h[i] \in Seq(Rect)
  <2>1. Clipped(req, s) \subseteq Rect
    BY DEF Clipped, Solid
  <2>2. \A i \in 0..N : h[i] \in Seq(Clipped(req, s))
    BY <1>2 DEF RunHistory
  <2>3. ASSUME NEW i \in 0..N PROVE h[i] \in Seq(Rect)
    <3>1. h[i] \in Seq(Clipped(req, s))
      BY <2>2
    <3>2. QED
      BY <2>1, <3>1
  <2>4. QED
    BY <1>2, <2>3 DEF RunHistory
<1> HIDE DEF N
<1> DEFINE S == {i \in 0..N : RunsSoFar(h[i], i, tiles, req, s)}
<1>4. 0 \in S
  <2>1. RunsSoFar(<<>>, 0, tiles, req, s)
    BY TileAssumption DEF RunsSoFar, Apart
  <2>2. QED
    BY <1>1, <1>3, <2>1
<1>5. ASSUME NEW i \in 1..N, i - 1 \in S PROVE i \in S
  <2> DEFINE j == i - 1
  <2>1. j \in Nat /\ j + 1 = i /\ i \in 0..N /\ j \in 0..N /\ j + 1 \in 1..N
    BY <1>1
  <2>2. h[i] = AddRun(h[j], InOrder(i, s), tiles, req, s) /\ h[j] \in Seq(Rect)
    BY <1>3, <2>1
  <2>3. RunsSoFar(h[j], j, tiles, req, s)
    BY <1>5
  <2> HIDE DEF j
  <2>4. RunsSoFar(h[i], i, tiles, req, s)
    BY <2>1, <2>2, <2>3, AddRunKeeps DEF N
  <2>5. QED
    BY <2>1, <2>4
<1> HIDE DEF S
<1>6. \A i \in 0..N : i \in S
  BY <1>1, <1>4, <1>5, UpTo
<1>7. N \in 0..N
  BY <1>1
<1>8. RunsSoFar(h[N], N, tiles, req, s)
  BY <1>6, <1>7 DEF S
<1>9. QED
  BY <1>3, <1>8 DEF N

\* A rectangle shows its lowest row.
LEMMA LowestRow ==
  ASSUME NEW r \in Solid
  PROVE  <<r.x, r.y + r.h - 1>> \in Inside(r)
<1>1. r.x \in Nat /\ r.y \in Nat /\ r.w \in Nat \ {0} /\ r.h \in Nat \ {0}
  BY SolidFields
<1>2. r.x \in r.x..r.x + r.w - 1 /\ r.y + r.h - 1 \in r.y..r.y + r.h - 1
  BY <1>1
<1>3. QED
  BY <1>2 DEF Inside

\* Two rectangles that one continues downwards show the same row.
LEMMA OneContinued ==
  ASSUME NEW q \in Solid, NEW r \in Solid, NEW below \in Solid,
         Continues(q, below), Continues(r, below)
  PROVE  Inside(q) \cap Inside(r) # {}
<1>1. q.x = r.x /\ q.y + q.h = r.y + r.h
  BY DEF Continues
<1>2. <<q.x, q.y + q.h - 1>> \in Inside(q) /\ <<r.x, r.y + r.h - 1>> \in Inside(r)
  BY LowestRow
<1>3. <<q.x, q.y + q.h - 1>> = <<r.x, r.y + r.h - 1>>
  BY <1>1, SolidFields
<1>4. QED
  BY <1>2, <1>3

\* A rectangle that is continued shows what both showed.
LEMMA ContinuedShows ==
  ASSUME NEW r \in Solid, NEW below \in Solid, Continues(r, below)
  PROVE  /\ [r EXCEPT !.h = @ + below.h] \in Solid
         /\ Inside([r EXCEPT !.h = @ + below.h]) = Inside(r) \cup Inside(below)
<1> DEFINE q == [r EXCEPT !.h = @ + below.h]
<1>1. /\ r.x \in Nat /\ r.y \in Nat /\ r.w \in Nat \ {0} /\ r.h \in Nat \ {0} /\ r \in Rect
      /\ below.y \in Nat /\ below.h \in Nat \ {0}
  BY SolidFields
<1>2. below.x = r.x /\ below.w = r.w /\ r.y + r.h = below.y
  BY DEF Continues
<1>3. q \in Rect /\ q.x = r.x /\ q.y = r.y /\ q.w = r.w /\ q.h = r.h + below.h
  BY <1>1 DEF Rect
<1> HIDE DEF q
<1>4. q \in Solid
  BY <1>1, <1>3 DEF Solid
<1>5. q.y..q.y + q.h - 1 = (r.y..r.y + r.h - 1) \cup (below.y..below.y + below.h - 1)
  BY <1>1, <1>2, <1>3
<1>6. Inside(q) = Inside(r) \cup Inside(below)
  BY <1>2, <1>3, <1>5 DEF Inside
<1>7. QED
  BY <1>4, <1>6 DEF q

\* Merging one more rectangle, of other pixels, shows what was shown and it.
LEMMA MergeShows ==
  ASSUME NEW done \in Seq(Solid), Apart(done), NEW r \in Solid,
         ShownBy(done) \cap Inside(r) = {}
  PROVE  /\ Merge(done, r) \in Seq(Solid) /\ Apart(Merge(done, r))
         /\ ShownBy(Merge(done, r)) = ShownBy(done) \cup Inside(r)
<1> DEFINE new == Merge(done, r)
           l == Len(done) + 1
<1>1. DOMAIN done = 1..Len(done) /\ Len(done) \in Nat /\ \A i \in DOMAIN done : done[i] \in Solid
  OBVIOUS
<1>2. \A i \in DOMAIN done : Inside(done[i]) \cap Inside(r) = {}
  BY DEF ShownBy
<1>3. \A i, j \in DOMAIN done : i # j => Inside(done[i]) \cap Inside(done[j]) = {}
  BY DEF Apart
<1>4. CASE \E i \in DOMAIN done : Continues(done[i], r)
  <2>1. PICK i \in DOMAIN done : Continues(done[i], r)
    BY <1>4
  <2>2. \A j \in DOMAIN done : Continues(done[j], r) => j = i
    BY <1>1, <1>3, <2>1, OneContinued
  <2> DEFINE q == [done[i] EXCEPT !.h = @ + r.h]
  <2>3. new = [j \in DOMAIN done |-> IF Continues(done[j], r)
                 THEN [done[j] EXCEPT !.h = @ + r.h] ELSE done[j]]
    BY <1>4 DEF Merge
  <2>4. DOMAIN new = DOMAIN done /\ new[i] = q /\ \A j \in DOMAIN done : j # i => new[j] = done[j]
    BY <2>1, <2>2, <2>3
  <2>5. q \in Solid /\ Inside(q) = Inside(done[i]) \cup Inside(r)
    BY <1>1, <2>1, ContinuedShows
  <2> HIDE DEF q
  <2>6. new \in [1..Len(done) -> Solid]
    <3>1. \A j \in DOMAIN done : new[j] \in Solid
      BY <1>1, <2>4, <2>5
    <3>2. new = [j \in DOMAIN new |-> new[j]]
      BY <2>3
    <3> HIDE DEF new
    <3>3. QED
      BY <1>1, <2>4, <3>1, <3>2
  <2> HIDE DEF new
  <2>7. new \in Seq(Solid)
    BY <1>1, <2>6
  <2>8. Apart(new)
    BY <1>2, <1>3, <2>4, <2>5 DEF Apart
  <2>9. ShownBy(new) = ShownBy(done) \cup Inside(r)
    <3>1. ASSUME NEW p \in ShownBy(new) PROVE p \in ShownBy(done) \cup Inside(r)
      <4>1. PICK j \in DOMAIN new : p \in Inside(new[j])
        BY DEF ShownBy
      <4>2. p \in Inside(done[j]) \/ p \in Inside(r)
        BY <2>1, <2>4, <2>5, <4>1
      <4>3. QED
        BY <2>4, <4>2 DEF ShownBy
    <3>2. ASSUME NEW p \in ShownBy(done) PROVE p \in ShownBy(new)
      <4>1. PICK j \in DOMAIN done : p \in Inside(done[j])
        BY DEF ShownBy
      <4>2. p \in Inside(new[j])
        BY <2>4, <2>5, <4>1
      <4>3. QED
        BY <2>4, <4>2 DEF ShownBy
    <3>3. ASSUME NEW p \in Inside(r) PROVE p \in ShownBy(new)
      <4>1. p \in Inside(new[i]) /\ i \in DOMAIN new
        BY <2>1, <2>4, <2>5
      <4>2. QED
        BY <4>1 DEF ShownBy
    <3>4. QED
      BY <3>1, <3>2, <3>3
  <2>10. QED
    BY <2>7, <2>8, <2>9 DEF new
<1>5. CASE ~(\E i \in DOMAIN done : Continues(done[i], r))
  <2>1. new = Append(done, r)
    BY <1>5 DEF Merge
  <2>2. /\ DOMAIN new = 1..l /\ new[l] = r /\ l \in DOMAIN new /\ l \notin DOMAIN done
        /\ \A k \in DOMAIN done : new[k] = done[k] /\ k \in DOMAIN new
        /\ \A k \in DOMAIN new : k \in DOMAIN done \/ k = l
        /\ new \in Seq(Solid)
    BY <1>1, <2>1
  <2> HIDE DEF new, l
  <2>3. Apart(new)
    BY <1>2, <1>3, <2>2 DEF Apart
  <2>4. ShownBy(new) = ShownBy(done) \cup Inside(r)
    BY <2>2 DEF ShownBy
  <2>5. QED
    BY <2>2, <2>3, <2>4 DEF new
<1>6. QED
  BY <1>4, <1>5

\* Merging shows no pixel that was not shown, none twice, and loses none.
LEMMA MergedShow ==
  ASSUME NEW s \in Screen, NEW req \in Rect, Plain(req, s), NEW tiles \in SUBSET TilesOf(req, s),
         RunRects(tiles, req, s) \in Seq(Solid), Apart(RunRects(tiles, req, s))
  PROVE  /\ UpdateRects(tiles, req, s) \in Seq(Solid) /\ Apart(UpdateRects(tiles, req, s))
         /\ ShownBy(UpdateRects(tiles, req, s)) = ShownBy(RunRects(tiles, req, s))
<1> DEFINE runs == RunRects(tiles, req, s)
           N == Len(runs)
           First(i) == UNION {Inside(runs[k]) : k \in 1..i}
<1>1. PICK h : MergeHistory(h, Seq(Clipped(req, s)), tiles, req, s)
  BY MergeClipSteps
<1>2. /\ h[0] = <<>> /\ UpdateRects(tiles, req, s) = h[N]
      /\ \A i \in 1..N : h[i] = Merge(h[i - 1], runs[i])
  BY <1>1 DEF MergeHistory
<1> HIDE DEF runs
<1>3. /\ runs \in Seq(Solid) /\ N \in Nat /\ DOMAIN runs = 1..N
      /\ \A i \in 1..N : runs[i] \in Solid
      /\ \A i, j \in 1..N : i # j => Inside(runs[i]) \cap Inside(runs[j]) = {}
  <2>1. runs \in Seq(Solid) /\ Apart(runs)
    BY DEF runs
  <2>2. QED
    BY <2>1 DEF Apart
<1> DEFINE Good(i) == h[i] \in Seq(Solid) /\ Apart(h[i]) /\ ShownBy(h[i]) = First(i)
           S == {i \in 0..N : Good(i)}
<1> HIDE DEF N
<1>4. 0 \in S
  <2>1. <<>> \in Seq(Solid) /\ Apart(<<>>) /\ ShownBy(<<>>) = {} /\ First(0) = {}
    BY DEF Apart, ShownBy
  <2> HIDE DEF First
  <2>2. Good(0)
    BY <1>2, <2>1
  <2> HIDE DEF Good
  <2>3. QED
    BY <1>3, <2>2
<1>5. ASSUME NEW i \in 1..N, i - 1 \in S PROVE i \in S
  <2> DEFINE j == i - 1
  <2>1. i \in 0..N /\ 1..i = 1..j \cup {i} /\ \A k \in 1..j : k \in 1..N /\ k # i
    BY <1>3
  <2>2. Good(j) /\ h[i] = Merge(h[j], runs[i])
    BY <1>2, <1>5
  <2> HIDE DEF j
  <2>3. First(i) = First(j) \cup Inside(runs[i])
    BY <2>1
  <2>4. First(j) \cap Inside(runs[i]) = {}
    BY <1>3, <2>1
  <2>5. runs[i] \in Solid
    BY <1>3
  <2> HIDE DEF First
  <2>6. Good(i)
    BY <2>2, <2>3, <2>4, <2>5, MergeShows
  <2> HIDE DEF Good
  <2>7. QED
    BY <2>1, <2>6
<1> HIDE DEF S
<1>6. \A i \in 0..N : i \in S
  BY <1>3, <1>4, <1>5, UpTo
<1>7. N \in 0..N
  BY <1>3
<1>8. Good(N)
  BY <1>6, <1>7 DEF S
<1>9. First(N) = ShownBy(runs)
  BY <1>3 DEF ShownBy
<1>10. QED
  BY <1>2, <1>8, <1>9 DEF runs

\* The array holds a rectangle for every run, if there are not more runs than
\* it has room for.
LEMMA RunsFit ==
  ASSUME NEW s \in Screen, NEW req \in Rect, Plain(req, s), NEW tiles \in SUBSET TilesOf(req, s),
         Cardinality({t \in tiles : StartsRun(tiles, t)}) <= RectRoom,
         NEW t, StartsRun(tiles, t)
  PROVE  \E k \in DOMAIN RunRects(tiles, req, s) :
           RunRects(tiles, req, s)[k] = RunRect(t, tiles, req, s)
<1> DEFINE starts == {u \in tiles : StartsRun(tiles, u)}
           runs == RunRects(tiles, req, s)
           N == Rows(s) * Cols(s)
           Made(u) == RunRect(u, tiles, req, s)
<1>1. req \in Rect /\ tiles \in SUBSET Tiles(s) /\ Cols(s) \in Nat /\ Rows(s) \in Nat
  BY TouchedTiles, Grids
<1>2. t \in starts
  BY DEF StartsRun
<1>3. /\ Len(runs) <= RectRoom
      /\ \A k \in DOMAIN runs : \E j \in 1..N :
           StartsRun(tiles, InOrder(j, s)) /\ runs[k] = Made(InOrder(j, s))
      /\ Apart(runs)
      /\ Len(runs) < RectRoom =>
           \A j \in 1..N : StartsRun(tiles, InOrder(j, s)) =>
             \E k \in DOMAIN runs : runs[k] = Made(InOrder(j, s))
  BY RunsAll DEF RunsSoFar
<1>4. Len(runs) \in Nat /\ DOMAIN runs = 1..Len(runs) /\ RectRoom \in Nat
  BY <1>1, RunsClip, TileAssumption
<1>5. IsFiniteSet(starts) /\ Cardinality(starts) \in Nat /\ Cardinality(starts) <= RectRoom
  <2>1. IsFiniteSet(0..Rows(s) - 1) /\ IsFiniteSet(0..Cols(s) - 1)
    <3>1. 0 \in Int /\ Rows(s) - 1 \in Int /\ Cols(s) - 1 \in Int
      BY <1>1
    <3>2. QED
      BY <3>1, FS_Interval
  <2>2. IsFiniteSet(Tiles(s))
    BY <2>1, FS_Product DEF Tiles
  <2>3. starts \in SUBSET Tiles(s)
    BY <1>1
  <2>4. IsFiniteSet(starts)
    BY <2>2, <2>3, FS_Subset
  <2>5. QED
    BY <2>4, FS_CardinalityType
<1> HIDE DEF starts, runs, N, Made
<1>6. CASE Len(runs) < RectRoom
  <2>1. PICK j \in 1..N : InOrder(j, s) = t
    BY <1>1, <1>2, OrderFacts DEF N, starts
  <2>2. QED
    BY <1>3, <1>6, <2>1 DEF runs, Made
<1>7. CASE Len(runs) = RectRoom
  <2>1. \A k \in 1..RectRoom : \E u \in starts : runs[k] = Made(u)
    <3>1. ASSUME NEW k \in 1..RectRoom PROVE \E u \in starts : runs[k] = Made(u)
      <4>1. PICK j \in 1..N : StartsRun(tiles, InOrder(j, s)) /\ runs[k] = Made(InOrder(j, s))
        BY <1>3, <1>4, <1>7
      <4>2. InOrder(j, s) \in starts
        BY <4>1 DEF starts, StartsRun
      <4>3. QED
        BY <4>1, <4>2
    <3>2. QED
      BY <3>1
  <2> DEFINE f == [k \in 1..RectRoom |-> CHOOSE u \in starts : runs[k] = Made(u)]
  <2>2. \A k \in 1..RectRoom : f[k] \in starts /\ runs[k] = Made(f[k])
    BY <2>1
  <2>3. f \in [1..RectRoom -> starts]
    BY <2>2
  <2> HIDE DEF f
  <2>4. \A j, k \in 1..RectRoom : f[j] = f[k] => j = k
    <3> SUFFICES ASSUME NEW j \in 1..RectRoom, NEW k \in 1..RectRoom, f[j] = f[k], j # k
                 PROVE  FALSE
      OBVIOUS
    <3>1. runs[j] = runs[k] /\ runs[j] = Made(f[j]) /\ f[j] \in starts
      BY <2>2
    <3>2. Inside(runs[j]) \cap Inside(runs[k]) = {}
      BY <1>3, <1>4, <1>7 DEF Apart
    <3>3. runs[j] \in Solid
      BY <3>1, ClipShows DEF Made, RunRect, starts
    <3>4. QED
      BY <3>1, <3>2, <3>3, LowestRow
  <2>5. f \in Injection(1..RectRoom, starts)
    BY <2>3, <2>4 DEF Injection, IsInjective
  <2>6. IsFiniteSet(1..RectRoom) /\ Cardinality(1..RectRoom) = RectRoom
    BY <1>4, FS_Interval, TileAssumption
  <2>7. /\ Cardinality(1..RectRoom) <= Cardinality(starts)
        /\ Cardinality(1..RectRoom) = Cardinality(starts) <=> f \in Surjection(1..RectRoom, starts)
    BY <1>5, <2>5, FS_Injection
  <2>8. f \in Surjection(1..RectRoom, starts)
    BY <1>4, <1>5, <2>6, <2>7
  <2>9. PICK k \in 1..RectRoom : f[k] = t
    BY <1>2, <2>8 DEF Surjection
  <2>10. runs[k] = Made(t) /\ k \in DOMAIN runs
    BY <1>4, <1>7, <2>2, <2>9
  <2>11. QED
    BY <2>10 DEF runs, Made
<1>8. QED
  <2>1. Len(runs) <= RectRoom /\ Len(runs) \in Nat /\ RectRoom \in Nat
    BY <1>3, <1>4, Zenon
  <2>2. QED
    BY <1>6, <1>7, <2>1

\* For every screen whose rows are shorter than a word, every set of dirty
\* tiles and every request that has a pixel of the screen: an update shows nothing but requested pixels of dirty
\* tiles, none twice, and all of them unless there are more runs of dirty
\* tiles than the array of rectangles has room for.
LEMMA UpdateIsExact ==
  ASSUME NEW s \in Screen, NEW req \in Rect, Plain(req, s), NEW dirty \in SUBSET Tiles(s)
  PROVE  LET rects == UpdateRects(Touching(dirty, req, s), req, s)
         IN  /\ rects \in Seq(Solid) /\ Apart(rects)
             /\ ShownBy(rects) \subseteq Wanted(dirty, req, s)
             /\ Cardinality(Runs(Touching(dirty, req, s))) <= RectRoom =>
                  Wanted(dirty, req, s) \subseteq ShownBy(rects)
<1> DEFINE tiles == Touching(dirty, req, s)
           rects == UpdateRects(tiles, req, s)
           runs == RunRects(tiles, req, s)
           wanted == Wanted(dirty, req, s)
<1>1. req \in Rect /\ tiles \in SUBSET TilesOf(req, s) /\ tiles \in SUBSET Tiles(s)
  <2>1. tiles \in SUBSET TilesOf(req, s) /\ tiles \in SUBSET Tiles(s)
    BY DEF Touching
  <2>2. QED
    BY <2>1
<1> HIDE DEF tiles
<1>2. \A k \in DOMAIN runs : \E t : StartsRun(tiles, t) /\ runs[k] = RunRect(t, tiles, req, s)
  BY <1>1, RunsAll DEF RunsSoFar
<1>3. ASSUME NEW t, StartsRun(tiles, t)
      PROVE  /\ RunRect(t, tiles, req, s) \in Solid
             /\ Inside(RunRect(t, tiles, req, s)) = Wanted(RunOf(tiles, s, t), req, s)
             /\ RunOf(tiles, s, t) \subseteq tiles
  <2>1. t \in tiles
    BY <1>3 DEF StartsRun
  <2>2. RunOf(tiles, s, t) \subseteq tiles
    <3>1. \A k \in 0..RunLength(tiles, s, t) - 1 : <<t[1], t[2] + k>> \in tiles
      BY <1>1, <2>1, RunEnds, Zenon
    <3>2. QED
      BY <3>1 DEF RunOf
  <2>3. QED
    BY <1>1, <2>1, <2>2, ClipShows DEF RunRect
<1>4. runs \in Seq(Solid) /\ Apart(runs)
  <2>1. Apart(runs)
    BY <1>1, RunsAll DEF RunsSoFar
  <2>2. runs \in Seq(Clipped(req, s))
    BY <1>1, RunsClip
  <2>3. \A k \in DOMAIN runs : runs[k] \in Solid
    BY <1>2, <1>3
  <2> HIDE DEF runs
  <2>4. Len(runs) \in Nat /\ runs \in [1..Len(runs) -> Solid]
    BY <2>2, <2>3
  <2>5. QED
    BY <2>1, <2>4
<1>5. /\ rects \in Seq(Solid) /\ Apart(rects) /\ ShownBy(rects) = ShownBy(runs)
  BY <1>1, <1>4, MergedShow
<1>6. ShownBy(runs) \subseteq wanted
  <2>1. ASSUME NEW k \in DOMAIN runs PROVE Inside(runs[k]) \subseteq wanted
    <3>1. PICK t : StartsRun(tiles, t) /\ runs[k] = RunRect(t, tiles, req, s)
      BY <1>2
    <3>2. Inside(runs[k]) = Wanted(RunOf(tiles, s, t), req, s) /\ RunOf(tiles, s, t) \subseteq dirty
      BY <1>3, <3>1 DEF tiles, Touching
    <3>3. QED
      BY <3>2 DEF Wanted
  <2>2. QED
    BY <2>1 DEF ShownBy
<1>7. ASSUME Cardinality(Runs(tiles)) <= RectRoom
      PROVE  wanted \subseteq ShownBy(runs)
  <2> SUFFICES ASSUME NEW p \in wanted PROVE p \in ShownBy(runs)
    OBVIOUS
  <2>1. TileOf(p) \in TilesOf(req, s)
    <3>1. /\ req.x \in Nat /\ req.y \in Nat /\ req.w \in Int /\ req.h \in Int
          /\ s.w \in Nat /\ s.h \in Nat
      BY <1>1, RectFields
    <3>2. /\ p[1] \in 0..s.w - 1 /\ p[2] \in 0..s.h - 1
          /\ p[1] \in req.x..req.x + req.w - 1 /\ p[2] \in req.y..req.y + req.h - 1
      BY DEF Wanted, Pixels, Inside
    <3>3. /\ p[1] \div Tile \in Touched(req.x, req.w, Cols(s))
          /\ p[2] \div Tile \in Touched(req.y, req.h, Rows(s))
      BY <3>1, <3>2, PixelTouched DEF Cols, Rows
    <3>4. QED
      BY <3>3 DEF TileOf, TilesOf
  <2>2. TileOf(p) \in tiles
    BY <2>1 DEF tiles, Touching, Wanted
  <2>3. PICK t \in tiles : StartsRun(tiles, t) /\ TileOf(p) \in RunOf(tiles, s, t)
    BY <1>1, <2>2, RunsCover
  <2>4. p \in Inside(RunRect(t, tiles, req, s))
    BY <1>3, <2>3 DEF Wanted
  <2>5. \E k \in DOMAIN runs : runs[k] = RunRect(t, tiles, req, s)
    BY <1>1, <1>7, <2>3, RunsFit DEF Runs
  <2>6. QED
    BY <2>4, <2>5 DEF ShownBy
<1>8. QED
  BY <1>4, <1>5, <1>6, <1>7 DEF tiles

CasesInv ==
  /\ desktop \in Screen /\ asking \in Request
  /\ marked \in SUBSET Tiles(desktop)

LEMMA CasesAlways == CasesSpec => []CasesInv
<1>1. CasesInit => CasesInv
  BY CasesAssumption, TileAssumption DEF CasesInit, CasesInv, Screen, Request
<1>2. CasesInv /\ [MarkTile]_cases => CasesInv'
  BY DEF CasesInv, MarkTile, cases
<1>3. QED
  BY <1>1, <1>2, PTL DEF CasesSpec

\* On every screen, for every request, empty and off the screen too, and every
\* set of dirty tiles, for any side of a tile, any word and any room for
\* rectangles: where nothing wraps, that is on a screen whose rows are less
\* than a word and for a request that does not begin past an edge of it that
\* cuts a tile, an update shows what was asked for and is dirty, no more,
\* nothing twice, and all of it unless the array of rectangles is full
\* (vnc_client_send_update(), src/src/leanrfb.c:1825-1904).
THEOREM UpdatesAreExact == CasesSpec => []ExactlyWanted
<1>1. CasesInv => ExactlyWanted
  <2> SUFFICES ASSUME CasesInv, ~Wraps(asking, desktop) PROVE ExactlyWanted
    BY DEF ExactlyWanted
  <2> DEFINE tiles == Touching(marked, asking, desktop)
             wanted == Wanted(marked, asking, desktop)
  <2>1. desktop \in Screen /\ asking \in Request /\ asking \in Rect
        /\ tiles \in SUBSET TilesOf(asking, desktop)
    BY DEF CasesInv, Request, Rect, Touching
  <2>2. CASE Asks(asking, desktop)
    <3>1. Plain(asking, desktop)
      BY <2>2 DEF Plain, Wraps
    <3>2. /\ Rects \in Seq(Solid) /\ Apart(Rects) /\ ShownBy(Rects) \subseteq wanted
          /\ Cardinality(Runs(tiles)) <= RectRoom => wanted \subseteq ShownBy(Rects)
      BY <2>1, <3>1, UpdateIsExact DEF CasesInv, Rects
    <3>3. \A i \in DOMAIN Rects : Rects[i] \in Solid
      BY <3>2
    <3>4. QED
      BY <3>2, <3>3, Zenon DEF ExactlyWanted, Solid
  <2>3. CASE ~Asks(asking, desktop)
    <3>1. Rects = <<>>
      BY <2>1, <2>3, NothingAsked DEF Rects
    <3>2. wanted = {}
      <4>1. /\ asking.x \in Nat /\ asking.y \in Nat /\ asking.w \in Nat /\ asking.h \in Nat
            /\ desktop.w \in Nat /\ desktop.h \in Nat
        BY <2>1, RectFields DEF Request
      <4>2. Inside(asking) \cap Pixels(desktop) = {}
        BY <2>3, <4>1 DEF Asks, Inside, Pixels
      <4>3. QED
        BY <4>2 DEF Wanted
    <3>3. DOMAIN Rects = {} /\ ShownBy(Rects) = {} /\ Apart(Rects)
      BY <3>1 DEF ShownBy, Apart
    <3>4. QED
      BY <3>2, <3>3 DEF ExactlyWanted
  <2>4. QED
    BY <2>2, <2>3
<1>2. QED
  BY <1>1, CasesAlways, PTL

\* And, where nothing wraps, a flag is cleared only when every dirty pixel of
\* its tile that was asked for is among those sent, also when the array is full
\* (src/src/leanrfb.c:1997).
THEOREM ClearedIsSent == CasesSpec => []ClearedWasSent
<1>1. CasesInv => ClearedWasSent
  <2> SUFFICES ASSUME CasesInv, ~Wraps(asking, desktop), NEW i \in DOMAIN Rects,
                      NEW p \in Wanted(marked, asking, desktop),
                      TileOf(p) \in ClearedBy(Rects[i], desktop)
               PROVE  p \in ShownBy(Rects)
    BY DEF ClearedWasSent
  <2>1. /\ desktop \in Screen /\ asking \in Request
        /\ Touching(marked, asking, desktop) \in SUBSET TilesOf(asking, desktop)
    BY DEF CasesInv, Touching
  <2>2. Rects[i] \in ToSet(Rects)
    BY DEF ToSet
  <2>3. p \in Inside(asking) \cap Pixels(desktop)
    BY DEF Wanted
  <2>4. p \in Inside(Rects[i])
    BY <2>1, <2>2, <2>3, ClearedAreSent DEF Rects
  <2>5. QED
    BY <2>4 DEF ShownBy
<1>2. QED
  BY <1>1, CasesAlways, PTL

-----------------------------------------------------------------------------
(* Requests for a whole screen, of the size there is or of another one. *)

\* No size ends inside a tile of a larger one, as with sizes of whole tiles,
\* and always when the desktop has one size only.
TilesUncut ==
  \A s, larger \in Sizes : /\ s.w < larger.w => s.w % Tile = 0
                           /\ s.h < larger.h => s.h % Tile = 0

\* The tiles that n units touch, a whole number of tiles, hold no unit more.
LEMMA WholeLine ==
  ASSUME NEW n \in Nat \ {0}, n % Tile = 0, NEW k \in Int, NEW i \in Nat,
         i \div Tile \in Touched(0, n, k)
  PROVE  i < n
<1> DEFINE q == n \div Tile
<1>1. n = Tile * q /\ q \in Int
  BY TileAssumption
<1>2. n - 1 \in Int /\ 0 + n - 1 = n - 1
  OBVIOUS
<1>3. i \div Tile \in Int /\ (n - 1) \div Tile \in Int
  BY <1>2, DivParts
<1>4. i \div Tile <= (n - 1) \div Tile
  <2>1. i \div Tile \in 0 \div Tile .. Least((n - 1) \div Tile, k - 1)
    <3>1. Greatest(0 + n - 1, 0) = n - 1
      BY DEF Greatest
    <3>2. QED
      BY <1>2, <3>1 DEF Touched
  <2>2. QED
    BY <1>3, <2>1, DivParts DEF Least
<1> HIDE DEF q
<1> SUFFICES ASSUME i >= n PROVE FALSE
  OBVIOUS
<1>5. i \div Tile >= q
  BY <1>1, DivAbove
<1>6. (n - 1) \div Tile >= q
  BY <1>1, <1>3, <1>4, <1>5
<1>7. n - 1 >= Tile * q
  BY <1>1, <1>2, <1>6, DivAbove
<1>8. QED
  BY <1>1, <1>2, <1>7

LEMMA SizesAreScreens ==
  \A s \in Sizes : s \in Screen /\ Whole(s) \in Rect
BY DirtyAssumption, TileAssumption DEF Screen, Rect, Whole

\* No size wraps, and each has a pixel of each other one.
LEMMA WholeIsPlain ==
  ASSUME NEW s \in Sizes, NEW asked \in Sizes
  PROVE  Plain(Whole(asked), s)
<1>1. /\ s.w \in Nat \ {0} /\ s.h \in Nat \ {0} /\ s.w <= Word - Tile
      /\ asked.w \in Nat \ {0} /\ asked.h \in Nat \ {0}
      /\ Tile \in Nat \ {0} /\ Word \in Nat
  BY DirtyAssumption, TileAssumption
<1>2. Cols(s) \in Int /\ Tile * Cols(s) <= s.w + Tile - 1
  <2>1. s.w + Tile - 1 \in Int
    BY <1>1
  <2>2. QED
    BY <2>1, DivParts DEF Cols
<1>3. Tile * Cols(s) \in Int /\ Cols(s) * Tile = Tile * Cols(s)
  BY <1>2, TileSteps
<1>4. ~TooWide(s)
  BY <1>1, <1>2, <1>3 DEF TooWide
<1>5. Asks(Whole(asked), s)
  BY <1>1 DEF Asks, Whole
<1>6. QED
  BY <1>4, <1>5 DEF Plain

\* The tiles of a rectangle within a request are tiles of the request.
LEMMA ClearedAreAsked ==
  ASSUME NEW s \in Screen, NEW req \in Rect, NEW r \in Clipped(req, s)
  PROVE  TilesOf(r, s) \subseteq TilesOf(req, s)
<1>1. /\ r.x \in Int /\ r.y \in Int /\ r.w \in Int /\ r.h \in Int
      /\ req.x \in Int /\ req.y \in Int /\ req.w \in Int /\ req.h \in Int
      /\ r.x >= req.x /\ r.y >= req.y
      /\ r.x + r.w <= req.x + req.w /\ r.y + r.h <= req.y + req.h
      /\ Cols(s) \in Int /\ Rows(s) \in Int
  BY ClippedInside, RectFields, Grids
<1>2. ASSUME NEW a \in Int, NEW n \in Int, NEW b \in Int, NEW m \in Int,
             NEW k \in Int, b <= a, a + n <= b + m
      PROVE  Touched(a, n, k) \subseteq Touched(b, m, k)
  <2> DEFINE f == Greatest(a + n - 1, 0)  g == Greatest(b + m - 1, 0)
  <2>1. f \in Int /\ g \in Int /\ f <= g
    BY <1>2 DEF Greatest
  <2> HIDE DEF f, g
  <2>2. b \div Tile <= a \div Tile /\ f \div Tile <= g \div Tile
    BY <1>2, <2>1, DivMono
  <2>3. /\ a \div Tile \in Int /\ b \div Tile \in Int
        /\ f \div Tile \in Int /\ g \div Tile \in Int
    BY <2>1, DivParts
  <2>4. a \div Tile .. Least(f \div Tile, k - 1)
          \subseteq b \div Tile .. Least(g \div Tile, k - 1)
    BY <2>2, <2>3 DEF Least
  <2>5. QED
    BY <2>4 DEF Touched, f, g
<1>3. /\ Touched(r.x, r.w, Cols(s)) \subseteq Touched(req.x, req.w, Cols(s))
      /\ Touched(r.y, r.h, Rows(s)) \subseteq Touched(req.y, req.h, Rows(s))
  BY <1>1, <1>2
<1>4. QED
  BY <1>3 DEF TilesOf

\* A rectangle sent for a whole screen shows every pixel of the tiles it clears.
LEMMA CleanIsSent ==
  ASSUME TilesUncut, NEW s \in Sizes, NEW asked \in Sizes,
         NEW r \in Clipped(Whole(asked), s), NEW p \in Pixels(s),
         TileOf(p) \in ClearedBy(r, s)
  PROVE  p \in Inside(r)
<1> DEFINE req == Whole(asked)
<1>1. s \in Screen /\ asked \in Screen /\ req \in Rect
  BY SizesAreScreens
<1>2. /\ req.x = 0 /\ req.y = 0 /\ req.w = asked.w /\ req.h = asked.h
      /\ asked.w \in Nat \ {0} /\ asked.h \in Nat \ {0}
      /\ s.w \in Nat /\ s.h \in Nat
      /\ asked.w < s.w => asked.w % Tile = 0
      /\ asked.h < s.h => asked.h % Tile = 0
  BY <1>1, RectFields DEF Whole, TilesUncut
<1> HIDE DEF req
<1>3. TileOf(p) \in TilesOf(req, s)
  BY <1>1, ClearedAreAsked DEF ClearedBy, req
<1>4. /\ p[1] \div Tile \in Touched(0, asked.w, Cols(s))
      /\ p[2] \div Tile \in Touched(0, asked.h, Rows(s))
  BY <1>2, <1>3 DEF TilesOf, TileOf
<1>5. p = <<p[1], p[2]>> /\ p[1] \in 0..s.w - 1 /\ p[2] \in 0..s.h - 1
  BY DEF Pixels
<1>6. p[1] < asked.w /\ p[2] < asked.h
  <2>1. /\ p[1] \in Nat /\ p[1] < s.w /\ p[2] \in Nat /\ p[2] < s.h
        /\ Cols(s) \in Int /\ Rows(s) \in Int
    BY <1>1, <1>2, <1>5, Grids
  <2>2. asked.w < s.w => p[1] < asked.w
    BY <1>2, <1>4, <2>1, WholeLine
  <2>3. asked.h < s.h => p[2] < asked.h
    BY <1>2, <1>4, <2>1, WholeLine
  <2>4. QED
    BY <1>2, <2>1, <2>2, <2>3
<1>7. p[1] \in 0..0 + asked.w - 1 /\ p[2] \in 0..0 + asked.h - 1
  BY <1>2, <1>5, <1>6
<1>8. p \in Inside(req)
  BY <1>2, <1>5, <1>7 DEF Inside
<1>9. QED
  BY <1>1, <1>8, ClearedIsInside DEF req

\* The size of a screen is what its pixels are.
LEMMA SizeOfScreen ==
  ASSUME NEW s \in Sizes, NEW screen, DOMAIN screen = Pixels(s)
  PROVE  SizeOf(screen) = s
<1>1. s \in [w : Nat \ {0}, h : Nat \ {0}]
  BY DirtyAssumption
<1>2. s.w \in Nat \ {0} /\ s.h \in Nat \ {0} /\ s = [w |-> s.w, h |-> s.h]
  BY <1>1
<1>3. Cardinality({p \in DOMAIN screen : p[2] = 0}) = s.w
  <2> DEFINE S == 0..s.w - 1
             T == {p \in Pixels(s) : p[2] = 0}
             f == [i \in S |-> <<i, 0>>]
  <2>1. f \in Bijection(S, T)
    <3>1. \A i \in S : <<i, 0>> \in T
      BY <1>2 DEF Pixels
    <3>2. \A p \in T : \E i \in S : p = <<i, 0>>
      BY DEF Pixels
    <3>3. \A i, j \in S : <<i, 0>> = <<j, 0>> => i = j
      OBVIOUS
    <3> HIDE DEF S, T
    <3>4. f \in [S -> T] /\ \A p \in T : \E i \in S : f[i] = p
      BY <3>1, <3>2
    <3>5. QED
      BY <3>3, <3>4 DEF Bijection, Injection, Surjection, IsInjective
  <2>2. IsFiniteSet(S) /\ Cardinality(S) = s.w
    <3>1. 0 \in Int /\ s.w - 1 \in Int /\ ~(0 > s.w - 1) /\ s.w - 1 - 0 + 1 = s.w
      BY <1>2
    <3>2. QED
      BY <3>1, FS_Interval
  <2>3. ExistsBijection(S, T)
    BY <2>1 DEF ExistsBijection
  <2>4. Cardinality(T) = s.w
    BY <2>2, <2>3, FS_Bijection
  <2>5. QED
    BY <2>4
<1>4. Cardinality({p \in DOMAIN screen : p[1] = 0}) = s.h
  <2> DEFINE S == 0..s.h - 1
             T == {p \in Pixels(s) : p[1] = 0}
             f == [i \in S |-> <<0, i>>]
  <2>1. f \in Bijection(S, T)
    <3>1. \A i \in S : <<0, i>> \in T
      BY <1>2 DEF Pixels
    <3>2. \A p \in T : \E i \in S : p = <<0, i>>
      BY DEF Pixels
    <3>3. \A i, j \in S : <<0, i>> = <<0, j>> => i = j
      OBVIOUS
    <3> HIDE DEF S, T
    <3>4. f \in [S -> T] /\ \A p \in T : \E i \in S : f[i] = p
      BY <3>1, <3>2
    <3>5. QED
      BY <3>3, <3>4 DEF Bijection, Injection, Surjection, IsInjective
  <2>2. IsFiniteSet(S) /\ Cardinality(S) = s.h
    <3>1. 0 \in Int /\ s.h - 1 \in Int /\ ~(0 > s.h - 1) /\ s.h - 1 - 0 + 1 = s.h
      BY <1>2
    <3>2. QED
      BY <3>1, FS_Interval
  <2>3. ExistsBijection(S, T)
    BY <2>1 DEF ExistsBijection
  <2>4. Cardinality(T) = s.h
    BY <2>2, <2>3, FS_Bijection
  <2>5. QED
    BY <2>4
<1>5. QED
  BY <1>2, <1>3, <1>4 DEF SizeOf

-----------------------------------------------------------------------------
(* The inductive invariant, client by client. *)

Shades == Values \cup {Blank}

Types ==
  /\ size \in Sizes
  /\ framebuffer \in [Pixels(size) -> Values]
  /\ session \in [Clients -> {"never", "normal", "left"}]
  /\ update_requested \in [Clients -> BOOLEAN]
  /\ update_incremental \in [Clients -> BOOLEAN]
  /\ pending_ext_desktop_size \in [Clients -> BOOLEAN]
  /\ unsent \in [Clients -> BOOLEAN]
  /\ drawings \in 0..MaxDrawings
  /\ resizes \in 0..MaxResizes
  /\ DOMAIN dirty_tiles = Clients /\ DOMAIN request = Clients
  /\ DOMAIN unread = Clients /\ DOMAIN seen = Clients

ClientTyped(c) ==
  /\ dirty_tiles[c] \subseteq Tiles(size)
  /\ session[c] # "normal" => dirty_tiles[c] = {}
  /\ request[c] \in {Whole(s) : s \in Sizes}
  /\ unread[c] \in Seq(Sizes) /\ Len(unread[c]) <= MaxUnread
  /\ \E s \in Sizes : seen[c] \in [Pixels(s) -> Shades]

\* A peer with a screen of another size will be told the size, and then be
\* sent all there is.
Informed(c) ==
  session[c] = "normal" /\ SizeOf(seen[c]) # size =>
    /\ pending_ext_desktop_size[c] /\ update_requested[c]
    /\ dirty_tiles[c] = Tiles(size)

StillDirty(screen, c) ==
  \A p \in Pixels(size) :
    screen[p] # framebuffer[p] => TileOf(p) \in dirty_tiles[c]

Remembered(c) ==
  session[c] = "normal" /\ SizeOf(seen[c]) = size => StillDirty(seen[c], c)

ClientInv(c) == ClientTyped(c) /\ Informed(c)

UpdateInv == Types /\ \A c \in Clients : ClientInv(c)

LEMMA InvTypes == UpdateInv => TypeOK /\ SizeKnown
BY DEF UpdateInv, Types, ClientInv, ClientTyped, Informed, TypeOK, SizeKnown,
       Joined, Shades

LEMMA InvRemembers == (\A c \in Clients : Remembered(c)) => NoLostUpdate
BY DEF Remembered, StillDirty, NoLostUpdate, Joined

\* What one client's step leaves alone.
LEMMA OthersKeep ==
  ASSUME NEW d \in Clients, ClientInv(d), UNCHANGED <<size, framebuffer>>,
         session'[d] = session[d], dirty_tiles'[d] = dirty_tiles[d],
         request'[d] = request[d], unread'[d] = unread[d], seen'[d] = seen[d],
         pending_ext_desktop_size'[d] = pending_ext_desktop_size[d],
         update_requested'[d] = update_requested[d]
  PROVE  ClientInv(d)' /\ (Remembered(d) => Remembered(d)')
<1>1. ClientTyped(d)'
  BY DEF ClientInv, ClientTyped
<1>2. Informed(d)'
  BY DEF ClientInv, Informed
<1>3. Remembered(d) => Remembered(d)'
  BY DEF Remembered, StillDirty
<1>4. QED
  BY <1>1, <1>2, <1>3 DEF ClientInv

LEMMA Geometry ==
  ASSUME NEW s \in Sizes
  PROVE  /\ \A p \in Pixels(s) : TileOf(p) \in Tiles(s)
         /\ \A r \in Rect : TilesOf(r, s) \subseteq Tiles(s)
         /\ \A r \in Rect : \A p \in Pixels(s) \cap Inside(r) :
              TileOf(p) \in TilesOf(r, s)
         /\ BlankScreen(s) \in [Pixels(s) -> Shades]
         /\ \A screen \in [Pixels(s) -> Shades] : SizeOf(screen) = s
<1>1. s \in Screen /\ s.w \in Nat /\ s.h \in Nat
  BY SizesAreScreens, RectFields
<1>2. Cols(s) \in Int /\ Rows(s) \in Int
  BY <1>1, Grids
<1>3. ASSUME NEW p \in Pixels(s) PROVE TileOf(p) \in Tiles(s)
  <2>1. p[1] \in 0..s.w - 1 /\ p[2] \in 0..s.h - 1
    BY DEF Pixels
  <2>2. p[1] \div Tile \in 0..Cols(s) - 1 /\ p[2] \div Tile \in 0..Rows(s) - 1
    BY <1>1, <2>1, TileInLine DEF Cols, Rows
  <2>3. QED
    BY <2>2 DEF TileOf, Tiles
<1>4. ASSUME NEW r \in Rect PROVE TilesOf(r, s) \subseteq Tiles(s)
  <2>1. r.x \in Nat /\ r.y \in Nat /\ r.w \in Int /\ r.h \in Int
    BY RectFields
  <2>2. /\ Touched(r.x, r.w, Cols(s)) \subseteq 0..Cols(s) - 1
        /\ Touched(r.y, r.h, Rows(s)) \subseteq 0..Rows(s) - 1
    BY <1>2, <2>1, TouchedIn
  <2>3. QED
    BY <2>2 DEF TilesOf, Tiles
<1>5. ASSUME NEW r \in Rect, NEW p \in Pixels(s) \cap Inside(r)
      PROVE  TileOf(p) \in TilesOf(r, s)
  <2>1. r.x \in Nat /\ r.y \in Nat /\ r.w \in Int /\ r.h \in Int
    BY RectFields
  <2>2. p[1] \in 0..s.w - 1 /\ p[2] \in 0..s.h - 1
    BY DEF Pixels
  <2>3. p[1] \in r.x..r.x + r.w - 1 /\ p[2] \in r.y..r.y + r.h - 1
    BY DEF Inside
  <2>4. /\ p[1] \div Tile \in Touched(r.x, r.w, Cols(s))
        /\ p[2] \div Tile \in Touched(r.y, r.h, Rows(s))
    BY <1>1, <2>1, <2>2, <2>3, PixelTouched DEF Cols, Rows
  <2>5. QED
    BY <2>4 DEF TileOf, TilesOf
<1>6. BlankScreen(s) \in [Pixels(s) -> Shades]
  BY DEF BlankScreen, Shades
<1>7. ASSUME NEW screen \in [Pixels(s) -> Shades] PROVE SizeOf(screen) = s
  BY SizeOfScreen
<1>8. QED
  BY <1>3, <1>4, <1>5, <1>6, <1>7

LEMMA StartsRight == Init => UpdateInv /\ \A c \in Clients : Remembered(c)
<1> SUFFICES ASSUME Init PROVE UpdateInv /\ \A c \in Clients : Remembered(c)
  OBVIOUS
<1>1. Size0 \in Sizes /\ Black \in Values
  BY DirtyAssumption
<1>2. Types
  BY <1>1, DirtyAssumption DEF Init, Types
<1>3. ASSUME NEW c \in Clients PROVE ClientInv(c) /\ Remembered(c)
  <2>1. /\ session[c] = "never" /\ dirty_tiles[c] = {} /\ unread[c] = <<>>
        /\ request[c] = Whole(Size0) /\ seen[c] = BlankScreen(Size0)
    BY DEF Init
  <2>2. Len(unread[c]) = 0 /\ unread[c] \in Seq(Sizes) /\ MaxUnread \in Nat
    BY <2>1, DirtyAssumption
  <2>3. ClientTyped(c)
    BY <1>1, <2>1, <2>2, Geometry DEF ClientTyped
  <2>4. QED
    BY <2>1, <2>3 DEF ClientInv, Informed, Remembered
<1>4. QED
  BY <1>2, <1>3 DEF UpdateInv

Keeps ==
  /\ UpdateInv'
  /\ TilesUncut => \A d \in Clients : Remembered(d) => Remembered(d)'

\* Both calls of the application that draw: what they change they mark.
LEMMA MarkingKeeps ==
  ASSUME UpdateInv, NEW fb, fb \in [Pixels(size) -> Values],
         NEW tiles \in SUBSET Tiles(size), Draws, framebuffer' = fb, Mark(tiles),
         \A p \in Pixels(size) : fb[p] # framebuffer[p] => TileOf(p) \in tiles
  PROVE  Keeps
<1>1. Types'
  BY DirtyAssumption DEF UpdateInv, Types, Draws, Mark
<1>2. ASSUME NEW d \in Clients
      PROVE  ClientInv(d)' /\ (Remembered(d) => Remembered(d)')
  <2>1. ClientTyped(d) /\ Informed(d)
    BY DEF UpdateInv, ClientInv
  <2>2. dirty_tiles'[d] = IF session[d] = "normal" THEN dirty_tiles[d] \cup tiles
                          ELSE dirty_tiles[d]
    BY DEF Mark, Joined
  <2>3. UNCHANGED <<size, session, request, unread, seen,
                    pending_ext_desktop_size, update_requested>>
    BY DEF Draws
  <2>4. ClientTyped(d)'
    BY <2>1, <2>2, <2>3 DEF ClientTyped
  <2>5. Informed(d)'
    BY <2>1, <2>2, <2>3 DEF ClientTyped, Informed
  <2>6. ASSUME Remembered(d) PROVE Remembered(d)'
    <3> SUFFICES ASSUME session[d] = "normal", SizeOf(seen[d]) = size,
                        NEW p \in Pixels(size), seen[d][p] # fb[p]
                 PROVE  TileOf(p) \in dirty_tiles'[d]
      BY <2>3 DEF Remembered, StillDirty
    <3>1. seen[d][p] # framebuffer[p] => TileOf(p) \in dirty_tiles[d]
      BY <2>6 DEF Remembered, StillDirty
    <3>2. QED
      BY <2>2, <3>1
  <2>7. QED
    BY <2>4, <2>5, <2>6 DEF ClientInv
<1>3. QED
  BY <1>1, <1>2 DEF Keeps, UpdateInv

LEMMA UpdateFramebufferKeeps ==
  ASSUME UpdateInv, NEW fb \in [Pixels(size) -> Values], UpdateFramebuffer(fb)
  PROVE  Keeps
<1>1. Differing(fb) \in SUBSET Tiles(size)
  BY Geometry DEF Differing, UpdateInv, Types
<1>2. \A p \in Pixels(size) : fb[p] # framebuffer[p] => TileOf(p) \in Differing(fb)
  BY DEF Differing
<1>3. Draws /\ framebuffer' = fb /\ Mark(Differing(fb))
  BY DEF UpdateFramebuffer
<1>4. QED
  BY <1>1, <1>2, <1>3, MarkingKeeps

LEMMA UpdateRectKeeps ==
  ASSUME UpdateInv, NEW r \in Rectangles(size), NEW v \in Values, UpdateRect(r, v)
  PROVE  Keeps
<1> DEFINE fb == [p \in Pixels(size) |-> IF p \in Inside(r) THEN v
                                         ELSE framebuffer[p]]
<1>1. size \in Sizes /\ framebuffer \in [Pixels(size) -> Values]
  BY DEF UpdateInv, Types
<1>2. r \in Rect
  <2>1. size.w \in Nat /\ size.h \in Nat
    BY <1>1, SizesAreScreens, RectFields
  <2>2. QED
    BY <2>1 DEF Rectangles, Rect
<1>3. TilesOf(r, size) \in SUBSET Tiles(size)
  BY <1>1, <1>2, Geometry
<1>4. fb \in [Pixels(size) -> Values]
  BY <1>1
<1>5. ASSUME NEW p \in Pixels(size), fb[p] # framebuffer[p]
      PROVE  TileOf(p) \in TilesOf(r, size)
  <2>1. p \in Inside(r)
    BY <1>5
  <2>2. QED
    BY <1>1, <1>2, <2>1, Geometry
<1>6. Draws /\ framebuffer' = fb /\ Mark(TilesOf(r, size))
  BY DEF UpdateRect
<1> HIDE DEF fb
<1>7. QED
  BY <1>3, <1>4, <1>5, <1>6, MarkingKeeps

LEMMA ResizeKeeps ==
  ASSUME UpdateInv, NEW s \in Sizes, ResizeFramebuffer(s)
  PROVE  Keeps
<1>1. Types'
  BY DirtyAssumption DEF UpdateInv, Types, ResizeFramebuffer, RedrawAll
<1>2. ASSUME NEW d \in Clients PROVE ClientInv(d)' /\ Remembered(d)'
  <2>1. ClientTyped(d) /\ Informed(d)
    BY DEF UpdateInv, ClientInv
  <2>2. dirty_tiles'[d] = IF session[d] = "normal" THEN Tiles(s) ELSE dirty_tiles[d]
    BY DEF ResizeFramebuffer, RedrawAll, Joined
  <2>3. /\ size' = s /\ UNCHANGED <<session, request, unread, seen>>
        /\ session[d] = "normal" => /\ pending_ext_desktop_size'[d]
                                    /\ update_requested'[d]
    BY DEF ResizeFramebuffer, Joined
  <2>4. session[d] # "normal" => dirty_tiles[d] = {}
    BY <2>1 DEF ClientTyped
  <2>5. ClientTyped(d)'
    BY <2>1, <2>2, <2>3, <2>4 DEF ClientTyped
  <2>6. Informed(d)'
    BY <2>2, <2>3 DEF Informed
  <2>7. Remembered(d)'
    <3>1. \A p \in Pixels(s) : TileOf(p) \in Tiles(s)
      BY Geometry
    <3>2. QED
      BY <2>2, <2>3, <3>1 DEF Remembered, StillDirty
  <2>8. QED
    BY <2>5, <2>6, <2>7 DEF ClientInv
<1>3. QED
  BY <1>1, <1>2 DEF Keeps, UpdateInv

LEMMA JoinKeeps ==
  ASSUME UpdateInv, NEW c \in Clients, Join(c)
  PROVE  Keeps
<1>1. Types'
  BY DEF UpdateInv, Types, Join
<1>2. size \in Sizes
  BY DEF UpdateInv, Types
<1>3. ASSUME NEW d \in Clients
      PROVE  ClientInv(d)' /\ (Remembered(d) => Remembered(d)')
  <2>1. CASE d = c
    <3>1. /\ dirty_tiles'[c] = Tiles(size) /\ request'[c] = Whole(size)
          /\ seen'[c] = BlankScreen(size) /\ session'[c] = "normal"
          /\ UNCHANGED <<size, framebuffer, unread>>
      BY DEF Join, UpdateInv, Types
    <3>2. BlankScreen(size) \in [Pixels(size) -> Shades] /\ SizeOf(BlankScreen(size)) = size
      BY <1>2, Geometry
    <3>3. ClientTyped(c)'
      BY <1>2, <3>1, <3>2 DEF ClientTyped, UpdateInv, ClientInv
    <3>4. Informed(c)'
      BY <3>1, <3>2 DEF Informed
    <3>5. Remembered(c)'
      BY <1>2, <3>1, Geometry DEF Remembered, StillDirty
    <3>6. QED
      BY <2>1, <3>3, <3>4, <3>5 DEF ClientInv
  <2>2. CASE d # c
    <3>1. ClientInv(d)
      BY DEF UpdateInv
    <3>2. /\ UNCHANGED <<size, framebuffer>>
          /\ session'[d] = session[d] /\ dirty_tiles'[d] = dirty_tiles[d]
          /\ request'[d] = request[d] /\ unread'[d] = unread[d]
          /\ seen'[d] = seen[d]
          /\ pending_ext_desktop_size'[d] = pending_ext_desktop_size[d]
          /\ update_requested'[d] = update_requested[d]
      BY <2>2 DEF Join, UpdateInv, Types
    <3>3. QED
      BY <3>1, <3>2, OthersKeep
  <2>3. QED
    BY <2>1, <2>2
<1>4. QED
  BY <1>1, <1>3 DEF Keeps, UpdateInv

LEMMA LeaveKeeps ==
  ASSUME UpdateInv, NEW c \in Clients, Leave(c)
  PROVE  Keeps
<1>1. Types'
  BY DEF UpdateInv, Types, Leave
<1>2. Size0 \in Sizes /\ MaxUnread \in Nat
  BY DirtyAssumption
<1>3. ASSUME NEW d \in Clients
      PROVE  ClientInv(d)' /\ (Remembered(d) => Remembered(d)')
  <2>1. CASE d = c
    <3>1. /\ dirty_tiles'[c] = {} /\ request'[c] = Whole(Size0)
          /\ seen'[c] = BlankScreen(Size0) /\ session'[c] = "left"
          /\ unread'[c] = <<>>
          /\ UNCHANGED <<size, framebuffer>>
      BY DEF Leave, UpdateInv, Types
    <3>2. BlankScreen(Size0) \in [Pixels(Size0) -> Shades]
      BY <1>2, Geometry
    <3>3. unread'[c] \in Seq(Sizes) /\ Len(unread'[c]) <= MaxUnread
      BY <1>2, <3>1
    <3>4. ClientTyped(c)'
      BY <1>2, <3>1, <3>2, <3>3 DEF ClientTyped
    <3>5. Informed(c)' /\ Remembered(c)'
      BY <3>1 DEF Informed, Remembered
    <3>6. QED
      BY <2>1, <3>4, <3>5 DEF ClientInv
  <2>2. CASE d # c
    <3>1. ClientInv(d)
      BY DEF UpdateInv
    <3>2. /\ UNCHANGED <<size, framebuffer>>
          /\ session'[d] = session[d] /\ dirty_tiles'[d] = dirty_tiles[d]
          /\ request'[d] = request[d] /\ unread'[d] = unread[d]
          /\ seen'[d] = seen[d]
          /\ pending_ext_desktop_size'[d] = pending_ext_desktop_size[d]
          /\ update_requested'[d] = update_requested[d]
      BY <2>2 DEF Leave, UpdateInv, Types
    <3>3. QED
      BY <3>1, <3>2, OthersKeep
  <2>3. QED
    BY <2>1, <2>2
<1>4. QED
  BY <1>1, <1>3 DEF Keeps, UpdateInv

LEMMA RequestKeeps ==
  ASSUME UpdateInv, NEW c \in Clients, FramebufferUpdateRequest(c)
  PROVE  Keeps
<1>1. Types'
  BY DEF UpdateInv, Types, FramebufferUpdateRequest
<1>2. ASSUME NEW d \in Clients
      PROVE  ClientInv(d)' /\ (Remembered(d) => Remembered(d)')
  <2>0. ClientTyped(d) /\ Informed(d)
    BY DEF UpdateInv, ClientInv
  <2>1. CASE d = c
    <3>1. /\ unread[c] # <<>> /\ unread'[c] = Tail(unread[c])
          /\ request'[c] = Whole(Head(unread[c]))
          /\ update_requested'[c]
          /\ UNCHANGED <<size, framebuffer, session, dirty_tiles, seen,
                         pending_ext_desktop_size>>
      BY DEF FramebufferUpdateRequest, UpdateInv, Types
    <3>2. unread[c] \in Seq(Sizes) /\ Len(unread[c]) <= MaxUnread
      BY <2>0, <2>1 DEF ClientTyped
    <3>3. /\ Head(unread[c]) \in Sizes /\ Tail(unread[c]) \in Seq(Sizes)
          /\ Len(Tail(unread[c])) <= MaxUnread
      BY <3>1, <3>2, DirtyAssumption
    <3>4. ClientTyped(c)'
      BY <2>0, <2>1, <3>1, <3>3 DEF ClientTyped
    <3>5. Informed(c)'
      BY <2>0, <2>1, <3>1 DEF Informed
    <3>6. Remembered(c) => Remembered(c)'
      BY <3>1 DEF Remembered, StillDirty
    <3>7. QED
      BY <2>1, <3>4, <3>5, <3>6 DEF ClientInv
  <2>2. CASE d # c
    <3>1. /\ UNCHANGED <<size, framebuffer>>
          /\ session'[d] = session[d] /\ dirty_tiles'[d] = dirty_tiles[d]
          /\ request'[d] = request[d] /\ unread'[d] = unread[d]
          /\ seen'[d] = seen[d]
          /\ pending_ext_desktop_size'[d] = pending_ext_desktop_size[d]
          /\ update_requested'[d] = update_requested[d]
      BY <2>2 DEF FramebufferUpdateRequest, UpdateInv, Types
    <3>2. QED
      BY <2>0, <3>1, OthersKeep DEF ClientInv
  <2>3. QED
    BY <2>1, <2>2
<1>3. QED
  BY <1>1, <1>2 DEF Keeps, UpdateInv

LEMMA FlushKeeps ==
  ASSUME UpdateInv, NEW c \in Clients, Flush(c)
  PROVE  Keeps
<1>1. Types'
  BY DEF UpdateInv, Types, Flush
<1>2. ASSUME NEW d \in Clients
      PROVE  ClientInv(d)' /\ (Remembered(d) => Remembered(d)')
  <2>1. ClientInv(d)
    BY DEF UpdateInv
  <2>2. QED
    BY <2>1, OthersKeep DEF Flush
<1>3. QED
  BY <1>1, <1>2 DEF Keeps, UpdateInv

\* An update for one client is none of the others' business.
OnlyFor(c) ==
  /\ update_requested' \in [Clients -> BOOLEAN]
  /\ update_incremental' \in [Clients -> BOOLEAN]
  /\ unsent' \in [Clients -> BOOLEAN]
  /\ DOMAIN dirty_tiles' = Clients /\ DOMAIN unread' = Clients
  /\ DOMAIN seen' = Clients
  /\ \A d \in Clients \ {c} :
       /\ update_requested'[d] = update_requested[d]
       /\ dirty_tiles'[d] = dirty_tiles[d]
       /\ unread'[d] = unread[d] /\ seen'[d] = seen[d]

\* The rectangles of an update: what the peer will then not show stays dirty.
LEMMA SendTilesKeeps ==
  ASSUME UpdateInv, NEW c \in Clients, NEW screen \in [Pixels(size) -> Shades],
         NEW upd \in Seq(Sizes), Len(upd) + 1 <= MaxUnread,
         SendTiles(c, screen, upd)
  PROVE  /\ OnlyFor(c)
         /\ \E D \in SUBSET Tiles(size), X \in [Pixels(size) -> Shades],
               u \in Seq(Sizes) :
              /\ Len(u) <= MaxUnread
              /\ dirty_tiles'[c] = D /\ seen'[c] = X /\ unread'[c] = u
              /\ TilesUncut /\ StillDirty(screen, c) =>
                   \A p \in Pixels(size) : X[p] # framebuffer[p] => TileOf(p) \in D
<1> DEFINE tiles == Owed(c) \cap TilesOf(request[c], size)
           rects == UpdateRects(tiles, request[c], size)
           cleared == UNION {ClearedBy(r, size) : r \in ToSet(rects)}
           drawn == Drawn(screen, rects)
<1>1. /\ update_incremental' = [update_incremental EXCEPT ![c] = TRUE]
      /\ IF rects = <<>>
         THEN /\ dirty_tiles' = [dirty_tiles EXCEPT ![c] = Owed(c)]
              /\ seen' = [seen EXCEPT ![c] = screen]
              /\ unread' = [unread EXCEPT ![c] = upd]
              /\ UNCHANGED <<update_requested, unsent>>
         ELSE /\ dirty_tiles' = [dirty_tiles EXCEPT ![c] = Owed(c) \ cleared]
              /\ seen' = [seen EXCEPT ![c] = drawn]
              /\ unread' = [unread EXCEPT ![c] = Append(upd, size)]
              /\ update_requested' = [update_requested EXCEPT ![c] = FALSE]
              /\ \E blocked \in BOOLEAN : unsent' = [unsent EXCEPT ![c] = blocked]
  BY DEF SendTiles, RequestKept
<1>2. /\ size \in Sizes /\ framebuffer \in [Pixels(size) -> Values]
      /\ update_incremental \in [Clients -> BOOLEAN]
      /\ update_requested \in [Clients -> BOOLEAN] /\ unsent \in [Clients -> BOOLEAN]
      /\ dirty_tiles[c] \subseteq Tiles(size)
      /\ request[c] \in {Whole(s) : s \in Sizes}
      /\ DOMAIN dirty_tiles = Clients /\ DOMAIN unread = Clients
      /\ DOMAIN seen = Clients
  BY DEF UpdateInv, Types, ClientInv, ClientTyped
<1>3. PICK asked \in Sizes : request[c] = Whole(asked)
  BY <1>2
<1>4. size \in Screen /\ request[c] \in Rect /\ Plain(request[c], size)
  BY <1>2, <1>3, SizesAreScreens, WholeIsPlain
<1>5. TilesOf(request[c], size) \subseteq Tiles(size)
  BY <1>2, <1>4, Geometry
<1>6. Owed(c) \subseteq Tiles(size) /\ dirty_tiles[c] \subseteq Owed(c)
  BY <1>2, <1>5 DEF Owed
<1>7. rects \in Seq(Clipped(request[c], size))
  <2>1. tiles \in SUBSET TilesOf(request[c], size)
    OBVIOUS
  <2> HIDE DEF tiles
  <2>2. QED
    BY <1>4, <2>1, UpdateClips
<1> HIDE DEF rects, tiles
<1>8. \A r \in ToSet(rects) : r \in Clipped(request[c], size)
  BY <1>7 DEF ToSet
<1>9. Len(upd) <= MaxUnread /\ Len(Append(upd, size)) <= MaxUnread
      /\ Append(upd, size) \in Seq(Sizes)
  BY <1>2, DirtyAssumption
<1>10. CASE rects = <<>>
  <2>1. \A p \in Pixels(size) :
          StillDirty(screen, c) /\ screen[p] # framebuffer[p] => TileOf(p) \in Owed(c)
    BY <1>6 DEF StillDirty
  <2>2. OnlyFor(c)
    BY <1>1, <1>2, <1>10 DEF OnlyFor
  <2>3. dirty_tiles'[c] = Owed(c) /\ seen'[c] = screen /\ unread'[c] = upd
    BY <1>1, <1>2, <1>10
  <2>4. QED
    BY <1>6, <1>9, <2>1, <2>2, <2>3
<1>11. CASE rects # <<>>
  <2>1. ASSUME NEW r \in ToSet(rects)
        PROVE  Inside(r) \subseteq Pixels(size)
    BY <1>4, <1>8, ClippedOnScreen
  <2>2. drawn \in [Pixels(size) -> Shades]
    <3> DEFINE sent == UNION {Inside(r) : r \in ToSet(rects)}
    <3>1. sent \subseteq Pixels(size)
      BY <2>1
    <3>2. drawn = [p \in DOMAIN screen \cup sent |->
                     IF p \in sent THEN framebuffer[p] ELSE screen[p]]
      BY DEF Drawn
    <3> HIDE DEF sent, drawn
    <3>3. DOMAIN screen \cup sent = Pixels(size)
      BY <3>1
    <3>4. \A p \in Pixels(size) : framebuffer[p] \in Shades /\ screen[p] \in Shades
      BY <1>2 DEF Shades
    <3>5. QED
      BY <3>2, <3>3, <3>4
  <2>3. ASSUME TilesUncut, StillDirty(screen, c), NEW p \in Pixels(size),
               drawn[p] # framebuffer[p]
        PROVE  TileOf(p) \in Owed(c) \ cleared
    <3>1. \A r \in ToSet(rects) : p \notin Inside(r)
      BY <2>3 DEF Drawn
    <3>2. screen[p] # framebuffer[p]
      BY <2>3, <3>1 DEF Drawn
    <3>3. TileOf(p) \in Owed(c)
      BY <1>6, <2>3, <3>2 DEF StillDirty
    <3>4. ASSUME NEW r \in ToSet(rects), TileOf(p) \in ClearedBy(r, size)
          PROVE  FALSE
      <4>1. r \in Clipped(Whole(asked), size)
        BY <1>3, <1>8
      <4>2. p \in Inside(r)
        BY <1>2, <2>3, <3>4, <4>1, CleanIsSent
      <4>3. QED
        BY <3>1, <4>2
    <3>5. QED
      BY <3>3, <3>4
  <2> HIDE DEF drawn, cleared
  <2>4. OnlyFor(c)
    BY <1>1, <1>2, <1>11 DEF OnlyFor
  <2>5. /\ dirty_tiles'[c] = Owed(c) \ cleared /\ seen'[c] = drawn
        /\ unread'[c] = Append(upd, size)
    BY <1>1, <1>2, <1>11
  <2>6. Owed(c) \ cleared \in SUBSET Tiles(size)
    BY <1>6
  <2>7. QED
    BY <1>9, <2>2, <2>3, <2>4, <2>5, <2>6
<1>12. QED
  BY <1>10, <1>11

LEMMA SendUpdateKeeps ==
  ASSUME UpdateInv, NEW c \in Clients, SendUpdate(c)
  PROVE  Keeps
<1>1. /\ UNCHANGED <<size, framebuffer, drawings, resizes, session, request>>
      /\ session[c] = "normal" /\ update_requested[c]
      /\ Len(unread[c]) + 1 < MaxUnread
  BY DEF SendUpdate
<1>2. Types /\ ClientTyped(c) /\ Informed(c) /\ size \in Sizes
  BY DEF UpdateInv, ClientInv, Types
<1>3. PICK s \in Sizes : seen[c] \in [Pixels(s) -> Shades]
  BY <1>2 DEF ClientTyped
<1>4. SizeOf(seen[c]) = s
  BY <1>3, Geometry
<1>5. unread[c] \in Seq(Sizes) /\ Len(unread[c]) \in Nat /\ MaxUnread \in Nat
  BY <1>2, DirtyAssumption DEF ClientTyped
<1>6. /\ Append(unread[c], size) \in Seq(Sizes)
      /\ Len(Append(unread[c], size)) = Len(unread[c]) + 1
  BY <1>2, <1>5
<1>7. /\ Len(Append(unread[c], size)) + 1 <= MaxUnread
      /\ Len(unread[c]) + 1 <= MaxUnread
      /\ Len(Append(unread[c], size)) <= MaxUnread
  BY <1>1, <1>5, <1>6
<1> DEFINE Shown == Announced(seen[c])
<1>8. Shown \in [Pixels(size) -> Shades]
  BY <1>2, <1>3, <1>4, Geometry DEF Announced
<1>9. Remembered(c) => StillDirty(Shown, c)
  <2>1. CASE SizeOf(seen[c]) = size
    BY <1>1, <2>1 DEF Announced, Remembered
  <2>2. CASE SizeOf(seen[c]) # size
    <3>1. dirty_tiles[c] = Tiles(size)
      BY <1>1, <1>2, <2>2 DEF Informed
    <3>2. QED
      BY <1>2, <3>1, Geometry DEF StillDirty
  <2>3. QED
    BY <2>1, <2>2
<1>10. Shown = seen[c] \/ pending_ext_desktop_size[c]
  BY <1>1, <1>2 DEF Announced, Informed
<1> HIDE DEF Shown
<1> DEFINE After(D, X, u) ==
             /\ Len(u) <= MaxUnread
             /\ dirty_tiles'[c] = D /\ seen'[c] = X /\ unread'[c] = u
             /\ TilesUncut /\ Remembered(c) =>
                  \A p \in Pixels(size) : X[p] # framebuffer[p] => TileOf(p) \in D
           Updated ==
             /\ OnlyFor(c)
             /\ \E D \in SUBSET Tiles(size), X \in [Pixels(size) -> Shades],
                   u \in Seq(Sizes) : After(D, X, u)
           Alone ==
             /\ unsent' = [unsent EXCEPT ![c] = TRUE]
             /\ unread' = [unread EXCEPT ![c] = Append(@, size)]
             /\ seen' = [seen EXCEPT ![c] = Shown]
             /\ UNCHANGED <<dirty_tiles, update_requested, update_incremental>>
<1>11. Updated
  <2>1. ASSUME NEW upd \in {unread[c], Append(unread[c], size)},
               SendTiles(c, Shown, upd)
        PROVE  Updated
    <3>1. upd \in Seq(Sizes) /\ Len(upd) + 1 <= MaxUnread
      BY <1>5, <1>6, <1>7
    <3>2. OnlyFor(c)
      BY <1>8, <2>1, <3>1, SendTilesKeeps
    <3>3. PICK D \in SUBSET Tiles(size), X \in [Pixels(size) -> Shades],
               u \in Seq(Sizes) :
            /\ Len(u) <= MaxUnread
            /\ dirty_tiles'[c] = D /\ seen'[c] = X /\ unread'[c] = u
            /\ TilesUncut /\ StillDirty(Shown, c) =>
                 \A p \in Pixels(size) : X[p] # framebuffer[p] => TileOf(p) \in D
      BY <1>8, <2>1, <3>1, SendTilesKeeps
    <3>4. After(D, X, u)
      BY <1>9, <3>3
    <3> HIDE DEF After
    <3>5. QED
      BY <3>2, <3>4
  <2>2. ASSUME Alone PROVE Updated
    <3>1. OnlyFor(c)
      BY <1>2, <2>2 DEF OnlyFor, Types
    <3>2. dirty_tiles[c] \in SUBSET Tiles(size)
      BY <1>2 DEF ClientTyped
    <3>3. Remembered(c) =>
            \A p \in Pixels(size) :
              Shown[p] # framebuffer[p] => TileOf(p) \in dirty_tiles[c]
      BY <1>9 DEF StillDirty
    <3>4. /\ dirty_tiles'[c] = dirty_tiles[c] /\ seen'[c] = Shown
          /\ unread'[c] = Append(unread[c], size)
      BY <1>2, <2>2 DEF Types
    <3>5. After(dirty_tiles[c], Shown, Append(unread[c], size))
      BY <1>7, <3>3, <3>4
    <3> HIDE DEF After
    <3>6. QED
      BY <1>6, <1>8, <3>1, <3>2, <3>5
  <2> HIDE DEF Updated
  <2>3. CASE pending_ext_desktop_size[c]
    <3>1. \/ SendTiles(c, Announced(seen[c]), Append(unread[c], size))
          \/ /\ unsent' = [unsent EXCEPT ![c] = TRUE]
             /\ unread' = [unread EXCEPT ![c] = Append(@, size)]
             /\ seen' = [seen EXCEPT ![c] = Announced(@)]
             /\ UNCHANGED <<dirty_tiles, update_requested, update_incremental>>
      BY <2>3 DEF SendUpdate
    <3>2. SendTiles(c, Shown, Append(unread[c], size)) \/ Alone
      BY <3>1 DEF Shown
    <3> HIDE DEF Alone
    <3>3. QED
      BY <2>1, <2>2, <3>2
  <2>4. CASE ~pending_ext_desktop_size[c]
    <3>1. SendTiles(c, seen[c], unread[c])
      BY <2>4 DEF SendUpdate
    <3>2. Shown = seen[c]
      BY <1>10, <2>4
    <3>3. QED
      BY <2>1, <3>1, <3>2
  <2>5. QED
    BY <2>3, <2>4
<1>12. PICK D \in SUBSET Tiles(size), X \in [Pixels(size) -> Shades],
            u \in Seq(Sizes) : After(D, X, u)
  BY <1>11
<1>13. /\ pending_ext_desktop_size' \in [Clients -> BOOLEAN]
       /\ \A d \in Clients \ {c} :
            pending_ext_desktop_size'[d] = pending_ext_desktop_size[d]
  <2>1. \/ pending_ext_desktop_size' = [pending_ext_desktop_size EXCEPT ![c] = FALSE]
        \/ UNCHANGED pending_ext_desktop_size
    BY DEF SendUpdate
  <2>2. QED
    BY <1>2, <2>1 DEF Types
<1>14. Types'
  BY <1>1, <1>2, <1>11, <1>13 DEF Types, OnlyFor
<1>15. ASSUME NEW d \in Clients
       PROVE  ClientInv(d)' /\ (TilesUncut /\ Remembered(d) => Remembered(d)')
  <2>1. CASE d = c
    <3>1. /\ dirty_tiles'[c] = D /\ seen'[c] = X /\ unread'[c] = u
          /\ Len(u) <= MaxUnread
      BY <1>12
    <3>2. SizeOf(X) = size
      BY <1>2, Geometry
    <3>3. ClientTyped(c)'
      BY <1>1, <1>2, <3>1 DEF ClientTyped
    <3>4. Informed(c)'
      BY <1>1, <3>1, <3>2 DEF Informed
    <3>5. TilesUncut /\ Remembered(c) => Remembered(c)'
      BY <1>1, <1>12, <3>1 DEF Remembered, StillDirty
    <3>6. QED
      BY <2>1, <3>3, <3>4, <3>5 DEF ClientInv
  <2>2. CASE d # c
    <3>1. ClientInv(d)
      BY DEF UpdateInv
    <3>2. /\ dirty_tiles'[d] = dirty_tiles[d]
          /\ unread'[d] = unread[d] /\ seen'[d] = seen[d]
      BY <1>11, <2>2 DEF OnlyFor
    <3>3. /\ UNCHANGED <<size, framebuffer>>
          /\ session'[d] = session[d] /\ request'[d] = request[d]
          /\ pending_ext_desktop_size'[d] = pending_ext_desktop_size[d]
          /\ update_requested'[d] = update_requested[d]
      BY <1>1, <1>11, <1>13, <2>2 DEF OnlyFor
    <3>4. QED
      BY <3>1, <3>2, <3>3, OthersKeep
  <2>3. QED
    BY <2>1, <2>2
<1>16. QED
  BY <1>14, <1>15 DEF Keeps, UpdateInv

LEMMA StepsKeep == UpdateInv /\ [Next]_vars => Keeps
<1> SUFFICES ASSUME UpdateInv, [Next]_vars PROVE Keeps
  OBVIOUS
<1>1. CASE Next
  <2>1. ASSUME NEW fb \in [Pixels(size) -> Values], UpdateFramebuffer(fb)
        PROVE  Keeps
    BY <2>1, UpdateFramebufferKeeps
  <2>2. ASSUME NEW r \in Rectangles(size), NEW v \in Values, UpdateRect(r, v)
        PROVE  Keeps
    BY <2>2, UpdateRectKeeps
  <2>3. ASSUME NEW s \in Sizes, ResizeFramebuffer(s) PROVE Keeps
    BY <2>3, ResizeKeeps
  <2>4. ASSUME NEW c \in Clients,
               \/ Join(c) \/ Leave(c) \/ FramebufferUpdateRequest(c)
               \/ Flush(c) \/ SendUpdate(c)
        PROVE  Keeps
    BY <2>4, JoinKeeps, LeaveKeeps, RequestKeeps, FlushKeeps, SendUpdateKeeps
  <2>5. QED
    BY <1>1, <2>1, <2>2, <2>3, <2>4 DEF Next, Application
<1>2. CASE UNCHANGED vars
  <2>1. Types'
    BY <1>2 DEF UpdateInv, Types, vars, clientVars
  <2>2. ASSUME NEW d \in Clients
        PROVE  ClientInv(d)' /\ (Remembered(d) => Remembered(d)')
    <3>1. ClientInv(d)
      BY DEF UpdateInv
    <3>2. QED
      BY <1>2, <3>1, OthersKeep DEF vars, clientVars
  <2>3. QED
    BY <2>1, <2>2 DEF Keeps, UpdateInv
<1>3. QED
  BY <1>1, <1>2

\* Every peer's screen has the pixels of one of the desktop's sizes, and every
\* update stays within the framebuffer and the array of tiles; and a peer whose
\* screen has another size than the desktop's is told the new one before it is
\* sent a pixel of it, whenever the desktop is resized and the connection
\* takes the announcement (vnc_server_resize_framebuffer() and
\* vnc_client_send_update(), src/src/leanrfb.c), for requests and sizes that
\* cut tiles too.
THEOREM SizeBeforePixels == Spec => [](TypeOK /\ SizeKnown)
<1>1. Init => UpdateInv
  BY StartsRight
<1>2. UpdateInv /\ [Next]_vars => UpdateInv'
  BY StepsKeep DEF Keeps
<1>3. QED
  BY <1>1, <1>2, InvTypes, PTL DEF Spec

\* On a desktop of one size, and of any sizes that do not end inside each
\* other's tiles, no change to the framebuffer is forgotten:
\* whatever a peer's screen will not show as it is lies in a tile that is
\* dirty for the client, whichever call changed it, in whatever order updates
\* are sent, held back, clipped and merged, however often the desktop is
\* resized, and also when an update has more runs of tiles than it can hold.
THEOREM ChangesAreKept ==
  ASSUME TilesUncut
  PROVE  Spec => []NoLostUpdate
<1> DEFINE Inv == UpdateInv /\ \A c \in Clients : Remembered(c)
<1>1. Init => Inv
  BY StartsRight
<1>2. Inv /\ [Next]_vars => Inv'
  <2> SUFFICES ASSUME Inv, [Next]_vars PROVE Inv'
    OBVIOUS
  <2>1. UpdateInv' /\ \A d \in Clients : Remembered(d)'
    BY StepsKeep DEF Keeps
  <2>2. QED
    BY <2>1
<1>3. Inv => NoLostUpdate
  BY InvRemembers
<1>4. QED
  BY <1>1, <1>2, <1>3, PTL DEF Spec
=============================================================================
