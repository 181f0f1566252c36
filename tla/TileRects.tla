----------------------------- MODULE TileRects -----------------------------
(***************************************************************************)
(* The geometry of a framebuffer update: which rectangles                  *)
(* vnc_client_send_update() sends for a set of dirty tiles and a request,  *)
(* and which tiles it then marks clean (src/src/leanrfb.c).                *)
(*                                                                         *)
(* A tile is <<row, column>>, a pixel <<x, y>>, a screen [w, h], a         *)
(* rectangle [x, y, w, h].  A set of dirty tiles stands for the array      *)
(* dirty_tiles of flags.                                                   *)
(***************************************************************************)
EXTENDS Integers, FiniteSets, SequencesExt

CONSTANTS
  Tile,      \* the side of a tile: 16
  Word,      \* 2^16, one more than the largest uint16_t
  RectRoom   \* the rectangles an update can have: 4096

ASSUME TileAssumption ==
  /\ Tile \in Nat \ {0} /\ RectRoom \in Nat \ {0}
  /\ Word \in Nat /\ Tile < Word

Least(a, b) == IF a <= b THEN a ELSE b
Greatest(a, b) == IF a >= b THEN a ELSE b

Cols(s) == (s.w + Tile - 1) \div Tile
Rows(s) == (s.h + Tile - 1) \div Tile

Tiles(s) == (0..Rows(s) - 1) \X (0..Cols(s) - 1)
Pixels(s) == (0..s.w - 1) \X (0..s.h - 1)
TileOf(p) == <<p[2] \div Tile, p[1] \div Tile>>

Inside(r) == (r.x..r.x + r.w - 1) \X (r.y..r.y + r.h - 1)

(* The tiles that n units of length starting at a touch, as far as there   *)
(* are tiles.  In C, -1 / 16 is 0.                                         *)
Touched(a, n, tiles) ==
  a \div Tile .. Least(Greatest(a + n - 1, 0) \div Tile, tiles - 1)

TilesOf(r, s) ==
  Touched(r.y, r.h, Rows(s)) \X Touched(r.x, r.w, Cols(s))

-----------------------------------------------------------------------------
(* Runs of tiles, row by row and from left to right, of the dirty tiles    *)
(* that a request touches.                                                 *)

StartsRun(tiles, t) == t \in tiles /\ <<t[1], t[2] - 1>> \notin tiles

RunLength(tiles, s, t) ==
  LET Run(n) == \A k \in 0..n - 1 : <<t[1], t[2] + k>> \in tiles
  IN  CHOOSE n \in 1..Cols(s) : Run(n) /\ ~Run(n + 1)

rect_t == [x : Nat, y : Nat, w : Nat, h : Nat]

Wrap(n) == n % Word   \* what a uint16_t keeps of n

(* In one dimension: of n units from a on, what is left of them from where *)
(* a request for len units begins, when first it ends and then the screen. *)
(* Each of the three is stored as a uint16_t.                              *)
Extent(a, n, from, len, end) ==
  LET pos == Greatest(a, from)
      begun == Wrap(n - (pos - a))
      asked == IF pos + begun > from + len THEN Wrap(from + len - pos) ELSE begun
  IN  IF pos + asked > end THEN Wrap(end - pos) ELSE asked

(* A run of n tiles from tile t, clipped to the request and to the screen. *)
Clip(t, n, req, s) ==
  [x |-> Greatest(t[2] * Tile, req.x),
   y |-> Greatest(t[1] * Tile, req.y),
   w |-> Extent(t[2] * Tile, n * Tile, req.x, req.w, s.w),
   h |-> Extent(t[1] * Tile, Tile, req.y, req.h, s.h)]

(* The i-th tile, row by row and from left to right.                       *)
InOrder(i, s) == <<(i - 1) \div Cols(s), (i - 1) % Cols(s)>>

(* The rectangle of the run that begins at tile t, if there is one and it  *)
(* is not empty.  The array of rectangles has room for RectRoom.           *)
AddRun(rects, t, tiles, req, s) ==
  LET Kept[r \in rect_t] ==
        IF r.w > 0 /\ r.h > 0 THEN Append(rects, r) ELSE rects
  IN  IF StartsRun(tiles, t) /\ Len(rects) < RectRoom
      THEN Kept[Clip(t, RunLength(tiles, s, t), req, s)] ELSE rects

RunRects(tiles, req, s) ==
  LET rects[i \in 0..Rows(s) * Cols(s)] ==
        IF i = 0 THEN <<>>
        ELSE AddRun(rects[i - 1], InOrder(i, s), tiles, req, s)
  IN  rects[Rows(s) * Cols(s)]

-----------------------------------------------------------------------------
(* Vertical coalescing: a rectangle is added to an earlier one that it     *)
(* continues downwards with the same left edge and width.                  *)

ContinuesAnyWidth(r, below) ==   \* mutant: the widths are not compared
  r.x = below.x /\ r.y + r.h = below.y

Continues(r, below) ==
  r.x = below.x /\ r.w = below.w /\ r.y + r.h = below.y

Merge(done, r) ==
  IF \E i \in DOMAIN done : Continues(done[i], r)
  THEN [i \in DOMAIN done |->
          IF Continues(done[i], r) THEN [done[i] EXCEPT !.h = @ + r.h]
          ELSE done[i]]
  ELSE Append(done, r)

UpdateRects(tiles, req, s) ==
  LET runs == RunRects(tiles, req, s)
      merged[i \in 0..Len(runs)] ==
        IF i = 0 THEN <<>> ELSE Merge(merged[i - 1], runs[i])
  IN  merged[Len(runs)]

ClearedPastEnd(r, s) ==   \* mutant: y + h for y + h - 1
  Touched(r.y, r.h + 1, Rows(s)) \X Touched(r.x, r.w, Cols(s))

(* The tiles whose flag is cleared after rectangle r was encoded.  The     *)
(* code's loops are not cut at the screen's edge: they need not be for a   *)
(* rectangle within the screen; of one beyond it this is the part within.  *)
ClearedBy(r, s) == TilesOf(r, s)
=============================================================================
