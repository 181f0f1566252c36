---------------------------- MODULE UpdateCases ----------------------------
(***************************************************************************)
(* Every framebuffer update there can be: on one of some screens, which    *)
(* may have cut tiles at both edges, a request for any rectangle, empty or *)
(* off the screen too, and the application marking tile after tile dirty.  *)
(* What is examined in each state is the update that                       *)
(* vnc_client_send_update() would send (src/src/leanrfb.c).                *)
(***************************************************************************)
EXTENDS TileRects

CONSTANTS
  Screens,   \* sizes [w, h] of the screen
  Requests   \* rectangles [x, y, w, h] that can be asked for

ASSUME CasesAssumption ==
  /\ Screens \subseteq [w : 1..Word - 1, h : 1..Word - 1]
  /\ Requests \subseteq [x : 0..Word - 1, y : 0..Word - 1,
                         w : 0..Word - 1, h : 0..Word - 1]

VARIABLES
  marked,    \* client->dirty_tiles
  asking,    \* client->req_x, req_y, req_w, req_h
  desktop    \* server->width, server->height
cases == <<marked, asking, desktop>>

CasesInit ==
  /\ desktop \in Screens
  /\ asking \in Requests
  /\ marked = {}

MarkTile ==
  /\ \E t \in Tiles(desktop) \ marked : marked' = marked \cup {t}
  /\ UNCHANGED <<asking, desktop>>

CasesSpec == CasesInit /\ [][MarkTile]_cases

-----------------------------------------------------------------------------
(* What was asked for that is dirty, and what an update shows of it. *)

Wanted(dirty, req, s) ==
  {p \in Inside(req) \cap Pixels(s) : TileOf(p) \in dirty}

Touching(dirty, req, s) == dirty \cap TilesOf(req, s)

Runs(tiles) == {t \in tiles : StartsRun(tiles, t)}

ShownBy(rects) == UNION {Inside(rects[i]) : i \in DOMAIN rects}

Apart(rects) ==
  \A i, j \in DOMAIN rects : i # j => Inside(rects[i]) \cap Inside(rects[j]) = {}

(* The code has no test for these two: a request that begins beyond the    *)
(* edge of the screen, but in a tile that the edge cuts; and a screen so   *)
(* wide that the length of a row of tiles is no uint16_t.  A run is then   *)
(* taken to be empty or to go far beyond the screen.                       *)
PastCutEdge(req, s) ==
  \/ s.w < req.x /\ req.x < Cols(s) * Tile
  \/ s.h < req.y /\ req.y < Rows(s) * Tile

TooWide(s) == Cols(s) * Tile >= Word

Wraps(req, s) == PastCutEdge(req, s) \/ TooWide(s)

Rects == UpdateRects(Touching(marked, asking, desktop), asking, desktop)

(* An update shows nothing but requested pixels of the screen that lie in  *)
(* dirty tiles, none of them twice; and unless the rectangles run out it   *)
(* shows all of these, whatever was clipped and coalesced                  *)
(* (src/src/leanrfb.c:1825-1904), and for a request that has no pixel of   *)
(* the screen it has no rectangle.  Where the arithmetic wraps this is not *)
(* so.                                                                     *)
ExactlyWanted ==
  ~Wraps(asking, desktop) =>
    LET rects == Rects
        wanted == Wanted(marked, asking, desktop)
    IN  /\ \A i \in DOMAIN rects : rects[i].w > 0 /\ rects[i].h > 0
        /\ Apart(rects)
        /\ ShownBy(rects) \subseteq wanted
        /\ Cardinality(Runs(Touching(marked, asking, desktop))) <= RectRoom =>
             wanted \subseteq ShownBy(rects)

(* A flag is cleared only when every dirty pixel of its tile that was      *)
(* asked for has been sent, also when the rectangles run out               *)
(* (src/src/leanrfb.c:1997), if nothing wraps.                             *)
ClearedWasSent ==
  ~Wraps(asking, desktop) =>
    LET rects == Rects
    IN  \A i \in DOMAIN rects : \A p \in Wanted(marked, asking, desktop) :
          TileOf(p) \in ClearedBy(rects[i], desktop) => p \in ShownBy(rects)
=============================================================================
