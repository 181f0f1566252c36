--------------------------- MODULE MCUpdateCases ---------------------------
(***************************************************************************)
(* Screens and requests for UpdateCases, with tiles of 4 x 4 pixels and    *)
(* words of 16: screens of whole tiles and with tiles cut at the right, at *)
(* the bottom or at both edges; requests that begin and end inside tiles,  *)
(* at their edges, at the edge of the screen, in the part of a tile that   *)
(* the edge cuts off and beyond all tiles, and the empty ones.             *)
(***************************************************************************)
EXTENDS UpdateCases

SmallScreens ==
  {[w |-> 5, h |-> 7], [w |-> 9, h |-> 5], [w |-> 8, h |-> 8], [w |-> 4, h |-> 9]}
SmallRequests ==
  [x : {0, 1, 4, 5, 6, 10}, y : {0, 3, 4, 5, 6, 10},
   w : {0, 1, 3, 4, 6, 10, 15}, h : {0, 1, 4, 5, 10, 15}]
=============================================================================
