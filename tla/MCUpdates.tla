----------------------------- MODULE MCUpdates -----------------------------
(***************************************************************************)
(* When a client is sent which of its dirty tiles (DirtyTiles), and every  *)
(* stream of tiles from the Hextile encoder to the decoder (Hextile).  A   *)
(* behaviour is about one of them, and the other is in its initial state.  *)
(***************************************************************************)
EXTENDS DirtyTiles, Hextile

CONSTANTS c1, c2

Dot == [w |-> 1, h |-> 1]
Wide == [w |-> 3, h |-> 1]
DotAndWide == {Dot, Wide}

TileShapes == {<<2, 2>>, <<1, 1>>, <<1, 3>>}

-----------------------------------------------------------------------------
UpdatesInit == Init /\ HextileInit

Clientele == HextileInit /\ Next /\ UNCHANGED hextileVars

TileStream == Init /\ HextileNext /\ UNCHANGED vars

UpdatesSpec ==
  /\ UpdatesInit
  /\ [][Clientele \/ TileStream]_<<vars, hextileVars>>
  /\ Fairness

TypesOK == TypeOK /\ HextileTypeOK
=============================================================================
