------------------------------ MODULE MCVideo ------------------------------
(***************************************************************************)
(* How a picture gets to a viewer: as frames of video (VideoUdp), or as    *)
(* the rectangles of an update, for every set of dirty tiles and every     *)
(* request, on screens with whole and with cut tiles at both edges         *)
(* (UpdateCases).  One behaviour is about either of them, as they share    *)
(* no state.                                                               *)
(***************************************************************************)
EXTENDS VideoUdp, MCUpdateCases

(* No update: a screen without rows, of which no tile can be marked, and   *)
(* of a width that the properties of rectangles leave out.                 *)
NoCase ==
  /\ desktop = [w |-> Word, h |-> 0]
  /\ asking = [x |-> 0, y |-> 0, w |-> 0, h |-> 0]
  /\ marked = {}

PictureInit == Init /\ (NoCase \/ (CasesInit /\ network = "blocks"))

(* Bound: where datagrams change their order, one of the events at most is *)
(* a resize or a loss of liveness.                                         *)
FewSessions == network = "reorders" => resizes + lapses <= 1

Video == NoCase /\ Next /\ FewSessions' /\ UNCHANGED cases

Rectangles == Init /\ MarkTile /\ UNCHANGED vars

PictureSpec == PictureInit /\ [][Video \/ Rectangles]_<<vars, cases>>
=============================================================================
