-------------------------- MODULE MCDesktopResize --------------------------
EXTENDS DesktopResize

CONSTANTS c1, c2

(* A display that can be turned.  As the server reads them, a request for  *)
(* portrait gets landscape and the other way round; the third mode is got  *)
(* by a wide window; a window of height 2 * Byte is read as two screens.   *)
Portrait == [w |-> 10, h |-> 13]
Landscape == [w |-> 12, h |-> 10]
Tall == [w |-> 11, h |-> 15]
ThreeModes == {Portrait, Landscape, Tall}
Dragged == {[w |-> 10, h |-> 14], [w |-> 15, h |-> 15], [w |-> 12, h |-> 16]}

(* Sizes as they are, with 256 values to a byte. *)
FullHd == [w |-> 1920, h |-> 1080]
RealModes == {[w |-> 1280, h |-> 720], FullHd}
RealWindows == {[w |-> 1930, h |-> 1090]}
=============================================================================
