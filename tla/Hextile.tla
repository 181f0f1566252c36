------------------------------ MODULE Hextile ------------------------------
(***************************************************************************)
(* The Hextile encoding of the tiles of a rectangle                        *)
(* (src/src/leanrfb_hextile.c) and their decoding by the viewer            *)
(* (src/vncview/vnc_client_core.c).  Either side carries a background and  *)
(* a foreground colour from tile to tile, and what the encoder leaves out  *)
(* the decoder must supply.                                                *)
(*                                                                         *)
(* A tile is [w, h, at] with at[<<x, y>>] the colour of a pixel.  What is  *)
(* sent of it names only the parts that are sent; the pixel format is the  *)
(* viewer's, to which convert_pixel() is one to one.                       *)
(***************************************************************************)
EXTENDS Integers, FiniteSets, FiniteSetsExt, SequencesExt

CONSTANTS
  Side,         \* the side of a tile: 16
  Shapes,       \* the widths and heights of tiles: any from 1 to Side
  Colours,
  MaxColours,   \* more colours in a tile than these are sent raw: 16
  MaxSubrects,  \* and so are more subrectangles than these: 24
  PixelBytes,   \* bpp
  StartBg, StartFg, \* 0xFFFFFFFF and 0, the decoder's colours at the start
  MaxAhead      \* bound: tiles sent and not read

ASSUME HextileAssumption ==
  /\ Side \in Nat \ {0} /\ Shapes \subseteq (1..Side) \X (1..Side)
  /\ MaxColours \in Nat \ {0} /\ MaxSubrects \in Nat
  /\ PixelBytes \in Nat \ {0} /\ MaxAhead \in Nat \ {0}
  /\ {StartBg, StartFg} \subseteq Colours

VARIABLES
  prev_bg, prev_fg,  \* the encoder's: a set of at most one colour
  bg, fg,            \* the decoder's
  wire               \* tiles on their way: [code, first, tile], the tile itself
                     \* for the record

encoderVars == <<prev_bg, prev_fg>>
decoderVars == <<bg, fg>>
hextileVars == <<encoderVars, decoderVars, wire>>

Area(w, h) == (0..w - 1) \X (0..h - 1)

AllTiles == UNION {[w : {s[1]}, h : {s[2]}, at : [Area(s[1], s[2]) -> Colours]] :
                     s \in Shapes}

ColoursOf(t) == {t.at[p] : p \in DOMAIN t.at}
Count(t, c) == Cardinality({p \in DOMAIN t.at : t.at[p] = c})

(* The background of a tile: a most frequent colour.  (Of several the code *)
(* takes the one it met first.)                                            *)
Backgrounds(t) ==
  {c \in ColoursOf(t) : \A d \in ColoursOf(t) : Count(t, c) >= Count(t, d)}

-----------------------------------------------------------------------------
(* Subrectangles: spans of one colour in a row, merged downwards. *)

Uniform(t, b, s) ==
  s.color # b /\ \A i \in s.x..s.x + s.w - 1 : t.at[<<i, s.y>>] = s.color

Spans(t, b) ==
  {s \in [x : 0..t.w - 1, y : 0..t.h - 1, w : 1..t.w, h : {1},
          color : ColoursOf(t)] :
     /\ s.x + s.w <= t.w
     /\ Uniform(t, b, s)
     /\ s.x > 0 => t.at[<<s.x - 1, s.y>>] # s.color
     /\ s.x + s.w < t.w => t.at[<<s.x + s.w, s.y>>] # s.color}

Below(s, n) == [s EXCEPT !.y = @ + n]

SubrectsPast(t, b) ==   \* mutant: the tile's last row is not looked at
  {[s EXCEPT !.h = 2] : s \in Spans(t, b)}

(* A span takes in the equal ones right below it.                          *)
Subrects(t, b) ==
  LET spans == Spans(t, b)
      Height(s) == Max({n \in 1..t.h : \A k \in 0..n - 1 : Below(s, k) \in spans})
  IN  {[s EXCEPT !.h = Height(s)] :
         s \in {u \in spans : Below(u, -1) \notin spans}}

-----------------------------------------------------------------------------
(* The encoder. *)

(* Besides the background there is one colour, the foreground, or there    *)
(* are several, and then every subrectangle carries its own.               *)
Coloured(t) == Cardinality(ColoursOf(t)) > 2

Foreground(t, b) == IF Coloured(t) THEN {} ELSE ColoursOf(t) \ {b}

Raw(t) == [raw |-> TRUE, pixels |-> t.at, bg |-> {}, fg |-> {}]

(* A colour that the decoder has already is left out.                      *)
Coded(t, b, pb, pf) ==
  [raw |-> FALSE, bg |-> {b} \ pb, fg |-> Foreground(t, b) \ pf,
   coloured |-> Coloured(t), subrects |-> Subrects(t, b)]

Bytes(code) ==
  IF code.raw THEN 1 + PixelBytes * Cardinality(DOMAIN code.pixels)
  ELSE 1 + PixelBytes * (Cardinality(code.bg) + Cardinality(code.fg))
       + (IF code.subrects = {} THEN 0 ELSE 1)
       + Cardinality(code.subrects) * (IF code.coloured THEN 2 + PixelBytes ELSE 2)

RawIfManyColours(t, code) ==   \* mutant: the size is not compared
  Cardinality(ColoursOf(t)) > MaxColours

(* A tile of one colour is never sent raw.                                 *)
RawBetter(t, code) ==
  \/ Cardinality(ColoursOf(t)) > MaxColours
  \/ /\ Cardinality(ColoursOf(t)) > 1
     /\ \/ Bytes(code) >= t.w * t.h * PixelBytes
        \/ Cardinality(code.subrects) > MaxSubrects

(* What the encoder takes the decoder's colour to be, after this tile.     *)
Remember(prev, sent) == IF sent = {} THEN prev ELSE sent

NotReset(prev, first) == prev   \* mutant: kept from rectangle to rectangle

(* A rectangle begins with nothing remembered.                             *)
AtStart(prev, first) == IF first THEN {} ELSE prev

EncodeTile(t, first) ==
  /\ Len(wire) < MaxAhead
  /\ \E b \in Backgrounds(t) :
     LET pb == AtStart(prev_bg, first)
         pf == AtStart(prev_fg, first)
         coded == Coded(t, b, pb, pf)
         code == IF RawBetter(t, coded) THEN Raw(t) ELSE coded
     IN  /\ wire' = Append(wire, [code |-> code, first |-> first, tile |-> t])
         /\ prev_bg' = Remember(pb, code.bg)
         /\ prev_fg' = Remember(pf, code.fg)
  /\ UNCHANGED decoderVars

-----------------------------------------------------------------------------
(* The decoder. *)

Decoded(t, code, b, f) ==
  IF code.raw THEN code.pixels
  ELSE [p \in Area(t.w, t.h) |->
          LET over == {s \in code.subrects : /\ p[1] \in s.x..s.x + s.w - 1
                                             /\ p[2] \in s.y..s.y + s.h - 1}
          IN  IF over = {} THEN b
              ELSE IF code.coloured THEN (CHOOSE s \in over : TRUE).color
              ELSE f]

Received(new, first, initial, old) ==
  IF new # {} THEN CHOOSE c \in new : TRUE ELSE IF first THEN initial ELSE old

BgFor(m) == Received(m.code.bg, m.first, StartBg, bg)
FgFor(m) == Received(m.code.fg, m.first, StartFg, fg)

DecodeTile ==
  /\ wire # <<>>
  /\ wire' = Tail(wire)
  /\ bg' = BgFor(Head(wire))
  /\ fg' = FgFor(Head(wire))
  /\ UNCHANGED encoderVars

-----------------------------------------------------------------------------
HextileInit ==
  /\ prev_bg = {} /\ prev_fg = {}
  /\ bg = StartBg /\ fg = StartFg
  /\ wire = <<>>

HextileNext == DecodeTile \/ \E t \in AllTiles, first \in BOOLEAN : EncodeTile(t, first)

HextileSpec == HextileInit /\ [][HextileNext]_hextileVars

-----------------------------------------------------------------------------
(* Properties. *)

(* Types.  The place of a subrectangle and its size less one fit into four *)
(* bits each.                                                              *)
HextileTypeOK ==
  /\ prev_bg \subseteq Colours /\ Cardinality(prev_bg) <= 1
  /\ prev_fg \subseteq Colours /\ Cardinality(prev_fg) <= 1
  /\ bg \in Colours /\ fg \in Colours
  /\ \A i \in DOMAIN wire : ~wire[i].code.raw =>
       \A s \in wire[i].code.subrects :
         /\ s.x \in 0..Side - 1 /\ s.y \in 0..Side - 1
         /\ s.x + s.w <= Side /\ s.y + s.h <= Side

(* The viewer shows every tile as the framebuffer had it, though the       *)
(* encoder leaves out the colours it believes the decoder to have, and     *)
(* raw tiles and new rectangles come in between.                           *)
ShownAsDrawn ==
  wire # <<>> =>
    LET m == Head(wire) IN Decoded(m.tile, m.code, BgFor(m), FgFor(m)) = m.tile.at

(* No tile takes more bytes than raw, the space that is reserved for it    *)
(* ("Max size for one tile", src/src/leanrfb_hextile.c:26).                *)
FitsReserved ==
  \A i \in DOMAIN wire :
    Bytes(wire[i].code) <= 1 + PixelBytes * wire[i].tile.w * wire[i].tile.h
=============================================================================
