----------------------------- MODULE DirtyTiles -----------------------------
(***************************************************************************)
(* How what the application draws reaches the peers: the server's copy of  *)
(* the framebuffer, each client's dirty tiles and outstanding request, and *)
(* vnc_client_send_update() for clients of the rectangle encodings, with   *)
(* live resizes of the desktop (src/src/leanrfb.c).                        *)
(*                                                                         *)
(* The application and the poll loop share a thread, so each call is one   *)
(* step.  The peers are viewers of this project: they ask for their whole  *)
(* screen when they join and again after every update they have read.  A   *)
(* message in transit carries no pixels here: seen[c] is what the peer's   *)
(* screen will show once it has read everything sent.                      *)
(***************************************************************************)
EXTENDS TileRects

CONSTANTS
  Clients,
  Sizes,        \* the sizes [w, h] the desktop can have, in which nothing
                \* wraps (see TileRects); the first is Size0
  Size0,
  Values,       \* pixel values
  Black,        \* what calloc() fills a framebuffer with
  MaxDrawings,  \* bound: calls of the application that change the content
  MaxResizes,   \* bound: resizes of the desktop
  MaxUnread     \* bound: updates sent that a peer has not read

ASSUME DirtyAssumption ==
  /\ Sizes \subseteq [w : 1..Word - Tile, h : 1..Word - Tile]
  /\ Size0 \in Sizes
  /\ Black \in Values
  /\ MaxDrawings \in Nat /\ MaxResizes \in Nat /\ MaxUnread \in Nat

VARIABLES
  size,                      \* server->width, server->height
  framebuffer,               \* server->framebuffer
  session,                   \* of each client: "never", "normal", "left"
  dirty_tiles,               \* client->dirty_tiles
  update_requested,          \* client->update_requested
  update_incremental,        \* client->update_incremental
  request,                   \* client->req_x, req_y, req_w, req_h
  pending_ext_desktop_size,  \* client->pending_ext_desktop_size
  unsent,                    \* client->write_len > client->write_pos
  unread,                    \* per update on its way: its screen's size
  seen,                      \* the screen once all of these are read
  drawings, resizes          \* how many of each so far

clientVars == <<session, dirty_tiles, update_requested, update_incremental,
                request, pending_ext_desktop_size, unsent, unread, seen>>
vars == <<size, framebuffer, drawings, resizes, clientVars>>

Blank == "blank"   \* a pixel of the peer's screen that was never drawn
Whole(s) == [x |-> 0, y |-> 0, w |-> s.w, h |-> s.h]
SizeOf(screen) == [w |-> Cardinality({p \in DOMAIN screen : p[2] = 0}),
                   h |-> Cardinality({p \in DOMAIN screen : p[1] = 0})]
Joined == {c \in Clients : session[c] = "normal"}

(* Types; a peer's screen has exactly the pixels of a size announced.      *)
TypeOK ==
  /\ size \in Sizes
  /\ framebuffer \in [Pixels(size) -> Values]
  /\ session \in [Clients -> {"never", "normal", "left"}]
  /\ \A c \in Clients :
       /\ dirty_tiles[c] \subseteq Tiles(size)
       /\ request[c] \in {Whole(s) : s \in Sizes}
       /\ unread[c] \in Seq(Sizes) /\ Len(unread[c]) <= MaxUnread
       /\ \E s \in Sizes : seen[c] \in [Pixels(s) -> Values \cup {Blank}]
  /\ update_requested \in [Clients -> BOOLEAN]
  /\ update_incremental \in [Clients -> BOOLEAN]
  /\ pending_ext_desktop_size \in [Clients -> BOOLEAN]
  /\ unsent \in [Clients -> BOOLEAN]
  /\ drawings \in 0..MaxDrawings
  /\ resizes \in 0..MaxResizes

BlankScreen(s) == [p \in Pixels(s) |-> Blank]

Init ==
  /\ size = Size0
  /\ framebuffer = [p \in Pixels(Size0) |-> Black]
  /\ session = [c \in Clients |-> "never"]
  /\ dirty_tiles = [c \in Clients |-> {}]
  /\ update_requested = [c \in Clients |-> FALSE]
  /\ update_incremental = [c \in Clients |-> FALSE]
  /\ request = [c \in Clients |-> Whole(Size0)]
  /\ pending_ext_desktop_size = [c \in Clients |-> FALSE]
  /\ unsent = [c \in Clients |-> FALSE]
  /\ unread = [c \in Clients |-> <<>>]
  /\ seen = [c \in Clients |-> BlankScreen(Size0)]
  /\ drawings = 0
  /\ resizes = 0

-----------------------------------------------------------------------------
(* The application's calls. *)

Draws ==
  /\ drawings < MaxDrawings
  /\ drawings' = drawings + 1
  /\ UNCHANGED <<size, resizes, session, update_requested,
                 update_incremental, request, pending_ext_desktop_size,
                 unsent, unread, seen>>

(* Both mark the tiles dirty for every client in the list. *)
MarkOne(tiles) ==   \* mutant: only the head of the list is marked
  dirty_tiles' = [c \in Clients |->
                    IF Joined # {} /\ c = CHOOSE d \in Joined : TRUE
                    THEN dirty_tiles[c] \cup tiles ELSE dirty_tiles[c]]

Mark(tiles) ==
  dirty_tiles' = [c \in Clients |-> IF c \in Joined
                                    THEN dirty_tiles[c] \cup tiles
                                    ELSE dirty_tiles[c]]

Differing(fb_data) ==
  {TileOf(p) : p \in {q \in Pixels(size) : framebuffer[q] # fb_data[q]}}

UpdateFramebuffer(fb_data) ==
  /\ Draws
  /\ framebuffer' = fb_data
  /\ Mark(Differing(fb_data))

(* Without a comparison: the whole rectangle is taken to have changed.     *)
UpdateRect(r, v) ==
  /\ Draws
  /\ framebuffer' = [p \in Pixels(size) |-> IF p \in Inside(r) THEN v
                                            ELSE framebuffer[p]]
  /\ Mark(TilesOf(r, size))

RedrawPast(s) ==   \* mutant: a column too many in the new grid
  dirty_tiles' = [c \in Clients |-> IF c \in Joined
                                    THEN Tiles([s EXCEPT !.w = @ + Tile])
                                    ELSE dirty_tiles[c]]

RedrawAll(s) ==
  dirty_tiles' = [c \in Clients |-> IF c \in Joined THEN Tiles(s)
                                    ELSE dirty_tiles[c]]

(* The new framebuffer is black; the application draws into it later.      *)
ResizeFramebuffer(s) ==
  /\ resizes < MaxResizes
  /\ s # size
  /\ resizes' = resizes + 1
  /\ size' = s
  /\ framebuffer' = [p \in Pixels(s) |-> Black]
  /\ RedrawAll(s)
  /\ update_requested' = [c \in Clients |-> update_requested[c] \/ c \in Joined]
  /\ pending_ext_desktop_size' =
       [c \in Clients |-> pending_ext_desktop_size[c] \/ c \in Joined]
  /\ UNCHANGED <<drawings, session, update_incremental, request, unsent,
                 unread, seen>>

-----------------------------------------------------------------------------
(* The peers. *)

(* All tiles are dirty from accept() on; SetEncodings, the first message   *)
(* after ServerInit told the size, asks for the announcement of the size.  *)
Join(c) ==
  /\ session[c] = "never"
  /\ session' = [session EXCEPT ![c] = "normal"]
  /\ dirty_tiles' = [dirty_tiles EXCEPT ![c] = Tiles(size)]
  /\ pending_ext_desktop_size' = [pending_ext_desktop_size EXCEPT ![c] = TRUE]
  /\ update_requested' = [update_requested EXCEPT ![c] = TRUE]
  /\ update_incremental' = [update_incremental EXCEPT ![c] = FALSE]
  /\ request' = [request EXCEPT ![c] = Whole(size)]
  /\ seen' = [seen EXCEPT ![c] = BlankScreen(size)]
  /\ UNCHANGED <<size, framebuffer, drawings, resizes, unsent, unread>>

Leave(c) ==
  /\ session[c] = "normal"
  /\ session' = [session EXCEPT ![c] = "left"]
  /\ dirty_tiles' = [dirty_tiles EXCEPT ![c] = {}]
  /\ pending_ext_desktop_size' = [pending_ext_desktop_size EXCEPT ![c] = FALSE]
  /\ update_requested' = [update_requested EXCEPT ![c] = FALSE]
  /\ update_incremental' = [update_incremental EXCEPT ![c] = FALSE]
  /\ request' = [request EXCEPT ![c] = Whole(Size0)]
  /\ unsent' = [unsent EXCEPT ![c] = FALSE]
  /\ unread' = [unread EXCEPT ![c] = <<>>]
  /\ seen' = [seen EXCEPT ![c] = BlankScreen(Size0)]
  /\ UNCHANGED <<size, framebuffer, drawings, resizes>>

(* The peer has read an update and asks for the next one, for the screen   *)
(* it then has; the message may arrive when the desktop has another size.  *)
FramebufferUpdateRequest(c) ==
  /\ session[c] = "normal"
  /\ unread[c] # <<>>
  /\ unread' = [unread EXCEPT ![c] = Tail(@)]
  /\ update_requested' = [update_requested EXCEPT ![c] = TRUE]
  /\ update_incremental' = [update_incremental EXCEPT ![c] = TRUE]
  /\ request' = [request EXCEPT ![c] = Whole(Head(unread[c]))]
  /\ UNCHANGED <<size, framebuffer, drawings, resizes, session, dirty_tiles,
                 pending_ext_desktop_size, unsent, seen>>

(* The peer has taken enough off the connection for the buffer to drain.   *)
Flush(c) ==
  /\ unsent[c]
  /\ unsent' = [unsent EXCEPT ![c] = FALSE]
  /\ UNCHANGED <<size, framebuffer, drawings, resizes, session, dirty_tiles,
                 update_requested, update_incremental, request,
                 pending_ext_desktop_size, unread, seen>>

-----------------------------------------------------------------------------
(* The update walk at the end of vnc_server_poll(). *)

(* What the peer will show after rectangles rects of the framebuffer.      *)
Drawn(screen, rects) ==
  LET sent == UNION {Inside(r) : r \in ToSet(rects)} IN
  [p \in DOMAIN screen \cup sent |->
     IF p \in sent THEN framebuffer[p] ELSE screen[p]]

(* An ExtendedDesktopSize rectangle: a screen of another size is made anew. *)
AnnouncedOld(screen) == screen   \* mutant: the peer is told the old size

Announced(screen) == IF SizeOf(screen) = size THEN screen ELSE BlankScreen(size)

(* The tiles the client is owed, in answer to a request for all of it too. *)
Owed(c) ==
  IF update_incremental[c] THEN dirty_tiles[c]
  ELSE dirty_tiles[c] \cup TilesOf(request[c], size)

RequestServed(c) ==   \* mutant: nothing to send counts as an answer
  /\ update_requested' = [update_requested EXCEPT ![c] = FALSE]
  /\ UNCHANGED unsent

(* With no rectangle to send the request stays: it is tried again when the *)
(* framebuffer has changed.                                                *)
RequestKept(c) == UNCHANGED <<update_requested, unsent>>

(* The rectangles of the request, from a client that shows screen; upd is  *)
(* what is on its way to the peer already.                                 *)
SendTiles(c, screen, upd) ==
  \E tiles \in {Owed(c) \cap TilesOf(request[c], size)} :
  \E rects \in {UpdateRects(tiles, request[c], size)} :
  /\ update_incremental' = [update_incremental EXCEPT ![c] = TRUE]
  /\ IF rects = <<>>
     THEN /\ dirty_tiles' = [dirty_tiles EXCEPT ![c] = Owed(c)]
          /\ seen' = [seen EXCEPT ![c] = screen]
          /\ unread' = [unread EXCEPT ![c] = upd]
          /\ RequestKept(c)
     ELSE /\ dirty_tiles' =
               [dirty_tiles EXCEPT ![c] =
                  Owed(c) \ UNION {ClearedBy(r, size) : r \in ToSet(rects)}]
          /\ seen' = [seen EXCEPT ![c] = Drawn(screen, rects)]
          /\ unread' = [unread EXCEPT ![c] = Append(upd, size)]
          /\ update_requested' = [update_requested EXCEPT ![c] = FALSE]
          /\ \E blocked \in BOOLEAN : unsent' = [unsent EXCEPT ![c] = blocked]

(* The announcement of the size comes first, and alone if it cannot be     *)
(* flushed at once.                                                        *)
SendUpdate(c) ==
  /\ UNCHANGED <<size, framebuffer, drawings, resizes, session, request>>
  /\ session[c] = "normal"
  /\ update_requested[c]
  /\ ~unsent[c]
  /\ Len(unread[c]) + 1 < MaxUnread
  /\ IF pending_ext_desktop_size[c]
     THEN /\ pending_ext_desktop_size' =
               [pending_ext_desktop_size EXCEPT ![c] = FALSE]
          /\ \/ SendTiles(c, Announced(seen[c]), Append(unread[c], size))
             \/ /\ unsent' = [unsent EXCEPT ![c] = TRUE]
                /\ unread' = [unread EXCEPT ![c] = Append(@, size)]
                /\ seen' = [seen EXCEPT ![c] = Announced(@)]
                /\ UNCHANGED <<dirty_tiles, update_requested,
                               update_incremental>>
     ELSE /\ SendTiles(c, seen[c], unread[c])
          /\ UNCHANGED pending_ext_desktop_size

-----------------------------------------------------------------------------
Rectangles(s) ==
  {r \in [x : 0..s.w - 1, y : 0..s.h - 1, w : 1..s.w, h : 1..s.h] :
     r.x + r.w <= s.w /\ r.y + r.h <= s.h}

Application ==
  \/ \E fb_data \in [Pixels(size) -> Values] : UpdateFramebuffer(fb_data)
  \/ \E r \in Rectangles(size), v \in Values : UpdateRect(r, v)
  \/ \E s \in Sizes : ResizeFramebuffer(s)

Next ==
  \/ Application
  \/ \E c \in Clients : \/ Join(c) \/ Leave(c) \/ FramebufferUpdateRequest(c)
                        \/ Flush(c) \/ SendUpdate(c)

Spec == Init /\ [][Next]_vars

(* vnc_server_poll() is called again and again, and the peers read: while  *)
(* there is anything to be done for any of them, some of it is done.       *)
Fairness ==
  WF_vars(\E c \in Clients :
            Flush(c) \/ FramebufferUpdateRequest(c) \/ SendUpdate(c))

FairSpec == Spec /\ Fairness

-----------------------------------------------------------------------------
(* Properties. *)

(* Whatever a peer's screen will not show as it is in the framebuffer lies *)
(* in a tile that is dirty for this client: no change is ever forgotten,   *)
(* whichever call made it and whenever updates were sent or held back.     *)
(* (On desktops of whole tiles: a request for the size before a resize can *)
(* cover part of a tile, whose flag is cleared with the rest not sent.)    *)
NoLostUpdate ==
  \A c \in Joined : SizeOf(seen[c]) = size =>
    \A p \in Pixels(size) :
      seen[c][p] # framebuffer[p] => TileOf(p) \in dirty_tiles[c]

(* A peer that does not know the size of the desktop is about to be told,  *)
(* and it is told before any pixel of the new size is sent.                *)
SizeKnown ==
  \A c \in Joined : SizeOf(seen[c]) # size => /\ pending_ext_desktop_size[c]
                                              /\ update_requested[c]

(* When the application stops drawing, every peer comes to show what is in *)
(* the framebuffer, also when an update cannot hold all there is to send.  *)
Converges == <>[](\A c \in Joined : seen[c] = framebuffer)
=============================================================================
