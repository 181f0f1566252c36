--------------------------- MODULE DesktopResize ---------------------------
(***************************************************************************)
(* Live resizes of the desktop: a viewer whose window the user has resized *)
(* asks for that size (src/vncview/vncview.c), the X11 host switches the   *)
(* display to the nearest mode (src/x11_vnc/x11_vnc_server.c), the server  *)
(* takes over the size and announces it (src/src/leanrfb.c), and every     *)
(* viewer fits its screen and its window to what it is told.               *)
(*                                                                         *)
(* In a viewer two threads are at work: the network thread reads the       *)
(* announcements, the GTK thread handles the window's events, the 400 ms   *)
(* timer and the idle callback; they share screen_w and screen_h.          *)
(*                                                                         *)
(* When an announcement is sent is left open: the update walk sends it     *)
(* with the client's next update (DirtyTiles has the requests for these).  *)
(***************************************************************************)
EXTENDS Integers, FiniteSets, SequencesExt

CONSTANTS
  Clients,
  Modes,       \* the modes [w, h] of the host's output
  Mode0,       \* the one at startup
  Windows,     \* the sizes a user may drag a window to
  Byte,        \* what a byte counts up to: 256
  AllowResize, \* server->allow_desktop_resize
  MaxDrags     \* bound: resizes of windows by their users

Sizes == [w : Nat \ {0}, h : Nat \ {0}]

ASSUME ResizeAssumption ==
  /\ Modes \subseteq Sizes /\ IsFiniteSet(Modes) /\ Mode0 \in Modes
  /\ Windows \subseteq Sizes
  /\ Byte \in Nat \ {0}
  /\ AllowResize \in BOOLEAN
  /\ MaxDrags \in Nat

VARIABLES
  size,       \* server->width, server->height, and those of the capture
  supports,   \* client->supports_ext_desktop_size
  pending,    \* client->ext_desktop_status while one is pending, or "none"
  in_step,    \* the stream from the viewer is read at message boundaries
  requests,   \* SetDesktopSize, on its way to the server
  updates,    \* ExtendedDesktopSize, on its way to the viewer
  screen,     \* viewer: screen_w, screen_h
  window,     \* the size of its window
  least,      \* the size request of its drawing area: no window is smaller
  events,     \* configure events not handled yet
  idle,       \* apply_remote_desktop_size_idle is queued
  timer,      \* resize_debounce_source is set
  pending_resize,  \* pending_resize_w, pending_resize_h
  drags,      \* how many so far
  overwritten \* history: a rejection took the place of an announcement

clientVars == <<supports, pending, in_step, overwritten>>
netVars == <<requests, updates>>
viewerVars == <<screen, window, least, events, idle, timer, pending_resize,
                drags>>
vars == <<size, clientVars, netVars, viewerVars>>

Statuses == {"success", "prohibited", "invalid_layout"}

(* Types.  A display has one of its modes, and a window is as large as its *)
(* drawing area asks for.                                                  *)
TypeOK ==
  /\ size \in Modes
  /\ supports \in [Clients -> BOOLEAN]
  /\ pending \in [Clients -> Statuses \cup {"none"}]
  /\ in_step \in [Clients -> BOOLEAN]
  /\ overwritten \in [Clients -> BOOLEAN]
  /\ screen \in [Clients -> Modes]
  /\ drags \in 0..MaxDrags
  /\ \A c \in Clients :
       /\ ToSet(requests[c]) \subseteq Sizes
       /\ \A u \in ToSet(updates[c]) : u.status \in Statuses /\ u.size \in Modes
       /\ {window[c], least[c], pending_resize[c]} \subseteq Sizes
       /\ ToSet(events[c]) \subseteq Sizes
       /\ {idle[c], timer[c]} \subseteq BOOLEAN
       /\ window[c].w >= least[c].w /\ window[c].h >= least[c].h

(* Every viewer has read ServerInit; its SetEncodings is on its way.       *)
Init ==
  /\ size = Mode0
  /\ supports = [c \in Clients |-> FALSE]
  /\ pending = [c \in Clients |-> "none"]
  /\ in_step = [c \in Clients |-> TRUE]
  /\ overwritten = [c \in Clients |-> FALSE]
  /\ requests = [c \in Clients |-> <<>>]
  /\ updates = [c \in Clients |-> <<>>]
  /\ screen = [c \in Clients |-> Mode0]
  /\ window = [c \in Clients |-> Mode0]
  /\ least = [c \in Clients |-> Mode0]
  /\ events = [c \in Clients |-> <<>>]
  /\ idle = [c \in Clients |-> FALSE]
  /\ timer = [c \in Clients |-> FALSE]
  /\ pending_resize = [c \in Clients |-> Mode0]
  /\ drags = 0

-----------------------------------------------------------------------------
(* The viewer: its user, and the GTK thread. *)

Configured(c, s) ==
  /\ window' = [window EXCEPT ![c] = s]
  /\ events' = IF s = window[c] THEN events
               ELSE [events EXCEPT ![c] = Append(@, s)]

Drag(c, s) ==
  /\ drags < MaxDrags
  /\ drags' = drags + 1
  /\ s # window[c] /\ s.w >= least[c].w /\ s.h >= least[c].h
  /\ Configured(c, s)
  /\ UNCHANGED <<size, clientVars, netVars, screen, least, idle, timer,
                 pending_resize>>

ArmsAlways(c, s) == TRUE   \* mutant: the event's size is not looked at

(* on_viewer_configure(): a size that is not the server's starts the timer *)
(* anew; one that is leaves the timer as it is.                            *)
Arms(c, s) == s # screen[c]

OnConfigure(c) ==
  /\ events[c] # <<>>
  /\ events' = [events EXCEPT ![c] = Tail(@)]
  /\ LET s == Head(events[c]) IN
     IF Arms(c, s)
     THEN /\ timer' = [timer EXCEPT ![c] = TRUE]
          /\ pending_resize' = [pending_resize EXCEPT ![c] = s]
     ELSE UNCHANGED <<timer, pending_resize>>
  /\ UNCHANGED <<size, clientVars, netVars, screen, window, least, idle,
                 drags>>

DebounceTimeout(c) ==
  /\ timer[c]
  /\ timer' = [timer EXCEPT ![c] = FALSE]
  /\ requests' = [requests EXCEPT ![c] = Append(@, pending_resize[c])]
  /\ UNCHANGED <<size, clientVars, updates, screen, window, least, events,
                 idle, pending_resize, drags>>

ApplyRemoteDesktopSize(c) ==
  /\ idle[c]
  /\ idle' = [idle EXCEPT ![c] = FALSE]
  /\ Configured(c, screen[c])
  /\ least' = [least EXCEPT ![c] = screen[c]]
  /\ UNCHANGED <<size, clientVars, netVars, screen, timer, pending_resize,
                 drags>>

(* The network thread: a rectangle with another status than success, or    *)
(* with the size the screen has, changes nothing.                          *)
ReadSize(c) ==
  /\ updates[c] # <<>>
  /\ updates' = [updates EXCEPT ![c] = Tail(@)]
  /\ LET u == Head(updates[c]) IN
     IF u.status = "success" /\ u.size # screen[c]
     THEN /\ screen' = [screen EXCEPT ![c] = u.size]
          /\ idle' = [idle EXCEPT ![c] = TRUE]
     ELSE UNCHANGED <<screen, idle>>
  /\ UNCHANGED <<size, clientVars, requests, window, least, events, timer,
                 pending_resize, drags>>

-----------------------------------------------------------------------------
(* The host's callback. *)

Distance(a, b) ==
  LET Abs(n) == IF n < 0 THEN -n ELSE n IN Abs(a.w - b.w) + Abs(a.h - b.h)

AsRequested(req) ==   \* mutant: the size asked for is taken for the one set
  {[w |-> req.w, h |-> req.h]}

ClosestModes(req) ==
  {m \in Modes : \A n \in Modes : Distance(m, req) <= Distance(n, req)}

-----------------------------------------------------------------------------
(* The server. *)

(* A client that says for the first time that it knows the encoding is     *)
(* told the size, which may no longer be that of its ServerInit.           *)
Announce(c) == pending' = [pending EXCEPT ![c] = "success"]

SetEncodings(c) ==
  /\ ~supports[c]
  /\ supports' = [supports EXCEPT ![c] = TRUE]
  /\ Announce(c)
  /\ UNCHANGED <<size, in_step, overwritten, netVars, viewerVars>>

(* The viewer writes the screens' number to byte 3 and the size to bytes   *)
(* 4 to 7; the server takes the size from bytes 2 to 5 and the number from *)
(* byte 6.                                                                 *)
AsRead(r) == [w |-> 1, h |-> r.w, screens |-> r.h \div Byte]

(* The answer is put in the client's one slot, whatever waits there.       *)
Rejected(c) ==
  /\ pending' = [pending EXCEPT ![c] = IF AllowResize THEN "invalid_layout"
                                       ELSE "prohibited"]
  /\ overwritten' = [overwritten EXCEPT ![c] = @ \/ pending[c] = "success"]
  /\ UNCHANGED size

TellRequester(c) ==   \* mutant: the other clients are not told
  pending' = [pending EXCEPT ![c] = "success"]

(* vnc_server_resize_framebuffer() tells those that know the encoding, and *)
(* then the requester and the others get their own reasons.                *)
TellAll(c) ==
  pending' = [d \in Clients |-> IF supports[d] \/ d = c THEN "success"
                                ELSE pending[d]]

Resized(c, m) ==
  /\ size' = m
  /\ TellAll(c)
  /\ overwritten' = [d \in Clients |-> overwritten[d] /\ ~(supports[d] \/ d = c)]

(* Where the layout read names other than the one screen that was sent,    *)
(* what follows is not read at the boundaries of messages any more; the    *)
(* model reads no further.                                                 *)
SetDesktopSize(c) ==
  /\ supports[c] /\ in_step[c]
  /\ requests[c] # <<>>
  /\ requests' = [requests EXCEPT ![c] = Tail(@)]
  /\ LET r == AsRead(Head(requests[c])) IN
     /\ in_step' = [in_step EXCEPT ![c] = r.screens = 1]
     /\ \/ /\ r.screens > 1   \* more bytes are waited for
           /\ UNCHANGED <<size, pending, overwritten>>
        \/ /\ r.screens <= 1   \* not allowed, no screen, or no usable mode
           /\ Rejected(c)
        \/ /\ r.screens = 1 /\ AllowResize
           /\ \E m \in ClosestModes(r) : Resized(c, m)
  /\ UNCHANGED <<supports, updates, viewerVars>>

SendUpdate(c) ==
  /\ pending[c] # "none"
  /\ updates' = [updates EXCEPT
                   ![c] = Append(@, [status |-> pending[c], size |-> size])]
  /\ pending' = [pending EXCEPT ![c] = "none"]
  /\ UNCHANGED <<size, supports, in_step, overwritten, requests,
                 viewerVars>>

-----------------------------------------------------------------------------
Gtk(c) == OnConfigure(c) \/ DebounceTimeout(c) \/ ApplyRemoteDesktopSize(c)

Server(c) == SetEncodings(c) \/ SetDesktopSize(c) \/ SendUpdate(c)

User(c) == \E s \in Windows : Drag(c, s)

Next == \E c \in Clients : User(c) \/ Gtk(c) \/ ReadSize(c) \/ Server(c)

Spec == Init /\ [][Next]_vars

(* The threads run, the timer expires, the poll loop reads and writes.     *)
Fairness ==
  \A c \in Clients :
    /\ WF_vars(OnConfigure(c)) /\ WF_vars(DebounceTimeout(c))
    /\ WF_vars(ApplyRemoteDesktopSize(c)) /\ WF_vars(ReadSize(c))
    /\ WF_vars(SetEncodings(c)) /\ WF_vars(SetDesktopSize(c))
    /\ WF_vars(SendUpdate(c))

FairSpec == Spec /\ Fairness

-----------------------------------------------------------------------------
(* Properties. *)

(* The viewer shows the desktop at its size, or will when it has read      *)
(* what it is sent.                                                        *)
Told(c) ==
  \/ pending[c] = "success"
  \/ \E i \in DOMAIN updates[c] :
       /\ updates[c][i] = [status |-> "success", size |-> size]
       /\ \A j \in i + 1..Len(updates[c]) :
            updates[c][j].status = "success" => updates[c][j].size = size
  \/ screen[c] = size /\ \A u \in ToSet(updates[c]) :
                            u.status = "success" => u.size = size

(* A viewer that knows the encoding and does not show the desktop at its   *)
(* size has the announcement of it on the way, also when resizes follow    *)
(* each other faster than the one slot a client has for them is emptied.   *)
(* A rejection of the viewer's own request also goes into that slot, and   *)
(* an announcement that waits there is lost: that viewer is left out here  *)
(* until the next announcement (overwritten).                              *)
SizeOnItsWay ==
  \A c \in Clients : supports[c] /\ ~overwritten[c] => Told(c)

(* The handler of configure events does not ask again for the size that   *)
(* an announcement gave the window: the desktop keeps its size after one   *)
(* resize of one window, however many viewers follow it.  (When users      *)
(* resize again while the announcements are on the way, old events and     *)
(* requests can chase each other for as long as the threads take turns     *)
(* in the same unlucky order.)                                             *)
Settles == [](drags <= 1) => <>[][UNCHANGED size]_vars

(* The bytes of a SetDesktopSize are all consumed "so the stream stays in  *)
(* sync regardless of what we do with them" (src/src/leanrfb.c:1379).      *)
StreamInStep == \A c \in Clients : in_step[c]
=============================================================================
