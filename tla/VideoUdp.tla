------------------------------ MODULE VideoUdp ------------------------------
(***************************************************************************)
(* One viewer's video: vnc_send_video_update() encoding frames and sending *)
(* them over the encrypted UDP session, or over TCP while that is not live *)
(* (src/src/leanrfb.c, leanrfb_udp.c); and the desktop viewer, which       *)
(* reassembles and decodes them and asks for keyframes                     *)
(* (src/vncview/vncview.c).                                                *)
(*                                                                         *)
(* TCP is reliable and ordered.  Datagrams get lost; some networks keep    *)
(* their order, some do not, and some let none through.  One that comes    *)
(* twice is refused by the anti-replay window (ReplayWindow).              *)
(*                                                                         *)
(* Time passes by actions: the 8 s of liveness, the 120 ms of reassembly   *)
(* and the 500 ms between requests for a keyframe may be over at any       *)
(* moment.  The encoder returns a packet for the picture it is given, not  *)
(* for an earlier one.                                                     *)
(***************************************************************************)
EXTENDS Integers, FiniteSets, SequencesExt

CONSTANTS
  FragCounts,   \* how many fragments a frame can need
  MaxFrags,     \* VNC_UDP_MAX_FRAGS
  MaxInFlight,  \* bound: datagrams of video on their way
  MaxEvents     \* bound: changes of the framebuffer, resizes of the desktop
                \* and times that no HELLO came for 8 s, together

ASSUME VideoAssumption ==
  /\ FragCounts \subseteq Nat \ {0} /\ MaxFrags \in Nat \ {0}
  /\ MaxInFlight \in Nat /\ MaxEvents \in Nat

VARIABLES
  \* the server and its struct of this client
  drawings,                  \* the content of server->framebuffer
  resizes,                   \* stands for server->width and height
  lapses,
  dirty,                     \* some flag of client->dirty_tiles is set
  encoder,                   \* client->h264_enc or vp9_enc
  force_keyframe_requested,  \* client->force_keyframe_requested
  pending_ext_desktop_size,  \* client->pending_ext_desktop_size
  session,                   \* client->udp_cid and udp_key: 0 for none yet
  udp_setup_sent,            \* client->udp_setup_sent
  udp_ready,                 \* client->udp_ready
  live,                      \* a HELLO came within the last 8 s
  was_udp_active,            \* client->was_udp_active
  udp_frame_id,              \* client->udp_frame_id
  encoded,                   \* history: frames encoded so far
  \* what is on its way
  network,                   \* what becomes of datagrams; never changes
  tcp,                       \* to the viewer, in order
  asked,                     \* RequestKeyframe, to the server
  net,                       \* datagrams of video, in order of sending
  hellos,                    \* the sessions of HELLO datagrams
  \* the viewer
  screen,                    \* screen_w and screen_h
  udp_cid,                   \* udp_cid and udp_key; 0 while udp_active is 0
  reasm,                     \* the frame being reassembled
  last_completed,            \* last_completed_frame_id, -1 for none
  decoder,                   \* decoder_primed and decoder_has_keyframe
  limited,                   \* a keyframe was asked for within 500 ms
  shown,                     \* history: the newest frame decoded
  assembled                  \* history: the fragments it was made of

serverVars == <<drawings, resizes, lapses, dirty, encoder,
                force_keyframe_requested, pending_ext_desktop_size, session,
                udp_setup_sent, udp_ready, live, was_udp_active,
                udp_frame_id, encoded>>
viewerVars == <<screen, udp_cid, reasm, last_completed, decoder, limited,
                shown, assembled>>
vars == <<serverVars, network, tcp, asked, net, hellos, viewerVars>>

Frames == [number : Nat, key : BOOLEAN, content : Nat, size : Nat]
Networks == {"blocks", "keeps order", "reorders"}
Nothing == [number |-> 0, key |-> FALSE, content |-> 0, size |-> 0]
Fragments == [session : Nat, frame_id : Nat, idx : Nat, count : Nat,
              frame : Frames]
\* "fresh" has encoded nothing or was told to emit a keyframe
Encoders == {"none", "fresh", "running"}
Decoders == {"none", "primed", "keyframe"}

Idle == [active |-> FALSE, frame_id |-> 0, count |-> 0, got |-> {}]

(* Types; the viewer waits for fewer fragments than there can be.          *)
TypeOK ==
  /\ {drawings, resizes, lapses} \subseteq 0..MaxEvents
  /\ {dirty, force_keyframe_requested, pending_ext_desktop_size,
      udp_setup_sent, udp_ready, live, was_udp_active, asked, limited}
       \subseteq BOOLEAN
  /\ encoder \in Encoders /\ decoder \in Decoders
  /\ {session, udp_frame_id, encoded, screen, udp_cid} \subseteq Nat
  /\ hellos \subseteq 1..session
  /\ \A f \in ToSet(net) : f \in Fragments /\ f.idx < f.count
  /\ shown \in Frames /\ network \in Networks
  /\ last_completed \in Nat \cup {-1}
  /\ reasm.active => /\ Cardinality(reasm.got) < reasm.count
                     /\ reasm.count <= MaxFrags

Init ==
  /\ drawings = 0 /\ resizes = 0 /\ lapses = 0
  /\ dirty = TRUE
  /\ encoder = "none"
  /\ force_keyframe_requested = FALSE
  /\ pending_ext_desktop_size = TRUE
  /\ session = 0 /\ udp_setup_sent = FALSE /\ udp_ready = FALSE
  /\ live = FALSE /\ was_udp_active = FALSE
  /\ udp_frame_id = 0 /\ encoded = 0
  /\ network \in Networks
  /\ tcp = <<>> /\ asked = FALSE /\ net = <<>> /\ hellos = {}
  /\ screen = 0 /\ udp_cid = 0
  /\ reasm = Idle /\ last_completed = -1
  /\ decoder = "none" /\ limited = FALSE
  /\ shown = Nothing /\ assembled = {}

-----------------------------------------------------------------------------
(* The server: the application's calls, and what arrives. *)

MayHappen == drawings + resizes + lapses < MaxEvents

Draw ==
  /\ MayHappen
  /\ drawings' = drawings + 1
  /\ dirty' = TRUE
  /\ UNCHANGED <<resizes, lapses, encoder, force_keyframe_requested,
                 pending_ext_desktop_size, session, udp_setup_sent, udp_ready,
                 live, was_udp_active, udp_frame_id, encoded, tcp, asked, net,
                 hellos, viewerVars>>

(* The encoder is dropped and the UDP session given up. *)
ResizeFramebuffer ==
  /\ MayHappen
  /\ resizes' = resizes + 1
  /\ dirty' = TRUE
  /\ encoder' = "none"
  /\ udp_setup_sent' = FALSE
  /\ udp_ready' = FALSE
  /\ force_keyframe_requested' = TRUE
  /\ pending_ext_desktop_size' = TRUE
  /\ UNCHANGED <<drawings, lapses, session, live, was_udp_active, udp_frame_id,
                 encoded, tcp, asked, net, hellos, viewerVars>>

RequestKeyframe ==
  /\ asked
  /\ asked' = FALSE
  /\ force_keyframe_requested' = TRUE
  /\ UNCHANGED <<drawings, resizes, lapses, dirty, encoder,
                 pending_ext_desktop_size, session, udp_setup_sent, udp_ready,
                 live, was_udp_active, udp_frame_id, encoded, tcp, net, hellos,
                 viewerVars>>

KnownToAny(cid) == cid > 0   \* mutant: the connection id is not compared

KnownSession(cid) == udp_setup_sent /\ cid = session

HandleIncoming(cid) ==
  /\ network # "blocks"
  /\ cid \in hellos
  /\ hellos' = hellos \ {cid}
  /\ IF KnownSession(cid) THEN udp_ready' = TRUE /\ live' = TRUE
     ELSE UNCHANGED <<udp_ready, live>>
  /\ UNCHANGED <<drawings, resizes, lapses, dirty, encoder,
                 force_keyframe_requested, pending_ext_desktop_size, session,
                 udp_setup_sent, was_udp_active, udp_frame_id, encoded, tcp,
                 asked, net, viewerVars>>

Lapse ==
  /\ live
  /\ MayHappen
  /\ lapses' = lapses + 1
  /\ live' = FALSE
  /\ UNCHANGED <<drawings, resizes, dirty, encoder, force_keyframe_requested,
                 pending_ext_desktop_size, session, udp_setup_sent, udp_ready,
                 was_udp_active, udp_frame_id, encoded, tcp, asked, net,
                 hellos, viewerVars>>

-----------------------------------------------------------------------------
(* The server: vnc_client_send_update() for a client of a video codec. *)

UdpActive == udp_ready /\ live

(* Video moves (back) to UDP: from a keyframe, and with all tiles dirty.   *)
Switches == UdpActive /\ ~was_udp_active

Announcement ==
  IF pending_ext_desktop_size THEN <<[type |-> "size", size |-> resizes]>>
  ELSE <<>>

(* The announcement of the size could not be flushed at once. *)
SendSizeOnly ==
  /\ pending_ext_desktop_size
  /\ pending_ext_desktop_size' = FALSE
  /\ tcp' = tcp \o Announcement
  /\ UNCHANGED <<drawings, resizes, lapses, dirty, encoder,
                 force_keyframe_requested, session, udp_setup_sent, udp_ready,
                 live, was_udp_active, udp_frame_id, encoded, asked, net,
                 hellos, viewerVars>>

(* No tile is dirty, the last frame was sent 33 ms ago, or no encoder.     *)
SendNoFrame ==
  /\ pending_ext_desktop_size' = FALSE
  /\ tcp' = tcp \o Announcement
  /\ was_udp_active' = UdpActive
  /\ dirty' = (dirty \/ Switches)
  /\ force_keyframe_requested' = (force_keyframe_requested \/ Switches)
  /\ UNCHANGED <<drawings, resizes, lapses, encoder, session, udp_setup_sent,
                 udp_ready, live, udp_frame_id, encoded, asked, net, hellos,
                 viewerVars>>

MustKeyForced ==   \* mutant: a new encoder begins with any frame
  force_keyframe_requested \/ Switches

MustKey ==
  force_keyframe_requested \/ Switches \/ encoder # "running"

(* What comes before the frame, once there is something to send: a UDP     *)
(* session is set up with the first frame, and after a resize.             *)
Prepare ==
  /\ dirty \/ Switches
  /\ pending_ext_desktop_size' = FALSE
  /\ was_udp_active' = UdpActive
  /\ force_keyframe_requested' = FALSE
  /\ udp_setup_sent' = TRUE
  /\ IF udp_setup_sent THEN UNCHANGED <<session, udp_ready>>
     ELSE session' = session + 1 /\ udp_ready' = FALSE
  /\ UNCHANGED <<drawings, resizes, lapses, live, asked, hellos, viewerVars>>

Setup ==
  IF udp_setup_sent THEN <<>> ELSE <<[type |-> "setup", cid |-> session + 1]>>

FirstId == IF udp_setup_sent THEN udp_frame_id ELSE 0

(* The encoder fails, or returns no packet; the picture stays due.         *)
EncodeNothing ==
  /\ Prepare
  /\ tcp' = tcp \o Announcement \o Setup
  /\ dirty' = TRUE
  /\ encoder' \in {"fresh", IF encoder = "running" THEN "running" ELSE "fresh"}
  /\ udp_frame_id' = FirstId
  /\ UNCHANGED <<encoded, net>>

FragmentedFromOne(frame, count) ==   \* mutant: fragments numbered from one
  [i \in 1..count |-> [session |-> session, frame_id |-> udp_frame_id,
                       idx |-> i, count |-> count, frame |-> frame]]

Fragmented(frame, count) ==
  [i \in 1..count |-> [session |-> session, frame_id |-> udp_frame_id,
                       idx |-> i - 1, count |-> count, frame |-> frame]]

SendFrame ==
  /\ Prepare
  /\ dirty' = FALSE
  /\ encoder' = "running"
  /\ encoded' = encoded + 1
  /\ \E key \in BOOLEAN, count \in FragCounts :
       LET frame == [number |-> encoded + 1, key |-> key,
                     content |-> drawings, size |-> resizes]
       IN
       /\ MustKey => key
       /\ IF UdpActive /\ count <= MaxFrags
          THEN /\ Len(net) + count <= MaxInFlight
               /\ net' = net \o Fragmented(frame, count)
               /\ udp_frame_id' = udp_frame_id + 1
               /\ tcp' = tcp \o Announcement
          ELSE /\ tcp' = tcp \o Announcement \o Setup
                             \o <<[type |-> "frame", frame |-> frame]>>
               /\ udp_frame_id' = FirstId
               /\ UNCHANGED net

-----------------------------------------------------------------------------
(* The network. *)

Deliverable == IF network = "reorders" THEN DOMAIN net ELSE DOMAIN net \cap {1}

LoseVideo ==
  /\ net # <<>>
  /\ net' = Tail(net)
  /\ UNCHANGED <<serverVars, tcp, asked, hellos, viewerVars>>

LoseHello(cid) ==
  /\ cid \in hellos
  /\ hellos' = hellos \ {cid}
  /\ UNCHANGED <<serverVars, tcp, asked, net, viewerVars>>

-----------------------------------------------------------------------------
(* The viewer. *)

(* request_keyframe(), when a handler has a reason to call it. *)
AskIf(reason, was_limited) ==
  /\ asked' = (asked \/ (reason /\ ~was_limited))
  /\ limited' = (was_limited \/ reason)

LimitOver ==
  /\ limited
  /\ limited' = FALSE
  /\ UNCHANGED <<serverVars, tcp, asked, net, hellos, screen, udp_cid, reasm,
                 last_completed, decoder, shown, assembled>>

SendHello ==
  /\ udp_cid > 0
  /\ hellos' = hellos \cup {udp_cid}
  /\ UNCHANGED <<serverVars, tcp, asked, net, viewerVars>>

(* A keyframe resets the decoder; a decoder that was opened decodes any    *)
(* frame of the screen's size.                                             *)
DecoderAfter(key) == IF key THEN "keyframe" ELSE decoder

Shows(frame, key, size) ==
  shown' = IF DecoderAfter(key) # "none" /\ frame.size = size THEN frame
           ELSE shown

ReadSize ==
  /\ tcp # <<>> /\ Head(tcp).type = "size"
  /\ tcp' = Tail(tcp)
  /\ screen' = Head(tcp).size
  /\ UNCHANGED <<serverVars, asked, net, hellos, udp_cid, reasm,
                 last_completed, decoder, limited, shown, assembled>>

ReasmKept == reasm   \* mutant: what was received of a frame is kept
ReasmReset == Idle

ReadSetup ==
  /\ tcp # <<>> /\ Head(tcp).type = "setup"
  /\ tcp' = Tail(tcp)
  /\ udp_cid' = Head(tcp).cid
  /\ decoder' = "primed"
  /\ limited' = FALSE
  /\ reasm' = ReasmReset
  /\ last_completed' = -1
  /\ UNCHANGED <<serverVars, asked, net, hellos, screen, shown, assembled>>

ReadFrame ==
  /\ tcp # <<>> /\ Head(tcp).type = "frame"
  /\ tcp' = Tail(tcp)
  /\ LET frame == Head(tcp).frame IN
     /\ decoder' = DecoderAfter(frame.key)
     /\ Shows(frame, frame.key, frame.size)
  /\ UNCHANGED <<serverVars, asked, net, hellos, screen, udp_cid, reasm,
                 last_completed, limited, assembled>>

Started(f) == [active |-> TRUE, frame_id |-> f.frame_id, count |-> f.count,
               got |-> {}]

Starts(f) == ~reasm.active \/ f.frame_id > reasm.frame_id

NeverDone(f) == FALSE   \* mutant: frames completed before are not refused

AlreadyDone(f) == f.frame_id <= last_completed

Drop == UNCHANGED <<asked, reasm, last_completed, decoder, limited, shown,
                    assembled>>

AddFragment(f) ==
  LET base == IF Starts(f) THEN Started(f) ELSE reasm
      new == \A g \in base.got : g.idx # f.idx
      got == IF new THEN base.got \cup {f} ELSE base.got
      complete == Cardinality(got) = base.count
      key == new /\ f.frame.key   \* reasm_flags, when this completes a frame
      gap == last_completed # -1 /\ f.frame_id # last_completed + 1
      lost == Starts(f) /\ (reasm.active \/ gap)
  IN
  IF Starts(f) /\ AlreadyDone(f) THEN Drop
  ELSE IF ~complete
  THEN /\ reasm' = [base EXCEPT !.got = got]
       /\ AskIf(lost, limited)
       /\ UNCHANGED <<last_completed, decoder, shown, assembled>>
  ELSE /\ reasm' = Idle
       /\ last_completed' = f.frame_id
       /\ assembled' = got
       /\ decoder' = DecoderAfter(key)
       /\ Shows(f.frame, key, screen)
       /\ AskIf(lost \/ DecoderAfter(key) # "keyframe", limited)

UdpDrain(i) ==
  /\ network # "blocks"
  /\ udp_cid > 0
  /\ i \in Deliverable
  /\ net' = RemoveAt(net, i)
  /\ IF net[i].session = udp_cid THEN AddFragment(net[i]) ELSE Drop
  /\ UNCHANGED <<serverVars, tcp, hellos, screen, udp_cid>>

ReasmTimeout ==
  /\ reasm.active
  /\ reasm' = Idle
  /\ AskIf(TRUE, limited)
  /\ UNCHANGED <<serverVars, tcp, net, hellos, screen, udp_cid,
                 last_completed, decoder, shown, assembled>>

-----------------------------------------------------------------------------
Server ==
  \/ Draw \/ ResizeFramebuffer \/ RequestKeyframe \/ Lapse
  \/ (\E cid \in hellos : HandleIncoming(cid))
  \/ SendSizeOnly \/ SendNoFrame \/ EncodeNothing \/ SendFrame

Network == LoseVideo \/ \E cid \in hellos : LoseHello(cid)

Viewer ==
  \/ ReadSize \/ ReadSetup \/ ReadFrame
  \/ (\E i \in Deliverable : UdpDrain(i))
  \/ ReasmTimeout \/ LimitOver \/ SendHello

Next == (Server \/ Network \/ Viewer) /\ UNCHANGED network

Spec == Init /\ [][Next]_vars

-----------------------------------------------------------------------------
(* Properties. *)

(* The server takes UDP for live only for a viewer that has adopted the    *)
(* session it would send in: a HELLO of an earlier one, delayed in the     *)
(* network across a resize, does not count.                                *)
ReadyIsCurrent == udp_ready => udp_setup_sent /\ udp_cid = session

(* Where datagrams keep their order, what the viewer decodes as a frame    *)
(* are all the fragments of one frame, whatever is lost: "each encoded     *)
(* video frame (...) is fragmented into small datagrams and reassembled by *)
(* the client" (docs/custom/rfb_h264_udp_extension.md:33).  Where they do  *)
(* not, reasm_add_fragment() adds a late fragment of an older frame to the *)
(* one under reassembly.                                                   *)
FramesWhole ==
  network = "keeps order" /\ assembled # {} =>
    /\ Cardinality({f.frame : f \in assembled}) = 1
    /\ \A f \in assembled : f.count = Cardinality(assembled)

(* The viewer completes the frames of a session in the order in which they *)
(* were sent, none of them twice, whatever is lost; and also where         *)
(* datagrams are reordered, as long as none finds a frame of several       *)
(* fragments under reassembly.                                             *)
CompletedInOrder ==
  [][/\ udp_cid' = udp_cid
     /\ network = "reorders" => ~reasm.active
     => /\ last_completed' >= last_completed
        /\ assembled' # assembled => last_completed' > last_completed]_vars

(* Where no datagram passes, video goes on over TCP: a viewer that has     *)
(* read everything sent shows what is in the framebuffer, at its size,     *)
(* unless the server still owes it a frame.                                *)
ShownOverTcp ==
  network = "blocks" /\ tcp = <<>> /\ ~dirty =>
    /\ shown.content = drawings
    /\ shown.size = resizes /\ screen = resizes
    /\ decoder = "keyframe"
=============================================================================
