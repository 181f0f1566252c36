---------------------------- MODULE ClientOutput ----------------------------
(***************************************************************************)
(* The buffered connection of the server to one viewer: write_buf with its *)
(* growth and its partial sends, the frames it is cut into for a browser,  *)
(* the frames that come back, and the functions that write messages        *)
(* (src/src/leanrfb.c).                                                    *)
(*                                                                         *)
(* A message is a number of units, which stand for its bytes; a frame      *)
(* header is one unit, whatever its length.  A handler of the server is    *)
(* the sequence of writes and flushes it makes, in `todo': each of them    *)
(* meets a connection that takes some, all or nothing of what it is given. *)
(* The handlers are those of one thread, so none starts before the last    *)
(* one has ended.                                                          *)
(***************************************************************************)
EXTENDS Naturals, FiniteSets, SequencesExt

CONSTANTS
  WebSockets,   \* the values of is_websocket to look at: a set of BOOLEANs
  Takes,        \* those for which the connection may take less than it is
                \* given; it takes everything from the others
  InitSize,     \* VNC_WRITE_BUF_INIT_SIZE
  Slack,        \* the 65536 by which the buffer grows past what is needed
  RectLens,     \* the lengths of encoded rectangles
  MaxRects,     \* bound: rectangles in an update
  MaxUnits,     \* bound: units written
  MaxCursors,   \* bound: cursor shapes set
  FrameLens,    \* the payloads of the peer's frames
  ExtLens,      \* the bytes of their extended lengths: 0, 2 and 8
  MaskLens,     \* the bytes of their masks: 0 and 4
  SizeWord,     \* 2^64, one more than the largest size_t
  MaxFrames,    \* bound: frames the peer sends
  ReadBuf       \* VNC_READ_BUF_SIZE

ASSUME OutputAssumption ==
  /\ WebSockets \subseteq BOOLEAN /\ Takes \subseteq BOOLEAN
  /\ InitSize \in Nat /\ Slack \in Nat /\ RectLens \subseteq Nat
  /\ MaxRects \in Nat /\ MaxUnits \in Nat /\ MaxCursors \in Nat
  /\ FrameLens \subseteq Nat /\ ExtLens \subseteq Nat /\ MaskLens \subseteq Nat
  /\ SizeWord \in Nat /\ MaxFrames \in Nat /\ ReadBuf \in Nat \ {0}

(* The peer is a browser: it leaves the top bit of a 64-bit length clear,  *)
(* so that the size of a whole frame is a size_t.  The code does not look. *)
ASSUME BrowserLengths ==
  \A ext \in ExtLens, mask \in MaskLens, len \in FrameLens :
    2 + ext + mask + len < SizeWord

VARIABLES
  is_websocket,  \* client->is_websocket, as detection has decided
  normal,        \* client->state is VNC_STATE_NORMAL
  write_buf,     \* client->write_buf[0 .. write_len - 1]
  write_pos,     \* client->write_pos
  write_cap,     \* client->write_cap
  pending,       \* what waits for send_update: of {"size", "cursor"}
  cursor,        \* server->cursor_pixels, 0 for NULL
  todo,          \* what the present handler has still to do
  written,       \* history: units written so far
  cursor_sent,   \* history: the shape in the last cursor message
  got,           \* the units the peer has read
  left           \* what the peer still expects of a frame

outVars == <<normal, write_buf, write_pos, write_cap, pending, cursor, todo,
             written, cursor_sent>>
peerVars == <<got, left>>

VARIABLES
  frames,        \* the frames the peer sends, see PeerFrames
  arrived,       \* how much of them has been received
  ws_read_buf,   \* client->ws_read_buf[0 .. ws_read_len - 1]
  read_len,      \* client->read_len
  payload,       \* history: what has been put into client->read_buf
  closed         \* vnc_client_disconnect() was called

inVars == <<frames, arrived, ws_read_buf, read_len, payload, closed>>
outputVars == <<is_websocket, outVars, peerVars, inVars>>

Unit(n) == <<"unit", n>>
Header(n) == <<"frame", n>>
Pong == <<"pong", 0>>
Stream == [n \in 1..written |-> Unit(n)]
Unsent == Len(write_buf) > write_pos
Idle == todo = <<>> /\ ~closed

(* What the peer sends: the two bytes every header begins with, the        *)
(* extended length and the mask that some have, and the payload.           *)
Bytes(i) ==
  <<<<"op", frames[i]>>, <<"len", i>>>>
    \o [j \in 1..frames[i].ext |-> <<"ext", i, j>>]
    \o [j \in 1..frames[i].mask |-> <<"mask", i, j>>]
    \o [j \in 1..frames[i].len |-> <<frames[i].op, i, j>>]
Inbound == FlattenSeq([i \in DOMAIN frames |-> Bytes(i)])

(* Frames of any opcode, with any of the three forms of length.            *)
PeerFrames ==
  [op : {"data", "ping", "close", "other"},
   ext : ExtLens, mask : MaskLens, len : FrameLens]

(* Types; what is in the buffer fits its allocation.                       *)
OutputTypeOK ==
  /\ is_websocket \in WebSockets
  /\ {normal, closed} \subseteq BOOLEAN
  /\ Len(write_buf) <= write_cap
  /\ write_pos <= Len(write_buf)
  /\ pending \subseteq {"size", "cursor"}
  /\ {cursor, cursor_sent} \subseteq 0..MaxCursors
  /\ written \in 0..MaxUnits
  /\ left \in Nat
  /\ frames \in Seq(PeerFrames)
  /\ arrived \in 0..Len(Inbound)
  /\ Len(ws_read_buf) <= ReadBuf /\ read_len \in 0..ReadBuf

OutputInit ==
  /\ is_websocket \in WebSockets
  /\ normal = FALSE
  /\ write_buf = <<>> /\ write_pos = 0 /\ write_cap = InitSize
  /\ pending = {"cursor"} /\ cursor = 0 /\ cursor_sent = 0
  /\ todo = <<>> /\ written = 0
  /\ got = <<>> /\ left = 0
  /\ frames \in IF is_websocket THEN SeqOf(PeerFrames, MaxFrames) ELSE {<<>>}
  /\ arrived = 0 /\ ws_read_buf = <<>> /\ read_len = 0
  /\ payload = <<>> /\ closed = FALSE
-----------------------------------------------------------------------------
(* vnc_client_flush(). *)

(* A peer's reading of one more unit: outside a frame a browser looks for  *)
(* a header, and takes whatever there is for one.                          *)
Hear(peer, unit) ==
  CASE ~is_websocket \/ peer.left > 0 ->
         [got |-> Append(peer.got, unit),
          left |-> IF is_websocket THEN peer.left - 1 ELSE 0]
    [] is_websocket /\ peer.left = 0 /\ unit[1] = "frame" ->
         [peer EXCEPT !.left = unit[2]]
    [] is_websocket /\ peer.left = 0 /\ unit[1] = "pong" -> peer
    [] is_websocket /\ peer.left = 0 /\ unit[1] = "unit" ->
         [peer EXCEPT !.got = Append(@, <<"garbage", 0>>)]

Heard(units) ==
  LET heard[n \in 0..Len(units)] ==
        IF n = 0 THEN [got |-> got, left |-> left]
        ELSE Hear(heard[n - 1], units[n])
  IN  heard[Len(units)]

Send(units) == got' = Heard(units).got /\ left' = Heard(units).left

Grown(cap, need) == IF 2 * cap < need THEN need + Slack ELSE 2 * cap

Framed(buf, cap) ==
  [buf |-> <<Header(Len(buf))>> \o buf,
   cap |-> IF cap < Len(buf) + 1 THEN Grown(cap, Len(buf) + 1) ELSE cap]

(* A buffer that is flushed from its start is made a frame.                *)
Prepared(buf, pos, cap) ==
  IF is_websocket /\ buf # <<>> /\ pos = 0 THEN Framed(buf, cap)
  ELSE [buf |-> buf, cap |-> cap]

(* The handshake is short enough for any send buffer.                      *)
Taken(n) == IF normal /\ is_websocket \in Takes THEN 0..n ELSE {n}

(* What can come of a flush, by what the connection takes.                 *)
Flushes(buf, pos, cap) ==
  LET f == Prepared(buf, pos, cap) IN
  {[buf |-> IF pos + k = Len(f.buf) THEN <<>> ELSE f.buf,
    pos |-> IF pos + k = Len(f.buf) THEN 0 ELSE pos + k,
    cap |-> f.cap,
    sent |-> SubSeq(f.buf, pos + 1, pos + k)] :
      k \in Taken(Len(f.buf) - pos)}

Flush ==
  \E f \in Flushes(write_buf, write_pos, write_cap) :
    /\ write_buf' = f.buf /\ write_pos' = f.pos /\ write_cap' = f.cap
    /\ Send(f.sent)

SpaceIfSent(f) == f.cap   \* mutant: a flush is taken to have sent everything

Space(f) == f.cap - Len(f.buf)

(* client_ensure_write_space(): what does not fit makes room by a flush,   *)
(* whatever is in the buffer at that time, and then by growing.            *)
EnsureWriteSpace(n) ==
  IF write_cap - Len(write_buf) >= n
  THEN {[buf |-> write_buf, pos |-> write_pos, cap |-> write_cap,
         sent |-> <<>>]}
  ELSE {[f EXCEPT !.cap = IF Space(f) < n THEN Grown(@, Len(f.buf) + n) ELSE @] :
          f \in Flushes(write_buf, write_pos, write_cap)}

-----------------------------------------------------------------------------
(* The steps of a handler. *)

Continue == todo' = Tail(todo) /\ UNCHANGED <<is_websocket, normal, cursor, inVars>>

(* A write of o.len units into the space of o.reserve; o.part names the    *)
(* pending message that it completes.                                      *)
AppendUnits ==
  /\ todo # <<>> /\ Head(todo).op = "append"
  /\ LET o == Head(todo) IN
     \E f \in EnsureWriteSpace(o.reserve) :
       /\ write_buf' = f.buf \o [i \in 1..o.len |-> Unit(written + i)]
       /\ write_pos' = f.pos /\ write_cap' = f.cap
       /\ Send(f.sent)
       /\ written' = written + o.len
       /\ pending' = pending \ {o.part}
       /\ cursor_sent' = IF o.part = "cursor" THEN cursor ELSE cursor_sent
  /\ Continue

FlushBuffer ==
  /\ todo # <<>> /\ Head(todo).op = "flush"
  /\ Flush
  /\ Continue
  /\ UNCHANGED <<pending, written, cursor_sent>>

(* The handler ends here unless all has been taken.                        *)
ReturnIfUnsent ==
  /\ todo # <<>> /\ Head(todo).op = "return_if_unsent"
  /\ todo' = IF Unsent THEN <<>> ELSE Tail(todo)
  /\ UNCHANGED <<is_websocket, normal, write_buf, write_pos, write_cap,
                 pending, cursor, written, cursor_sent, peerVars, inVars>>

Handler == AppendUnits \/ FlushBuffer \/ ReturnIfUnsent

-----------------------------------------------------------------------------
(* The handlers. *)

AppendOp(n, reserve, part) ==
  [op |-> "append", len |-> n, reserve |-> reserve, part |-> part]
FlushOp == [op |-> "flush", len |-> 0]
ReturnOp == [op |-> "return_if_unsent", len |-> 0]

One == AppendOp(1, 1, "none")

Total(ops) ==
  LET total[n \in 0..Len(ops)] ==
        IF n = 0 THEN 0 ELSE total[n - 1] + ops[n].len
  IN  total[Len(ops)]

Begin(ops) ==
  /\ ops # <<>> /\ written + Total(ops) <= MaxUnits
  /\ todo' = ops
  /\ UNCHANGED <<is_websocket, write_cap, cursor, written, cursor_sent,
                 peerVars, inVars>>

(* ProtocolVersion, the security messages and ServerInit.                  *)
WriteRaw ==
  /\ Idle /\ ~normal
  /\ Begin(<<One, FlushOp>>)
  /\ UNCHANGED <<normal, write_buf, write_pos, pending>>

ClientInit ==
  /\ Idle /\ ~normal
  /\ normal' = TRUE
  /\ UNCHANGED <<is_websocket, write_buf, write_pos, write_cap, pending,
                 cursor, todo, written, cursor_sent, peerVars, inVars>>

ComposesAnyway == Idle /\ normal   \* mutant: nothing looks at the buffer

(* Updates and audio are put together only when the buffer has drained.    *)
Composes == Idle /\ normal /\ ~Unsent

SizeOps ==
  IF "size" \notin pending THEN <<>>
  ELSE <<One, AppendOp(1, 1, "size"), FlushOp, ReturnOp>>

CursorOps ==
  IF "cursor" \notin pending \/ cursor = 0 THEN <<>>
  ELSE <<AppendOp(2, 2, "cursor"), FlushOp, ReturnOp>>

(* The number of rectangles, and each with its header; more space may be   *)
(* reserved for an encoded rectangle than it needs.                        *)
RectOps(lens) ==
  <<One>> \o FlattenSeq([i \in DOMAIN lens |->
                           <<One, AppendOp(lens[i], lens[i] + 1, "none")>>])
          \o <<FlushOp>>

(* The setup of the UDP session, when there is one to send, is not waited  *)
(* for by the frame.                                                       *)
VideoOps == {<<One, FlushOp>>, <<One, One, FlushOp>>,
             <<One, FlushOp, One, One, FlushOp>>}

Updates ==
  {<<>>} \cup VideoOps
    \cup {RectOps(lens) : lens \in SeqOf(RectLens, MaxRects) \ {<<>>}}

SendUpdate ==
  /\ Composes
  /\ write_buf' = <<>> /\ write_pos' = 0
  /\ \E update \in Updates : Begin(SizeOps \o CursorOps \o update)
  /\ UNCHANGED <<normal, pending>>

(* An acknowledgement, BEGIN or END; or samples with their header.         *)
SendAudioUpdate ==
  /\ Composes
  /\ \E n \in 1..2 : Begin([i \in 1..n |-> One] \o <<FlushOp>>)
  /\ UNCHANGED <<normal, write_buf, write_pos, pending>>

(* vnc_server_send_clipboard() does not look at the buffer.                *)
SendClipboard ==
  /\ Idle /\ normal
  /\ Begin(<<AppendOp(2, 2, "none"), FlushOp>>)
  /\ UNCHANGED <<normal, write_buf, write_pos, pending>>

PollOut ==
  /\ Idle /\ Unsent
  /\ Flush
  /\ UNCHANGED <<is_websocket, normal, pending, cursor, todo, written,
                 cursor_sent, inVars>>

-----------------------------------------------------------------------------
(* The application's calls. *)

TellsNobody == pending' = pending   \* mutant: the clients are not told

TellsClients == pending' = pending \cup {"cursor"}

SetCursor(shape) ==
  /\ Idle
  /\ cursor' = shape
  /\ TellsClients
  /\ UNCHANGED <<is_websocket, normal, write_buf, write_pos, write_cap, todo,
                 written, cursor_sent, peerVars, inVars>>

ResizeFramebuffer ==
  /\ Idle
  /\ pending' = pending \cup {"size"}
  /\ UNCHANGED <<is_websocket, normal, write_buf, write_pos, write_cap,
                 cursor, todo, written, cursor_sent, peerVars, inVars>>

-----------------------------------------------------------------------------
(* client_read_handler() of a browser's connection. *)

UnmaskedSize(f) ==   \* mutant: the mask is not waited for
  (2 + f.ext + f.len) % SizeWord

(* header_len + mask_len + payload_len, a sum of 64 bits.                  *)
FrameSize(f) == (2 + f.ext + f.mask + f.len) % SizeWord

(* How much of buf the loop over its frames takes.  It breaks where the    *)
(* first two bytes, the extended length, or any of the mask and the        *)
(* payload is still to come.                                               *)
Processed(buf) ==
  LET Remains(i, n) == Len(buf) - i >= n
      Frame(i) == buf[i + 1][2]
      Complete(i) == /\ Remains(i, 2)
                     /\ Remains(i, 2 + Frame(i).ext)
                     /\ Remains(i, FrameSize(Frame(i)))
      Past(i) == IF Complete(i) THEN i + FrameSize(Frame(i)) ELSE i
      end[n \in 0..Len(buf)] == IF n = 0 THEN 0 ELSE Past(end[n - 1])
  IN  end[Len(buf)]

(* What data frames carry among bytes, unmasked.                           *)
Payload(bytes) ==
  LET data[n \in 0..Len(bytes)] ==
        IF n = 0 THEN <<>>
        ELSE IF bytes[n][1] = "data" THEN Append(data[n - 1], bytes[n])
        ELSE data[n - 1]
  IN  data[Len(bytes)]

Pings(bytes) ==
  Cardinality({i \in DOMAIN bytes : /\ bytes[i][1] = "op"
                                    /\ bytes[i][2].op = "ping"})

Closes(bytes) == \E b \in ToSet(bytes) : b[1] = "op" /\ b[2].op = "close"

Rest(buf) == SubSeq(buf, Processed(buf) + 1, Len(buf))

Disconnect ==
  /\ closed' = TRUE
  /\ UNCHANGED <<ws_read_buf, read_len, payload, peerVars>>

(* Pings are answered past the buffer; what the connection does not take   *)
(* of the answers is lost.  The messages in read_buf are then handled.     *)
ParseFrames(buf) ==
  LET taken == SubSeq(buf, 1, Processed(buf))
      data == Payload(taken) IN
  IF Closes(taken) \/ read_len + Len(data) > ReadBuf THEN Disconnect
  ELSE /\ ws_read_buf' = Rest(buf)
       /\ payload' = payload \o data
       /\ read_len' \in 0..read_len + Len(data)
       /\ \E n \in Taken(Pings(taken)) : Send([i \in 1..n |-> Pong])
       /\ UNCHANGED closed

Receive(n) ==
  /\ Idle /\ is_websocket
  /\ arrived' = arrived + n
  /\ IF Len(ws_read_buf) + n > ReadBuf THEN Disconnect
     ELSE ParseFrames(ws_read_buf \o SubSeq(Inbound, arrived + 1, arrived + n))
  /\ UNCHANGED <<is_websocket, outVars, frames>>

-----------------------------------------------------------------------------
OutputNext ==
  \/ Handler \/ WriteRaw \/ ClientInit \/ PollOut
  \/ SendUpdate \/ SendAudioUpdate \/ SendClipboard
  \/ \E shape \in 0..MaxCursors \ {cursor} : SetCursor(shape)
  \/ ResizeFramebuffer
  \/ \E n \in 1..Len(Inbound) - arrived : Receive(n)

(* Handlers run to their end; the poll loop sees that the connection takes *)
(* more, which it does as long as the peer reads.                          *)
OutputFairness == WF_outputVars(Handler) /\ WF_outputVars(PollOut)

OutputSpec == OutputInit /\ [][OutputNext]_outputVars /\ OutputFairness

-----------------------------------------------------------------------------
(* Properties. *)

(* What the peer reads is what the handlers have written, in order and     *)
(* complete, wherever the buffer was flushed, partly sent or grown in the  *)
(* middle of a message; and in a browser, with the frames' headers where   *)
(* it looks for them, as long as the connection takes what it is given.    *)
Channel ==
  INSTANCE MessageStream WITH stream <- Stream, got <- got, Limit <- MaxUnits
ImplementsStream == Channel!Spec

(* Every byte of the browser's frames that have come completely is in      *)
(* read_buf, once and in order, wherever the stream was cut into reads.    *)
InboundExact ==
  LET End(k) == Len(FlattenSeq([i \in 1..k |-> Bytes(i)])) IN
  ~closed =>
    \E k \in 0..Len(frames) :
      /\ End(k) <= arrived
      /\ k < Len(frames) => arrived < End(k + 1)
      /\ payload = Payload(SubSeq(Inbound, 1, End(k)))

(* A client for which no cursor message waits has been sent the present    *)
(* shape, however many changes came while an earlier message was on its    *)
(* way out.                                                                *)
LatestCursor == "cursor" \notin pending => cursor_sent = cursor

(* A browser never meets the middle of a message where it looks for a      *)
(* header, nor a header in the middle of a frame: the writes go through    *)
(* the lazy queue "to avoid emitting a WebSocket frame header mid-message" *)
(* (src/src/leanrfb.c:2018).                                               *)
FramesInStep == \A i \in DOMAIN got : got[i][1] = "unit"
=============================================================================
