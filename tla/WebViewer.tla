------------------------------ MODULE WebViewer ------------------------------
(***************************************************************************)
(* The viewer in a browser (src/vncview/vncview_web.c): the data of each   *)
(* WebSocket message goes to vnc_core_process_data(), the incremental      *)
(* parser of src/vncview/vnc_client_core.c, which handles what is whole    *)
(* and leaves the rest for the next call.  The desktop viewer reads the    *)
(* same messages with blocking reads.                                      *)
(*                                                                         *)
(* A message is a sequence of units: what the parser waits for at once.    *)
(* Its first unit says what it is and how many units there are (of an      *)
(* update: how many rectangles follow).  WebSocket frames and those who    *)
(* pass them on may cut the stream between any two units.  One pass of     *)
(* the parser's loops is a step; nothing else runs in the browser before   *)
(* the call returns.                                                       *)
(***************************************************************************)
EXTENDS SequencesExt

CONSTANTS
  WantAudio,    \* the page's check box: audio_requested, want_audio
  MaxRectsOf,   \* bound: rectangles of an update
  MaxServed,    \* bound: messages after ServerInit
  MaxConnects   \* bound: connections

ASSUME WebViewerAssumption ==
  /\ WantAudio \in BOOLEAN
  /\ MaxRectsOf \in Nat \ {0} /\ {MaxServed, MaxConnects} \subseteq Nat

VARIABLES
  open,               \* the WebSocket
  connects,           \* connections so far
  sent,               \* server: its messages on this connection
  answered,           \* server: replies it has handled
  update_requested,   \* server
  arrived,            \* units the browser has handed over
  input_buf, vnc_state,
  parsing,            \* vnc_core_process_data() runs
  offset,             \* in the update that it is in, or 0
  rects_parsed,
  audio_dev,          \* an SDL audio device is open
  replies,            \* what the viewer has sent on this connection
  handled             \* history: the units that the parser has consumed

serverVars == <<sent, answered, update_requested>>
webVars == <<open, connects, serverVars, arrived, input_buf, vnc_state, parsing,
             offset, rects_parsed, audio_dev, replies, handled>>

-----------------------------------------------------------------------------
(* Messages. *)

Part(kind, n) ==
  <<[kind |-> kind, n |-> n]>> \o [i \in 1..n - 1 |-> [kind |-> "rest", n |-> 1]]

Kind(m) == Head(m).kind

(* The viewer has asked for Tight, Raw, and the two pseudo-encodings.      *)
Raw == Part("raw", 2)
Tight == Part("tight", 3)
Size == Part("size", 3)
Ack == Part("ack", 1)

Update(rects) == <<[kind |-> "update", n |-> Len(rects)]>> \o FlattenSeq(rects)

Drawings ==
  {Update(rects) : rects \in BoundedSeq({Raw, Tight}, MaxRectsOf) \ {<<>>}}

(* The size and the acknowledgement of audio are updates of their own.     *)
NewSize == Update(<<Size>>)
AudioAck == Update(<<Ack>>)
CutText == Part("cut text", 2)
AudioBegin == Part("audio begin", 1)
AudioData == Part("audio data", 2)
Notices == {NewSize, AudioAck, CutText, AudioBegin, AudioData}

HandshakeMessages ==
  {Part("version", 1), Part("none", 2), Part("vncauth", 2), Part("challenge", 1),
   Part("ok", 1), Part("init", 2)}

Messages == HandshakeMessages \cup {Part("refused", 1)} \cup Drawings \cup Notices

(* What the desktop viewer answers, in its handshake and after it.         *)
OnAudioSupported == IF WantAudio THEN <<"set format", "enable">> ELSE <<>>

HandshakeAnswers(m) ==
  CASE Kind(m) = "version" -> <<"version">>
    [] Kind(m) \in {"none", "vncauth"} -> <<Kind(m)>>
    [] Kind(m) = "challenge" -> <<"response">>
    [] Kind(m) = "ok" -> <<"shared">>
    [] Kind(m) = "init" -> <<"encodings", "request">>

UpdateAnswers(m) ==
  (IF \E u \in ToSet(m) : u.kind = "ack" THEN OnAudioSupported ELSE <<>>)
    \o <<"request">>

Answers(m) ==
  CASE m \in HandshakeMessages -> HandshakeAnswers(m)
    [] Kind(m) = "update" -> UpdateAnswers(m)
    [] OTHER -> <<>>

Stream(messages) == FlattenSeq(messages)

WebTypeOK ==
  /\ {open, update_requested, parsing, audio_dev} \subseteq BOOLEAN
  /\ connects \in 0..MaxConnects
  /\ sent \in Seq(Messages) /\ answered \in 0..Len(replies)
  /\ arrived \in 0..Len(Stream(sent))
  /\ \E i \in 0..arrived : input_buf = SubSeq(Stream(sent), i + 1, arrived)
  /\ vnc_state \in {"WAIT_VERSION", "WAIT_SECURITY", "WAIT_AUTH_CHALLENGE",
                    "WAIT_AUTH_RESULT", "WAIT_SERVER_INIT", "NORMAL"}
  /\ offset \in 0..Len(input_buf) /\ rects_parsed \in 0..MaxRectsOf

WebInit ==
  /\ open = FALSE /\ connects = 0
  /\ sent = <<>> /\ answered = 0 /\ update_requested = FALSE
  /\ arrived = 0 /\ input_buf = <<>> /\ vnc_state = "WAIT_VERSION"
  /\ parsing = FALSE /\ offset = 0 /\ rects_parsed = 0
  /\ audio_dev = FALSE /\ replies = <<>> /\ handled = <<>>

-----------------------------------------------------------------------------
(* The server. *)

Sends(m) == sent' = Append(sent, m)

ServerStep ==
  /\ open
  /\ UNCHANGED <<open, connects, arrived, input_buf, vnc_state, parsing, offset,
                 rects_parsed, audio_dev, replies, handled>>

(* The next of the viewer's messages is handled. *)
Serves ==
  /\ ServerStep /\ answered < Len(replies)
  /\ answered' = answered + 1
  /\ LET reply == replies[answered + 1] IN
     /\ \/ reply = "version" /\ \E sec \in {"none", "vncauth"} : Sends(Part(sec, 2))
        \/ reply = "vncauth" /\ Sends(Part("challenge", 1))
        \/ reply = "none" /\ Sends(Part("ok", 1))
        \/ reply = "response" /\ \E r \in {"ok", "refused"} : Sends(Part(r, 1))
        \/ reply = "shared" /\ Sends(Part("init", 2))
        \/ reply \in {"encodings", "set format", "enable", "request"}
           /\ UNCHANGED sent
     /\ update_requested' = (update_requested \/ reply = "request")

ServerInitAt == SelectInSeq(sent, LAMBDA m : Kind(m) = "init")   \* or 0

Served == IF ServerInitAt = 0 THEN 0 ELSE Len(sent) - ServerInitAt

(* What may be sent unasked.  END is not: it answers DISABLE, and neither  *)
(* viewer sends that.                                                      *)
Allowed ==
  LET Had(reply) == reply \in ToSet(SubSeq(replies, 1, answered))
      Once(m) == IF m \in ToSet(sent) THEN {} ELSE {m}
  IN {CutText}
       \cup (IF Had("encodings") THEN {NewSize} ELSE {})
       \cup (IF Had("encodings") /\ WantAudio THEN Once(AudioAck) ELSE {})
       \cup (IF Had("enable") THEN Once(AudioBegin) ELSE {})
       \cup {m \in {AudioData} : AudioBegin \in ToSet(sent)}

ServerSends ==
  /\ ServerStep /\ ServerInitAt > 0 /\ Served < MaxServed
  /\ \/ (\E m \in Allowed : Sends(m)) /\ UNCHANGED update_requested
     \/ /\ update_requested /\ update_requested' = FALSE
        /\ \E m \in Drawings : Sends(m)
  /\ UNCHANGED answered

-----------------------------------------------------------------------------
(* The browser's events. *)

(* The page connects when it has loaded, and when its user says so; that   *)
(* is while nothing is connected.  The server begins.                      *)
ConnectVnc ==
  /\ ~open /\ connects < MaxConnects
  /\ open' = TRUE /\ connects' = connects + 1
  /\ sent' = <<Part("version", 1)>> /\ answered' = 0 /\ update_requested' = FALSE
  /\ vnc_state' = "WAIT_VERSION" /\ input_buf' = <<>>
  /\ arrived' = 0 /\ replies' = <<>> /\ handled' = <<>>
  /\ UNCHANGED <<parsing, offset, rects_parsed, audio_dev>>

OnMessage(n) ==
  /\ open /\ ~parsing /\ arrived + n <= Len(Stream(sent))
  /\ arrived' = arrived + n
  /\ input_buf' = input_buf \o SubSeq(Stream(sent), arrived + 1, arrived + n)
  /\ parsing' = TRUE
  /\ UNCHANGED <<open, connects, serverVars, vnc_state, offset, rects_parsed,
                 audio_dev, replies, handled>>

(* The connection is lost or closed by the server, wherever the stream is; *)
(* vnc_core_cleanup() leaves the parser's state to vnc_core_init().        *)
OnClose ==
  /\ open /\ ~parsing
  /\ open' = FALSE
  /\ audio_dev' = FALSE
  /\ input_buf' = <<>>
  /\ UNCHANGED <<connects, serverVars, arrived, vnc_state, parsing, offset,
                 rects_parsed, replies, handled>>

-----------------------------------------------------------------------------
(* vnc_core_process_data() *)

Has(n) == Len(input_buf) >= n

Consume(n) ==
  /\ input_buf' = SubSeq(input_buf, n + 1, Len(input_buf))
  /\ handled' = handled \o SubSeq(input_buf, 1, n)

First == Head(input_buf).kind   \* the type, in whatever place it has

Reply(messages) == replies' = replies \o messages

Pass ==
  /\ parsing /\ input_buf # <<>>
  /\ UNCHANGED <<open, connects, serverVars, arrived>>

(* One message of the handshake, of n units.                               *)
Handshake(state, n, reply, next) ==
  /\ Pass /\ vnc_state = state /\ Has(n)
  /\ Consume(n)
  /\ Reply(reply)
  /\ vnc_state' = next
  /\ UNCHANGED <<parsing, offset, rects_parsed, audio_dev>>

WaitVersion == Handshake("WAIT_VERSION", 1, <<"version">>, "WAIT_SECURITY")

WaitSecurity ==
  Handshake("WAIT_SECURITY", 2, <<First>>,
            IF First = "vncauth" THEN "WAIT_AUTH_CHALLENGE"
            ELSE "WAIT_AUTH_RESULT")

WaitChallenge ==
  Handshake("WAIT_AUTH_CHALLENGE", 1, <<"response">>, "WAIT_AUTH_RESULT")

WaitResult ==
  /\ Handshake("WAIT_AUTH_RESULT", 1, <<"shared">>, "WAIT_SERVER_INIT")
  /\ First # "refused"

WaitServerInit ==
  Handshake("WAIT_SERVER_INIT", 2, <<"encodings", "request">>, "NORMAL")

(* The rectangles of an update are handled as far as they are whole, again *)
(* in every call until all of them are.                                    *)
BeginUpdate ==
  /\ Pass /\ vnc_state = "NORMAL" /\ offset = 0
  /\ First = "update"
  /\ offset' = 1 /\ rects_parsed' = 0
  /\ UNCHANGED <<input_buf, vnc_state, parsing, audio_dev, replies, handled>>

RectWhole ==
  /\ rects_parsed < Head(input_buf).n
  /\ Has(offset + 1) /\ Has(offset + input_buf[offset + 1].n)

Rect ==
  /\ Pass /\ offset > 0 /\ RectWhole
  /\ offset' = offset + input_buf[offset + 1].n
  /\ rects_parsed' = rects_parsed + 1
  /\ Reply(IF input_buf[offset + 1].kind = "ack" THEN OnAudioSupported ELSE <<>>)
  /\ UNCHANGED <<input_buf, vnc_state, parsing, audio_dev, handled>>

AnyBreakEnds == ~RectWhole   \* mutant: nothing looks at rects_parsed

AllParsed == rects_parsed = Head(input_buf).n

EndUpdate ==
  /\ Pass /\ offset > 0 /\ AllParsed
  /\ Reply(<<"request">>)
  /\ Consume(offset)
  /\ offset' = 0
  /\ UNCHANGED <<vnc_state, parsing, rects_parsed, audio_dev>>

(* The units of another message that are known by now; a type that is not  *)
(* known is one.                                                           *)
MessageUnits == Head(input_buf).n

Message ==
  /\ Pass /\ vnc_state = "NORMAL"
  /\ First # "update" /\ Has(MessageUnits)
  /\ Consume(MessageUnits)
  /\ audio_dev' = (audio_dev \/ First = "audio begin")
  /\ UNCHANGED <<vnc_state, parsing, offset, rects_parsed, replies>>

NothingWhole ==
  IF input_buf = <<>> THEN TRUE
  ELSE CASE vnc_state \in {"WAIT_SECURITY", "WAIT_SERVER_INIT"} -> ~Has(2)
         [] vnc_state = "WAIT_AUTH_RESULT" -> First = "refused"
         [] vnc_state = "NORMAL" /\ offset > 0 -> ~RectWhole /\ ~AllParsed
         [] vnc_state = "NORMAL" /\ First # "update" -> ~Has(MessageUnits)
         [] OTHER -> FALSE

(* The call returns: there is nothing left, or nothing whole; a refusal    *)
(* stays in the buffer.                                                    *)
Returns ==
  /\ parsing /\ NothingWhole
  /\ parsing' = FALSE /\ offset' = 0 /\ rects_parsed' = 0
  /\ UNCHANGED <<open, connects, serverVars, arrived, input_buf, vnc_state,
                 audio_dev, replies, handled>>

-----------------------------------------------------------------------------
WebNext ==
  \/ Serves \/ ServerSends
  \/ ConnectVnc \/ OnClose
  \/ \E n \in 1..Len(Stream(sent)) - arrived : OnMessage(n)
  \/ WaitVersion \/ WaitSecurity \/ WaitChallenge \/ WaitResult \/ WaitServerInit
  \/ BeginUpdate \/ Rect \/ EndUpdate \/ Message \/ Returns

WebSpec == WebInit /\ [][WebNext]_webVars

-----------------------------------------------------------------------------
(* The first k messages are there completely, and none is a refusal.       *)
Whole(k) ==
  /\ Len(Stream(SubSeq(sent, 1, k))) <= arrived
  /\ \A i \in 1..k : Kind(sent[i]) # "refused"

ArrivedWhole ==
  SubSeq(sent, 1, CHOOSE k \in 0..Len(sent) :
                    Whole(k) /\ (k = Len(sent) \/ ~Whole(k + 1)))

(* Wherever the stream is cut, the viewer has consumed exactly the         *)
(* messages that are there completely, whole and in order, up to a refusal *)
(* which ends the connection; it has answered each as the desktop viewer   *)
(* does, once; and sound plays from BEGIN to END.  A connection that was   *)
(* cut leaves nothing to the next.                                         *)

HandledExact ==
  open /\ ~parsing =>
    /\ handled = Stream(ArrivedWhole)
    /\ replies = FlattenSeq([i \in DOMAIN ArrivedWhole |-> Answers(ArrivedWhole[i])])
    /\ audio_dev <=> AudioBegin \in ToSet(ArrivedWhole)
=============================================================================
