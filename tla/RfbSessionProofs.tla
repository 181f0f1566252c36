-------------------------- MODULE RfbSessionProofs --------------------------
(***************************************************************************)
(* What holds of the server's sessions for any number of connections, any  *)
(* limit, with or without a password and WebSocket support: types, the     *)
(* limit and the password; then the walks of vnc_server_poll() over the    *)
(* list of clients (WalkSafe), and the order of the handshake              *)
(* (HandshakeInOrder).                                                     *)
(***************************************************************************)
EXTENDS RfbSession, SequenceTheorems, TLAPS

(* Removing the k-th element: what is left, and in which order. *)
LEMMA RemoveAtFacts ==
  ASSUME NEW S, NEW s \in Seq(S), NEW k \in 1..Len(s)
  PROVE  /\ RemoveAt(s, k) \in Seq(S)
         /\ Len(RemoveAt(s, k)) = Len(s) - 1
         /\ \A i \in 1..Len(s) - 1 :
              RemoveAt(s, k)[i] = IF i < k THEN s[i] ELSE s[i + 1]
<1> DEFINE a == SubSeq(s, 1, k - 1)
           b == SubSeq(s, k + 1, Len(s))
<1>0. Len(s) \in Nat /\ \A i \in 1..Len(s) : s[i] \in S
  BY LenProperties
<1>1. a \in Seq(S) /\ Len(a) = k - 1 /\ \A i \in 1..k - 1 : a[i] = s[i]
  BY <1>0, SubSeqProperties
<1>2. /\ b \in Seq(S) /\ Len(b) = Len(s) - k
      /\ \A i \in 1..Len(s) - k : b[i] = s[i + k]
  BY <1>0, SubSeqProperties
<1> HIDE DEF a, b
<1>3. /\ a \o b \in Seq(S) /\ Len(a \o b) = Len(s) - 1
      /\ \A i \in 1..Len(s) - 1 :
           (a \o b)[i] = IF i <= k - 1 THEN a[i] ELSE b[i - (k - 1)]
  <2>1. Len(a) + Len(b) = Len(s) - 1
    BY <1>0, <1>1, <1>2
  <2>2. /\ a \o b \in Seq(S) /\ Len(a \o b) = Len(a) + Len(b)
        /\ \A i \in 1..Len(a) + Len(b) :
             (a \o b)[i] = IF i <= Len(a) THEN a[i] ELSE b[i - Len(a)]
    BY <1>1, <1>2, ConcatProperties, Zenon
  <2>3. QED
    BY <1>1, <2>1, <2>2, Zenon
<1>4. ASSUME NEW i \in 1..Len(s) - 1
      PROVE  (a \o b)[i] = IF i < k THEN s[i] ELSE s[i + 1]
  <2>1. CASE i < k
    <3>1. i \in 1..k - 1 /\ i <= k - 1
      BY <1>0, <2>1
    <3>2. (a \o b)[i] = a[i] /\ a[i] = s[i]
      BY <1>1, <1>3, <3>1, Zenon
    <3>3. QED
      BY <2>1, <3>2
  <2>2. CASE i >= k
    <3>1. (a \o b)[i] = b[i - (k - 1)]
      BY <1>0, <1>3, <2>2
    <3>2. i - (k - 1) \in 1..Len(s) - k /\ i - (k - 1) + k = i + 1
      BY <1>0, <2>2
    <3>3. b[i - (k - 1)] = s[i - (k - 1) + k]
      BY <1>2, <3>2
    <3>4. QED
      BY <1>0, <2>2, <3>1, <3>2, <3>3
  <2>3. i < k \/ i >= k
    BY <1>0
  <2>4. QED
    BY <2>1, <2>2, <2>3, Zenon
<1>5. RemoveAt(s, k) = a \o b
  BY DEF RemoveAt, a, b
<1>6. QED
  BY <1>3, <1>4, <1>5

LEMMA FunctionIsSeq ==
  ASSUME NEW S, NEW n \in Nat, NEW f \in [1..n -> S]
  PROVE  f \in Seq(S) /\ Len(f) = n
<1>1. f \in Seq(S)
  BY SeqDef
<1>2. 1..Len(f) = 1..n /\ Len(f) \in Nat
  BY <1>1, LenProperties
<1>3. QED
  BY <1>1, <1>2

(* Unlinking a client leaves a list of clients that is no longer, and      *)
(* shorter if the client was in it.                                        *)
LEMMA UnlinkFacts ==
  ASSUME NEW s \in Seq(Conns), NEW c
  PROVE  /\ Unlink(s, c) \in Seq(Conns)
         /\ Len(Unlink(s, c)) <= Len(s)
         /\ c \in ToSet(s) => Len(Unlink(s, c)) < Len(s)
<1>1. CASE c \in ToSet(s)
  <2> DEFINE k == CHOOSE i \in DOMAIN s : s[i] = c
  <2>1. k \in 1..Len(s)
    BY <1>1 DEF ToSet
  <2>2. Unlink(s, c) = RemoveAt(s, k)
    BY <1>1 DEF Unlink
  <2> HIDE DEF k
  <2>3. /\ RemoveAt(s, k) \in Seq(Conns)
        /\ Len(RemoveAt(s, k)) = Len(s) - 1
    BY <2>1, RemoveAtFacts
  <2>4. QED
    BY <2>2, <2>3
<1>2. CASE c \notin ToSet(s)
  BY <1>2 DEF Unlink
<1>3. QED
  BY <1>1, <1>2

-----------------------------------------------------------------------------
(* Type correctness, first of the pieces the actions are made of. *)

LEMMA DropTypes ==
  ASSUME ClientTypeOK, NetTypeOK, NEW c \in Conns, Drop(c)
  PROVE  ClientTypeOK' /\ NetTypeOK'
<1> USE SessionAssumption
<1>1. clients' \in Seq(Conns)
  BY UnlinkFacts DEF ClientTypeOK, Drop
<1>2. /\ state' \in [Conns -> States]
      /\ minor' \in [Conns -> Minors]
      /\ is_websocket' \in [Conns -> BOOLEAN]
  BY DEF ClientTypeOK, Drop, States, Minors
<1>3. buffered' \in [Conns -> 0..ReadBuf]
  BY DEF ClientTypeOK, Drop
<1>4. sent' \in [Conns -> Seq(Messages)]
  BY DEF ClientTypeOK, Drop
<1>5. NetTypeOK'
  BY DEF NetTypeOK, Drop
<1>6. QED
  BY <1>1, <1>2, <1>3, <1>4, <1>5 DEF ClientTypeOK

LEMMA NextSlotTypes ==
  ASSUME PollTypeOK, todo # <<>>, NextSlot
  PROVE  PollTypeOK'
<1>1. todo' \in Seq(Conns)
  BY HeadTailProperties DEF PollTypeOK, NextSlot, VisitNext
<1>2. QED
  BY <1>1 DEF PollTypeOK, NextSlot, Phases

LEMMA ParseTypes ==
  ASSUME ClientTypeOK, NEW c \in Conns, buffered[c] > 0,
         NEW n \in {0, 1}, NEW msgs \in Seq(Messages), NEW st \in States,
         Parse(c, n, msgs, st),
         minor' \in [Conns -> Minors], is_websocket' \in [Conns -> BOOLEAN]
  PROVE  ClientTypeOK'
<1> USE SessionAssumption
<1>1. buffered' \in [Conns -> 0..ReadBuf]
  <2>1. buffered[c] \in 0..ReadBuf
    BY DEF ClientTypeOK
  <2>2. buffered[c] - n \in 0..ReadBuf
    BY <2>1
  <2>3. QED
    BY <2>2 DEF ClientTypeOK, Parse
<1>2. sent' \in [Conns -> Seq(Messages)]
  <2>1. sent[c] \o msgs \in Seq(Messages)
    BY ConcatProperties DEF ClientTypeOK
  <2>2. QED
    BY <2>1 DEF ClientTypeOK, Parse
<1>3. QED
  BY <1>1, <1>2 DEF ClientTypeOK, Parse

LEMMA RecordTypes ==
  ASSUME AuthTypeOK, NEW c \in Conns, RecordAuthFailure(c)
  PROVE  AuthTypeOK'
<1> USE AuthAssumption
<1> DEFINE n == IF OpensWindow(c) THEN 1 ELSE auth_fail_count[c] + 1
<1>1. now \in Nat /\ now + AuthBlock \in Nat /\ IpOf[c] \in Ips
  BY DEF AuthTypeOK
<1>2. auth_fail_count' \in [Conns -> Nat]
  <2>1. n \in Nat
    BY DEF AuthTypeOK
  <2>2. QED
    BY <2>1 DEF AuthTypeOK, RecordAuthFailure
<1>3. auth_first_fail_time' \in [Conns -> Nat]
  BY <1>1 DEF AuthTypeOK, RecordAuthFailure
<1>4. /\ DOMAIN blocked_ips' \subseteq Ips
      /\ blocked_ips' \in [DOMAIN blocked_ips' -> Nat]
  <2>1. CASE blocked_ips' = blocked_ips
    BY <2>1 DEF AuthTypeOK
  <2>2. CASE blocked_ips' = [i \in DOMAIN blocked_ips \cup {IpOf[c]} |->
                  IF i = IpOf[c] THEN now + AuthBlock ELSE blocked_ips[i]]
    BY <1>1, <2>2 DEF AuthTypeOK
  <2>3. QED
    BY <2>1, <2>2 DEF RecordAuthFailure, Block
<1>5. QED
  BY <1>2, <1>3, <1>4 DEF AuthTypeOK, RecordAuthFailure

LEMMA DropExpiredTypes ==
  ASSUME AuthTypeOK, NEW ip, DropExpired(ip)
  PROVE  /\ DOMAIN blocked_ips' \subseteq Ips
         /\ blocked_ips' \in [DOMAIN blocked_ips' -> Nat]
<1>1. CASE blocked_ips' = blocked_ips
  BY <1>1 DEF AuthTypeOK
<1>2. CASE blocked_ips' = [i \in DOMAIN blocked_ips \ {ip} |-> blocked_ips[i]]
  BY <1>2 DEF AuthTypeOK
<1>3. QED
  BY <1>1, <1>2 DEF DropExpired

-----------------------------------------------------------------------------
(* The groups of variables that an action leaves alone keep their types.   *)

LEMMA SameTypes ==
  ASSUME TypeOK
  PROVE  /\ UNCHANGED authVars => AuthTypeOK'
         /\ UNCHANGED clientVars => ClientTypeOK'
         /\ UNCHANGED netVars => NetTypeOK'
         /\ UNCHANGED pollVars => PollTypeOK'
BY DEF TypeOK, AuthTypeOK, authVars, ClientTypeOK, clientVars, NetTypeOK,
       netVars, PollTypeOK, pollVars

(* A client dropped in the service walk. *)
LEMMA DisconnectTypes ==
  ASSUME TypeOK, NEW c \in Conns, todo # <<>>, Disconnect(c)
  PROVE  ClientTypeOK' /\ NetTypeOK' /\ PollTypeOK'
BY DropTypes, NextSlotTypes DEF TypeOK, Disconnect

LEMMA WriteFailsTypes ==
  ASSUME TypeOK, NEW c \in Conns, todo # <<>>, WriteFails(c)
  PROVE  TypeOK'
BY DisconnectTypes, SameTypes DEF WriteFails, TypeOK

LEMMA PeerTypes ==
  ASSUME TypeOK, NEW c \in Conns, Peer(c)
  PROVE  TypeOK'
<1> USE SessionAssumption
<1>1. /\ link' \in [Conns -> {"closed", "backlog", "open", "gone"}]
  BY DEF TypeOK, NetTypeOK, Peer, PeerConnect, PeerSend, PeerClose
<1>2. inbox' \in [Conns -> 0..MaxInbox]
  <2>1. CASE PeerSend(c)
    <3>1. inbox[c] + 1 \in 0..MaxInbox
      BY <2>1 DEF TypeOK, NetTypeOK, PeerSend
    <3>2. QED
      BY <2>1, <3>1 DEF TypeOK, NetTypeOK, PeerSend
  <2>2. CASE UNCHANGED inbox
    BY <2>2 DEF TypeOK, NetTypeOK
  <2>3. QED
    BY <2>1, <2>2 DEF Peer, PeerConnect, PeerClose
<1>3. UNCHANGED <<authVars, clientVars, pollVars>>
  BY DEF Peer, PeerConnect, PeerSend, PeerClose
<1>4. QED
  BY <1>1, <1>2, <1>3, SameTypes DEF TypeOK, NetTypeOK

(* The actions of vnc_server_poll() itself. *)
LEMMA PollTypes ==
  ASSUME TypeOK,
         \/ PollBegin \/ DetectSkip \/ PollReturns \/ PollFails
         \/ NoConnection \/ PollEnd
  PROVE  TypeOK'
<1>1. UNCHANGED <<authVars, clientVars, netVars>>
  BY DEF PollBegin, DetectSkip, PollReturns, PollFails, NoConnection, PollEnd
<1>2. AuthTypeOK' /\ ClientTypeOK' /\ NetTypeOK'
  BY <1>1, SameTypes
<1>3. PollTypeOK'
  <2>1. CASE PollBegin
    BY <2>1 DEF PollBegin, TypeOK, ClientTypeOK,
                PollTypeOK, Phases
  <2>2. CASE DetectSkip
    <3>1. todo' \in Seq(Conns)
      BY <2>2, HeadTailProperties
      DEF DetectSkip, VisitNext, TypeOK, PollTypeOK
    <3>2. QED
      BY <2>2, <3>1 DEF DetectSkip, TypeOK, PollTypeOK
  <2>3. CASE PollReturns
    <3>1. Len(clients) \in Nat /\ clients \in Seq(Conns)
      BY LenProperties DEF TypeOK, ClientTypeOK
    <3>2. revents' \in [1..Len(clients) -> SUBSET Events]
      BY <2>3 DEF PollReturns
    <3>3. revents' \in Seq(SUBSET Events) /\ Len(revents') = Len(clients)
      BY <3>1, <3>2, FunctionIsSeq
    <3>4. QED
      BY <2>3, <3>1, <3>3 DEF PollReturns, TypeOK, PollTypeOK, Phases
  <2>4. CASE PollFails
    BY <2>4 DEF PollFails, TypeOK, ClientTypeOK,
                PollTypeOK, Phases
  <2>5. CASE NoConnection
    BY <2>5 DEF NoConnection, StartService, TypeOK, ClientTypeOK,
                PollTypeOK, Phases
  <2>6. CASE PollEnd
    <3>1. /\ phase' = "app" /\ idx' = 1 /\ accepted' = FALSE
          /\ pfds' = <<>> /\ revents' = <<>> /\ todo' = todo
      BY <2>6 DEF PollEnd
    <3>2. todo \in Seq(Conns)
      BY DEF TypeOK, PollTypeOK
    <3>3. pfds' \in Seq(Conns) /\ revents' \in Seq(SUBSET Events)
      BY <3>1
    <3>4. Len(revents') = Len(pfds')
      BY <3>1
    <3>5. phase' \in Phases /\ accepted' \in BOOLEAN
      BY <3>1, Zenon DEF Phases
    <3>6. idx' \in Nat \ {0}
      BY <3>1
    <3>7. QED
      BY <3>1, <3>2, <3>3, <3>4, <3>5, <3>6, Zenon DEF PollTypeOK
  <2>7. QED
    BY <2>1, <2>2, <2>3, <2>4, <2>5, <2>6, Zenon
<1>4. QED
  BY <1>2, <1>3 DEF TypeOK

LEMMA DetectTimeoutTypes ==
  ASSUME TypeOK, NEW c \in Conns, DetectTimeout(c)
  PROVE  TypeOK'
<1>1. AuthTypeOK'
  BY SameTypes DEF DetectTimeout
<1>2. PollTypeOK'
  <2>1. todo' \in Seq(Conns)
    BY HeadTailProperties DEF TypeOK, PollTypeOK, DetectTimeout, VisitNext
  <2>2. QED
    BY <2>1 DEF TypeOK, PollTypeOK, DetectTimeout
<1>3. ClientTypeOK' /\ NetTypeOK'
  <2>1. CASE Drop(c)
    BY <2>1, DropTypes DEF TypeOK
  <2>2. CASE ~Drop(c)
    <3>1. sent' = [sent EXCEPT ![c] = Append(@, "version")]
      BY <2>2 DEF DetectTimeout
    <3>2. Append(sent[c], "version") \in Seq(Messages)
      BY DEF TypeOK, ClientTypeOK, Messages
    <3>3. sent' \in [Conns -> Seq(Messages)]
      BY <3>1, <3>2 DEF TypeOK, ClientTypeOK
    <3>4. /\ state' = [state EXCEPT ![c] = "WAIT_PROTOCOL_VERSION"]
          /\ UNCHANGED <<clients, minor, is_websocket, buffered, netVars>>
      BY <2>2 DEF DetectTimeout
    <3>5. state' \in [Conns -> States]
      BY <3>4 DEF TypeOK, ClientTypeOK, States
    <3>6. QED
      BY <3>3, <3>4, <3>5 DEF TypeOK, ClientTypeOK, NetTypeOK, netVars
  <2>3. QED
    BY <2>1, <2>2
<1>4. QED
  BY <1>1, <1>2, <1>3 DEF TypeOK

(* The listening socket. *)
LEMMA AcceptTypes ==
  ASSUME TypeOK, NEW c \in Conns, Reject(c) \/ Accept(c)
  PROVE  TypeOK'
<1>1. AuthTypeOK'
  <2>1. /\ DOMAIN blocked_ips' \subseteq Ips
        /\ blocked_ips' \in [DOMAIN blocked_ips' -> Nat]
    <3>1. CASE DropExpired(IpOf[c])
      BY <3>1, DropExpiredTypes DEF TypeOK
    <3>2. CASE UNCHANGED blocked_ips
      BY <3>2 DEF TypeOK, AuthTypeOK
    <3>3. QED
      BY <3>1, <3>2 DEF Reject, Accept
  <2>2. /\ auth_fail_count' \in [Conns -> Nat]
        /\ auth_first_fail_time' \in [Conns -> Nat]
    <3>1. CASE Reject(c)
      BY <3>1 DEF TypeOK, AuthTypeOK, Reject
    <3>2. CASE ResetAuth(c)
      BY <3>2 DEF TypeOK, AuthTypeOK, ResetAuth
    <3>3. QED
      BY <3>1, <3>2 DEF Accept
  <2>3. now' = now
    BY DEF Reject, Accept
  <2>4. QED
    BY <2>1, <2>2, <2>3 DEF TypeOK, AuthTypeOK
<1>2. NetTypeOK'
  BY DEF TypeOK, NetTypeOK, Reject, Accept
<1>3. <<c>> \o clients \in Seq(Conns)
  BY ConcatProperties DEF TypeOK, ClientTypeOK
<1>4. ClientTypeOK'
  <2>1. CASE Reject(c)
    BY <2>1, SameTypes DEF Reject
  <2>2. CASE Accept(c)
    <3>1. clients' \in Seq(Conns)
      BY <1>3, <2>2 DEF Accept
    <3>2. state' \in [Conns -> States]
      BY <2>2 DEF Accept, TypeOK, ClientTypeOK, States
    <3>3. sent' \in [Conns -> Seq(Messages)]
      <4>1. <<>> \in Seq(Messages) /\ <<"version">> \in Seq(Messages)
        BY DEF Messages
      <4>2. QED
        BY <2>2, <4>1 DEF Accept, TypeOK, ClientTypeOK
    <3>4. QED
      BY <2>2, <3>1, <3>2, <3>3 DEF Accept, TypeOK, ClientTypeOK
  <2>3. QED
    BY <2>1, <2>2
<1>5. PollTypeOK'
  <2>1. todo' \in Seq(Conns)
    BY <1>3 DEF Reject, Accept, StartService, TypeOK, ClientTypeOK
  <2>2. /\ phase' = "service" /\ idx' = 1 /\ UNCHANGED <<pfds, revents>>
    BY DEF Reject, Accept, StartService
  <2>3. accepted' \in BOOLEAN
    BY DEF Reject, Accept, TypeOK, PollTypeOK
  <2>4. phase' \in Phases /\ idx' \in Nat \ {0}
    BY <2>2 DEF Phases
  <2>5. QED
    BY <2>1, <2>2, <2>3, <2>4 DEF TypeOK, PollTypeOK
<1>6. QED
  BY <1>1, <1>2, <1>4, <1>5 DEF TypeOK

(* Serving one client, up to the parse loop. *)
LEMMA ServeTypes ==
  ASSUME TypeOK, NEW c \in Conns,
         ServeNothing(c) \/ ServeError(c) \/ ReceiveFails(c) \/ Receive(c)
  PROVE  TypeOK'
<1>1. todo # <<>>
  BY DEF ServeNothing, ServeError, ReceiveFails, Receive, Serving
<1>2. CASE ServeNothing(c)
  BY <1>1, <1>2, SameTypes, NextSlotTypes DEF ServeNothing, TypeOK
<1>3. CASE ServeError(c) \/ ReceiveFails(c)
  BY <1>1, <1>3, SameTypes, DisconnectTypes
  DEF ServeError, ReceiveFails, TypeOK
<1>4. CASE Receive(c)
  <2>1. buffered' \in [Conns -> 0..ReadBuf]
    <3>1. buffered[c] + inbox[c] \in 0..ReadBuf
      BY <1>4, SessionAssumption
      DEF Receive, Fits, TypeOK, ClientTypeOK, NetTypeOK
    <3>2. QED
      BY <1>4, <3>1 DEF Receive, TypeOK, ClientTypeOK
  <2>2. inbox' \in [Conns -> 0..MaxInbox]
    BY <1>4, SessionAssumption DEF Receive, TypeOK, NetTypeOK
  <2>3. PollTypeOK'
    BY <1>4 DEF Receive, TypeOK, PollTypeOK, Phases
  <2>4. AuthTypeOK'
    BY <1>4, SameTypes DEF Receive
  <2>5. QED
    BY <1>4, <2>1, <2>2, <2>3, <2>4
    DEF Receive, TypeOK, ClientTypeOK, NetTypeOK
<1>5. QED
  BY <1>2, <1>3, <1>4

-----------------------------------------------------------------------------
(* The parse loop. *)

LEMMA ParseStepTypes ==
  ASSUME TypeOK, NEW c \in Conns, buffered[c] > 0,
         NEW n \in {0, 1}, NEW msgs \in Seq(Messages), NEW st \in States,
         Parse(c, n, msgs, st),
         minor' \in [Conns -> Minors], is_websocket' \in [Conns -> BOOLEAN]
  PROVE  TypeOK'
<1>1. ClientTypeOK'
  BY ParseTypes DEF TypeOK
<1>2. UNCHANGED <<authVars, netVars, pollVars>>
  BY DEF Parse
<1>3. QED
  BY <1>1, <1>2, SameTypes DEF TypeOK

LEMMA ReadTypes ==
  ASSUME TypeOK, NEW c \in Conns,
         \/ ReadEnds(c) \/ ReadRejected(c) \/ ReadUpgrade(c)
         \/ ReadPlainRfb(c) \/ ReadVersion(c) \/ ReadSecurity(c)
         \/ ReadAuthResponse(c) \/ ReadBadResponse(c) \/ ReadClientInit(c)
         \/ ReadMessage(c)
  PROVE  TypeOK'
<1>1. todo # <<>>
  BY DEF ReadEnds, ReadRejected, ReadUpgrade, ReadPlainRfb, ReadVersion,
         ReadSecurity, ReadAuthResponse, ReadBadResponse, ReadClientInit,
         ReadMessage, InState, Reading
<1>2. minor \in [Conns -> Minors] /\ is_websocket \in [Conns -> BOOLEAN]
  BY DEF TypeOK, ClientTypeOK
<1>3. CASE ReadEnds(c)
  BY <1>1, <1>3, NextSlotTypes, SameTypes DEF ReadEnds, TypeOK
<1>4. CASE ReadRejected(c)
  BY <1>1, <1>4, DisconnectTypes, SameTypes DEF ReadRejected, TypeOK
<1>5. CASE ReadBadResponse(c)
  BY <1>1, <1>5, DisconnectTypes, RecordTypes DEF ReadBadResponse, TypeOK
<1>6. CASE WriteFails(c)
  BY <1>1, <1>6, WriteFailsTypes
<1>7. CASE ReadUpgrade(c) /\ ~WriteFails(c)
  <2>1. /\ Parse(c, 1, <<"version">>, "WAIT_PROTOCOL_VERSION")
        /\ is_websocket' = [is_websocket EXCEPT ![c] = TRUE]
        /\ minor' = minor /\ buffered[c] > 0
    BY <1>7 DEF ReadUpgrade, InState
  <2>2. is_websocket' \in [Conns -> BOOLEAN] /\ minor' \in [Conns -> Minors]
    BY <1>2, <2>1
  <2>3. <<"version">> \in Seq(Messages) /\ "WAIT_PROTOCOL_VERSION" \in States
    BY DEF Messages, States
  <2>4. QED
    BY <2>1, <2>2, <2>3, ParseStepTypes
<1>8. CASE ReadPlainRfb(c) /\ ~WriteFails(c)
  <2>1. /\ Parse(c, 0, <<"version">>, "WAIT_PROTOCOL_VERSION")
        /\ is_websocket' = is_websocket /\ minor' = minor /\ buffered[c] > 0
    BY <1>8 DEF ReadPlainRfb, InState
  <2>2. <<"version">> \in Seq(Messages) /\ "WAIT_PROTOCOL_VERSION" \in States
    BY DEF Messages, States
  <2>3. QED
    BY <1>2, <2>1, <2>2, ParseStepTypes
<1>9. CASE ReadVersion(c) /\ ~WriteFails(c)
  <2>1. PICK m \in Versions, msgs \in {<<"sectype", "challenge">>,
                                       <<"sectype">>, <<"sectypes">>},
             st \in {"WAIT_VNC_AUTH_RESPONSE", "WAIT_CLIENT_INIT",
                     "WAIT_SECURITY"} :
          /\ Parse(c, 1, msgs, st)
          /\ minor' = [minor EXCEPT ![c] = m]
          /\ is_websocket' = is_websocket /\ buffered[c] > 0
    BY <1>9, Zenon DEF ReadVersion, InState
  <2>2. minor' \in [Conns -> Minors] /\ is_websocket' \in [Conns -> BOOLEAN]
    <3>1. m \in Minors
      BY SessionAssumption DEF Minors
    <3>2. QED
      BY <1>2, <2>1, <3>1
  <2>3. msgs \in Seq(Messages)
    <3>1. /\ <<"sectype", "challenge">> \in Seq(Messages)
          /\ <<"sectype">> \in Seq(Messages)
          /\ <<"sectypes">> \in Seq(Messages)
      BY DEF Messages
    <3>2. QED
      BY <3>1, Zenon
  <2>4. st \in States
    BY DEF States
  <2>5. QED
    BY <2>1, <2>2, <2>3, <2>4, ParseStepTypes
<1>10. CASE ReadSecurity(c) /\ ~WriteFails(c)
  <2>1. PICK msgs \in {<<"challenge">>, <<"ok">>, <<>>},
             st \in {"WAIT_VNC_AUTH_RESPONSE", "WAIT_CLIENT_INIT"} :
          /\ Parse(c, 1, msgs, st)
          /\ is_websocket' = is_websocket /\ minor' = minor
          /\ buffered[c] > 0
    BY <1>10 DEF ReadSecurity, InState, SecurityResult
  <2>2. msgs \in Seq(Messages)
    <3>1. /\ <<"challenge">> \in Seq(Messages)
          /\ <<"ok">> \in Seq(Messages) /\ <<>> \in Seq(Messages)
      BY DEF Messages
    <3>2. QED
      BY <3>1, Zenon
  <2>3. st \in States
    BY DEF States
  <2>4. QED
    BY <1>2, <2>1, <2>2, <2>3, ParseStepTypes
<1>11. CASE ReadAuthResponse(c) /\ ~WriteFails(c)
  <2>1. PICK msgs \in {<<"ok">>, <<>>} :
          /\ Parse(c, 1, msgs, "WAIT_CLIENT_INIT")
          /\ is_websocket' = is_websocket /\ minor' = minor
          /\ buffered[c] > 0
    BY <1>11 DEF ReadAuthResponse, InState, SecurityResult
  <2>2. <<"ok">> \in Seq(Messages) /\ <<>> \in Seq(Messages)
        /\ "WAIT_CLIENT_INIT" \in States
    BY DEF Messages, States
  <2>3. msgs \in Seq(Messages)
    BY <2>2, Zenon
  <2>4. QED
    BY <1>2, <2>1, <2>2, <2>3, ParseStepTypes
<1>12. CASE ReadClientInit(c) /\ ~WriteFails(c)
  <2>1. /\ Parse(c, 1, <<"init">>, "NORMAL")
        /\ is_websocket' = is_websocket /\ minor' = minor /\ buffered[c] > 0
    BY <1>12 DEF ReadClientInit, InState
  <2>2. <<"init">> \in Seq(Messages) /\ "NORMAL" \in States
    BY DEF Messages, States
  <2>3. QED
    BY <1>2, <2>1, <2>2, ParseStepTypes
<1>13. CASE ReadMessage(c)
  <2>1. /\ Parse(c, 1, <<>>, "NORMAL")
        /\ is_websocket' = is_websocket /\ minor' = minor /\ buffered[c] > 0
    BY <1>13 DEF ReadMessage, InState
  <2>2. <<>> \in Seq(Messages) /\ "NORMAL" \in States
    BY DEF Messages, States
  <2>3. QED
    BY <1>2, <2>1, <2>2, ParseStepTypes
<1>14. QED
  BY <1>3, <1>4, <1>5, <1>6, <1>7, <1>8, <1>9, <1>10, <1>11, <1>12, <1>13,
     Zenon

(* What the steps of an HTTP request have in common: the connection is the *)
(* one that the service walk is at, and it is dropped or waits.            *)
Waits ==
  /\ phase = "read" /\ phase' = "http"
  /\ UNCHANGED <<authVars, clientVars, netVars, pfds, revents, idx, todo,
                 accepted>>

LEMMA PageSteps ==
  ASSUME NEW c \in Conns, ReadHttp(c) \/ PageFails(c) \/ PageTaken(c)
  PROVE  /\ todo # <<>> /\ c = Head(todo) /\ phase \in {"read", "http"}
         /\ UNCHANGED authVars
         /\ Disconnect(c) \/ Waits
BY DEF ReadHttp, PageFails, PageTaken, SendingPage, InState, Reading, Waits

LEMMA PageTypes ==
  ASSUME TypeOK, NEW c \in Conns,
         ReadHttp(c) \/ PageFails(c) \/ PageTaken(c)
  PROVE  TypeOK'
<1>1. todo # <<>> /\ UNCHANGED authVars
  BY PageSteps
<1>2. CASE Disconnect(c)
  BY <1>1, <1>2, DisconnectTypes, SameTypes DEF TypeOK
<1>3. CASE Waits
  <2>1. PollTypeOK'
    BY <1>3 DEF Waits, TypeOK, PollTypeOK, Phases
  <2>2. QED
    BY <1>3, <2>1, SameTypes DEF Waits, TypeOK
<1>4. QED
  BY <1>2, <1>3, PageSteps

LEMMA TypeInit == Init => TypeOK
<1> SUFFICES ASSUME Init PROVE TypeOK
  OBVIOUS
<1>1. AuthTypeOK
  BY AuthAssumption DEF Init, AuthInit, AuthTypeOK
<1>2. ClientTypeOK
  <2>1. sent \in [Conns -> Seq(Messages)]
    BY DEF Init
  <2>2. buffered \in [Conns -> 0..ReadBuf]
    BY SessionAssumption DEF Init
  <2>3. QED
    BY <2>1, <2>2 DEF Init, ClientTypeOK, States, Minors
<1>3. NetTypeOK
  BY SessionAssumption DEF Init, NetTypeOK
<1>4. PollTypeOK
  <2>1. /\ pfds \in Seq(Conns) /\ revents \in Seq(SUBSET Events)
        /\ Len(revents) = Len(pfds) /\ todo \in Seq(Conns)
    BY DEF Init
  <2>2. phase \in Phases /\ accepted \in BOOLEAN
    BY Zenon DEF Init, Phases
  <2>3. idx \in Nat \ {0}
    BY DEF Init
  <2>4. QED
    BY <2>1, <2>2, <2>3, Zenon DEF PollTypeOK
<1>5. QED
  BY <1>1, <1>2, <1>3, <1>4 DEF TypeOK

LEMMA TypeStep ==
  ASSUME TypeOK, [Next]_vars
  PROVE  TypeOK'
<1>1. CASE Tick
  <2>1. AuthTypeOK'
    BY <1>1, AuthAssumption DEF Tick, ClockTick, TypeOK, AuthTypeOK
  <2>2. QED
    BY <1>1, <2>1, SameTypes DEF Tick, TypeOK
<1>2. CASE UNCHANGED vars
  BY <1>2, SameTypes DEF vars, TypeOK
<1>3. ASSUME NEW c \in Conns, Peer(c) \/ PageTaken(c)
      PROVE  TypeOK'
  BY <1>3, PeerTypes, PageTypes
<1>4. CASE Server
  BY <1>4, PollTypes, DetectTimeoutTypes, AcceptTypes, ServeTypes, ReadTypes,
     PageTypes
  DEF Server, Service
<1>5. QED
  BY <1>1, <1>2, <1>3, <1>4 DEF Next

(* Every variable keeps its type: in particular no client's read buffer    *)
(* overflows, whatever the peers send and however input is pipelined.      *)
THEOREM TypeCorrect == Spec => []TypeOK
<1>1. TypeOK /\ [Next]_vars => TypeOK'
  BY TypeStep
<1>2. QED
  BY <1>1, TypeInit, PTL DEF Spec

-----------------------------------------------------------------------------
(* The connection limit.                                                   *)

(* Between poll() and the listening socket nobody is added or dropped: the *)
(* number of pollfd slots is the number of clients.                        *)
CountFresh == phase = "accept" => Len(pfds) = Len(clients)

LimitInv == TypeOK /\ ConnectionLimit /\ CountFresh

(* Only Accept makes the list longer, and only PollReturns enters the      *)
(* phase in which it can.                                                  *)
LEMMA ListStep ==
  ASSUME TypeOK, [Next]_vars
  PROVE  \/ /\ clients' = clients /\ pfds' = clients /\ PollReturns
         \/ /\ clients' = clients
            /\ phase' = "accept" => phase = "accept" /\ pfds' = pfds
         \/ phase' # "accept" /\ \E c \in Conns : clients' = Unlink(clients, c)
         \/ /\ phase' # "accept" /\ phase = "accept"
            /\ \E c \in Conns : Admits(c) /\ clients' = <<c>> \o clients
<1>1. CASE UNCHANGED <<clients, phase, pfds>>
  BY <1>1
<1>2. CASE Tick \/ UNCHANGED vars \/ \E c \in Conns : Peer(c)
  <2>1. UNCHANGED <<clients, phase, pfds>>
    BY <1>2 DEF Tick, Peer, PeerConnect, PeerSend, PeerClose, vars,
                clientVars, pollVars
  <2>2. QED
    BY <1>1, <2>1, Zenon
<1>3. CASE \/ PollBegin \/ DetectSkip \/ PollReturns \/ PollFails
           \/ NoConnection \/ PollEnd
  BY <1>3 DEF PollBegin, DetectSkip, PollReturns, PollFails, NoConnection,
              PollEnd, StartService, clientVars
<1>4. ASSUME NEW c \in Conns, DetectTimeout(c)
      PROVE  \/ UNCHANGED <<clients, phase, pfds>>
             \/ phase' # "accept" /\ clients' = Unlink(clients, c)
  BY <1>4 DEF DetectTimeout, Drop
<1>5. ASSUME NEW c \in Conns, Reject(c) \/ Accept(c)
      PROVE  \/ clients' = clients /\ phase' # "accept"
             \/ /\ phase' # "accept" /\ phase = "accept"
                /\ Admits(c) /\ clients' = <<c>> \o clients
  BY <1>5 DEF Reject, Accept, StartService, clientVars
<1>6. ASSUME NEW c \in Conns, Service(c) \/ PageTaken(c)
      PROVE  \/ clients' = clients /\ phase' # "accept"
             \/ phase' # "accept" /\ clients' = Unlink(clients, c)
  <2>1. CASE Disconnect(c)
    BY <2>1 DEF Disconnect, Drop, NextSlot
  <2>2. CASE NextSlot /\ UNCHANGED clientVars
    BY <2>2 DEF NextSlot, clientVars
  <2>3. CASE Receive(c)
    BY <2>3 DEF Receive
  <2>4. CASE phase = "read" /\ UNCHANGED <<clients, pollVars>>
    BY <2>4 DEF pollVars
  <2>5. CASE ReadHttp(c) \/ PageFails(c) \/ PageTaken(c)
    BY <2>1, <2>5, PageSteps DEF Waits, clientVars
  <2>6. QED
    BY <1>6, <2>1, <2>2, <2>3, <2>4, <2>5
    DEF Service, ServeNothing, ServeError, ReceiveFails, ReadEnds,
        ReadRejected, ReadUpgrade, ReadPlainRfb, ReadVersion, ReadSecurity,
        ReadAuthResponse, ReadBadResponse, ReadClientInit, ReadMessage,
        InState, Reading, Parse, WriteFails
<1>7. QED
  BY <1>1, <1>2, <1>3, <1>4, <1>5, <1>6, Zenon DEF Next, Server

(* The number of clients never exceeds server->max_clients.                *)
THEOREM LimitHolds == Spec => []ConnectionLimit
<1>1. Init => LimitInv
  <2>1. Init => TypeOK
    BY TypeInit
  <2>2. Init => ConnectionLimit /\ CountFresh
    BY SessionAssumption DEF Init, ConnectionLimit, CountFresh
  <2>3. QED
    BY <2>1, <2>2 DEF LimitInv
<1>2. LimitInv /\ [Next]_vars => LimitInv'
  <2> SUFFICES ASSUME LimitInv, [Next]_vars PROVE LimitInv'
    OBVIOUS
  <2>1. TypeOK /\ TypeOK'
    BY TypeStep DEF LimitInv
  <2>2. /\ clients \in Seq(Conns) /\ Len(clients) \in Nat
        /\ MaxClients \in Nat /\ Len(clients) <= MaxClients
    BY <2>1, SessionAssumption, LenProperties
    DEF LimitInv, TypeOK, ClientTypeOK, ConnectionLimit
  <2>3. CASE clients' = clients /\ pfds' = clients
    BY <2>1, <2>2, <2>3 DEF LimitInv, ConnectionLimit, CountFresh
  <2>4. CASE /\ clients' = clients
             /\ phase' = "accept" => phase = "accept" /\ pfds' = pfds
    BY <2>1, <2>2, <2>4 DEF LimitInv, ConnectionLimit, CountFresh
  <2>5. ASSUME phase' # "accept",
               NEW c \in Conns, clients' = Unlink(clients, c)
        PROVE  LimitInv'
    <3>1. Unlink(clients, c) \in Seq(Conns)
          /\ Len(Unlink(clients, c)) <= Len(clients)
      BY <2>2, UnlinkFacts
    <3>2. Len(Unlink(clients, c)) \in Nat
      BY <3>1, LenProperties
    <3>3. Len(clients') <= MaxClients
      BY <2>2, <2>5, <3>1, <3>2
    <3>4. QED
      BY <2>1, <2>5, <3>3 DEF LimitInv, ConnectionLimit, CountFresh
  <2>6. ASSUME phase' # "accept", phase = "accept",
               NEW c \in Conns, Admits(c), clients' = <<c>> \o clients
        PROVE  LimitInv'
    <3>1. Len(<<c>> \o clients) = Len(clients) + 1
      BY <2>2, ConcatProperties
    <3>2. Len(clients) < MaxClients
      BY <2>6 DEF LimitInv, CountFresh, Admits
    <3>3. Len(clients') <= MaxClients
      BY <2>2, <2>6, <3>1, <3>2
    <3>4. QED
      BY <2>1, <2>6, <3>3 DEF LimitInv, ConnectionLimit, CountFresh
  <2>7. QED
    BY <2>1, <2>3, <2>4, <2>5, <2>6, ListStep, Zenon
<1>3. LimitInv => ConnectionLimit
  BY DEF LimitInv
<1>4. QED
  BY <1>1, <1>2, <1>3, PTL DEF Spec

-----------------------------------------------------------------------------
(* Authentication.                                                         *)

Authenticated == {"WAIT_CLIENT_INIT", "NORMAL"}

(* A step that takes a connection past authentication takes one that was   *)
(* already there, or one whose user knows the password, or happens on a    *)
(* server without a password.                                              *)
LEMMA StateStep ==
  ASSUME TypeOK, [Next]_vars, HasPassword
  PROVE  \/ state' = state
         \/ \E c \in Conns, st \in States :
              /\ state' = [state EXCEPT ![c] = st]
              /\ \/ st \notin Authenticated
                 \/ c \in KnowsPassword
                 \/ state[c] \in Authenticated
<1>1. CASE Tick \/ UNCHANGED vars \/ \E c \in Conns : Peer(c)
  BY <1>1 DEF Tick, Peer, PeerConnect, PeerSend, PeerClose, vars, clientVars
<1>2. CASE \/ PollBegin \/ DetectSkip \/ PollReturns \/ PollFails
           \/ NoConnection \/ PollEnd
  BY <1>2 DEF PollBegin, DetectSkip, PollReturns, PollFails, NoConnection,
              PollEnd, StartService, clientVars
<1> DEFINE Moves(c, st) ==
             /\ state' = [state EXCEPT ![c] = st]
             /\ \/ st \notin Authenticated
                \/ c \in KnowsPassword
                \/ state[c] \in Authenticated
<1>3. ASSUME NEW c \in Conns, Drop(c)
      PROVE  Moves(c, "FREE")
  BY <1>3 DEF Drop, Authenticated
<1>4. ASSUME NEW c \in Conns, DetectTimeout(c) \/ Reject(c) \/ Accept(c)
      PROVE  state' = state \/ \E st \in States : Moves(c, st)
  <2>1. CASE Drop(c)
    BY <1>3, <2>1 DEF States
  <2>2. CASE ~Drop(c)
    BY <1>4, <2>2 DEF DetectTimeout, Reject, Accept, clientVars, States,
                      Authenticated
  <2>3. QED
    BY <2>1, <2>2
<1>5. ASSUME NEW c \in Conns, Service(c) \/ PageTaken(c)
      PROVE  state' = state \/ \E st \in States : Moves(c, st)
  <2>1. CASE Disconnect(c)
    BY <1>3, <2>1 DEF Disconnect, States
  <2>2. CASE UNCHANGED state
    BY <2>2
  <2>3. CASE ReadUpgrade(c) /\ ~Disconnect(c)
    BY <2>3 DEF ReadUpgrade, WriteFails, Parse, States, Authenticated
  <2>4. CASE ReadPlainRfb(c) /\ ~Disconnect(c)
    BY <2>4 DEF ReadPlainRfb, WriteFails, Parse, States, Authenticated
  <2>5. CASE ReadVersion(c) /\ ~Disconnect(c)
    BY <2>5 DEF ReadVersion, WriteFails, Parse, States, Authenticated
  <2>6. CASE ReadSecurity(c) /\ ~Disconnect(c)
    BY <2>6 DEF ReadSecurity, Offers, WriteFails, Parse, States, Authenticated
  <2>7. CASE ReadAuthResponse(c) /\ ~Disconnect(c)
    BY <2>7 DEF ReadAuthResponse, WriteFails, Parse, States
  <2>8. CASE ReadClientInit(c) /\ ~Disconnect(c)
    BY <2>8 DEF ReadClientInit, InState, WriteFails, Parse, States,
                Authenticated
  <2>9. CASE ReadMessage(c)
    BY <2>9 DEF ReadMessage, InState, Parse, States, Authenticated
  <2>10. CASE ReadHttp(c) \/ PageFails(c) \/ PageTaken(c)
    BY <2>1, <2>10, PageSteps DEF Waits, clientVars
  <2>11. QED
    BY <1>5, <2>1, <2>2, <2>3, <2>4, <2>5, <2>6, <2>7, <2>8, <2>9, <2>10
    DEF Service, ServeNothing, ServeError, ReceiveFails, Receive, ReadEnds,
        ReadRejected, ReadBadResponse, clientVars
<1>6. QED
  BY <1>1, <1>2, <1>4, <1>5, Zenon DEF Next, Server

(* With a password set, only a connection whose user knows the password    *)
(* gets past the VncAuth response, by whatever route through the states.   *)
THEOREM Authentication == Spec => []AuthenticatedSession
<1>1. Init => TypeOK /\ AuthenticatedSession
  <2>1. Init => AuthenticatedSession
    BY DEF Init, AuthenticatedSession
  <2>2. QED
    BY <2>1, TypeInit
<1>2. TypeOK /\ AuthenticatedSession /\ [Next]_vars
        => TypeOK' /\ AuthenticatedSession'
  <2> SUFFICES ASSUME TypeOK, AuthenticatedSession, [Next]_vars, HasPassword,
                      NEW d \in Conns, state'[d] \in Authenticated
               PROVE  d \in KnowsPassword
    BY TypeStep DEF AuthenticatedSession, Authenticated
  <2>1. state[d] \in Authenticated => d \in KnowsPassword
    BY DEF AuthenticatedSession, Authenticated
  <2>2. state \in [Conns -> States]
    BY DEF TypeOK, ClientTypeOK
  <2>3. CASE state' = state
    BY <2>1, <2>3
  <2>4. ASSUME NEW c \in Conns, NEW st \in States,
               state' = [state EXCEPT ![c] = st],
               \/ st \notin Authenticated
               \/ c \in KnowsPassword
               \/ state[c] \in Authenticated
        PROVE  d \in KnowsPassword
    BY <2>1, <2>2, <2>4
  <2>5. QED
    BY <2>3, <2>4, StateStep
<1>3. QED
  BY <1>1, <1>2, PTL DEF Spec

-----------------------------------------------------------------------------
(* Lists of clients in which no client is twice.                           *)

(* A client put in front of a list that does not hold it.                  *)
LEMMA PushFacts ==
  ASSUME NEW s \in Seq(Conns), IsInjective(s), NEW c \in Conns, c \notin ToSet(s)
  PROVE  /\ <<c>> \o s \in Seq(Conns)
         /\ IsInjective(<<c>> \o s)
         /\ ToSet(<<c>> \o s) = ToSet(s) \cup {c}
<1> DEFINE p == <<c>> \o s
<1>1. /\ p \in Seq(Conns) /\ Len(p) = Len(s) + 1 /\ Len(s) \in Nat
      /\ p[1] = c
      /\ \A i \in 2..Len(s) + 1 : p[i] = s[i - 1]
  <2>1. <<c>> \in Seq(Conns) /\ Len(<<c>>) = 1 /\ <<c>>[1] = c
    OBVIOUS
  <2>2. QED
    BY <2>1, ConcatProperties, LenProperties
<1>2. DOMAIN p = 1..Len(s) + 1 /\ DOMAIN s = 1..Len(s)
  BY <1>1
<1> HIDE DEF p
<1>3. \A i \in 2..Len(s) + 1 : p[i] \in ToSet(s) /\ p[i] # c
  BY <1>1, <1>2 DEF ToSet
<1>4. IsInjective(p)
  <2> SUFFICES ASSUME NEW i \in DOMAIN p, NEW j \in DOMAIN p, p[i] = p[j]
               PROVE  i = j
    BY DEF IsInjective
  <2>1. CASE i = 1 \/ j = 1
    BY <1>1, <1>2, <1>3, <2>1
  <2>2. CASE i # 1 /\ j # 1
    <3>1. i - 1 \in DOMAIN s /\ j - 1 \in DOMAIN s /\ s[i - 1] = s[j - 1]
      BY <1>1, <1>2, <2>2
    <3>2. i - 1 = j - 1
      BY <3>1 DEF IsInjective
    <3>3. QED
      BY <1>2, <3>2
  <2>3. QED
    BY <2>1, <2>2
<1>5. ToSet(p) = ToSet(s) \cup {c}
  <2>1. ToSet(p) \subseteq ToSet(s) \cup {c}
    BY <1>1, <1>2, <1>3 DEF ToSet
  <2>2. c \in ToSet(p)
    BY <1>1, <1>2 DEF ToSet
  <2>3. ASSUME NEW i \in DOMAIN s
        PROVE  s[i] \in ToSet(p)
    <3>1. i + 1 \in 2..Len(s) + 1 /\ (i + 1) - 1 = i
      BY <1>1, <1>2
    <3>2. p[i + 1] = s[i] /\ i + 1 \in DOMAIN p
      BY <1>1, <1>2, <3>1
    <3>3. QED
      BY <3>2 DEF ToSet
  <2>4. ToSet(s) \subseteq ToSet(p)
    BY <2>3 DEF ToSet
  <2>5. QED
    BY <2>1, <2>2, <2>4
<1>6. QED
  BY <1>1, <1>4, <1>5 DEF p

(* The rest of a walk, after its first client.                             *)
LEMMA RestFacts ==
  ASSUME NEW s \in Seq(Conns), s # <<>>, IsInjective(s)
  PROVE  /\ Tail(s) \in Seq(Conns)
         /\ IsInjective(Tail(s))
         /\ ToSet(Tail(s)) = ToSet(s) \ {Head(s)}
         /\ Head(s) \in ToSet(s)
<1>1. /\ Tail(s) \in Seq(Conns) /\ Len(Tail(s)) = Len(s) - 1
      /\ \A i \in 1..Len(Tail(s)) : Tail(s)[i] = s[i + 1]
  BY HeadTailProperties
<1>2. Len(s) \in Nat /\ Len(s) >= 1 /\ Head(s) = s[1]
  BY LenProperties, EmptySeq
<1>3. DOMAIN s = 1..Len(s) /\ DOMAIN Tail(s) = 1..Len(s) - 1
  BY <1>1, <1>2
<1>4. \A i \in 1..Len(s) - 1 : Tail(s)[i] = s[i + 1] /\ i + 1 \in DOMAIN s
  BY <1>1, <1>2, <1>3
<1>5. IsInjective(Tail(s))
  <2> SUFFICES ASSUME NEW i \in 1..Len(s) - 1, NEW j \in 1..Len(s) - 1,
                      Tail(s)[i] = Tail(s)[j]
               PROVE  i = j
    BY <1>3 DEF IsInjective
  <2>1. i + 1 = j + 1
    BY <1>4 DEF IsInjective
  <2>2. QED
    BY <2>1
<1>6. ToSet(Tail(s)) \subseteq ToSet(s) \ {Head(s)}
  <2> SUFFICES ASSUME NEW i \in 1..Len(s) - 1
               PROVE  Tail(s)[i] \in ToSet(s) /\ Tail(s)[i] # Head(s)
    BY <1>3 DEF ToSet
  <2>1. i + 1 # 1 /\ 1 \in DOMAIN s
    BY <1>2, <1>3
  <2>2. s[i + 1] # s[1]
    BY <1>4, <2>1 DEF IsInjective
  <2>3. QED
    BY <1>2, <1>4, <2>2 DEF ToSet
<1>7. ToSet(s) \ {Head(s)} \subseteq ToSet(Tail(s))
  <2> SUFFICES ASSUME NEW j \in 1..Len(s), s[j] # s[1]
               PROVE  s[j] \in ToSet(Tail(s))
    BY <1>2, <1>3 DEF ToSet
  <2>1. j - 1 \in 1..Len(s) - 1 /\ (j - 1) + 1 = j
    BY <1>2
  <2>2. Tail(s)[j - 1] = s[j]
    BY <1>4, <2>1
  <2>3. QED
    BY <1>3, <2>1, <2>2 DEF ToSet
<1>8. Head(s) \in ToSet(s)
  BY <1>2, <1>3 DEF ToSet
<1>9. QED
  BY <1>1, <1>5, <1>6, <1>7, <1>8

(* Unlinking takes away the client and nothing else.                       *)
LEMMA UnlinkExact ==
  ASSUME NEW s \in Seq(Conns), IsInjective(s), NEW c \in ToSet(s)
  PROVE  /\ Unlink(s, c) \in Seq(Conns)
         /\ IsInjective(Unlink(s, c))
         /\ ToSet(Unlink(s, c)) = ToSet(s) \ {c}
<1> DEFINE k == CHOOSE i \in DOMAIN s : s[i] = c
           n == Len(s)
           r == RemoveAt(s, k)
           at(i) == IF i < k THEN i ELSE i + 1   \* where r[i] was in s
<1>1. n \in Nat /\ DOMAIN s = 1..n
  BY LenProperties
<1>2. k \in 1..n /\ s[k] = c
  BY <1>1 DEF ToSet
<1>3. Unlink(s, c) = r
  BY DEF Unlink
<1> HIDE DEF k
<1>4. /\ r \in Seq(Conns) /\ DOMAIN r = 1..n - 1
      /\ \A i \in 1..n - 1 : r[i] = s[at(i)]
  <2>1. /\ r \in Seq(Conns) /\ Len(r) = n - 1
        /\ \A i \in 1..n - 1 : r[i] = IF i < k THEN s[i] ELSE s[i + 1]
    BY <1>2, RemoveAtFacts
  <2>2. QED
    BY <1>1, <2>1
<1> HIDE DEF n, r
<1>5. \A i \in 1..n - 1 : at(i) \in 1..n /\ at(i) # k
  BY <1>1, <1>2
<1>6. \A i, j \in 1..n - 1 : at(i) = at(j) => i = j
  BY <1>1, <1>2
<1>7. IsInjective(r)
  BY <1>1, <1>4, <1>5, <1>6 DEF IsInjective
<1>8. ToSet(r) \subseteq ToSet(s) \ {c}
  <2> SUFFICES ASSUME NEW i \in 1..n - 1
               PROVE  r[i] \in ToSet(s) /\ r[i] # c
    BY <1>4 DEF ToSet
  <2>1. at(i) \in DOMAIN s /\ k \in DOMAIN s /\ at(i) # k /\ r[i] = s[at(i)]
    BY <1>1, <1>2, <1>4, <1>5
  <2>2. s[at(i)] # s[k]
    BY <2>1 DEF IsInjective
  <2>3. QED
    BY <1>2, <2>1, <2>2 DEF ToSet
<1>9. ToSet(s) \ {c} \subseteq ToSet(r)
  <2> SUFFICES ASSUME NEW j \in 1..n, s[j] # c
               PROVE  s[j] \in ToSet(r)
    BY <1>1 DEF ToSet
  <2>1. PICK i \in 1..n - 1 : at(i) = j
    <3>1. CASE j < k
      <4>1. j \in 1..n - 1 /\ at(j) = j
        BY <1>1, <1>2, <3>1
      <4>2. QED
        BY <4>1
    <3>2. CASE j > k
      <4>1. j - 1 \in 1..n - 1 /\ at(j - 1) = j
        BY <1>1, <1>2, <3>2
      <4>2. QED
        BY <4>1
    <3>3. j # k
      BY <1>2
    <3>4. QED
      BY <1>1, <1>2, <3>1, <3>2, <3>3
  <2>2. r[i] = s[j]
    BY <1>4, <2>1
  <2>3. QED
    BY <1>4, <2>2 DEF ToSet
<1>10. QED
  BY <1>3, <1>4, <1>7, <1>8, <1>9

-----------------------------------------------------------------------------
(* The parts of WalkSafe, and what it takes besides to be inductive: while *)
(* the listening socket is handled the walk has not begun, and the pollfd  *)
(* slots are those of the clients in the list.                             *)

HasSocket(c) == link[c] \in {"open", "gone"}

ListExact ==
  /\ IsInjective(clients)
  /\ \A c \in Conns : /\ c \in ToSet(clients) <=> state[c] # "FREE"
                      /\ state[c] # "FREE" <=> HasSocket(c)

RestOfWalk == ToSet(todo) \subseteq ToSet(clients) /\ IsInjective(todo)

InService == phase \in {"service", "read", "http"}

OwnSlot ==
  InService /\ ~accepted => /\ idx <= Len(pfds) + 1
                            /\ todo = SubSeq(pfds, idx, Len(pfds))

SlotsFresh == phase = "accept" => pfds = clients /\ todo = <<>> /\ ~accepted

WalkInv == ListExact /\ RestOfWalk /\ OwnSlot /\ SlotsFresh

LEMMA WalkSafeParts == WalkSafe <=> ListExact /\ RestOfWalk /\ OwnSlot
BY DEF WalkSafe, ListExact, HasSocket, RestOfWalk, OwnSlot, InService

(* No struct or socket comes or goes.                                      *)
SameMembers ==
  /\ clients' = clients
  /\ \A c \in Conns : /\ state'[c] = "FREE" <=> state[c] = "FREE"
                      /\ HasSocket(c)' <=> HasSocket(c)

LEMMA MembersKept ==
  ASSUME ListExact, SameMembers
  PROVE  ListExact'
BY DEF ListExact, SameMembers

LEMMA DropMembers ==
  ASSUME TypeOK, ListExact, NEW c \in ToSet(clients), c \in Conns, Drop(c)
  PROVE  ListExact' /\ ToSet(clients') = ToSet(clients) \ {c}
<1>1. /\ clients \in Seq(Conns) /\ state \in [Conns -> States]
      /\ link \in [Conns -> {"closed", "backlog", "open", "gone"}]
  BY DEF TypeOK, ClientTypeOK, NetTypeOK
<1>2. /\ IsInjective(clients')
      /\ ToSet(clients') = ToSet(clients) \ {c}
  BY <1>1, UnlinkExact DEF Drop, ListExact
<1>3. /\ state' = [state EXCEPT ![c] = "FREE"]
      /\ link' = [link EXCEPT ![c] = "closed"]
  BY DEF Drop
<1>4. ASSUME NEW d \in Conns
      PROVE  /\ d \in ToSet(clients') <=> state'[d] # "FREE"
             /\ state'[d] # "FREE" <=> HasSocket(d)'
  <2>1. CASE d = c
    BY <1>1, <1>2, <1>3, <2>1 DEF HasSocket
  <2>2. CASE d # c
    BY <1>1, <1>2, <1>3, <2>2 DEF HasSocket, ListExact
  <2>3. QED
    BY <2>1, <2>2
<1>5. QED
  BY <1>2, <1>4 DEF ListExact

(* The client that a walk is at is in the list, has a struct and a socket. *)
LEMMA HeadIsClient ==
  ASSUME TypeOK, ListExact, RestOfWalk, todo # <<>>
  PROVE  Head(todo) \in ToSet(clients) /\ Head(todo) \in Conns
<1>1. todo \in Seq(Conns)
  BY DEF TypeOK, PollTypeOK
<1>2. Head(todo) \in ToSet(todo)
  BY <1>1, RestFacts DEF RestOfWalk
<1>3. Head(todo) \in Conns
  BY <1>1, HeadTailProperties
<1>4. QED
  BY <1>2, <1>3 DEF RestOfWalk

(* A walk goes on to the next client, having dropped this one or not.      *)
LEMMA WalkGoesOn ==
  ASSUME TypeOK, ListExact, RestOfWalk, todo # <<>>, VisitNext,
         SameMembers \/ Drop(Head(todo))
  PROVE  ListExact' /\ RestOfWalk'
<1>1. todo \in Seq(Conns)
  BY DEF TypeOK, PollTypeOK
<1>2. /\ IsInjective(todo') /\ ToSet(todo') = ToSet(todo) \ {Head(todo)}
  BY <1>1, RestFacts DEF RestOfWalk, VisitNext
<1>3. CASE SameMembers
  BY <1>2, <1>3, MembersKept DEF RestOfWalk, SameMembers
<1>4. CASE Drop(Head(todo))
  <2>1. ListExact' /\ ToSet(clients') = ToSet(clients) \ {Head(todo)}
    BY <1>4, HeadIsClient, DropMembers
  <2>2. QED
    BY <1>2, <2>1 DEF RestOfWalk
<1>5. QED
  BY <1>3, <1>4

(* The service walk goes on, with slot and client in step.                 *)
LEMMA SlotGoesOn ==
  ASSUME TypeOK, OwnSlot, InService, todo # <<>>, NextSlot
  PROVE  OwnSlot' /\ SlotsFresh'
<1>1. /\ pfds \in Seq(Conns) /\ idx \in Nat \ {0} /\ Len(pfds) \in Nat
  BY LenProperties DEF TypeOK, PollTypeOK
<1>2. /\ phase' = "service" /\ idx' = idx + 1 /\ todo' = Tail(todo)
      /\ pfds' = pfds /\ accepted' = accepted
  BY DEF NextSlot, VisitNext
<1>3. ASSUME ~accepted
      PROVE  idx + 1 <= Len(pfds) + 1
             /\ Tail(todo) = SubSeq(pfds, idx + 1, Len(pfds))
  <2>1. idx <= Len(pfds) + 1 /\ todo = SubSeq(pfds, idx, Len(pfds))
    BY <1>3 DEF OwnSlot
  <2>2. idx <= Len(pfds)
    <3>1. ASSUME idx = Len(pfds) + 1
          PROVE  FALSE
      <4>1. SubSeq(pfds, idx, Len(pfds)) = <<>>
        BY <1>1, <3>1, SubSeqEmpty
      <4>2. QED
        BY <2>1, <4>1
    <3>2. QED
      BY <1>1, <2>1, <3>1
  <2>3. Tail(SubSeq(pfds, idx, Len(pfds))) = SubSeq(pfds, idx + 1, Len(pfds))
    BY <1>1, <2>2, HeadTailOfSubSeq
  <2>4. QED
    BY <1>1, <2>1, <2>2, <2>3
<1>4. QED
  BY <1>2, <1>3 DEF OwnSlot, SlotsFresh, InService

-----------------------------------------------------------------------------
(* WalkInv, action by action.                                              *)

LEMMA WalkStands ==
  ASSUME WalkInv, SameMembers, UNCHANGED pollVars
  PROVE  WalkInv'
<1>1. ListExact'
  BY MembersKept DEF WalkInv
<1>2. QED
  BY <1>1 DEF WalkInv, RestOfWalk, OwnSlot, SlotsFresh, InService, SameMembers,
              pollVars

LEMMA OthersWalk ==
  ASSUME TypeOK, WalkInv, Tick \/ UNCHANGED vars \/ \E c \in Conns : Peer(c)
  PROVE  WalkInv'
<1>1. UNCHANGED <<clients, state, pollVars>>
  BY DEF Tick, Peer, PeerConnect, PeerSend, PeerClose, vars, clientVars,
         pollVars
<1>2. \A c \in Conns : HasSocket(c)' <=> HasSocket(c)
  BY DEF Tick, Peer, PeerConnect, PeerSend, PeerClose, vars, netVars,
         TypeOK, NetTypeOK, HasSocket
<1>3. QED
  BY <1>1, <1>2, WalkStands DEF SameMembers

LEMMA PollWalk ==
  ASSUME TypeOK, WalkInv,
         \/ PollBegin \/ DetectSkip \/ PollReturns \/ PollFails
         \/ NoConnection \/ PollEnd
  PROVE  WalkInv'
<1>1. SameMembers
  BY DEF PollBegin, DetectSkip, PollReturns, PollFails, NoConnection, PollEnd,
         clientVars, netVars, SameMembers, HasSocket
<1>2. ListExact'
  BY <1>1, MembersKept DEF WalkInv
<1>3. clients' = clients /\ clients \in Seq(Conns) /\ Len(clients) \in Nat
  BY <1>1, LenProperties DEF SameMembers, TypeOK, ClientTypeOK
<1>4. CASE PollBegin
  <2>1. todo' = clients /\ phase' = "detect"
    BY <1>4 DEF PollBegin
  <2>2. QED
    BY <1>2, <1>3, <2>1 DEF WalkInv, ListExact, RestOfWalk, OwnSlot,
                            SlotsFresh, InService
<1>5. CASE DetectSkip
  <2>1. todo # <<>> /\ VisitNext /\ phase' = "detect"
    BY <1>5 DEF DetectSkip
  <2>2. RestOfWalk'
    BY <1>1, <2>1, WalkGoesOn DEF WalkInv
  <2>3. QED
    BY <1>2, <2>1, <2>2 DEF WalkInv, OwnSlot, SlotsFresh, InService
<1>6. CASE PollReturns
  <2>1. /\ pfds' = clients /\ phase' = "accept" /\ ~accepted'
        /\ todo = <<>> /\ todo' = todo
    BY <1>6 DEF PollReturns
  <2>2. QED
    BY <1>2, <1>3, <2>1 DEF WalkInv, RestOfWalk, OwnSlot, SlotsFresh, InService
<1>7. CASE PollFails \/ PollEnd
  <2>1. phase' = "app" /\ todo' = todo
    BY <1>7 DEF PollFails, PollEnd
  <2>2. QED
    BY <1>2, <1>3, <2>1 DEF WalkInv, RestOfWalk, OwnSlot, SlotsFresh, InService
<1>8. CASE NoConnection
  <2>1. /\ phase = "accept" /\ phase' = "service" /\ idx' = 1
        /\ todo' = clients /\ pfds' = pfds
    BY <1>8 DEF NoConnection, StartService
  <2>2. pfds = clients
    BY <2>1 DEF WalkInv, SlotsFresh
  <2>3. SubSeq(clients, 1, Len(clients)) = clients
    BY <1>3, SubSeqFull
  <2>4. OwnSlot'
    BY <1>3, <2>1, <2>2, <2>3 DEF OwnSlot
  <2>5. RestOfWalk'
    BY <1>3, <2>1 DEF WalkInv, ListExact, RestOfWalk
  <2>6. QED
    BY <1>2, <2>1, <2>4, <2>5 DEF WalkInv, SlotsFresh
<1>9. QED
  BY <1>4, <1>5, <1>6, <1>7, <1>8

LEMMA DetectWalk ==
  ASSUME TypeOK, WalkInv, NEW c \in Conns, DetectTimeout(c)
  PROVE  WalkInv'
<1>1. /\ todo # <<>> /\ c = Head(todo) /\ VisitNext
      /\ phase = "detect" /\ phase' = "detect"
      /\ state[c] = "DETECT_WEBSOCKET"
  BY DEF DetectTimeout
<1>2. SameMembers \/ Drop(c)
  <2>1. SUFFICES ASSUME ~Drop(c) PROVE SameMembers
    OBVIOUS
  <2>2. /\ state' = [state EXCEPT ![c] = "WAIT_PROTOCOL_VERSION"]
        /\ UNCHANGED <<clients, link>>
    BY <2>1 DEF DetectTimeout, netVars
  <2>3. QED
    BY <1>1, <2>2 DEF SameMembers, HasSocket, TypeOK, ClientTypeOK
<1>3. ListExact' /\ RestOfWalk'
  BY <1>1, <1>2, WalkGoesOn DEF WalkInv
<1>4. QED
  BY <1>1, <1>3 DEF WalkInv, OwnSlot, SlotsFresh, InService

(* The listening socket: the service walk begins with all clients, the new *)
(* one at their head.                                                      *)
LEMMA AcceptWalk ==
  ASSUME TypeOK, WalkInv, NEW c \in Conns, Reject(c) \/ Accept(c)
  PROVE  WalkInv'
<1>1. /\ clients \in Seq(Conns) /\ Len(clients) \in Nat
      /\ state \in [Conns -> States]
      /\ link \in [Conns -> {"closed", "backlog", "open", "gone"}]
  BY LenProperties DEF TypeOK, ClientTypeOK, NetTypeOK
<1>2. /\ phase = "accept" /\ phase' = "service" /\ idx' = 1 /\ pfds' = pfds
      /\ link[c] = "backlog"
  BY DEF Reject, Accept, StartService
<1>3. pfds = clients /\ ~accepted
  BY <1>2 DEF WalkInv, SlotsFresh
<1>4. CASE Reject(c)
  <2>1. /\ clients' = clients /\ state' = state /\ todo' = clients
        /\ link' = [link EXCEPT ![c] = "closed"]
    BY <1>4 DEF Reject, StartService, clientVars
  <2>2. SameMembers
    BY <1>1, <1>2, <2>1 DEF SameMembers, HasSocket
  <2>3. ListExact'
    BY <2>2, MembersKept DEF WalkInv
  <2>4. SubSeq(clients, 1, Len(clients)) = clients
    BY <1>1, SubSeqFull
  <2>5. OwnSlot'
    BY <1>1, <1>2, <1>3, <2>1, <2>4 DEF OwnSlot
  <2>6. RestOfWalk'
    BY <2>1 DEF WalkInv, ListExact, RestOfWalk
  <2>7. QED
    BY <1>2, <2>3, <2>5, <2>6 DEF WalkInv, SlotsFresh
<1>5. CASE Accept(c)
  <2>1. /\ clients' = <<c>> \o clients /\ todo' = <<c>> \o clients /\ accepted'
        /\ state' = [state EXCEPT ![c] = IF WebSocket THEN "DETECT_WEBSOCKET"
                                         ELSE "WAIT_PROTOCOL_VERSION"]
        /\ link' = [link EXCEPT ![c] = "open"]
    BY <1>5 DEF Accept, StartService
  <2>2. c \notin ToSet(clients)
    BY <1>2 DEF WalkInv, ListExact, HasSocket
  <2>3. /\ IsInjective(clients')
        /\ ToSet(clients') = ToSet(clients) \cup {c}
    BY <1>1, <2>1, <2>2, PushFacts DEF WalkInv, ListExact
  <2>4. ASSUME NEW d \in Conns
        PROVE  /\ d \in ToSet(clients') <=> state'[d] # "FREE"
               /\ state'[d] # "FREE" <=> HasSocket(d)'
    <3>1. CASE d = c
      BY <1>1, <2>1, <2>3, <3>1 DEF HasSocket
    <3>2. CASE d # c
      BY <1>1, <2>1, <2>3, <3>2 DEF HasSocket, WalkInv, ListExact
    <3>3. QED
      BY <3>1, <3>2
  <2>5. ListExact'
    BY <2>3, <2>4 DEF ListExact
  <2>6. QED
    BY <1>2, <2>1, <2>3, <2>5 DEF WalkInv, RestOfWalk, OwnSlot, SlotsFresh
<1>6. QED
  BY <1>4, <1>5

(* The service walk goes on to the next client.                            *)
LEMMA NextWalk ==
  ASSUME TypeOK, WalkInv, InService, todo # <<>>,
         \/ NextSlot /\ SameMembers
         \/ Disconnect(Head(todo))
  PROVE  WalkInv'
<1>1. NextSlot /\ VisitNext
  BY DEF NextSlot, Disconnect
<1>2. ListExact' /\ RestOfWalk'
  BY <1>1, WalkGoesOn DEF WalkInv, Disconnect
<1>3. OwnSlot' /\ SlotsFresh'
  BY <1>1, SlotGoesOn DEF WalkInv
<1>4. QED
  BY <1>2, <1>3 DEF WalkInv

LEMMA ServeWalk ==
  ASSUME TypeOK, WalkInv, NEW c \in Conns,
         ServeNothing(c) \/ ServeError(c) \/ ReceiveFails(c) \/ Receive(c)
  PROVE  WalkInv'
<1>1. InService /\ todo # <<>> /\ c = Head(todo) /\ phase = "service"
  BY DEF ServeNothing, ServeError, ReceiveFails, Receive, Serving, InService
<1>2. CASE ServeNothing(c)
  <2>1. NextSlot /\ SameMembers
    BY <1>2 DEF ServeNothing, clientVars, netVars, SameMembers, HasSocket
  <2>2. QED
    BY <1>1, <2>1, NextWalk
<1>3. CASE ServeError(c) \/ ReceiveFails(c)
  BY <1>1, <1>3, NextWalk DEF ServeError, ReceiveFails
<1>4. CASE Receive(c)
  <2>1. SameMembers
    BY <1>4 DEF Receive, SameMembers, HasSocket
  <2>2. /\ phase' = "read"
        /\ UNCHANGED <<clients, pfds, revents, idx, todo, accepted>>
    BY <1>4 DEF Receive
  <2>3. ListExact'
    BY <2>1, MembersKept DEF WalkInv
  <2>4. QED
    BY <1>1, <2>2, <2>3
    DEF WalkInv, RestOfWalk, OwnSlot, SlotsFresh, InService
<1>5. QED
  BY <1>2, <1>3, <1>4

LEMMA ReadWalk ==
  ASSUME TypeOK, WalkInv, NEW c \in Conns,
         \/ ReadEnds(c) \/ ReadRejected(c) \/ ReadUpgrade(c)
         \/ ReadPlainRfb(c) \/ ReadVersion(c) \/ ReadSecurity(c)
         \/ ReadAuthResponse(c) \/ ReadBadResponse(c) \/ ReadClientInit(c)
         \/ ReadMessage(c)
  PROVE  WalkInv'
<1>1. InService /\ todo # <<>> /\ c = Head(todo)
  BY DEF ReadEnds, ReadRejected, ReadUpgrade, ReadPlainRfb, ReadVersion,
         ReadSecurity, ReadAuthResponse, ReadBadResponse, ReadClientInit,
         ReadMessage, InState, Reading, InService
<1>2. state[c] # "FREE"
  BY <1>1, HeadIsClient DEF WalkInv, ListExact
<1>3. CASE Disconnect(c)
  BY <1>1, <1>3, NextWalk
<1>4. CASE ReadEnds(c)
  <2>1. NextSlot /\ SameMembers
    BY <1>4 DEF ReadEnds, clientVars, netVars, SameMembers, HasSocket
  <2>2. QED
    BY <1>1, <2>1, NextWalk
<1>5. CASE /\ UNCHANGED <<clients, netVars, pollVars>>
           /\ \E st \in States \ {"FREE"} : state' = [state EXCEPT ![c] = st]
  <2>1. SameMembers
    BY <1>2, <1>5 DEF SameMembers, HasSocket, netVars, TypeOK, ClientTypeOK
  <2>2. QED
    BY <1>5, <2>1, WalkStands
<1>6. QED
  BY <1>3, <1>4, <1>5
  DEF ReadRejected, ReadUpgrade, ReadPlainRfb, ReadVersion, ReadSecurity,
      ReadAuthResponse, ReadBadResponse, ReadClientInit, ReadMessage,
      WriteFails, Parse, States

LEMMA PageWalk ==
  ASSUME TypeOK, WalkInv, NEW c \in Conns,
         ReadHttp(c) \/ PageFails(c) \/ PageTaken(c)
  PROVE  WalkInv'
<1>1. InService /\ todo # <<>> /\ c = Head(todo)
  BY PageSteps DEF InService
<1>2. CASE Disconnect(c)
  BY <1>1, <1>2, NextWalk
<1>3. CASE Waits
  <2>1. SameMembers
    BY <1>3 DEF Waits, SameMembers, HasSocket, clientVars, netVars
  <2>2. ListExact'
    BY <2>1, MembersKept DEF WalkInv
  <2>3. QED
    BY <1>1, <1>3, <2>2
    DEF Waits, clientVars, WalkInv, RestOfWalk, OwnSlot, SlotsFresh, InService
<1>4. QED
  BY <1>2, <1>3, PageSteps

LEMMA WalkStep ==
  ASSUME TypeOK, WalkInv, [Next]_vars
  PROVE  WalkInv'
BY OthersWalk, PollWalk, DetectWalk, AcceptWalk, ServeWalk, ReadWalk, PageWalk
DEF Next, Server, Service

LEMMA WalkInit == Init => WalkInv
<1> SUFFICES ASSUME Init PROVE WalkInv
  OBVIOUS
<1>1. /\ clients = <<>> /\ todo = <<>> /\ phase = "app"
      /\ state = [c \in Conns |-> "FREE"]
      /\ link = [c \in Conns |-> "closed"]
  BY DEF Init
<1>2. ToSet(clients) = {} /\ IsInjective(clients)
  BY <1>1 DEF ToSet, IsInjective
<1>3. QED
  BY <1>1, <1>2 DEF WalkInv, ListExact, HasSocket, RestOfWalk, OwnSlot,
                    SlotsFresh, InService

(* In every reachable state the list of clients is exact, a walk over it   *)
(* never reaches a client that was freed, and without an accept each       *)
(* client is served with the events of its own pollfd slot, whichever      *)
(* clients vnc_server_poll() drops on the way.                             *)
THEOREM WalksAreSafe == Spec => []WalkSafe
<1>1. Init => TypeOK /\ WalkInv
  BY TypeInit, WalkInit
<1>2. TypeOK /\ WalkInv /\ [Next]_vars => TypeOK' /\ WalkInv'
  BY TypeStep, WalkStep
<1>3. WalkInv => WalkSafe
  BY WalkSafeParts DEF WalkInv
<1>4. QED
  BY <1>1, <1>2, <1>3, PTL DEF Spec

-----------------------------------------------------------------------------
(* The order of the handshake.  HandshakeInOrder is not inductive: it does *)
(* not say which messages a connection in the middle of the handshake has  *)
(* been sent.  That follows from the state and the version, exactly.       *)

BeforeVersion == {"FREE", "DETECT_WEBSOCKET", "WAIT_PROTOCOL_VERSION"}

Said(st, m) ==
  CASE st \in {"FREE", "DETECT_WEBSOCKET"} -> <<>>
    [] st = "WAIT_PROTOCOL_VERSION" -> <<"version">>
    [] st = "WAIT_SECURITY" -> <<"version">> \o <<"sectypes">>
    [] st = "WAIT_VNC_AUTH_RESPONSE" ->
         <<"version">> \o (IF m = 3 THEN <<"sectype", "challenge">>
                           ELSE <<"sectypes", "challenge">>)
    [] st = "WAIT_CLIENT_INIT" -> <<"version">> \o SecurityScript(m)
    [] st = "NORMAL" -> Script(m)

SaidExact(c) ==
  /\ sent[c] = Said(state[c], minor[c])
  /\ state[c] \in BeforeVersion => minor[c] = 8
  /\ state[c] = "WAIT_SECURITY" => minor[c] # 3
  /\ state[c] = "WAIT_VNC_AUTH_RESPONSE" => HasPassword

HandshakeInv == \A c \in Conns : SaidExact(c)

LEMMA Scripts ==
  ASSUME NEW m \in Minors
  PROVE  /\ SecurityScript(m) =
              IF HasPassword
              THEN IF m = 3 THEN <<"sectype", "challenge", "ok">>
                   ELSE <<"sectypes", "challenge", "ok">>
              ELSE IF m = 3 THEN <<"sectype">>
                   ELSE IF m = 7 THEN <<"sectypes">> ELSE <<"sectypes", "ok">>
         /\ SecurityScript(m) \in Seq(Messages)
<1>1. HasPassword \in BOOLEAN /\ (m = 3 \/ m = 7 \/ m = 8)
  BY SessionAssumption DEF Minors
<1>2. SecurityScript(m) =
        IF HasPassword
        THEN IF m = 3 THEN <<"sectype", "challenge", "ok">>
             ELSE <<"sectypes", "challenge", "ok">>
        ELSE IF m = 3 THEN <<"sectype">>
             ELSE IF m = 7 THEN <<"sectypes">> ELSE <<"sectypes", "ok">>
  BY <1>1 DEF SecurityScript
<1>3. /\ <<"sectype", "challenge", "ok">> \in Seq(Messages)
      /\ <<"sectypes", "challenge", "ok">> \in Seq(Messages)
      /\ <<"sectype">> \in Seq(Messages) /\ <<"sectypes">> \in Seq(Messages)
      /\ <<"sectypes", "ok">> \in Seq(Messages)
  BY DEF Messages
<1>4. QED
  BY <1>2, <1>3

(* A message appended to what was said.                                    *)
LEMMA SaidMore ==
  LET v == <<"version">> IN
  /\ <<>> \o v = v /\ Append(<<>>, "version") = v
  /\ (v \o <<"sectypes">>) \o <<"challenge">> = v \o <<"sectypes", "challenge">>
  /\ (v \o <<"sectypes">>) \o <<"ok">> = v \o <<"sectypes", "ok">>
  /\ (v \o <<"sectypes">>) \o <<>> = v \o <<"sectypes">>
  /\ (v \o <<"sectype", "challenge">>) \o <<"ok">>
       = v \o <<"sectype", "challenge", "ok">>
  /\ (v \o <<"sectypes", "challenge">>) \o <<"ok">>
       = v \o <<"sectypes", "challenge", "ok">>
<1> DEFINE v == <<"version">>
<1>1. <<>> \o v = v /\ Append(<<>>, "version") = v
  OBVIOUS
<1>2. (v \o <<"sectypes">>) \o <<"challenge">> = v \o <<"sectypes", "challenge">>
  OBVIOUS
<1>3. (v \o <<"sectypes">>) \o <<"ok">> = v \o <<"sectypes", "ok">>
  OBVIOUS
<1>4. (v \o <<"sectypes">>) \o <<>> = v \o <<"sectypes">>
  OBVIOUS
<1>5. (v \o <<"sectype", "challenge">>) \o <<"ok">>
       = v \o <<"sectype", "challenge", "ok">>
  OBVIOUS
<1>6. (v \o <<"sectypes", "challenge">>) \o <<"ok">>
       = v \o <<"sectypes", "challenge", "ok">>
  OBVIOUS
<1>7. QED
  BY <1>1, <1>2, <1>3, <1>4, <1>5, <1>6

(* Only c moves, to st, with version m, and has been sent what they say.   *)
LEMMA OneMoves ==
  ASSUME TypeOK, HandshakeInv, NEW c \in Conns,
         NEW st \in States, NEW m \in Minors,
         state' = [state EXCEPT ![c] = st],
         minor' = [minor EXCEPT ![c] = m],
         sent' = [sent EXCEPT ![c] = Said(st, m)],
         st \in BeforeVersion => m = 8,
         st = "WAIT_SECURITY" => m # 3,
         st = "WAIT_VNC_AUTH_RESPONSE" => HasPassword
  PROVE  HandshakeInv'
<1>1. /\ state \in [Conns -> States] /\ minor \in [Conns -> Minors]
      /\ sent \in [Conns -> Seq(Messages)]
  BY DEF TypeOK, ClientTypeOK
<1>2. ASSUME NEW d \in Conns
      PROVE  SaidExact(d)'
  <2>1. CASE d = c
    <3>1. state'[c] = st /\ minor'[c] = m /\ sent'[c] = Said(st, m)
      BY <1>1
    <3>2. QED
      BY <2>1, <3>1 DEF SaidExact
  <2>2. CASE d # c
    <3>1. state'[d] = state[d] /\ minor'[d] = minor[d] /\ sent'[d] = sent[d]
      BY <1>1, <2>2
    <3>2. SaidExact(d)
      BY DEF HandshakeInv
    <3>3. QED
      BY <3>1, <3>2 DEF SaidExact
  <2>3. QED
    BY <2>1, <2>2
<1>3. QED
  BY <1>2 DEF HandshakeInv

LEMMA SameSaid ==
  ASSUME HandshakeInv, UNCHANGED <<state, minor, sent>>
  PROVE  HandshakeInv'
BY DEF HandshakeInv, SaidExact

LEMMA DropSaid ==
  ASSUME TypeOK, HandshakeInv, NEW c \in Conns, Drop(c)
  PROVE  HandshakeInv'
<1>1. <<>> = Said("FREE", 8)
  BY DEF Said
<1>2. /\ state' = [state EXCEPT ![c] = "FREE"]
      /\ minor' = [minor EXCEPT ![c] = 8]
      /\ sent' = [sent EXCEPT ![c] = Said("FREE", 8)]
  BY <1>1 DEF Drop
<1>3. "FREE" \in States /\ 8 \in Minors
  BY DEF States, Minors
<1>4. QED
  BY <1>2, <1>3, OneMoves

LEMMA DetectSaid ==
  ASSUME TypeOK, HandshakeInv, NEW c \in Conns, DetectTimeout(c)
  PROVE  HandshakeInv'
<1>1. CASE Drop(c)
  BY <1>1, DropSaid
<1>2. CASE ~Drop(c)
  <2>1. /\ state' = [state EXCEPT ![c] = "WAIT_PROTOCOL_VERSION"]
        /\ sent' = [sent EXCEPT ![c] = Append(sent[c], "version")]
        /\ minor' = minor /\ state[c] = "DETECT_WEBSOCKET"
    BY <1>2 DEF DetectTimeout
  <2>2. sent[c] = <<>> /\ minor[c] = 8
    BY <2>1 DEF HandshakeInv, SaidExact, Said, BeforeVersion
  <2>3. minor' = [minor EXCEPT ![c] = 8]
    BY <2>1, <2>2 DEF TypeOK, ClientTypeOK
  <2>4. Append(sent[c], "version") = Said("WAIT_PROTOCOL_VERSION", 8)
    BY <2>2, SaidMore DEF Said
  <2>5. sent' = [sent EXCEPT ![c] = Said("WAIT_PROTOCOL_VERSION", 8)]
    BY <2>1, <2>4
  <2>6. "WAIT_PROTOCOL_VERSION" \in States /\ 8 \in Minors
    BY DEF States, Minors
  <2>7. state' = [state EXCEPT ![c] = "WAIT_PROTOCOL_VERSION"]
    BY <2>1
  <2>8. QED
    BY <2>3, <2>5, <2>6, <2>7, OneMoves
<1>3. QED
  BY <1>1, <1>2

LEMMA AcceptSaid ==
  ASSUME TypeOK, WalkInv, HandshakeInv, NEW c \in Conns, Accept(c)
  PROVE  HandshakeInv'
<1> DEFINE st == IF WebSocket THEN "DETECT_WEBSOCKET" ELSE "WAIT_PROTOCOL_VERSION"
           x == IF WebSocket THEN <<>> ELSE <<"version">>
<1>1. /\ state' = [state EXCEPT ![c] = st] /\ sent' = [sent EXCEPT ![c] = x]
      /\ minor' = minor /\ link[c] = "backlog"
  BY DEF Accept
<1>2. state[c] = "FREE"
  BY <1>1 DEF WalkInv, ListExact, HasSocket
<1>3. minor[c] = 8
  BY <1>2 DEF HandshakeInv, SaidExact, BeforeVersion
<1>4. minor' = [minor EXCEPT ![c] = 8]
  BY <1>1, <1>3 DEF TypeOK, ClientTypeOK
<1>5. x = Said(st, 8)
  BY DEF Said
<1>6. /\ st # "WAIT_SECURITY" /\ st # "WAIT_VNC_AUTH_RESPONSE"
      /\ st \in States /\ 8 \in Minors
  BY DEF States, Minors
<1> HIDE DEF st, x
<1>7. QED
  BY <1>1, <1>4, <1>5, <1>6, OneMoves

(* A step of the parse loop that says what the new state and version say.  *)
LEMMA ParseSaid ==
  ASSUME TypeOK, HandshakeInv, NEW c \in Conns, NEW n, NEW msgs,
         NEW st \in States, NEW m \in Minors,
         Parse(c, n, msgs, st),
         minor' = [minor EXCEPT ![c] = m],
         sent[c] \o msgs = Said(st, m),
         st \in BeforeVersion => m = 8,
         st = "WAIT_SECURITY" => m # 3,
         st = "WAIT_VNC_AUTH_RESPONSE" => HasPassword
  PROVE  HandshakeInv'
<1>1. /\ state' = [state EXCEPT ![c] = st]
      /\ sent' = [sent EXCEPT ![c] = Said(st, m)]
  BY DEF Parse
<1>2. QED
  BY <1>1, OneMoves

(* The steps that leave the version as it is.                              *)
LEMMA ParseSaidOn ==
  ASSUME TypeOK, HandshakeInv, NEW c \in Conns, NEW n, NEW msgs,
         NEW st \in States,
         Parse(c, n, msgs, st),
         minor' = minor,
         sent[c] \o msgs = Said(st, minor[c]),
         st \in BeforeVersion => minor[c] = 8,
         st = "WAIT_SECURITY" => minor[c] # 3,
         st = "WAIT_VNC_AUTH_RESPONSE" => HasPassword
  PROVE  HandshakeInv'
<1>1. minor[c] \in Minors /\ minor' = [minor EXCEPT ![c] = minor[c]]
  BY DEF TypeOK, ClientTypeOK
<1>2. QED
  BY <1>1, ParseSaid

LEMMA DetectedSaid ==
  ASSUME TypeOK, HandshakeInv, NEW c \in Conns, NEW n,
         InState(c, "DETECT_WEBSOCKET"),
         Parse(c, n, <<"version">>, "WAIT_PROTOCOL_VERSION"), minor' = minor
  PROVE  HandshakeInv'
<1>1. sent[c] = <<>> /\ minor[c] = 8
  BY DEF InState, HandshakeInv, SaidExact, Said, BeforeVersion
<1>2. sent[c] \o <<"version">> = Said("WAIT_PROTOCOL_VERSION", minor[c])
  BY <1>1, SaidMore DEF Said
<1>3. "WAIT_PROTOCOL_VERSION" \in States
  BY DEF States
<1>4. QED
  BY <1>1, <1>2, <1>3, ParseSaidOn

LEMMA VersionSaid ==
  ASSUME TypeOK, HandshakeInv, NEW c \in Conns, ReadVersion(c), ~WriteFails(c)
  PROVE  HandshakeInv'
<1> DEFINE v == <<"version">>
<1>1. sent[c] = v
  BY DEF ReadVersion, InState, HandshakeInv, SaidExact, Said
<1>2. PICK m \in Versions :
        /\ minor' = [minor EXCEPT ![c] = m]
        /\ \/ /\ m < 7 /\ HasPassword
              /\ Parse(c, 1, <<"sectype", "challenge">>,
                       "WAIT_VNC_AUTH_RESPONSE")
           \/ /\ m < 7 /\ ~HasPassword
              /\ Parse(c, 1, <<"sectype">>, "WAIT_CLIENT_INIT")
           \/ /\ m >= 7
              /\ Parse(c, 1, <<"sectypes">>, "WAIT_SECURITY")
  BY DEF ReadVersion
<1>3. m \in Minors /\ (m = 3 \/ m = 7 \/ m = 8)
  BY SessionAssumption DEF Minors
<1>4. {"WAIT_VNC_AUTH_RESPONSE", "WAIT_CLIENT_INIT", "WAIT_SECURITY"}
        \subseteq States
  BY DEF States
<1>5. CASE m < 7 /\ HasPassword
  <2>1. v \o <<"sectype", "challenge">> = Said("WAIT_VNC_AUTH_RESPONSE", m)
    BY <1>3, <1>5 DEF Said
  <2>2. Parse(c, 1, <<"sectype", "challenge">>, "WAIT_VNC_AUTH_RESPONSE")
    BY <1>2, <1>3, <1>5
  <2>3. sent[c] \o <<"sectype", "challenge">>
          = Said("WAIT_VNC_AUTH_RESPONSE", m)
    BY <1>1, <2>1
  <2>4. "WAIT_VNC_AUTH_RESPONSE" \notin BeforeVersion
    BY DEF BeforeVersion
  <2>5. QED
    BY <1>2, <1>3, <1>4, <1>5, <2>2, <2>3, <2>4, ParseSaid
<1>6. CASE m < 7 /\ ~HasPassword
  <2>1. SecurityScript(m) = <<"sectype">>
    BY <1>3, <1>6, Scripts
  <2>2. Parse(c, 1, <<"sectype">>, "WAIT_CLIENT_INIT")
    BY <1>2, <1>3, <1>6
  <2>3. sent[c] \o <<"sectype">> = Said("WAIT_CLIENT_INIT", m)
    BY <1>1, <2>1 DEF Said
  <2>4. "WAIT_CLIENT_INIT" \notin BeforeVersion
    BY DEF BeforeVersion
  <2>5. QED
    BY <1>2, <1>3, <1>4, <2>2, <2>3, <2>4, ParseSaid
<1>7. CASE m >= 7
  <2>1. Parse(c, 1, <<"sectypes">>, "WAIT_SECURITY")
    BY <1>2, <1>3, <1>7
  <2>2. sent[c] \o <<"sectypes">> = Said("WAIT_SECURITY", m)
    BY <1>1 DEF Said
  <2>3. "WAIT_SECURITY" \notin BeforeVersion
    BY DEF BeforeVersion
  <2>4. m # 3
    BY <1>3, <1>7
  <2>5. QED
    BY <1>2, <1>3, <1>4, <2>1, <2>2, <2>3, <2>4, ParseSaid
<1>8. QED
  BY <1>3, <1>5, <1>6, <1>7

LEMMA SecuritySaid ==
  ASSUME TypeOK, HandshakeInv, NEW c \in Conns, ReadSecurity(c), ~WriteFails(c)
  PROVE  HandshakeInv'
<1> DEFINE v == <<"version">>
<1>1. sent[c] = v \o <<"sectypes">> /\ minor[c] # 3 /\ minor' = minor
  BY DEF ReadSecurity, InState, HandshakeInv, SaidExact, Said, WriteFails
<1>2. minor[c] \in Minors
  BY DEF TypeOK, ClientTypeOK
<1>3. {"WAIT_VNC_AUTH_RESPONSE", "WAIT_CLIENT_INIT"} \subseteq States
      /\ "WAIT_VNC_AUTH_RESPONSE" \notin BeforeVersion
      /\ "WAIT_CLIENT_INIT" \notin BeforeVersion
  BY DEF States, BeforeVersion
<1>4. CASE HasPassword
  <2>1. Parse(c, 1, <<"challenge">>, "WAIT_VNC_AUTH_RESPONSE")
    BY <1>4 DEF ReadSecurity, Offers
  <2>2. sent[c] \o <<"challenge">> = Said("WAIT_VNC_AUTH_RESPONSE", minor[c])
    BY <1>1, SaidMore DEF Said
  <2>3. QED
    BY <1>1, <1>3, <1>4, <2>1, <2>2, ParseSaidOn
<1>5. CASE ~HasPassword
  <2>1. Parse(c, 1, SecurityResult(c), "WAIT_CLIENT_INIT")
    BY <1>5 DEF ReadSecurity, Offers
  <2>2. sent[c] \o SecurityResult(c) = v \o SecurityScript(minor[c])
    <3>1. CASE minor[c] = 7
      <4>1. SecurityResult(c) = <<>> /\ SecurityScript(minor[c]) = <<"sectypes">>
        BY <1>2, <1>5, <3>1, Scripts DEF SecurityResult
      <4>2. QED
        BY <1>1, <4>1, SaidMore
    <3>2. CASE minor[c] = 8
      <4>1. /\ SecurityResult(c) = <<"ok">>
            /\ SecurityScript(minor[c]) = <<"sectypes", "ok">>
        BY <1>2, <1>5, <3>2, Scripts DEF SecurityResult
      <4>2. QED
        BY <1>1, <4>1, SaidMore
    <3>3. QED
      BY <1>1, <1>2, <3>1, <3>2 DEF Minors
  <2>3. sent[c] \o SecurityResult(c) = Said("WAIT_CLIENT_INIT", minor[c])
    BY <2>2 DEF Said
  <2>4. QED
    BY <1>1, <1>3, <2>1, <2>3, ParseSaidOn
<1>6. QED
  BY <1>4, <1>5

LEMMA ResponseSaid ==
  ASSUME TypeOK, HandshakeInv, NEW c \in Conns,
         ReadAuthResponse(c), ~WriteFails(c)
  PROVE  HandshakeInv'
<1> DEFINE v == <<"version">>
<1>1. /\ sent[c] = v \o (IF minor[c] = 3 THEN <<"sectype", "challenge">>
                         ELSE <<"sectypes", "challenge">>)
      /\ HasPassword /\ minor' = minor
  BY DEF ReadAuthResponse, InState, HandshakeInv, SaidExact, Said, WriteFails
<1>2. minor[c] \in Minors
  BY DEF TypeOK, ClientTypeOK
<1>3. "WAIT_CLIENT_INIT" \in States /\ "WAIT_CLIENT_INIT" \notin BeforeVersion
  BY DEF States, BeforeVersion
<1>4. Parse(c, 1, <<"ok">>, "WAIT_CLIENT_INIT")
  BY <1>1 DEF ReadAuthResponse, SecurityResult
<1>5. sent[c] \o <<"ok">> = v \o SecurityScript(minor[c])
  <2>1. CASE minor[c] = 3
    <3>1. SecurityScript(minor[c]) = <<"sectype", "challenge", "ok">>
      BY <1>1, <1>2, <2>1, Scripts
    <3>2. QED
      BY <1>1, <2>1, <3>1, SaidMore
  <2>2. CASE minor[c] # 3
    <3>1. SecurityScript(minor[c]) = <<"sectypes", "challenge", "ok">>
      BY <1>1, <1>2, <2>2, Scripts
    <3>2. QED
      BY <1>1, <2>2, <3>1, SaidMore
  <2>3. QED
    BY <2>1, <2>2
<1>6. sent[c] \o <<"ok">> = Said("WAIT_CLIENT_INIT", minor[c])
  BY <1>5 DEF Said
<1>7. QED
  BY <1>1, <1>3, <1>4, <1>6, ParseSaidOn

LEMMA ClientInitSaid ==
  ASSUME TypeOK, HandshakeInv, NEW c \in Conns,
         ReadClientInit(c), ~WriteFails(c)
  PROVE  HandshakeInv'
<1> DEFINE v == <<"version">>
<1>1. sent[c] = v \o SecurityScript(minor[c]) /\ minor' = minor
  BY DEF ReadClientInit, InState, HandshakeInv, SaidExact, Said, WriteFails
<1>2. Parse(c, 1, <<"init">>, "NORMAL")
  BY DEF ReadClientInit
<1>3. sent[c] \o <<"init">> = Said("NORMAL", minor[c])
  BY <1>1 DEF Said, Script
<1>4. "NORMAL" \in States /\ "NORMAL" \notin BeforeVersion
  BY DEF States, BeforeVersion
<1>5. QED
  BY <1>1, <1>2, <1>3, <1>4, ParseSaidOn

LEMMA MessageSaid ==
  ASSUME TypeOK, HandshakeInv, NEW c \in Conns, ReadMessage(c)
  PROVE  HandshakeInv'
<1>1. /\ Parse(c, 1, <<>>, "NORMAL") /\ minor' = minor /\ state[c] = "NORMAL"
      /\ sent[c] \in Seq(Messages) /\ state \in [Conns -> States]
      /\ sent \in [Conns -> Seq(Messages)]
  BY DEF ReadMessage, InState, TypeOK, ClientTypeOK
<1>2. sent[c] \o <<>> = sent[c]
  BY <1>1, ConcatEmptySeq
<1>3. UNCHANGED <<state, minor, sent>>
  BY <1>1, <1>2 DEF Parse
<1>4. QED
  BY <1>3, SameSaid

LEMMA HandshakeStep ==
  ASSUME TypeOK, WalkInv, HandshakeInv, [Next]_vars
  PROVE  HandshakeInv'
<1>1. CASE \/ Tick \/ UNCHANGED vars \/ \E c \in Conns : Peer(c)
           \/ PollBegin \/ DetectSkip \/ PollReturns \/ PollFails
           \/ NoConnection \/ PollEnd
  <2>1. UNCHANGED clientVars
    BY <1>1 DEF Tick, Peer, PeerConnect, PeerSend, PeerClose, vars, PollBegin,
                DetectSkip, PollReturns, PollFails, NoConnection, PollEnd
  <2>2. QED
    BY <2>1, SameSaid DEF clientVars
<1>2. ASSUME NEW c \in Conns, DetectTimeout(c) \/ Reject(c) \/ Accept(c)
      PROVE  HandshakeInv'
  BY <1>2, DetectSaid, AcceptSaid, SameSaid DEF Reject, clientVars
<1>3. ASSUME NEW c \in Conns, Service(c) \/ PageTaken(c)
      PROVE  HandshakeInv'
  <2>1. CASE Disconnect(c)
    BY <2>1, DropSaid DEF Disconnect
  <2>2. CASE ServeNothing(c) \/ Receive(c) \/ ReadEnds(c)
    BY <2>2, SameSaid DEF ServeNothing, Receive, ReadEnds, clientVars
  <2>3. CASE (ReadUpgrade(c) \/ ReadPlainRfb(c)) /\ ~WriteFails(c)
    <3>1. PICK n \in {0, 1} :
            /\ Parse(c, n, <<"version">>, "WAIT_PROTOCOL_VERSION")
            /\ minor' = minor
      BY <2>3 DEF ReadUpgrade, ReadPlainRfb
    <3>2. InState(c, "DETECT_WEBSOCKET")
      BY <2>3 DEF ReadUpgrade, ReadPlainRfb
    <3>3. QED
      BY <3>1, <3>2, DetectedSaid
  <2>4. CASE ReadHttp(c) \/ PageFails(c) \/ PageTaken(c)
    BY <2>1, <2>4, PageSteps, SameSaid DEF Waits, clientVars
  <2>5. CASE ~Disconnect(c) /\ ~WriteFails(c) /\ ~ReadUpgrade(c)
             /\ ~ReadPlainRfb(c)
    BY <1>3, <2>2, <2>4, <2>5, VersionSaid, SecuritySaid, ResponseSaid,
       ClientInitSaid, MessageSaid
    DEF Service, ServeError, ReceiveFails, ReadRejected, ReadBadResponse
  <2>6. QED
    BY <2>1, <2>3, <2>5 DEF WriteFails
<1>4. QED
  BY <1>1, <1>2, <1>3, Zenon DEF Next, Server

LEMMA PrefixOfConcat ==
  ASSUME NEW S, NEW s \in Seq(S), NEW u \in Seq(S)
  PROVE  IsPrefix(s, s \o u)
<1>1. Len(s) \in Nat /\ Len(u) \in Nat /\ Len(s \o u) = Len(s) + Len(u)
  BY LenProperties, ConcatProperties
<1>2. SubSeq(s \o u, 1, Len(s)) = s /\ SubSeq(s, 1, Len(s)) = s
  BY SubSeqOfConcat1, SubSeqFull
<1>3. QED
  BY <1>1, <1>2 DEF IsPrefix

(* What was said is the beginning of what the version prescribes.          *)
LEMMA SaidIsPrefix ==
  ASSUME NEW st \in States, NEW m \in Minors,
         st = "WAIT_SECURITY" => m # 3,
         st = "WAIT_VNC_AUTH_RESPONSE" => HasPassword
  PROVE  \E u \in Seq(Messages) : Script(m) = Said(st, m) \o u
<1> DEFINE v == <<"version">>
           i == <<"init">>
           rest == SecurityScript(m)
<1>1. v \in Seq(Messages) /\ i \in Seq(Messages) /\ rest \in Seq(Messages)
  BY Scripts DEF Messages
<1>2. rest \o i \in Seq(Messages) /\ Script(m) = v \o (rest \o i)
  BY <1>1, ConcatProperties, ConcatAssociative DEF Script
<1>3. ASSUME NEW a \in Seq(Messages), NEW b \in Seq(Messages), rest = a \o b
      PROVE  \E u \in Seq(Messages) : Script(m) = (v \o a) \o u
  <2>1. b \o i \in Seq(Messages)
    BY <1>1, ConcatProperties
  <2>2. rest \o i = a \o (b \o i)
    BY <1>1, <1>3, ConcatAssociative
  <2>3. v \o (a \o (b \o i)) = (v \o a) \o (b \o i)
    BY <1>1, <2>1, ConcatAssociative
  <2>4. QED
    BY <1>2, <2>1, <2>2, <2>3
<1>4. CASE st \in {"FREE", "DETECT_WEBSOCKET"}
  <2>1. Said(st, m) = <<>> /\ Script(m) \in Seq(Messages)
    BY <1>1, <1>2, <1>4, ConcatProperties DEF Said
  <2>2. QED
    BY <2>1, ConcatEmptySeq
<1>5. CASE st = "WAIT_PROTOCOL_VERSION"
  BY <1>2, <1>5 DEF Said
<1>6. CASE st = "WAIT_SECURITY"
  <2>1. Said(st, m) = v \o <<"sectypes">>
    BY <1>6 DEF Said
  <2>2. PICK b \in {<<"challenge", "ok">>, <<>>, <<"ok">>} :
          rest = <<"sectypes">> \o b
    BY <1>6, Scripts DEF Minors
  <2>3. b \in Seq(Messages) /\ <<"sectypes">> \in Seq(Messages)
    <3>1. /\ <<"challenge", "ok">> \in Seq(Messages)
          /\ <<"ok">> \in Seq(Messages) /\ <<>> \in Seq(Messages)
          /\ <<"sectypes">> \in Seq(Messages)
      BY DEF Messages
    <3>2. QED
      BY <2>2, <3>1, Zenon
  <2>4. QED
    BY <1>3, <2>1, <2>2, <2>3
<1>7. CASE st = "WAIT_VNC_AUTH_RESPONSE"
  <2> DEFINE a == IF m = 3 THEN <<"sectype", "challenge">>
                  ELSE <<"sectypes", "challenge">>
  <2>1. Said(st, m) = v \o a
    BY <1>7 DEF Said
  <2>2. rest = a \o <<"ok">>
    BY <1>7, Scripts DEF Minors
  <2>3. a \in Seq(Messages) /\ <<"ok">> \in Seq(Messages)
    <3>1. /\ <<"sectype", "challenge">> \in Seq(Messages)
          /\ <<"sectypes", "challenge">> \in Seq(Messages)
          /\ <<"ok">> \in Seq(Messages)
      BY DEF Messages
    <3>2. QED
      BY <3>1
  <2>4. QED
    BY <1>3, <2>1, <2>2, <2>3
<1>8. CASE st = "WAIT_CLIENT_INIT"
  BY <1>1, <1>8 DEF Said, Script
<1>9. CASE st = "NORMAL"
  <2>1. Said(st, m) = Script(m) /\ Script(m) \in Seq(Messages)
    BY <1>1, <1>2, <1>9, ConcatProperties DEF Said
  <2>2. Script(m) \o <<>> = Script(m) /\ <<>> \in Seq(Messages)
    BY <2>1, ConcatEmptySeq
  <2>3. QED
    BY <2>1, <2>2
<1>10. QED
  BY <1>4, <1>5, <1>6, <1>7, <1>8, <1>9 DEF States

(* Every connection has been sent a beginning of the handshake that its    *)
(* version prescribes, and all of it once it is in VNC_STATE_NORMAL,       *)
(* whichever way it took through detection, time-out and the parse loop.   *)
THEOREM HandshakeOrder == Spec => []HandshakeInOrder
<1>1. Init => TypeOK /\ WalkInv /\ HandshakeInv
  <2>1. ASSUME Init
        PROVE  HandshakeInv
    BY <2>1 DEF Init, HandshakeInv, SaidExact, Said
  <2>2. QED
    BY <2>1, TypeInit, WalkInit
<1>2. TypeOK /\ WalkInv /\ HandshakeInv /\ [Next]_vars
        => TypeOK' /\ WalkInv' /\ HandshakeInv'
  BY TypeStep, WalkStep, HandshakeStep
<1>3. TypeOK /\ HandshakeInv => HandshakeInOrder
  <2> SUFFICES ASSUME TypeOK, HandshakeInv, NEW c \in Conns
               PROVE  /\ IsPrefix(sent[c], Script(minor[c]))
                      /\ state[c] = "NORMAL" => sent[c] = Script(minor[c])
    BY DEF HandshakeInOrder
  <2>1. /\ state[c] \in States /\ minor[c] \in Minors
        /\ sent[c] \in Seq(Messages)
    BY DEF TypeOK, ClientTypeOK
  <2>2. SaidExact(c)
    BY DEF HandshakeInv
  <2>3. PICK u \in Seq(Messages) : Script(minor[c]) = sent[c] \o u
    BY <2>1, <2>2, SaidIsPrefix DEF SaidExact
  <2>4. IsPrefix(sent[c], Script(minor[c]))
    BY <2>1, <2>3, PrefixOfConcat
  <2>5. QED
    BY <2>2, <2>4 DEF SaidExact, Said
<1>4. QED
  BY <1>1, <1>2, <1>3, PTL DEF Spec
=============================================================================
