----------------------------- MODULE RfbSession -----------------------------
(***************************************************************************)
(* The server's sessions: vnc_server_poll() accepting, serving and         *)
(* dropping connections, and client_read_handler() taking each of them     *)
(* through WebSocket detection and the RFB handshake to VNC_STATE_NORMAL   *)
(* (src/src/leanrfb.c).                                                    *)
(*                                                                         *)
(* One poll() is several actions, because the peers act between them:      *)
(*                                                                         *)
(*   "app"     outside vnc_server_poll(), in the host application's loop   *)
(*   "detect"  the walk that times out WebSocket detection                 *)
(*   "accept"  poll() has returned; the listening socket is handled        *)
(*   "service" the walk over the clients with the revents of the pollfds   *)
(*   "read"    the parse loop of client_read_handler() for Head(todo)      *)
(*   "http"    in serve_web_client() for Head(todo), whose socket blocks   *)
(*                                                                         *)
(* Bytes are abstracted to units: a unit is what the parser needs next (a  *)
(* version, a security type, a challenge response, a whole message), and   *)
(* the parser, not the sender, decides what a unit says.  A loop may stop  *)
(* at any unit, for what has come so far may be incomplete.                *)
(***************************************************************************)
EXTENDS AuthLockout, SequencesExt

CONSTANTS
  MaxClients,     \* server->max_clients
  HasPassword,    \* server->password is set and not empty
  WebSocket,      \* server->websocket
  KnowsPassword,  \* the connections whose user knows the password
  Versions,       \* the protocol versions the peers speak, by class
  MaxInbox,       \* bound: units a socket's receive queue holds
  ReadBuf         \* VNC_READ_BUF_SIZE, in units

ASSUME SessionAssumption ==
  /\ MaxClients \in Nat
  /\ HasPassword \in BOOLEAN
  /\ WebSocket \in BOOLEAN
  /\ KnowsPassword \subseteq Conns
  /\ Versions \subseteq {3, 7, 8}
  /\ MaxInbox \in Nat
  /\ ReadBuf \in Nat

VARIABLES
  clients,        \* server->clients, the head of the list first
  state,          \* client->state; "FREE" when no struct exists
  minor,          \* client->protocol_minor, by class: 3, 7 or 8
  is_websocket,   \* client->is_websocket /\ client->ws_handshake_done
  buffered,       \* client->read_len
  sent,           \* history: the handshake messages sent to the peer
  link,           \* the TCP connection, as the peer has left it
  inbox,          \* units the peer sent and the server has not received
  phase,          \* where vnc_server_poll() is
  pfds,           \* the connections of pollfd slots 2, 3, ...
  revents,        \* what poll() stored in these slots
  idx,            \* the slot the service walk looks at, counted from 1
  todo,           \* the clients a walk still has to visit
  accepted        \* this poll added a client

netVars == <<link, inbox>>
clientVars == <<clients, state, minor, is_websocket, buffered, sent>>
pollVars == <<phase, pfds, revents, idx, todo, accepted>>
vars == <<authVars, clientVars, netVars, pollVars>>

\* VNC_STATE_PROTOCOL_VERSION is assigned only on the way to
\* VNC_STATE_WAIT_PROTOCOL_VERSION or to a disconnect.
States == {"FREE", "DETECT_WEBSOCKET", "WAIT_PROTOCOL_VERSION",
           "WAIT_SECURITY", "WAIT_VNC_AUTH_RESPONSE", "WAIT_CLIENT_INIT",
           "NORMAL"}
Minors == {3, 7, 8}
Messages == {"version", "sectype", "sectypes", "challenge", "ok", "init"}
Phases == {"app", "detect", "accept", "service", "read", "http"}
Events == {"IN", "ERR"}   \* POLLIN, and POLLERR | POLLHUP | POLLNVAL

ClientTypeOK ==
  /\ clients \in Seq(Conns)
  /\ state \in [Conns -> States]
  /\ minor \in [Conns -> Minors]
  /\ is_websocket \in [Conns -> BOOLEAN]
  /\ buffered \in [Conns -> 0..ReadBuf]
  /\ sent \in [Conns -> Seq(Messages)]

NetTypeOK ==
  /\ link \in [Conns -> {"closed", "backlog", "open", "gone"}]
  /\ inbox \in [Conns -> 0..MaxInbox]

PollTypeOK ==
  /\ phase \in Phases
  /\ pfds \in Seq(Conns)
  /\ revents \in Seq(SUBSET Events)
  /\ Len(revents) = Len(pfds)
  /\ idx \in Nat \ {0}
  /\ todo \in Seq(Conns)
  /\ accepted \in BOOLEAN

(* Types of the state: the buffers within their capacity, one revents per  *)
(* pollfd slot, the rest of a walk a list of connections.                  *)
TypeOK == AuthTypeOK /\ ClientTypeOK /\ NetTypeOK /\ PollTypeOK

Init ==
  /\ AuthInit
  /\ clients = <<>>
  /\ state = [c \in Conns |-> "FREE"]
  /\ minor = [c \in Conns |-> 8]
  /\ is_websocket = [c \in Conns |-> FALSE]
  /\ buffered = [c \in Conns |-> 0]
  /\ sent = [c \in Conns |-> <<>>]
  /\ link = [c \in Conns |-> "closed"]
  /\ inbox = [c \in Conns |-> 0]
  /\ phase = "app"
  /\ pfds = <<>>
  /\ revents = <<>>
  /\ idx = 1
  /\ todo = <<>>
  /\ accepted = FALSE

-----------------------------------------------------------------------------
(* The peers: any of them may connect, send, or close at any time.         *)

PeerConnect(c) ==
  /\ link[c] = "closed"
  /\ link' = [link EXCEPT ![c] = "backlog"]
  /\ UNCHANGED <<authVars, clientVars, inbox, pollVars>>

PeerSend(c) ==
  /\ link[c] = "open"
  /\ inbox[c] < MaxInbox
  /\ inbox' = [inbox EXCEPT ![c] = @ + 1]
  /\ UNCHANGED <<authVars, clientVars, link, pollVars>>

PeerClose(c) ==
  /\ link[c] = "open"
  /\ link' = [link EXCEPT ![c] = "gone"]
  /\ UNCHANGED <<authVars, clientVars, inbox, pollVars>>

-----------------------------------------------------------------------------
(* What the handlers are made of. *)

Unlink(list, c) ==
  IF c \in ToSet(list)
  THEN RemoveAt(list, CHOOSE i \in DOMAIN list : list[i] = c)
  ELSE list

(* vnc_client_disconnect(): out of the list, socket closed, struct freed.  *)
Drop(c) ==
  /\ clients' = Unlink(clients, c)
  /\ state' = [state EXCEPT ![c] = "FREE"]
  /\ minor' = [minor EXCEPT ![c] = 8]
  /\ is_websocket' = [is_websocket EXCEPT ![c] = FALSE]
  /\ buffered' = [buffered EXCEPT ![c] = 0]
  /\ sent' = [sent EXCEPT ![c] = <<>>]
  /\ link' = [link EXCEPT ![c] = "closed"]
  /\ inbox' = [inbox EXCEPT ![c] = 0]

(* The walks save client->next before they handle the client.              *)
VisitNext == todo' = Tail(todo)

FirstSlotAgain ==   \* mutant: idx is not advanced
  /\ phase' = "service"
  /\ VisitNext
  /\ UNCHANGED <<idx, pfds, revents, accepted>>

NextSlot ==
  /\ phase' = "service"
  /\ idx' = idx + 1
  /\ VisitNext
  /\ UNCHANGED <<pfds, revents, accepted>>

(* The client that the parse loop is in, and an exit from that loop        *)
(* through the label disconnect.                                           *)
Reading(c) == phase = "read" /\ todo # <<>> /\ c = Head(todo)

DisconnectKeepsSlot(c) ==   \* mutant: idx is not advanced on this path
  Drop(c) /\ FirstSlotAgain

Disconnect(c) == Drop(c) /\ NextSlot

(* A write fails only on a connection that the peer has left.              *)
WriteFails(c) == link[c] = "gone" /\ Disconnect(c) /\ UNCHANGED authVars

(* A step of the parse loop: n units of the buffer consumed, the messages  *)
(* msgs written, the connection now in state st.                           *)
Parse(c, n, msgs, st) ==
  /\ buffered' = [buffered EXCEPT ![c] = @ - n]
  /\ sent' = [sent EXCEPT ![c] = @ \o msgs]
  /\ state' = [state EXCEPT ![c] = st]
  /\ UNCHANGED <<authVars, clients, netVars, pollVars>>

InState(c, st) == Reading(c) /\ buffered[c] > 0 /\ state[c] = st

-----------------------------------------------------------------------------
(* vnc_server_poll(): before poll() returns. *)

PollBegin ==
  /\ phase = "app"
  /\ phase' = "detect"
  /\ todo' = clients
  /\ UNCHANGED <<authVars, clientVars, netVars, pfds, revents, idx, accepted>>

(* 100 ms without a request: not a browser, so the server speaks first.    *)
DetectTimeout(c) ==
  /\ phase = "detect" /\ todo # <<>> /\ c = Head(todo)
  /\ state[c] = "DETECT_WEBSOCKET"
  /\ VisitNext
  /\ UNCHANGED <<authVars, phase, pfds, revents, idx, accepted>>
  /\ \/ /\ state' = [state EXCEPT ![c] = "WAIT_PROTOCOL_VERSION"]
        /\ sent' = [sent EXCEPT ![c] = Append(@, "version")]
        /\ UNCHANGED <<clients, minor, is_websocket, buffered, netVars>>
     \/ link[c] = "gone" /\ Drop(c)

DetectSkip ==
  /\ phase = "detect" /\ todo # <<>>
  /\ VisitNext
  /\ UNCHANGED <<authVars, clientVars, netVars, phase, pfds, revents, idx,
                 accepted>>

(* poll() on the sockets of the list as it is now.  A peer that is gone    *)
(* makes its socket readable, with or without an error condition.          *)
PollReturns ==
  /\ phase = "detect" /\ todo = <<>>
  /\ pfds' = clients
  /\ revents' \in [1..Len(clients) -> SUBSET Events]
  /\ \A i \in 1..Len(clients) :
       /\ "IN" \in revents'[i] <=>
            inbox[clients[i]] > 0 \/ link[clients[i]] = "gone"
       /\ "ERR" \in revents'[i] => link[clients[i]] = "gone"
  /\ phase' = "accept"
  /\ accepted' = FALSE
  /\ UNCHANGED <<authVars, clientVars, netVars, idx, todo>>

(* EINTR, or no memory for the pollfd array. *)
PollFails ==
  /\ phase = "detect" /\ todo = <<>>
  /\ phase' = "app"
  /\ UNCHANGED <<authVars, clientVars, netVars, pfds, revents, idx, todo,
                 accepted>>

-----------------------------------------------------------------------------
(* vnc_server_poll(): the listening socket. *)

StartService(list) ==
  /\ phase' = "service"
  /\ idx' = 1
  /\ todo' = list
  /\ UNCHANGED <<pfds, revents>>

NoConnection ==
  /\ phase = "accept"
  /\ StartService(clients)
  /\ UNCHANGED <<authVars, clientVars, netVars, accepted>>

AdmitsOneMore(c) ==   \* mutant: <= for <
  Len(pfds) <= MaxClients /\ ~IpIsBlocked(IpOf[c])

(* client_count, counted before poll(), is what the limit is tested on.    *)
Admits(c) == Len(pfds) < MaxClients /\ ~IpIsBlocked(IpOf[c])

Reject(c) ==
  /\ phase = "accept"
  /\ link[c] = "backlog"
  /\ \/ Len(pfds) >= MaxClients /\ UNCHANGED blocked_ips
     \/ /\ Len(pfds) < MaxClients   \* blocked, or out of resources
        /\ DropExpired(IpOf[c])
  /\ link' = [link EXCEPT ![c] = "closed"]
  /\ StartService(clients)
  /\ UNCHANGED <<now, auth_fail_count, auth_first_fail_time, clientVars, inbox,
                 accepted>>

Accept(c) ==
  /\ phase = "accept"
  /\ link[c] = "backlog"
  /\ Admits(c)
  /\ DropExpired(IpOf[c])
  /\ ResetAuth(c)
  /\ link' = [link EXCEPT ![c] = "open"]
  /\ clients' = <<c>> \o clients
  /\ state' = [state EXCEPT ![c] = IF WebSocket THEN "DETECT_WEBSOCKET"
                                   ELSE "WAIT_PROTOCOL_VERSION"]
  /\ sent' = [sent EXCEPT ![c] = IF WebSocket THEN <<>> ELSE <<"version">>]
  /\ StartService(<<c>> \o clients)
  /\ accepted' = TRUE
  /\ UNCHANGED <<now, minor, is_websocket, buffered, inbox>>

-----------------------------------------------------------------------------
(* vnc_server_poll(): the service walk. *)

(* The walk pairs the k-th client of the list with the k-th slot.  After   *)
(* an accept the list is one longer than the array poll() filled: the last *)
(* slot read holds whatever that memory held.                              *)
SlotEvents == IF idx <= Len(pfds) THEN {revents[idx]} ELSE SUBSET Events

Serving(c) == phase = "service" /\ todo # <<>> /\ c = Head(todo)

ServeNothing(c) ==
  /\ Serving(c)
  /\ \E ev \in SlotEvents :
       \/ ev = {}
       \* POLLIN was another client's: recv() says EAGAIN
       \/ "IN" \in ev /\ inbox[c] = 0 /\ link[c] = "open"
  /\ NextSlot
  /\ UNCHANGED <<authVars, clientVars, netVars>>

ServeError(c) ==
  /\ Serving(c)
  /\ {"ERR"} \in SlotEvents
  /\ Disconnect(c)
  /\ UNCHANGED authVars

FitsEmpty(c) == buffered[c] <= ReadBuf   \* mutant: what is received counts 0

Fits(c) == buffered[c] + inbox[c] <= ReadBuf

(* recv() finds the end of the stream, or more than the buffer can take,   *)
(* or a malformed WebSocket frame.                                         *)
ReceiveFails(c) ==
  /\ Serving(c)
  /\ \E ev \in SlotEvents : "IN" \in ev
  /\ \/ link[c] = "gone"
     \/ inbox[c] > 0 /\ ~Fits(c)
     \/ inbox[c] > 0 /\ is_websocket[c]
  /\ Disconnect(c)
  /\ UNCHANGED authVars

Receive(c) ==
  /\ Serving(c)
  /\ \E ev \in SlotEvents : "IN" \in ev
  /\ inbox[c] > 0
  /\ Fits(c)
  /\ buffered' = [buffered EXCEPT ![c] = @ + inbox[c]]
  /\ inbox' = [inbox EXCEPT ![c] = 0]
  /\ phase' = "read"
  /\ UNCHANGED <<authVars, clients, state, minor, is_websocket, sent, link,
                 pfds, revents, idx, todo, accepted>>

(* The update walk that ends a poll writes to clients in NORMAL only and   *)
(* changes none of this module's variables.                                *)
PollEnd ==
  /\ phase = "service" /\ todo = <<>>
  /\ phase' = "app"
  /\ idx' = 1
  /\ pfds' = <<>>
  /\ revents' = <<>>
  /\ accepted' = FALSE
  /\ UNCHANGED <<authVars, clientVars, netVars, todo>>

-----------------------------------------------------------------------------
(* client_read_handler(): one action per branch of the parse loop. *)

(* The buffer is used up, or holds the start of a unit only.               *)
ReadEnds(c) ==
  /\ Reading(c)
  /\ NextSlot
  /\ UNCHANGED <<authVars, clientVars, netVars>>

(* Bytes that a branch does not accept, no entropy, or no memory.  A       *)
(* failed VncAuth response has an action of its own, and detection rejects *)
(* nothing: what is not HTTP is taken for RFB.                             *)
ReadRejected(c) ==
  /\ \E st \in {"WAIT_PROTOCOL_VERSION", "WAIT_SECURITY", "WAIT_CLIENT_INIT",
                "NORMAL"} : InState(c, st)
  /\ Disconnect(c)
  /\ UNCHANGED authVars

(* "GET " without an upgrade: the socket is made blocking and a page is    *)
(* sent, an error's or a file of the web client.  What fits the socket's   *)
(* buffer is sent at once; the rest of a large file keeps                  *)
(* vnc_server_poll() in send(), and nobody is served meanwhile.            *)
ReadHttp(c) ==
  /\ InState(c, "DETECT_WEBSOCKET")
  /\ UNCHANGED authVars
  /\ \/ Disconnect(c)
     \/ /\ phase' = "http"
        /\ UNCHANGED <<clientVars, netVars, pfds, revents, idx, todo, accepted>>

SendingPage(c) == phase = "http" /\ todo # <<>> /\ c = Head(todo)

(* send() fails when the peer closes the connection. *)
PageFails(c) ==
  /\ SendingPage(c)
  /\ link[c] = "gone"
  /\ Disconnect(c)
  /\ UNCHANGED authVars

(* The last send() returns when the peer has read enough of the page: it   *)
(* is the peer's step to take, and it may never take it.                   *)
PageTaken(c) ==
  /\ SendingPage(c)
  /\ link[c] = "open"
  /\ Disconnect(c)
  /\ UNCHANGED authVars

ReadUpgrade(c) ==
  /\ InState(c, "DETECT_WEBSOCKET")
  /\ \/ /\ Parse(c, 1, <<"version">>, "WAIT_PROTOCOL_VERSION")
        /\ is_websocket' = [is_websocket EXCEPT ![c] = TRUE]
        /\ UNCHANGED minor
     \/ WriteFails(c)

(* Not "GET ": a plain RFB client, whose bytes stay for the next state.    *)
ReadPlainRfb(c) ==
  /\ InState(c, "DETECT_WEBSOCKET")
  /\ \/ /\ Parse(c, 0, <<"version">>, "WAIT_PROTOCOL_VERSION")
        /\ UNCHANGED <<minor, is_websocket>>
     \/ WriteFails(c)

(* RFB 3.3 is told the security type; 3.7 and 3.8 are offered a list.      *)
ReadVersion(c) ==
  /\ InState(c, "WAIT_PROTOCOL_VERSION")
  /\ \/ \E m \in Versions :
          /\ minor' = [minor EXCEPT ![c] = m]
          /\ \/ /\ m < 7 /\ HasPassword
                /\ Parse(c, 1, <<"sectype", "challenge">>,
                         "WAIT_VNC_AUTH_RESPONSE")
             \/ /\ m < 7 /\ ~HasPassword
                /\ Parse(c, 1, <<"sectype">>, "WAIT_CLIENT_INIT")
             \/ /\ m >= 7
                /\ Parse(c, 1, <<"sectypes">>, "WAIT_SECURITY")
          /\ UNCHANGED is_websocket
     \/ WriteFails(c)

OffersAny(chosen) == TRUE   \* mutant: the peer's choice is not checked

Offers(chosen) == chosen = IF HasPassword THEN "vncauth" ELSE "none"

SecurityResultFrom37(c) ==   \* mutant
  IF minor[c] >= 7 THEN <<"ok">> ELSE <<>>

(* SecurityResult follows a VncAuth response in every version, the choice  *)
(* of None only in RFB 3.8.                                                *)
SecurityResult(c) ==
  IF HasPassword \/ minor[c] >= 8 THEN <<"ok">> ELSE <<>>

(* The peer's choice: "vncauth" is type 2, "none" type 1.  A type that was *)
(* not offered is ReadRejected.                                            *)
ReadSecurity(c) ==
  /\ InState(c, "WAIT_SECURITY")
  /\ \/ \E chosen \in {"vncauth", "none"} :
          /\ Offers(chosen)
          /\ IF chosen = "vncauth"
             THEN Parse(c, 1, <<"challenge">>, "WAIT_VNC_AUTH_RESPONSE")
             ELSE Parse(c, 1, SecurityResult(c), "WAIT_CLIENT_INIT")
          /\ UNCHANGED <<minor, is_websocket>>
     \/ WriteFails(c)

(* Only a user who knows the password can answer the challenge.            *)
ReadAuthResponse(c) ==
  /\ InState(c, "WAIT_VNC_AUTH_RESPONSE")
  /\ c \in KnowsPassword
  /\ \/ /\ Parse(c, 1, SecurityResult(c), "WAIT_CLIENT_INIT")
        /\ UNCHANGED <<minor, is_websocket>>
     \/ WriteFails(c)

ReadBadResponse(c) ==
  /\ InState(c, "WAIT_VNC_AUTH_RESPONSE")
  /\ RecordAuthFailure(c)
  /\ Disconnect(c)

ReadClientInit(c) ==
  /\ InState(c, "WAIT_CLIENT_INIT")
  /\ \/ /\ Parse(c, 1, <<"init">>, "NORMAL")
        /\ UNCHANGED <<minor, is_websocket>>
     \/ WriteFails(c)

ReadMessage(c) ==
  /\ InState(c, "NORMAL")
  /\ Parse(c, 1, <<>>, "NORMAL")
  /\ UNCHANGED <<minor, is_websocket>>

-----------------------------------------------------------------------------
Peer(c) == PeerConnect(c) \/ PeerSend(c) \/ PeerClose(c)

Tick == ClockTick /\ UNCHANGED <<clientVars, netVars, pollVars>>

Service(c) ==
  \/ ServeNothing(c) \/ ServeError(c) \/ ReceiveFails(c) \/ Receive(c)
  \/ ReadEnds(c) \/ ReadRejected(c) \/ ReadUpgrade(c) \/ ReadPlainRfb(c)
  \/ ReadHttp(c) \/ PageFails(c)
  \/ ReadVersion(c) \/ ReadSecurity(c) \/ ReadAuthResponse(c)
  \/ ReadBadResponse(c) \/ ReadClientInit(c) \/ ReadMessage(c)

Server ==
  \/ PollBegin \/ DetectSkip \/ PollReturns \/ PollFails
  \/ NoConnection \/ PollEnd
  \/ \E c \in Conns : DetectTimeout(c) \/ Reject(c) \/ Accept(c) \/ Service(c)

Next == Server \/ Tick \/ \E c \in Conns : Peer(c) \/ PageTaken(c)

Spec == Init /\ [][Next]_vars

(* The host application calls vnc_server_poll() again and again, and poll() *)
(* is not interrupted every time.  Nothing is asked of the peers: not that *)
(* they stop connecting, nor that they read a page.                        *)
Fairness == WF_vars(Server) /\ SF_vars(PollReturns)

FairSpec == Spec /\ Fairness

-----------------------------------------------------------------------------
(* Properties. *)

(* server->max_clients is never exceeded, although the limit is tested on  *)
(* a count that vnc_server_poll() took before it called poll().            *)
ConnectionLimit == Len(clients) <= MaxClients

(* With a password set, no session gets past the VncAuth response, in any  *)
(* protocol version and by any route through the parse loop, unless its    *)
(* user knows the password.                                                *)
AuthenticatedSession ==
  HasPassword =>
    \A c \in Conns : state[c] \in {"WAIT_CLIENT_INIT", "NORMAL"} =>
                       c \in KnowsPassword

(* What RFB 3.3, 3.7 and 3.8 prescribe that a server sends, by version.    *)
SecurityScript(m) ==
  CASE m = 3 /\ HasPassword  -> <<"sectype", "challenge", "ok">>
    [] m = 3 /\ ~HasPassword -> <<"sectype">>
    [] m # 3 /\ HasPassword  -> <<"sectypes", "challenge", "ok">>
    [] m = 7 /\ ~HasPassword -> <<"sectypes">>
    [] m = 8 /\ ~HasPassword -> <<"sectypes", "ok">>

Script(m) == <<"version">> \o SecurityScript(m) \o <<"init">>

(* Whatever the order of the WebSocket time-out, a late request and        *)
(* pipelined input, a peer is sent each handshake message once and in the  *)
(* order its version prescribes, all of them before the session is normal. *)
HandshakeInOrder ==
  \A c \in Conns :
    /\ IsPrefix(sent[c], Script(minor[c]))
    /\ state[c] = "NORMAL" => sent[c] = Script(minor[c])

(* Whatever clients are dropped while a walk over them runs: the list      *)
(* holds each live client once, and exactly the connections that have a    *)
(* struct and a socket; the pointer that the walk saves (next_client) is   *)
(* never one to a freed struct; and in a poll that adds nobody, the        *)
(* service walk reads each client's own slot, also after clients were      *)
(* dropped earlier in the same walk.                                       *)
WalkSafe ==
  /\ IsInjective(clients)
  /\ \A c \in Conns :
       /\ c \in ToSet(clients) <=> state[c] # "FREE"
       /\ state[c] # "FREE" <=> link[c] \in {"open", "gone"}
  /\ ToSet(todo) \subseteq ToSet(clients)
  /\ IsInjective(todo)
  /\ phase \in {"service", "read", "http"} /\ ~accepted =>
       /\ idx <= Len(pfds) + 1
       /\ todo = SubSeq(pfds, idx, Len(pfds))

(* The two things the server's progress depends on that the peers decide:  *)
(* a page that is being sent is taken, or its connection closed; and polls *)
(* that find no new connection recur, although others may find one.        *)
PagesAreTaken == []<>(phase # "http")
QuietPollsRecur == SF_vars(NoConnection)

(* Where both are so, what a peer has sent is received, or its connection  *)
(* dropped, however many polls serve it from a neighbour's slot.           *)
DataEventuallyRead ==
  PagesAreTaken /\ QuietPollsRecur =>
    \A c \in Conns : inbox[c] > 0 ~> inbox[c] = 0

(* vnc_server_poll() is "Network polling (non-blocking)"                   *)
(* (src/include/leanrfb.h:80): a call of it comes to its end.              *)
PollEnds == phase = "detect" ~> phase = "app"
=============================================================================
