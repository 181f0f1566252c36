----------------------------- MODULE MCChannels -----------------------------
(***************************************************************************)
(* The two channels of a session: the buffered TCP connection that the     *)
(* server writes messages to, and the datagrams with their anti-replay     *)
(* window.  One behaviour is about either of them, as they share no state. *)
(***************************************************************************)
EXTENDS ClientOutput, ReplayWindow

ChannelsInit == OutputInit /\ Init

(* The frames that come between the writes of handlers; the others come to *)
(* a connection that nothing is written to, cut in every way.              *)
Between ==
  /\ Len(frames) <= 1
  /\ \A i \in DOMAIN frames : /\ frames[i].ext + frames[i].mask = 0
                              /\ frames[i].len = 1

Messages ==
  Init /\ OutputNext /\ (Between \/ UNCHANGED outVars) /\ UNCHANGED vars

Datagrams ==
  /\ OutputInit /\ ~is_websocket
  /\ Next /\ UNCHANGED outputVars

ChannelsSpec ==
  /\ ChannelsInit
  /\ [][Messages \/ Datagrams]_<<outputVars, vars>>
  /\ OutputFairness

TypesOK == OutputTypeOK /\ TypeOK
=============================================================================
