---------------------------- MODULE MCRfbSession ----------------------------
(***************************************************************************)
(* Instances of RfbSession for TLC.                                        *)
(***************************************************************************)
EXTENDS RfbSession

CONSTANTS c1, c2, c3, ip1

\* All connections from one address; the first user knows the password.
OneIp == [c \in Conns |-> ip1]
FirstKnows == {c1}

(* What the peers have sent and the server has not yet used is at most one *)
(* response each.                                                          *)
ResponsesOnly ==
  \A c \in Conns :
    \/ inbox[c] + buffered[c] = 0
    \/ inbox[c] + buffered[c] = 1 /\ state[c] = "WAIT_VNC_AUTH_RESPONSE"

(* Two connections that do anything, and a third.  Bound: while the third  *)
(* is there, and once the clock has advanced, nothing but responses is on  *)
(* its way.                                                                *)
Bounded ==
  \/ link[c3] = "closed" /\ now = 0
  \/ ResponsesOnly
=============================================================================
