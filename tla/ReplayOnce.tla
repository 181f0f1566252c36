----------------------------- MODULE ReplayOnce -----------------------------
(***************************************************************************)
(* What anti-replay protection of a datagram channel promises: of the      *)
(* packets sent under one key, each packet number is accepted at most      *)
(* once, in any order of arrival, and the only numbers refused without     *)
(* having been accepted are those W or more behind a number accepted.      *)
(***************************************************************************)
EXTENDS Naturals

CONSTANTS
  W,        \* how far behind the newest accepted number a packet may be
  Counters  \* the packet numbers

VARIABLES
  accepted, \* the numbers accepted under the present key
  verdict   \* the last packet's number, and whether it was accepted

Init == accepted = {} /\ verdict = <<0, FALSE>>

TooOld(n) == \E m \in accepted : m >= n + W

Accept(n) ==
  /\ n \notin accepted
  /\ ~TooOld(n)
  /\ accepted' = accepted \cup {n}
  /\ verdict' = <<n, TRUE>>

Refuse(n) ==
  /\ n \in accepted \/ TooOld(n)
  /\ verdict' = <<n, FALSE>>
  /\ UNCHANGED accepted

NewKey == accepted' = {} /\ verdict' = <<0, FALSE>>

Next == NewKey \/ \E n \in Counters : Accept(n) \/ Refuse(n)

Spec == Init /\ [][Next]_<<accepted, verdict>>
=============================================================================
