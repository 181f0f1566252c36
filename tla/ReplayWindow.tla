---------------------------- MODULE ReplayWindow ----------------------------
(***************************************************************************)
(* The sliding anti-replay window of the encrypted UDP transport:          *)
(* vnc_udp_replay_check() of src/src/leanrfb_udp.c, which                  *)
(* udp_replay_check() of src/vncview/vncview.c repeats for the other       *)
(* direction.  The 64-bit bitmap is the set of its one bits; shifting it   *)
(* left by s adds s to each bit and loses those that reach W.              *)
(*                                                                         *)
(* Packets come in any order and any number of times: the network and its  *)
(* users are not restricted.                                               *)
(***************************************************************************)
EXTENDS Naturals

CONSTANTS
  W,        \* the width of the bitmap: 64
  Counters  \* the packet numbers, a bounded part of the 64-bit range in TLC

ASSUME WindowAssumption ==
  /\ W \in Nat \ {0}
  /\ Counters \subseteq Nat

VARIABLES
  highest,  \* st->highest
  bitmap,   \* st->bitmap: bit a stands for the number highest - a
  accepted, \* history: the numbers the function returned 1 for
  verdict   \* history: the last call's number, and whether it returned 1

vars == <<highest, bitmap, accepted, verdict>>

Bits == 0 .. W - 1

TypeOK ==
  /\ highest \in Nat
  /\ bitmap \subseteq Bits
  /\ accepted \subseteq Counters
  /\ verdict \in Nat \X BOOLEAN

Init ==
  /\ highest = 0
  /\ bitmap = {}
  /\ accepted = {}
  /\ verdict = <<0, FALSE>>

-----------------------------------------------------------------------------
ShiftNone(bits, s) == bits   \* mutant: the bitmap does not follow highest

ShiftLeft(bits, s) == {a \in Bits : a >= s /\ a - s \in bits}

Accepted(n) == accepted' = accepted \cup {n} /\ verdict' = <<n, TRUE>>
Refused(n)  == accepted' = accepted /\ verdict' = <<n, FALSE>>

(* A number above every earlier one moves the window. *)
Advance(n) ==
  /\ n > highest
  /\ highest' = n
  /\ bitmap' = {0} \cup IF n - highest >= W THEN {}
                        ELSE ShiftLeft(bitmap, n - highest)
  /\ Accepted(n)

TooOldPast(n) == highest - n > W   \* mutant: > for >=

TooOld(n) == highest - n >= W

Late(n) ==
  /\ n <= highest
  /\ ~TooOld(n)
  /\ highest - n \notin bitmap
  /\ bitmap' = bitmap \cup {highest - n}
  /\ Accepted(n)
  /\ UNCHANGED highest

Discard(n) ==
  /\ n <= highest
  /\ TooOld(n) \/ highest - n \in bitmap
  /\ Refused(n)
  /\ UNCHANGED <<highest, bitmap>>

ReplayCheck(n) == Advance(n) \/ Late(n) \/ Discard(n)

(* A new UDP setup: fresh key, window cleared. *)
NewKey ==
  /\ highest' = 0
  /\ bitmap' = {}
  /\ accepted' = {}
  /\ verdict' = <<0, FALSE>>

Next == NewKey \/ \E n \in Counters : ReplayCheck(n)

Spec == Init /\ [][Next]_vars

-----------------------------------------------------------------------------
(* Properties. *)

(* No number is accepted twice under one key, and none inside the window   *)
(* is refused the first time: the window is an implementation of           *)
(* ReplayOnce.                                                             *)
Abstract ==
  INSTANCE ReplayOnce WITH W <- W, Counters <- Counters,
                           accepted <- accepted, verdict <- verdict
ImplementsReplayOnce == Abstract!Spec

(* The bitmap is exactly what has been accepted in the last W numbers, so  *)
(* that no packet number is forgotten while it can still be accepted.      *)
WindowExact ==
  /\ \A n \in accepted : n <= highest
  /\ highest # 0 => highest \in accepted
  /\ \A a \in Bits : a \in bitmap <=> a <= highest /\ highest - a \in accepted
=============================================================================
