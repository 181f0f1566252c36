---------------------------- MODULE MessageStream ----------------------------
(***************************************************************************)
(* What an output channel promises the code that writes messages to it,    *)
(* and the peer: whatever is written is read once, in the order it was     *)
(* written, however little of it the connection takes at a time; and in    *)
(* the end all of it is read.                                              *)
(***************************************************************************)
EXTENDS SequencesExt

CONSTANT Limit   \* how much is written at most

VARIABLES
  stream,   \* what has been written
  got       \* what the peer has read

Init == stream = <<>> /\ got = <<>>

(* More is written, or read, or both. *)
Next ==
  /\ IsPrefix(stream, stream')
  /\ IsPrefix(got, got')
  /\ IsPrefix(got', stream')

EventuallyRead ==
  \A n \in 1..Limit : (Len(stream) >= n) ~> (Len(got) >= n)

Spec == Init /\ [][Next]_<<stream, got>> /\ EventuallyRead
=============================================================================
