-------------------------- MODULE MCLockoutHistory --------------------------
(***************************************************************************)
(* Instances of LockoutHistory for TLC.                                    *)
(***************************************************************************)
EXTENDS LockoutHistory

CONSTANTS c1, c2, c3, ip1

\* All connections from one address.
OneIp == [c \in Conns |-> ip1]
=============================================================================
