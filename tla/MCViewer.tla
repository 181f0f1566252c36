------------------------------ MODULE MCViewer ------------------------------
(***************************************************************************)
(* The viewer: a desktop that is resized, with its viewers following, and  *)
(* a viewer's sessions and threads.  One behaviour is about either, as     *)
(* they share no state: while one moves the other is in its initial state. *)
(***************************************************************************)
EXTENDS MCDesktopResize, ViewerThreads

ViewerInit == Init /\ ThreadsInit

Resizing(A) == ThreadsInit /\ A /\ UNCHANGED threadVars

RunningThreads == Init /\ ThreadsNext /\ UNCHANGED vars

(* DesktopResize's fairness, where it is the desktop that moves. *)
ResizeFairness ==
  \A c \in Clients :
    /\ WF_vars(Resizing(OnConfigure(c)))
    /\ WF_vars(Resizing(DebounceTimeout(c)))
    /\ WF_vars(Resizing(ApplyRemoteDesktopSize(c)))
    /\ WF_vars(Resizing(ReadSize(c)))
    /\ WF_vars(Resizing(SetEncodings(c)))
    /\ WF_vars(Resizing(SetDesktopSize(c)))
    /\ WF_vars(Resizing(SendUpdate(c)))

ViewerSpec ==
  /\ ViewerInit
  /\ [][Resizing(Next) \/ RunningThreads]_<<vars, threadVars>>
  /\ ResizeFairness /\ ThreadsFairness

TypesOK == TypeOK /\ ThreadsTypeOK
=============================================================================
