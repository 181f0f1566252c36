------------------------------- MODULE MCEnds -------------------------------
(***************************************************************************)
(* What the ends of a session do: the server's sound, the clipboards of    *)
(* both, the parser of the viewer in a browser, and the capture of the     *)
(* Wayland host.  One behaviour is about one of them, as they share no     *)
(* state: while one moves the others are in their initial states.          *)
(***************************************************************************)
EXTENDS AudioStream, ClipboardSync, WebViewer, WaylandCapture

CONSTANTS s16, u8, s8, v1, v2

\* PulseAudio has no signed 8-bit samples: the server records S16 for them.
Recorded == [f \in Formats |-> IF f = s8 THEN s16 ELSE f]

EndsInit == Init /\ ClipboardInit /\ WebInit /\ CaptureInit

Sound ==
  /\ ClipboardInit /\ WebInit /\ CaptureInit
  /\ Next
  /\ UNCHANGED <<clipboardVars, webVars, captureVars>>

CopiedTexts ==
  /\ Init /\ WebInit /\ CaptureInit
  /\ ClipboardNext
  /\ UNCHANGED <<vars, webVars, captureVars>>

Browser ==
  /\ Init /\ ClipboardInit /\ CaptureInit
  /\ WebNext
  /\ UNCHANGED <<vars, clipboardVars, captureVars>>

Screen ==
  /\ Init /\ ClipboardInit /\ WebInit
  /\ CaptureNext
  /\ UNCHANGED <<vars, clipboardVars, webVars>>

EndsSpec ==
  /\ EndsInit
  /\ [][Sound \/ CopiedTexts \/ Browser \/ Screen]_<<vars, clipboardVars, webVars, captureVars>>
  /\ Fairness /\ LiveSource

TypesOK == TypeOK /\ ClipboardTypeOK /\ WebTypeOK /\ CaptureTypeOK
=============================================================================
