--------------------------- MODULE WaylandCapture ---------------------------
(***************************************************************************)
(* The capture of the Wayland host (src/wayland_vnc/wayland_vnc_server.c): *)
(* PipeWire's thread copies each frame of the compositor into a buffer     *)
(* under fb_mutex; the main thread waits for the format, allocates and     *)
(* clears the buffer, without the mutex, and then copies it into the       *)
(* server again and again, under the mutex.                                *)
(*                                                                         *)
(* A row of pixels is the number of the frame it belongs to.  The format   *)
(* is negotiated once: the code has no answer to a second one.  The        *)
(* portal's dialogs, the input and the rest of vnc_server_poll() are left  *)
(* out.                                                                    *)
(***************************************************************************)
EXTENDS Integers

CONSTANTS
  Height,     \* of the screen, in rows
  MaxFrames   \* bound: frames of the compositor

ASSUME CaptureAssumption == Height \in Nat \ {0} /\ MaxFrames \in Nat

VARIABLES
  negotiated,  \* data.negotiated, with the size and format
  frames,      \* frames that the compositor has delivered
  fb,          \* data.fb: a row's frame, Black, or Garbage; Null before
  fb_mutex,    \* who holds it
  pw,          \* what PipeWire's thread is in
  pw_row,      \* the next row it copies
  host,        \* what the main thread is in
  host_row,    \* the next row it clears
  picture,     \* server->framebuffer
  early        \* history: frames delivered before the main loop began

captureVars == <<negotiated, frames, fb, fb_mutex, pw, pw_row, host, host_row,
                 picture, early>>

Lines == 1..Height
Black == 0
Garbage == -1
Null == [r \in {} |-> Black]

CaptureTypeOK ==
  /\ negotiated \in BOOLEAN
  /\ frames \in 0..MaxFrames /\ early \in 0..frames
  /\ fb \in {Null} \cup [Lines -> Garbage..MaxFrames]
  /\ fb_mutex \in {"nobody", "pw", "host"}
  /\ pw \in {"idle", "lock", "copy"} /\ pw_row \in 1..Height + 1
  /\ host \in {"wait", "malloc", "memset", "loop", "update"}
  /\ host_row \in 1..Height + 1
  /\ picture \in [Lines -> Garbage..MaxFrames]

CaptureInit ==
  /\ negotiated = FALSE /\ frames = 0 /\ early = 0
  /\ fb = Null /\ fb_mutex = "nobody"
  /\ pw = "idle" /\ pw_row = 1
  /\ host = "wait" /\ host_row = 1
  /\ picture = [r \in Lines |-> Black]

-----------------------------------------------------------------------------
(* PipeWire's thread. *)

PwStep == UNCHANGED <<host, host_row, picture>>

OnParamChanged ==
  /\ PwStep /\ pw = "idle" /\ ~negotiated
  /\ negotiated' = TRUE
  /\ UNCHANGED <<frames, fb, fb_mutex, pw, pw_row, early>>

(* on_process() with a new frame. *)
OnProcess ==
  /\ PwStep /\ pw = "idle" /\ negotiated /\ frames < MaxFrames
  /\ pw' = "lock"
  /\ frames' = frames + 1
  /\ early' = IF host \in {"loop", "update"} THEN early ELSE frames + 1
  /\ UNCHANGED <<negotiated, fb, fb_mutex, pw_row>>

TakesNoLock == UNCHANGED fb_mutex   \* mutant: the frame is copied without it

TakesLock == fb_mutex = "nobody" /\ fb_mutex' = "pw"

LocksFb ==
  /\ PwStep /\ pw = "lock"
  /\ TakesLock
  /\ pw' = "copy" /\ pw_row' = 1
  /\ UNCHANGED <<negotiated, frames, fb, early>>

CopyRow ==
  /\ PwStep /\ pw = "copy" /\ fb # Null /\ pw_row <= Height
  /\ fb' = [fb EXCEPT ![pw_row] = frames]
  /\ pw_row' = pw_row + 1
  /\ UNCHANGED <<negotiated, frames, fb_mutex, pw, early>>

UnlocksFb ==
  /\ PwStep /\ pw = "copy" /\ (fb = Null \/ pw_row > Height)
  /\ fb_mutex' = IF fb_mutex = "pw" THEN "nobody" ELSE fb_mutex
  /\ pw' = "idle"
  /\ UNCHANGED <<negotiated, frames, fb, pw_row, early>>

-----------------------------------------------------------------------------
(* The main thread. *)

HostStep == UNCHANGED <<negotiated, frames, pw, pw_row, early>>

WaitsForFormat ==
  /\ HostStep /\ host = "wait" /\ negotiated
  /\ host' = "malloc"
  /\ UNCHANGED <<fb, fb_mutex, host_row, picture>>

AllocatesFb ==
  /\ HostStep /\ host = "malloc"
  /\ fb' = [r \in Lines |-> Garbage]
  /\ host' = "memset"
  /\ UNCHANGED <<fb_mutex, host_row, picture>>

(* memset(), and the server is created. *)
ClearsFb ==
  /\ HostStep /\ host = "memset"
  /\ \/ /\ host_row <= Height
        /\ fb' = [fb EXCEPT ![host_row] = Black]
        /\ host_row' = host_row + 1
        /\ UNCHANGED host
     \/ /\ host_row > Height
        /\ host' = "loop"
        /\ UNCHANGED <<fb, host_row>>
  /\ UNCHANGED <<fb_mutex, picture>>

(* One turn of the main loop; the lock is taken, and the copy made.        *)
LocksForUpdate ==
  /\ HostStep /\ host = "loop" /\ fb_mutex = "nobody"
  /\ fb_mutex' = "host"
  /\ host' = "update"
  /\ UNCHANGED <<fb, host_row, picture>>

UpdatesServer ==
  /\ HostStep /\ host = "update"
  /\ picture' = fb
  /\ fb_mutex' = "nobody"
  /\ host' = "loop"
  /\ UNCHANGED <<fb, host_row>>

-----------------------------------------------------------------------------
PipeWire == OnParamChanged \/ OnProcess \/ LocksFb \/ CopyRow \/ UnlocksFb

HostLoop ==
  WaitsForFormat \/ AllocatesFb \/ ClearsFb \/ LocksForUpdate \/ UpdatesServer

CaptureNext == PipeWire \/ HostLoop

CaptureSpec == CaptureInit /\ [][CaptureNext]_captureVars

-----------------------------------------------------------------------------
(* What the server is given to show is one frame of the compositor, never  *)
(* rows of two, and never memory that was not cleared.  (A frame copied    *)
(* while the buffer is being cleared is shown as far as it was spared,     *)
(* until the next one comes.)                                              *)
WholePicture ==
  \/ \E n \in early + 1..frames : picture = [r \in Lines |-> n]
  \/ \A r \in Lines : picture[r] \in Black..early
=============================================================================
