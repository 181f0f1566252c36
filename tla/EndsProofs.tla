----------------------------- MODULE EndsProofs -----------------------------
(***************************************************************************)
(* What holds of the ends of a session: the Wayland host's capture, for    *)
(* any screen and any number of frames; the server's sound, for any        *)
(* formats, ring and number of chunks; the clipboards, for any viewers,    *)
(* texts and number of copies; and the browser's parser, for any cuts of   *)
(* the stream and any number of messages and connections.                  *)
(***************************************************************************)
EXTENDS AudioStream, ClipboardSync, WaylandCapture, WebViewer, SteppingProofs,
        FiniteSetTheorems, SequenceTheorems, TLAPS

-----------------------------------------------------------------------------
(* WaylandCapture.  While one thread copies, the mutex keeps the other out *)
(* of the buffer; but not while the main thread clears it.                 *)

USE CaptureAssumption

InLoop == host \in {"loop", "update"}

MutexHeld ==
  /\ fb_mutex = "host" <=> host = "update"
  /\ fb_mutex = "pw" <=> pw = "copy"

(* Rows of one frame, or of what was there when the main loop began.       *)
WholeRows(rows, f) ==
  \/ \E n \in early + 1..frames : \A r \in rows : f[r] = n
  \/ \A r \in rows : f[r] \in Black..early

(* Before the main loop all frames are early ones; then the buffer is      *)
(* whole, but for the frame that PipeWire's thread is in the middle of.    *)
Buffer ==
  /\ ~InLoop => early = frames
  /\ host \in {"wait", "malloc"} => fb = Null /\ host_row = 1
  /\ host \in {"memset", "loop", "update"} => fb \in [Lines -> Garbage..MaxFrames]
  /\ host = "memset" =>
       \A r \in Lines : /\ fb[r] \in Garbage..early
                        /\ r < host_row => fb[r] # Garbage
  /\ InLoop =>
       IF pw = "copy" /\ frames > early
       THEN /\ \A r \in 1..pw_row - 1 : fb[r] = frames
            /\ WholeRows(pw_row..Height, fb)
       ELSE WholeRows(Lines, fb)

CaptureInv ==
  CaptureTypeOK /\ MutexHeld /\ Buffer /\ WholeRows(Lines, picture)

LEMMA NullIsNoBuffer == Null \notin [Lines -> Garbage..MaxFrames]
<1>1. DOMAIN Null = {} /\ 1 \in Lines
  BY DEF Null, Lines
<1>2. \A f \in [Lines -> Garbage..MaxFrames] : DOMAIN f = Lines
  OBVIOUS
<1>3. QED
  BY <1>1, <1>2

(* The rows of the buffer, where there is one, hold frames or less.         *)
LEMMA RowsTyped ==
  ASSUME CaptureInv, host \in {"memset", "loop", "update"}
  PROVE  /\ fb \in [Lines -> Garbage..MaxFrames] /\ fb # Null
         /\ frames \in Nat /\ early \in Nat /\ early <= frames
         /\ frames <= MaxFrames /\ MaxFrames \in Nat
<1>1. fb \in [Lines -> Garbage..MaxFrames]
  BY DEF CaptureInv, Buffer
<1>2. fb # Null
  BY <1>1, NullIsNoBuffer
<1>3. frames \in 0..MaxFrames /\ early \in 0..frames
  BY DEF CaptureInv, CaptureTypeOK
<1>4. QED
  BY <1>1, <1>2, <1>3

LEMMA FormatCapture ==
  ASSUME CaptureInv, OnParamChanged \/ WaitsForFormat \/ UNCHANGED captureVars
  PROVE  CaptureInv'
<1> USE DEF CaptureInv, CaptureTypeOK, MutexHeld, Buffer, WholeRows, InLoop
<1>1. CASE OnParamChanged
  BY <1>1 DEF OnParamChanged, PwStep
<1>2. CASE WaitsForFormat
  BY <1>2 DEF WaitsForFormat, HostStep
<1>3. CASE UNCHANGED captureVars
  BY <1>3 DEF captureVars
<1>4. QED
  BY <1>1, <1>2, <1>3

(* A new frame: an early one until the main loop has begun.                *)
LEMMA NewFrame ==
  ASSUME CaptureInv, OnProcess
  PROVE  CaptureInv'
<1>1. /\ frames \in 0..MaxFrames /\ early \in 0..frames /\ frames < MaxFrames
      /\ frames' = frames + 1 /\ pw = "idle" /\ pw' = "lock"
      /\ early' = IF InLoop THEN early ELSE frames + 1
      /\ UNCHANGED <<negotiated, fb, fb_mutex, pw_row, host, host_row, picture>>
  BY DEF OnProcess, PwStep, CaptureInv, CaptureTypeOK, InLoop
<1>2. frames' \in 0..MaxFrames /\ early' \in 0..frames' /\ early <= early'
  BY <1>1
<1>3. CaptureTypeOK' /\ MutexHeld'
  BY <1>1, <1>2 DEF CaptureInv, CaptureTypeOK, MutexHeld
<1>4. ASSUME NEW f, WholeRows(Lines, f), InLoop \/ early = frames
      PROVE  WholeRows(Lines, f)'
  <2>1. CASE InLoop
    <3>1. early' = early /\ early + 1..frames \subseteq early' + 1..frames'
      BY <1>1, <2>1
    <3>2. QED
      BY <1>4, <3>1 DEF WholeRows
  <2>2. CASE early = frames
    <3>1. early + 1..frames = {}
      BY <1>1, <2>2
    <3>2. \A r \in Lines : f[r] \in Black..early
      BY <1>4, <3>1 DEF WholeRows
    <3>3. Black..early \subseteq Black..early'
      BY <1>1, <1>2 DEF Black
    <3>4. QED
      BY <3>2, <3>3 DEF WholeRows
  <2>3. QED
    BY <1>4, <2>1, <2>2
<1>5. WholeRows(Lines, picture)'
  BY <1>1, <1>4 DEF CaptureInv, Buffer
<1>6. InLoop => WholeRows(Lines, fb)'
  BY <1>1, <1>4 DEF CaptureInv, Buffer
<1>7. host = "memset" =>
        \A r \in Lines : /\ fb[r] \in Garbage..early'
                         /\ r < host_row => fb[r] # Garbage
  <2>1. Garbage..early \subseteq Garbage..early'
    BY <1>1, <1>2 DEF Garbage
  <2>2. QED
    BY <2>1 DEF CaptureInv, Buffer
<1>8. Buffer'
  BY <1>1, <1>6, <1>7 DEF CaptureInv, Buffer, InLoop
<1>9. QED
  BY <1>1, <1>3, <1>5, <1>8 DEF CaptureInv

LEMMA LockCapture ==
  ASSUME CaptureInv, LocksFb
  PROVE  CaptureInv'
<1>1. /\ pw = "lock" /\ pw' = "copy" /\ pw_row' = 1
      /\ fb_mutex = "nobody" /\ fb_mutex' = "pw"
      /\ UNCHANGED <<negotiated, frames, fb, early, host, host_row, picture>>
  BY DEF LocksFb, TakesLock, PwStep
<1>2. CaptureTypeOK' /\ MutexHeld'
  BY <1>1 DEF CaptureInv, CaptureTypeOK, MutexHeld
<1>3. WholeRows(Lines, picture)'
  BY <1>1 DEF CaptureInv, WholeRows
<1>4. InLoop => WholeRows(1..Height, fb)'
  BY <1>1 DEF CaptureInv, Buffer, WholeRows, Lines
<1>5. Buffer'
  BY <1>1, <1>4 DEF CaptureInv, Buffer, InLoop, Lines
<1>6. QED
  BY <1>2, <1>3, <1>5 DEF CaptureInv

(* The next row takes the frame's number; the rows before it have it.      *)
LEMMA RowCapture ==
  ASSUME CaptureInv, CopyRow
  PROVE  CaptureInv'
<1>1. /\ pw = "copy" /\ fb # Null /\ pw_row \in 1..Height
      /\ fb' = [fb EXCEPT ![pw_row] = frames]
      /\ pw_row' = pw_row + 1 /\ pw_row' \in 1..Height + 1
      /\ UNCHANGED <<negotiated, frames, fb_mutex, pw, early, host, host_row,
                     picture>>
  BY DEF CopyRow, PwStep, CaptureInv, CaptureTypeOK
<1>2. /\ frames \in Nat /\ early \in Nat /\ early <= frames
      /\ frames <= MaxFrames
      /\ fb \in [Lines -> Garbage..MaxFrames]
  BY <1>1 DEF CaptureInv, CaptureTypeOK
<1>3. host \in {"memset", "loop", "update"}
  BY <1>1 DEF CaptureInv, CaptureTypeOK, Buffer
<1>4. /\ fb' \in [Lines -> Garbage..MaxFrames]
      /\ fb'[pw_row] = frames
      /\ \A r \in Lines : r # pw_row => fb'[r] = fb[r]
  BY <1>1, <1>2 DEF Garbage, Lines
<1>5. CaptureTypeOK' /\ MutexHeld'
  BY <1>1, <1>4 DEF CaptureInv, CaptureTypeOK, MutexHeld
<1>6. WholeRows(Lines, picture)'
  BY <1>1 DEF CaptureInv, WholeRows
<1>7. ASSUME host = "memset"
      PROVE  \A r \in Lines : /\ fb'[r] \in Garbage..early
                              /\ r < host_row => fb'[r] # Garbage
  <2>1. frames = early
    BY <1>7 DEF CaptureInv, Buffer, InLoop
  <2>2. frames \in Garbage..early /\ frames # Garbage
    BY <1>2, <2>1 DEF Garbage
  <2>3. \A r \in Lines : /\ fb[r] \in Garbage..early
                         /\ r < host_row => fb[r] # Garbage
    BY <1>7 DEF CaptureInv, Buffer
  <2>4. QED
    BY <1>4, <2>2, <2>3
<1>8. ASSUME InLoop, frames > early
      PROVE  /\ \A r \in 1..pw_row' - 1 : fb'[r] = frames
             /\ WholeRows(pw_row..Height, fb)'
  <2>1. /\ \A r \in 1..pw_row - 1 : fb[r] = frames
        /\ WholeRows(pw_row..Height, fb)
    BY <1>1, <1>8 DEF CaptureInv, Buffer
  <2>2. \A r \in 1..pw_row' - 1 : r \in Lines /\ (r = pw_row \/ r \in 1..pw_row - 1)
    BY <1>1 DEF Lines
  <2>3. \A r \in 1..pw_row' - 1 : fb'[r] = frames
    BY <1>4, <2>1, <2>2
  <2>4. \A r \in pw_row'..Height : r \in Lines /\ r # pw_row /\ r \in pw_row..Height
    BY <1>1 DEF Lines
  <2>5. \A r \in pw_row'..Height : fb'[r] = fb[r]
    BY <1>4, <2>4
  <2>6. pw_row'..Height \subseteq pw_row..Height
    BY <1>1
  <2>7. /\ WholeRows(pw_row'..Height, fb)
        /\ frames' = frames /\ early' = early
    BY <1>1, <2>1, <2>6 DEF WholeRows
  <2>8. WholeRows(pw_row..Height, fb)'
    <3> DEFINE rest == pw_row'..Height
    <3>1. \A r \in rest : fb'[r] = fb[r]
      BY <2>5
    <3>2. \/ \E n \in early + 1..frames : \A r \in rest : fb[r] = n
          \/ \A r \in rest : fb[r] \in Black..early
      BY <2>7 DEF WholeRows
    <3> HIDE DEF rest
    <3>3. \/ \E n \in early + 1..frames : \A r \in rest : fb'[r] = n
          \/ \A r \in rest : fb'[r] \in Black..early
      BY <3>1, <3>2
    <3>4. QED
      BY <2>7, <3>3 DEF rest, WholeRows
  <2>9. QED
    BY <2>3, <2>8
<1>9. ASSUME InLoop, ~(frames > early)
      PROVE  WholeRows(Lines, fb)'
  <2>1. frames = early /\ early + 1..frames = {}
    BY <1>2, <1>9
  <2>2. \A r \in Lines : fb[r] \in Black..early
    BY <1>9, <2>1 DEF CaptureInv, Buffer, WholeRows
  <2>3. frames \in Black..early
    BY <1>2, <2>1 DEF Black
  <2>4. \A r \in Lines : fb'[r] \in Black..early
    BY <1>4, <2>1, <2>2, <2>3
  <2>5. QED
    BY <1>1, <2>4 DEF WholeRows
<1>10. ~InLoop => early = frames
  BY DEF CaptureInv, Buffer
<1>11. /\ pw' = pw /\ host' = host /\ frames' = frames /\ early' = early
       /\ host_row' = host_row
  BY <1>1
<1>12. Buffer'
  <2>1. InLoop' <=> InLoop
    BY <1>11 DEF InLoop
  <2>2. InLoop' =>
           IF pw' = "copy" /\ frames' > early'
           THEN /\ \A r \in 1..pw_row' - 1 : fb'[r] = frames'
                /\ WholeRows(pw_row..Height, fb)'
           ELSE WholeRows(Lines, fb)'
    BY <1>1, <1>8, <1>9, <1>11, <2>1
  <2>3. host' = "memset" =>
           \A r \in Lines : /\ fb'[r] \in Garbage..early'
                            /\ r < host_row' => fb'[r] # Garbage
    BY <1>7, <1>11
  <2>4. (~InLoop => early = frames)' /\ (host \in {"wait", "malloc"} => fb = Null /\ host_row = 1)'
    BY <1>3, <1>10, <1>11, <2>1
  <2>5. QED
    BY <1>4, <2>2, <2>3, <2>4 DEF Buffer
<1>13. QED
  BY <1>5, <1>6, <1>12 DEF CaptureInv

(* The whole frame is in the buffer, or there is no buffer yet.             *)
LEMMA UnlockCapture ==
  ASSUME CaptureInv, UnlocksFb
  PROVE  CaptureInv'
<1>1. /\ pw = "copy" /\ pw' = "idle" /\ (fb = Null \/ pw_row > Height)
      /\ pw_row \in 1..Height + 1
      /\ fb_mutex = "pw" /\ fb_mutex' = "nobody"
      /\ UNCHANGED <<negotiated, frames, fb, pw_row, early, host, host_row,
                     picture>>
  BY DEF UnlocksFb, PwStep, CaptureInv, CaptureTypeOK, MutexHeld
<1>2. CaptureTypeOK' /\ MutexHeld'
  BY <1>1 DEF CaptureInv, CaptureTypeOK, MutexHeld
<1>3. WholeRows(Lines, picture)'
  BY <1>1 DEF CaptureInv, WholeRows
<1>4. InLoop => WholeRows(Lines, fb)
  <2> SUFFICES ASSUME InLoop PROVE WholeRows(Lines, fb)
    OBVIOUS
  <2>1. fb # Null /\ frames \in Nat /\ early \in Nat
    BY RowsTyped DEF InLoop
  <2>2. CASE frames > early
    <3>1. \A r \in 1..pw_row - 1 : fb[r] = frames
      BY <1>1, <2>2 DEF CaptureInv, Buffer
    <3>2. 1..pw_row - 1 = Lines /\ frames \in early + 1..frames
      BY <1>1, <2>1, <2>2 DEF Lines
    <3>3. QED
      BY <3>1, <3>2 DEF WholeRows
  <2>3. CASE ~(frames > early)
    BY <2>3 DEF CaptureInv, Buffer
  <2>4. QED
    BY <2>2, <2>3
<1>5. Buffer'
  BY <1>1, <1>4 DEF CaptureInv, Buffer, InLoop, WholeRows
<1>6. QED
  BY <1>2, <1>3, <1>5 DEF CaptureInv

LEMMA AllocateCapture ==
  ASSUME CaptureInv, AllocatesFb
  PROVE  CaptureInv'
<1>1. /\ host = "malloc" /\ host' = "memset"
      /\ fb' = [r \in Lines |-> Garbage] /\ host_row' = host_row
      /\ UNCHANGED <<negotiated, frames, pw, pw_row, early, fb_mutex, picture>>
  BY DEF AllocatesFb, HostStep
<1>2. early = frames /\ early \in Nat /\ MaxFrames \in Nat
  BY <1>1 DEF CaptureInv, Buffer, InLoop, CaptureTypeOK
<1>3. fb' \in [Lines -> Garbage..MaxFrames]
  BY <1>1, <1>2 DEF Garbage
<1>4. CaptureTypeOK' /\ MutexHeld'
  BY <1>1, <1>3 DEF CaptureInv, CaptureTypeOK, MutexHeld
<1>5. WholeRows(Lines, picture)'
  BY <1>1 DEF CaptureInv, WholeRows
<1>6. host_row = 1
  BY <1>1 DEF CaptureInv, Buffer
<1>7. Buffer'
  BY <1>1, <1>2, <1>3, <1>6 DEF Buffer, InLoop, Garbage, Lines
<1>8. QED
  BY <1>4, <1>5, <1>7 DEF CaptureInv

(* memset() makes the rows black, and the server is created when all are.  *)
LEMMA ClearCapture ==
  ASSUME CaptureInv, ClearsFb
  PROVE  CaptureInv'
<1>1. /\ host = "memset" /\ host_row \in 1..Height + 1
      /\ UNCHANGED <<negotiated, frames, pw, pw_row, early, fb_mutex, picture>>
  BY DEF ClearsFb, HostStep, CaptureInv, CaptureTypeOK
<1>2. /\ early = frames /\ early \in Nat /\ early <= MaxFrames
      /\ fb \in [Lines -> Garbage..MaxFrames]
      /\ \A r \in Lines : /\ fb[r] \in Garbage..early
                          /\ r < host_row => fb[r] # Garbage
  BY <1>1, RowsTyped DEF CaptureInv, Buffer, InLoop
<1>3. WholeRows(Lines, picture)'
  BY <1>1 DEF CaptureInv, WholeRows
<1>4. CASE /\ host_row <= Height /\ host' = host
           /\ fb' = [fb EXCEPT ![host_row] = Black] /\ host_row' = host_row + 1
  <2>1. /\ fb' \in [Lines -> Garbage..MaxFrames]
        /\ \A r \in Lines : fb'[r] = IF r = host_row THEN Black ELSE fb[r]
    BY <1>1, <1>2, <1>4 DEF Garbage, Black, Lines
  <2>2. \A r \in Lines : /\ fb'[r] \in Garbage..early
                         /\ r < host_row + 1 => fb'[r] # Garbage
    <3>1. TAKE r \in Lines
    <3>2. CASE r = host_row
      BY <1>2, <2>1, <3>2 DEF Garbage, Black
    <3>3. CASE r # host_row
      <4>1. r < host_row + 1 => r < host_row
        BY <1>1, <3>3 DEF Lines
      <4>2. fb'[r] = fb[r]
        BY <2>1, <3>3
      <4>3. QED
        BY <1>2, <4>1, <4>2
    <3>4. QED
      BY <3>2, <3>3
  <2>3. CaptureTypeOK' /\ MutexHeld'
    BY <1>1, <1>4, <2>1 DEF CaptureInv, CaptureTypeOK, MutexHeld
  <2>4. Buffer'
    BY <1>1, <1>2, <1>4, <2>1, <2>2 DEF Buffer, InLoop
  <2>5. QED
    BY <1>3, <2>3, <2>4 DEF CaptureInv
<1>5. CASE host_row > Height /\ host' = "loop" /\ fb' = fb /\ host_row' = host_row
  <2>1. \A r \in Lines : fb[r] \in Black..early
    BY <1>1, <1>2, <1>5 DEF Garbage, Black, Lines
  <2>2. WholeRows(Lines, fb)'
    BY <1>1, <1>5, <2>1 DEF WholeRows
  <2>3. CaptureTypeOK' /\ MutexHeld'
    BY <1>1, <1>5 DEF CaptureInv, CaptureTypeOK, MutexHeld
  <2>4. Buffer'
    BY <1>1, <1>2, <1>5, <2>2 DEF Buffer, InLoop
  <2>5. QED
    BY <1>3, <2>3, <2>4 DEF CaptureInv
<1>6. QED
  BY <1>1, <1>4, <1>5 DEF ClearsFb

LEMMA LockForUpdate ==
  ASSUME CaptureInv, LocksForUpdate
  PROVE  CaptureInv'
<1>1. /\ host = "loop" /\ host' = "update"
      /\ fb_mutex = "nobody" /\ fb_mutex' = "host"
      /\ UNCHANGED <<negotiated, frames, pw, pw_row, early, fb, host_row, picture>>
  BY DEF LocksForUpdate, HostStep
<1>2. CaptureTypeOK' /\ MutexHeld'
  BY <1>1 DEF CaptureInv, CaptureTypeOK, MutexHeld
<1>3. WholeRows(Lines, picture)'
  BY <1>1 DEF CaptureInv, WholeRows
<1>4. Buffer'
  BY <1>1 DEF CaptureInv, Buffer, InLoop, WholeRows
<1>5. QED
  BY <1>2, <1>3, <1>4 DEF CaptureInv

(* The main thread has the mutex, so that PipeWire's is not copying.        *)
LEMMA UpdateCapture ==
  ASSUME CaptureInv, UpdatesServer
  PROVE  CaptureInv'
<1>1. /\ host = "update" /\ host' = "loop" /\ fb_mutex' = "nobody"
      /\ picture' = fb
      /\ UNCHANGED <<negotiated, frames, pw, pw_row, early, fb, host_row>>
  BY DEF UpdatesServer, HostStep
<1>2. fb_mutex = "host" /\ pw # "copy"
  BY <1>1 DEF CaptureInv, MutexHeld
<1>3. fb \in [Lines -> Garbage..MaxFrames] /\ WholeRows(Lines, fb)
  BY <1>1, <1>2 DEF CaptureInv, Buffer, InLoop
<1>4. CaptureTypeOK' /\ MutexHeld'
  BY <1>1, <1>2, <1>3 DEF CaptureInv, CaptureTypeOK, MutexHeld
<1>5. WholeRows(Lines, picture)'
  BY <1>1, <1>3 DEF WholeRows
<1>6. Buffer'
  BY <1>1, <1>2, <1>3 DEF CaptureInv, Buffer, InLoop, WholeRows
<1>7. QED
  BY <1>4, <1>5, <1>6 DEF CaptureInv

LEMMA CaptureStep == CaptureInv /\ [CaptureNext]_captureVars => CaptureInv'
<1> SUFFICES ASSUME CaptureInv, [CaptureNext]_captureVars PROVE CaptureInv'
  OBVIOUS
<1>1. CASE PipeWire
  BY <1>1, FormatCapture, NewFrame, LockCapture, RowCapture, UnlockCapture
     DEF PipeWire
<1>2. CASE HostLoop
  BY <1>2, FormatCapture, AllocateCapture, ClearCapture, LockForUpdate,
     UpdateCapture DEF HostLoop
<1>3. CASE UNCHANGED captureVars
  BY <1>3, FormatCapture
<1>4. QED
  BY <1>1, <1>2, <1>3 DEF CaptureNext

LEMMA CaptureStart == CaptureInit => CaptureInv
<1> SUFFICES ASSUME CaptureInit PROVE CaptureInv
  OBVIOUS
<1>1. picture \in [Lines -> Garbage..MaxFrames] /\ \A r \in Lines : picture[r] = Black
  BY DEF CaptureInit, Garbage, Black
<1>2. CaptureTypeOK
  <2>1. fb \in {Null} \cup [Lines -> Garbage..MaxFrames]
    BY DEF CaptureInit
  <2>2. /\ frames = 0 /\ early = 0 /\ negotiated = FALSE
        /\ fb_mutex = "nobody" /\ pw = "idle" /\ pw_row = 1
        /\ host = "wait" /\ host_row = 1
    BY DEF CaptureInit
  <2>3. 0 \in 0..MaxFrames /\ 0 \in 0..0 /\ 1 \in 1..Height + 1
    OBVIOUS
  <2>4. QED
    BY <1>1, <2>1, <2>2, <2>3 DEF CaptureTypeOK
<1>3. MutexHeld
  BY DEF CaptureInit, MutexHeld
<1>4. Buffer
  BY DEF CaptureInit, Buffer, InLoop
<1>5. Black \in Black..early
  BY DEF CaptureInit, Black
<1>6. WholeRows(Lines, picture)
  BY <1>1, <1>5 DEF WholeRows
<1>7. QED
  BY <1>2, <1>3, <1>4, <1>6 DEF CaptureInv

(* What the Wayland host gives the server to show is one frame of the      *)
(* compositor, never rows of two and never memory that was not cleared     *)
(* (on_process() and the main loop of wayland_vnc_server.c, under          *)
(* fb_mutex, and the memset() that is not), for any height of the screen   *)
(* and any number of frames.                                               *)
THEOREM PictureIsWhole == CaptureSpec => [](CaptureTypeOK /\ WholePicture)
<1>1. CaptureInv => CaptureTypeOK /\ WholePicture
  <2> SUFFICES ASSUME CaptureInv PROVE CaptureTypeOK /\ WholePicture
    OBVIOUS
  <2>1. CaptureTypeOK /\ picture \in [Lines -> Garbage..MaxFrames]
    BY DEF CaptureInv, CaptureTypeOK
  <2>2. ASSUME NEW n \in early + 1..frames, \A r \in Lines : picture[r] = n
        PROVE  picture = [r \in Lines |-> n]
    BY <2>1, <2>2
  <2>3. QED
    BY <2>1, <2>2 DEF CaptureInv, WholeRows, WholePicture
<1>2. QED
  BY <1>1, CaptureStart, CaptureStep, PTL DEF CaptureSpec

-----------------------------------------------------------------------------
(* AudioStream.  The ring holds the samples up to Top without a gap, and   *)
(* what was heard came before them.                                        *)

USE AudioAssumption

\* The last chunk that has reached the ring.
Top == IF thread = "full" THEN captured - 1 ELSE captured

Sampled ==
  \A i \in 1..Len(ring) :
    ring[i].number = Top - Len(ring) + i /\ ring[i].format = spec

HeardBefore == heard # <<>> => Last(heard).number <= Top - Len(ring)

OwnCapture ==
  /\ main # "nothing" => thread # "none" /\ stream # "gone"
  /\ stream # "gone" => (audio_enabled <=> thread # "none")
  /\ stream = "gone" => thread = "none"
  /\ thread # "none" /\ main # "set_format" => spec = PaFormat[audio_format]
  /\ thread = "full" => captured > 0

AudioInv == TypeOK /\ OwnCapture /\ Sampled /\ HeardBefore

LEMMA LastHeard ==
  ASSUME NEW chunks \in Seq(Chunks), chunks # <<>>
  PROVE  /\ Len(chunks) \in Nat \ {0} /\ Last(chunks) = chunks[Len(chunks)]
         /\ Last(chunks) \in Chunks /\ Last(chunks).number \in Nat
<1>1. Len(chunks) \in Nat \ {0}
  BY EmptySeq
<1>2. Last(chunks) = chunks[Len(chunks)]
  BY DEF Last
<1>3. chunks[Len(chunks)] \in Chunks
  BY <1>1
<1>4. \A c \in Chunks : c.number \in Nat
  BY DEF Chunks
<1>5. QED
  BY <1>1, <1>2, <1>3, <1>4

LEMMA TopTyped == TypeOK /\ OwnCapture => Top \in Nat /\ Len(ring) \in Nat
BY DEF TypeOK, OwnCapture, Top

(* The steps that leave the ring alone, and those that empty it.           *)
LEMMA SamplesKept ==
  ASSUME AudioInv, UNCHANGED <<ring, spec, heard>>, Top' = Top
  PROVE  Sampled' /\ HeardBefore'
<1>1. UNCHANGED <<Top, ring, spec, heard>>
  OBVIOUS
<1>2. Sampled'
  BY <1>1 DEF AudioInv, Sampled
<1>3. HeardBefore'
  BY <1>1 DEF AudioInv, HeardBefore, Last
<1>4. QED
  BY <1>2, <1>3

LEMMA SamplesDropped ==
  ASSUME AudioInv, ring' = <<>>, UNCHANGED heard, Top' = Top
  PROVE  Sampled' /\ HeardBefore'
<1>1. Len(ring') = 0
  OBVIOUS
<1>2. Sampled'
  BY <1>1 DEF Sampled
<1>3. Top \in Nat /\ Len(ring) \in Nat
  BY TopTyped DEF AudioInv
<1>4. heard # <<>> => Last(heard).number \in Nat
  BY LastHeard DEF AudioInv, TypeOK
<1>5. heard # <<>> => Last(heard).number <= Top
  BY <1>3, <1>4 DEF AudioInv, HeardBefore
<1>6. heard' # <<>> => Last(heard').number <= Top' - Len(ring')
  BY <1>1, <1>3, <1>5
<1>7. QED
  BY <1>2, <1>6 DEF HeardBefore

(* The capture thread, but for what it stores.                             *)
LEMMA ThreadMoves ==
  ASSUME AudioInv, Opened \/ CaptureFails \/ Captured
  PROVE  AudioInv'
<1>1. /\ UNCHANGED <<supports_audio, audio_enabled, audio_format, unsent, main,
                     stop, spec, ring, stream, heard, orders, pending_audio_ack,
                     pending_audio_begin, pending_audio_end>>
      /\ thread \notin {"none", "full"} /\ thread' # "none"
      /\ thread' \in Threads
  BY DEF Opened, CaptureFails, Captured, pending, peer, Threads
<1>2. \/ captured' = captured /\ thread' # "full"
      \/ captured < MaxChunks /\ captured' = captured + 1 /\ thread' = "full"
  BY DEF Opened, CaptureFails, Captured
<1>3. captured \in 0..MaxChunks /\ captured' \in 0..MaxChunks
  BY <1>2 DEF AudioInv, TypeOK
<1>4. TypeOK'
  BY <1>1, <1>3 DEF AudioInv, TypeOK
<1>5. OwnCapture'
  BY <1>1, <1>2, <1>3 DEF AudioInv, OwnCapture
<1>6. Top' = Top
  <2>1. Top = captured
    BY <1>1 DEF Top
  <2>2. CASE captured' = captured /\ thread' # "full"
    BY <2>1, <2>2 DEF Top
  <2>3. CASE captured' = captured + 1 /\ thread' = "full"
    <3>1. Top' = captured' - 1
      BY <2>3 DEF Top
    <3>2. captured' - 1 = captured
      BY <1>3, <2>3
    <3>3. QED
      BY <2>1, <3>1, <3>2
  <2>4. QED
    BY <1>2, <2>2, <2>3
<1>7. QED
  BY <1>1, <1>4, <1>5, <1>6, SamplesKept DEF AudioInv

(* Appending a chunk and losing the oldest of a full ring.                 *)
LEMMA EvictFacts ==
  ASSUME NEW chunks \in Seq(Chunks), Len(chunks) <= RingCap, NEW c \in Chunks
  PROVE  /\ Evict(Append(chunks, c)) \in Seq(Chunks)
         /\ Len(Evict(Append(chunks, c))) <= RingCap
         /\ \E k \in {0, 1} :
              /\ k <= Len(chunks)
              /\ Len(Evict(Append(chunks, c))) = Len(chunks) + 1 - k
              /\ \A i \in 1..Len(chunks) + 1 - k :
                   Evict(Append(chunks, c))[i] =
                     IF i = Len(chunks) + 1 - k THEN c ELSE chunks[i + k]
<1>1. /\ Append(chunks, c) \in Seq(Chunks) /\ Len(chunks) \in Nat
      /\ Len(Append(chunks, c)) = Len(chunks) + 1
      /\ \A i \in 1..Len(chunks) : Append(chunks, c)[i] = chunks[i]
      /\ Append(chunks, c)[Len(chunks) + 1] = c
  OBVIOUS
<1>2. CASE Len(chunks) = RingCap
  <2>1. Evict(Append(chunks, c)) = Tail(Append(chunks, c))
    BY <1>1, <1>2 DEF Evict
  <2>2. /\ Tail(Append(chunks, c)) \in Seq(Chunks)
        /\ Len(Tail(Append(chunks, c))) = Len(chunks)
        /\ \A i \in 1..Len(chunks) :
             Tail(Append(chunks, c))[i] = Append(chunks, c)[i + 1]
    BY <1>1
  <2>3. \A i \in 1..Len(chunks) :
          Tail(Append(chunks, c))[i] = IF i = Len(chunks) THEN c ELSE chunks[i + 1]
    BY <1>1, <2>2
  <2>4. QED
    <3>1. 1 <= Len(chunks) /\ Len(chunks) = Len(chunks) + 1 - 1
      BY <1>1, <1>2
    <3>2. QED
      BY <1>1, <1>2, <2>1, <2>2, <2>3, <3>1
<1>3. CASE Len(chunks) < RingCap
  <2>1. Evict(Append(chunks, c)) = Append(chunks, c)
    BY <1>1, <1>3 DEF Evict
  <2>2. QED
    BY <1>1, <1>3, <2>1
<1>4. QED
  BY <1>1, <1>2, <1>3

LEMMA StoredStep ==
  ASSUME AudioInv, Stored
  PROVE  AudioInv'
<1> DEFINE c == [format |-> spec, number |-> captured]
<1>1. /\ UNCHANGED <<supports_audio, audio_enabled, audio_format, unsent, main,
                     stop, spec, captured, stream, heard, orders,
                     pending_audio_ack, pending_audio_begin, pending_audio_end>>
      /\ thread = "full" /\ thread' \in {"ended", "reading"}
      /\ ring' = Evict(Append(ring, c))
  BY DEF Stored, pending, peer
<1>2. captured \in 1..MaxChunks /\ c \in Chunks
  BY <1>1 DEF AudioInv, TypeOK, OwnCapture, Chunks
<1>3. ring \in Seq(Chunks) /\ Len(ring) <= RingCap /\ Len(ring) \in Nat
  BY DEF AudioInv, TypeOK
<1> HIDE DEF c
<1>0. /\ ring' \in Seq(Chunks) /\ Len(ring') <= RingCap
      /\ \E k \in {0, 1} :
           /\ k <= Len(ring)
           /\ Len(ring') = Len(ring) + 1 - k
           /\ \A i \in 1..Len(ring) + 1 - k :
                ring'[i] = IF i = Len(ring) + 1 - k THEN c ELSE ring[i + k]
  <2> DEFINE s == Evict(Append(ring, c))
  <2>1. /\ s \in Seq(Chunks) /\ Len(s) <= RingCap
        /\ \E k \in {0, 1} :
             /\ k <= Len(ring)
             /\ Len(s) = Len(ring) + 1 - k
             /\ \A i \in 1..Len(ring) + 1 - k :
                  s[i] = IF i = Len(ring) + 1 - k THEN c ELSE ring[i + k]
    BY <1>2, <1>3, EvictFacts
  <2>2. ring' = s
    BY <1>1
  <2> HIDE DEF s
  <2>3. QED
    BY <2>1, <2>2
<1>4. PICK k \in {0, 1} :
        /\ k <= Len(ring)
        /\ Len(ring') = Len(ring) + 1 - k
        /\ \A i \in 1..Len(ring') :
             ring'[i] = IF i = Len(ring') THEN c ELSE ring[i + k]
  BY <1>0
<1>5. TypeOK'
  BY <1>0, <1>1 DEF AudioInv, TypeOK, Threads
<1>6. OwnCapture'
  BY <1>1 DEF AudioInv, OwnCapture
<1>7. Top = captured - 1 /\ Top' = captured
  BY <1>1 DEF Top
<1>8. Sampled'
  <2>1. SUFFICES ASSUME NEW i \in 1..Len(ring')
                 PROVE  /\ ring'[i].number = captured - Len(ring') + i
                        /\ ring'[i].format = spec
    BY <1>1, <1>7 DEF Sampled
  <2>2. CASE i = Len(ring')
    <3>1. ring'[i] = c
      BY <1>4, <2>2
    <3>2. captured - Len(ring') + i = captured
      BY <1>2, <1>3, <1>4, <2>2
    <3>3. QED
      BY <3>1, <3>2 DEF c
  <2>3. CASE i # Len(ring')
    <3>1. ring'[i] = ring[i + k] /\ i + k \in 1..Len(ring)
      BY <1>3, <1>4, <2>3
    <3>2. /\ ring[i + k].number = captured - 1 - Len(ring) + (i + k)
          /\ ring[i + k].format = spec
      BY <1>7, <3>1 DEF AudioInv, Sampled
    <3>3. captured - 1 - Len(ring) + (i + k) = captured - Len(ring') + i
      <4>1. /\ captured \in Int /\ k \in Int /\ i \in Int
            /\ Len(ring') = Len(ring) + 1 - k
        BY <1>2, <1>3, <1>4
      <4>2. QED
        BY <1>3, <4>1
    <3>4. QED
      BY <3>1, <3>2, <3>3
  <2>4. QED
    BY <2>2, <2>3
<1>9. HeardBefore'
  <2>1. heard # <<>> => Last(heard).number \in Nat
    BY LastHeard DEF AudioInv, TypeOK
  <2>2. heard # <<>> => Last(heard).number <= captured - 1 - Len(ring)
    BY <1>7 DEF AudioInv, HeardBefore
  <2>3. heard # <<>> => Last(heard).number <= captured - Len(ring')
    BY <1>2, <1>3, <1>4, <2>1, <2>2
  <2>4. QED
    BY <1>1, <1>7, <2>3 DEF HeardBefore
<1>10. QED
  BY <1>5, <1>6, <1>8, <1>9 DEF AudioInv

(* The messages of the peer.                                               *)
LEMMA OrderStep ==
  ASSUME AudioInv,
         \/ \E audio \in BOOLEAN : SetEncodings(audio)
         \/ Disable \/ \E format \in Formats : SetFormat(format)
  PROVE  AudioInv'
<1>1. /\ UNCHANGED <<audio_enabled, unsent, thread, spec, ring, captured,
                     stream, heard, pending_audio_begin, pending_audio_end>>
      /\ main = "nothing" /\ stream # "gone"
      /\ orders' = orders + 1 /\ orders < MaxOrders
  BY DEF SetEncodings, Disable, SetFormat, Order, capture, pending, peer, StopThen
<1>2. /\ supports_audio' \in BOOLEAN /\ pending_audio_ack' \in BOOLEAN
      /\ audio_format' \in Formats /\ stop' \in BOOLEAN
      /\ main' \in {"nothing", "disable", "set_format"}
      /\ main' # "nothing" => audio_enabled
      /\ audio_format' = audio_format \/ main' = "set_format" \/ ~audio_enabled
  <2>1. /\ supports_audio \in BOOLEAN /\ pending_audio_ack \in BOOLEAN
        /\ audio_format \in Formats /\ stop \in BOOLEAN
    BY DEF AudioInv, TypeOK
  <2>2. ASSUME NEW audio \in BOOLEAN, SetEncodings(audio)
        PROVE  /\ supports_audio' \in BOOLEAN /\ pending_audio_ack' \in BOOLEAN
               /\ UNCHANGED <<audio_format, stop, main>>
    BY <2>1, <2>2, Zenon DEF SetEncodings, capture
  <2>3. ASSUME Disable
        PROVE  /\ UNCHANGED <<supports_audio, pending_audio_ack, audio_format>>
               /\ \/ stop' = TRUE /\ main' = "disable" /\ audio_enabled
                  \/ stop' = stop /\ main' = main
    BY <2>3 DEF Disable, StopThen, capture, pending
  <2>4. ASSUME NEW format \in Formats, SetFormat(format)
        PROVE  /\ UNCHANGED <<supports_audio, pending_audio_ack>>
               /\ audio_format' = format
               /\ \/ stop' = TRUE /\ main' = "set_format" /\ audio_enabled
                  \/ stop' = stop /\ main' = main /\ ~audio_enabled
    BY <2>4 DEF SetFormat, StopThen, capture, pending
  <2>5. QED
    BY <1>1, <2>1, <2>2, <2>3, <2>4
<1>3. orders' \in 0..MaxOrders
  BY <1>1 DEF AudioInv, TypeOK
<1>4. TypeOK'
  BY <1>1, <1>2, <1>3 DEF AudioInv, TypeOK, Waits
<1>5. OwnCapture'
  BY <1>1, <1>2 DEF AudioInv, OwnCapture
<1>6. Top' = Top
  BY <1>1 DEF Top
<1>7. QED
  BY <1>1, <1>4, <1>5, <1>6, SamplesKept DEF AudioInv

LEMMA EnableStep ==
  ASSUME AudioInv, Enable
  PROVE  AudioInv'
<1>1. /\ UNCHANGED <<supports_audio, audio_format, pending_audio_ack,
                     pending_audio_end, unsent, main, stream, heard>>
      /\ main = "nothing" /\ stream # "gone"
      /\ orders' = orders + 1 /\ orders < MaxOrders
  BY DEF Enable, Order, peer
<1>2. orders' \in 0..MaxOrders
  BY <1>1 DEF AudioInv, TypeOK
<1>3. CASE ~audio_enabled /\ StartCapture(audio_format)
           /\ audio_enabled' = TRUE /\ pending_audio_begin' = TRUE
  <2>1. /\ thread' = "opening" /\ stop' = FALSE /\ ring' = <<>>
        /\ spec' = PaFormat[audio_format] /\ captured' = captured
    BY <1>3 DEF StartCapture
  <2>2. spec' \in Formats /\ ring' \in Seq(Chunks) /\ Len(ring') <= RingCap
    BY <2>1 DEF AudioInv, TypeOK
  <2>3. TypeOK'
    BY <1>1, <1>2, <1>3, <2>1, <2>2 DEF AudioInv, TypeOK, Threads
  <2>4. OwnCapture'
    BY <1>1, <1>3, <2>1 DEF OwnCapture
  <2>5. Top' = Top
    BY <1>1, <1>3, <2>1 DEF AudioInv, OwnCapture, Top
  <2>6. QED
    BY <1>1, <2>1, <2>3, <2>4, <2>5, SamplesDropped DEF AudioInv
<1>4. CASE UNCHANGED <<capture, audio_enabled, pending_audio_begin>>
  <2>1. UNCHANGED <<thread, stop, spec, ring, captured, audio_enabled,
                    pending_audio_begin>>
    BY <1>4 DEF capture
  <2>2. TypeOK'
    BY <1>1, <1>2, <2>1 DEF AudioInv, TypeOK
  <2>3. OwnCapture'
    BY <1>1, <2>1 DEF AudioInv, OwnCapture
  <2>4. Top' = Top
    BY <2>1 DEF Top
  <2>5. QED
    BY <1>1, <2>1, <2>2, <2>3, <2>4, SamplesKept DEF AudioInv
<1>5. QED
  BY <1>3, <1>4 DEF Enable

LEMMA DisconnectStep ==
  ASSUME AudioInv, Disconnect
  PROVE  AudioInv'
<1>1. /\ UNCHANGED <<supports_audio, audio_enabled, audio_format, unsent, thread,
                     spec, ring, captured, heard, orders, pending_audio_ack,
                     pending_audio_begin, pending_audio_end>>
      /\ main = "nothing" /\ stream # "gone"
  BY DEF Disconnect, StopThen, capture, pending, peer
<1>2. \/ thread # "none" /\ main' = "disconnect" /\ stop' = TRUE /\ stream' = stream
      \/ thread = "none" /\ main' = main /\ stop' = stop /\ stream' = "gone"
  BY DEF Disconnect, HasCapture, StopThen, capture, peer
<1>3. TypeOK'
  BY <1>1, <1>2 DEF AudioInv, TypeOK, Waits
<1>4. OwnCapture'
  BY <1>1, <1>2 DEF AudioInv, OwnCapture
<1>5. Top' = Top
  BY <1>1 DEF Top
<1>6. QED
  BY <1>1, <1>3, <1>4, <1>5, SamplesKept DEF AudioInv

(* The thread has been joined: the capture is gone, or a new one begins.   *)
LEMMA JoinedStep ==
  ASSUME AudioInv, Joined
  PROVE  AudioInv'
<1>1. /\ UNCHANGED <<supports_audio, audio_format, pending_audio_ack,
                     pending_audio_begin, unsent, orders, heard, captured>>
      /\ main # "nothing" /\ main' = "nothing" /\ thread = "ended"
      /\ stop' = FALSE /\ ring' = <<>>
  BY DEF Joined, NoCapture, StartCapture, peer
<1>2. stream # "gone" /\ audio_enabled
  BY <1>1 DEF AudioInv, OwnCapture
<1>3. \/ /\ thread' = "none" /\ spec' = spec /\ audio_enabled' = FALSE
         /\ pending_audio_end' \in BOOLEAN /\ stream' = stream
      \/ /\ thread' = "opening" /\ spec' = PaFormat[audio_format]
         /\ audio_enabled' = audio_enabled
         /\ pending_audio_end' = pending_audio_end /\ stream' = stream
      \/ /\ thread' = "none" /\ spec' = spec /\ stream' = "gone"
         /\ audio_enabled' = audio_enabled
         /\ pending_audio_end' = pending_audio_end
  <2>1. pending_audio_end \in BOOLEAN
    BY DEF AudioInv, TypeOK
  <2>2. QED
    BY <2>1 DEF Joined, NoCapture, StartCapture, peer
<1>4. /\ spec' \in Formats /\ pending_audio_end' \in BOOLEAN
      /\ audio_enabled' \in BOOLEAN /\ thread' \in {"none", "opening"}
      /\ stream' \in {stream, "gone"}
  BY <1>2, <1>3 DEF AudioInv, TypeOK
<1>5. ring' \in Seq(Chunks) /\ Len(ring') <= RingCap
  BY <1>1
<1>6. TypeOK'
  BY <1>1, <1>4, <1>5 DEF AudioInv, TypeOK, Waits, Threads
<1>7. OwnCapture'
  BY <1>1, <1>2, <1>3 DEF OwnCapture
<1>8. Top' = Top
  BY <1>1, <1>4 DEF Top
<1>9. QED
  BY <1>1, <1>6, <1>7, <1>8, SamplesDropped DEF AudioInv

(* What is sent is what the ring holds.                                    *)
LEMMA SendFacts ==
  ASSUME AudioInv, SendAudioUpdate, heard' # heard
  PROVE  /\ heard' = ring /\ ring # <<>> /\ ring' = <<>>
         /\ main = "nothing" /\ audio_enabled /\ stream # "gone"
BY DEF SendAudioUpdate, DrainedRing

LEMMA SendStep ==
  ASSUME AudioInv, SendAudioUpdate
  PROVE  AudioInv'
<1>1. /\ UNCHANGED <<supports_audio, audio_enabled, audio_format, main, thread,
                     stop, spec, captured, orders>>
      /\ main = "nothing" /\ stream # "gone"
      /\ pending_audio_ack' = FALSE /\ pending_audio_begin' = FALSE
      /\ pending_audio_end' = FALSE /\ unsent' \in BOOLEAN
  BY DEF SendAudioUpdate
<1>2. stream' \in {"closed", "open", stream}
  BY DEF SendAudioUpdate, StreamAfter
<1>3. \/ heard' = heard /\ ring' = ring
      \/ heard' = heard /\ ring' = <<>>
      \/ heard' = ring /\ ring # <<>> /\ ring' = <<>>
  BY DEF SendAudioUpdate, DrainedRing
<1>4. /\ heard' \in Seq(Chunks) /\ ring' \in Seq(Chunks)
      /\ Len(ring') <= RingCap
  <2>1. /\ heard \in Seq(Chunks) /\ ring \in Seq(Chunks)
        /\ Len(ring) <= RingCap
    BY DEF AudioInv, TypeOK
  <2>2. <<>> \in Seq(Chunks) /\ Len(<<>>) <= RingCap
    OBVIOUS
  <2>3. QED
    BY <1>3, <2>1, <2>2, Zenon
<1>5. TypeOK'
  BY <1>1, <1>2, <1>4 DEF AudioInv, TypeOK
<1>6. OwnCapture'
  BY <1>1, <1>2 DEF AudioInv, OwnCapture
<1>7. Top' = Top
  BY <1>1 DEF Top
<1>8. CASE heard' = heard
  BY <1>1, <1>3, <1>5, <1>6, <1>7, <1>8, SamplesKept, SamplesDropped
     DEF AudioInv
<1>9. CASE heard' = ring /\ ring # <<>> /\ ring' = <<>>
  <2>1. /\ Last(ring) = ring[Len(ring)] /\ Len(ring) \in Nat \ {0}
    BY <1>9, LastHeard DEF AudioInv, TypeOK
  <2>2. Last(ring).number = Top - Len(ring) + Len(ring)
    BY <2>1 DEF AudioInv, Sampled
  <2>3. Top \in Nat /\ Len(ring') = 0
    BY <1>9, TopTyped DEF AudioInv
  <2>4. Last(heard').number <= Top' - Len(ring')
    BY <1>7, <1>9, <2>1, <2>2, <2>3
  <2>5. Sampled'
    BY <2>3 DEF Sampled
  <2>6. QED
    BY <1>5, <1>6, <2>4, <2>5 DEF AudioInv, HeardBefore
<1>10. QED
  BY <1>3, <1>8, <1>9

LEMMA FlushStep ==
  ASSUME AudioInv, Flush \/ UNCHANGED vars
  PROVE  AudioInv'
<1>1. /\ UNCHANGED <<supports_audio, audio_enabled, audio_format, main, thread,
                     stop, spec, ring, captured, stream, heard, orders,
                     pending_audio_ack, pending_audio_begin, pending_audio_end>>
      /\ unsent' = unsent \/ unsent' = FALSE
  BY DEF Flush, vars, pending, capture, peer
<1>2. TypeOK'
  BY <1>1 DEF AudioInv, TypeOK
<1>3. OwnCapture'
  BY <1>1 DEF AudioInv, OwnCapture
<1>4. Top' = Top
  BY <1>1 DEF Top
<1>5. QED
  BY <1>1, <1>2, <1>3, <1>4, SamplesKept DEF AudioInv

LEMMA AudioStep == AudioInv /\ [Next]_vars => AudioInv'
<1> SUFFICES ASSUME AudioInv, [Next]_vars PROVE AudioInv'
  OBVIOUS
<1>1. CASE Thread
  BY <1>1, ThreadMoves, StoredStep DEF Thread
<1>2. CASE Poll
  BY <1>2, OrderStep, EnableStep, DisconnectStep, JoinedStep, SendStep, FlushStep
     DEF Poll
<1>3. CASE UNCHANGED vars
  BY <1>3, FlushStep
<1>4. QED
  BY <1>1, <1>2, <1>3 DEF Next

LEMMA AudioInit == Init => AudioInv
<1> SUFFICES ASSUME Init PROVE AudioInv
  OBVIOUS
<1>1. ring = <<>> /\ heard = <<>> /\ Len(ring) = 0
  BY DEF Init
<1>2. TypeOK
  <2>1. /\ ring \in Seq(Chunks) /\ Len(ring) <= RingCap
        /\ heard \in Seq(Chunks)
    BY <1>1
  <2>2. /\ captured \in 0..MaxChunks /\ orders \in 0..MaxOrders
        /\ audio_format \in Formats /\ spec \in Formats
    BY DEF Init
  <2>3. /\ main \in Waits /\ thread \in Threads
        /\ stream \in {"closed", "open", "gone"}
    BY DEF Init, Waits, Threads
  <2>4. QED
    BY <2>1, <2>2, <2>3 DEF Init, TypeOK
<1>3. OwnCapture
  BY DEF Init, OwnCapture
<1>4. Sampled /\ HeardBefore
  BY <1>1 DEF Sampled, HeardBefore
<1>5. QED
  BY <1>2, <1>3, <1>4 DEF AudioInv

(* The capture thread and the poll loop, in any interleaving: a thread     *)
(* exists for exactly the clients with audio on, across DISABLE, ENABLE,   *)
(* changes of format, failures and disconnects, and the ring holds the     *)
(* latest samples without a gap (leanrfb_audio.c and the audio messages of *)
(* client_read_handler()), for any formats and any capacity of the ring.   *)
THEOREM SoundIsSafe == Spec => [](TypeOK /\ OneCapture /\ LatestSamples)
<1>1. AudioInv => TypeOK /\ OneCapture /\ LatestSamples
  <2> SUFFICES ASSUME AudioInv PROVE TypeOK /\ OneCapture /\ LatestSamples
    OBVIOUS
  <2>1. TypeOK /\ OneCapture
    BY DEF AudioInv, OwnCapture, OneCapture
  <2>2. ASSUME ring # <<>> PROVE Last(ring).number = Top
    <3>1. /\ Last(ring) = ring[Len(ring)] /\ Len(ring) \in Nat \ {0}
          /\ Top \in Nat
      BY <2>2, LastHeard, TopTyped DEF AudioInv, TypeOK
    <3>2. Last(ring).number = Top - Len(ring) + Len(ring)
      BY <3>1 DEF AudioInv, Sampled
    <3>3. QED
      BY <3>1, <3>2
  <2>3. ASSUME NEW i \in 1..Len(ring) - 1
        PROVE  ring[i + 1].number = ring[i].number + 1
    <3>1. Top \in Nat /\ Len(ring) \in Nat
      BY TopTyped DEF AudioInv
    <3>2. i \in 1..Len(ring) /\ i + 1 \in 1..Len(ring)
      BY <3>1
    <3>3. /\ ring[i].number = Top - Len(ring) + i
          /\ ring[i + 1].number = Top - Len(ring) + (i + 1)
      BY <3>2 DEF AudioInv, Sampled
    <3>4. QED
      BY <3>1, <3>3
  <2>4. QED
    BY <2>1, <2>2, <2>3 DEF LatestSamples, Top
<1>2. QED
  BY <1>1, AudioInit, AudioStep, PTL DEF Spec

(* A second capture thread is never started beside one that runs, and none *)
(* outlives its client: vnc_audio_capture_stop() joins it before the       *)
(* struct is freed.                                                        *)
THEOREM OneThreadCaptures == Spec => []OneCapture
BY SoundIsSafe, PTL

LEMMA OnlySentIsHeard ==
  ASSUME [Next]_vars, heard' # heard
  PROVE  SendAudioUpdate
<1>1. CASE Thread
  BY <1>1 DEF Thread, Opened, CaptureFails, Captured, Stored, peer
<1>2. CASE Poll
  <2>1. SetEncodings(TRUE) \/ SetEncodings(FALSE) => heard' = heard
    BY DEF SetEncodings, peer
  <2>2. Enable \/ Disable => heard' = heard
    BY DEF Enable, Disable, peer
  <2>3. ASSUME NEW format \in Formats, SetFormat(format) PROVE heard' = heard
    BY <2>3 DEF SetFormat, peer
  <2>4. Disconnect \/ Joined \/ Flush => heard' = heard
    BY DEF Disconnect, Joined, Flush, peer
  <2>5. QED
    BY <1>2, <2>1, <2>2, <2>3, <2>4 DEF Poll
<1>3. CASE UNCHANGED vars
  BY <1>3 DEF vars, peer
<1>4. QED
  BY <1>1, <1>2, <1>3 DEF Next

(* The peer hears no sample twice and none out of order, across stops,     *)
(* starts and changes of format, and each in the format last negotiated    *)
(* (vnc_send_audio_update(), and SET_FORMAT's restart of the capture).     *)
THEOREM SoundIsHeardRight == Spec => HeardRight
<1> DEFINE
      Right ==
        heard' # heard =>
          /\ Ascending(IF heard = <<>> THEN heard' ELSE <<Last(heard)>> \o heard')
          /\ \A i \in DOMAIN heard' : heard'[i].format = PaFormat[audio_format]
<1>1. ASSUME AudioInv, [Next]_vars, heard' # heard
      PROVE  Right
  <2>1. /\ heard' = ring /\ ring # <<>>
        /\ main = "nothing" /\ audio_enabled /\ stream # "gone"
    BY <1>1, OnlySentIsHeard, SendFacts
  <2>2. /\ ring \in Seq(Chunks) /\ Len(ring) \in Nat \ {0} /\ Top \in Nat
        /\ heard \in Seq(Chunks)
    BY <1>1, <2>1, LastHeard, TopTyped DEF AudioInv, TypeOK
  <2>3. \A i \in 1..Len(ring) : ring[i].number = Top - Len(ring) + i
    BY <1>1 DEF AudioInv, Sampled
  <2>4. \A i \in DOMAIN heard' : heard'[i].format = PaFormat[audio_format]
    <3>1. spec = PaFormat[audio_format]
      BY <1>1, <2>1 DEF AudioInv, OwnCapture
    <3>2. DOMAIN ring = 1..Len(ring)
      BY <2>2
    <3>3. QED
      BY <1>1, <2>1, <3>1, <3>2 DEF AudioInv, Sampled
  <2>5. CASE heard = <<>>
    <3>1. \A i \in 1..Len(ring) - 1 : ring[i].number < ring[i + 1].number
      <4>1. TAKE i \in 1..Len(ring) - 1
      <4>2. i \in 1..Len(ring) /\ i + 1 \in 1..Len(ring)
        BY <2>2
      <4>3. QED
        BY <2>2, <2>3, <4>2
    <3>2. QED
      BY <2>1, <2>4, <2>5, <3>1 DEF Ascending
  <2>6. CASE heard # <<>>
    <3> DEFINE last == Last(heard)
               all == <<last>> \o ring
    <3>1. last \in Chunks /\ last.number \in Nat
      BY <2>2, <2>6, LastHeard
    <3>2. last.number <= Top - Len(ring)
      BY <1>1, <2>6 DEF AudioInv, HeardBefore
    <3> HIDE DEF last
    <3>3. /\ Len(all) = Len(ring) + 1 /\ all[1] = last
          /\ \A i \in 1..Len(ring) : all[i + 1] = ring[i]
      BY <2>2, <3>1
    <3> HIDE DEF all
    <3>4. \A i \in 1..Len(all) - 1 : all[i].number < all[i + 1].number
      <4>1. TAKE i \in 1..Len(all) - 1
      <4>2. i \in 1..Len(ring)
        BY <2>2, <3>3
      <4>3. all[i + 1].number = Top - Len(ring) + i
        BY <2>3, <3>3, <4>2
      <4>4. CASE i = 1
        BY <2>2, <3>1, <3>2, <3>3, <4>3, <4>4
      <4>5. CASE i # 1
        <5>1. i - 1 \in 1..Len(ring) /\ i - 1 + 1 = i
          BY <2>2, <4>2, <4>5
        <5>2. all[i].number = Top - Len(ring) + (i - 1)
          BY <2>3, <3>3, <5>1
        <5>3. QED
          BY <2>2, <4>2, <4>3, <5>2
      <4>6. QED
        BY <4>4, <4>5
    <3>5. Ascending(all)
      BY <3>4 DEF Ascending
    <3>6. QED
      BY <2>1, <2>4, <2>6, <3>5 DEF all, last
  <2>7. QED
    BY <2>5, <2>6
<1>2. AudioInv /\ [Next]_vars => [Right]_vars
  BY <1>1
<1>3. QED
  BY <1>2, AudioInit, AudioStep, PTL DEF Spec, HeardRight

-----------------------------------------------------------------------------
(* Clipboards: the invariant. *)

Events == {"owner app", "owner server", "request", "notify"}

ClipTypes ==
  /\ owner \in {"app", "server"}
  /\ app_text \in TextOrNone /\ g_clipboard_text \in TextOrNone
  /\ property \in TextOrNone
  /\ x_events \in Seq(Events) /\ converting \in Nat
  /\ view_owner \in [Viewers -> {"app", "viewer"}]
  /\ local_text \in [Viewers -> TextOrNone]
  /\ set_text \in [Viewers -> TextOrNone]
  /\ last_sent \in [Viewers -> TextOrNone]
  /\ changes \in [Viewers -> Nat] /\ requested \in [Viewers -> Nat]
  /\ to_apply \in [Viewers -> Seq(Texts)]
  /\ down \in [Viewers -> Seq(Texts)] /\ up \in [Viewers -> Seq(Texts)]
  /\ lately \subseteq copiers /\ copiers \subseteq Viewers \cup {"host"}
  /\ rivals \in BOOLEAN /\ copies \in 0..MaxCopies

LastOr(s, x) == IF s = <<>> THEN x ELSE s[Len(s)]
Kinds(s) == {s[i] : i \in DOMAIN s}

\* What of x a viewer will have when all that is on its way has reached it.
Coming(v, x) == LastOr(down[v], LastOr(to_apply[v], x))

\* No viewer has copied but this one.
Alone(v) == copiers \subseteq {"host", v}

HostHolds == owner = "app" => app_text = g_clipboard_text

\* What the host has is shown, and will not be sent back.
Informed(v) ==
  /\ Coming(v, ViewerText(v)) = g_clipboard_text
  /\ Coming(v, last_sent[v]) = g_clipboard_text

Resting ==
  /\ AtRest /\ HostHolds
  /\ \A v \in Viewers : Alone(v) => Informed(v)

HostCopies ==
  /\ owner = "app" /\ app_text # NoText
  /\ Kinds(x_events) \subseteq {"owner app", "notify"}
  /\ \A v \in Viewers :
       /\ up[v] = <<>> /\ requested[v] = 0
       /\ changes[v] > 0 => view_owner[v] = "viewer"
       /\ Alone(v) => Informed(v)
  /\ \/ "owner app" \in Kinds(x_events)
     \/ converting > 0
     \/ property = app_text
     \/ property = NoText /\ HostHolds

ViewerCopies(v) ==
  /\ HostHolds /\ property = NoText /\ converting = 0
  /\ Kinds(x_events) \subseteq {"owner server"}
  /\ \A w \in Viewers :
       /\ down[w] = <<>> /\ to_apply[w] = <<>>
       /\ w # v => up[w] = <<>> /\ requested[w] = 0 /\ changes[w] = 0
  /\ view_owner[v] = "app" /\ local_text[v] # NoText
  /\ Alone(v) => LastOr(up[v], g_clipboard_text) = last_sent[v]
  /\ changes[v] > 0 \/ requested[v] > 0 \/ last_sent[v] = local_text[v]

\* A viewer shows what it takes for sent; a notification is of a property.
Kept ==
  /\ \A v \in Viewers : view_owner[v] = "viewer" => set_text[v] = last_sent[v]
  /\ property # NoText => "notify" \in Kinds(x_events)

Together ==
  \/ lately = {} /\ Resting
  \/ lately = {"host"} /\ HostCopies
  \/ \E v \in Viewers : lately = {v} /\ ViewerCopies(v)


-----------------------------------------------------------------------------
(* Sequences of events and texts. *)

LEMMA LastAdded ==
  ASSUME NEW s \in Seq(Texts), NEW x \in Texts
  PROVE  \A y : LastOr(Append(s, x), y) = x
<1>1. Append(s, x) \in Seq(Texts) /\ Len(Append(s, x)) = Len(s) + 1
      /\ Append(s, x)[Len(s) + 1] = x
  OBVIOUS
<1>2. Append(s, x) # <<>>
  BY <1>1
<1>3. QED
  BY <1>1, <1>2 DEF LastOr

LEMMA LastTaken ==
  ASSUME NEW s \in Seq(Texts), s # <<>>
  PROVE  \A x : LastOr(Tail(s), Head(s)) = LastOr(s, x)
<1> DEFINE t == Tail(s)
           n == Len(s)
<1>1. /\ n \in Nat \ {0} /\ Head(s) = s[1]
      /\ t \in Seq(Texts) /\ Len(t) = n - 1
      /\ \A i \in 1..n - 1 : t[i] = s[i + 1]
  OBVIOUS
<1> HIDE DEF t, n
<1>2. CASE n = 1
  <2>1. t = <<>>
    BY <1>1, <1>2, EmptySeq
  <2>2. QED
    BY <1>1, <1>2, <2>1 DEF LastOr, t, n
<1>3. CASE n > 1
  <2>1. n - 1 \in 1..n - 1 /\ n - 1 + 1 = n /\ Len(t) # 0
    BY <1>1, <1>3
  <2>2. t[Len(t)] = s[n] /\ t # <<>>
    BY <1>1, <2>1, EmptySeq
  <2>3. QED
    BY <2>2 DEF LastOr, t, n
<1>4. QED
  BY <1>1, <1>2, <1>3

LEMMA KindFacts ==
  ASSUME NEW S, NEW s \in Seq(S)
  PROVE  /\ Kinds(<<>>) = {}
         /\ \A e \in S : Kinds(Append(s, e)) = Kinds(s) \cup {e}
         /\ s # <<>> => /\ Kinds(s) = {Head(s)} \cup Kinds(Tail(s))
                        /\ Tail(s) \o <<>> = Tail(s) /\ Tail(s) \in Seq(S)
                        /\ Head(s) \in S
<1>1. ASSUME NEW e \in S PROVE Kinds(Append(s, e)) = Kinds(s) \cup {e}
  <2>1. /\ DOMAIN s = 1..Len(s) /\ Len(s) \in Nat
        /\ DOMAIN Append(s, e) = 1..Len(s) + 1
        /\ Append(s, e)[Len(s) + 1] = e
        /\ \A i \in 1..Len(s) : Append(s, e)[i] = s[i]
    OBVIOUS
  <2> DEFINE t == Append(s, e)
  <2> HIDE DEF t
  <2>2. \A i \in DOMAIN t : i \in DOMAIN s \/ i = Len(s) + 1
    BY <2>1 DEF t
  <2>3. \A i \in DOMAIN s : i \in DOMAIN t /\ t[i] = s[i]
    BY <2>1 DEF t
  <2>4. Len(s) + 1 \in DOMAIN t /\ t[Len(s) + 1] = e
    BY <2>1 DEF t
  <2>5. Kinds(t) \subseteq Kinds(s) \cup {e}
    BY <2>2, <2>3, <2>4 DEF Kinds
  <2>6. Kinds(s) \cup {e} \subseteq Kinds(t)
    BY <2>3, <2>4 DEF Kinds
  <2>7. QED
    BY <2>5, <2>6 DEF t
<1>2. ASSUME s # <<>> PROVE Kinds(s) = {Head(s)} \cup Kinds(Tail(s))
  <2> DEFINE t == Tail(s)
             n == Len(s)
  <2>1. /\ DOMAIN s = 1..n /\ n \in Nat \ {0} /\ Head(s) = s[1]
        /\ DOMAIN t = 1..n - 1 /\ \A i \in 1..n - 1 : t[i] = s[i + 1]
    BY <1>2
  <2> HIDE DEF t, n
  <2>2. \A i \in DOMAIN s : i = 1 \/ (i - 1 \in DOMAIN t /\ t[i - 1] = s[i])
    <3>1. \A i \in 1..n : i = 1 \/ (i - 1 \in 1..n - 1 /\ i - 1 + 1 = i)
      BY <2>1
    <3>2. QED
      BY <2>1, <3>1
  <2>3. \A i \in DOMAIN t : i + 1 \in DOMAIN s /\ t[i] = s[i + 1]
    BY <2>1
  <2>4. 1 \in DOMAIN s
    BY <2>1
  <2>5. Kinds(s) \subseteq {Head(s)} \cup Kinds(t)
    BY <2>1, <2>2 DEF Kinds
  <2>6. {Head(s)} \cup Kinds(t) \subseteq Kinds(s)
    BY <2>1, <2>3, <2>4 DEF Kinds
  <2>7. QED
    BY <2>5, <2>6 DEF t
<1>3. ASSUME s # <<>> PROVE Tail(s) \o <<>> = Tail(s) /\ Tail(s) \in Seq(S) /\ Head(s) \in S
  <2>1. Tail(s) \in Seq(S) /\ Head(s) \in S
    BY <1>3
  <2>2. QED
    BY <2>1, ConcatEmptySeq
<1>4. Kinds(<<>>) = {}
  BY DEF Kinds
<1>5. QED
  BY <1>1, <1>2, <1>3, <1>4

-----------------------------------------------------------------------------
(* Types. *)

USE ClipboardAssumption

LEMMA QueueTypes ==
  ASSUME NEW f \in [Viewers -> Seq(Texts)], NEW v \in Viewers
  PROVE  /\ \A t \in Texts : Put(f, v, t) \in [Viewers -> Seq(Texts)]
         /\ f[v] # <<>> => /\ Take(f, v) \in [Viewers -> Seq(Texts)]
                          /\ Head(f[v]) \in Texts
<1>1. f[v] \in Seq(Texts)
  OBVIOUS
<1>2. \A t \in Texts : Append(f[v], t) \in Seq(Texts)
  BY <1>1
<1>3. f[v] # <<>> => Tail(f[v]) \in Seq(Texts) /\ Head(f[v]) \in Texts
  BY <1>1, KindFacts
<1>4. QED
  BY <1>2, <1>3 DEF Put, Take

LEMMA EventTypes ==
  ASSUME x_events \in Seq(Events)
  PROVE  /\ \A e \in Events : Append(x_events, e) \in Seq(Events)
         /\ \A kind :
              HostEvent(kind, <<>>) => x_events' \in Seq(Events)
         /\ \A kind : \A e \in Events :
              HostEvent(kind, <<e>>) => x_events' \in Seq(Events)
<1>1. \A e \in Events : Append(x_events, e) \in Seq(Events) /\ <<e>> \in Seq(Events)
  OBVIOUS
<1>2. x_events # <<>> => Tail(x_events) \in Seq(Events)
  BY KindFacts
<1>3. <<>> \in Seq(Events)
  OBVIOUS
<1>4. \A s, t \in Seq(Events) : s \o t \in Seq(Events)
  OBVIOUS
<1>5. QED
  BY <1>1, <1>2, <1>3, <1>4 DEF HostEvent

LEMMA InitTypes == ClipboardInit => ClipTypes
<1>1. NoText \in TextOrNone /\ <<>> \in Seq(Events) /\ <<>> \in Seq(Texts)
      /\ 0 \in 0..MaxCopies
  BY DEF TextOrNone
<1>2. /\ [v \in Viewers |-> "app"] \in [Viewers -> {"app", "viewer"}]
      /\ [v \in Viewers |-> NoText] \in [Viewers -> TextOrNone]
      /\ [v \in Viewers |-> 0] \in [Viewers -> Nat]
      /\ [v \in Viewers |-> <<>>] \in [Viewers -> Seq(Texts)]
  BY <1>1
<1>3. ASSUME ClipboardInit PROVE ClipTypes
  <2>1. /\ view_owner \in [Viewers -> {"app", "viewer"}]
        /\ local_text \in [Viewers -> TextOrNone]
        /\ set_text \in [Viewers -> TextOrNone]
        /\ last_sent \in [Viewers -> TextOrNone]
        /\ changes \in [Viewers -> Nat] /\ requested \in [Viewers -> Nat]
    BY <1>2, <1>3 DEF ClipboardInit
  <2>2. /\ to_apply \in [Viewers -> Seq(Texts)]
        /\ down \in [Viewers -> Seq(Texts)] /\ up \in [Viewers -> Seq(Texts)]
    BY <1>2, <1>3 DEF ClipboardInit
  <2>3. /\ owner \in {"app", "server"} /\ x_events \in Seq(Events) /\ converting \in Nat
        /\ app_text \in TextOrNone /\ g_clipboard_text \in TextOrNone
        /\ property \in TextOrNone
    BY <1>1, <1>3 DEF ClipboardInit
  <2>4. /\ lately \subseteq copiers /\ copiers \subseteq Viewers \cup {"host"}
        /\ rivals \in BOOLEAN /\ copies \in 0..MaxCopies
    BY <1>1, <1>3 DEF ClipboardInit
  <2>5. QED
    BY <2>1, <2>2, <2>3, <2>4 DEF ClipTypes
<1>4. QED
  BY <1>3

LEMMA CopyingTypes ==
  ASSUME ClipTypes, NEW place \in Viewers \cup {"host"}, Copying(place)
  PROVE  /\ lately' \subseteq copiers' /\ copiers' \subseteq Viewers \cup {"host"}
         /\ rivals' \in BOOLEAN /\ copies' \in 0..MaxCopies
         /\ down' = down /\ up' = up
<1>1. copies + 1 \in 0..MaxCopies
  BY DEF ClipTypes, Copying
<1>2. lately' \subseteq copiers' /\ copiers' \subseteq Viewers \cup {"host"}
  BY DEF ClipTypes, Copying
<1>3. QED
  BY <1>1, <1>2 DEF ClipTypes, Copying, onWire

LEMMA HostTypes ==
  ASSUME ClipTypes
  PROVE  /\ \A text \in Texts : HostCopy(text) => ClipTypes'
         /\ AppAnswers => ClipTypes'
         /\ XFixesSelectionNotify \/ SelectionRequest => ClipTypes'
         /\ SelectionNotify => ClipTypes'
         /\ \A v \in Viewers : OnClipboard(v) => ClipTypes'
<1>1. ASSUME NEW text \in Texts, HostCopy(text) PROVE ClipTypes'
  <2>1. Copying("host") /\ "owner app" \in Events /\ text \in TextOrNone
    BY <1>1 DEF HostCopy, Events, TextOrNone
  <2>2. x_events' \in Seq(Events)
    BY <1>1, <2>1, EventTypes DEF HostCopy, ClipTypes
  <2>3. QED
    BY <1>1, <2>1, <2>2, CopyingTypes DEF HostCopy, ClipTypes, atViewer
<1>2. ASSUME AppAnswers PROVE ClipTypes'
  <2>1. x_events' \in Seq(Events)
    BY <1>2, EventTypes DEF AppAnswers, ClipTypes, Events
  <2>2. QED
    BY <1>2, <2>1 DEF AppAnswers, ClipTypes, atViewer, onWire, copyHistory
<1>3. ASSUME XFixesSelectionNotify \/ SelectionRequest PROVE ClipTypes'
  <2>1. x_events' \in Seq(Events)
    BY <1>3, EventTypes DEF XFixesSelectionNotify, SelectionRequest, ClipTypes, Events
  <2>2. converting' \in Nat
    <3>1. converting \in Nat
      BY DEF ClipTypes
    <3>2. converting' \in {converting, converting + 1}
      BY <1>3 DEF XFixesSelectionNotify, SelectionRequest
    <3>3. QED
      BY <3>1, <3>2
  <2>3. QED
    BY <1>3, <2>1, <2>2 DEF XFixesSelectionNotify, SelectionRequest, HostEvent,
                            ClipTypes, atViewer, copyHistory
<1>4. ASSUME SelectionNotify PROVE ClipTypes'
  <2>1. x_events' \in Seq(Events)
    BY <1>4, EventTypes DEF SelectionNotify, ClipTypes, Events
  <2>2. down' \in [Viewers -> Seq(Texts)]
    <3>1. CASE property \in {NoText, g_clipboard_text}
      BY <1>4, <3>1 DEF SelectionNotify, ClipTypes
    <3>2. CASE property \notin {NoText, g_clipboard_text}
      <4>1. property \in Texts /\ SendClipboard(property)
        BY <1>4, <3>2 DEF SelectionNotify, ClipTypes, TextOrNone
      <4>2. \A v \in Viewers : Append(down[v], property) \in Seq(Texts)
        BY <4>1 DEF ClipTypes
      <4>3. QED
        BY <4>1, <4>2 DEF SendClipboard
    <3>3. QED
      BY <3>1, <3>2
  <2>3. NoText \in TextOrNone
    BY DEF TextOrNone
  <2>4. QED
    BY <1>4, <2>1, <2>2, <2>3 DEF SelectionNotify, HostEvent, ClipTypes, atViewer, copyHistory
<1>5. ASSUME NEW v \in Viewers, OnClipboard(v) PROVE ClipTypes'
  <2>1. x_events' \in Seq(Events)
    BY <1>5, EventTypes DEF OnClipboard, ClipTypes, Events
  <2>2. up' \in [Viewers -> Seq(Texts)] /\ g_clipboard_text' \in TextOrNone
    BY <1>5, QueueTypes DEF OnClipboard, ClipTypes, TextOrNone
  <2>3. QED
    BY <1>5, <2>1, <2>2 DEF OnClipboard, ClipTypes, atViewer, copyHistory
<1>6. QED
  BY <1>1, <1>2, <1>3, <1>4, <1>5

LEMMA ReceivedTypes ==
  ASSUME ClipTypes, NEW v \in Viewers, NEW text \in TextOrNone, TextReceived(v, text)
  PROVE  up' \in [Viewers -> Seq(Texts)] /\ last_sent' \in [Viewers -> TextOrNone]
<1>1. CASE text \in {NoText, last_sent[v]}
  BY <1>1 DEF ClipTypes, TextReceived
<1>2. CASE text \notin {NoText, last_sent[v]}
  <2>1. text \in Texts
    BY <1>2 DEF TextOrNone
  <2>2. Put(up, v, text) \in [Viewers -> Seq(Texts)]
    BY <2>1, QueueTypes DEF ClipTypes
  <2>3. up' = Put(up, v, text) /\ last_sent' = [last_sent EXCEPT ![v] = text]
    BY <1>2 DEF TextReceived
  <2>4. QED
    BY <2>2, <2>3 DEF ClipTypes
<1>3. QED
  BY <1>1, <1>2

LEMMA ViewerTypes ==
  ASSUME ClipTypes, NEW v \in Viewers
  PROVE  /\ \A text \in Texts : LocalCopy(v, text) => ClipTypes'
         /\ OnClipboardOwnerChange(v) => ClipTypes'
         /\ LocalAppAnswers(v) => ClipTypes'
         /\ OnClipboardUpdate(v) => ClipTypes'
         /\ ApplyServerClipboard(v) => ClipTypes'
<1> USE DEF ViewerStep, atHost, copyHistory, onWire
<1>1. ASSUME NEW text \in Texts, LocalCopy(v, text) PROVE ClipTypes'
  <2>1. Copying(v) /\ text \in TextOrNone
    BY <1>1 DEF LocalCopy, TextOrNone
  <2>2. QED
    BY <1>1, <2>1, CopyingTypes DEF LocalCopy, ClipTypes
<1>2. ASSUME OnClipboardOwnerChange(v) PROVE ClipTypes'
  <2>1. changes' \in [Viewers -> Nat]
    BY <1>2 DEF OnClipboardOwnerChange, ClipTypes
  <2>2. CASE view_owner[v] = "app"
    <3>1. requested' = [requested EXCEPT ![v] = @ + 1]
          /\ UNCHANGED <<view_owner, local_text, set_text, to_apply, last_sent,
                         onWire>>
      BY <1>2, <2>2 DEF OnClipboardOwnerChange
    <3>2. requested' \in [Viewers -> Nat]
      BY <3>1 DEF ClipTypes
    <3>3. QED
      BY <1>2, <2>1, <3>1, <3>2 DEF OnClipboardOwnerChange, ClipTypes
  <2>3. CASE view_owner[v] = "viewer"
    <3>1. TextReceived(v, set_text[v]) /\ UNCHANGED requested
      BY <1>2, <2>3 DEF OnClipboardOwnerChange
    <3>2. up' \in [Viewers -> Seq(Texts)] /\ last_sent' \in [Viewers -> TextOrNone]
      BY <3>1, ReceivedTypes DEF ClipTypes
    <3>3. QED
      BY <1>2, <2>1, <3>1, <3>2 DEF OnClipboardOwnerChange, TextReceived, ClipTypes
  <2>4. QED
    BY <1>2, <2>2, <2>3 DEF OnClipboardOwnerChange
<1>3. ASSUME LocalAppAnswers(v) PROVE ClipTypes'
  <2>1. requested' \in [Viewers -> Nat]
    BY <1>3 DEF LocalAppAnswers, ClipTypes
  <2>2. up' \in [Viewers -> Seq(Texts)] /\ last_sent' \in [Viewers -> TextOrNone]
    BY <1>3, ReceivedTypes DEF LocalAppAnswers, ClipTypes
  <2>3. QED
    BY <1>3, <2>1, <2>2 DEF LocalAppAnswers, TextReceived, ClipTypes
<1>4. ASSUME OnClipboardUpdate(v) PROVE ClipTypes'
  <2>1. down' \in [Viewers -> Seq(Texts)] /\ to_apply' \in [Viewers -> Seq(Texts)]
    BY <1>4, QueueTypes DEF OnClipboardUpdate, ClipTypes
  <2>2. QED
    BY <1>4, <2>1 DEF OnClipboardUpdate, ClipTypes
<1>5. ASSUME ApplyServerClipboard(v) PROVE ClipTypes'
  <2>1. to_apply' \in [Viewers -> Seq(Texts)] /\ Head(to_apply[v]) \in TextOrNone
    BY <1>5, QueueTypes DEF ApplyServerClipboard, ClipTypes, TextOrNone
  <2>2. changes' \in [Viewers -> Nat] /\ view_owner' \in [Viewers -> {"app", "viewer"}]
    BY <1>5 DEF ApplyServerClipboard, ClipTypes
  <2>3. QED
    BY <1>5, <2>1, <2>2 DEF ApplyServerClipboard, Remembers, ClipTypes
<1>6. QED
  BY <1>1, <1>2, <1>3, <1>4, <1>5

LEMMA ClipTypesStep ==
  ASSUME ClipTypes, [ClipboardNext]_clipboardVars
  PROVE  ClipTypes'
<1>1. CASE ClipboardNext
  BY <1>1, HostTypes, ViewerTypes DEF ClipboardNext
<1>2. CASE UNCHANGED clipboardVars
  BY <1>2 DEF clipboardVars, atHost, atViewer, onWire, copyHistory, ClipTypes
<1>3. QED
  BY <1>1, <1>2

-----------------------------------------------------------------------------
(* A copy gives rise to one event, and that to one conversion.             *)

CopyEvents(s) == {i \in DOMAIN s : s[i] = "owner app"}
Unasked == Cardinality(CopyEvents(x_events))
Counted == Unasked + converting <= copies

LEMMA CopyEventsFinite ==
  ASSUME NEW s \in Seq(Events)
  PROVE  IsFiniteSet(CopyEvents(s)) /\ Cardinality(CopyEvents(s)) \in Nat
<1>1. Len(s) \in Nat /\ DOMAIN s = 1..Len(s)
  OBVIOUS
<1>2. IsFiniteSet(1..Len(s))
  BY <1>1, FS_Interval
<1>3. CopyEvents(s) \subseteq 1..Len(s)
  BY <1>1 DEF CopyEvents
<1>4. QED
  BY <1>2, <1>3, FS_Subset, FS_CardinalityType

LEMMA EventCounted ==
  ASSUME NEW s \in Seq(Events), NEW e \in Events
  PROVE  Cardinality(CopyEvents(Append(s, e))) =
           IF e = "owner app" THEN Cardinality(CopyEvents(s)) + 1
           ELSE Cardinality(CopyEvents(s))
<1> DEFINE t == Append(s, e)
           n == Len(s)
<1>1. /\ DOMAIN s = 1..n /\ n \in Nat /\ DOMAIN t = 1..n + 1
      /\ t[n + 1] = e /\ \A i \in 1..n : t[i] = s[i]
  OBVIOUS
<1> HIDE DEF t, n
<1>a. n + 1 \notin 1..n /\ 1..n + 1 = 1..n \cup {n + 1}
  BY <1>1
<1>b. \A i : i \in CopyEvents(s) <=> i \in 1..n /\ s[i] = "owner app"
  BY <1>1 DEF CopyEvents
<1>c. \A i : i \in CopyEvents(t) <=> i \in 1..n + 1 /\ t[i] = "owner app"
  BY <1>1 DEF CopyEvents
<1>d. \A i : i \in CopyEvents(t) <=>
        \/ i \in CopyEvents(s)
        \/ i = n + 1 /\ e = "owner app"
  <2>1. ASSUME NEW i \in 1..n PROVE i \in CopyEvents(t) <=> i \in CopyEvents(s)
    BY <1>1, <1>a, <1>b, <1>c
  <2>2. n + 1 \in CopyEvents(t) <=> e = "owner app"
    BY <1>1, <1>a, <1>c
  <2>3. QED
    BY <1>a, <1>b, <1>c, <2>1, <2>2
<1>2. n + 1 \notin CopyEvents(s)
  BY <1>a, <1>b
<1>3. CASE e = "owner app"
  <2>1. CopyEvents(t) = CopyEvents(s) \cup {n + 1}
    BY <1>d, <1>3
  <2>2. QED
    BY <1>2, <1>3, <2>1, CopyEventsFinite, FS_AddElement DEF t
<1>4. CASE e # "owner app"
  <2>1. CopyEvents(t) = CopyEvents(s)
    BY <1>d, <1>4
  <2>2. QED
    BY <1>4, <2>1 DEF t
<1>5. QED
  BY <1>3, <1>4

LEMMA EventUncounted ==
  ASSUME NEW s \in Seq(Events), s # <<>>
  PROVE  Cardinality(CopyEvents(s)) =
           IF Head(s) = "owner app" THEN Cardinality(CopyEvents(Tail(s))) + 1
           ELSE Cardinality(CopyEvents(Tail(s)))
<1> DEFINE t == Tail(s)
           n == Len(s)
           f == [i \in CopyEvents(t) |-> i + 1]
<1>1. /\ DOMAIN s = 1..n /\ n \in Nat \ {0} /\ Head(s) = s[1]
      /\ t \in Seq(Events) /\ DOMAIN t = 1..n - 1 /\ \A i \in 1..n - 1 : t[i] = s[i + 1]
  OBVIOUS
<1> HIDE DEF t, n
<1>a. \A i : i \in CopyEvents(s) <=> i \in 1..n /\ s[i] = "owner app"
  BY <1>1 DEF CopyEvents
<1>b. \A i : i \in CopyEvents(t) <=> i \in 1..n - 1 /\ t[i] = "owner app"
  BY <1>1 DEF CopyEvents
<1>2. \A i \in 1..n : i # 1 => i - 1 \in 1..n - 1 /\ i - 1 + 1 = i
  BY <1>1
<1>3. \A i \in 1..n - 1 : i + 1 \in 1..n /\ i + 1 # 1
  BY <1>1
<1>4. f \in [CopyEvents(t) -> CopyEvents(s) \ {1}]
  BY <1>1, <1>3, <1>a, <1>b
<1>5. \A i, j \in CopyEvents(t) : f[i] = f[j] => i = j
  <2>1. CopyEvents(t) \subseteq Int
    <3>1. 1..n - 1 \subseteq Int
      OBVIOUS
    <3>2. QED
      BY <1>b, <3>1
  <2>2. QED
    BY <2>1
<1>6. ASSUME NEW j \in CopyEvents(s) \ {1} PROVE \E i \in CopyEvents(t) : f[i] = j
  <2>1. j - 1 \in CopyEvents(t) /\ j - 1 + 1 = j
    BY <1>1, <1>2, <1>a, <1>b
  <2>2. QED
    BY <2>1
<1>7. f \in Bijection(CopyEvents(t), CopyEvents(s) \ {1})
  <2> HIDE DEF f
  <2>1. QED
    BY <1>4, <1>5, <1>6 DEF Bijection, Injection, IsInjective, Surjection
<1>8. ExistsBijection(CopyEvents(t), CopyEvents(s) \ {1})
  BY <1>7 DEF ExistsBijection
<1>9. Cardinality(CopyEvents(s) \ {1}) = Cardinality(CopyEvents(t))
  BY <1>1, <1>8, CopyEventsFinite, FS_Bijection
<1>10. 1 \in CopyEvents(s) <=> Head(s) = "owner app"
  <2>1. 1 \in 1..n
    BY <1>1
  <2>2. QED
    BY <1>1, <1>a, <2>1
<1>11. QED
  <2>1. /\ IsFiniteSet(CopyEvents(s)) /\ Cardinality(CopyEvents(s)) \in Nat
        /\ Cardinality(CopyEvents(t)) \in Nat
    BY <1>1, CopyEventsFinite
  <2>2. Cardinality(CopyEvents(s) \ {1}) =
          IF 1 \in CopyEvents(s) THEN Cardinality(CopyEvents(s)) - 1
          ELSE Cardinality(CopyEvents(s))
    BY <2>1, FS_RemoveElement
  <2> DEFINE a == Cardinality(CopyEvents(s))
             b == Cardinality(CopyEvents(t))
  <2>3. a \in Nat /\ b \in Nat /\ b = IF Head(s) = "owner app" THEN a - 1 ELSE a
    BY <1>9, <1>10, <2>1, <2>2
  <2> HIDE DEF a, b
  <2>4. a = IF Head(s) = "owner app" THEN b + 1 ELSE b
    <3>1. CASE Head(s) = "owner app"
      <4>1. b = a - 1 /\ a \in Nat
        BY <2>3, <3>1
      <4>2. a = b + 1
        BY ONLY <4>1
      <4>3. QED
        BY <3>1, <4>2
    <3>2. CASE Head(s) # "owner app"
      BY <2>3, <3>2
    <3>3. QED
      BY <3>1, <3>2
  <2>5. QED
    BY <2>4 DEF a, b, t

LEMMA CountedStep ==
  ASSUME ClipTypes, Counted, [ClipboardNext]_clipboardVars
  PROVE  Counted'
<1>1. /\ x_events \in Seq(Events) /\ converting \in Nat /\ copies \in Nat
      /\ Unasked \in Nat
  BY CopyEventsFinite DEF ClipTypes, Unasked
<1>2. ASSUME NEW e \in Events, x_events' = Append(x_events, e)
      PROVE  Unasked' = IF e = "owner app" THEN Unasked + 1 ELSE Unasked
  BY <1>1, <1>2, EventCounted DEF Unasked
<1>3. ASSUME NEW kind, HostEvent(kind, <<>>)
      PROVE  Unasked = IF kind = "owner app" THEN Unasked' + 1 ELSE Unasked'
  <2>1. x_events # <<>> /\ Head(x_events) = kind /\ x_events' = Tail(x_events)
    BY <1>1, <1>3, KindFacts DEF HostEvent
  <2>2. QED
    BY <1>1, <2>1, EventUncounted DEF Unasked
<1>4. ASSUME NEW kind, NEW e \in Events \ {"owner app"}, HostEvent(kind, <<e>>)
      PROVE  Unasked = IF kind = "owner app" THEN Unasked' + 1 ELSE Unasked'
  <2> DEFINE t == Tail(x_events)
  <2>1. x_events # <<>> /\ Head(x_events) = kind /\ t \in Seq(Events)
    BY <1>1, <1>4, KindFacts DEF HostEvent
  <2>2. x_events' = Append(t, e)
    <3>1. x_events' = t \o <<e>>
      BY <1>4 DEF HostEvent
    <3> HIDE DEF t
    <3>2. QED
      BY <2>1, <3>1, AppendIsConcat
  <2>3. Cardinality(CopyEvents(Append(t, e))) = Cardinality(CopyEvents(t))
    <3> HIDE DEF t
    <3>1. QED
      BY <2>1, EventCounted
  <2>4. Cardinality(CopyEvents(x_events)) =
          IF kind = "owner app" THEN Cardinality(CopyEvents(t)) + 1
          ELSE Cardinality(CopyEvents(t))
    BY <1>1, <2>1, EventUncounted
  <2>5. QED
    BY <2>2, <2>3, <2>4 DEF Unasked
<1>5. Unasked' \in Nat
  BY ClipTypesStep, CopyEventsFinite DEF ClipTypes, Unasked
<1>6. ASSUME NEW text \in Texts, HostCopy(text) PROVE Counted'
  <2>1. Unasked' = Unasked + 1
    BY <1>2, <1>6 DEF HostCopy, Events
  <2>2. copies' = copies + 1 /\ converting' = converting
    BY <1>6 DEF HostCopy, Copying
  <2>3. QED
    BY <1>1, <2>1, <2>2 DEF Counted
<1>7. CASE AppAnswers
  <2>1. Unasked' = Unasked /\ converting' = converting - 1 /\ copies' = copies
    BY <1>2, <1>7 DEF AppAnswers, Events, copyHistory
  <2>2. QED
    BY <1>1, <2>1 DEF Counted
<1>8. CASE XFixesSelectionNotify
  <2>1. copies' = copies
    BY <1>8 DEF XFixesSelectionNotify, HostEvent, copyHistory
  <2>2. \/ Unasked = Unasked' + 1 /\ converting' = converting + 1
        \/ (Unasked = Unasked' + 1 \/ Unasked = Unasked') /\ converting' = converting
    BY <1>3, <1>4, <1>8 DEF XFixesSelectionNotify, Events
  <2> DEFINE a == Unasked
             b == Unasked'
  <2>3. a + converting <= copies /\ a \in Nat /\ b \in Nat
    BY <1>1, <1>5 DEF Counted
  <2>4. \/ a = b + 1 /\ converting' = converting + 1
        \/ (a = b + 1 \/ a = b) /\ converting' = converting
    BY <2>2
  <2> HIDE DEF a, b
  <2>5. b + converting' <= copies
    BY <1>1, <2>3, <2>4
  <2>6. QED
    BY <2>1, <2>5 DEF Counted, b
<1>9. CASE SelectionRequest \/ SelectionNotify
  <2>1. copies' = copies /\ converting' = converting
    BY <1>9 DEF SelectionRequest, SelectionNotify, HostEvent, copyHistory
  <2>2. Unasked = Unasked'
    <3>1. CASE SelectionRequest
      <4>1. HostEvent("request", <<"notify">>) /\ "notify" \in Events \ {"owner app"}
        BY <3>1 DEF SelectionRequest, Events
      <4>2. Unasked = IF "request" = "owner app" THEN Unasked' + 1 ELSE Unasked'
        BY <1>4, <4>1
      <4>3. QED
        BY <4>2
    <3>2. CASE SelectionNotify
      <4>1. HostEvent("notify", <<>>)
        BY <3>2 DEF SelectionNotify
      <4>2. Unasked = IF "notify" = "owner app" THEN Unasked' + 1 ELSE Unasked'
        BY <1>3, <4>1
      <4>3. QED
        BY <4>2
    <3>3. QED
      BY <1>9, <3>1, <3>2
  <2>3. QED
    BY <1>1, <2>1, <2>2 DEF Counted
<1>10. ASSUME NEW v \in Viewers, OnClipboard(v) PROVE Counted'
  <2>1. Unasked' = Unasked /\ converting' = converting /\ copies' = copies
    BY <1>2, <1>10 DEF OnClipboard, Events, copyHistory
  <2>2. QED
    BY <2>1 DEF Counted
<1>11. ASSUME NEW v \in Viewers, NEW text \in Texts, LocalCopy(v, text) PROVE Counted'
  <2>1. x_events' = x_events /\ converting' = converting /\ copies' = copies + 1
    BY <1>11 DEF LocalCopy, Copying, atHost
  <2>2. QED
    BY <1>1, <2>1 DEF Counted, Unasked
<1>12. ASSUME \/ UNCHANGED clipboardVars
              \/ \E v \in Viewers :
                   \/ OnClipboardOwnerChange(v) \/ LocalAppAnswers(v)
                   \/ OnClipboardUpdate(v) \/ ApplyServerClipboard(v)
       PROVE  Counted'
  <2>1. x_events' = x_events /\ converting' = converting /\ copies' = copies
    BY <1>12 DEF OnClipboardOwnerChange, LocalAppAnswers, OnClipboardUpdate,
         ApplyServerClipboard, ViewerStep, atHost, copyHistory, clipboardVars
  <2>2. QED
    BY <2>1 DEF Counted, Unasked
<1>13. QED
  BY <1>6, <1>7, <1>8, <1>9, <1>10, <1>11, <1>12 DEF ClipboardNext

LEMMA TypesCounted == ClipTypes /\ Counted => ClipboardTypeOK
<1> SUFFICES ASSUME ClipTypes, Counted PROVE ClipboardTypeOK
  OBVIOUS
<1>1. Unasked \in Nat /\ converting \in Nat /\ copies \in 0..MaxCopies
  BY CopyEventsFinite DEF ClipTypes, Unasked
<1>2. converting \in 0..MaxCopies
  BY <1>1 DEF Counted
<1>3. QED
  BY <1>2 DEF ClipTypes, ClipboardTypeOK, Events

-----------------------------------------------------------------------------
(* While copies of the host are under way. *)

\* Events go on to be of some kinds when one of them has been taken off.
LEMMA EventTaken ==
  ASSUME x_events \in Seq(Events), NEW kind, HostEvent(kind, <<>>)
  PROVE  /\ kind \in Kinds(x_events)
         /\ Kinds(x_events) = {kind} \cup Kinds(x_events')
<1>1. x_events # <<>> /\ Head(x_events) = kind /\ x_events' = Tail(x_events) \o <<>>
  BY DEF HostEvent
<1>2. QED
  BY <1>1, KindFacts

LEMMA EventAdded ==
  ASSUME x_events \in Seq(Events), NEW kind \in Events, x_events' = Append(x_events, kind)
  PROVE  Kinds(x_events') = Kinds(x_events) \cup {kind}
BY KindFacts

LEMMA HostAnswers ==
  ASSUME ClipTypes, Kept, HostCopies, AppAnswers
  PROVE  Kept' /\ HostCopies'
<1> USE DEF atViewer, onWire, copyHistory
<1>1. Kinds(x_events') = Kinds(x_events) \cup {"notify"}
  BY EventAdded DEF AppAnswers, ClipTypes, Events
<1>2. UNCHANGED <<atViewer, onWire, copyHistory, g_clipboard_text, owner, app_text>>
  BY DEF AppAnswers
<1>3. Kept'
  BY <1>1, <1>2 DEF Kept
<1>4. ASSUME NEW v \in Viewers
      PROVE  (Informed(v)' <=> Informed(v)) /\ (Alone(v)' <=> Alone(v))
  BY <1>2 DEF Informed, Coming, ViewerText, Alone
<1>5. property' = app_text'
  BY <1>2 DEF AppAnswers
<1>6. QED
  BY <1>1, <1>2, <1>3, <1>4, <1>5 DEF HostCopies

LEMMA HostAsks ==
  ASSUME ClipTypes, Kept, HostCopies, XFixesSelectionNotify
  PROVE  Kept' /\ HostCopies'
<1> USE DEF atViewer, onWire, copyHistory
<1>1. Kinds(x_events) \subseteq {"owner app", "notify"} /\ owner = "app"
      /\ x_events \in Seq(Events) /\ converting \in Nat
  BY DEF HostCopies, ClipTypes
<1>2. HostEvent("owner app", <<>>) /\ converting' = converting + 1
  <2>1. ASSUME HostEvent("owner server", <<>>) PROVE FALSE
    <3>1. "owner server" \in Kinds(x_events)
      BY <1>1, <2>1, EventTaken
    <3>2. QED
      BY <1>1, <3>1
  <2>2. QED
    BY <1>1, <2>1 DEF XFixesSelectionNotify
<1>3. Kinds(x_events) = {"owner app"} \cup Kinds(x_events')
  BY <1>1, <1>2, EventTaken
<1>4. UNCHANGED <<atViewer, onWire, copyHistory, g_clipboard_text, owner, app_text, property>>
  BY <1>2 DEF HostEvent, XFixesSelectionNotify
<1>5. Kept'
  <2>1. property' # NoText => "notify" \in Kinds(x_events')
    BY <1>3, <1>4 DEF Kept
  <2>2. QED
    BY <1>4, <2>1 DEF Kept
<1>6. ASSUME NEW v \in Viewers
      PROVE  (Informed(v)' <=> Informed(v)) /\ (Alone(v)' <=> Alone(v))
  BY <1>4 DEF Informed, Coming, ViewerText, Alone
<1>7. converting' > 0
  <2>1. converting \in Nat /\ converting' = converting + 1
    BY <1>1, <1>2
  <2>2. QED
    BY <2>1
<1>8. Kinds(x_events') \subseteq {"owner app", "notify"}
  BY <1>1, <1>3
<1>9. QED
  BY <1>4, <1>5, <1>6, <1>7, <1>8 DEF HostCopies

LEMMA HostReads ==
  ASSUME ClipTypes, Kept, HostCopies, SelectionNotify
  PROVE  Kept' /\ HostCopies'
<1> USE DEF atViewer, copyHistory
<1>1. Kinds(x_events) \subseteq {"owner app", "notify"} /\ owner = "app"
      /\ x_events \in Seq(Events) /\ property \in TextOrNone
      /\ down \in [Viewers -> Seq(Texts)]
  BY DEF HostCopies, ClipTypes
<1>2. HostEvent("notify", <<>>) /\ property' = NoText /\ converting' = converting
  BY DEF SelectionNotify
<1>3. Kinds(x_events) = {"notify"} \cup Kinds(x_events')
  BY <1>1, <1>2, EventTaken
<1>4. UNCHANGED <<atViewer, up, copyHistory, owner, app_text>>
  BY <1>2 DEF HostEvent
<1>5. Kept'
  BY <1>2, <1>4 DEF Kept
<1>6. Kinds(x_events') \subseteq {"owner app", "notify"}
  BY <1>1, <1>3
<1>7. "owner app" \in Kinds(x_events) => "owner app" \in Kinds(x_events')
  BY <1>3
<1>8. ASSUME NEW v \in Viewers, Alone(v)' PROVE Informed(v)'
  <2>1. Alone(v)
    BY <1>4, <1>8 DEF Alone
  <2>2. Informed(v)
    BY <2>1 DEF HostCopies
  <2>3. UNCHANGED <<ViewerText(v), last_sent[v], to_apply[v]>>
    BY <1>4 DEF ViewerText
  <2>4. CASE property \in {NoText, g_clipboard_text}
    <3>1. UNCHANGED <<g_clipboard_text, down>>
      BY <2>4 DEF SelectionNotify
    <3>2. QED
      BY <2>2, <2>3, <3>1 DEF Informed, Coming
  <2>5. CASE property \notin {NoText, g_clipboard_text}
    <3>1. property \in Texts
      BY <1>1, <2>5 DEF TextOrNone
    <3>2. g_clipboard_text' = property /\ down' = [w \in Viewers |-> Append(down[w], property)]
      BY <2>5 DEF SelectionNotify, SendClipboard
    <3>3. down[v] \in Seq(Texts) /\ down'[v] = Append(down[v], property)
      BY <1>1, <3>2
    <3>4. \A y : LastOr(down'[v], y) = property
      BY <3>1, <3>3, LastAdded
    <3>5. QED
      BY <3>2, <3>4 DEF Informed, Coming
  <2>6. QED
    BY <2>4, <2>5
<1>9. \/ "owner app" \in Kinds(x_events')
      \/ converting' > 0
      \/ property' = NoText /\ HostHolds'
  <2>1. CASE property = app_text
    <3>1. g_clipboard_text' = app_text
      BY <2>1 DEF SelectionNotify, HostCopies
    <3>2. QED
      BY <1>2, <1>4, <3>1 DEF HostHolds
  <2>2. CASE property = NoText /\ HostHolds
    <3>1. g_clipboard_text' = g_clipboard_text
      BY <2>2 DEF SelectionNotify
    <3>2. QED
      BY <1>2, <1>4, <2>2, <3>1 DEF HostHolds
  <2>3. CASE "owner app" \in Kinds(x_events) \/ converting > 0
    BY <1>2, <1>7, <2>3
  <2>4. QED
    BY <2>1, <2>2, <2>3 DEF HostCopies
<1>10. QED
  BY <1>4, <1>5, <1>6, <1>8, <1>9 DEF HostCopies

\* What does not happen to the host then.
LEMMA HostUndisturbed ==
  ASSUME ClipTypes, HostCopies
  PROVE  /\ ~SelectionRequest
         /\ \A v \in Viewers : ~OnClipboard(v) /\ ~LocalAppAnswers(v)
<1>1. ~SelectionRequest
  <2>1. "request" \notin Kinds(x_events) /\ x_events \in Seq(Events)
    BY DEF HostCopies, ClipTypes
  <2>2. x_events # <<>> => Head(x_events) \in Kinds(x_events)
    BY <2>1, KindFacts
  <2>3. QED
    BY <2>1, <2>2 DEF SelectionRequest, HostEvent
<1>2. ASSUME NEW v \in Viewers PROVE ~OnClipboard(v) /\ ~LocalAppAnswers(v)
  <2>1. up[v] = <<>> /\ requested[v] = 0
    BY DEF HostCopies
  <2>2. QED
    BY <2>1 DEF OnClipboard, LocalAppAnswers
<1>3. QED
  BY <1>1, <1>2

\* One viewer moves, and gets what it would have got.
LEMMA HostCopiesElsewhere ==
  ASSUME ClipTypes, Kept, HostCopies, NEW v \in Viewers, ViewerStep(v),
         UNCHANGED <<up, requested>>,
         \A w \in Viewers \ {v} :
           UNCHANGED <<changes[w], view_owner[w], last_sent[w], local_text[w],
                       set_text[w], to_apply[w], down[w]>>,
         view_owner'[v] = "viewer" => set_text'[v] = last_sent'[v],
         changes'[v] > 0 => view_owner'[v] = "viewer",
         Informed(v) => Informed(v)'
  PROVE  Kept' /\ HostCopies'
<1>1. UNCHANGED <<atHost, copyHistory, owner, app_text, g_clipboard_text, x_events,
                  converting, property, copiers>>
  BY DEF ViewerStep, atHost, copyHistory
<1>2. Kept'
  BY <1>1 DEF Kept
<1>3. ASSUME NEW w \in Viewers
      PROVE  /\ up'[w] = <<>> /\ requested'[w] = 0
             /\ changes'[w] > 0 => view_owner'[w] = "viewer"
             /\ Alone(w)' => Informed(w)'
  <2>1. Alone(w)' <=> Alone(w)
    BY <1>1 DEF Alone
  <2>2. CASE w = v
    BY <2>1, <2>2 DEF HostCopies
  <2>3. CASE w # v
    <3>1. Informed(w)' <=> Informed(w)
      BY <1>1, <2>3 DEF Informed, Coming, ViewerText
    <3>2. QED
      BY <2>1, <2>3, <3>1 DEF HostCopies
  <2>4. QED
    BY <2>2, <2>3
<1>4. HostHolds' <=> HostHolds
  BY <1>1 DEF HostHolds
<1>5. QED
  BY <1>1, <1>2, <1>3, <1>4 DEF HostCopies

LEMMA ViewerHears ==
  ASSUME ClipTypes, Kept, HostCopies, NEW v \in Viewers,
         OnClipboardOwnerChange(v) \/ OnClipboardUpdate(v) \/ ApplyServerClipboard(v)
  PROVE  Kept' /\ HostCopies'
<1> USE DEF onWire
<1>1. ViewerStep(v)
  BY DEF OnClipboardOwnerChange, OnClipboardUpdate, ApplyServerClipboard
<1>2. g_clipboard_text' = g_clipboard_text
  BY <1>1 DEF ViewerStep, atHost
<1>3. CASE OnClipboardOwnerChange(v)
  <2>1. changes[v] > 0 /\ view_owner[v] = "viewer" /\ set_text[v] = last_sent[v]
    BY <1>3 DEF OnClipboardOwnerChange, HostCopies, Kept
  <2>2. UNCHANGED <<up, requested, view_owner, last_sent, local_text, set_text, to_apply, down>>
    BY <1>3, <2>1 DEF OnClipboardOwnerChange, TextReceived
  <2>3. \A w \in Viewers \ {v} : changes'[w] = changes[w]
    BY <1>3 DEF OnClipboardOwnerChange, ClipTypes
  <2>4. Informed(v)' <=> Informed(v)
    BY <1>2, <2>2 DEF Informed, Coming, ViewerText
  <2>5. QED
    BY <1>1, <2>1, <2>2, <2>3, <2>4, HostCopiesElsewhere
<1>4. CASE OnClipboardUpdate(v)
  <2>1. /\ down[v] # <<>> /\ down[v] \in Seq(Texts) /\ Head(down[v]) \in Texts
        /\ to_apply[v] \in Seq(Texts)
    BY <1>4, QueueTypes DEF OnClipboardUpdate, ClipTypes
  <2>2. UNCHANGED <<up, requested, changes, view_owner, last_sent, local_text, set_text>>
    BY <1>4 DEF OnClipboardUpdate
  <2>3. /\ down'[v] = Tail(down[v]) /\ to_apply'[v] = Append(to_apply[v], Head(down[v]))
        /\ \A w \in Viewers \ {v} : down'[w] = down[w] /\ to_apply'[w] = to_apply[w]
    BY <1>4 DEF OnClipboardUpdate, Put, Take, ClipTypes
  <2>4. ASSUME NEW x PROVE Coming(v, x)' = Coming(v, x)
    <3>1. LastOr(to_apply'[v], x) = Head(down[v])
      BY <2>1, <2>3, LastAdded
    <3>2. \A z : LastOr(Tail(down[v]), Head(down[v])) = LastOr(down[v], z)
      BY <2>1, LastTaken
    <3>3. QED
      BY <2>3, <3>1, <3>2 DEF Coming
  <2>5. Informed(v) => Informed(v)'
    BY <1>2, <2>2, <2>4 DEF Informed, ViewerText
  <2>6. QED
    BY <1>1, <2>2, <2>3, <2>5, HostCopiesElsewhere DEF Kept, HostCopies
<1>5. CASE ApplyServerClipboard(v)
  <2> DEFINE h == Head(to_apply[v])
  <2>1. to_apply[v] # <<>> /\ to_apply[v] \in Seq(Texts)
    BY <1>5 DEF ApplyServerClipboard, ClipTypes
  <2>2. UNCHANGED <<up, down, requested, local_text>>
    BY <1>5 DEF ApplyServerClipboard
  <2>3. /\ to_apply'[v] = Tail(to_apply[v])
        /\ last_sent'[v] = h /\ set_text'[v] = h /\ view_owner'[v] = "viewer"
    BY <1>5 DEF ApplyServerClipboard, Remembers, Take, ClipTypes
  <2>4. \A w \in Viewers \ {v} :
          UNCHANGED <<changes[w], view_owner[w], last_sent[w], local_text[w],
                      set_text[w], to_apply[w], down[w]>>
    BY <1>5, <2>2 DEF ApplyServerClipboard, Remembers, Take, ClipTypes
  <2>5. ASSUME NEW x PROVE LastOr(down'[v], LastOr(to_apply'[v], h)) = Coming(v, x)
    <3>1. \A z : LastOr(Tail(to_apply[v]), h) = LastOr(to_apply[v], z)
      BY <2>1, LastTaken
    <3>2. QED
      BY <2>2, <2>3, <3>1 DEF Coming
  <2>6. ViewerText(v)' = h
    BY <2>3 DEF ViewerText
  <2>7. Informed(v) => Informed(v)'
    BY <1>2, <2>3, <2>5, <2>6 DEF Informed, Coming
  <2>8. QED
    BY <1>1, <2>2, <2>3, <2>4, <2>7, HostCopiesElsewhere
<1>6. QED
  BY <1>3, <1>4, <1>5

-----------------------------------------------------------------------------
(* While copies of a viewer are under way. *)

LEMMA ViewerUndisturbed ==
  ASSUME ClipTypes, NEW v \in Viewers, ViewerCopies(v)
  PROVE  /\ ~AppAnswers /\ ~SelectionRequest /\ ~SelectionNotify
         /\ \A w \in Viewers : ~OnClipboardUpdate(w) /\ ~ApplyServerClipboard(w)
         /\ \A w \in Viewers \ {v} : /\ ~OnClipboard(w) /\ ~OnClipboardOwnerChange(w)
                                    /\ ~LocalAppAnswers(w)
<1>1. ~AppAnswers
  <2>1. converting = 0
    BY DEF ViewerCopies
  <2>2. QED
    BY <2>1 DEF AppAnswers
<1>2. ~SelectionRequest /\ ~SelectionNotify
  <2>1. x_events # <<>> => Head(x_events) \in {"owner server"}
    <3>1. x_events \in Seq(Events) /\ Kinds(x_events) \subseteq {"owner server"}
      BY DEF ViewerCopies, ClipTypes
    <3>2. x_events # <<>> => Head(x_events) \in Kinds(x_events)
      BY <3>1, KindFacts
    <3>3. QED
      BY <3>1, <3>2
  <2>2. QED
    BY <2>1 DEF SelectionRequest, SelectionNotify, HostEvent
<1>3. ASSUME NEW w \in Viewers PROVE ~OnClipboardUpdate(w) /\ ~ApplyServerClipboard(w)
  <2>1. down[w] = <<>> /\ to_apply[w] = <<>>
    BY DEF ViewerCopies
  <2>2. QED
    BY <2>1 DEF OnClipboardUpdate, ApplyServerClipboard
<1>4. ASSUME NEW w \in Viewers \ {v}
      PROVE  ~OnClipboard(w) /\ ~OnClipboardOwnerChange(w) /\ ~LocalAppAnswers(w)
  <2>1. up[w] = <<>> /\ requested[w] = 0 /\ changes[w] = 0
    BY DEF ViewerCopies
  <2>2. QED
    BY <2>1 DEF OnClipboard, OnClipboardOwnerChange, LocalAppAnswers
<1>5. QED
  BY <1>1, <1>2, <1>3, <1>4

LEMMA OwnOffer ==
  ASSUME ClipTypes, Kept, NEW v \in Viewers, ViewerCopies(v), XFixesSelectionNotify
  PROVE  Kept' /\ ViewerCopies(v)'
<1> USE DEF atViewer, copyHistory
<1>1. Kinds(x_events) \subseteq {"owner server"} /\ x_events \in Seq(Events)
  BY DEF ViewerCopies, ClipTypes
<1>2. PICK kind, more : HostEvent(kind, more) /\ UNCHANGED <<g_clipboard_text, property, down>>
  BY DEF XFixesSelectionNotify
<1>3. Head(x_events) = "owner server"
  <2>1. x_events # <<>> /\ Head(x_events) \in Kinds(x_events)
    BY <1>1, <1>2, KindFacts DEF HostEvent
  <2>2. QED
    BY <1>1, <2>1
<1>4. HostEvent("owner server", <<>>) /\ converting' = converting
  BY <1>3 DEF XFixesSelectionNotify, HostEvent
<1>5. Kinds(x_events') \subseteq {"owner server"}
  <2>1. Kinds(x_events) = {"owner server"} \cup Kinds(x_events')
    BY <1>1, <1>4, EventTaken
  <2>2. QED
    BY <1>1, <2>1
<1>6. UNCHANGED <<atViewer, up, copyHistory, owner, app_text, g_clipboard_text, property, down>>
  BY <1>2 DEF HostEvent
<1>7. Kept'
  BY <1>6 DEF Kept, ViewerCopies
<1>8. (Alone(v)' <=> Alone(v)) /\ (HostHolds' <=> HostHolds)
  BY <1>6 DEF Alone, HostHolds
<1>9. QED
  BY <1>4, <1>5, <1>6, <1>7, <1>8 DEF ViewerCopies

LEMMA HostTakes ==
  ASSUME ClipTypes, Kept, NEW v \in Viewers, ViewerCopies(v), OnClipboard(v)
  PROVE  Kept' /\ ViewerCopies(v)'
<1> USE DEF atViewer, copyHistory
<1>1. UNCHANGED <<atViewer, copyHistory, app_text, converting, property, down>>
      /\ owner' = "server"
  BY DEF OnClipboard
<1>2. Kinds(x_events') \subseteq {"owner server"}
  <2>1. Kinds(x_events') = Kinds(x_events) \cup {"owner server"}
    BY EventAdded DEF OnClipboard, ClipTypes, Events
  <2>2. QED
    BY <2>1 DEF ViewerCopies
<1>3. Kept'
  BY <1>1 DEF Kept, ViewerCopies
<1>4. HostHolds'
  BY <1>1 DEF HostHolds
<1>5. LastOr(up'[v], g_clipboard_text') = LastOr(up[v], g_clipboard_text)
  <2>1. up[v] \in Seq(Texts) /\ up[v] # <<>>
    BY DEF ClipTypes, OnClipboard
  <2>2. up'[v] = Tail(up[v]) /\ g_clipboard_text' = Head(up[v])
    BY DEF OnClipboard, Take, ClipTypes
  <2>3. QED
    <3>1. \A z : LastOr(Tail(up[v]), Head(up[v])) = LastOr(up[v], z)
      BY <2>1, LastTaken
    <3>2. QED
      BY <2>2, <3>1
<1>6. \A w \in Viewers \ {v} : up'[w] = up[w]
  BY DEF OnClipboard, Take, ClipTypes
<1>7. Alone(v)' <=> Alone(v)
  BY <1>1 DEF Alone
<1>8. QED
  BY <1>1, <1>2, <1>3, <1>4, <1>5, <1>6, <1>7 DEF ViewerCopies

LEMMA ViewerTells ==
  ASSUME ClipTypes, Kept, NEW v \in Viewers, ViewerCopies(v),
         OnClipboardOwnerChange(v) \/ LocalAppAnswers(v)
  PROVE  Kept' /\ ViewerCopies(v)'
<1> USE DEF onWire
<1>1. UNCHANGED <<owner, app_text, g_clipboard_text, x_events, converting, property, copiers>>
  BY DEF OnClipboardOwnerChange, LocalAppAnswers, ViewerStep, atHost, copyHistory
<1>2. view_owner[v] = "app" /\ local_text[v] # NoText
  BY DEF ViewerCopies
<1>3. UNCHANGED <<view_owner, local_text, set_text, to_apply, down>>
  BY <1>2 DEF OnClipboardOwnerChange, LocalAppAnswers, TextReceived
<1>4. \A w \in Viewers \ {v} :
        UNCHANGED <<up[w], requested[w], changes[w], last_sent[w]>>
  BY <1>2 DEF OnClipboardOwnerChange, LocalAppAnswers, TextReceived, Put, ClipTypes
<1>5. /\ changes'[v] > 0 \/ requested'[v] > 0 \/ last_sent'[v] = local_text'[v]
      /\ \/ UNCHANGED <<up[v], last_sent[v]>>
         \/ LastOr(up'[v], g_clipboard_text') = last_sent'[v]
  <2>1. CASE OnClipboardOwnerChange(v)
    <3>1. requested' = [requested EXCEPT ![v] = @ + 1] /\ UNCHANGED <<last_sent, up>>
      BY <1>2, <2>1 DEF OnClipboardOwnerChange
    <3>2. requested[v] \in Nat /\ requested'[v] = requested[v] + 1
      BY <3>1 DEF ClipTypes
    <3>3. requested'[v] > 0
      BY <3>2
    <3>4. QED
      BY <3>1, <3>3
  <2>2. CASE LocalAppAnswers(v) /\ local_text[v] = last_sent[v]
    BY <1>3, <2>2 DEF LocalAppAnswers, TextReceived
  <2>3. CASE LocalAppAnswers(v) /\ local_text[v] # last_sent[v]
    <3>1. /\ last_sent' = [last_sent EXCEPT ![v] = local_text[v]]
          /\ up' = Put(up, v, local_text[v])
      BY <1>2, <2>3 DEF LocalAppAnswers, TextReceived
    <3>2. last_sent'[v] = local_text[v] /\ up'[v] = Append(up[v], local_text[v])
      BY <3>1 DEF ClipTypes, Put
    <3>3. up[v] \in Seq(Texts) /\ local_text[v] \in Texts
      BY <1>2 DEF ClipTypes, TextOrNone
    <3>4. \A y : LastOr(up'[v], y) = local_text[v]
      BY <3>2, <3>3, LastAdded
    <3>5. QED
      BY <1>3, <3>2, <3>4
  <2>4. QED
    BY <2>1, <2>2, <2>3
<1>6. Kept'
  BY <1>1, <1>2, <1>3, <1>4 DEF Kept
<1>7. (Alone(v)' <=> Alone(v)) /\ (HostHolds' <=> HostHolds)
  BY <1>1 DEF Alone, HostHolds
<1>8. Alone(v) => LastOr(up'[v], g_clipboard_text') = last_sent'[v]
  BY <1>1, <1>5 DEF ViewerCopies
<1>9. QED
  BY <1>1, <1>2, <1>3, <1>4, <1>5, <1>6, <1>7, <1>8 DEF ViewerCopies

-----------------------------------------------------------------------------
(* At rest, and when a copy is made. *)

LEMMA RestIsResting ==
  ASSUME ClipTypes, Kept, Together, AtRest
  PROVE  Resting /\ property = NoText
<1>1. x_events = <<>> /\ converting = 0 /\ Kinds(x_events) = {}
  BY EmptySeq, KindFacts DEF AtRest
<1>2. property = NoText
  BY <1>1 DEF Kept
<1>3. CASE HostCopies
  <2>1. HostHolds
    <3>1. "owner app" \notin Kinds(x_events)
      BY <1>1
    <3>2. ~(converting > 0)
      BY <1>1
    <3>3. QED
      BY <1>2, <1>3, <3>1, <3>2 DEF HostCopies
  <2>2. QED
    BY <1>2, <1>3, <2>1 DEF HostCopies, Resting
<1>4. ASSUME NEW v \in Viewers, lately = {v}, ViewerCopies(v) PROVE Resting
  <2>1. up[v] = <<>> /\ changes[v] = 0 /\ requested[v] = 0
    BY DEF AtRest
  <2>2. last_sent[v] = local_text[v] /\ view_owner[v] = "app"
    <3>1. ~(changes[v] > 0) /\ ~(requested[v] > 0)
      BY <2>1
    <3>2. QED
      BY <1>4, <3>1 DEF ViewerCopies
  <2>3. ASSUME NEW w \in Viewers, Alone(w) PROVE Informed(w)
    <3>1. w = v
      BY <1>4, <2>3 DEF Alone, ClipTypes
    <3>2. g_clipboard_text = last_sent[v]
      BY <1>4, <2>1, <2>3, <3>1 DEF ViewerCopies, LastOr
    <3>3. \A x : Coming(v, x) = x
      BY DEF AtRest, Coming, LastOr
    <3>4. QED
      BY <2>2, <3>1, <3>2, <3>3 DEF Informed, ViewerText
  <2>4. QED
    BY <1>4, <2>3 DEF ViewerCopies, Resting
<1>5. QED
  BY <1>2, <1>3, <1>4 DEF Together

\* A copy that crosses none begins when all is at rest, or goes on where the last was made.
LEMMA CopyAlone ==
  ASSUME ClipTypes, Kept, Together, NEW place, Copying(place), ~rivals'
  PROVE  /\ ~rivals /\ lately' = {place} /\ copiers' = copiers \cup {place}
         /\ UNCHANGED onWire
         /\ \/ Resting /\ property = NoText
            \/ lately = {place}
<1>1. CASE AtRest
  BY <1>1, RestIsResting DEF Copying
<1>2. CASE ~AtRest
  <2>1. lately # {}
    BY <1>2 DEF Together, Resting
  <2>2. QED
    BY <1>2, <2>1 DEF Copying
<1>3. QED
  BY <1>1, <1>2

LEMMA CopyOnHost ==
  ASSUME ClipTypes, Kept, Together, NEW text \in Texts, HostCopy(text), ~rivals'
  PROVE  Kept' /\ Together'
<1> USE DEF atViewer, onWire
<1>1. /\ lately' = {"host"} /\ copiers' = copiers \cup {"host"} /\ UNCHANGED onWire
      /\ \/ Resting /\ property = NoText
         \/ lately = {"host"} /\ HostCopies
  BY CopyAlone DEF HostCopy, Together, Resting
<1>2. Kinds(x_events') = Kinds(x_events) \cup {"owner app"}
  BY EventAdded DEF HostCopy, ClipTypes, Events
<1>3. UNCHANGED <<g_clipboard_text, converting, property, atViewer>>
      /\ owner' = "app" /\ app_text' = text
  BY DEF HostCopy
<1>4. Kept'
  BY <1>2, <1>3 DEF Kept
<1>5. ASSUME NEW v \in Viewers
      PROVE  /\ up'[v] = <<>> /\ requested'[v] = 0
             /\ changes'[v] > 0 => view_owner'[v] = "viewer"
             /\ Alone(v)' => Informed(v)'
  <2>1. Alone(v)' <=> Alone(v)
    BY <1>1 DEF Alone
  <2>2. Informed(v)' <=> Informed(v)
    BY <1>1, <1>3 DEF Informed, Coming, ViewerText
  <2>3. CASE Resting
    <3>1. up[v] = <<>> /\ requested[v] = 0 /\ changes[v] = 0
      BY <2>3 DEF Resting, AtRest
    <3>2. QED
      BY <1>1, <1>3, <2>1, <2>2, <2>3, <3>1 DEF Resting
  <2>4. CASE HostCopies
    BY <1>1, <1>3, <2>1, <2>2, <2>4 DEF HostCopies
  <2>5. QED
    BY <1>1, <2>3, <2>4
<1>6. Kinds(x_events) \subseteq {"owner app", "notify"}
  <2>1. Resting => Kinds(x_events) = {}
    BY KindFacts, EmptySeq DEF Resting, AtRest
  <2>2. QED
    BY <1>1, <2>1 DEF HostCopies
<1>7. text # NoText
  OBVIOUS
<1>8. HostCopies'
  BY <1>2, <1>3, <1>5, <1>6, <1>7 DEF HostCopies
<1>9. QED
  BY <1>1, <1>4, <1>8 DEF Together

LEMMA CopyAtViewer ==
  ASSUME ClipTypes, Kept, Together, NEW v \in Viewers, NEW text \in Texts,
         LocalCopy(v, text), ~rivals'
  PROVE  Kept' /\ Together'
<1> USE DEF onWire
<1>1. /\ lately' = {v} /\ copiers' = copiers \cup {v} /\ UNCHANGED onWire
      /\ \/ Resting /\ property = NoText
         \/ ViewerCopies(v)
  <2>1. v # "host"
    OBVIOUS
  <2>2. Copying(v)
    BY DEF LocalCopy
  <2>3. lately = {v} => ViewerCopies(v)
    BY <2>1 DEF Together
  <2>4. QED
    BY <2>2, <2>3, CopyAlone
<1>2. UNCHANGED <<owner, app_text, g_clipboard_text, x_events, converting, property,
                  set_text, requested, to_apply, last_sent>>
  BY DEF LocalCopy, atHost
<1>3. /\ view_owner'[v] = "app" /\ local_text'[v] = text
      /\ \A w \in Viewers \ {v} :
           UNCHANGED <<view_owner[w], local_text[w], changes[w]>>
  BY DEF LocalCopy, ClipTypes
<1>4. changes'[v] > 0
  <2>1. changes[v] \in Nat /\ changes'[v] = changes[v] + 1
    BY DEF LocalCopy, ClipTypes
  <2>2. QED
    BY <2>1
<1>5. Kept'
  BY <1>2, <1>3 DEF Kept
<1>6. (Alone(v)' <=> Alone(v)) /\ (HostHolds' <=> HostHolds)
  BY <1>1, <1>2 DEF Alone, HostHolds
<1>7. /\ HostHolds /\ property = NoText /\ converting = 0
      /\ Kinds(x_events) \subseteq {"owner server"}
      /\ \A w \in Viewers :
           /\ down[w] = <<>> /\ to_apply[w] = <<>>
           /\ w # v => up[w] = <<>> /\ requested[w] = 0 /\ changes[w] = 0
      /\ Alone(v) => LastOr(up[v], g_clipboard_text) = last_sent[v]
  <2>1. CASE Resting /\ property = NoText
    <3>1. x_events = <<>> /\ Kinds(x_events) = {}
      BY <2>1, KindFacts, EmptySeq DEF Resting, AtRest
    <3>2. /\ up[v] = <<>> /\ down[v] = <<>> /\ to_apply[v] = <<>>
          /\ Alone(v) => Coming(v, last_sent[v]) = g_clipboard_text
      BY <2>1 DEF Resting, AtRest, Informed
    <3>3. Alone(v) => LastOr(up[v], g_clipboard_text) = last_sent[v]
      BY <3>2 DEF Coming, LastOr
    <3>4. QED
      BY <2>1, <3>1, <3>3 DEF Resting, AtRest
  <2>2. CASE ViewerCopies(v)
    BY <2>2 DEF ViewerCopies
  <2>3. QED
    BY <1>1, <2>1, <2>2
<1>8. ViewerCopies(v)'
  BY <1>1, <1>2, <1>3, <1>4, <1>6, <1>7 DEF ViewerCopies
<1>9. QED
  BY <1>1, <1>5, <1>8 DEF Together

-----------------------------------------------------------------------------
(* The invariant.                                                          *)
ClipInv == ClipTypes /\ Counted /\ (~rivals => Kept /\ Together)

LEMMA ClipInitInv == ClipboardInit => ClipInv
<1> SUFFICES ASSUME ClipboardInit PROVE ClipInv
  OBVIOUS
<1>1. ClipTypes
  BY InitTypes
<1>2. Kept
  BY DEF ClipboardInit, Kept
<1>3. AtRest
  BY DEF ClipboardInit, AtRest
<1>4. ASSUME NEW v \in Viewers PROVE Informed(v)
  BY DEF ClipboardInit, Informed, Coming, LastOr, ViewerText
<1>5. Resting /\ lately = {}
  BY <1>3, <1>4 DEF Resting, HostHolds, ClipboardInit
<1>6. QED
  <2>1. Counted
    <3>1. x_events = <<>> /\ converting = 0 /\ copies = 0
      BY DEF ClipboardInit
    <3>2. CopyEvents(x_events) = {}
      BY <3>1 DEF CopyEvents
    <3>3. Unasked = 0
      BY <3>2, FS_EmptySet DEF Unasked
    <3>4. QED
      BY <3>1, <3>3 DEF Counted
  <2>2. QED
    BY <1>1, <1>2, <1>5, <2>1 DEF ClipInv, Together

\* What is not a copy leaves the history alone; at rest there is nothing of it.
LEMMA OtherSteps ==
  ASSUME ClipTypes, Kept, Together,
         \/ AppAnswers \/ XFixesSelectionNotify \/ SelectionRequest \/ SelectionNotify
         \/ \E v \in Viewers :
              \/ OnClipboard(v) \/ OnClipboardOwnerChange(v) \/ LocalAppAnswers(v)
              \/ OnClipboardUpdate(v) \/ ApplyServerClipboard(v)
  PROVE  Kept' /\ Together'
<1>1. lately' = lately
  BY DEF AppAnswers, XFixesSelectionNotify, SelectionRequest, SelectionNotify, HostEvent,
         OnClipboard, OnClipboardOwnerChange, LocalAppAnswers, OnClipboardUpdate,
         ApplyServerClipboard, ViewerStep, copyHistory
<1>2. ~Resting
  <2>1. SUFFICES ASSUME AtRest PROVE FALSE
    BY DEF Resting
  <2>2. ~AppAnswers /\ ~XFixesSelectionNotify /\ ~SelectionRequest /\ ~SelectionNotify
    BY <2>1 DEF AtRest, AppAnswers, XFixesSelectionNotify, SelectionRequest,
                SelectionNotify, HostEvent
  <2>3. ASSUME NEW v \in Viewers
        PROVE  /\ ~OnClipboard(v) /\ ~OnClipboardOwnerChange(v) /\ ~LocalAppAnswers(v)
               /\ ~OnClipboardUpdate(v) /\ ~ApplyServerClipboard(v)
    <3>1. /\ changes[v] = 0 /\ requested[v] = 0
          /\ to_apply[v] = <<>> /\ down[v] = <<>> /\ up[v] = <<>>
      BY <2>1 DEF AtRest
    <3>2. ~(changes[v] > 0) /\ ~(requested[v] > 0)
      BY <3>1
    <3>3. QED
      BY <3>1, <3>2 DEF OnClipboard, OnClipboardOwnerChange, LocalAppAnswers,
                        OnClipboardUpdate, ApplyServerClipboard
  <2>4. QED
    BY <2>2, <2>3
<1>3. CASE lately = {"host"} /\ HostCopies
  <2>1. Kept' /\ HostCopies'
    BY <1>3, HostUndisturbed, HostAnswers, HostAsks, HostReads, ViewerHears
  <2>2. QED
    BY <1>1, <1>3, <2>1 DEF Together
<1>4. ASSUME NEW v \in Viewers, lately = {v}, ViewerCopies(v) PROVE Kept' /\ Together'
  <2>1. Kept' /\ ViewerCopies(v)'
    BY <1>4, ViewerUndisturbed, OwnOffer, HostTakes, ViewerTells
  <2>2. QED
    BY <1>1, <1>4, <2>1 DEF Together
<1>5. QED
  BY <1>2, <1>3, <1>4 DEF Together

LEMMA ClipStep ==
  ASSUME ClipInv, [ClipboardNext]_clipboardVars
  PROVE  ClipInv'
<1>1. ClipTypes /\ ClipTypes' /\ Counted'
  BY ClipTypesStep, CountedStep DEF ClipInv
<1>2. ASSUME ~rivals' PROVE Kept' /\ Together'
  <2>1. CASE UNCHANGED clipboardVars
    <3>1. /\ UNCHANGED <<owner, app_text, g_clipboard_text, x_events, converting, property>>
          /\ UNCHANGED <<view_owner, local_text, set_text, changes, requested, to_apply,
                         last_sent, down, up, lately, copiers, rivals>>
      BY <2>1 DEF clipboardVars, atHost, atViewer, onWire, copyHistory
    <3>2. Kept /\ Together
      BY <1>2, <3>1 DEF ClipInv
    <3>3. Kept'
      BY <3>1, <3>2 DEF Kept
    <3>4. (HostHolds' <=> HostHolds) /\ (AtRest' <=> AtRest)
      BY <3>1 DEF HostHolds, AtRest
    <3>5. ASSUME NEW v \in Viewers
          PROVE  (Alone(v)' <=> Alone(v)) /\ (Informed(v)' <=> Informed(v))
      BY <3>1 DEF Alone, Informed, Coming, ViewerText
    <3>6. (Resting => Resting') /\ (HostCopies => HostCopies')
      BY <3>1, <3>4, <3>5 DEF Resting, HostCopies
    <3>7. ASSUME NEW v \in Viewers, ViewerCopies(v) PROVE ViewerCopies(v)'
      BY <3>1, <3>4, <3>5, <3>7 DEF ViewerCopies
    <3>8. QED
      BY <3>1, <3>2, <3>3, <3>6, <3>7 DEF Together
  <2>2. ASSUME NEW text \in Texts, HostCopy(text) PROVE Kept' /\ Together'
    <3>1. ~rivals
      BY <1>2, <2>2 DEF HostCopy, Copying
    <3>2. QED
      BY <1>1, <1>2, <2>2, <3>1, CopyOnHost DEF ClipInv
  <2>3. ASSUME NEW v \in Viewers, NEW text \in Texts, LocalCopy(v, text)
        PROVE  Kept' /\ Together'
    <3>1. ~rivals
      BY <1>2, <2>3 DEF LocalCopy, Copying
    <3>2. QED
      BY <1>1, <1>2, <2>3, <3>1, CopyAtViewer DEF ClipInv
  <2>4. ASSUME \/ AppAnswers \/ XFixesSelectionNotify \/ SelectionRequest \/ SelectionNotify
               \/ \E v \in Viewers :
                    \/ OnClipboard(v) \/ OnClipboardOwnerChange(v) \/ LocalAppAnswers(v)
                    \/ OnClipboardUpdate(v) \/ ApplyServerClipboard(v)
        PROVE  Kept' /\ Together'
    <3>1. rivals' = rivals
      BY <2>4 DEF AppAnswers, XFixesSelectionNotify, SelectionRequest, SelectionNotify,
         HostEvent, OnClipboard, OnClipboardOwnerChange, LocalAppAnswers,
         OnClipboardUpdate, ApplyServerClipboard, ViewerStep, copyHistory
    <3>2. QED
      BY <1>1, <1>2, <2>4, <3>1, OtherSteps DEF ClipInv
  <2>5. QED
    BY <2>1, <2>2, <2>3, <2>4 DEF ClipboardNext
<1>3. QED
  BY <1>1, <1>2 DEF ClipInv

LEMMA ClipAgree == ClipInv => ClipboardTypeOK /\ ClipboardsAgree
<1>0. ClipInv => ClipboardTypeOK
  BY TypesCounted DEF ClipInv
<1> SUFFICES ASSUME ClipInv, AtRest, ~rivals, copies > 0
             PROVE  /\ \A v \in Viewers : Alone(v) => ViewerText(v) = HostText
                    /\ lately = {"host"} => owner = "app"
  BY <1>0 DEF ClipboardsAgree, Alone
<1>1. Resting
  BY RestIsResting DEF ClipInv
<1>2. HostText = g_clipboard_text
  BY <1>1 DEF Resting, HostHolds, HostText
<1>3. ASSUME NEW v \in Viewers, Alone(v) PROVE ViewerText(v) = HostText
  <2>1. Coming(v, ViewerText(v)) = g_clipboard_text /\ down[v] = <<>> /\ to_apply[v] = <<>>
    BY <1>1, <1>3 DEF Resting, Informed, AtRest
  <2>2. QED
    BY <1>2, <2>1 DEF Coming, LastOr
<1>4. ASSUME lately = {"host"} PROVE owner = "app"
  BY <1>4 DEF ClipInv, Together, HostCopies
<1>5. QED
  BY <1>3, <1>4

(* Clipboards at rest agree, for any number of viewers, texts and copies   *)
(* (on_clipboard() and the X events of the host, the GTK callbacks of the  *)
(* viewers).                                                               *)
THEOREM ClipboardsComeToAgree == ClipboardSpec => [](ClipboardTypeOK /\ ClipboardsAgree)
<1>1. ClipInv /\ [ClipboardNext]_clipboardVars => ClipInv'
  BY ClipStep
<1>2. QED
  BY <1>1, ClipInitInv, ClipAgree, PTL DEF ClipboardSpec

-----------------------------------------------------------------------------
(* WebViewer.  The parser has consumed the first d messages, and perhaps   *)
(* handled some rectangles of the next one, which is an update; what has   *)
(* arrived after those d waits in input_buf.  Its state is right for the   *)
(* message that comes because until ServerInit the server sends only when  *)
(* it is answered.                                                         *)

UnitKinds ==
  {"version", "none", "vncauth", "challenge", "ok", "refused", "init", "update",
   "cut text", "audio begin", "audio data", "raw", "tight", "size", "ack", "rest"}
Units == [kind : UnitKinds, n : Nat]
HandshakeKinds == {"version", "none", "vncauth", "challenge", "ok", "init"}
SessionKinds == {"update", "cut text", "audio begin", "audio data"}
SessionWords == {"encodings", "request", "set format", "enable"}
Words == {"version", "none", "vncauth", "response", "shared"} \cup SessionWords

Rects == {Raw, Tight, Size, Ack}
RectLists ==
  (BoundedSeq({Raw, Tight}, MaxRectsOf) \ {<<>>}) \cup {<<Size>>, <<Ack>>}

\* A message without rectangles is as many units as its first says.
LEMMA PartFacts ==
  ASSUME NEW k \in UnitKinds, NEW n \in Nat \ {0}
  PROVE  /\ Part(k, n) \in Seq(Units) /\ Len(Part(k, n)) = n
         /\ Part(k, n)[1] = [kind |-> k, n |-> n]
         /\ Kind(Part(k, n)) = k
         /\ \A i \in 2..n : Part(k, n)[i] = [kind |-> "rest", n |-> 1]
<1> DEFINE a == <<[kind |-> k, n |-> n]>>
           b == [i \in 1..n - 1 |-> [kind |-> "rest", n |-> 1]]
<1>1. a \in Seq(Units) /\ Len(a) = 1 /\ a[1] = [kind |-> k, n |-> n]
  BY DEF Units
<1>2. b \in Seq(Units) /\ Len(b) = n - 1 /\ \A i \in 1..n - 1 : b[i] = [kind |-> "rest", n |-> 1]
  <2>1. n - 1 \in Nat
    OBVIOUS
  <2>2. [kind |-> "rest", n |-> 1] \in Units
    BY DEF Units, UnitKinds
  <2> DEFINE u == [kind |-> "rest", n |-> 1]
  <2>3. b = [i \in 1..n - 1 |-> u]
    OBVIOUS
  <2>4. u \in Units
    BY <2>2
  <2> HIDE DEF u, b
  <2>5. b \in Seq(Units) /\ Len(b) = n - 1 /\ \A i \in 1..n - 1 : b[i] = u
    BY <2>1, <2>3, <2>4
  <2>6. QED
    BY <2>5 DEF u
<1>3. Part(k, n) = a \o b
  BY DEF Part
<1> HIDE DEF a, b
<1>4. /\ Part(k, n) \in Seq(Units) /\ Len(Part(k, n)) = n
      /\ \A i \in 1..n : Part(k, n)[i] = IF i = 1 THEN a[1] ELSE b[i - 1]
  <2>1. /\ a \o b \in Seq(Units) /\ Len(a \o b) = Len(a) + Len(b)
        /\ \A i \in 1..Len(a) + Len(b) : (a \o b)[i] = IF i <= Len(a) THEN a[i] ELSE b[i - Len(a)]
    BY <1>1, <1>2, ConcatProperties, ZenonT(60)
  <2>2. Len(a) + Len(b) = n
    BY <1>1, <1>2
  <2>3. ASSUME NEW i \in 1..n PROVE (a \o b)[i] = IF i = 1 THEN a[1] ELSE b[i - 1]
    <3>1. (a \o b)[i] = IF i <= 1 THEN a[i] ELSE b[i - 1]
      BY <1>1, <2>1, <2>2
    <3>2. i <= 1 <=> i = 1
      OBVIOUS
    <3>3. QED
      BY <3>1, <3>2
  <2>4. QED
    BY <1>3, <2>1, <2>2, <2>3
<1>5. Part(k, n)[1] = [kind |-> k, n |-> n]
  BY <1>1, <1>4
<1>6. ASSUME NEW i \in 2..n PROVE Part(k, n)[i] = [kind |-> "rest", n |-> 1]
  <2>1. i \in 1..n /\ i # 1 /\ i - 1 \in 1..n - 1
    OBVIOUS
  <2>2. Part(k, n)[i] = b[i - 1]
    BY <1>4, <2>1
  <2>3. QED
    BY <1>2, <2>1, <2>2
<1>7. Kind(Part(k, n)) = k
  <2>1. Part(k, n) # <<>> /\ Head(Part(k, n)) = Part(k, n)[1]
    <3> DEFINE q == Part(k, n)
    <3>1. q \in Seq(Units) /\ Len(q) = n
      BY <1>4
    <3> HIDE DEF q
    <3>2. q # <<>> /\ Head(q) = q[1]
      BY <3>1
    <3>3. QED
      BY <3>2 DEF q
  <2>2. QED
    BY <1>5, <2>1 DEF Kind
<1>8. QED
  BY <1>4, <1>5, <1>6, <1>7

\* The rectangles: their lengths and what they begin with.
LEMMA RectFacts ==
  ASSUME NEW r \in Rects
  PROVE  /\ r \in Seq(Units) /\ r[1].n = Len(r) /\ Len(r) \in Nat \ {0}
         /\ r[1].kind = "ack" <=> r = Ack
         /\ r # Ack => r \in Seq([kind : UnitKinds \ {"ack"}, n : Nat])
<1>2. PICK k \in {"raw", "tight", "size", "ack"}, n \in {1, 2, 3} :
        r = Part(k, n) /\ (k = "ack" <=> r = Ack)
  <2>1. CASE r = Ack
    BY <2>1 DEF Ack
  <2>2. CASE r # Ack
    BY <2>2 DEF Rects, Raw, Tight, Size
  <2>3. QED
    BY <2>1, <2>2
<1>3. k \in UnitKinds /\ n \in Nat \ {0}
  <2>1. k \in UnitKinds
    BY DEF UnitKinds
  <2>2. n \in Nat \ {0}
    OBVIOUS
  <2>3. QED
    BY <2>1, <2>2
<1>4. /\ r \in Seq(Units) /\ Len(r) = n /\ r[1] = [kind |-> k, n |-> n]
      /\ \A i \in 2..n : r[i] = [kind |-> "rest", n |-> 1]
  BY <1>2, <1>3, PartFacts
<1>5. ASSUME r # Ack PROVE r \in Seq([kind : UnitKinds \ {"ack"}, n : Nat])
  <2> DEFINE T == [kind : UnitKinds \ {"ack"}, n : Nat]
  <2>1. k # "ack"
    BY <1>2, <1>5
  <2>2. [kind |-> k, n |-> n] \in T /\ [kind |-> "rest", n |-> 1] \in T
    <3>1. k \in UnitKinds \ {"ack"} /\ "rest" \in UnitKinds \ {"ack"}
      BY <1>3, <2>1 DEF UnitKinds
    <3>2. n \in Nat /\ 1 \in Nat
      OBVIOUS
    <3>3. QED
      BY <3>1, <3>2
  <2> HIDE DEF T
  <2>3. ASSUME NEW i \in 1..n PROVE r[i] \in T
    <3>1. i = 1 \/ i \in 2..n
      BY <1>3
    <3>2. QED
      BY <1>4, <2>2, <3>1
  <2>4. DOMAIN r = 1..n /\ r = [i \in 1..n |-> r[i]]
    BY <1>4
  <2>5. r \in [1..n -> T]
    BY <2>3, <2>4
  <2>6. n \in Nat
    OBVIOUS
  <2>7. r \in Seq(T)
    BY <2>5, <2>6
  <2>8. QED
    BY <2>7 DEF T
<1>6. r[1].n = n /\ r[1].kind = k
  BY <1>4
<1>7. QED
  BY <1>2, <1>3, <1>4, <1>5, <1>6

\* The lists that are sent: the acknowledgement only stands alone.
LEMMA ListFacts ==
  ASSUME NEW rects \in RectLists
  PROVE  /\ rects \in Seq(Rects) /\ Len(rects) \in 1..MaxRectsOf
         /\ rects # <<Ack>> => \A j \in 1..Len(rects) : rects[j] # Ack
         /\ rects = <<Ack>> => Len(rects) = 1 /\ rects[1] = Ack
<1>1. Raw # Ack /\ Tight # Ack /\ Size # Ack
  <2>1. /\ {"raw", "tight", "size", "ack"} \subseteq UnitKinds
        /\ {1, 2, 3} \subseteq Nat \ {0}
    <3>1. {"raw", "tight", "size", "ack"} \subseteq UnitKinds
      BY DEF UnitKinds
    <3>2. {1, 2, 3} \subseteq Nat \ {0}
      OBVIOUS
    <3>3. QED
      BY <3>1, <3>2
  <2>2. Kind(Raw) = "raw" /\ Kind(Tight) = "tight" /\ Kind(Size) = "size" /\ Kind(Ack) = "ack"
    BY <2>1, PartFacts DEF Raw, Tight, Size, Ack
  <2>3. QED
    BY <2>2
<1>2. CASE rects \in BoundedSeq({Raw, Tight}, MaxRectsOf) \ {<<>>}
  <2>1. PICK m \in 0..MaxRectsOf : rects \in [1..m -> {Raw, Tight}]
    BY <1>2 DEF BoundedSeq, SeqOf
  <2>2. rects \in Seq({Raw, Tight}) /\ Len(rects) = m
    BY <2>1
  <2>3. m # 0
    BY <1>2, <2>2
  <2>4. \A j \in 1..Len(rects) : rects[j] \in {Raw, Tight}
    BY <2>1, <2>2
  <2>5. rects \in Seq(Rects)
    BY <2>2, SeqMonotonic DEF Rects
  <2>6. rects # <<Ack>>
    <3>1. 1 \in 1..Len(rects)
      BY <2>2, <2>3
    <3>2. QED
      BY <1>1, <2>4, <3>1
  <2>7. m \in 1..MaxRectsOf
    BY <2>3, WebViewerAssumption DEF WebViewerAssumption
  <2>8. \A j \in 1..Len(rects) : rects[j] # Ack
    BY <1>1, <2>4
  <2>9. QED
    BY <2>2, <2>5, <2>6, <2>7, <2>8
<1>3. CASE rects \in {<<Size>>, <<Ack>>}
  <2>1. rects \in Seq(Rects) /\ Len(rects) = 1 /\ rects[1] \in {Size, Ack}
    <3>1. Size \in Rects /\ Ack \in Rects
      BY DEF Rects
    <3>2. PICK x \in {Size, Ack} : rects = <<x>>
      BY <1>3
    <3>3. QED
      BY <3>1, <3>2
  <2>2. 1 \in 1..MaxRectsOf
    BY WebViewerAssumption DEF WebViewerAssumption
  <2>3. rects # <<Ack>> => rects[1] # Ack
    BY <1>1, <1>3
  <2>4. \A j \in 1..Len(rects) : j = 1
    BY <2>1
  <2>5. rects = <<Ack>> => rects[1] = Ack
    OBVIOUS
  <2>6. QED
    BY <2>1, <2>2, <2>3, <2>4, <2>5
<1>4. QED
  BY <1>2, <1>3 DEF RectLists

\* An update is its first unit and then its rectangles.
LEMMA UpdateFacts ==
  ASSUME NEW rects \in RectLists
  PROVE  /\ rects \in Seq(Seq(Units))
         /\ Update(rects) \in Seq(Units)
         /\ Update(rects)[1] = [kind |-> "update", n |-> Len(rects)]
         /\ Len(Update(rects)) = 1 + Len(JoinedTo(rects, Len(rects)))
         /\ JoinedTo(rects, 0) = <<>>
         /\ \A j \in 0..Len(rects) :
              /\ Len(JoinedTo(rects, j)) \in Nat
              /\ Len(JoinedTo(rects, j)) <= Len(JoinedTo(rects, Len(rects)))
         /\ \A j \in 0..Len(rects) - 1 :
              /\ Len(JoinedTo(rects, j + 1)) = Len(JoinedTo(rects, j)) + Len(rects[j + 1])
              /\ Update(rects)[Len(JoinedTo(rects, j)) + 2] = rects[j + 1][1]
<1> DEFINE N == Len(rects)
           f == FlattenSeq(rects)
           h == <<[kind |-> "update", n |-> N]>>
           p(j) == JoinedTo(rects, j)
<1>1. N \in Nat /\ N >= 1 /\ \A j \in 1..N : rects[j] \in Rects
  <2>1. rects \in Seq(Rects) /\ N \in 1..MaxRectsOf
    BY ListFacts
  <2>2. QED
    BY <2>1
<1>2. \A j \in 1..N : rects[j] \in Seq(Units) /\ Len(rects[j]) \in Nat \ {0}
  BY <1>1, RectFacts
<1>3. rects \in Seq(Seq(Units))
  <2>1. rects \in Seq(Rects)
    BY ListFacts
  <2>2. rects = [j \in 1..N |-> rects[j]]
    BY <2>1
  <2>3. rects \in [1..N -> Seq(Units)]
    BY <1>2, <2>2
  <2>4. QED
    BY <1>1, <2>3
<1>4. f \in Seq(Units) /\ Len(f) \in Nat
  <2>1. f \in Seq(Units)
    BY <1>3, FlattenIn
  <2> HIDE DEF f
  <2>2. QED
    BY <2>1
<1>5. h \in Seq(Units) /\ Len(h) = 1 /\ h[1] = [kind |-> "update", n |-> N]
  <2>1. [kind |-> "update", n |-> N] \in Units
    <3>1. "update" \in UnitKinds
      BY DEF UnitKinds
    <3>2. QED
      BY <1>1, <3>1 DEF Units
  <2> DEFINE u == [kind |-> "update", n |-> N]
  <2>2. u \in Units /\ h = <<u>>
    BY <2>1
  <2> HIDE DEF u, h
  <2>3. h \in Seq(Units) /\ Len(h) = 1 /\ h[1] = u
    BY <2>2
  <2>4. QED
    BY <2>3 DEF u
<1>6. Update(rects) = h \o f
  BY DEF Update
<1> HIDE DEF h, f, N
<1>7. /\ Update(rects) \in Seq(Units) /\ Len(Update(rects)) = 1 + Len(f)
      /\ Update(rects)[1] = h[1]
      /\ \A i \in 1..Len(f) : Update(rects)[i + 1] = f[i]
  <2>1. /\ h \o f \in Seq(Units) /\ Len(h \o f) = Len(h) + Len(f)
        /\ \A i \in 1..Len(h) + Len(f) : (h \o f)[i] = IF i <= Len(h) THEN h[i] ELSE f[i - Len(h)]
    BY <1>4, <1>5, ConcatProperties, ZenonT(60)
  <2>2. 1 \in 1..Len(h) + Len(f) /\ 1 <= Len(h)
    BY <1>4, <1>5
  <2>3. ASSUME NEW i \in 1..Len(f) PROVE (h \o f)[i + 1] = f[i]
    <3>1. i + 1 \in 1..Len(h) + Len(f) /\ ~(i + 1 <= Len(h)) /\ i + 1 - Len(h) = i
      BY <1>4, <1>5
    <3>2. QED
      BY <2>1, <3>1
  <2>4. (h \o f)[1] = h[1]
    BY <2>1, <2>2
  <2>5. QED
    BY <1>5, <1>6, <2>1, <2>3, <2>4
<1>8. /\ p(0) = <<>> /\ p(N) = f
      /\ \A n \in 0..N : p(n) \in Seq(Units)
      /\ \A n \in 1..N : p(n) = p(n - 1) \o rects[n]
  BY <1>3, JoinedSteps DEF N, f
<1> HIDE DEF p
<1>9. ASSUME NEW j \in 0..N
      PROVE  /\ Len(p(j)) \in Nat /\ Len(p(j)) <= Len(f)
             /\ \A i \in 1..Len(p(j)) : f[i] = p(j)[i]
  <2>1. p(j) \in Seq(Units)
    BY <1>8
  <2>2. N \in 0..Len(rects) /\ j \in 0..N
    BY <1>1 DEF N
  <2>3. /\ Len(JoinedTo(rects, j)) <= Len(JoinedTo(rects, N))
        /\ \A i \in 1..Len(JoinedTo(rects, j)) : JoinedTo(rects, N)[i] = JoinedTo(rects, j)[i]
    BY <1>3, <2>2, JoinedWithin
  <2>4. Len(p(j)) <= Len(p(N)) /\ \A i \in 1..Len(p(j)) : p(N)[i] = p(j)[i]
    BY <2>3 DEF p
  <2>5. QED
    BY <1>8, <2>1, <2>4
<1>10. ASSUME NEW j \in 0..N - 1
       PROVE  /\ Len(p(j + 1)) = Len(p(j)) + Len(rects[j + 1])
              /\ Update(rects)[Len(p(j)) + 2] = rects[j + 1][1]
  <2>1. j + 1 \in 1..N /\ j + 1 - 1 = j /\ j \in 0..N /\ j + 1 \in 0..N
    BY <1>1
  <2>2. p(j + 1) = p(j) \o rects[j + 1]
    <3>1. ASSUME NEW n \in 1..N, n = j + 1 PROVE p(n) = p(j) \o rects[n]
      <4>1. p(n) = p(n - 1) \o rects[n]
        BY <1>8
      <4>2. n - 1 = j
        BY <2>1, <3>1
      <4>3. QED
        BY <4>1, <4>2
    <3>2. QED
      BY <2>1, <3>1
  <2> DEFINE r == rects[j + 1]
  <2>3. p(j) \in Seq(Units) /\ r \in Seq(Units) /\ Len(r) \in Nat \ {0}
    BY <1>2, <1>8, <2>1
  <2> HIDE DEF r
  <2>4. Len(p(j)) \in Nat
    BY <2>3
  <2>5. /\ Len(p(j) \o r) = Len(p(j)) + Len(r)
        /\ \A i \in 1..Len(p(j)) + Len(r) : (p(j) \o r)[i] = IF i <= Len(p(j)) THEN p(j)[i] ELSE r[i - Len(p(j))]
    BY <2>3, ConcatProperties
  <2>6. (p(j) \o r)[Len(p(j)) + 1] = r[1]
    <3>1. /\ Len(p(j)) + 1 \in 1..Len(p(j)) + Len(r) /\ ~(Len(p(j)) + 1 <= Len(p(j)))
          /\ Len(p(j)) + 1 - Len(p(j)) = 1
      BY <2>3, <2>4
    <3>2. QED
      BY <2>5, <3>1
  <2>7. /\ Len(p(j + 1)) = Len(p(j)) + Len(r) /\ p(j + 1)[Len(p(j)) + 1] = r[1]
    BY <2>2, <2>5, <2>6 DEF r
  <2>8. /\ Len(p(j + 1)) <= Len(f) /\ \A i \in 1..Len(p(j + 1)) : f[i] = p(j + 1)[i]
    BY <1>9, <2>1
  <2>9. Len(p(j)) + 1 \in 1..Len(p(j + 1)) /\ Len(p(j)) + 1 \in 1..Len(f)
        /\ Len(p(j)) + 1 + 1 = Len(p(j)) + 2
    BY <1>4, <2>3, <2>4, <2>7, <2>8
  <2>10. f[Len(p(j)) + 1] = r[1]
    BY <2>7, <2>8, <2>9
  <2>11. Update(rects)[Len(p(j)) + 1 + 1] = f[Len(p(j)) + 1]
    BY <1>7, <2>9
  <2>12. Update(rects)[Len(p(j)) + 2] = r[1]
    BY <2>9, <2>10, <2>11
  <2>13. QED
    BY <2>7, <2>12 DEF r
<1>11. Update(rects)[1] = [kind |-> "update", n |-> Len(rects)]
  BY <1>5, <1>7 DEF N
<1>12. Len(Update(rects)) = 1 + Len(p(N))
  BY <1>7, <1>8
<1>13. \A j \in 0..N : Len(p(j)) \in Nat /\ Len(p(j)) <= Len(p(N))
  BY <1>8, <1>9
<1>14. QED
  BY <1>3, <1>7, <1>8, <1>10, <1>11, <1>12, <1>13 DEF p, N

\* Every message begins with its kind and says its length.
LEMMA MessageFacts ==
  ASSUME NEW m \in Messages
  PROVE  /\ m \in Seq(Units) /\ Len(m) \in Nat \ {0} /\ Kind(m) = m[1].kind
         /\ Kind(m) \in HandshakeKinds \cup {"refused"} \cup SessionKinds
         /\ Kind(m) = "update" => \E rects \in RectLists : m = Update(rects)
         /\ Kind(m) # "update" => Len(m) = m[1].n
         /\ m \in HandshakeMessages <=> Kind(m) \in HandshakeKinds
         /\ Kind(m) \in {"version", "challenge", "ok", "refused"} => Len(m) = 1
         /\ Kind(m) \in {"none", "vncauth", "init"} => Len(m) = 2
         /\ m = AudioBegin <=> Kind(m) = "audio begin"
<1> DEFINE Ones == {"version", "challenge", "ok", "refused", "audio begin"}
           Twos == {"none", "vncauth", "init", "cut text", "audio data"}
           l(k) == IF k \in Twos THEN 2 ELSE 1
           P(k) == Part(k, l(k))
<1>1. \A k \in Ones \cup Twos : k \in UnitKinds /\ k # "update"
  BY DEF UnitKinds
<1>a. (\A k \in Ones : l(k) = 1) /\ (\A k \in Twos : l(k) = 2)
  OBVIOUS
<1>b. HandshakeKinds \cup {"refused", "cut text", "audio begin", "audio data"} = Ones \cup Twos
      /\ HandshakeKinds \subseteq Ones \cup Twos
  BY DEF HandshakeKinds
<1>c. /\ HandshakeMessages = {P(k) : k \in HandshakeKinds}
      /\ Part("refused", 1) = P("refused") /\ CutText = P("cut text")
      /\ AudioBegin = P("audio begin") /\ AudioData = P("audio data")
  <2> DEFINE Hs == {Part("version", 1), Part("none", 2), Part("vncauth", 2),
                    Part("challenge", 1), Part("ok", 1), Part("init", 2)}
  <2>1. /\ l("version") = 1 /\ l("challenge") = 1 /\ l("ok") = 1 /\ l("refused") = 1
        /\ l("audio begin") = 1 /\ l("none") = 2 /\ l("vncauth") = 2 /\ l("init") = 2
        /\ l("cut text") = 2 /\ l("audio data") = 2
    BY <1>a
  <2> HIDE DEF l
  <2>2. Hs = {P("version"), P("none"), P("vncauth"), P("challenge"), P("ok"), P("init")}
    BY <2>1
  <2> HIDE DEF P
  <2>3. {P("version"), P("none"), P("vncauth"), P("challenge"), P("ok"), P("init")}
          = {P(k) : k \in HandshakeKinds}
    BY DEF HandshakeKinds
  <2>4. HandshakeMessages = {P(k) : k \in HandshakeKinds}
    BY <2>2, <2>3 DEF HandshakeMessages
  <2>5. /\ Part("refused", 1) = P("refused") /\ CutText = P("cut text")
        /\ AudioBegin = P("audio begin") /\ AudioData = P("audio data")
    BY <2>1 DEF P, CutText, AudioBegin, AudioData
  <2>6. QED
    BY <2>4, <2>5
<1>d. \A k \in Ones \cup Twos : l(k) \in Nat \ {0}
  <2>1. \A k \in Ones \cup Twos : l(k) \in {1, 2}
    OBVIOUS
  <2>2. {1, 2} \subseteq Nat \ {0}
    OBVIOUS
  <2> HIDE DEF l
  <2>3. QED
    BY <2>1, <2>2
<1> HIDE DEF Ones, Twos, l
<1>3. ASSUME NEW k \in Ones \cup Twos
      PROVE  /\ P(k) \in Seq(Units) /\ Len(P(k)) = l(k)
             /\ P(k)[1].n = l(k) /\ P(k)[1].kind = k /\ Kind(P(k)) = k
  <2>1. k \in UnitKinds /\ l(k) \in Nat \ {0}
    BY <1>1, <1>d
  <2>2. P(k) \in Seq(Units) /\ Len(P(k)) = l(k)
        /\ P(k)[1] = [kind |-> k, n |-> l(k)] /\ Kind(P(k)) = k
    BY <2>1, PartFacts
  <2>3. QED
    BY <2>2
<1> HIDE DEF P
<1>2. ASSUME NEW a \in Messages
      PROVE  \/ \E k \in Ones \cup Twos : a = P(k)
             \/ \E rects \in RectLists : a = Update(rects)
  <2>1. CASE a \in HandshakeMessages \cup {Part("refused", 1), CutText, AudioBegin, AudioData}
    <3>1. \/ \E k \in HandshakeKinds : a = P(k)
          \/ \E k \in {"refused", "cut text", "audio begin", "audio data"} : a = P(k)
      BY <2>1, <1>c
    <3>2. QED
      BY <3>1, <1>b
  <2>2. CASE a \in Drawings \cup {NewSize, AudioAck}
    BY <2>2 DEF Drawings, NewSize, AudioAck, RectLists
  <2>3. QED
    BY <2>1, <2>2 DEF Messages, Notices
<1>4. ASSUME NEW rects \in RectLists
      PROVE  /\ Update(rects) \in Seq(Units) /\ Len(Update(rects)) \in Nat \ {0}
             /\ Update(rects)[1].kind = "update" /\ Kind(Update(rects)) = "update"
  <2> DEFINE u == Update(rects)
  <2>1. /\ u \in Seq(Units) /\ u[1] = [kind |-> "update", n |-> Len(rects)]
        /\ Len(u) = 1 + Len(JoinedTo(rects, Len(rects)))
    BY UpdateFacts
  <2>2. Len(JoinedTo(rects, Len(rects))) \in Nat
    <3>1. Len(rects) \in 0..Len(rects)
      BY ListFacts
    <3>2. QED
      BY <3>1, UpdateFacts
  <2> HIDE DEF u
  <2>3. Len(u) \in Nat \ {0} /\ u # <<>> /\ Head(u) = u[1]
    BY <2>1, <2>2
  <2>4. u[1].kind = "update"
    BY <2>1
  <2>5. QED
    BY <2>1, <2>3, <2>4 DEF u, Kind
<1>5. AudioBegin \in Messages /\ Kind(AudioBegin) = "audio begin"
  <2>1. "audio begin" \in Ones \cup Twos
    BY DEF Ones
  <2>2. QED
    BY <1>3, <1>c, <2>1 DEF Messages, Notices
<1>6. m \in HandshakeMessages => Kind(m) \in HandshakeKinds
  <2>1. \A k \in HandshakeKinds : Kind(P(k)) = k
    BY <1>3, <1>b
  <2>2. QED
    BY <1>c, <2>1
<1>7. CASE \E k \in Ones \cup Twos : m = P(k)
  <2>1. PICK k \in Ones \cup Twos : m = P(k)
    BY <1>7
  <2>2. /\ m \in Seq(Units) /\ Len(m) = l(k) /\ l(k) \in Nat \ {0}
        /\ m[1].n = l(k) /\ m[1].kind = k /\ Kind(m) = k
    BY <2>1, <1>3, <1>d
  <2>3. k \in HandshakeKinds \cup {"refused"} \cup SessionKinds /\ k # "update"
    <3>1. k \in HandshakeKinds \cup {"refused", "cut text", "audio begin", "audio data"}
      BY <1>b
    <3>2. QED
      BY <3>1, <1>1 DEF SessionKinds
  <2>4. k \in {"version", "challenge", "ok", "refused"} => l(k) = 1
    <3>1. {"version", "challenge", "ok", "refused"} \subseteq Ones
      BY DEF Ones
    <3>2. QED
      BY <1>a, <3>1
  <2>5. k \in {"none", "vncauth", "init"} => l(k) = 2
    <3>1. {"none", "vncauth", "init"} \subseteq Twos
      BY DEF Twos
    <3>2. QED
      BY <1>a, <3>1
  <2>6. k \in HandshakeKinds => m \in HandshakeMessages
    BY <1>c, <2>1
  <2>7. k = "audio begin" => m = AudioBegin
    BY <1>c, <2>1
  <2>8. QED
    BY <1>5, <1>6, <2>2, <2>3, <2>4, <2>5, <2>6, <2>7
<1>8. CASE \E rects \in RectLists : m = Update(rects)
  <2>1. PICK rects \in RectLists : m = Update(rects)
    BY <1>8
  <2>2. m \in Seq(Units) /\ Len(m) \in Nat \ {0} /\ m[1].kind = "update" /\ Kind(m) = "update"
    BY <1>4, <2>1
  <2>3. "update" \notin HandshakeKinds /\ "update" \in SessionKinds
    BY DEF HandshakeKinds, SessionKinds
  <2>4. QED
    BY <1>5, <1>6, <2>1, <2>2, <2>3
<1>9. QED
  BY <1>2, <1>7, <1>8

Extra(m, j) == IF m = AudioAck /\ j = 1 THEN OnAudioSupported ELSE <<>>

\* The acknowledgement of audio is in no update but its own.
LEMMA AckInside ==
  ASSUME NEW rects \in RectLists, rects = <<Ack>>
  PROVE  \E u \in ToSet(Update(rects)) : u.kind = "ack"
<1> DEFINE m == Update(rects)
<1>1. Len(rects) = 1 /\ rects[1] = Ack
  BY ListFacts
<1>2. 0 \in 0..Len(rects) - 1 /\ 0 + 1 = 1
  BY <1>1
<1>3. m[Len(JoinedTo(rects, 0)) + 2] = rects[1][1] /\ Len(JoinedTo(rects, 0)) = 0
  <2>1. JoinedTo(rects, 0) = <<>>
    BY UpdateFacts
  <2>2. \A j \in 0..Len(rects) - 1 :
          Update(rects)[Len(JoinedTo(rects, j)) + 2] = rects[j + 1][1]
    BY UpdateFacts
  <2>3. Update(rects)[Len(JoinedTo(rects, 0)) + 2] = rects[0 + 1][1]
    BY <1>2, <2>2
  <2>4. Len(<<>>) = 0
    OBVIOUS
  <2>5. QED
    BY <1>2, <2>1, <2>3, <2>4
<1>4. m[2].kind = "ack"
  <2>1. Ack[1].kind = "ack"
    <3>1. Ack \in Rects
      BY DEF Rects
    <3>2. QED
      BY <3>1, RectFacts
  <2>2. m[2] = Ack[1]
    BY <1>1, <1>3
  <2>3. QED
    BY <2>1, <2>2
<1>5. 2 \in DOMAIN m
  <2>1. m \in Seq(Units) /\ Len(m) = 1 + Len(JoinedTo(rects, Len(rects)))
    BY UpdateFacts
  <2>2. Len(JoinedTo(rects, 0 + 1)) = Len(JoinedTo(rects, 0)) + Len(rects[0 + 1])
    BY <1>2, UpdateFacts
  <2>3. Len(JoinedTo(rects, 1)) = Len(Ack)
    <3>1. 0 + Len(Ack) = Len(Ack)
      BY RectFacts DEF Rects
    <3>2. QED
      BY <1>1, <1>2, <1>3, <2>2, <3>1
  <2>4. Len(Ack) \in Nat \ {0}
    BY RectFacts DEF Rects
  <2> HIDE DEF m
  <2>5. QED
    BY <1>1, <2>1, <2>3, <2>4
<1>6. QED
  BY <1>4, <1>5 DEF ToSet

\* The answer to an update: to the acknowledgement, if it is one.
LEMMA UpdateAnswered ==
  ASSUME NEW rects \in RectLists
  PROVE  /\ Update(rects) = AudioAck <=> rects = <<Ack>>
         /\ UpdateAnswers(Update(rects)) = Extra(Update(rects), Len(rects)) \o <<"request">>
<1> DEFINE m == Update(rects)
           T == [kind : UnitKinds \ {"ack"}, n : Nat]
<1>1. rects = <<Ack>> => \E u \in ToSet(m) : u.kind = "ack"
  BY AckInside
<1>2. ASSUME rects # <<Ack>> PROVE \A u \in ToSet(m) : u.kind # "ack"
  <2>1. \A j \in 1..Len(rects) : rects[j] \in Rects /\ rects[j] # Ack
    <3>1. rects \in Seq(Rects) /\ \A j \in 1..Len(rects) : rects[j] # Ack
      BY <1>2, ListFacts
    <3>2. QED
      BY <3>1
  <2>2. \A j \in 1..Len(rects) : rects[j] \in Seq(T)
    BY <2>1, RectFacts
  <2> HIDE DEF T
  <2>3. rects \in Seq(Seq(T))
    <3>1. rects \in Seq(Rects)
      BY ListFacts
    <3>2. rects = [j \in 1..Len(rects) |-> rects[j]] /\ Len(rects) \in Nat
      BY <3>1
    <3>3. rects \in [1..Len(rects) -> Seq(T)]
      BY <2>2, <3>2
    <3>4. QED
      BY <3>2, <3>3
  <2> DEFINE f == FlattenSeq(rects)
             u == [kind |-> "update", n |-> Len(rects)]
  <2>4. f \in Seq(T)
    BY <2>3, FlattenIn
  <2>5. u \in T
    <3>1. "update" \in UnitKinds \ {"ack"}
      BY DEF UnitKinds
    <3>2. Len(rects) \in Nat
      BY <2>3
    <3>3. QED
      BY <3>1, <3>2 DEF T
  <2>6. m = <<u>> \o f
    BY DEF Update
  <2> HIDE DEF f, u, m
  <2>7. m \in Seq(T)
    <3>1. <<u>> \in Seq(T)
      BY <2>5
    <3>2. QED
      BY <2>4, <2>6, <3>1, ConcatProperties
  <2>8. ASSUME NEW x \in ToSet(m) PROVE x.kind # "ack"
    <3>1. PICK i \in DOMAIN m : x = m[i]
      BY DEF ToSet
    <3>2. x \in T
      BY <2>7, <3>1
    <3>3. QED
      BY <3>2 DEF T
  <2>9. QED
    BY <2>8
<1>3. m = AudioAck <=> rects = <<Ack>>
  <2>1. <<Ack>> \in RectLists
    BY DEF RectLists
  <2>2. rects = <<Ack>> => m = AudioAck
    BY DEF AudioAck
  <2>3. ASSUME m = AudioAck, rects # <<Ack>> PROVE FALSE
    <3>1. \E u \in ToSet(AudioAck) : u.kind = "ack"
      BY <2>1, AckInside DEF AudioAck
    <3>2. QED
      BY <1>2, <2>3, <3>1
  <2>4. QED
    BY <2>2, <2>3
<1>4. UpdateAnswers(m) = Extra(m, Len(rects)) \o <<"request">>
  <2> HIDE DEF m
  <2>1. CASE rects = <<Ack>>
    <3>1. Len(rects) = 1 /\ m = AudioAck
      BY <2>1, <1>3, ListFacts
    <3>2. QED
      BY <1>1, <2>1, <3>1 DEF UpdateAnswers, Extra
  <2>2. CASE rects # <<Ack>>
    <3>1. m # AudioAck /\ ~\E u \in ToSet(m) : u.kind = "ack"
      BY <1>2, <1>3, <2>2
    <3>2. QED
      BY <3>1 DEF UpdateAnswers, Extra
  <2>3. QED
    BY <2>1, <2>2
<1>5. QED
  BY <1>3, <1>4

\* What is answered in the handshake is one word, but to ServerInit.
LEMMA AnswerFacts ==
  ASSUME NEW m \in Messages
  PROVE  /\ Answers(m) \in Seq(Words)
         /\ Kind(m) = "version" => Answers(m) = <<"version">>
         /\ Kind(m) = "none" => Answers(m) = <<"none">>
         /\ Kind(m) = "vncauth" => Answers(m) = <<"vncauth">>
         /\ Kind(m) = "challenge" => Answers(m) = <<"response">>
         /\ Kind(m) = "ok" => Answers(m) = <<"shared">>
         /\ Kind(m) = "init" => Answers(m) = <<"encodings", "request">>
         /\ Kind(m) \in {"refused", "cut text", "audio begin", "audio data"} =>
              Answers(m) = <<>>
         /\ \A rects \in RectLists : m = Update(rects) =>
              Answers(m) = Extra(m, Len(rects)) \o <<"request">>
<1>1. Kind(m) = "update" => \E rects \in RectLists : m = Update(rects)
  BY MessageFacts
<1>2. \A rects \in RectLists : m = Update(rects) => Kind(m) = "update"
  <2>1. ASSUME NEW rects \in RectLists, m = Update(rects) PROVE Kind(m) = "update"
    <3>1. m[1] = [kind |-> "update", n |-> Len(rects)]
      BY <2>1, UpdateFacts
    <3>2. m[1].kind = "update"
      BY <3>1
    <3>3. QED
      BY <3>2, MessageFacts
  <2>2. QED
    BY <2>1
<1>3. m \in HandshakeMessages <=> Kind(m) \in HandshakeKinds
  BY MessageFacts
<1>4. Kind(m) \in HandshakeKinds \cup {"refused"} \cup SessionKinds
  BY MessageFacts
<1>5. Kind(m) \in HandshakeKinds => Answers(m) = HandshakeAnswers(m)
  <2>1. "update" \notin HandshakeKinds
    BY DEF HandshakeKinds
  <2>2. ASSUME Kind(m) \in HandshakeKinds PROVE Answers(m) = HandshakeAnswers(m)
    <3>1. m \in HandshakeMessages /\ Kind(m) # "update"
      BY <1>3, <2>1, <2>2
    <3>2. QED
      BY <3>1 DEF Answers
  <2>3. QED
    BY <2>2
<1>6. Kind(m) = "update" => Answers(m) = UpdateAnswers(m)
  <2>1. "update" \notin HandshakeKinds
    BY DEF HandshakeKinds
  <2>2. QED
    BY <1>3, <2>1 DEF Answers
<1>7. Kind(m) \in {"refused", "cut text", "audio begin", "audio data"} => Answers(m) = <<>>
  <2>1. {"refused", "cut text", "audio begin", "audio data"} \cap HandshakeKinds = {}
    BY DEF HandshakeKinds
  <2>2. "update" \notin {"refused", "cut text", "audio begin", "audio data"}
    OBVIOUS
  <2>3. ASSUME Kind(m) \in {"refused", "cut text", "audio begin", "audio data"}
        PROVE  Answers(m) = <<>>
    <3>1. m \notin HandshakeMessages /\ Kind(m) # "update"
      BY <1>3, <2>1, <2>2, <2>3
    <3>2. QED
      BY <3>1 DEF Answers
  <2>4. QED
    BY <2>3
<1>8. ASSUME NEW rects \in RectLists, m = Update(rects)
      PROVE  Answers(m) = Extra(m, Len(rects)) \o <<"request">>
  <2>1. UpdateAnswers(Update(rects)) = Extra(Update(rects), Len(rects)) \o <<"request">>
    BY UpdateAnswered
  <2>2. QED
    BY <1>2, <1>6, <1>8, <2>1
<1>9. /\ Kind(m) = "version" => Answers(m) = <<"version">>
      /\ Kind(m) = "none" => Answers(m) = <<"none">>
      /\ Kind(m) = "vncauth" => Answers(m) = <<"vncauth">>
      /\ Kind(m) = "challenge" => Answers(m) = <<"response">>
      /\ Kind(m) = "ok" => Answers(m) = <<"shared">>
      /\ Kind(m) = "init" => Answers(m) = <<"encodings", "request">>
  BY <1>5 DEF HandshakeKinds, HandshakeAnswers
<1>10. Answers(m) \in Seq(Words)
  <2>1. OnAudioSupported \in Seq(Words) /\ <<"request">> \in Seq(Words)
    <3>1. "set format" \in Words /\ "enable" \in Words /\ "request" \in Words
      BY DEF Words, SessionWords
    <3>2. /\ <<"set format", "enable">> \in Seq(Words) /\ <<"request">> \in Seq(Words)
          /\ <<>> \in Seq(Words)
      <4>1. \A S : \A x, y \in S : <<x, y>> \in Seq(S) /\ <<y>> \in Seq(S) /\ <<>> \in Seq(S)
        OBVIOUS
      <4>2. QED
        BY <3>1, <4>1
    <3>3. QED
      BY <3>2 DEF OnAudioSupported
  <2>2. CASE Kind(m) = "update"
    <3>1. PICK rects \in RectLists : m = Update(rects)
      BY <1>1, <2>2
    <3>2. Extra(m, Len(rects)) \in Seq(Words)
      BY <2>1 DEF Extra
    <3>3. Extra(m, Len(rects)) \o <<"request">> \in Seq(Words)
      BY <2>1, <3>2, ConcatProperties
    <3>4. QED
      BY <1>8, <3>1, <3>3
  <2>3. CASE Kind(m) # "update"
    <3>1. /\ <<"version">> \in Seq(Words) /\ <<"none">> \in Seq(Words)
          /\ <<"vncauth">> \in Seq(Words) /\ <<"response">> \in Seq(Words)
          /\ <<"shared">> \in Seq(Words) /\ <<"encodings", "request">> \in Seq(Words)
          /\ <<>> \in Seq(Words)
      BY DEF Words, SessionWords
    <3>2. \/ Kind(m) \in {"version", "none", "vncauth", "challenge", "ok", "init"}
          \/ Kind(m) \in {"refused", "cut text", "audio begin", "audio data"}
      BY <1>4, <2>3 DEF HandshakeKinds, SessionKinds
    <3>3. QED
      BY <1>7, <1>9, <3>1, <3>2
  <2>4. QED
    BY <2>2, <2>3
<1>11. QED
  BY <1>7, <1>8, <1>9, <1>10

-----------------------------------------------------------------------------
(* The stream, and the parser's place in it. *)

AnswersTo(s) == [i \in DOMAIN s |-> Answers(s[i])]

\* Messages are sequences of units, and their answers of words.
LEMMA SentFacts ==
  ASSUME NEW q \in Seq(Messages)
  PROVE  /\ q \in Seq(Seq(Units)) /\ AnswersTo(q) \in Seq(Seq(Words))
         /\ Len(AnswersTo(q)) = Len(q)
         /\ \A i \in 1..Len(q) : AnswersTo(q)[i] = Answers(q[i])
<1> DEFINE N == Len(q)
<1>1. N \in Nat /\ DOMAIN q = 1..N /\ q = [i \in 1..N |-> q[i]] /\ \A i \in 1..N : q[i] \in Messages
  OBVIOUS
<1> HIDE DEF N
<1>2. \A i \in 1..N : q[i] \in Seq(Units) /\ Answers(q[i]) \in Seq(Words)
  BY <1>1, MessageFacts, AnswerFacts
<1>3. q \in [1..N -> Seq(Units)]
  BY <1>1, <1>2
<1>4. AnswersTo(q) = [i \in 1..N |-> Answers(q[i])]
  BY <1>1 DEF AnswersTo
<1>5. AnswersTo(q) \in [1..N -> Seq(Words)]
  BY <1>2, <1>4
<1>6. q \in Seq(Seq(Units)) /\ AnswersTo(q) \in Seq(Seq(Words))
  BY <1>1, <1>3, <1>5
<1>7. Len(AnswersTo(q)) = N
  BY <1>1, <1>5, <1>6
<1>8. QED
  BY <1>4, <1>6, <1>7 DEF N

\* What has been said up to a message, and with the next.
LEMMA SaidFacts ==
  ASSUME NEW q \in Seq(Messages), NEW d \in 0..Len(q)
  PROVE  /\ JoinedTo(AnswersTo(q), d) \in Seq(Words)
         /\ JoinedTo(AnswersTo(q), 0) = <<>>
         /\ d < Len(q) => /\ d + 1 \in 0..Len(q) /\ q[d + 1] \in Messages
                          /\ JoinedTo(AnswersTo(q), d + 1) = JoinedTo(AnswersTo(q), d) \o Answers(q[d + 1])
<1> DEFINE a == AnswersTo(q)
<1>1. a \in Seq(Seq(Words)) /\ Len(a) = Len(q) /\ \A i \in 1..Len(q) : a[i] = Answers(q[i])
  BY SentFacts
<1> HIDE DEF a
<1>2. /\ JoinedTo(a, 0) = <<>> /\ \A n \in 0..Len(q) : JoinedTo(a, n) \in Seq(Words)
      /\ \A n \in 1..Len(q) : JoinedTo(a, n) = JoinedTo(a, n - 1) \o a[n]
  BY <1>1, JoinedSteps
<1>3. ASSUME d < Len(q)
      PROVE  JoinedTo(a, d + 1) = JoinedTo(a, d) \o Answers(q[d + 1])
  <2>1. ASSUME NEW n \in 1..Len(q), n = d + 1
        PROVE  JoinedTo(a, n) = JoinedTo(a, d) \o Answers(q[n])
    <3>1. n - 1 = d
      BY <2>1
    <3>2. QED
      BY <1>1, <1>2, <3>1
  <2>2. d + 1 \in 1..Len(q)
    BY <1>3
  <2>3. QED
    BY <2>1, <2>2
<1>4. d < Len(q) => d + 1 \in 0..Len(q) /\ q[d + 1] \in Messages
  OBVIOUS
<1>5. QED
  BY <1>2, <1>3, <1>4 DEF a

\* In the handshake, each message has one answer.
LEMMA OneEach ==
  ASSUME NEW q \in Seq(Messages), NEW d \in 0..Len(q),
         \A i \in 1..d : Kind(q[i]) \in HandshakeKinds \ {"init"}
  PROVE  /\ Len(JoinedTo(AnswersTo(q), d)) = d
         /\ d > 0 => JoinedTo(AnswersTo(q), d)[d] = Answers(q[d])[1]
<1> DEFINE s(n) == JoinedTo(AnswersTo(q), n)
           T == {n \in 0..d : Len(s(n)) = n}
<1>1. ASSUME NEW n \in 1..d
      PROVE  /\ s(n) = s(n - 1) \o Answers(q[n]) /\ s(n - 1) \in Seq(Words)
             /\ Answers(q[n]) \in Seq(Words) /\ Len(Answers(q[n])) = 1
  <2>1. n - 1 \in 0..Len(q) /\ n - 1 < Len(q) /\ n - 1 + 1 = n /\ q[n] \in Messages
    OBVIOUS
  <2>2. s(n - 1) \in Seq(Words) /\ s(n - 1 + 1) = s(n - 1) \o Answers(q[n - 1 + 1])
    BY <2>1, SaidFacts
  <2>3. Kind(q[n]) \in {"version", "none", "vncauth", "challenge", "ok"}
    BY DEF HandshakeKinds
  <2>4. Answers(q[n]) \in Seq(Words) /\ Len(Answers(q[n])) = 1
    <3>1. Answers(q[n]) \in Seq(Words)
      BY <2>1, AnswerFacts
    <3>2. Answers(q[n]) \in {<<"version">>, <<"none">>, <<"vncauth">>, <<"response">>, <<"shared">>}
      BY <2>1, <2>3, AnswerFacts
    <3> DEFINE x == Answers(q[n])
    <3>3. \A y \in {<<"version">>, <<"none">>, <<"vncauth">>, <<"response">>, <<"shared">>} : Len(y) = 1
      OBVIOUS
    <3>4. QED
      BY <3>1, <3>2, <3>3
  <2>5. QED
    BY <2>1, <2>2, <2>4
<1>2. s(0) = <<>>
  BY SaidFacts
<1> HIDE DEF s
<1>3. 0 \in T
  BY <1>2
<1>4. ASSUME NEW n \in 1..d, n - 1 \in T PROVE n \in T
  <2> DEFINE b == Answers(q[n])
  <2>1. s(n) = s(n - 1) \o b /\ s(n - 1) \in Seq(Words) /\ b \in Seq(Words) /\ Len(b) = 1
        /\ Len(s(n - 1)) = n - 1
    BY <1>1, <1>4
  <2> HIDE DEF b
  <2>2. Len(s(n - 1) \o b) = Len(s(n - 1)) + Len(b)
    BY <2>1, ConcatProperties
  <2>3. Len(s(n)) = n - 1 + 1
    BY <2>1, <2>2
  <2>4. QED
    BY <2>3
<1>5. \A n \in 0..d : n \in T
  <2>1. d \in Nat
    OBVIOUS
  <2> HIDE DEF T
  <2>2. QED
    BY <1>3, <1>4, <2>1, UpTo
<1>6. Len(s(d)) = d
  BY <1>5
<1>7. ASSUME d > 0 PROVE s(d)[d] = Answers(q[d])[1]
  <2> DEFINE b == Answers(q[d])
  <2>1. d \in 1..d /\ d - 1 \in 0..d
    BY <1>7
  <2>2. s(d) = s(d - 1) \o b /\ s(d - 1) \in Seq(Words) /\ b \in Seq(Words) /\ Len(b) = 1
    BY <1>1, <2>1
  <2>3. Len(s(d - 1)) = d - 1
    BY <1>5, <2>1
  <2> HIDE DEF b
  <2> DEFINE a == s(d - 1)
  <2>a. a \in Seq(Words) /\ Len(a) = d - 1 /\ s(d) = a \o b
    BY <2>2, <2>3
  <2> HIDE DEF a
  <2>b. \A i \in 1..Len(a) + Len(b) : (a \o b)[i] = IF i <= Len(a) THEN a[i] ELSE b[i - Len(a)]
    BY <2>2, <2>a, ConcatProperties, ZenonT(60)
  <2>c. d \in 1..Len(a) + Len(b) /\ ~(d <= Len(a)) /\ d - Len(a) = 1
    BY <2>1, <2>2, <2>a
  <2>4. s(d)[d] = b[1]
    BY <2>a, <2>b, <2>c
  <2>5. QED
    BY <2>4 DEF b
<1>8. QED
  BY <1>6, <1>7 DEF s

\* With d messages consumed of those sent, and a units arrived: what waits.
Waiting(q, d, a) == SubSeq(Stream(q), Len(JoinedTo(q, d)) + 1, a)

\* What waits is what arrived after the messages consumed.
LEMMA WaitingFacts ==
  ASSUME NEW q \in Seq(Messages), NEW d \in 0..Len(q), NEW a \in 0..Len(Stream(q)),
         Len(JoinedTo(q, d)) <= a
  PROVE  /\ Len(JoinedTo(q, d)) \in Nat /\ JoinedTo(q, d) \in Seq(Units)
         /\ Stream(q) \in Seq(Units) /\ Len(Stream(q)) \in Nat
         /\ Waiting(q, d, a) \in Seq(Units)
         /\ Len(Waiting(q, d, a)) = a - Len(JoinedTo(q, d))
         /\ \A i \in 1..a - Len(JoinedTo(q, d)) :
              Waiting(q, d, a)[i] = Stream(q)[Len(JoinedTo(q, d)) + i]
         /\ d = Len(q) => Waiting(q, d, a) = <<>> /\ a = Len(JoinedTo(q, d))
<1>1. q \in Seq(Seq(Units)) /\ Len(q) \in Nat /\ d \in Nat
  BY SentFacts
<1>2. /\ JoinedTo(q, Len(q)) = Stream(q) /\ JoinedTo(q, d) \in Seq(Units)
      /\ JoinedTo(q, Len(q)) \in Seq(Units)
  <2>1. Len(q) \in 0..Len(q)
    BY <1>1
  <2>2. QED
    BY <1>1, <2>1, JoinedSteps DEF Stream
<1> DEFINE x == Stream(q)
           k == Len(JoinedTo(q, d))
           w == Waiting(q, d, a)
<1>3. x \in Seq(Units) /\ Len(x) \in Nat /\ k \in Nat /\ k <= a /\ a \in 0..Len(x)
  <2>1. x \in Seq(Units)
    BY <1>2
  <2>2. k \in Nat
    BY <1>2
  <2> HIDE DEF x
  <2>3. Len(x) \in Nat
    BY <2>1
  <2>4. QED
    BY <2>1, <2>2, <2>3 DEF x
<1>4. w = SubSeq(x, k + 1, a)
  BY DEF Waiting
<1>5. d = Len(q) => k = Len(x)
  BY <1>2
<1> HIDE DEF x, k, w
<1>6. /\ w \in Seq(Units) /\ Len(w) = a - k
      /\ \A i \in 1..a - k : w[i] = x[k + i]
  <2>1. \A i \in k + 1..a : x[i] \in Units
    BY <1>3
  <2>2. /\ SubSeq(x, k + 1, a) \in Seq(Units)
        /\ Len(SubSeq(x, k + 1, a)) = IF k + 1 <= a THEN a - (k + 1) + 1 ELSE 0
        /\ \A i \in 1..a - (k + 1) + 1 : SubSeq(x, k + 1, a)[i] = x[k + 1 + i - 1]
    BY <1>3, <2>1, SubSeqProperties, SMTT(60)
  <2>3. (IF k + 1 <= a THEN a - (k + 1) + 1 ELSE 0) = a - k /\ a - (k + 1) + 1 = a - k
    BY <1>3
  <2>4. ASSUME NEW i \in 1..a - k PROVE w[i] = x[k + i]
    <3>1. k + 1 + i - 1 = k + i
      BY <1>3
    <3>2. QED
      BY <1>4, <2>2, <2>3, <3>1
  <2>5. QED
    BY <1>4, <2>2, <2>3, <2>4
<1>7. d = Len(q) => w = <<>> /\ a = k
  <2>1. ASSUME d = Len(q) PROVE w = <<>> /\ a = k
    <3>1. a = k
      BY <1>3, <1>5, <2>1
    <3>2. Len(w) = 0
      BY <1>3, <1>6, <3>1
    <3>3. QED
      BY <1>6, <3>1, <3>2
  <2>2. QED
    BY <2>1
<1>8. QED
  BY <1>2, <1>3, <1>6, <1>7 DEF x, k, w

\* The parser sees the next message, as far as it has arrived, and goes on
\* to the one after it.
LEMMA NextMessage ==
  ASSUME NEW q \in Seq(Messages), NEW d \in 0..Len(q), NEW a \in 0..Len(Stream(q)),
         Len(JoinedTo(q, d)) <= a, d < Len(q)
  PROVE  /\ \A i \in 1..Len(q[d + 1]) :
              i <= Len(Waiting(q, d, a)) => Waiting(q, d, a)[i] = q[d + 1][i]
         /\ Len(JoinedTo(q, d + 1)) = Len(JoinedTo(q, d)) + Len(q[d + 1])
         /\ Len(q[d + 1]) <= Len(Waiting(q, d, a)) =>
              /\ Len(JoinedTo(q, d + 1)) <= a
              /\ JoinedTo(q, d) \o SubSeq(Waiting(q, d, a), 1, Len(q[d + 1])) = JoinedTo(q, d + 1)
              /\ SubSeq(Waiting(q, d, a), Len(q[d + 1]) + 1, Len(Waiting(q, d, a))) = Waiting(q, d + 1, a)
<1> DEFINE x == Stream(q)
           h == JoinedTo(q, d)
           k == Len(h)
           m == q[d + 1]
           w == Waiting(q, d, a)
           g == JoinedTo(q, d + 1)
<1>1. /\ k \in Nat /\ h \in Seq(Units) /\ x \in Seq(Units) /\ Len(x) \in Nat
      /\ w \in Seq(Units) /\ Len(w) = a - k /\ \A i \in 1..a - k : w[i] = x[k + i]
  BY WaitingFacts
<1>2. d + 1 \in 1..Len(q) /\ Len(q) \in 0..Len(q) /\ d + 1 \in 0..Len(q) /\ m \in Messages
  OBVIOUS
<1>3. m \in Seq(Units) /\ Len(m) \in Nat \ {0}
  BY <1>2, MessageFacts
<1>4. g = h \o m
  <2>1. \A n \in 1..Len(q) : JoinedTo(q, n) = JoinedTo(q, n - 1) \o q[n]
    BY SentFacts, JoinedSteps
  <2>2. ASSUME NEW n \in 1..Len(q), n = d + 1 PROVE JoinedTo(q, n) = JoinedTo(q, d) \o q[n]
    <3>1. n - 1 = d
      BY <2>2
    <3>2. QED
      BY <2>1, <3>1
  <2>3. QED
    BY <1>2, <2>2
<1>5. Len(g) <= Len(x) /\ \A i \in 1..Len(g) : x[i] = g[i]
  <2>1. JoinedTo(q, Len(q)) = x
    BY SentFacts, JoinedSteps DEF Stream
  <2>2. d + 1 \in 0..Len(q) /\ Len(q) \in 0..Len(q)
    BY <1>2
  <2>3. /\ Len(JoinedTo(q, d + 1)) <= Len(JoinedTo(q, Len(q)))
        /\ \A i \in 1..Len(JoinedTo(q, d + 1)) : JoinedTo(q, Len(q))[i] = JoinedTo(q, d + 1)[i]
    <3>1. q \in Seq(Seq(Units))
      BY SentFacts
    <3>2. \A n \in 0..Len(q) : \A j \in 0..n :
            /\ Len(JoinedTo(q, j)) <= Len(JoinedTo(q, n))
            /\ \A i \in 1..Len(JoinedTo(q, j)) : JoinedTo(q, n)[i] = JoinedTo(q, j)[i]
      BY <3>1, JoinedWithin
    <3>3. QED
      BY <2>2, <3>2
  <2>4. QED
    BY <2>1, <2>3
<1>6. a \in 0..Len(x) /\ k <= a
  OBVIOUS
<1>7. Waiting(q, d + 1, a) = SubSeq(x, Len(g) + 1, a)
  BY DEF Waiting
<1>8. Len(g) <= a => /\ Waiting(q, d + 1, a) \in Seq(Units)
                     /\ Len(Waiting(q, d + 1, a)) = a - Len(g)
                     /\ \A i \in 1..a - Len(g) : Waiting(q, d + 1, a)[i] = x[Len(g) + i]
  <2>1. ASSUME NEW n \in 0..Len(q), n = d + 1, Len(JoinedTo(q, n)) <= a
        PROVE  /\ Waiting(q, n, a) \in Seq(Units)
               /\ Len(Waiting(q, n, a)) = a - Len(JoinedTo(q, n))
               /\ \A i \in 1..a - Len(JoinedTo(q, n)) : Waiting(q, n, a)[i] = x[Len(JoinedTo(q, n)) + i]
    BY <2>1, WaitingFacts
  <2>2. QED
    BY <1>2, <2>1
<1> DEFINE y == Waiting(q, d + 1, a)
<1> HIDE DEF x, h, k, m, w, g, y
<1>9. /\ g \in Seq(Units) /\ Len(h) = k
      /\ Len(g) = k + Len(m)
      /\ \A i \in 1..k + Len(m) : g[i] = IF i <= k THEN h[i] ELSE m[i - k]
  BY <1>1, <1>3, <1>4, ConcatProperties DEF k
<1>10. ASSUME NEW i \in 1..Len(m), i <= Len(w) PROVE w[i] = m[i]
  <2>1. i \in 1..a - k /\ k + i \in 1..k + Len(m) /\ ~(k + i <= k) /\ k + i - k = i
    BY <1>1, <1>3, <1>6, <1>10
  <2>2. w[i] = x[k + i]
    BY <1>1, <2>1
  <2>3. x[k + i] = g[k + i]
    BY <1>5, <1>9, <2>1
  <2>4. g[k + i] = m[i]
    BY <1>9, <2>1, SMTT(60)
  <2>5. QED
    BY <2>2, <2>3, <2>4
<1>11. ASSUME Len(m) <= Len(w)
       PROVE  /\ Len(g) <= a
              /\ h \o SubSeq(w, 1, Len(m)) = g
              /\ SubSeq(w, Len(m) + 1, Len(w)) = y
  <2>1. Len(g) <= a /\ Len(g) \in Nat
    BY <1>1, <1>3, <1>6, <1>9, <1>11
  <2>2. SubSeq(w, 1, Len(m)) = m
    <3>1. \A i \in 1..Len(m) : w[i] \in Units
      BY <1>1, <1>3, <1>11
    <3>2. /\ SubSeq(w, 1, Len(m)) \in Seq(Units) /\ Len(SubSeq(w, 1, Len(m))) = Len(m)
          /\ \A i \in 1..Len(m) : SubSeq(w, 1, Len(m))[i] = w[i]
      BY <1>3, <3>1
    <3>3. \A i \in 1..Len(m) : SubSeq(w, 1, Len(m))[i] = m[i]
      <4>1. \A i \in 1..Len(m) : i <= Len(w)
        BY <1>1, <1>3, <1>6, <1>11
      <4>2. QED
        BY <1>10, <3>2, <4>1
    <3> DEFINE v == SubSeq(w, 1, Len(m))
    <3>4. v \in Seq(Units) /\ Len(v) = Len(m) /\ \A i \in 1..Len(v) : v[i] = m[i]
      BY <3>2, <3>3
    <3> HIDE DEF v
    <3>5. v = m
      BY <1>3, <3>4, SeqEqual
    <3>6. QED
      BY <3>5 DEF v
  <2>3. SubSeq(w, Len(m) + 1, Len(w)) = y
    <3> DEFINE v == SubSeq(w, Len(m) + 1, Len(w))
               l == Len(m)
    <3>1. l \in Nat /\ Len(w) \in Nat /\ l <= Len(w)
      BY <1>1, <1>3, <1>6, <1>11
    <3> HIDE DEF l
    <3>2. \A i \in l + 1..Len(w) : w[i] \in Units
      BY <1>1, <3>1
    <3>3. /\ v \in Seq(Units) /\ Len(v) = Len(w) - l
          /\ \A i \in 1..Len(w) - l : v[i] = w[l + i]
      <4>1. /\ SubSeq(w, l + 1, Len(w)) \in Seq(Units)
            /\ Len(SubSeq(w, l + 1, Len(w))) = IF l + 1 <= Len(w) THEN Len(w) - (l + 1) + 1 ELSE 0
            /\ \A i \in 1..Len(w) - (l + 1) + 1 : SubSeq(w, l + 1, Len(w))[i] = w[l + 1 + i - 1]
        BY <3>1, <3>2, SubSeqProperties
      <4>2. /\ (IF l + 1 <= Len(w) THEN Len(w) - (l + 1) + 1 ELSE 0) = Len(w) - l
            /\ Len(w) - (l + 1) + 1 = Len(w) - l
        BY <3>1
      <4>3. ASSUME NEW i \in 1..Len(w) - l PROVE v[i] = w[l + i]
        <5>1. l + 1 + i - 1 = l + i
          BY <3>1
        <5>2. QED
          BY <4>1, <4>2, <5>1 DEF l
      <4>4. QED
        BY <4>1, <4>2, <4>3 DEF l
    <3>4. /\ y \in Seq(Units) /\ Len(y) = a - Len(g) /\ \A i \in 1..a - Len(g) : y[i] = x[Len(g) + i]
      BY <1>8, <2>1 DEF y
    <3>5. a - Len(g) = Len(w) - l /\ Len(g) = k + l
      BY <1>1, <1>6, <1>9, <3>1 DEF l
    <3>6. ASSUME NEW i \in 1..Len(w) - l PROVE v[i] = y[i]
      <4>1. l + i \in 1..a - k /\ k + (l + i) = Len(g) + i
        BY <1>1, <1>6, <3>1, <3>5
      <4>2. v[i] = x[k + (l + i)]
        BY <1>1, <3>3, <4>1
      <4>3. y[i] = x[Len(g) + i]
        BY <3>4, <3>5
      <4>4. QED
        BY <4>1, <4>2, <4>3
    <3> HIDE DEF v
    <3>7. v = y
      BY <3>3, <3>4, <3>5, <3>6, SeqEqual
    <3>8. QED
      BY <3>7 DEF v, l
  <2>4. QED
    BY <1>4, <2>1, <2>2, <2>3
<1>12. QED
  BY <1>9, <1>10, <1>11 DEF h, k, m, w, g, y

\* One more message changes nothing of what came before it.
Grown(q, m, r) ==
  /\ r \in Seq(Messages) /\ Len(r) = Len(q) + 1 /\ r[Len(q) + 1] = m
  /\ \A i \in 1..Len(q) : r[i] = q[i]
  /\ Len(Stream(q)) <= Len(Stream(r)) /\ Len(Stream(r)) \in Nat
  /\ \A d \in 0..Len(q) : /\ JoinedTo(r, d) = JoinedTo(q, d)
                          /\ JoinedTo(AnswersTo(r), d) = JoinedTo(AnswersTo(q), d)
  /\ \A d \in 0..Len(q), a \in 0..Len(Stream(q)) :
       Len(JoinedTo(q, d)) <= a => Waiting(r, d, a) = Waiting(q, d, a)

LEMMA OneMore ==
  ASSUME NEW q \in Seq(Messages), NEW m \in Messages, NEW r, r = Append(q, m)
  PROVE  Grown(q, m, r)
<1> DEFINE N == Len(q)
<1>1. /\ r \in Seq(Messages) /\ Len(r) = N + 1 /\ r[N + 1] = m /\ N \in Nat
      /\ \A i \in 1..N : r[i] = q[i]
  OBVIOUS
<1>2. ASSUME NEW d \in 0..N
      PROVE  /\ JoinedTo(r, d) = JoinedTo(q, d)
             /\ JoinedTo(AnswersTo(r), d) = JoinedTo(AnswersTo(q), d)
  <2>1. SubSeq(r, 1, d) = SubSeq(q, 1, d)
    BY <1>1
  <2>2. SubSeq(AnswersTo(r), 1, d) = SubSeq(AnswersTo(q), 1, d)
    <3>1. /\ AnswersTo(r) \in Seq(Seq(Words)) /\ Len(AnswersTo(r)) = N + 1
          /\ AnswersTo(q) \in Seq(Seq(Words)) /\ Len(AnswersTo(q)) = N
      BY <1>1, SentFacts
    <3>2. \A i \in 1..N : AnswersTo(r)[i] = AnswersTo(q)[i]
      <4>1. \A i \in 1..Len(r) : AnswersTo(r)[i] = Answers(r[i])
        BY <1>1, SentFacts
      <4>2. \A i \in 1..N : AnswersTo(q)[i] = Answers(q[i])
        BY SentFacts
      <4>3. \A i \in 1..N : i \in 1..Len(r)
        BY <1>1
      <4> HIDE DEF N
      <4>4. QED
        BY <1>1, <4>1, <4>2, <4>3
    <3> DEFINE b == AnswersTo(r)
               c == AnswersTo(q)
    <3>3. b \in Seq(Seq(Words)) /\ c \in Seq(Seq(Words)) /\ Len(b) = N + 1 /\ Len(c) = N
          /\ \A i \in 1..N : b[i] = c[i]
      BY <3>1, <3>2
    <3> HIDE DEF b, c, N
    <3>4. SubSeq(b, 1, d) = SubSeq(c, 1, d)
      BY <1>1, <3>3
    <3>5. QED
      BY <3>4 DEF b, c
  <2>3. QED
    BY <2>1, <2>2 DEF JoinedTo
<1>3. /\ Stream(q) \in Seq(Units) /\ Stream(r) = Stream(q) \o m /\ m \in Seq(Units)
  <2>1. q \in Seq(Seq(Units)) /\ m \in Seq(Units)
    BY SentFacts, MessageFacts
  <2>2. FlattenSeq(q) \in Seq(Units) /\ FlattenSeq(Append(q, m)) = FlattenSeq(q) \o m
    BY <2>1, FlattenIn, FlattenMore
  <2>3. QED
    BY <2>1, <2>2 DEF Stream
<1> DEFINE x == Stream(q)
           z == Stream(r)
<1>4. x \in Seq(Units) /\ z = x \o m /\ m \in Seq(Units)
  BY <1>3
<1> HIDE DEF x, z
<1>5. Len(x) <= Len(z) /\ Len(z) \in Nat /\ \A a \in 0..Len(x) : a \in 0..Len(z)
  <2>1. Len(x) \in Nat /\ Len(m) \in Nat /\ Len(z) = Len(x) + Len(m)
    BY <1>4, ConcatProperties
  <2>2. QED
    BY <2>1
<1>6. ASSUME NEW d \in 0..N, NEW a \in 0..Len(x), Len(JoinedTo(q, d)) <= a
      PROVE  Waiting(r, d, a) = Waiting(q, d, a)
  <2> DEFINE k == Len(JoinedTo(q, d))
  <2>1. k \in Nat
    BY <1>6, WaitingFacts DEF x, N
  <2>2. SubSeq(z, k + 1, a) = SubSeq(x, k + 1, a)
    <3> HIDE DEF k
    <3>1. CASE a < k + 1
      BY <2>1, <3>1, SubSeqEmpty
    <3>2. CASE a >= k + 1
      <4>1. k + 1 \in 1..Len(x) /\ a \in 1..Len(x)
        BY <2>1, <1>5, <3>2
      <4>2. QED
        BY <1>4, <4>1, SubSeqOfConcat1, SMTT(60)
    <3>3. QED
      BY <2>1, <3>1, <3>2
  <2>3. QED
    BY <1>2, <2>2 DEF Waiting, x, z
<1>7. QED
  BY <1>1, <1>2, <1>5, <1>6 DEF x, z, Grown

-----------------------------------------------------------------------------
(* Both ends together. *)

\* What the server may send after a message, and where the parser is then.
Follow(k) ==
  CASE k = "version" -> {"none", "vncauth"}
    [] k = "vncauth" -> {"challenge"}
    [] k = "none" -> {"ok"}
    [] k = "challenge" -> {"ok", "refused"}
    [] k = "ok" -> {"init"}
    [] k = "refused" -> {}
    [] OTHER -> SessionKinds

StateAfter(k) ==
  CASE k = "version" -> "WAIT_SECURITY"
    [] k = "vncauth" -> "WAIT_AUTH_CHALLENGE"
    [] k \in {"none", "challenge"} -> "WAIT_AUTH_RESULT"
    [] k = "ok" -> "WAIT_SERVER_INIT"
    [] OTHER -> "NORMAL"

Said(d) == JoinedTo(AnswersTo(sent), d)

\* The handshake: ServerInit has not been sent.
Shaking == \A i \in 1..Len(sent) : Kind(sent[i]) # "init"

\* Until ServerInit the server sends only when it is answered.
Lockstep ==
  /\ sent # <<>> /\ Kind(sent[1]) = "version"
  /\ \A i \in 1..Len(sent) - 1 : Kind(sent[i + 1]) \in Follow(Kind(sent[i]))
  /\ Shaking =>
       /\ answered = Len(sent) - 1
       /\ \A i \in 1..Len(sent) : Kind(sent[i]) \in HandshakeKinds \cup {"refused"}
  /\ ~Shaking =>
       /\ Kind(sent[Len(sent)]) \in {"init"} \cup SessionKinds
       /\ vnc_state \in {"WAIT_SERVER_INIT", "NORMAL"}
       /\ \A i \in answered + 1..Len(replies) : replies[i] \in SessionWords

\* The first d messages are consumed, and what came after them waits.
Placed(d) ==
  /\ handled = JoinedTo(sent, d)
  /\ Len(handled) <= arrived
  /\ input_buf = Waiting(sent, d, arrived)

\* The next is an update, and rects_parsed of its rectangles are handled.
InUpdate(d) ==
  /\ d < Len(sent) /\ parsing /\ vnc_state = "NORMAL"
  /\ \E rects \in RectLists :
       /\ sent[d + 1] = Update(rects)
       /\ rects_parsed \in 0..Len(rects)
       /\ offset = 1 + Len(JoinedTo(rects, rects_parsed))
       /\ offset <= Len(input_buf)
  /\ replies = Said(d) \o Extra(sent[d + 1], rects_parsed)

\* The next is not whole, or the server has refused.
Stopped(d) ==
  d < Len(sent) =>
    Len(input_buf) < Len(sent[d + 1]) \/ Kind(sent[d + 1]) = "refused"

\* The parser has handled d messages, and perhaps a part of an update.
Parsed(d) ==
  /\ Placed(d)
  /\ \A i \in 1..d : Kind(sent[i]) # "refused"
  /\ vnc_state = IF d = 0 THEN "WAIT_VERSION" ELSE StateAfter(Kind(sent[d]))
  /\ audio_dev <=> \E i \in 1..d : sent[i] = AudioBegin
  /\ offset = 0 => replies = Said(d)
  /\ offset # 0 => InUpdate(d)
  /\ ~parsing => offset = 0 /\ Stopped(d)

WebTypes ==
  /\ open \in BOOLEAN /\ update_requested \in BOOLEAN /\ parsing \in BOOLEAN
  /\ audio_dev \in BOOLEAN /\ connects \in 0..MaxConnects
  /\ sent \in Seq(Messages) /\ replies \in Seq(Words)
  /\ answered \in 0..Len(replies) /\ arrived \in 0..Len(Stream(sent))
  /\ vnc_state \in {"WAIT_VERSION", "WAIT_SECURITY", "WAIT_AUTH_CHALLENGE",
                    "WAIT_AUTH_RESULT", "WAIT_SERVER_INIT", "NORMAL"}
  /\ rects_parsed \in 0..MaxRectsOf

\* A connection that was cut leaves nothing to the next.
Closed == ~parsing /\ offset = 0 /\ ~audio_dev /\ input_buf = <<>>

WebInv ==
  /\ WebTypes
  /\ ~open => Closed
  /\ open => Lockstep /\ \E d \in 0..Len(sent) : Parsed(d)

LEMMA PlaceFacts ==
  ASSUME WebTypes, NEW d \in 0..Len(sent), Placed(d)
  PROVE  /\ input_buf \in Seq(Units) /\ Len(input_buf) \in Nat
         /\ Len(input_buf) = arrived - Len(JoinedTo(sent, d))
         /\ d = Len(sent) => input_buf = <<>>
         /\ input_buf # <<>> =>
              /\ d < Len(sent) /\ sent[d + 1] \in Messages
              /\ Head(input_buf) = sent[d + 1][1]
              /\ Head(input_buf).kind = Kind(sent[d + 1])
         /\ d < Len(sent) =>
              /\ \A i \in 1..Len(sent[d + 1]) : i <= Len(input_buf) => input_buf[i] = sent[d + 1][i]
              /\ Len(JoinedTo(sent, d + 1)) = Len(JoinedTo(sent, d)) + Len(sent[d + 1])
<1>1. /\ sent \in Seq(Messages) /\ arrived \in 0..Len(Stream(sent))
      /\ Len(JoinedTo(sent, d)) <= arrived /\ input_buf = Waiting(sent, d, arrived)
  BY DEF WebTypes, Placed
<1>2. /\ input_buf \in Seq(Units) /\ Len(input_buf) = arrived - Len(JoinedTo(sent, d))
      /\ d = Len(sent) => input_buf = <<>>
  BY <1>1, WaitingFacts
<1>3. d < Len(sent) =>
        /\ \A i \in 1..Len(sent[d + 1]) : i <= Len(input_buf) => input_buf[i] = sent[d + 1][i]
        /\ Len(JoinedTo(sent, d + 1)) = Len(JoinedTo(sent, d)) + Len(sent[d + 1])
  BY <1>1, NextMessage, ZenonT(60)
<1>4. ASSUME input_buf # <<>>
      PROVE  /\ d < Len(sent) /\ sent[d + 1] \in Messages
             /\ Head(input_buf) = sent[d + 1][1]
             /\ Head(input_buf).kind = Kind(sent[d + 1])
  <2>1. d < Len(sent) /\ d + 1 \in 1..Len(sent)
    BY <1>1, <1>2, <1>4
  <2>2. sent[d + 1] \in Messages
    BY <1>1, <2>1
  <2>3. Len(sent[d + 1]) \in Nat \ {0} /\ Kind(sent[d + 1]) = sent[d + 1][1].kind
    BY <2>2, MessageFacts
  <2>4. 1 <= Len(input_buf) /\ Head(input_buf) = input_buf[1]
    BY <1>2, <1>4
  <2>5. input_buf[1] = sent[d + 1][1]
    <3>1. 1 \in 1..Len(sent[d + 1])
      BY <2>3
    <3>2. QED
      BY <1>3, <2>1, <2>4, <3>1
  <2>6. QED
    BY <2>1, <2>2, <2>3, <2>4, <2>5
<1>5. Len(input_buf) \in Nat
  BY <1>2
<1>6. QED
  BY <1>2, <1>3, <1>4, <1>5

\* A message is consumed.
LEMMA Consumed ==
  ASSUME WebTypes, NEW d \in 0..Len(sent), Placed(d), d < Len(sent),
         Has(Len(sent[d + 1])), Consume(Len(sent[d + 1])), UNCHANGED <<sent, arrived>>
  PROVE  d + 1 \in 0..Len(sent) /\ Placed(d + 1)'
<1>1. /\ sent \in Seq(Messages) /\ arrived \in 0..Len(Stream(sent))
      /\ handled = JoinedTo(sent, d)
      /\ Len(JoinedTo(sent, d)) <= arrived /\ input_buf = Waiting(sent, d, arrived)
      /\ sent' = sent /\ arrived' = arrived
  BY DEF WebTypes, Placed
<1>2. Len(input_buf) \in Nat /\ sent[d + 1] \in Messages /\ d + 1 \in 0..Len(sent)
  <2>1. d + 1 \in 1..Len(sent)
    OBVIOUS
  <2>2. QED
    BY <1>1, <2>1, PlaceFacts
<1>3. Len(sent[d + 1]) <= Len(input_buf)
  <2>1. Len(sent[d + 1]) \in Nat
    BY <1>2, MessageFacts
  <2>2. QED
    BY <1>2, <2>1 DEF Has
<1>4. /\ Len(JoinedTo(sent, d + 1)) <= arrived
      /\ handled' = JoinedTo(sent, d + 1)
      /\ input_buf' = Waiting(sent, d + 1, arrived)
  BY <1>1, <1>3, NextMessage DEF Consume
<1>5. QED
  BY <1>1, <1>2, <1>4 DEF Placed

\* The parser is through with a message.
LEMMA Advance ==
  ASSUME WebTypes, NEW d \in 0..Len(sent), Parsed(d), d < Len(sent), Placed(d + 1)',
         sent' = sent, Kind(sent[d + 1]) # "refused",
         vnc_state' = StateAfter(Kind(sent[d + 1])),
         audio_dev' <=> audio_dev \/ sent[d + 1] = AudioBegin,
         offset' = 0, parsing' = TRUE, replies' = Said(d) \o Answers(sent[d + 1])
  PROVE  Parsed(d + 1)' /\ d + 1 \in 0..Len(sent)'
<1>1. sent \in Seq(Messages) /\ d + 1 \in 0..Len(sent) /\ d + 1 # 0 /\ Len(sent) \in Nat
  BY DEF WebTypes
<1>2. replies' = JoinedTo(AnswersTo(sent), d + 1)
  BY <1>1, SaidFacts DEF Said
<1>3. \A i \in 1..d + 1 : i \in 1..d \/ i = d + 1
  BY <1>1
<1>a. d + 1 \in 1..d + 1 /\ \A i \in 1..d : i \in 1..d + 1
  BY <1>1
<1>4. \A i \in 1..d + 1 : Kind(sent[i]) # "refused"
  BY <1>3 DEF Parsed
<1>5. audio_dev' <=> \E i \in 1..d + 1 : sent[i] = AudioBegin
  <2>1. audio_dev <=> \E i \in 1..d : sent[i] = AudioBegin
    BY DEF Parsed
  <2>2. QED
    BY <1>3, <1>a, <2>1
<1>6. QED
  BY <1>1, <1>2, <1>4, <1>5 DEF Parsed, Said

\* The server sends; the parser is where it was.
LEMMA Extends ==
  ASSUME WebTypes, NEW d \in 0..Len(sent), Parsed(d), NEW m \in Messages, sent' = Append(sent, m),
         UNCHANGED <<arrived, input_buf, vnc_state, parsing, offset, rects_parsed,
                     audio_dev, replies, handled>>
  PROVE  /\ Parsed(d)' /\ d \in 0..Len(sent)'
         /\ sent' \in Seq(Messages) /\ arrived' \in 0..Len(Stream(sent'))
<1>1. sent \in Seq(Messages) /\ arrived \in 0..Len(Stream(sent)) /\ Placed(d)
      /\ handled = JoinedTo(sent, d) /\ Len(JoinedTo(sent, d)) <= arrived
      /\ input_buf = Waiting(sent, d, arrived)
  BY DEF WebTypes, Parsed, Placed
<1>2. /\ sent' \in Seq(Messages) /\ Len(sent') = Len(sent) + 1 /\ sent'[Len(sent) + 1] = m
      /\ \A i \in 1..Len(sent) : sent'[i] = sent[i]
      /\ Len(Stream(sent)) <= Len(Stream(sent')) /\ Len(Stream(sent')) \in Nat
      /\ JoinedTo(sent', d) = JoinedTo(sent, d)
      /\ JoinedTo(AnswersTo(sent'), d) = JoinedTo(AnswersTo(sent), d)
      /\ Waiting(sent', d, arrived) = Waiting(sent, d, arrived)
  <2>1. Grown(sent, m, sent')
    BY <1>1, OneMore
  <2>2. QED
    BY <1>1, <2>1 DEF Grown
<1>3. arrived' \in 0..Len(Stream(sent')) /\ d \in 0..Len(sent')
  <2>1. arrived' = arrived
    OBVIOUS
  <2>2. Len(Stream(sent)) \in Nat /\ Len(sent) \in Nat
    BY <1>1, WaitingFacts
  <2>3. QED
    BY <1>1, <1>2, <2>1, <2>2
<1>4. Placed(d)'
  BY <1>1, <1>2 DEF Placed
<1>5. /\ \A i \in 1..d : sent'[i] = sent[i]
      /\ d # 0 => sent'[d] = sent[d]
      /\ d < Len(sent) => d < Len(sent') /\ sent'[d + 1] = sent[d + 1]
  BY <1>1, <1>2
<1>6. Said(d)' = Said(d)
  BY <1>2 DEF Said
<1>7. InUpdate(d) => InUpdate(d)'
  BY <1>5, <1>6 DEF InUpdate
<1>8. ASSUME Stopped(d) PROVE Stopped(d)'
  <2>1. CASE d < Len(sent)
    BY <1>5, <1>8, <2>1 DEF Stopped
  <2>2. CASE d = Len(sent)
    <3>1. input_buf = <<>>
      BY <1>1, <2>2, PlaceFacts
    <3>2. Len(m) \in Nat \ {0} /\ sent'[d + 1] = m
      BY <1>2, <2>2, MessageFacts
    <3>3. Len(input_buf') < Len(sent'[d + 1])
      BY <3>1, <3>2
    <3>4. QED
      BY <3>3 DEF Stopped
  <2>3. QED
    BY <1>1, <2>1, <2>2
<1>9. Parsed(d)'
  BY <1>4, <1>5, <1>6, <1>7, <1>8 DEF Parsed
<1>10. QED
  BY <1>2, <1>3, <1>9

\* The parser's state says what the server may send next.
LEMMA StatesFollow ==
  ASSUME NEW k \in HandshakeKinds \cup SessionKinds
  PROVE  /\ StateAfter(k) # "WAIT_VERSION"
         /\ StateAfter(k) = "WAIT_SECURITY" => Follow(k) = {"none", "vncauth"}
         /\ StateAfter(k) = "WAIT_AUTH_CHALLENGE" => Follow(k) = {"challenge"}
         /\ StateAfter(k) = "WAIT_AUTH_RESULT" => Follow(k) \subseteq {"ok", "refused"}
         /\ StateAfter(k) = "WAIT_SERVER_INIT" => Follow(k) = {"init"}
         /\ StateAfter(k) = "NORMAL" => Follow(k) = SessionKinds
         /\ k \in {"init"} \cup SessionKinds => StateAfter(k) = "NORMAL"
<1>1. k \in {"version", "none", "vncauth", "challenge", "ok", "init", "update", "cut text",
             "audio begin", "audio data"}
  BY DEF HandshakeKinds, SessionKinds
<1>2. k \in {"version", "none", "vncauth", "challenge", "ok"} => k \notin {"init"} \cup SessionKinds
  BY DEF SessionKinds
<1>3. /\ k = "version" => StateAfter(k) = "WAIT_SECURITY" /\ Follow(k) = {"none", "vncauth"}
      /\ k = "vncauth" => StateAfter(k) = "WAIT_AUTH_CHALLENGE" /\ Follow(k) = {"challenge"}
      /\ k = "none" => StateAfter(k) = "WAIT_AUTH_RESULT" /\ Follow(k) = {"ok"}
      /\ k = "challenge" => StateAfter(k) = "WAIT_AUTH_RESULT" /\ Follow(k) = {"ok", "refused"}
      /\ k = "ok" => StateAfter(k) = "WAIT_SERVER_INIT" /\ Follow(k) = {"init"}
      /\ k \in {"init", "update", "cut text", "audio begin", "audio data"} =>
           StateAfter(k) = "NORMAL" /\ Follow(k) = SessionKinds
  BY DEF StateAfter, Follow
<1>4. QED
  BY <1>1, <1>2, <1>3

\* What the parser waits for is what comes.
LEMMA Expected ==
  ASSUME WebTypes, Lockstep, NEW d \in 0..Len(sent), Parsed(d), d < Len(sent)
  PROVE  /\ d + 1 \in 1..Len(sent) /\ sent[d + 1] \in Messages
         /\ vnc_state = "WAIT_VERSION" => Kind(sent[d + 1]) = "version"
         /\ vnc_state = "WAIT_SECURITY" => Kind(sent[d + 1]) \in {"none", "vncauth"}
         /\ vnc_state = "WAIT_AUTH_CHALLENGE" => Kind(sent[d + 1]) = "challenge"
         /\ vnc_state = "WAIT_AUTH_RESULT" => Kind(sent[d + 1]) \in {"ok", "refused"}
         /\ vnc_state = "WAIT_SERVER_INIT" => Kind(sent[d + 1]) = "init"
         /\ vnc_state = "NORMAL" => Kind(sent[d + 1]) \in SessionKinds
<1>1. sent \in Seq(Messages) /\ d + 1 \in 1..Len(sent) /\ sent[d + 1] \in Messages
  BY DEF WebTypes
<1>2. CASE d = 0
  <2>1. vnc_state = "WAIT_VERSION" /\ Kind(sent[d + 1]) = "version"
    BY <1>2 DEF Parsed, Lockstep
  <2>2. QED
    BY <1>1, <2>1
<1>3. CASE d # 0
  <2>1. d \in 1..d /\ d \in 1..Len(sent) /\ d \in 1..Len(sent) - 1
    BY <1>1, <1>3
  <2>2. Kind(sent[d]) # "refused" /\ vnc_state = StateAfter(Kind(sent[d]))
    BY <1>3, <2>1 DEF Parsed
  <2>3. Kind(sent[d]) \in HandshakeKinds \cup SessionKinds
    <3>1. sent[d] \in Messages
      BY <1>1, <2>1
    <3>2. QED
      BY <2>2, <3>1, MessageFacts
  <2>4. Kind(sent[d + 1]) \in Follow(Kind(sent[d]))
    BY <2>1 DEF Lockstep
  <2> DEFINE k == Kind(sent[d])
             l == Kind(sent[d + 1])
  <2>5. k \in HandshakeKinds \cup SessionKinds /\ l \in Follow(k) /\ vnc_state = StateAfter(k)
    BY <2>2, <2>3, <2>4
  <2> HIDE DEF k, l
  <2>6. /\ vnc_state # "WAIT_VERSION"
        /\ vnc_state = "WAIT_SECURITY" => l \in {"none", "vncauth"}
        /\ vnc_state = "WAIT_AUTH_CHALLENGE" => l \in {"challenge"}
        /\ vnc_state = "WAIT_AUTH_RESULT" => l \in {"ok", "refused"}
        /\ vnc_state = "WAIT_SERVER_INIT" => l \in {"init"}
        /\ vnc_state = "NORMAL" => l \in SessionKinds
    BY <2>5, StatesFollow
  <2>7. QED
    BY <1>1, <2>6 DEF l
<1>4. QED
  BY <1>2, <1>3

\* A pass of the parser leaves the server alone.
LEMMA PassKeeps ==
  ASSUME WebTypes, Lockstep, open, UNCHANGED <<open, connects, serverVars, arrived>>,
         \/ vnc_state' \in {vnc_state, "NORMAL"}
         \/ /\ vnc_state \notin {"WAIT_SERVER_INIT", "NORMAL"}
            /\ vnc_state' \in {"WAIT_SECURITY", "WAIT_AUTH_CHALLENGE", "WAIT_AUTH_RESULT",
                               "WAIT_SERVER_INIT"},
         NEW ws \in Seq(Words), replies' = replies \o ws,
         vnc_state \in {"WAIT_SERVER_INIT", "NORMAL"} => ws \in Seq(SessionWords),
         parsing' \in BOOLEAN, audio_dev' \in BOOLEAN, rects_parsed' \in 0..MaxRectsOf
  PROVE  WebTypes' /\ Lockstep' /\ open'
<1>1. /\ open' = open /\ connects' = connects /\ sent' = sent /\ answered' = answered
      /\ update_requested' = update_requested /\ arrived' = arrived
  BY DEF serverVars
<1>2. /\ replies \in Seq(Words) /\ Len(replies) \in Nat /\ Len(ws) \in Nat
      /\ replies' \in Seq(Words) /\ Len(replies') = Len(replies) + Len(ws)
      /\ \A i \in 1..Len(replies) + Len(ws) :
           replies'[i] = IF i <= Len(replies) THEN replies[i] ELSE ws[i - Len(replies)]
      /\ answered \in 0..Len(replies)
  <2>1. replies \in Seq(Words) /\ answered \in 0..Len(replies)
    BY DEF WebTypes
  <2>2. Len(replies) \in Nat /\ Len(ws) \in Nat
    BY <2>1
  <2>3. QED
    BY <2>1, <2>2, ConcatProperties
<1>3. vnc_state' \in {"WAIT_VERSION", "WAIT_SECURITY", "WAIT_AUTH_CHALLENGE",
                      "WAIT_AUTH_RESULT", "WAIT_SERVER_INIT", "NORMAL"}
  <2>1. vnc_state \in {"WAIT_VERSION", "WAIT_SECURITY", "WAIT_AUTH_CHALLENGE",
                       "WAIT_AUTH_RESULT", "WAIT_SERVER_INIT", "NORMAL"}
    BY DEF WebTypes
  <2>2. QED
    BY <2>1
<1>4. answered' \in 0..Len(replies')
  BY <1>1, <1>2
<1>5. WebTypes'
  BY <1>1, <1>2, <1>3, <1>4 DEF WebTypes
<1>6. Shaking' <=> Shaking
  BY <1>1 DEF Shaking
<1>7. ASSUME ~Shaking
      PROVE  /\ vnc_state' \in {"WAIT_SERVER_INIT", "NORMAL"}
             /\ \A i \in answered' + 1..Len(replies') : replies'[i] \in SessionWords
  <2>1. /\ vnc_state \in {"WAIT_SERVER_INIT", "NORMAL"}
        /\ \A i \in answered + 1..Len(replies) : replies[i] \in SessionWords
    BY <1>7 DEF Lockstep
  <2>2. ws \in Seq(SessionWords)
    BY <2>1
  <2>3. ASSUME NEW i \in answered + 1..Len(replies) + Len(ws) PROVE replies'[i] \in SessionWords
    <3>1. i \in 1..Len(replies) + Len(ws) /\ i \in Int
      BY <1>2
    <3>2. CASE i <= Len(replies)
      <4>1. i \in answered + 1..Len(replies)
        BY <1>2, <3>1, <3>2
      <4>2. QED
        BY <1>2, <2>1, <3>1, <3>2, <4>1
    <3>3. CASE ~(i <= Len(replies))
      <4>1. i - Len(replies) \in 1..Len(ws)
        BY <1>2, <3>1, <3>3
      <4>2. ws[i - Len(replies)] \in SessionWords
        BY <2>2, <4>1, ElementOfSeq
      <4>3. QED
        BY <1>2, <3>1, <3>3, <4>2
    <3>4. QED
      BY <3>2, <3>3
  <2>4. vnc_state' \in {"WAIT_SERVER_INIT", "NORMAL"}
    BY <2>1
  <2>5. QED
    BY <1>1, <1>2, <2>3, <2>4
<1>8. Lockstep'
  BY <1>1, <1>6, <1>7 DEF Lockstep
<1>9. QED
  BY <1>1, <1>5, <1>8

Moved == WebTypes' /\ Lockstep' /\ open' /\ \E d \in 0..Len(sent)' : Parsed(d)'

\* The parser goes on only if something is there.
LEMMA PassFacts ==
  ASSUME WebTypes, Lockstep, NEW d \in 0..Len(sent), Parsed(d), Pass
  PROVE  /\ d < Len(sent) /\ d + 1 \in 1..Len(sent) /\ sent[d + 1] \in Messages
         /\ First = Kind(sent[d + 1]) /\ Head(input_buf) = sent[d + 1][1]
         /\ input_buf \in Seq(Units) /\ Len(input_buf) \in Nat \ {0}
         /\ vnc_state # "NORMAL" => offset = 0
         /\ Placed(d) /\ parsing
         /\ UNCHANGED <<open, connects, serverVars, arrived>> /\ sent' = sent /\ arrived' = arrived
<1>1. Placed(d) /\ input_buf # <<>> /\ parsing
      /\ UNCHANGED <<open, connects, serverVars, arrived>> /\ sent' = sent /\ arrived' = arrived
  BY DEF Pass, Parsed, serverVars
<1>2. /\ d < Len(sent) /\ sent[d + 1] \in Messages
      /\ Head(input_buf) = sent[d + 1][1] /\ Head(input_buf).kind = Kind(sent[d + 1])
      /\ input_buf \in Seq(Units) /\ Len(input_buf) \in Nat
  BY <1>1, PlaceFacts
<1>3. d + 1 \in 1..Len(sent)
  BY <1>2, Expected
<1>4. Len(input_buf) # 0
  BY <1>1, <1>2
<1>5. vnc_state # "NORMAL" => offset = 0
  BY DEF Parsed, InUpdate
<1>6. QED
  BY <1>1, <1>2, <1>3, <1>4, <1>5 DEF First

\* A message of the handshake is consumed and answered.
LEMMA OneHandled ==
  ASSUME WebTypes, Lockstep, open, NEW d \in 0..Len(sent), Parsed(d),
         NEW state, NEW n, NEW reply, NEW next, Handshake(state, n, reply, next),
         n = Len(sent[d + 1]), reply = Answers(sent[d + 1]),
         Kind(sent[d + 1]) \in HandshakeKinds, next = StateAfter(Kind(sent[d + 1])),
         \/ state = "WAIT_SERVER_INIT" /\ next = "NORMAL" /\ reply \in Seq(SessionWords)
         \/ /\ state \notin {"WAIT_SERVER_INIT", "NORMAL"}
            /\ next \in {"WAIT_SECURITY", "WAIT_AUTH_CHALLENGE", "WAIT_AUTH_RESULT",
                         "WAIT_SERVER_INIT"}
  PROVE  Moved
<1>1. /\ Pass /\ vnc_state = state /\ vnc_state # "NORMAL" /\ Has(n) /\ Consume(n)
      /\ replies' = replies \o reply /\ vnc_state' = next
      /\ parsing' = parsing /\ offset' = offset /\ rects_parsed' = rects_parsed
      /\ audio_dev' = audio_dev
  BY DEF Handshake, Reply
<1>2. /\ d < Len(sent) /\ sent[d + 1] \in Messages /\ offset = 0 /\ Placed(d) /\ parsing
      /\ UNCHANGED <<open, connects, serverVars, arrived>> /\ sent' = sent /\ arrived' = arrived
  BY <1>1, PassFacts
<1>3. d + 1 \in 0..Len(sent) /\ Placed(d + 1)'
  BY <1>1, <1>2, Consumed
<1>4. Kind(sent[d + 1]) # "refused" /\ sent[d + 1] # AudioBegin
  <2>1. "refused" \notin HandshakeKinds /\ "audio begin" \notin HandshakeKinds
    BY DEF HandshakeKinds
  <2>2. QED
    BY <1>2, <2>1, MessageFacts
<1>5. replies' = Said(d) \o Answers(sent[d + 1])
  BY <1>1, <1>2 DEF Parsed
<1>6. parsing' = TRUE /\ offset' = 0
  <2>1. parsing \in BOOLEAN
    BY DEF WebTypes
  <2>2. QED
    BY <1>1, <1>2, <2>1
<1>7. Parsed(d + 1)' /\ d + 1 \in 0..Len(sent)'
  BY <1>1, <1>2, <1>3, <1>4, <1>5, <1>6, Advance
<1>8. WebTypes' /\ Lockstep' /\ open'
  <2>1. reply \in Seq(Words)
    BY <1>2, AnswerFacts
  <2>2. parsing' \in BOOLEAN /\ audio_dev' \in BOOLEAN /\ rects_parsed' \in 0..MaxRectsOf
    BY <1>1 DEF WebTypes
  <2>3. vnc_state \in {"WAIT_SERVER_INIT", "NORMAL"} => reply \in Seq(SessionWords)
    BY <1>1
  <2>4. \/ vnc_state' \in {vnc_state, "NORMAL"}
        \/ /\ vnc_state \notin {"WAIT_SERVER_INIT", "NORMAL"}
           /\ vnc_state' \in {"WAIT_SECURITY", "WAIT_AUTH_CHALLENGE", "WAIT_AUTH_RESULT",
                              "WAIT_SERVER_INIT"}
    BY <1>1
  <2>5. QED
    BY <1>1, <1>2, <2>1, <2>2, <2>3, <2>4, PassKeeps
<1>9. QED
  BY <1>7, <1>8 DEF Moved

\* Each state of the handshake takes the message that comes in it.
LEMMA HandshakeStep ==
  ASSUME WebTypes, Lockstep, open, NEW d \in 0..Len(sent), Parsed(d),
         WaitVersion \/ WaitSecurity \/ WaitChallenge \/ WaitResult \/ WaitServerInit
  PROVE  Moved
<1> DEFINE m == sent[d + 1]
<1>1. Pass
  BY DEF WaitVersion, WaitSecurity, WaitChallenge, WaitResult, WaitServerInit, Handshake
<1>2. d < Len(sent) /\ m \in Messages /\ First = Kind(m)
  BY <1>1, PassFacts
<1>3. {"version", "none", "vncauth", "challenge", "ok", "init"} \subseteq HandshakeKinds
  BY DEF HandshakeKinds
<1>4. CASE WaitVersion
  <2>1. Handshake("WAIT_VERSION", 1, <<"version">>, "WAIT_SECURITY")
    BY <1>4 DEF WaitVersion
  <2>2. Kind(m) = "version"
    BY <1>2, <2>1, Expected DEF Handshake
  <2>3. Len(m) = 1 /\ Answers(m) = <<"version">>
    BY <1>2, <2>2, MessageFacts, AnswerFacts
  <2>4. StateAfter("version") = "WAIT_SECURITY"
    BY DEF StateAfter
  <2>5. QED
    BY <1>3, <2>1, <2>2, <2>3, <2>4, OneHandled
<1>5. CASE WaitSecurity
  <2>1. Handshake("WAIT_SECURITY", 2, <<First>>,
                  IF First = "vncauth" THEN "WAIT_AUTH_CHALLENGE" ELSE "WAIT_AUTH_RESULT")
    BY <1>5 DEF WaitSecurity
  <2>2. Kind(m) \in {"none", "vncauth"}
    BY <1>2, <2>1, Expected DEF Handshake
  <2>3. CASE Kind(m) = "none"
    <3>1. Handshake("WAIT_SECURITY", 2, <<"none">>, "WAIT_AUTH_RESULT")
      BY <1>2, <2>1, <2>3
    <3>2. Len(m) = 2 /\ Answers(m) = <<"none">>
      BY <1>2, <2>3, MessageFacts, AnswerFacts
    <3>3. StateAfter("none") = "WAIT_AUTH_RESULT"
      BY DEF StateAfter
    <3>4. QED
      BY <1>3, <2>3, <3>1, <3>2, <3>3, OneHandled
  <2>4. CASE Kind(m) = "vncauth"
    <3>1. Handshake("WAIT_SECURITY", 2, <<"vncauth">>, "WAIT_AUTH_CHALLENGE")
      BY <1>2, <2>1, <2>4
    <3>2. Len(m) = 2 /\ Answers(m) = <<"vncauth">>
      BY <1>2, <2>4, MessageFacts, AnswerFacts
    <3>3. StateAfter("vncauth") = "WAIT_AUTH_CHALLENGE"
      BY DEF StateAfter
    <3>4. QED
      BY <1>3, <2>4, <3>1, <3>2, <3>3, OneHandled
  <2>5. QED
    BY <2>2, <2>3, <2>4
<1>6. CASE WaitChallenge
  <2>1. Handshake("WAIT_AUTH_CHALLENGE", 1, <<"response">>, "WAIT_AUTH_RESULT")
    BY <1>6 DEF WaitChallenge
  <2>2. Kind(m) = "challenge"
    BY <1>2, <2>1, Expected DEF Handshake
  <2>3. Len(m) = 1 /\ Answers(m) = <<"response">>
    BY <1>2, <2>2, MessageFacts, AnswerFacts
  <2>4. StateAfter("challenge") = "WAIT_AUTH_RESULT"
    BY DEF StateAfter
  <2>5. QED
    BY <1>3, <2>1, <2>2, <2>3, <2>4, OneHandled
<1>7. CASE WaitResult
  <2>1. Handshake("WAIT_AUTH_RESULT", 1, <<"shared">>, "WAIT_SERVER_INIT") /\ First # "refused"
    BY <1>7 DEF WaitResult
  <2>2. Kind(m) = "ok"
    <3>1. Kind(m) \in {"ok", "refused"}
      BY <1>2, <2>1, Expected DEF Handshake
    <3>2. QED
      BY <1>2, <2>1, <3>1
  <2>3. Len(m) = 1 /\ Answers(m) = <<"shared">>
    BY <1>2, <2>2, MessageFacts, AnswerFacts
  <2>4. StateAfter("ok") = "WAIT_SERVER_INIT"
    BY DEF StateAfter
  <2>5. QED
    BY <1>3, <2>1, <2>2, <2>3, <2>4, OneHandled
<1>8. CASE WaitServerInit
  <2>1. Handshake("WAIT_SERVER_INIT", 2, <<"encodings", "request">>, "NORMAL")
    BY <1>8 DEF WaitServerInit
  <2>2. Kind(m) = "init"
    BY <1>2, <2>1, Expected DEF Handshake
  <2>3. Len(m) = 2 /\ Answers(m) = <<"encodings", "request">>
    BY <1>2, <2>2, MessageFacts, AnswerFacts
  <2>4. StateAfter("init") = "NORMAL"
    BY DEF StateAfter
  <2>5. <<"encodings", "request">> \in Seq(SessionWords)
    <3>1. \A S : \A x, y \in S : <<x, y>> \in Seq(S)
      OBVIOUS
    <3>2. "encodings" \in SessionWords /\ "request" \in SessionWords
      BY DEF SessionWords
    <3>3. QED
      BY <3>1, <3>2
  <2>6. QED
    BY <1>3, <2>1, <2>2, <2>3, <2>4, <2>5, OneHandled
<1>9. QED
  BY <1>4, <1>5, <1>6, <1>7, <1>8

\* The first unit of an update says how many rectangles follow.
LEMMA BeginStep ==
  ASSUME WebTypes, Lockstep, open, NEW d \in 0..Len(sent), Parsed(d), BeginUpdate
  PROVE  Moved
<1>1. /\ Pass /\ vnc_state = "NORMAL" /\ offset = 0 /\ First = "update"
      /\ offset' = 1 /\ rects_parsed' = 0 /\ input_buf' = input_buf /\ vnc_state' = vnc_state
      /\ parsing' = parsing /\ audio_dev' = audio_dev /\ replies' = replies /\ handled' = handled
  BY DEF BeginUpdate
<1>2. /\ d < Len(sent) /\ sent[d + 1] \in Messages /\ First = Kind(sent[d + 1])
      /\ Placed(d) /\ parsing /\ Len(input_buf) \in Nat \ {0}
      /\ UNCHANGED <<open, connects, serverVars, arrived>> /\ sent' = sent /\ arrived' = arrived
  BY <1>1, PassFacts
<1>3. PICK rects \in RectLists : sent[d + 1] = Update(rects)
  BY <1>1, <1>2, MessageFacts
<1>4. JoinedTo(rects, 0) = <<>> /\ Len(rects) \in Nat
  <2>1. Len(rects) \in 1..MaxRectsOf
    BY ListFacts
  <2>2. JoinedTo(rects, 0) = <<>>
    BY UpdateFacts
  <2>3. QED
    BY <2>1, <2>2
<1>5. replies = Said(d) \o Extra(sent[d + 1], 0)
  <2>1. Extra(sent[d + 1], 0) = <<>>
    <3>1. 0 # 1
      OBVIOUS
    <3>2. QED
      BY <3>1 DEF Extra
  <2>2. replies = Said(d)
    BY <1>1 DEF Parsed
  <2>3. replies \in Seq(Words)
    BY DEF WebTypes
  <2>4. QED
    BY <2>1, <2>2, <2>3, ConcatEmptySeq
<1>6. InUpdate(d)'
  <2>1. 1 = 1 + Len(<<>>) /\ 0 \in 0..Len(rects) /\ 1 <= Len(input_buf)
    BY <1>2, <1>4
  <2>2. /\ rects_parsed' \in 0..Len(rects) /\ offset' = 1 + Len(JoinedTo(rects, rects_parsed'))
        /\ offset' <= Len(input_buf')
    BY <1>1, <1>4, <2>1
  <2>3. Said(d)' = Said(d)
    BY <1>2 DEF Said
  <2>4. replies' = Said(d)' \o Extra(sent'[d + 1], rects_parsed')
    BY <1>1, <1>2, <1>5, <2>3
  <2>5. QED
    BY <1>1, <1>2, <1>3, <2>2, <2>4 DEF InUpdate
<1>7. Parsed(d)'
  <2>1. Placed(d)'
    BY <1>1, <1>2 DEF Placed
  <2>2. offset' # 0
    BY <1>1
  <2>3. parsing'
    BY <1>1, <1>2
  <2>4. QED
    BY <1>1, <1>2, <1>6, <2>1, <2>2, <2>3 DEF Parsed
<1>8. WebTypes' /\ Lockstep' /\ open'
  <2>1. <<>> \in Seq(Words) /\ <<>> \in Seq(SessionWords) /\ replies' = replies \o <<>>
    <3>1. replies \in Seq(Words)
      BY DEF WebTypes
    <3>2. replies \o <<>> = replies
      BY <3>1, ConcatEmptySeq
    <3>3. \A S : <<>> \in Seq(S)
      OBVIOUS
    <3>4. QED
      BY <1>1, <3>2, <3>3
  <2>2. parsing' \in BOOLEAN /\ audio_dev' \in BOOLEAN
    BY <1>1 DEF WebTypes
  <2>3. rects_parsed' \in 0..MaxRectsOf
    BY <1>1, WebViewerAssumption DEF WebViewerAssumption
  <2>4. QED
    BY <1>1, <1>2, <2>1, <2>2, <2>3, PassKeeps
<1>9. QED
  BY <1>2, <1>7, <1>8 DEF Moved

\* What is known in the middle of an update.
LEMMA RectFound ==
  ASSUME WebTypes, Lockstep, NEW d \in 0..Len(sent), Parsed(d), offset # 0, input_buf # <<>>
  PROVE  /\ d < Len(sent) /\ d + 1 \in 1..Len(sent) /\ vnc_state = "NORMAL" /\ parsing
         /\ Head(input_buf).kind = "update" /\ offset \in Nat \ {0}
         /\ input_buf \in Seq(Units) /\ Len(input_buf) \in Nat
         /\ replies = Said(d) \o Extra(sent[d + 1], rects_parsed)
         /\ \E rects \in RectLists :
              /\ sent[d + 1] = Update(rects) /\ rects_parsed \in 0..Len(rects)
              /\ Head(input_buf).n = Len(rects) /\ Len(rects) \in 1..MaxRectsOf
              /\ offset = 1 + Len(JoinedTo(rects, rects_parsed)) /\ offset <= Len(input_buf)
              /\ offset <= Len(sent[d + 1])
              /\ rects_parsed = Len(rects) => offset = Len(sent[d + 1])
              /\ rects_parsed < Len(rects) =>
                   /\ rects[rects_parsed + 1] \in Rects
                   /\ offset + 1 <= Len(input_buf) =>
                        input_buf[offset + 1] = rects[rects_parsed + 1][1]
                   /\ 1 + Len(JoinedTo(rects, rects_parsed + 1)) = offset + Len(rects[rects_parsed + 1])
                   /\ offset + Len(rects[rects_parsed + 1]) <= Len(sent[d + 1])
<1>1. /\ InUpdate(d) /\ Placed(d)
  BY DEF Parsed
<1>2. PICK rects \in RectLists :
        /\ sent[d + 1] = Update(rects)
        /\ rects_parsed \in 0..Len(rects)
        /\ offset = 1 + Len(JoinedTo(rects, rects_parsed))
        /\ offset <= Len(input_buf)
  BY <1>1 DEF InUpdate
<1>3. d < Len(sent) /\ parsing /\ vnc_state = "NORMAL"
      /\ replies = Said(d) \o Extra(sent[d + 1], rects_parsed)
  BY <1>1 DEF InUpdate
<1>4. /\ input_buf \in Seq(Units) /\ Len(input_buf) \in Nat /\ d + 1 \in 1..Len(sent)
      /\ sent[d + 1] \in Messages /\ Head(input_buf) = sent[d + 1][1]
      /\ \A i \in 1..Len(sent[d + 1]) : i <= Len(input_buf) => input_buf[i] = sent[d + 1][i]
  BY <1>1, <1>3, PlaceFacts, Expected
<1> DEFINE m == sent[d + 1]
           N == Len(rects)
           j == rects_parsed
           p(i) == Len(JoinedTo(rects, i))
<1>5. /\ m[1] = [kind |-> "update", n |-> N] /\ Len(m) = 1 + p(N)
      /\ \A i \in 0..N : p(i) \in Nat /\ p(i) <= p(N)
      /\ \A i \in 0..N - 1 : p(i + 1) = p(i) + Len(rects[i + 1]) /\ m[p(i) + 2] = rects[i + 1][1]
  BY <1>2, UpdateFacts
<1>6. N \in 1..MaxRectsOf /\ N \in Nat /\ \A i \in 1..N : rects[i] \in Rects
  <2>1. rects \in Seq(Rects) /\ N \in 1..MaxRectsOf
    BY ListFacts
  <2>2. QED
    BY <2>1
<1>7. Head(input_buf).kind = "update" /\ Head(input_buf).n = N
  BY <1>4, <1>5
<1>8. j \in 0..N /\ offset = 1 + p(j) /\ offset <= Len(input_buf)
  BY <1>2
<1> HIDE DEF p, N, j, m
<1>9. offset \in Nat \ {0} /\ offset <= Len(m) /\ (j = N => offset = Len(m))
  BY <1>5, <1>6, <1>8
<1>10. ASSUME j < N
       PROVE  /\ rects[j + 1] \in Rects
              /\ offset + 1 <= Len(input_buf) => input_buf[offset + 1] = rects[j + 1][1]
              /\ 1 + p(j + 1) = offset + Len(rects[j + 1])
              /\ offset + Len(rects[j + 1]) <= Len(m)
  <2>1. j + 1 \in 1..N /\ j \in 0..N - 1 /\ j + 1 \in 0..N
    BY <1>6, <1>8, <1>10
  <2>2. rects[j + 1] \in Rects /\ Len(rects[j + 1]) \in Nat \ {0}
    BY <1>6, <2>1, RectFacts
  <2>3. p(j + 1) = p(j) + Len(rects[j + 1]) /\ m[p(j) + 2] = rects[j + 1][1]
        /\ p(j + 1) <= p(N) /\ p(j) \in Nat /\ p(N) \in Nat
    BY <1>5, <1>6, <1>8, <2>1
  <2>4. offset + 1 = p(j) + 2 /\ offset + 1 \in 1..Len(m)
        /\ 1 + p(j + 1) = offset + Len(rects[j + 1]) /\ offset + Len(rects[j + 1]) <= Len(m)
    <3> DEFINE l == Len(rects[j + 1])
               o == p(j)
               e == p(N)
               u == Len(m)
    <3>1. offset = 1 + o /\ u = 1 + e /\ p(j + 1) = o + l /\ o + l <= e /\ o \in Nat /\ e \in Nat
          /\ l \in Nat \ {0}
      BY <1>5, <1>8, <2>2, <2>3
    <3> HIDE DEF l, o, e, u
    <3>2. offset + 1 = o + 2 /\ offset + 1 \in 1..u /\ 1 + p(j + 1) = offset + l /\ offset + l <= u
      BY ONLY <3>1
    <3>3. QED
      BY <3>2 DEF l, o, u
  <2>5. offset + 1 <= Len(input_buf) => input_buf[offset + 1] = m[offset + 1]
    BY <1>4, <2>4 DEF m
  <2>6. QED
    BY <2>2, <2>3, <2>4, <2>5
<1>11. QED
  BY <1>3, <1>4, <1>6, <1>7, <1>8, <1>9, <1>10, <1>2 DEF p, N, j, m

\* A rectangle is handled where it begins and when it is whole.
LEMMA RectStep ==
  ASSUME WebTypes, Lockstep, open, NEW d \in 0..Len(sent), Parsed(d), Rect
  PROVE  Moved
<1>1. /\ Pass /\ offset > 0 /\ RectWhole
      /\ offset' = offset + input_buf[offset + 1].n
      /\ rects_parsed' = rects_parsed + 1
      /\ replies' = replies \o IF input_buf[offset + 1].kind = "ack" THEN OnAudioSupported ELSE <<>>
      /\ input_buf' = input_buf /\ vnc_state' = vnc_state /\ parsing' = parsing
      /\ audio_dev' = audio_dev /\ handled' = handled
  BY DEF Rect, Reply
<1>2. /\ d < Len(sent) /\ Placed(d) /\ parsing /\ input_buf # <<>>
      /\ UNCHANGED <<open, connects, serverVars, arrived>> /\ sent' = sent /\ arrived' = arrived
  BY <1>1, PassFacts DEF Pass
<1>a. offset # 0
  <2>1. offset > 0
    BY <1>1
  <2>2. QED
    BY <2>1
<1>3. /\ vnc_state = "NORMAL" /\ Len(input_buf) \in Nat /\ offset \in Nat \ {0}
      /\ replies = Said(d) \o Extra(sent[d + 1], rects_parsed)
  BY <1>2, <1>a, RectFound
<1>4. PICK rects \in RectLists :
        /\ sent[d + 1] = Update(rects) /\ rects_parsed \in 0..Len(rects)
        /\ Head(input_buf).n = Len(rects) /\ Len(rects) \in 1..MaxRectsOf
        /\ rects_parsed < Len(rects) =>
             /\ rects[rects_parsed + 1] \in Rects
             /\ offset + 1 <= Len(input_buf) =>
                  input_buf[offset + 1] = rects[rects_parsed + 1][1]
             /\ 1 + Len(JoinedTo(rects, rects_parsed + 1)) = offset + Len(rects[rects_parsed + 1])
  BY <1>2, <1>a, RectFound
<1> DEFINE j == rects_parsed
           r == rects[j + 1]
<1>5. j < Len(rects) /\ offset + 1 <= Len(input_buf)
      /\ offset + input_buf[offset + 1].n <= Len(input_buf)
  <2>1. rects_parsed < Head(input_buf).n /\ Len(input_buf) >= offset + 1
        /\ Len(input_buf) >= offset + input_buf[offset + 1].n
    BY <1>1 DEF RectWhole, Has
  <2>2. r \in Rects /\ input_buf[offset + 1] = r[1]
    BY <1>3, <1>4, <2>1
  <2>3. input_buf[offset + 1].n \in Nat
    BY <2>2, RectFacts
  <2>4. QED
    BY <1>3, <1>4, <2>1, <2>3
<1>6. /\ r \in Rects /\ input_buf[offset + 1] = r[1]
      /\ 1 + Len(JoinedTo(rects, j + 1)) = offset + Len(r)
  BY <1>4, <1>5
<1>7. input_buf[offset + 1].n = Len(r) /\ Len(r) \in Nat \ {0}
      /\ (input_buf[offset + 1].kind = "ack" <=> r = Ack)
  BY <1>6, RectFacts
<1> DEFINE ws == IF input_buf[offset + 1].kind = "ack" THEN OnAudioSupported ELSE <<>>
           m == sent[d + 1]
<1>8. ws \in Seq(SessionWords) /\ ws \in Seq(Words)
  <2>1. \A S : \A x, y \in S : <<x, y>> \in Seq(S) /\ <<>> \in Seq(S)
    OBVIOUS
  <2>2. /\ "set format" \in SessionWords /\ "enable" \in SessionWords
        /\ "set format" \in Words /\ "enable" \in Words
    BY DEF SessionWords, Words
  <2>3. /\ <<"set format", "enable">> \in Seq(SessionWords) /\ <<"set format", "enable">> \in Seq(Words)
        /\ <<>> \in Seq(SessionWords) /\ <<>> \in Seq(Words)
    BY <2>1, <2>2
  <2>4. QED
    BY <2>3 DEF OnAudioSupported
<1>9. Extra(m, j + 1) = ws /\ Extra(m, j) = <<>>
  <2>1. m = AudioAck <=> rects = <<Ack>>
    BY <1>4, UpdateAnswered
  <2>2. j \in Nat /\ Len(rects) \in Nat
    BY <1>4
  <2>3. CASE rects = <<Ack>>
    <3>1. Len(rects) = 1 /\ rects[1] = Ack
      BY <2>3, ListFacts
    <3>2. j = 0 /\ j + 1 = 1 /\ j # 1
      BY <1>5, <2>2, <3>1
    <3>3. r = Ack
      BY <3>1, <3>2
    <3>4. QED
      BY <1>7, <2>1, <2>3, <3>2, <3>3 DEF Extra
  <2>4. CASE rects # <<Ack>>
    <3>1. j + 1 \in 1..Len(rects)
      BY <1>5, <2>2
    <3>2. r # Ack
      BY <2>4, <3>1, ListFacts
    <3>3. QED
      BY <1>7, <2>1, <2>4, <3>2 DEF Extra
  <2>5. QED
    BY <2>3, <2>4
<1>10. replies' = Said(d) \o Extra(m, j + 1)
  <2>1. replies' = replies \o ws
    BY <1>1
  <2>2. Said(d) \in Seq(Words)
    BY SaidFacts DEF Said, WebTypes
  <2>3. replies = Said(d)
    BY <1>3, <1>9, <2>2, ConcatEmptySeq
  <2>4. QED
    BY <1>9, <2>1, <2>3
<1>11. InUpdate(d)'
  <2>1. /\ rects_parsed' \in 0..Len(rects)
        /\ offset' = 1 + Len(JoinedTo(rects, rects_parsed'))
        /\ offset' <= Len(input_buf')
    <3>1. rects_parsed' = j + 1 /\ j + 1 \in 0..Len(rects)
      BY <1>1, <1>4, <1>5, SMTT(60)
    <3>2. offset' = 1 + Len(JoinedTo(rects, j + 1))
      BY <1>1, <1>6, <1>7
    <3>3. offset' <= Len(input_buf')
      BY <1>1, <1>5
    <3>4. QED
      BY <3>1, <3>2, <3>3
  <2>2. Said(d)' = Said(d)
    BY <1>2 DEF Said
  <2>3. replies' = Said(d)' \o Extra(sent'[d + 1], rects_parsed')
    BY <1>1, <1>2, <1>10, <2>2
  <2>4. QED
    BY <1>1, <1>2, <1>3, <1>4, <2>1, <2>3 DEF InUpdate
<1>12. Parsed(d)'
  <2>1. Placed(d)'
    BY <1>1, <1>2 DEF Placed
  <2>2. offset' # 0
    BY <1>1, <1>3, <1>7
  <2>3. parsing'
    BY <1>1, <1>2
  <2>4. QED
    BY <1>1, <1>2, <1>11, <2>1, <2>2, <2>3 DEF Parsed
<1>13. WebTypes' /\ Lockstep' /\ open'
  <2>1. replies' = replies \o ws
    BY <1>1
  <2>2. parsing' \in BOOLEAN /\ audio_dev' \in BOOLEAN
    BY <1>1 DEF WebTypes
  <2>3. rects_parsed' \in 0..MaxRectsOf
    <3>1. rects_parsed' = j + 1
      BY <1>1
    <3>2. MaxRectsOf \in Nat
      BY WebViewerAssumption DEF WebViewerAssumption
    <3>3. QED
      BY <1>4, <1>5, <3>1, <3>2
  <2> HIDE DEF ws
  <2>4. QED
    BY <1>1, <1>2, <1>8, <2>1, <2>2, <2>3, PassKeeps
<1>14. QED
  BY <1>2, <1>12, <1>13 DEF Moved

\* An update whose rectangles are handled is consumed whole.
LEMMA EndStep ==
  ASSUME WebTypes, Lockstep, open, NEW d \in 0..Len(sent), Parsed(d), EndUpdate
  PROVE  Moved
<1>1. /\ Pass /\ offset > 0 /\ AllParsed /\ Consume(offset)
      /\ replies' = replies \o <<"request">> /\ offset' = 0
      /\ vnc_state' = vnc_state /\ parsing' = parsing /\ rects_parsed' = rects_parsed
      /\ audio_dev' = audio_dev
  BY DEF EndUpdate, Reply
<1>2. /\ d < Len(sent) /\ Placed(d) /\ parsing /\ input_buf # <<>> /\ sent[d + 1] \in Messages
      /\ UNCHANGED <<open, connects, serverVars, arrived>> /\ sent' = sent /\ arrived' = arrived
  BY <1>1, PassFacts DEF Pass
<1>3. offset # 0
  <2>1. offset > 0
    BY <1>1
  <2>2. QED
    BY <2>1
<1>4. /\ vnc_state = "NORMAL" /\ Len(input_buf) \in Nat /\ offset \in Nat \ {0}
      /\ replies = Said(d) \o Extra(sent[d + 1], rects_parsed)
  BY <1>2, <1>3, RectFound
<1>5. PICK rects \in RectLists :
        /\ sent[d + 1] = Update(rects) /\ Head(input_buf).n = Len(rects)
        /\ offset <= Len(input_buf)
        /\ rects_parsed = Len(rects) => offset = Len(sent[d + 1])
  BY <1>2, <1>3, RectFound
<1>6. rects_parsed = Len(rects) /\ offset = Len(sent[d + 1]) /\ Has(offset)
  BY <1>1, <1>4, <1>5 DEF AllParsed, Has
<1>7. d + 1 \in 0..Len(sent) /\ Placed(d + 1)'
  BY <1>1, <1>2, <1>6, Consumed
<1>8. Kind(sent[d + 1]) = "update" /\ sent[d + 1] # AudioBegin
  <2>1. Head(input_buf).kind = "update" /\ Head(input_buf) = sent[d + 1][1]
    BY <1>1, <1>2, <1>3, RectFound, PassFacts
  <2>2. Kind(sent[d + 1]) = "update"
    BY <1>2, <2>1, MessageFacts
  <2>3. "update" # "audio begin"
    OBVIOUS
  <2>4. QED
    BY <1>2, <2>2, <2>3, MessageFacts
<1>9. Kind(sent[d + 1]) # "refused" /\ StateAfter(Kind(sent[d + 1])) = "NORMAL"
  BY <1>8 DEF StateAfter
<1>10. replies' = Said(d) \o Answers(sent[d + 1])
  <2> DEFINE x == Extra(sent[d + 1], rects_parsed)
  <2>1. Answers(sent[d + 1]) = x \o <<"request">>
    BY <1>2, <1>5, <1>6, AnswerFacts
  <2>2. Said(d) \in Seq(Words)
    BY SaidFacts DEF Said, WebTypes
  <2>3. <<"request">> \in Seq(Words) /\ x \in Seq(Words)
    <3>1. \A S : \A a, b \in S : <<a, b>> \in Seq(S) /\ <<a>> \in Seq(S) /\ <<>> \in Seq(S)
      OBVIOUS
    <3>2. "set format" \in Words /\ "enable" \in Words /\ "request" \in Words
      BY DEF SessionWords, Words
    <3>3. /\ <<"set format", "enable">> \in Seq(Words) /\ <<"request">> \in Seq(Words)
          /\ <<>> \in Seq(Words)
      BY <3>1, <3>2
    <3>4. QED
      BY <3>3 DEF OnAudioSupported, Extra
  <2>4. replies' = (Said(d) \o x) \o <<"request">>
    BY <1>1, <1>4
  <2> HIDE DEF x
  <2>5. QED
    BY <2>1, <2>2, <2>3, <2>4, ConcatAssociative, SMTT(60)
<1>11. parsing' = TRUE
  <2>1. parsing \in BOOLEAN
    BY DEF WebTypes
  <2>2. QED
    BY <1>1, <1>2, <2>1
<1>12. Parsed(d + 1)' /\ d + 1 \in 0..Len(sent)'
  BY <1>1, <1>2, <1>4, <1>7, <1>8, <1>9, <1>10, <1>11, Advance
<1>13. WebTypes' /\ Lockstep' /\ open'
  <2>1. <<"request">> \in Seq(Words) /\ <<"request">> \in Seq(SessionWords)
    <3>1. \A S : \A a \in S : <<a>> \in Seq(S)
      OBVIOUS
    <3>2. "request" \in Words /\ "request" \in SessionWords
      BY DEF SessionWords, Words
    <3>3. QED
      BY <3>1, <3>2
  <2>2. parsing' \in BOOLEAN /\ audio_dev' \in BOOLEAN /\ rects_parsed' \in 0..MaxRectsOf
    BY <1>1 DEF WebTypes
  <2>3. QED
    BY <1>1, <1>2, <2>1, <2>2, PassKeeps
<1>14. QED
  BY <1>12, <1>13 DEF Moved

\* Another message is consumed when it is whole.
LEMMA MessageStep ==
  ASSUME WebTypes, Lockstep, open, NEW d \in 0..Len(sent), Parsed(d), Message
  PROVE  Moved
<1>1. /\ Pass /\ vnc_state = "NORMAL" /\ First # "update" /\ Has(MessageUnits)
      /\ Consume(MessageUnits)
      /\ audio_dev' = (audio_dev \/ First = "audio begin")
      /\ vnc_state' = vnc_state /\ parsing' = parsing /\ offset' = offset
      /\ rects_parsed' = rects_parsed /\ replies' = replies
  BY DEF Message
<1>2. /\ d < Len(sent) /\ sent[d + 1] \in Messages /\ First = Kind(sent[d + 1])
      /\ Head(input_buf) = sent[d + 1][1] /\ input_buf # <<>>
      /\ Placed(d) /\ parsing
      /\ UNCHANGED <<open, connects, serverVars, arrived>> /\ sent' = sent /\ arrived' = arrived
  BY <1>1, PassFacts DEF Pass
<1>3. offset = 0
  <2>1. ASSUME offset # 0 PROVE FALSE
    <3>1. Head(input_buf).kind = "update"
      BY <1>2, <2>1, RectFound
    <3>2. QED
      BY <1>1, <3>1 DEF First
  <2>2. QED
    BY <2>1
<1>4. MessageUnits = Len(sent[d + 1])
  BY <1>1, <1>2, MessageFacts DEF MessageUnits
<1>5. d + 1 \in 0..Len(sent) /\ Placed(d + 1)'
  BY <1>1, <1>2, <1>4, Consumed
<1>6. Kind(sent[d + 1]) \in {"cut text", "audio begin", "audio data"}
  <2>1. Kind(sent[d + 1]) \in SessionKinds
    BY <1>1, <1>2, Expected
  <2>2. QED
    BY <1>1, <1>2, <2>1 DEF SessionKinds
<1>7. Kind(sent[d + 1]) # "refused" /\ StateAfter(Kind(sent[d + 1])) = "NORMAL"
  <2>1. /\ Kind(sent[d + 1]) \in {"init"} \cup SessionKinds /\ Kind(sent[d + 1]) # "refused"
        /\ Kind(sent[d + 1]) \in HandshakeKinds \cup SessionKinds
    BY <1>6 DEF SessionKinds
  <2>2. QED
    BY <2>1, StatesFollow
<1>8. replies' = Said(d) \o Answers(sent[d + 1])
  <2>1. Answers(sent[d + 1]) = <<>>
    BY <1>2, <1>6, AnswerFacts
  <2>2. Said(d) \in Seq(Words)
    BY SaidFacts DEF Said, WebTypes
  <2>3. replies = Said(d)
    BY <1>3 DEF Parsed
  <2>4. QED
    BY <1>1, <2>1, <2>2, <2>3, ConcatEmptySeq
<1>9. audio_dev' <=> audio_dev \/ sent[d + 1] = AudioBegin
  BY <1>1, <1>2, MessageFacts
<1>10. parsing' = TRUE
  <2>1. parsing \in BOOLEAN
    BY DEF WebTypes
  <2>2. QED
    BY <1>1, <1>2, <2>1
<1>11. Parsed(d + 1)' /\ d + 1 \in 0..Len(sent)'
  BY <1>1, <1>2, <1>3, <1>5, <1>7, <1>8, <1>9, <1>10, Advance
<1>12. WebTypes' /\ Lockstep' /\ open'
  <2>1. <<>> \in Seq(Words) /\ <<>> \in Seq(SessionWords) /\ replies' = replies \o <<>>
    <3>1. replies \in Seq(Words)
      BY DEF WebTypes
    <3>2. replies \o <<>> = replies
      BY <3>1, ConcatEmptySeq
    <3>3. \A S : <<>> \in Seq(S)
      OBVIOUS
    <3>4. QED
      BY <1>1, <3>2, <3>3
  <2>2. parsing' \in BOOLEAN /\ audio_dev' \in BOOLEAN /\ rects_parsed' \in 0..MaxRectsOf
    <3>1. parsing \in BOOLEAN /\ audio_dev \in BOOLEAN /\ rects_parsed \in 0..MaxRectsOf
      BY DEF WebTypes
    <3>2. (audio_dev \/ First = "audio begin") \in BOOLEAN
      OBVIOUS
    <3>3. QED
      BY <1>1, <3>1, <3>2
  <2>3. QED
    BY <1>1, <1>2, <2>1, <2>2, PassKeeps
<1>13. QED
  BY <1>11, <1>12 DEF Moved

\* The call returns between two messages: no update is left half handled.
LEMMA ReturnStep ==
  ASSUME WebTypes, Lockstep, open, NEW d \in 0..Len(sent), Parsed(d), Returns
  PROVE  Moved
<1>1. /\ parsing /\ NothingWhole /\ parsing' = FALSE /\ offset' = 0 /\ rects_parsed' = 0
      /\ UNCHANGED <<open, connects, serverVars, arrived>>
      /\ input_buf' = input_buf /\ vnc_state' = vnc_state /\ audio_dev' = audio_dev
      /\ replies' = replies /\ handled' = handled /\ sent' = sent /\ arrived' = arrived
  BY DEF Returns, serverVars
<1>2. Placed(d)
  BY DEF Parsed
<1>3. replies = Said(d) /\ Stopped(d)
  <2>1. CASE input_buf = <<>>
    <3>1. offset = 0
      <4>1. ASSUME offset # 0 PROVE FALSE
        <5>1. InUpdate(d)
          BY <4>1 DEF Parsed
        <5>2. PICK rects \in RectLists :
                /\ rects_parsed \in 0..Len(rects)
                /\ offset = 1 + Len(JoinedTo(rects, rects_parsed))
                /\ offset <= Len(input_buf)
          BY <5>1 DEF InUpdate
        <5>3. Len(JoinedTo(rects, rects_parsed)) \in Nat
          BY <5>2, UpdateFacts
        <5>4. Len(input_buf) = 0
          BY <2>1
        <5>5. QED
          BY <5>2, <5>3, <5>4
      <4>2. QED
        BY <4>1
    <3>2. ASSUME d < Len(sent) PROVE Len(input_buf) < Len(sent[d + 1])
      <4>1. sent[d + 1] \in Messages
        BY <3>2, Expected
      <4>2. Len(sent[d + 1]) \in Nat \ {0}
        BY <4>1, MessageFacts
      <4>3. Len(input_buf) = 0
        BY <2>1
      <4>4. QED
        BY <4>2, <4>3
    <3>3. QED
      BY <3>1, <3>2 DEF Parsed, Stopped
  <2>2. CASE input_buf # <<>>
    <3>1. /\ d < Len(sent) /\ sent[d + 1] \in Messages /\ Head(input_buf) = sent[d + 1][1]
          /\ First = Kind(sent[d + 1]) /\ Len(input_buf) \in Nat
      BY <1>2, <2>2, PlaceFacts DEF First
    <3>2. Len(sent[d + 1]) \in Nat \ {0}
      BY <3>1, MessageFacts
    <3>3. vnc_state # "NORMAL" => offset = 0
      BY DEF Parsed, InUpdate
    <3>4. CASE vnc_state \in {"WAIT_SECURITY", "WAIT_SERVER_INIT"}
      <4>1. ~Has(2)
        BY <1>1, <2>2, <3>4 DEF NothingWhole
      <4>2. Len(sent[d + 1]) = 2
        <5>1. Kind(sent[d + 1]) \in {"none", "vncauth", "init"}
          BY <3>1, <3>4, Expected
        <5>2. QED
          BY <3>1, <5>1, MessageFacts
      <4>3. Len(input_buf) < Len(sent[d + 1])
        BY <3>1, <4>1, <4>2 DEF Has
      <4>4. offset = 0
        BY <3>3, <3>4
      <4>5. QED
        BY <4>3, <4>4 DEF Parsed, Stopped
    <3>5. CASE vnc_state = "WAIT_AUTH_RESULT"
      <4>1. First = "refused"
        BY <1>1, <2>2, <3>5 DEF NothingWhole
      <4>2. offset = 0
        BY <3>3, <3>5
      <4>3. QED
        BY <3>1, <4>1, <4>2 DEF Parsed, Stopped
    <3>6. CASE vnc_state = "NORMAL" /\ offset = 0
      <4>1. Kind(sent[d + 1]) # "update" /\ ~Has(MessageUnits)
        <5>1. ~(offset > 0)
          BY <3>6
        <5>2. First # "update" /\ ~Has(MessageUnits)
          BY <1>1, <2>2, <3>6, <5>1 DEF NothingWhole
        <5>3. QED
          BY <3>1, <5>2
      <4>2. MessageUnits = Len(sent[d + 1])
        BY <3>1, <4>1, MessageFacts DEF MessageUnits
      <4>3. Len(input_buf) < Len(sent[d + 1])
        BY <3>1, <3>2, <4>1, <4>2 DEF Has
      <4>4. QED
        BY <3>6, <4>3 DEF Parsed, Stopped
    <3>7. CASE vnc_state = "NORMAL" /\ offset # 0
      <4>1. /\ offset \in Nat \ {0} /\ Head(input_buf).kind = "update"
            /\ replies = Said(d) \o Extra(sent[d + 1], rects_parsed)
        BY <2>2, <3>7, RectFound
      <4>2. PICK rects \in RectLists :
              /\ sent[d + 1] = Update(rects) /\ rects_parsed \in 0..Len(rects)
              /\ Head(input_buf).n = Len(rects) /\ Len(rects) \in 1..MaxRectsOf
              /\ rects_parsed < Len(rects) =>
                   /\ rects[rects_parsed + 1] \in Rects
                   /\ offset + 1 <= Len(input_buf) =>
                        input_buf[offset + 1] = rects[rects_parsed + 1][1]
                   /\ offset + Len(rects[rects_parsed + 1]) <= Len(sent[d + 1])
        BY <2>2, <3>7, RectFound
      <4>3. ~RectWhole /\ ~AllParsed
        <5>1. offset > 0 /\ First = "update"
          BY <4>1 DEF First
        <5>2. QED
          BY <1>1, <2>2, <3>7, <5>1 DEF NothingWhole
      <4>4. rects_parsed < Len(rects)
        BY <4>2, <4>3 DEF AllParsed
      <4> DEFINE r == rects[rects_parsed + 1]
      <4>5. r \in Rects /\ r[1].n = Len(r) /\ Len(r) \in Nat \ {0}
        BY <4>2, <4>4, RectFacts
      <4>6. Len(input_buf) < Len(sent[d + 1])
        <5>1. offset + Len(r) <= Len(sent[d + 1])
          BY <4>2, <4>4
        <5>2. CASE ~(offset + 1 <= Len(input_buf))
          BY <3>1, <3>2, <4>1, <4>5, <5>1, <5>2
        <5>3. CASE offset + 1 <= Len(input_buf)
          <6>1. input_buf[offset + 1].n = Len(r)
            BY <4>2, <4>4, <4>5, <5>3
          <6>2. Has(offset + 1)
            BY <3>1, <4>1, <5>3 DEF Has
          <6>3. ~Has(offset + Len(r))
            BY <4>2, <4>3, <4>4, <6>1, <6>2 DEF RectWhole
          <6>4. QED
            BY <3>1, <3>2, <4>1, <4>5, <5>1, <6>3 DEF Has
        <5>4. QED
          BY <5>2, <5>3
      <4>7. Extra(sent[d + 1], rects_parsed) = <<>>
        <5>1. ASSUME sent[d + 1] = AudioAck, rects_parsed = 1 PROVE FALSE
          <6>1. rects = <<Ack>>
            BY <4>2, <5>1, UpdateAnswered
          <6>2. Len(rects) = 1
            BY <6>1, ListFacts
          <6>3. QED
            BY <4>4, <5>1, <6>2
        <5>2. QED
          BY <5>1 DEF Extra
      <4>8. Said(d) \in Seq(Words)
        BY SaidFacts DEF Said, WebTypes
      <4>9. replies = Said(d)
        BY <4>1, <4>7, <4>8, ConcatEmptySeq
      <4>10. QED
        BY <4>6, <4>9 DEF Stopped
    <3>8. vnc_state \in {"WAIT_VERSION", "WAIT_SECURITY", "WAIT_AUTH_CHALLENGE",
                         "WAIT_AUTH_RESULT", "WAIT_SERVER_INIT", "NORMAL"}
      BY DEF WebTypes
    <3>9. vnc_state \notin {"WAIT_VERSION", "WAIT_AUTH_CHALLENGE"}
      BY <1>1, <2>2 DEF NothingWhole
    <3>10. QED
      BY <3>4, <3>5, <3>6, <3>7, <3>8, <3>9
  <2>3. QED
    BY <2>1, <2>2
<1>4. Parsed(d)'
  <2>1. Placed(d)' /\ Said(d)' = Said(d) /\ Stopped(d)'
    BY <1>1, <1>2, <1>3 DEF Placed, Said, Stopped
  <2>2. QED
    BY <1>1, <1>3, <2>1 DEF Parsed
<1>5. WebTypes' /\ Lockstep' /\ open'
  <2>1. <<>> \in Seq(Words) /\ <<>> \in Seq(SessionWords) /\ replies' = replies \o <<>>
    <3>1. replies \in Seq(Words)
      BY DEF WebTypes
    <3>2. replies \o <<>> = replies
      BY <3>1, ConcatEmptySeq
    <3>3. \A S : <<>> \in Seq(S)
      OBVIOUS
    <3>4. QED
      BY <1>1, <3>2, <3>3
  <2>2. parsing' \in BOOLEAN /\ audio_dev' \in BOOLEAN
    BY <1>1 DEF WebTypes
  <2>3. rects_parsed' \in 0..MaxRectsOf
    BY <1>1, WebViewerAssumption DEF WebViewerAssumption
  <2>4. QED
    BY <1>1, <2>1, <2>2, <2>3, PassKeeps
<1>6. QED
  BY <1>1, <1>4, <1>5 DEF Moved

-----------------------------------------------------------------------------
(* The server and the browser. *)

\* The messages of the handshake, and a refusal.
LEMMA SmallMessages ==
  /\ \A k \in {"none", "vncauth", "init"} : Part(k, 2) \in Messages /\ Kind(Part(k, 2)) = k
  /\ \A k \in {"version", "challenge", "ok", "refused"} :
       Part(k, 1) \in Messages /\ Kind(Part(k, 1)) = k
<1>1. {"none", "vncauth", "init", "version", "challenge", "ok", "refused"} \subseteq UnitKinds
  BY DEF UnitKinds
<1>2. 1 \in Nat \ {0} /\ 2 \in Nat \ {0}
  OBVIOUS
<1>3. \A k \in UnitKinds : Kind(Part(k, 1)) = k /\ Kind(Part(k, 2)) = k
  BY <1>2, PartFacts
<1>4. /\ \A k \in {"none", "vncauth", "init"} : Part(k, 2) \in Messages
      /\ \A k \in {"version", "challenge", "ok", "refused"} : Part(k, 1) \in Messages
  BY DEF Messages, HandshakeMessages
<1>5. QED
  BY <1>1, <1>3, <1>4

\* The messages after ServerInit.
LEMMA SessionMessages ==
  ASSUME NEW m \in Drawings \cup Notices
  PROVE  m \in Messages /\ Kind(m) \in SessionKinds
<1>1. m \in Messages
  BY DEF Messages
<1>2. CASE m \in Drawings \cup {NewSize, AudioAck}
  <2>1. PICK rects \in RectLists : m = Update(rects)
    BY <1>2 DEF Drawings, NewSize, AudioAck, RectLists
  <2>2. m[1] = [kind |-> "update", n |-> Len(rects)]
    BY <2>1, UpdateFacts
  <2>3. m[1].kind = "update"
    BY <2>2
  <2>4. "update" \in SessionKinds
    BY DEF SessionKinds
  <2>5. QED
    BY <1>1, <2>3, <2>4, MessageFacts
<1>3. CASE m \in {CutText, AudioBegin, AudioData}
  <2>1. {"cut text", "audio begin", "audio data"} \subseteq UnitKinds
    BY DEF UnitKinds
  <2>2. 1 \in Nat \ {0} /\ 2 \in Nat \ {0}
    OBVIOUS
  <2>3. \A k \in UnitKinds : Kind(Part(k, 1)) = k /\ Kind(Part(k, 2)) = k
    BY <2>2, PartFacts
  <2>4. Kind(m) \in {"cut text", "audio begin", "audio data"}
    BY <1>3, <2>1, <2>3 DEF CutText, AudioBegin, AudioData
  <2>5. QED
    BY <1>1, <2>4 DEF SessionKinds
<1>4. QED
  BY <1>2, <1>3 DEF Notices

\* A message more keeps the order in which the two ends take turns.
LEMMA LockstepGrows ==
  ASSUME WebTypes, Lockstep, NEW m \in Messages, sent' = Append(sent, m),
         Kind(m) \in Follow(Kind(sent[Len(sent)])),
         \/ /\ Shaking /\ answered' = Len(sent) /\ Kind(m) \in HandshakeKinds \cup {"refused"}
            /\ Kind(m) = "init" => vnc_state' = "WAIT_SERVER_INIT" /\ Len(replies') = answered'
         \/ /\ ~Shaking /\ answered' = answered /\ replies' = replies /\ vnc_state' = vnc_state
            /\ Kind(m) \in SessionKinds
  PROVE  Lockstep'
<1> DEFINE N == Len(sent)
<1>1. /\ sent \in Seq(Messages) /\ N \in Nat /\ sent # <<>> /\ Len(sent') = N + 1
      /\ sent' # <<>> /\ sent'[N + 1] = m /\ \A i \in 1..N : sent'[i] = sent[i]
  <2>1. sent \in Seq(Messages) /\ sent # <<>> /\ sent' = Append(sent, m)
    BY DEF WebTypes, Lockstep
  <2>2. QED
    BY <2>1
<1>2. N >= 1 /\ N \in 1..N /\ 1 \in 1..N /\ N + 1 \in 1..N + 1
      /\ (\A i \in 1..N + 1 : i \in 1..N \/ i = N + 1)
      /\ (\A i \in 1..N : (i \in 1..N - 1 /\ i + 1 \in 1..N) \/ i = N)
      /\ (\A i \in 1..N : i \in 1..N + 1)
  <2>1. N # 0
    BY <1>1
  <2> HIDE DEF N
  <2>2. QED
    BY <1>1, <2>1
<1>a. /\ Kind(sent[1]) = "version"
      /\ \A i \in 1..N - 1 : Kind(sent[i + 1]) \in Follow(Kind(sent[i]))
      /\ Shaking => \A i \in 1..N : Kind(sent[i]) \in HandshakeKinds \cup {"refused"}
      /\ ~Shaking => vnc_state \in {"WAIT_SERVER_INIT", "NORMAL"}
      /\ ~Shaking => \A i \in answered + 1..Len(replies) : replies[i] \in SessionWords
      /\ Shaking <=> \A i \in 1..N : Kind(sent[i]) # "init"
  BY DEF Lockstep, Shaking
<1>b. Kind(m) \in Follow(Kind(sent[N]))
  OBVIOUS
<1> HIDE DEF N
<1>3. Kind(sent'[1]) = "version"
  BY <1>1, <1>2, <1>a
<1>4. \A i \in 1..Len(sent') - 1 : Kind(sent'[i + 1]) \in Follow(Kind(sent'[i]))
  <2>1. Len(sent') - 1 = N
    BY <1>1
  <2>2. ASSUME NEW i \in 1..N PROVE Kind(sent'[i + 1]) \in Follow(Kind(sent'[i]))
    <3>1. CASE i \in 1..N - 1 /\ i + 1 \in 1..N
      BY <1>1, <1>a, <3>1
    <3>2. CASE i = N
      BY <1>1, <1>2, <1>b, <3>2
    <3>3. QED
      BY <1>2, <3>1, <3>2
  <2>3. QED
    BY <2>1, <2>2
<1>5. Shaking' <=> Shaking /\ Kind(m) # "init"
  <2>1. Shaking' <=> \A i \in 1..N + 1 : Kind(sent'[i]) # "init"
    BY <1>1 DEF Shaking
  <2>2. QED
    BY <1>1, <1>2, <1>a, <2>1
<1>6. ASSUME Shaking'
      PROVE  /\ answered' = Len(sent') - 1
             /\ \A i \in 1..Len(sent') : Kind(sent'[i]) \in HandshakeKinds \cup {"refused"}
  <2>1. Shaking /\ answered' = N /\ Kind(m) \in HandshakeKinds \cup {"refused"}
    BY <1>5, <1>6 DEF N
  <2>2. answered' = Len(sent') - 1
    BY <1>1, <2>1
  <2>3. QED
    BY <1>1, <1>2, <1>a, <2>1, <2>2
<1>7. ASSUME ~Shaking'
      PROVE  /\ Kind(sent'[Len(sent')]) \in {"init"} \cup SessionKinds
             /\ vnc_state' \in {"WAIT_SERVER_INIT", "NORMAL"}
             /\ \A i \in answered' + 1..Len(replies') : replies'[i] \in SessionWords
  <2>1. CASE Shaking
    <3>1. Kind(m) = "init" /\ vnc_state' = "WAIT_SERVER_INIT" /\ Len(replies') = answered'
      BY <1>5, <1>7, <2>1
    <3>2. answered' \in Int
      BY <1>1, <2>1 DEF N
    <3>3. ASSUME NEW i \in answered' + 1..answered' PROVE FALSE
      <4> DEFINE a == answered'
      <4>1. a \in Int /\ i \in a + 1..a
        BY <3>2
      <4> HIDE DEF a
      <4>2. QED
        BY <4>1
    <3>4. \A i \in answered' + 1..Len(replies') : FALSE
      BY <3>1, <3>3
    <3>5. Kind(sent'[Len(sent')]) = "init"
      BY <1>1, <3>1
    <3>6. QED
      BY <3>1, <3>4, <3>5
  <2>2. CASE ~Shaking
    BY <1>1, <1>a, <2>2
  <2>3. QED
    BY <2>1, <2>2
<1>8. QED
  BY <1>1, <1>3, <1>4, <1>6, <1>7 DEF Lockstep

\* Until ServerInit, a word that is served answers the last message.
LEMMA ServesStep ==
  ASSUME WebTypes, Lockstep, open, NEW d \in 0..Len(sent), Parsed(d), Serves
  PROVE  Moved
<1> DEFINE reply == replies[answered + 1]
           N == Len(sent)
<1>1. /\ open' = open /\ connects' = connects /\ answered' = answered + 1
      /\ update_requested' = (update_requested \/ reply = "request")
      /\ UNCHANGED <<arrived, input_buf, vnc_state, parsing, offset, rects_parsed,
                     audio_dev, replies, handled>>
      /\ answered < Len(replies)
      /\ \/ reply = "version" /\ \E sec \in {"none", "vncauth"} : Sends(Part(sec, 2))
         \/ reply = "vncauth" /\ Sends(Part("challenge", 1))
         \/ reply = "none" /\ Sends(Part("ok", 1))
         \/ reply = "response" /\ \E r \in {"ok", "refused"} : Sends(Part(r, 1))
         \/ reply = "shared" /\ Sends(Part("init", 2))
         \/ reply \in {"encodings", "set format", "enable", "request"} /\ sent' = sent
  BY DEF Serves, ServerStep
<1>2. /\ sent \in Seq(Messages) /\ N \in Nat /\ replies \in Seq(Words) /\ answered \in Nat
      /\ Len(replies) \in Nat /\ answered' \in 0..Len(replies')
      /\ answered + 1 \in 1..Len(replies)
  <2>1. sent \in Seq(Messages) /\ replies \in Seq(Words) /\ answered \in 0..Len(replies)
    BY DEF WebTypes
  <2>2. N \in Nat /\ Len(replies) \in Nat
    BY <2>1
  <2>3. answered + 1 \in 1..Len(replies)
    <3>1. answered < Len(replies)
      BY DEF Serves
    <3> DEFINE L == Len(replies)
    <3>2. answered \in 0..L /\ answered < L /\ L \in Nat
      BY <2>1, <2>2, <3>1
    <3> HIDE DEF L
    <3>3. answered + 1 \in 1..L
      BY <3>2
    <3>4. QED
      BY <3>3 DEF L
  <2>4. answered' = answered + 1 /\ Len(replies') = Len(replies)
    BY <1>1
  <2> HIDE DEF N
  <2>5. QED
    BY <2>1, <2>2, <2>3, <2>4
<1>3. update_requested' \in BOOLEAN
  BY <1>1
<1>4. CASE Shaking
  <2>1. /\ answered = N - 1 /\ sent # <<>>
        /\ \A i \in 1..N : Kind(sent[i]) \in HandshakeKinds \cup {"refused"} /\ Kind(sent[i]) # "init"
    BY <1>4 DEF Lockstep, Shaking
  <2>2. offset = 0
    <3>1. ASSUME offset # 0 PROVE FALSE
      <4>1. InUpdate(d)
        BY <3>1 DEF Parsed
      <4>2. PICK rects \in RectLists : d < Len(sent) /\ sent[d + 1] = Update(rects)
        BY <4>1 DEF InUpdate
      <4>3. d + 1 \in 1..N /\ sent[d + 1] \in Messages
        BY <1>2, <4>2
      <4>4. Kind(sent[d + 1]) = "update"
        <5>1. sent[d + 1][1] = [kind |-> "update", n |-> Len(rects)]
          BY <4>2, UpdateFacts
        <5>2. sent[d + 1][1].kind = "update"
          BY <5>1
        <5>3. QED
          BY <4>3, <5>2, MessageFacts
      <4>5. "update" \notin HandshakeKinds \cup {"refused"}
        BY DEF HandshakeKinds
      <4>6. QED
        BY <2>1, <4>3, <4>4, <4>5
    <3>2. QED
      BY <3>1
  <2>3. \A i \in 1..d : i \in 1..N
    BY <1>2
  <2>4. \A i \in 1..d : Kind(sent[i]) \in HandshakeKinds \ {"init"}
    BY <2>1, <2>3 DEF Parsed
  <2>5. replies = Said(d) /\ Len(replies) = d /\ (d > 0 => replies[d] = Answers(sent[d])[1])
    BY <1>2, <2>2, <2>4, OneEach DEF Parsed, Said
  <2>6. d = N /\ d > 0 /\ d \in 1..N /\ d \in 1..d /\ answered + 1 = d
    <3>1. N # 0
      BY <1>2, <2>1
    <3>2. d \in 0..N /\ answered < d
      BY <1>1, <2>5
    <3> HIDE DEF N
    <3>3. QED
      BY <1>2, <2>1, <3>1, <3>2
  <2> DEFINE k == Kind(sent[d])
  <2>7. sent[d] \in Messages /\ k \in {"version", "none", "vncauth", "challenge", "ok"}
    BY <1>2, <2>4, <2>6 DEF HandshakeKinds
  <2>8. reply = Answers(sent[d])[1]
    BY <2>5, <2>6
  <2>9. /\ k = "version" => reply = "version"
        /\ k = "none" => reply = "none"
        /\ k = "vncauth" => reply = "vncauth"
        /\ k = "challenge" => reply = "response"
        /\ k = "ok" => reply = "shared"
    <3>1. \A x : <<x>>[1] = x
      OBVIOUS
    <3>2. QED
      BY <2>7, <2>8, <3>1, AnswerFacts
  <2>10. \E m \in Messages : /\ sent' = Append(sent, m) /\ Kind(m) \in Follow(k)
                             /\ Kind(m) \in HandshakeKinds \cup {"refused"}
                             /\ Kind(m) = "init" => k = "ok"
    <3> HIDE DEF k, reply
    <3>1. CASE k = "version"
      <4>1. \E sec \in {"none", "vncauth"} : sent' = Append(sent, Part(sec, 2))
        BY <1>1, <2>9, <3>1 DEF Sends
      <4>2. Follow("version") = {"none", "vncauth"} /\ {"none", "vncauth"} \subseteq HandshakeKinds
            /\ "init" \notin {"none", "vncauth"}
        BY DEF Follow, HandshakeKinds
      <4>3. QED
        BY <3>1, <4>1, <4>2, SmallMessages
    <3>2. CASE k = "none"
      <4>1. sent' = Append(sent, Part("ok", 1))
        BY <1>1, <2>9, <3>2 DEF Sends
      <4>2. Follow("none") = {"ok"} /\ "ok" \in HandshakeKinds /\ "ok" # "init"
        BY DEF Follow, HandshakeKinds
      <4>3. QED
        BY <3>2, <4>1, <4>2, SmallMessages
    <3>3. CASE k = "vncauth"
      <4>1. sent' = Append(sent, Part("challenge", 1))
        BY <1>1, <2>9, <3>3 DEF Sends
      <4>2. Follow("vncauth") = {"challenge"} /\ "challenge" \in HandshakeKinds /\ "challenge" # "init"
        BY DEF Follow, HandshakeKinds
      <4>3. QED
        BY <3>3, <4>1, <4>2, SmallMessages
    <3>4. CASE k = "challenge"
      <4>1. \E r \in {"ok", "refused"} : sent' = Append(sent, Part(r, 1))
        BY <1>1, <2>9, <3>4 DEF Sends
      <4>2. Follow("challenge") = {"ok", "refused"} /\ "ok" \in HandshakeKinds
            /\ "init" \notin {"ok", "refused"}
        BY DEF Follow, HandshakeKinds
      <4>3. QED
        BY <3>4, <4>1, <4>2, SmallMessages
    <3>5. CASE k = "ok"
      <4>1. sent' = Append(sent, Part("init", 2))
        BY <1>1, <2>9, <3>5 DEF Sends
      <4>2. Follow("ok") = {"init"} /\ "init" \in HandshakeKinds
        BY DEF Follow, HandshakeKinds
      <4>3. QED
        BY <3>5, <4>1, <4>2, SmallMessages
    <3>6. QED
      BY <2>7, <3>1, <3>2, <3>3, <3>4, <3>5 DEF k
  <2>11. PICK m \in Messages : /\ sent' = Append(sent, m) /\ Kind(m) \in Follow(k)
                               /\ Kind(m) \in HandshakeKinds \cup {"refused"}
                               /\ Kind(m) = "init" => k = "ok"
    BY <2>10
  <2>12. /\ Parsed(d)' /\ d \in 0..Len(sent)'
         /\ sent' \in Seq(Messages) /\ arrived' \in 0..Len(Stream(sent'))
    BY <1>1, <2>11, Extends
  <2>13. Lockstep'
    <3>1. answered' = Len(sent) /\ Len(replies') = answered'
      BY <1>1, <2>5, <2>6
    <3>2. Kind(m) = "init" => vnc_state' = "WAIT_SERVER_INIT"
      <4>1. StateAfter("ok") = "WAIT_SERVER_INIT"
        BY DEF StateAfter
      <4>2. d # 0 /\ vnc_state' = vnc_state
        <5>1. d > 0
          BY <2>6
        <5>2. d # 0
          BY <5>1
        <5>3. vnc_state' = vnc_state
          BY <1>1
        <5>4. QED
          BY <5>2, <5>3
      <4>3. vnc_state = StateAfter(k)
        BY <4>2 DEF Parsed
      <4>4. QED
        BY <2>11, <4>1, <4>2, <4>3
    <3>3. k = Kind(sent[Len(sent)])
      BY <2>6
    <3>4. QED
      BY <1>4, <2>11, <3>1, <3>2, <3>3, LockstepGrows
  <2>14. WebTypes'
    BY <1>1, <1>2, <1>3, <2>12 DEF WebTypes
  <2>15. QED
    BY <1>1, <2>12, <2>13, <2>14 DEF Moved
<1>5. CASE ~Shaking
  <2>1. \A i \in answered + 1..Len(replies) : replies[i] \in SessionWords
    BY <1>5 DEF Lockstep
  <2>2. answered + 1 \in answered + 1..Len(replies)
    BY <1>2
  <2>3. reply \in {"encodings", "request", "set format", "enable"}
    BY <2>1, <2>2 DEF SessionWords
  <2>4. sent' = sent
    <3> HIDE DEF reply
    <3>1. QED
      BY <1>1, <2>3
  <2>5. Parsed(d)'
    BY <1>1, <2>4 DEF Parsed, Placed, InUpdate, Stopped, Said
  <2>6. Lockstep'
    <3>1. Shaking' <=> Shaking
      BY <2>4 DEF Shaking
    <3>2. \A i \in answered' + 1..Len(replies') : replies'[i] \in SessionWords
      <4>1. answered' = answered + 1 /\ replies' = replies
        BY <1>1
      <4> DEFINE L == Len(replies)
      <4>2. L \in Nat /\ answered \in Nat
        BY <1>2
      <4> HIDE DEF L
      <4>3. \A i \in (answered + 1) + 1..L : i \in answered + 1..L
        BY <4>2
      <4>4. \A i \in answered' + 1..Len(replies') : i \in answered + 1..Len(replies)
        BY <4>1, <4>3 DEF L
      <4>5. QED
        BY <2>1, <4>1, <4>4
    <3>3. QED
      BY <1>1, <1>5, <2>4, <3>1, <3>2 DEF Lockstep
  <2>7. WebTypes'
    BY <1>1, <1>2, <1>3, <2>4 DEF WebTypes
  <2>8. QED
    BY <1>1, <2>4, <2>5, <2>6, <2>7 DEF Moved
<1>6. QED
  BY <1>4, <1>5

\* What is sent unasked comes after ServerInit.
LEMMA SendsStep ==
  ASSUME WebTypes, Lockstep, open, NEW d \in 0..Len(sent), Parsed(d), ServerSends
  PROVE  Moved
<1>1. /\ open' = open /\ connects' = connects /\ answered' = answered
      /\ UNCHANGED <<arrived, input_buf, vnc_state, parsing, offset, rects_parsed,
                     audio_dev, replies, handled>>
  BY DEF ServerSends, ServerStep
<1>2. ~Shaking
  <2> DEFINE I == {i \in 1..Len(sent) : Kind(sent[i]) = "init"}
  <2>1. ServerInitAt # 0
    <3>1. ServerInitAt > 0
      BY DEF ServerSends
    <3>2. QED
      BY <3>1
  <2>2. ServerInitAt = IF I # {} THEN Min(I) ELSE 0
    BY DEF ServerInitAt, SelectInSeq
  <2>3. I # {}
    BY <2>1, <2>2
  <2>4. QED
    BY <2>3 DEF Shaking
<1>3. \E m \in Drawings \cup Notices : sent' = Append(sent, m)
  <2>1. Allowed \subseteq Notices
    BY DEF Allowed, Notices
  <2>2. QED
    BY <2>1 DEF ServerSends, Sends
<1>4. update_requested' \in BOOLEAN
  BY DEF ServerSends, WebTypes
<1>5. PICK m \in Drawings \cup Notices : sent' = Append(sent, m)
  BY <1>3
<1>6. m \in Messages /\ Kind(m) \in SessionKinds
  BY SessionMessages
<1>7. /\ Parsed(d)' /\ d \in 0..Len(sent)'
      /\ sent' \in Seq(Messages) /\ arrived' \in 0..Len(Stream(sent'))
  BY <1>1, <1>5, <1>6, Extends
<1>8. Kind(m) \in Follow(Kind(sent[Len(sent)]))
  <2> DEFINE k == Kind(sent[Len(sent)])
  <2>1. k \in {"init"} \cup SessionKinds
    BY <1>2 DEF Lockstep
  <2> HIDE DEF k
  <2>2. k \in HandshakeKinds \cup SessionKinds
    BY <2>1 DEF HandshakeKinds
  <2>3. Follow(k) = SessionKinds
    BY <2>1, <2>2, StatesFollow
  <2>4. QED
    BY <1>6, <2>3 DEF k
<1>9. Lockstep'
  BY <1>1, <1>2, <1>5, <1>6, <1>8, LockstepGrows
<1>10. WebTypes'
  <2>1. answered' \in 0..Len(replies')
    BY <1>1 DEF WebTypes
  <2>2. QED
    BY <1>1, <1>4, <1>7, <2>1 DEF WebTypes
<1>11. QED
  BY <1>1, <1>7, <1>9, <1>10 DEF Moved

\* What has just arrived is put after what waits.
LEMMA ArrivesStep ==
  ASSUME WebTypes, Lockstep, open, NEW d \in 0..Len(sent), Parsed(d),
         NEW n \in 1..Len(Stream(sent)) - arrived, OnMessage(n)
  PROVE  Moved
<1>1. /\ open' = open /\ connects' = connects /\ answered' = answered /\ sent' = sent
      /\ update_requested' = update_requested /\ vnc_state' = vnc_state /\ offset' = offset
      /\ rects_parsed' = rects_parsed /\ audio_dev' = audio_dev /\ replies' = replies
      /\ handled' = handled /\ parsing' = TRUE /\ ~parsing
      /\ arrived' = arrived + n
      /\ input_buf' = input_buf \o SubSeq(Stream(sent), arrived + 1, arrived + n)
  BY DEF OnMessage, serverVars
<1>2. /\ sent \in Seq(Messages) /\ arrived \in 0..Len(Stream(sent)) /\ Placed(d)
      /\ handled = JoinedTo(sent, d) /\ Len(JoinedTo(sent, d)) <= arrived
      /\ input_buf = Waiting(sent, d, arrived)
  BY DEF WebTypes, Parsed, Placed
<1> DEFINE x == Stream(sent)
           L == Len(x)
           k == Len(JoinedTo(sent, d))
<1>3. x \in Seq(Units) /\ L \in Nat /\ k \in Nat /\ k <= arrived /\ arrived \in 0..L
  BY <1>2, WaitingFacts
<1>4. n \in 1..L - arrived
  OBVIOUS
<1>5. input_buf = SubSeq(x, k + 1, arrived)
  BY <1>2 DEF Waiting
<1>6. input_buf' = input_buf \o SubSeq(x, arrived + 1, arrived + n)
  BY <1>1
<1> HIDE DEF x, L, k
<1>7. arrived + n \in 0..L /\ k <= arrived + n /\ k + 1 \in 1..L + 1 /\ arrived \in k..L
      /\ arrived + n \in arrived..L /\ (k + 1) - 1 = k
  BY <1>3, <1>4
<1>8. SubSeq(x, k + 1, arrived) \o SubSeq(x, arrived + 1, arrived + n) = SubSeq(x, k + 1, arrived + n)
  <2>1. ASSUME NEW m \in 1..L + 1, m = k + 1
        PROVE  SubSeq(x, m, arrived) \o SubSeq(x, arrived + 1, arrived + n) = SubSeq(x, m, arrived + n)
    <3>1. arrived \in m - 1..Len(x) /\ arrived + n \in arrived..Len(x) /\ m \in 1..Len(x) + 1
      BY <1>7, <2>1 DEF L
    <3>2. QED
      BY <1>3, <3>1, ConcatAdjacentSubSeq
  <2>2. QED
    BY <1>7, <2>1
<1>9. Placed(d)'
  BY <1>1, <1>2, <1>5, <1>6, <1>7, <1>8 DEF Placed, Waiting, x, k
<1>10. Parsed(d)'
  <2>1. offset = 0 /\ offset' = 0
    BY <1>1 DEF Parsed
  <2>2. Said(d)' = Said(d)
    BY <1>1 DEF Said
  <2>3. QED
    BY <1>1, <1>9, <2>1, <2>2 DEF Parsed
<1>11. Lockstep'
  <2>1. Shaking' <=> Shaking
    BY <1>1 DEF Shaking
  <2>2. QED
    BY <1>1, <2>1 DEF Lockstep
<1>12. WebTypes'
  BY <1>1, <1>7 DEF WebTypes, x, L
<1>13. QED
  BY <1>1, <1>10, <1>11, <1>12 DEF Moved

\* A connection: the server begins, and nothing is left of the last one.
LEMMA ConnectStep ==
  ASSUME WebTypes, Closed, ConnectVnc
  PROVE  Moved
<1> DEFINE m == Part("version", 1)
           q == <<m>>
<1>1. /\ open' = TRUE /\ connects < MaxConnects /\ connects' = connects + 1
      /\ sent' = q /\ answered' = 0 /\ update_requested' = FALSE
      /\ vnc_state' = "WAIT_VERSION" /\ input_buf' = <<>>
      /\ arrived' = 0 /\ replies' = <<>> /\ handled' = <<>>
      /\ parsing' = parsing /\ offset' = offset /\ rects_parsed' = rects_parsed
      /\ audio_dev' = audio_dev
  BY DEF ConnectVnc
<1>2. m \in Messages /\ Kind(m) = "version"
  BY SmallMessages
<1>3. q \in Seq(Messages) /\ Len(q) = 1 /\ q[1] = m /\ q # <<>>
  <2>1. \A S : \A e \in S : <<e>> \in Seq(S) /\ Len(<<e>>) = 1 /\ <<e>>[1] = e /\ <<e>> # <<>>
    OBVIOUS
  <2> HIDE DEF m
  <2>2. QED
    BY <1>2, <2>1
<1> HIDE DEF q, m
<1>4. connects' \in 0..MaxConnects
  BY <1>1, WebViewerAssumption DEF WebViewerAssumption, WebTypes
<1>5. 0 \in 0..Len(q)
  BY <1>3
<1>6. JoinedTo(q, 0) = <<>> /\ JoinedTo(AnswersTo(q), 0) = <<>>
  <2>1. JoinedTo(q, 0) = <<>>
    BY <1>3, SentFacts, JoinedSteps
  <2>2. QED
    BY <1>3, <1>5, <2>1, SaidFacts
<1>7. Len(Stream(q)) \in Nat /\ Stream(q) \in Seq(Units)
  <2>1. q \in Seq(Seq(Units))
    BY <1>3, SentFacts
  <2>2. Stream(q) \in Seq(Units)
    BY <2>1, FlattenIn DEF Stream
  <2>3. QED
    BY <2>2
<1>8. Len(<<>>) = 0 /\ 0 + 1 = 1
  OBVIOUS
<1>9. Waiting(q, 0, 0) = <<>>
  BY <1>6, <1>8, SubSeqEmpty DEF Waiting
<1>10. Placed(0)'
  BY <1>1, <1>6, <1>8, <1>9 DEF Placed
<1>11. Stopped(0)'
  <2>1. Len(m) \in Nat \ {0}
    BY <1>2, MessageFacts
  <2>2. sent'[0 + 1] = m /\ Len(input_buf') = 0
    BY <1>1, <1>3, <1>8
  <2>3. Len(input_buf') < Len(sent'[0 + 1])
    BY <2>1, <2>2
  <2>4. QED
    BY <2>3 DEF Stopped
<1>12. Parsed(0)'
  <2>1. offset' = 0 /\ ~audio_dev' /\ ~parsing'
    BY <1>1 DEF Closed
  <2>2. Said(0)' = <<>>
    BY <1>1, <1>6 DEF Said
  <2>3. \A i \in 1..0 : FALSE
    OBVIOUS
  <2>4. QED
    BY <1>1, <1>10, <1>11, <2>1, <2>2, <2>3 DEF Parsed
<1>13. Lockstep'
  <2>1. \A i \in 1..Len(q) : i = 1
    BY <1>3
  <2>2. \A i \in 1..Len(q) - 1 : FALSE
    BY <1>3
  <2>3. "version" \in HandshakeKinds /\ "version" # "init"
    BY DEF HandshakeKinds
  <2>4. Shaking'
    BY <1>1, <1>2, <1>3, <2>1, <2>3 DEF Shaking
  <2>5. answered' = Len(sent') - 1
    BY <1>1, <1>3
  <2>6. QED
    BY <1>1, <1>2, <1>3, <2>1, <2>2, <2>3, <2>4, <2>5 DEF Lockstep
<1>14. WebTypes'
  <2>1. \A S : <<>> \in Seq(S)
    OBVIOUS
  <2>2. answered' \in 0..Len(replies') /\ arrived' \in 0..Len(Stream(sent'))
    BY <1>1, <1>7, <1>8
  <2>3. QED
    BY <1>1, <1>3, <1>4, <2>1, <2>2 DEF WebTypes
<1>15. 0 \in 0..Len(sent')
  BY <1>1, <1>5
<1>16. QED
  BY <1>1, <1>12, <1>13, <1>14, <1>15 DEF Moved

-----------------------------------------------------------------------------
(* The invariant. *)

\* Before the first connection nothing waits.
LEMMA WebStart == WebInit => WebInv
<1>1. ASSUME WebInit PROVE WebTypes /\ Closed /\ ~open
  <2>1. /\ open = FALSE /\ connects = 0 /\ sent = <<>> /\ answered = 0 /\ update_requested = FALSE
        /\ arrived = 0 /\ input_buf = <<>> /\ vnc_state = "WAIT_VERSION"
        /\ parsing = FALSE /\ offset = 0 /\ rects_parsed = 0 /\ audio_dev = FALSE /\ replies = <<>>
    BY <1>1 DEF WebInit
  <2>2. 0 \in 0..MaxConnects /\ 0 \in 0..MaxRectsOf
    BY WebViewerAssumption DEF WebViewerAssumption
  <2>3. \A S : <<>> \in Seq(S)
    OBVIOUS
  <2>4. Stream(sent) = <<>>
    BY <2>1, FlattenNone DEF Stream
  <2>5. Len(<<>>) = 0 /\ 0 \in 0..0
    OBVIOUS
  <2>6. answered \in 0..Len(replies) /\ arrived \in 0..Len(Stream(sent))
    BY <2>1, <2>4, <2>5
  <2>7. QED
    BY <2>1, <2>2, <2>3, <2>6 DEF WebTypes, Closed
<1>2. QED
  BY <1>1 DEF WebInv

\* A step of an open connection keeps the invariant.
LEMMA MovedKeeps == Moved => WebInv'
BY DEF Moved, WebInv

\* A connection is closed between two calls of the parser.
LEMMA CloseStep ==
  ASSUME WebTypes, Lockstep, open, NEW d \in 0..Len(sent), Parsed(d), OnClose
  PROVE  WebInv'
<1>1. /\ open' = FALSE /\ audio_dev' = FALSE /\ input_buf' = <<>> /\ ~parsing
      /\ connects' = connects /\ sent' = sent /\ answered' = answered
      /\ update_requested' = update_requested /\ arrived' = arrived /\ vnc_state' = vnc_state
      /\ parsing' = parsing /\ offset' = offset /\ rects_parsed' = rects_parsed
      /\ replies' = replies
  BY DEF OnClose, serverVars
<1>2. offset = 0
  BY <1>1 DEF Parsed
<1>3. WebTypes'
  BY <1>1 DEF WebTypes
<1>4. QED
  BY <1>1, <1>2, <1>3 DEF WebInv, Closed

\* Every step keeps the invariant.
LEMMA WebKeeps == WebInv /\ [WebNext]_webVars => WebInv'
<1> SUFFICES ASSUME WebInv, [WebNext]_webVars PROVE WebInv'
  OBVIOUS
<1>1. WebTypes /\ (~open => Closed)
  BY DEF WebInv
<1>2. CASE UNCHANGED webVars
  BY <1>2, ZenonT(60) DEF WebInv, WebTypes, Closed, Lockstep, Shaking, Parsed, Placed, InUpdate, Stopped, Said,
              webVars, serverVars
<1>3. CASE WebNext /\ ~open
  <2>1. ~parsing
    BY <1>1, <1>3 DEF Closed
  <2>2. ConnectVnc
    BY <1>3, <2>1 DEF WebNext, Serves, ServerSends, ServerStep, OnClose, OnMessage, WaitVersion,
                      WaitSecurity, WaitChallenge, WaitResult, WaitServerInit, Handshake,
                      BeginUpdate, Rect, EndUpdate, Message, Returns, Pass
  <2>3. QED
    BY <1>1, <1>3, <2>2, ConnectStep, MovedKeeps
<1>4. CASE WebNext /\ open
  <2>1. Lockstep /\ open
    BY <1>4 DEF WebInv
  <2>2. PICK d \in 0..Len(sent) : Parsed(d)
    BY <1>4 DEF WebInv
  <2>3. CASE Serves
    BY <1>1, <2>1, <2>2, <2>3, ServesStep, MovedKeeps
  <2>4. CASE ServerSends
    BY <1>1, <2>1, <2>2, <2>4, SendsStep, MovedKeeps
  <2>5. CASE ConnectVnc
    BY <2>1, <2>5 DEF ConnectVnc
  <2>6. CASE OnClose
    BY <1>1, <2>1, <2>2, <2>6, CloseStep
  <2>7. CASE \E n \in 1..Len(Stream(sent)) - arrived : OnMessage(n)
    BY <1>1, <2>1, <2>2, <2>7, ArrivesStep, MovedKeeps
  <2>8. CASE WaitVersion \/ WaitSecurity \/ WaitChallenge \/ WaitResult \/ WaitServerInit
    BY <1>1, <2>1, <2>2, <2>8, HandshakeStep, MovedKeeps
  <2>9. CASE BeginUpdate
    BY <1>1, <2>1, <2>2, <2>9, BeginStep, MovedKeeps
  <2>10. CASE Rect
    BY <1>1, <2>1, <2>2, <2>10, RectStep, MovedKeeps
  <2>11. CASE EndUpdate
    BY <1>1, <2>1, <2>2, <2>11, EndStep, MovedKeeps
  <2>12. CASE Message
    BY <1>1, <2>1, <2>2, <2>12, MessageStep, MovedKeeps
  <2>13. CASE Returns
    BY <1>1, <2>1, <2>2, <2>13, ReturnStep, MovedKeeps
  <2>14. QED
    BY <1>4, <2>3, <2>4, <2>5, <2>6, <2>7, <2>8, <2>9, <2>10, <2>11, <2>12, <2>13 DEF WebNext
<1>5. QED
  BY <1>2, <1>3, <1>4

\* Where the parser has stopped is where the messages that are whole end.
LEMMA WholeHere ==
  ASSUME WebTypes, NEW d \in 0..Len(sent), Parsed(d), ~parsing
  PROVE  ArrivedWhole = SubSeq(sent, 1, d)
<1> DEFINE N == Len(sent)
           Ends(k) == Whole(k) /\ (k = N \/ ~Whole(k + 1))
           L(k) == Len(JoinedTo(sent, k))
<1>1. /\ sent \in Seq(Messages) /\ N \in Nat /\ sent \in Seq(Seq(Units))
      /\ arrived \in 0..Len(Stream(sent)) /\ L(d) <= arrived
      /\ \A i \in 1..d : Kind(sent[i]) # "refused"
      /\ Stopped(d)
  <2>1. sent \in Seq(Messages) /\ arrived \in 0..Len(Stream(sent))
    BY DEF WebTypes
  <2>2. QED
    BY <2>1, SentFacts DEF Parsed, Placed
<1>2. arrived \in Nat
  <2>1. Stream(sent) \in Seq(Units)
    BY <1>1, FlattenIn DEF Stream
  <2>2. Len(Stream(sent)) \in Nat
    BY <2>1
  <2>3. QED
    BY <1>1, <2>2
<1>3. \A k \in 0..N : L(k) \in Nat
  <2>1. \A k \in 0..N : JoinedTo(sent, k) \in Seq(Units)
    BY <1>1, JoinedSteps
  <2>2. QED
    BY <2>1
<1>4. \A k \in 0..N : Whole(k) <=> L(k) <= arrived /\ \A i \in 1..k : Kind(sent[i]) # "refused"
  BY DEF Whole, JoinedTo, Stream
<1>5. Whole(d)
  BY <1>1, <1>4
<1>6. ASSUME NEW n \in 0..N, NEW k \in 0..n, Whole(n) PROVE Whole(k)
  <2>1. L(k) <= L(n)
    BY <1>1, JoinedWithin
  <2>2. k \in 0..N /\ \A i \in 1..k : i \in 1..n
    BY <1>1
  <2>3. L(k) \in Nat /\ L(n) \in Nat /\ L(n) <= arrived /\ \A i \in 1..n : Kind(sent[i]) # "refused"
    BY <1>3, <1>4, <1>6, <2>2
  <2> HIDE DEF L
  <2>4. L(k) <= arrived
    BY <1>2, <2>1, <2>3
  <2>5. QED
    BY <1>4, <2>2, <2>3, <2>4
<1>7. ASSUME d < N PROVE ~Whole(d + 1)
  <2>1. /\ Len(input_buf) \in Nat /\ Len(input_buf) = arrived - L(d)
        /\ L(d + 1) = L(d) + Len(sent[d + 1])
    BY <1>7, PlaceFacts DEF Parsed
  <2>2. d + 1 \in 0..N /\ d + 1 \in 1..d + 1 /\ d + 1 \in 1..N
    BY <1>1, <1>7
  <2>3. Len(input_buf) < Len(sent[d + 1]) \/ Kind(sent[d + 1]) = "refused"
    BY <1>1, <1>7 DEF Stopped
  <2>4. CASE Kind(sent[d + 1]) = "refused"
    BY <1>4, <2>2, <2>4
  <2>5. CASE Len(input_buf) < Len(sent[d + 1])
    <3>1. Len(sent[d + 1]) \in Nat
      <4>1. sent[d + 1] \in Messages
        BY <1>1, <2>2
      <4>2. QED
        BY <4>1, MessageFacts
    <3>2. L(d) \in Nat
      BY <1>3
    <3> DEFINE b == Len(input_buf)
               m == Len(sent[d + 1])
    <3>3. b \in Nat /\ m \in Nat /\ b < m /\ b = arrived - L(d) /\ L(d + 1) = L(d) + m
      BY <2>1, <2>5, <3>1
    <3> HIDE DEF b, m, L
    <3>4. ~(L(d + 1) <= arrived)
      BY <1>2, <3>2, <3>3
    <3>5. QED
      BY <1>4, <2>2, <3>4
  <2>6. QED
    BY <2>3, <2>4, <2>5
<1>8. Ends(d)
  <2>1. d = N \/ d < N
    BY <1>1
  <2>2. QED
    BY <1>5, <1>7, <2>1
<1>9. ASSUME NEW k \in 0..N, Ends(k) PROVE k = d
  <2>1. CASE k < d
    <3>1. k + 1 \in 0..d /\ k # N
      BY <1>1, <2>1
    <3>2. Whole(k + 1)
      BY <1>5, <1>6, <3>1
    <3>3. QED
      BY <1>9, <3>1, <3>2
  <2>2. CASE d < k
    <3>1. d + 1 \in 0..k /\ d < N
      BY <1>1, <2>2
    <3>2. Whole(d + 1)
      BY <1>6, <1>9, <3>1
    <3>3. QED
      BY <1>7, <3>1, <3>2
  <2>3. QED
    BY <1>1, <2>1, <2>2
<1> HIDE DEF Ends
<1>10. (CHOOSE k \in 0..N : Ends(k)) = d
  BY <1>8, <1>9
<1>11. QED
  BY <1>10 DEF ArrivedWhole, Ends, N

\* The invariant says what HandledExact does.
LEMMA WebExact == WebInv => HandledExact
<1> SUFFICES ASSUME WebInv, open, ~parsing
             PROVE  /\ handled = Stream(ArrivedWhole)
                    /\ replies = FlattenSeq([i \in DOMAIN ArrivedWhole |-> Answers(ArrivedWhole[i])])
                    /\ audio_dev <=> AudioBegin \in ToSet(ArrivedWhole)
  BY DEF HandledExact
<1>1. WebTypes /\ sent \in Seq(Messages)
  BY DEF WebInv, WebTypes
<1>2. PICK d \in 0..Len(sent) : Parsed(d)
  BY DEF WebInv
<1> DEFINE a == SubSeq(sent, 1, d)
<1>3. ArrivedWhole = a
  BY <1>1, <1>2, WholeHere
<1>4. Len(a) = d /\ DOMAIN a = 1..d /\ \A i \in 1..d : a[i] = sent[i]
  BY <1>1
<1> DEFINE b == AnswersTo(sent)
<1>5. b \in Seq(Seq(Words)) /\ Len(b) = Len(sent) /\ \A i \in 1..Len(sent) : b[i] = Answers(sent[i])
  BY <1>1, SentFacts
<1>6. handled = JoinedTo(sent, d) /\ replies = JoinedTo(b, d)
      /\ (audio_dev <=> \E i \in 1..d : sent[i] = AudioBegin)
  BY <1>2 DEF Parsed, Placed, Said
<1>7. handled = Stream(a)
  BY <1>6 DEF JoinedTo, Stream
<1> HIDE DEF a, b
<1>8. [i \in DOMAIN a |-> Answers(a[i])] = SubSeq(b, 1, d)
  <2>1. \A i \in 1..d : i \in 1..Len(sent)
    BY <1>1
  <2>2. SubSeq(b, 1, d) = [i \in 1..d |-> b[i]]
    BY <1>5, <2>1
  <2>3. \A i \in 1..d : Answers(a[i]) = b[i]
    BY <1>4, <1>5, <2>1
  <2>4. [i \in 1..d |-> Answers(a[i])] = [i \in 1..d |-> b[i]]
    BY <2>3
  <2>5. QED
    BY <1>4, <2>2, <2>4
<1>9. ToSet(a) = {a[i] : i \in 1..d}
  BY <1>4 DEF ToSet
<1>10. AudioBegin \in ToSet(a) <=> \E i \in 1..d : sent[i] = AudioBegin
  BY <1>4, <1>9
<1>11. replies = FlattenSeq(SubSeq(b, 1, d))
  BY <1>6 DEF JoinedTo
<1>12. QED
  BY <1>3, <1>6, <1>7, <1>8, <1>10, <1>11

\* The invariant says what the types are.
LEMMA WebTyped == WebInv => WebTypeOK
<1> SUFFICES ASSUME WebInv PROVE WebTypeOK
  OBVIOUS
<1>1. WebTypes
  BY DEF WebInv
<1>2. sent \in Seq(Messages) /\ arrived \in 0..Len(Stream(sent))
      /\ Stream(sent) \in Seq(Units) /\ Len(Stream(sent)) \in Nat
  <2>1. sent \in Seq(Messages) /\ arrived \in 0..Len(Stream(sent))
    BY <1>1 DEF WebTypes
  <2>2. Stream(sent) \in Seq(Units)
    BY <2>1, SentFacts, FlattenIn DEF Stream
  <2>3. QED
    BY <2>1, <2>2
<1>3. /\ \E i \in 0..arrived : input_buf = SubSeq(Stream(sent), i + 1, arrived)
      /\ offset \in 0..Len(input_buf)
  <2>1. CASE open
    <3>1. PICK d \in 0..Len(sent) : Parsed(d)
      BY <2>1 DEF WebInv
    <3> DEFINE k == Len(JoinedTo(sent, d))
    <3>2. k <= arrived /\ input_buf = SubSeq(Stream(sent), k + 1, arrived) /\ Len(input_buf) \in Nat
      BY <1>1, <3>1, PlaceFacts DEF Parsed, Placed, Waiting
    <3>3. k \in Nat
      BY <1>2, <3>2, WaitingFacts
    <3>4. k \in 0..arrived
      <4> HIDE DEF k
      <4>1. QED
        BY <1>2, <3>2, <3>3
    <3>5. offset \in 0..Len(input_buf)
      <4> DEFINE B == Len(input_buf)
      <4> SUFFICES offset \in 0..B
        OBVIOUS
      <4>a. B \in Nat
        BY <3>2
      <4>1. CASE offset = 0
        <5> HIDE DEF B, k
        <5>1. QED
          BY <4>a, <4>1
      <4>2. CASE offset # 0
        <5>1. InUpdate(d)
          BY <3>1, <4>2 DEF Parsed
        <5>2. PICK rects \in RectLists :
                /\ rects_parsed \in 0..Len(rects)
                /\ offset = 1 + Len(JoinedTo(rects, rects_parsed))
                /\ offset <= Len(input_buf)
          BY <5>1 DEF InUpdate
        <5>3. Len(JoinedTo(rects, rects_parsed)) \in Nat
          BY <5>2, ListFacts
        <5> DEFINE l == Len(JoinedTo(rects, rects_parsed))
        <5>4. l \in Nat /\ offset = 1 + l /\ offset <= B
          BY <5>2, <5>3
        <5> HIDE DEF l, B, k
        <5>5. QED
          BY <4>a, <5>4
      <4>3. QED
        BY <4>1, <4>2
    <3>6. QED
      BY <3>2, <3>4, <3>5
  <2>2. CASE ~open
    <3>1. input_buf = <<>> /\ offset = 0
      BY <2>2 DEF WebInv, Closed
    <3>2. arrived \in Nat /\ arrived \in 0..arrived
      BY <1>2
    <3>3. SubSeq(Stream(sent), arrived + 1, arrived) = <<>>
      BY <1>2, <3>2
    <3>4. Len(<<>>) = 0 /\ 0 \in 0..0
      OBVIOUS
    <3>5. QED
      BY <3>1, <3>2, <3>3, <3>4
  <2>3. QED
    BY <2>1, <2>2
<1>4. QED
  BY <1>1, <1>3 DEF WebTypes, WebTypeOK

(* However the browser's messages cut the stream, each call of            *)
(* vnc_core_process_data() leaves what was whole handled, exactly, in      *)
(* order and up to a refusal, each message answered once and as the        *)
(* desktop viewer answers it, and the sound on from BEGIN; for any number  *)
(* of rectangles, messages and connections, with sound wanted or not.      *)
THEOREM MessagesHandledExactly == WebSpec => [](WebTypeOK /\ HandledExact)
<1>1. WebInit => WebInv
  BY WebStart
<1>2. WebInv /\ [WebNext]_webVars => WebInv'
  BY WebKeeps
<1>3. WebInv => WebTypeOK /\ HandledExact
  BY WebTyped, WebExact
<1>4. QED
  BY <1>1, <1>2, <1>3, PTL DEF WebSpec
=============================================================================
