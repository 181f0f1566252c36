--------------------------- MODULE ViewerThreads ---------------------------
(***************************************************************************)
(* The life of the viewer's sessions (src/vncview/vncview.c): the GTK      *)
(* thread connects, shakes hands and opens a window; a detached network    *)
(* thread reads messages until the connection ends, closes the descriptor  *)
(* and queues the end of the window; on_viewer_destroy(), on the GTK       *)
(* thread, ends the session from the other side.  They share vnc_fd,       *)
(* client_running, the decoder and the audio stream, without a lock, and   *)
(* backbuffer_mutex, which a Raw rectangle holds while it waits for bytes. *)
(*                                                                         *)
(* Sessions are numbered as they are opened; thread s is the network       *)
(* thread that session s started.  Left out: the UDP socket and its keys   *)
(* (VideoUdp), the window's sizes (DesktopResize), input events, and the   *)
(* idle callbacks that the dialogs' own main loops would run.              *)
(***************************************************************************)
EXTENDS Integers, FiniteSets, Sequences

CONSTANTS
  MaxSessions,  \* bound: connections that the user makes
  MaxCloses     \* bound: windows that the user closes

ASSUME ThreadsAssumption == MaxSessions \in Nat \ {0} /\ MaxCloses \in Nat

Sessions == 1..MaxSessions
None == 0           \* -1 of a descriptor, NULL of a window, nobody's mutex
Fds == Sessions     \* as many descriptors as can be open at once

VARIABLES
  session,         \* how many so far
  gtk,             \* what the GTK thread is in
  main_window,     \* it is shown
  viewer_window,   \* the session whose window it is
  destroyed,       \* windows that are no more
  idles,           \* calls of destroy_widget_idle() queued, with their window
  vnc_fd, client_running,
  files,           \* kernel: the connection behind each descriptor
  ended,           \* connections that the server has ended
  pc,              \* what each network thread is in
  fd,              \* its descriptor
  reads,           \* the connection its recv() waits on
  backbuffer_mutex,  \* the thread that holds it while it reads
  decoder, audio_playback,  \* "none", "live", or "freed" and still pointed to
  closes,          \* windows closed by the user so far
  stale,           \* history: objects freed while used, or used after
  misclosed        \* history: threads that closed what was not theirs

windowVars == <<session, main_window, viewer_window, destroyed, closes>>
mediaVars == <<decoder, audio_playback, stale>>
fdVars == <<vnc_fd, client_running, files, misclosed>>
ioVars == <<fd, reads, backbuffer_mutex>>
threadVars == <<windowVars, gtk, mediaVars, fdVars, ioVars, idles, ended, pc>>

Pointer == {"none", "live", "freed"}

ThreadsTypeOK ==
  /\ session \in 0..MaxSessions /\ closes \in 0..MaxCloses
  /\ gtk \in {"loop", "handshake", "drawing", "destroy", "free", "free_audio"}
  /\ {main_window, client_running} \subseteq BOOLEAN
  /\ {vnc_fd, viewer_window, backbuffer_mutex} \subseteq Sessions \cup {None}
  /\ destroyed \subseteq Sessions /\ ended \subseteq Sessions
  /\ idles \in Seq(Sessions)
  /\ files \in [Fds -> Sessions \cup {None}]
  /\ pc \in [Sessions -> {"none", "start", "loop", "poll", "recv", "lock",
                          "rows", "reset", "decode", "play", "end", "exit",
                          "forget", "close", "queue", "done"}]
  /\ fd \in [Sessions -> Fds \cup {None}]
  /\ reads \in [Sessions -> Sessions \cup {None}]
  /\ {decoder, audio_playback} \subseteq Pointer
  /\ stale \subseteq {"decoder", "audio", "window"}
  /\ misclosed \in BOOLEAN

ThreadsInit ==
  /\ session = 0 /\ gtk = "loop" /\ main_window = TRUE
  /\ viewer_window = None /\ destroyed = {} /\ idles = <<>> /\ closes = 0
  /\ vnc_fd = None /\ client_running = FALSE
  /\ files = [f \in Fds |-> None] /\ ended = {} /\ misclosed = FALSE
  /\ pc = [s \in Sessions |-> "none"]
  /\ fd = [s \in Sessions |-> None] /\ reads = [s \in Sessions |-> None]
  /\ backbuffer_mutex = None
  /\ decoder = "none" /\ audio_playback = "none" /\ stale = {}

Behind(f) == IF f = None THEN None ELSE files[f]

UsesDecoder(s) == pc[s] \in {"reset", "decode"}
UsesAudio(s) == pc[s] \in {"play", "end"}

Stale(object, bad) == stale' = IF bad THEN stale \cup {object} ELSE stale

(* close(f) by one whose connection is c.                                  *)
Close(f, c) ==
  /\ files' = [g \in Fds |-> IF g = f THEN None ELSE files[g]]
  /\ misclosed' = (misclosed \/ (f # None /\ files[f] # c))

(* The server ends a connection, whatever it was sending.                  *)
ServerEnds(s) ==
  /\ s <= session /\ s \notin ended
  /\ ended' = ended \cup {s}
  /\ UNCHANGED <<windowVars, gtk, mediaVars, fdVars, ioVars, idles, pc>>

-----------------------------------------------------------------------------
(* The GTK thread. *)

GtkGoes(from, to) ==
  gtk = from /\ gtk' = to /\ UNCHANGED <<ioVars, ended>>

(* on_btn_connect_clicked() up to the handshake.  The kernel gives the     *)
(* lowest free descriptor.                                                 *)
Connect ==
  /\ GtkGoes("loop", "handshake")
  /\ main_window /\ session < MaxSessions
  /\ session' = session + 1
  /\ \E f \in Fds :
       /\ files[f] = None /\ \A g \in 1..f - 1 : files[g] # None
       /\ files' = [files EXCEPT ![f] = session + 1]
       /\ vnc_fd' = f
  /\ UNCHANGED <<main_window, viewer_window, destroyed, closes, mediaVars,
                 client_running, misclosed, idles, pc>>

HandshakeFails ==
  /\ GtkGoes("handshake", "loop")
  /\ Close(vnc_fd, session)
  /\ vnc_fd' = None
  /\ UNCHANGED <<windowVars, mediaVars, client_running, idles, pc>>

(* With the handshake's last messages the backbuffer is made anew, under   *)
(* its mutex.                                                              *)
HandshakeDone ==
  /\ GtkGoes("handshake", "loop")
  /\ session \notin ended /\ backbuffer_mutex = None
  /\ main_window' = FALSE
  /\ viewer_window' = session
  /\ client_running' = TRUE
  /\ pc' = [pc EXCEPT ![session] = "start"]
  /\ UNCHANGED <<session, destroyed, closes, mediaVars, vnc_fd, files,
                 misclosed, idles>>

OnDraw ==
  /\ \/ GtkGoes("loop", "drawing") /\ viewer_window # None
     \/ GtkGoes("drawing", "loop") /\ backbuffer_mutex = None
  /\ UNCHANGED <<windowVars, mediaVars, fdVars, idles, pc>>

(* gtk_widget_destroy() of a window calls on_viewer_destroy(), which first *)
(* tells the thread to stop.                                               *)
Destroy(w) ==
  /\ GtkGoes("loop", "destroy")
  /\ destroyed' = destroyed \cup {w}
  /\ client_running' = FALSE
  /\ UNCHANGED stale

UserCloses ==
  /\ viewer_window # None
  /\ closes < MaxCloses
  /\ closes' = closes + 1
  /\ Destroy(viewer_window)
  /\ UNCHANGED <<session, main_window, viewer_window, decoder, audio_playback,
                 vnc_fd, files, misclosed, idles, pc>>

DestroyWidgetIdle ==
  /\ idles # <<>>
  /\ idles' = Tail(idles)
  /\ IF Head(idles) \in destroyed
     THEN /\ GtkGoes("loop", "loop") /\ Stale("window", TRUE)
          /\ UNCHANGED <<destroyed, client_running>>
     ELSE Destroy(Head(idles))
  /\ UNCHANGED <<session, main_window, viewer_window, closes, decoder,
                 audio_playback, vnc_fd, files, misclosed, pc>>

DestroyClosesFd ==
  /\ GtkGoes("destroy", "free")
  /\ Close(vnc_fd, session)
  /\ vnc_fd' = None
  /\ UNCHANGED <<windowVars, mediaVars, client_running, idles, pc>>

DestroyFreesDecoder ==
  /\ GtkGoes("free", "free_audio")
  /\ decoder' = "none"
  /\ Stale("decoder", \E s \in Sessions : UsesDecoder(s))
  /\ UNCHANGED <<windowVars, audio_playback, fdVars, idles, pc>>

DestroyFreesAudio ==
  /\ GtkGoes("free_audio", "loop")
  /\ audio_playback' = "none"
  /\ Stale("audio", \/ audio_playback = "freed"
                    \/ audio_playback = "live" /\ \E s \in Sessions : UsesAudio(s))
  /\ viewer_window' = None
  /\ main_window' = TRUE
  /\ UNCHANGED <<session, destroyed, closes, decoder, fdVars, idles, pc>>

-----------------------------------------------------------------------------
(* The network threads: vnc_client_thread().  Step is a step of one that   *)
(* touches only what its action names; Media and Ends leave alone all but  *)
(* the decoder and the audio, and all but what the end of a thread sets.   *)

Thread(s, from, to) ==
  /\ pc[s] = from /\ pc' = [pc EXCEPT ![s] = to]
  /\ UNCHANGED <<windowVars, gtk, ended>>

Media(s, from, to) == Thread(s, from, to) /\ UNCHANGED <<fdVars, ioVars, idles>>
Reads(s, from, to) == Thread(s, from, to) /\ UNCHANGED <<mediaVars, fdVars, idles>>
Ends(s, from, to) == Thread(s, from, to) /\ UNCHANGED <<mediaVars, ioVars>>
Step(s, from, to) == Media(s, from, to) /\ UNCHANGED mediaVars

Starts(s) ==
  /\ Reads(s, "start", "loop")
  /\ fd' = [fd EXCEPT ![s] = vnc_fd]
  /\ UNCHANGED <<reads, backbuffer_mutex>>

Loops(s) == Step(s, "loop", IF client_running THEN "poll" ELSE "exit")

Ended(c) == c = None \/ c \in ended

(* A recv() waits on the connection behind the descriptor when it is       *)
(* called, and keeps waiting on it when the descriptor is closed.          *)
CallsRecv(s) == reads' = [reads EXCEPT ![s] = Behind(fd[s])]

(* poll() returns after 200 ms, or because there is something to read,     *)
(* which may be the end of the connection.                                 *)
Polls(s) ==
  \/ Behind(fd[s]) \notin ended /\ Step(s, "poll", "loop")
  \/ /\ Reads(s, "poll", "recv") /\ Behind(fd[s]) # None
     /\ CallsRecv(s)
     /\ UNCHANGED <<fd, backbuffer_mutex>>

RecvFails(s) == Ended(reads[s]) /\ Step(s, "recv", "exit")

Received(s) == ~Ended(reads[s])

(* A message that touches none of what is shared, or the beginning of a    *)
(* Raw rectangle.                                                          *)
OtherMessage(s) == Received(s) /\ Step(s, "recv", "loop")
RawRect(s) == Received(s) /\ Step(s, "recv", "lock")

(* vnc_core_process_message() reads the rows with the mutex held.          *)
LocksBackbuffer(s) ==
  /\ Reads(s, "lock", "rows") /\ backbuffer_mutex = None
  /\ backbuffer_mutex' = s
  /\ CallsRecv(s)
  /\ UNCHANGED fd

KeepsLock(s) == UNCHANGED backbuffer_mutex   \* mutant: on the error return

Unlocks(s) == backbuffer_mutex' = None

ReadsRows(s) ==
  /\ \/ Reads(s, "rows", "loop") /\ Received(s) /\ backbuffer_mutex' = None
     \/ Reads(s, "rows", "exit") /\ Ended(reads[s]) /\ Unlocks(s)
  /\ UNCHANGED <<fd, reads>>

(* A video frame: a keyframe first makes the decoder anew; without one     *)
(* there may be no decoder yet, and the frame is dropped.                  *)
Keyframe(s) ==
  /\ Received(s) /\ Media(s, "recv", "reset")
  /\ decoder' = "none"
  /\ Stale("decoder", \E t \in Sessions \ {s} : UsesDecoder(t))
  /\ UNCHANGED audio_playback

ResetDecoder(s) ==
  /\ Media(s, "reset", "decode")
  /\ decoder' = "live"
  /\ UNCHANGED <<audio_playback, stale>>

DeltaFrame(s) ==
  Received(s) /\ Step(s, "recv", IF decoder = "none" THEN "loop" ELSE "decode")

(* The decoded picture is scaled into the backbuffer under its mutex.      *)
DecodeVideo(s) == backbuffer_mutex = None /\ Step(s, "decode", "loop")

OnAudioBegin(s) ==
  /\ Received(s) /\ Media(s, "recv", "loop")
  /\ audio_playback' = IF audio_playback = "none" THEN "live" ELSE audio_playback
  /\ UNCHANGED <<decoder, stale>>

OnAudioData(s) ==
  /\ Received(s)
  /\ Media(s, "recv", IF audio_playback = "none" THEN "loop" ELSE "play")
  /\ Stale("audio", audio_playback = "freed")
  /\ UNCHANGED <<decoder, audio_playback>>

AudioWritten(s) == Step(s, "play", "loop")

(* on_audio_end() frees the stream and then forgets it.                    *)
OnAudioEnd(s) ==
  /\ Received(s)
  /\ \/ audio_playback = "none" /\ Step(s, "recv", "loop")
     \/ /\ audio_playback # "none" /\ Media(s, "recv", "end")
        /\ audio_playback' = "freed"
        /\ Stale("audio", \/ audio_playback = "freed"
                          \/ \E t \in Sessions \ {s} : UsesAudio(t))
        /\ UNCHANGED decoder

KeepsAudio(s) == Step(s, "end", "loop")   \* mutant: the pointer is not cleared

ForgetsAudio(s) ==
  /\ Media(s, "end", "loop")
  /\ audio_playback' = "none"
  /\ UNCHANGED <<decoder, stale>>

(* The end of a thread, in steps that the other threads see.               *)
StopsRunning(s) ==
  /\ Ends(s, "exit", "forget")
  /\ client_running' = FALSE
  /\ UNCHANGED <<vnc_fd, files, misclosed, idles>>

KeepsFd(s) == Step(s, "forget", "close")   \* mutant: vnc_fd stays as it is

ForgetsFd(s) ==
  /\ Ends(s, "forget", "close")
  /\ vnc_fd' = None
  /\ UNCHANGED <<client_running, files, misclosed, idles>>

ClosesFd(s) ==
  /\ Ends(s, "close", "queue")
  /\ Close(fd[s], s)
  /\ UNCHANGED <<vnc_fd, client_running, idles>>

QueuesDestroy(s) ==
  /\ Ends(s, "queue", "done")
  /\ idles' = IF viewer_window = None THEN idles ELSE Append(idles, viewer_window)
  /\ UNCHANGED fdVars

-----------------------------------------------------------------------------
Window == Connect \/ HandshakeFails \/ HandshakeDone \/ OnDraw \/ UserCloses

Shutdown ==
  DestroyWidgetIdle \/ DestroyClosesFd \/ DestroyFreesDecoder \/ DestroyFreesAudio

Message(s) ==
  \/ OtherMessage(s) \/ RawRect(s) \/ Keyframe(s) \/ DeltaFrame(s)
  \/ OnAudioBegin(s) \/ OnAudioData(s) \/ OnAudioEnd(s)

(* What a thread does by itself, once a message is there.                  *)
Proceeds(s) ==
  \/ Starts(s) \/ Loops(s) \/ Polls(s) \/ RecvFails(s)
  \/ LocksBackbuffer(s) \/ ResetDecoder(s) \/ DecodeVideo(s)
  \/ AudioWritten(s) \/ ForgetsAudio(s)
  \/ StopsRunning(s) \/ ForgetsFd(s) \/ ClosesFd(s) \/ QueuesDestroy(s)

ThreadsNext ==
  \/ Window \/ Shutdown
  \/ \E s \in Sessions : ServerEnds(s) \/ Message(s) \/ Proceeds(s) \/ ReadsRows(s)

(* The threads run, and get the mutex if it stays free; the rest of a Raw  *)
(* rectangle may never come, unless the connection ends.  GTK finishes     *)
(* what it has begun, and serves its idle callbacks also when the window   *)
(* is drawn again and again: redraws are queued as idle callbacks too.     *)
ThreadsFairness ==
  /\ WF_threadVars(gtk = "drawing" /\ OnDraw)
  /\ SF_threadVars(DestroyWidgetIdle)
  /\ WF_threadVars(Shutdown)
  /\ \A s \in Sessions :
       /\ WF_threadVars(Proceeds(s))
       /\ WF_threadVars(Ended(reads[s]) /\ ReadsRows(s))

ThreadsSpec == ThreadsInit /\ [][ThreadsNext]_threadVars /\ ThreadsFairness

-----------------------------------------------------------------------------
(* Properties. *)

(* As long as it is the server that ends the sessions, no thread uses a    *)
(* decoder, an audio stream or a window that was freed, and none is freed  *)
(* while a thread is in the middle of using it: the window, and with it    *)
(* the decoder and the stream, outlive the thread, though no lock says so. *)
NoUseAfterFree == closes = 0 => stale = {}

(* Then nobody closes a descriptor that is not his, which the kernel may   *)
(* have given to the next connection; and none stays open when all is over.*)
Down == gtk = "loop" /\ main_window /\ \A s \in Sessions : pc[s] \in {"none", "done"}
ClosedOnce ==
  closes = 0 => /\ ~misclosed
                /\ Down => \A f \in Fds : files[f] = None

(* When the server has ended a session, its window goes and the viewer is  *)
(* back in its main window, whichever thread was where, also in the middle *)
(* of a Raw rectangle with the GTK thread waiting for the mutex.  (After   *)
(* the user has closed a window, the thread it leaves behind can clear the *)
(* next session's vnc_fd before the next thread reads it, which then polls *)
(* no descriptor.)                                                         *)
BackToMain ==
  \A s \in Sessions :
    (closes = 0 /\ viewer_window = s /\ s \in ended)
      ~> (viewer_window = None /\ main_window)

(* "Only ever touched from vnc_client_thread"; the GTK thread "never       *)
(* touches audio_playback itself" (src/vncview/vncview.c:205, :208).       *)
AudioSafe == "audio" \notin stale
=============================================================================
