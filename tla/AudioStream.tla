---------------------------- MODULE AudioStream ----------------------------
(***************************************************************************)
(* One client's QEMU audio stream: the messages that switch it, the        *)
(* capture thread that fills a ring buffer, and vnc_send_audio_update()    *)
(* that empties it to the peer (src/src/leanrfb.c, leanrfb_audio.c).       *)
(*                                                                         *)
(* The poll loop and the capture thread run concurrently.  They share the  *)
(* ring, each under its mutex, so that one access is one step, and the     *)
(* flag stop.  Stopping a capture joins its thread: the poll loop does     *)
(* nothing else until the thread has ended.  The ring is counted in chunks *)
(* of VNC_AUDIO_CAPTURE_CHUNK bytes, of which it holds a whole number; a   *)
(* chunk is its format and its number in the order of capture.             *)
(***************************************************************************)
EXTENDS Integers, SequencesExt

CONSTANTS
  Formats,       \* what SET_FORMAT may ask for: format, channels and rate
  PaFormat,      \* the format PulseAudio records in when asked for each
  DefaultFormat, \* what accept() sets: S16, 2 channels, 44100 Hz
  RingCap,       \* VNC_AUDIO_RING_CAP, in chunks
  EnableAudio,   \* server->enable_audio
  MaxChunks,     \* bound: chunks captured
  MaxOrders      \* bound: messages of the peer

ASSUME AudioAssumption ==
  /\ DefaultFormat \in Formats
  /\ PaFormat \in [Formats -> Formats]
  /\ PaFormat[DefaultFormat] = DefaultFormat
  /\ RingCap \in Nat \ {0}
  /\ EnableAudio \in BOOLEAN
  /\ MaxChunks \in Nat /\ MaxOrders \in Nat

VARIABLES
  supports_audio,       \* client->supports_audio
  audio_enabled,        \* client->audio_enabled
  audio_format,         \* client->audio_wire_fmt, audio_channels, audio_freq
  pending_audio_ack,    \* client->pending_audio_ack
  pending_audio_begin,  \* client->pending_audio_begin
  pending_audio_end,    \* client->pending_audio_end
  unsent,               \* client->write_len > client->write_pos
  main,                 \* what the poll loop waits for, if for anything
  thread,               \* where the capture thread is
  stop,                 \* cap->stop
  spec,                 \* cap->spec
  ring,                 \* cap->ring, the oldest chunk first
  captured,             \* chunks captured so far
  stream,               \* peer: a BEGIN without its END, or not
  heard,                \* peer: the last DATA message
  orders                \* messages of the peer so far

pending == <<pending_audio_ack, pending_audio_begin, pending_audio_end>>
capture == <<thread, stop, spec, ring, captured>>
peer == <<stream, heard>>
vars == <<supports_audio, audio_enabled, audio_format, pending, unsent, main,
          capture, peer, orders>>

Chunks == [format : Formats, number : 1..MaxChunks]
\* "none" no capture, "opening" pa_simple_new(), "reading" pa_simple_read(),
\* "full" a chunk read and not yet in the ring, "ended" the thread returned
Threads == {"none", "opening", "reading", "full", "ended"}
\* the handler whose vnc_audio_capture_stop() is in pthread_join()
Waits == {"nothing", "disable", "set_format", "disconnect"}

(* Types; the ring never holds more than its capacity.                     *)
TypeOK ==
  /\ supports_audio \in BOOLEAN
  /\ audio_enabled \in BOOLEAN
  /\ audio_format \in Formats
  /\ pending_audio_ack \in BOOLEAN
  /\ pending_audio_begin \in BOOLEAN
  /\ pending_audio_end \in BOOLEAN
  /\ unsent \in BOOLEAN
  /\ main \in Waits
  /\ thread \in Threads
  /\ stop \in BOOLEAN
  /\ spec \in Formats
  /\ ring \in Seq(Chunks) /\ Len(ring) <= RingCap
  /\ captured \in 0..MaxChunks
  /\ stream \in {"closed", "open", "gone"}
  /\ heard \in Seq(Chunks)
  /\ orders \in 0..MaxOrders

Init ==
  /\ supports_audio = FALSE
  /\ audio_enabled = FALSE
  /\ audio_format = DefaultFormat
  /\ pending_audio_ack = FALSE
  /\ pending_audio_begin = FALSE
  /\ pending_audio_end = FALSE
  /\ unsent = FALSE
  /\ main = "nothing"
  /\ thread = "none"
  /\ stop = FALSE
  /\ spec = DefaultFormat
  /\ ring = <<>>
  /\ captured = 0
  /\ stream = "closed"
  /\ heard = <<>>
  /\ orders = 0

-----------------------------------------------------------------------------
(* The capture thread. *)

Opened ==
  /\ thread = "opening"
  /\ thread' = IF stop THEN "ended" ELSE "reading"
  /\ UNCHANGED <<supports_audio, audio_enabled, audio_format, pending, unsent,
                 main, stop, spec, ring, captured, peer, orders>>

(* No PulseAudio session, or pa_simple_read() fails. *)
CaptureFails ==
  /\ thread \in {"opening", "reading"}
  /\ thread' = "ended"
  /\ UNCHANGED <<supports_audio, audio_enabled, audio_format, pending, unsent,
                 main, stop, spec, ring, captured, peer, orders>>

(* The source delivers samples: pa_simple_read() returns. *)
Captured ==
  /\ thread = "reading"
  /\ captured < MaxChunks
  /\ captured' = captured + 1
  /\ thread' = "full"
  /\ UNCHANGED <<supports_audio, audio_enabled, audio_format, pending, unsent,
                 main, stop, spec, ring, peer, orders>>

KeepAll(chunks) == chunks   \* mutant: nothing is evicted
DropNewest(chunks) ==       \* mutant: a full ring refuses what was captured
  IF Len(chunks) > RingCap THEN Front(chunks) ELSE chunks

(* A full ring loses its oldest chunk. *)
Evict(chunks) == IF Len(chunks) > RingCap THEN Tail(chunks) ELSE chunks

HeldByJoin == main = "nothing"   \* mutant: the join holds the ring's mutex

(* The mutex is held for the length of one access only, never by a join.   *)
MutexFree == TRUE

Stored ==
  /\ thread = "full"
  /\ MutexFree
  /\ ring' = Evict(Append(ring, [format |-> spec, number |-> captured]))
  /\ thread' = IF stop THEN "ended" ELSE "reading"
  /\ UNCHANGED <<supports_audio, audio_enabled, audio_format, pending, unsent,
                 main, stop, spec, captured, peer, orders>>

-----------------------------------------------------------------------------
(* client_read_handler(): the messages of the peer. *)

Order ==
  /\ main = "nothing" /\ stream # "gone"
  /\ orders < MaxOrders
  /\ orders' = orders + 1

SetEncodings(audio) ==
  /\ Order
  /\ supports_audio' = (audio /\ EnableAudio)
  /\ pending_audio_ack' =
       (pending_audio_ack \/ (audio /\ EnableAudio /\ ~supports_audio))
  /\ UNCHANGED <<audio_enabled, audio_format, pending_audio_begin,
                 pending_audio_end, unsent, main, capture, peer>>

StartCapture(format) ==
  /\ thread' = "opening"
  /\ stop' = FALSE
  /\ spec' = PaFormat[format]
  /\ ring' = <<>>
  /\ UNCHANGED captured

NoCaptureStale ==   \* mutant: audio_capture is not set to NULL
  /\ stop' = FALSE
  /\ ring' = <<>>
  /\ UNCHANGED <<thread, spec, captured>>

NoCapture ==
  /\ thread' = "none"
  /\ stop' = FALSE
  /\ ring' = <<>>
  /\ UNCHANGED <<spec, captured>>

StopThen(handler) ==
  /\ main' = handler
  /\ stop' = TRUE
  /\ UNCHANGED <<thread, spec, ring, captured>>

Enable ==
  /\ Order /\ supports_audio
  /\ \/ /\ ~audio_enabled
        /\ StartCapture(audio_format)
        /\ audio_enabled' = TRUE
        /\ pending_audio_begin' = TRUE
     \* enabled already, or the thread could not be created
     \/ UNCHANGED <<capture, audio_enabled, pending_audio_begin>>
  /\ UNCHANGED <<supports_audio, audio_format, pending_audio_ack,
                 pending_audio_end, unsent, main, peer>>

Disable ==
  /\ Order /\ supports_audio
  /\ IF audio_enabled THEN StopThen("disable")
     ELSE UNCHANGED <<main, capture>>
  /\ UNCHANGED <<supports_audio, audio_enabled, audio_format, pending, unsent,
                 peer>>

SetFormatQuietly(format) ==   \* mutant: a running capture is not restarted
  /\ Order /\ supports_audio
  /\ audio_format' = format
  /\ UNCHANGED <<supports_audio, audio_enabled, pending, unsent, main,
                 capture, peer>>

SetFormat(format) ==
  /\ Order /\ supports_audio
  /\ audio_format' = format
  /\ IF audio_enabled THEN StopThen("set_format")
     ELSE UNCHANGED <<main, capture>>
  /\ UNCHANGED <<supports_audio, audio_enabled, pending, unsent, peer>>

HasCapture == thread # "none"

(* Any audio message of a client that has not announced support, and every *)
(* other way to lose the connection.                                       *)
Disconnect ==
  /\ main = "nothing" /\ stream # "gone"
  /\ IF HasCapture
     THEN StopThen("disconnect") /\ UNCHANGED <<peer, orders>>
     ELSE /\ stream' = "gone"
          /\ UNCHANGED <<main, capture, heard, orders>>
  /\ UNCHANGED <<supports_audio, audio_enabled, audio_format, pending, unsent>>

(* pthread_join() returns, and the handler goes on.                        *)
Joined ==
  /\ main # "nothing"
  /\ thread = "ended"
  /\ main' = "nothing"
  /\ \/ /\ main = "disable"
        /\ NoCapture
        /\ audio_enabled' = FALSE
        /\ pending_audio_end' = TRUE
        /\ UNCHANGED peer
     \/ /\ main = "set_format"
        /\ \/ StartCapture(audio_format) /\ UNCHANGED audio_enabled
           \/ NoCapture /\ audio_enabled' = FALSE
        /\ UNCHANGED <<pending_audio_end, peer>>
     \/ /\ main = "disconnect"
        /\ NoCapture
        /\ stream' = "gone"
        /\ UNCHANGED <<audio_enabled, pending_audio_end, heard>>
  /\ UNCHANGED <<supports_audio, audio_format, pending_audio_ack,
                 pending_audio_begin, unsent, orders>>

-----------------------------------------------------------------------------
(* vnc_send_audio_update(): BEGIN, END and DATA, in this order. *)

StreamAfter ==
  CASE pending_audio_end   -> "closed"
    [] pending_audio_begin -> "open"
    [] OTHER               -> stream

DrainedRing == IF audio_enabled THEN <<>> ELSE ring

SendAudioUpdate ==
  LET data == IF audio_enabled THEN ring ELSE <<>> IN
  /\ main = "nothing" /\ stream # "gone"
  /\ ~unsent
  /\ pending_audio_ack \/ pending_audio_begin \/ pending_audio_end \/ data # <<>>
  /\ pending_audio_ack' = FALSE
  /\ pending_audio_begin' = FALSE
  /\ pending_audio_end' = FALSE
  /\ stream' = StreamAfter
  /\ heard' = IF data = <<>> THEN heard ELSE data
  /\ ring' = DrainedRing
  /\ unsent' \in BOOLEAN
  /\ UNCHANGED <<supports_audio, audio_enabled, audio_format, main, thread,
                 stop, spec, captured, orders>>

(* The socket takes the rest of what was written. *)
Flush ==
  /\ main = "nothing"
  /\ unsent
  /\ unsent' = FALSE
  /\ UNCHANGED <<supports_audio, audio_enabled, audio_format, pending, main,
                 capture, peer, orders>>

-----------------------------------------------------------------------------
Thread == Opened \/ CaptureFails \/ Captured \/ Stored

Poll ==
  \/ \E audio \in BOOLEAN : SetEncodings(audio)
  \/ Enable \/ Disable \/ (\E format \in Formats : SetFormat(format))
  \/ Disconnect \/ Joined \/ SendAudioUpdate \/ Flush

Next == Thread \/ Poll

Spec == Init /\ [][Next]_vars

(* The thread and the poll loop are scheduled; the peer reads.  Nothing is *)
(* asked of the audio source.                                              *)
Fairness ==
  /\ WF_vars(Opened) /\ WF_vars(Stored)
  /\ WF_vars(Joined) /\ WF_vars(SendAudioUpdate) /\ WF_vars(Flush)

(* The source delivers samples, or fails: it is not suspended.             *)
LiveSource == WF_vars(Captured \/ CaptureFails)

-----------------------------------------------------------------------------
(* Properties. *)

Ascending(chunks) ==
  \A i \in 1..Len(chunks) - 1 : chunks[i].number < chunks[i + 1].number

(* When the poll loop falls behind, it is the oldest samples that are lost *)
(* (leanrfb_audio.c): the ring holds the latest ones without a gap.        *)
LatestSamples ==
  ring # <<>> =>
    /\ \A i \in 1..Len(ring) - 1 : ring[i + 1].number = ring[i].number + 1
    /\ Last(ring).number = IF thread = "full" THEN captured - 1 ELSE captured

(* The peer hears no sample twice and none out of order, across stops,     *)
(* starts and changes of format; and each in the format last negotiated    *)
(* (or the one recorded in its place), also when that changes while a      *)
(* capture runs.                                                           *)
HeardRight ==
  [][heard' # heard =>
       /\ Ascending(IF heard = <<>> THEN heard' ELSE <<Last(heard)>> \o heard')
       /\ \A i \in DOMAIN heard' : heard'[i].format = PaFormat[audio_format]]_vars

(* Whenever the poll loop is not stopping a capture, a thread exists for   *)
(* exactly the clients with audio on: none is forgotten, none is started   *)
(* beside another, and none outlives its client.                           *)
OneCapture ==
  /\ main = "nothing" /\ stream # "gone" => (audio_enabled <=> thread # "none")
  /\ stream = "gone" => thread = "none"

(* The reads of the audio source run on their own thread "so they can't    *)
(* stall the server's single-threaded, non-blocking poll() loop"           *)
(* (docs/custom/rfb_qemu_audio_extension.md:93): if the source delivers or *)
(* fails, the loop goes on, although stopping a capture joins the thread.  *)
PollGoesOn == []<>(main = "nothing")
=============================================================================
