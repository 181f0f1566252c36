# LeanRFB in TLA+

LeanRFB is a VNC server library in C (`src/src`), with hosts for X11 and
Wayland that use it, a GTK viewer (`src/vncview`) and a set of protocol
extensions of its own (`src/docs/custom`). This directory holds TLA+ modules
translated from that source, TLC configurations that check them on small
instances, and proofs that TLAPS checks for every value of the constants.
`PROJECT.json` maps each definition to the lines it stands for.

1. [The system](#1-the-system)
2. [The modules](#2-the-modules)
3. [What is checked](#3-what-is-checked)
4. [What is proved](#4-what-is-proved)
5. [What was found](#5-what-was-found)
6. [What is not modelled](#6-what-is-not-modelled)
7. [Plan](#7-plan)

## 1. The system

### Server library (`src/src`)

A host application creates a server, draws into it
(`vnc_server_update_framebuffer`, `vnc_server_update_rect`), resizes it, and
calls `vnc_server_poll()` in a loop. All of that runs in one thread; only audio
capture has threads of its own. Nothing is persisted.

| Part | State | Operations | What is hard, and what makes it correct |
|---|---|---|---|
| Poll loop | `clients` list, the pollfd array | accept, the detection walk, the service walk, the update walk, disconnect | clients are freed while the list is walked; slots are filled before the list changes; the limit is tested on an old count. Nobody is visited after being freed, every client is in the list once, the limit holds, data is read in the end |
| Handshake (`client_read_handler`) | `state`, `protocol_minor`, the read buffer | one branch per state and message | any bytes in any state, three versions, WebSocket or not, a time-out that races the browser, a page served with blocking sends. No session without the password; each handshake message once, in the order of the version |
| Lockout | failure counters per connection, a table of addresses | record a failure, look up, expire | counters die with the connection, several connections per address. Who has failed too often stays out |
| Framebuffer and updates | framebuffer, per client `dirty_tiles`, the request, `pending_ext_desktop_size` | draw, resize, request, send | two clients with different backlogs, a resize between request and answer, updates cut at 4096 rectangles. No change is lost, size before pixels, clients converge |
| Rectangles, Hextile | none; colours from tile to tile | coalescing and clipping, encoding | off-by-one at edges, an encoder that believes the decoder to have a colour. What is shown is what was drawn |
| Audio | flags per client, the ring, `stop` | four messages, capture thread, send | two threads, a join in the poll loop, a change of format while capturing. Samples in order, one thread per client with audio |
| Video | encoder, UDP session, keyframe flag | setup, HELLO, encode, fragment, fall back to TCP | lost, late and reordered datagrams, a session replaced by a resize. No mixing of sessions or frames, a picture without UDP too |
| Anti-replay window | `highest`, a 64-bit bitmap | check a packet number | shifts of 64 and more, the last number of the window. Each number accepted at most once |
| Output buffer, WebSocket frames | `write_buf`, `write_pos`, `write_cap`, `ws_read_buf` | append, grow, frame, flush, unmask | sends that take a part, growth in the middle of a message, headers that must stand where the browser looks for them, frames cut at any byte. What is written is what is read |
| Cursor, clipboard | the shape, a flag per client; none for the clipboard | set, send | a shape that changes while the last is draining; a writer that does not look at the buffer. The latest shape gets out |

### Viewer (`src/vncview`) and hosts

The viewer has a GTK thread (connecting with a blocking handshake, input, window
events, a 400 ms debounce timer, the end of a window) and a network thread per
session (rectangles, video, audio, UDP). They share `vnc_fd`, `client_running`,
`screen_w`, `screen_h`, the decoder and the audio stream without a lock, and the
backbuffer with one. Correct is: nothing is used that was freed, a descriptor is
closed once, the main window comes back, the window does not fight the server
over its size.

The web viewer is the same core behind callbacks: a parser with a state
(`vnc_core_process_data`) fed by WebSocket events. Wherever the stream is cut, it
must do what the blocking reads of the desktop viewer do.

The X11 host (`src/x11_vnc`) captures the screen, injects input, answers a
desktop resize by switching the display to the nearest mode, and keeps the
display's clipboard and the viewers' the same; so does the viewer at its end.
The Wayland host has a capture thread that shares the buffer of the screen with
the main thread; the server must be given whole frames.

### How the parts interact

- TCP: reliable, ordered, both directions; the server's writes are buffered.
- UDP: encrypted datagrams (AES-GCM) for video and HELLOs, with a connection id
  and a key sent over TCP.
- Callbacks: `on_resize_request` to the host, which calls back into
  `vnc_server_resize_framebuffer()`.
- Shared memory: the audio ring (mutex, `stop`); in the viewer, what its two
  threads share.

## 2. The modules

```
AuthLockout --> RfbSession --> LockoutHistory        ReplayOnce
                    |               |                    ^ (refines)
              MCRfbSession   MCLockoutHistory        ReplayWindow
                                                         |
                                                         +--> MCChannels
                                                         |
TileRects --> DirtyTiles --> MCUpdates        ClientOutput (refines MessageStream)
    |                           |
    |             Hextile ------+             AudioStream ----+
    +--> UpdateCases --+                      ClipboardSync --+
         VideoUdp -----+--> MCVideo           WebViewer ------+--> MCEnds
                                              WaylandCapture -+
DesktopResize --> MCDesktopResize --+
                  ViewerThreads ----+--> MCViewer
```

The proofs about a module are in one that extends it:

```
RfbSession                  --> RfbSessionProofs
DesktopResize, ViewerThreads --> ViewerProofs
VideoUdp                    --> VideoUdpProofs
SteppingProofs --+--> DirtyTilesProofs  <-- DirtyTiles, UpdateCases
                 +--> HextileProofs     <-- Hextile
                 +--> ChannelsProofs    <-- ClientOutput, ReplayWindow
                 +--> EndsProofs        <-- AudioStream, ClipboardSync, WaylandCapture,
                                            WebViewer
```

An arrow is EXTENDS. The MC modules hold instances. MCUpdates, MCChannels,
MCEnds, MCVideo and MCViewer put components that share no state into one
specification: a behaviour moves one of them while the others stay in their
initial states, so that a run is the union of its parts, each explored
completely. Properties, fairness and bounds are those of the parts. Where an
action of one part has fairness, the union asks it of the part's own behaviours
only.

**AuthLockout** - `ip_is_blocked`, `record_auth_failure` and the table of
blocked addresses, with a clock. The table is a partial function from addresses
to the end of their block: the code never lists an address twice and nothing
depends on the order.

**RfbSession** - `vnc_server_poll()` and `client_read_handler()`. One call of
poll is a sequence of actions, because peers act in between: `phase` says where
it is, `todo` is the rest of the walk (the saved `next` pointer is its second
element), `idx` and `revents` are the pollfd slot that the walk pairs with the
client. Peers connect, send and close at any time. Bytes are units, one unit
being what the parser needs next; the parser decides nondeterministically what a
unit says, so every input is covered. One action per branch of the parse loop,
each with its exit to `disconnect`. A page that is asked for over HTTP is sent
through a socket that blocks (`ReadHttp`): either the socket's buffer takes all
of it, or the poll is in `phase = "http"`, in which nobody is served, until the
peer has read enough (`PageTaken`, the peer's step) or closes (`PageFails`).
After an accept the list is one longer than the array poll filled, and the walk
reads a slot that was never written: the model lets it hold any events
(`SlotEvents`).

**LockoutHistory** - RfbSession and a history of failures per address, which
says what the lockout is for independently of the code's counters.

**ReplayOnce, ReplayWindow** - the promise (each packet number accepted at most
once, refused only if accepted before or W behind), and the bitmap that
implements it in `vnc_udp_replay_check()` and, for the other direction,
`udp_replay_check()`. Numbers are natural numbers; a 64-bit counter does not
wrap within the life of a key.

**TileRects** - pure operators: which rectangles an update has for a set of
dirty tiles and a request, and which flags it clears. **DirtyTiles** uses them:
the application's calls, each client's flags and request, resizes, the update
walk. Pixels are not on the wire: `seen[c]` is what the peer will show when it
has read all that was sent, which is exact because TCP keeps the order. One
call is one step, since application and poll loop share a thread.
Positions and lengths are `uint16_t`s there, as in the code: what is stored is a
remainder modulo `Word`. **UpdateCases** has the rectangles alone: any request, on
the screen, across its edge or beyond it, and the application marking one tile
after the other, so that every set of dirty tiles occurs. `Wraps` names the two
cases in which the code's arithmetic wraps: a request that begins past an edge
of the screen that cuts its tile, and a screen whose row of tiles is a whole word
long. DirtyTiles has requests for whole screens only.

**MessageStream, ClientOutput** - the promise (what is written is read once, in
order, and in the end), and the buffer that implements it. `todo` is the rest of
the handler that runs: a sequence of appends, flushes and early returns, each of
which meets a connection that takes some, all or nothing. A message is a number
of units; a frame header is one. Every writer of the buffer is a handler here:
the handshake, updates with size, cursor, rectangles or video, audio, the
clipboard, the poll loop's flush. `ParseFrames` is the way in: frames from a
browser, cut anywhere, with one of the three forms of length, masked or not, of
any opcode. `Processed` has the loop's three breaks, each waiting for its part of
the frame: two bytes, the extended length, the mask with the payload.

**Hextile** - encoder and decoder of a tile, and the colours both carry from
tile to tile.

**AudioStream** - one client's audio: the messages, the capture thread as a
second process, the ring. The stop of a capture is two steps, because the poll
loop sits in `pthread_join()` between them (`main`).

**VideoUdp** - one viewer's video end to end: the encoder's obligations, UDP
setup and liveness, fragmentation, loss and reordering, reassembly, keyframe
requests, fallback to TCP. Three kinds of network are distinguished, since what
the code promises differs: one that blocks datagrams, one that keeps their
order, one that does not.

**DesktopResize** - viewers, server and X11 host around one resize. Requests
are read as the server reads them (`AsRead`), that is with another layout than
the viewer writes.

**ViewerThreads** - the viewer's sessions one after the other: the GTK thread as
a program counter (`gtk`), the network threads as others (`pc`), the kernel's
descriptors (`files`: which connection is behind which number, the lowest free
one given first, as the kernel does). Each access to what is shared is a step.
The steps of `on_viewer_destroy()` and of the end of `vnc_client_thread()` are in
the order of the code. `stale` collects uses of what was freed, and `misclosed`
closes of what was somebody else's.

**ClipboardSync** - a host and its viewers: selections, conversions that are
answered later, the text each end remembers so as not to send it back. Its
history variables say when everything is at rest and where copies were made.

**WebViewer** - the browser's side: `Serves` and `ServerSends` are the server's,
`OnMessage(n)` hands over n more units, and each pass of the parser's loops is a
step. A message says with its first unit what it is and how long; `Answers` is
what the desktop viewer answers to each, and what the web viewer's replies are
compared with.

**WaylandCapture** - PipeWire's thread and the main thread of the Wayland host
around the buffer of the screen and its mutex, row by row.

**SteppingProofs** - induction over numbers for the proofs that need it
(section 4).

Conventions: a definition with the comment `mutant:` belongs to no
specification. It is a plausible bug, put in the place of the definition that
follows it to see that a property notices. `Max...` constants named *bound* in
their comment bound the model, not the program.

## 3. What is checked

Two workers, times of an ordinary machine.

| Run | Distinct states | Time | Question |
|---|---:|---:|---|
| `session_password` | 1 810 252 | 108 s | Does anybody get in without the password? Is the handshake in order? Are lists, walks, slots sound? Three connections for two places: does the limit hold? |
| `session_live` | 322 192 | 77 s | Without a password: is what a peer sends read? |
| `http_blocks` | violation | 4 s | Does every call of poll come to its end? |
| `lockout_threshold` | violation | 1 s | Does the threshold of five lock anybody out? |
| `updates` | 116 251 | 93 s | Is any change lost, does a viewer converge? Does Hextile round-trip? |
| `channels` | 109 653 | 45 s | Does the output buffer implement a stream of messages? Are a browser's frames unmasked once and in order, wherever they are cut? Does the bitmap implement accept-at-most-once? |
| `browser` | violation | 1 s | Does a slow browser find headers where it looks for them? |
| `ends` | 590 522 | 89 s | Audio: order, format and life of capture, does the poll loop go on? Do clipboards come to agree? Does the web viewer's parser handle any cut? Does the Wayland host show whole frames? |
| `video` | 2 012 449 | 120 s | Sessions, whole frames, order, fallback. Are the rectangles of an update exactly what is dirty and asked for? Is what is marked clean sent? |
| `viewer` | 175 115 | 172 s | Does everyone learn a new size, does it settle? Do the viewer's threads use what was freed? Does the main window come back? |
| `viewer_close` | violation | 1 s | Does only the network thread touch the audio stream? |
| `resize_wire` | violation | <1 s | Do viewer and server agree on SetDesktopSize? |

Every property of a passing run has a mutant of a mapped definition that
violates it in that run (`PROJECT.json`, `mutants`).

### Properties

*RfbSession.* `AuthenticatedSession`: with a password, only a connection whose
user knows it is past the VncAuth response. `HandshakeInOrder`: what was sent is
a prefix of the version's script, and all of it in `NORMAL`, whatever the
WebSocket time-out and pipelined input do. `WalkSafe`: the list, the saved
pointer and, in a poll that accepts nobody, the slots, with clients dropped in
the middle of walks. `ConnectionLimit`. `DataEventuallyRead`, under two premises
about the peers (see Fairness). `PollEnds`, which `http_blocks` violates.

*LockoutHistory.* `LockoutEnforced`, in the run `lockout_threshold` that violates
it. No property says that a block keeps anybody out: with the code's threshold of
five no block ever begins (section 5).

*ReplayWindow.* `WindowExact`, `ImplementsReplayOnce`.

*DirtyTiles.* `NoLostUpdate`: what a peer does not show is dirty for it.
`SizeKnown`: a new size is announced before pixels of it. `Converges`.

*UpdateCases.* `ExactlyWanted`, `ClearedWasSent` compare the rectangles with
what was asked for, pixel by pixel, where nothing wraps (`~Wraps`). *Hextile.*
`ShownAsDrawn`, `FitsReserved`.

*ClientOutput.* `ImplementsStream`: the refinement of MessageStream, with its
liveness; it is about peers that speak RFB directly, with sends that take any
part, and browsers whose connection takes what it is given (section 5 for the
others). `InboundExact`: the payloads of data frames are unmasked once and in
order, and no byte of a header, an extended length or a mask is taken for data,
wherever the stream is cut. `LatestCursor`: a client for which nothing waits has
the present shape. `TypesOK` says that the buffer fits its allocation.

*AudioStream.* `LatestSamples`, `HeardRight` (in order, once, in the
format negotiated), `OneCapture` (a thread exists for exactly the clients with
audio, and outlives none), `PollGoesOn`.

*ClipboardSync.* `ClipboardsAgree`: at rest, host and viewer show the same text,
and no text has come back to where it was copied. It excepts copies that cross
each other, and a second viewer (section 5).

*WebViewer.* `HandledExact`: what is consumed, what is answered and whether
sound plays is a function of the messages that have arrived whole, the same
function as in the desktop viewer; a connection that was cut leaves nothing to
the next.

*WaylandCapture.* `WholePicture`: what the server shows is one frame, except for
what was copied before the main loop began.

*VideoUdp.* `ReadyIsCurrent`, `FramesWhole`, `CompletedInOrder`,
`ShownOverTcp`.

*DesktopResize.* `SizeOnItsWay`: a viewer that does not show the present size has
its announcement on the way, but for a viewer whose waiting announcement a
rejection overwrote (section 5). `Settles`.

*ViewerThreads.* For sessions that the server ends: `NoUseAfterFree`,
`ClosedOnce`; `BackToMain`: the window goes whichever thread was where, also
with the GTK thread waiting for the mutex that a Raw rectangle holds.

### Bounds, and why they are enough

- *session_password*: two connections, one of whom knows the password; a socket
  queue of one unit, a read buffer of two. Two connections are needed for one to
  be dropped while the other is yet to be visited, and for a stale slot. With
  one unit arriving at a time and room for two, a buffer fills up across two
  reads. Versions 3.3 and 3.8: with a password 3.7 is handled as 3.8. A third
  connection for `MaxClients = 2` comes, waits, is refused or takes a place that
  has become free. The constraint `Bounded` limits what goes on meanwhile, and
  after the one tick of the clock: nothing is on its way but responses to
  challenges, so that clients fail and are dropped by the walk that others are
  in; closing and time-outs are as free as ever. The lockout has the code's
  constants in all runs; the table of blocked addresses stays empty, since no
  block begins.
- *session_live*, *http_blocks*: two connections without a password, so that all
  states are reached by either; peers that speak RFB 3.7, the version in which
  None is not followed by a SecurityResult.
- *lockout_threshold*: the code's constants, one connection that comes back five
  times.
- *updates*: for clients, two viewers of three tiles in a row or one, one
  rectangle to an update, two drawings, one resize, three updates unread: an
  update cannot show all, and a viewer can be behind by an update and a resize
  at once. Screens are of whole tiles there (see section 5). For Hextile, all
  tiles of 2 x 2, 1 x 1 and 1 x 3 pixels over four colours with three allowed.
  Every stream of tiles is covered, since one tile in flight and the carried
  colours are the whole state. A tile with more than `MaxSubrects` subrectangles
  is, at this size, always one that raw beats anyway.
- *channels*: seven units written, into a buffer that begins with two: updates
  of one or two rectangles grow it, and a partial send leaves any part of it;
  one change of the cursor. One short frame of the browser comes between the
  server's writes, so that answers to pings come between its messages
  (`Between`). Of longer ones there are two, of any opcode, with or without an
  extended length of two bytes, with or without a mask of one, payloads of none,
  one or four bytes, arriving in pieces of any length, for a read buffer of
  seven: a cut occurs at every place of a frame, and a frame can be whole, cut
  or longer than the buffer. That the two extended lengths differ in size only,
  and a mask has four bytes, are matters of the constants; the proof is for all
  of them. For the window W = 4 and eight packet numbers: shifts below, at and
  beyond W, and numbers W - 1, W and W + 1 behind; the proofs cover W = 64.
- *browser*: the same as *channels* with a connection to the browser that takes
  any part.
- *ends*: a ring of two chunks, five chunks captured, six messages: enable,
  overflow, disable, enable again, change the format, leave; one of three formats
  is recorded as another. Two viewers, two texts and three copies: two that
  follow each other before the first is answered, and one more elsewhere. For
  the web viewer, three messages after the handshake, two rectangles to an
  update, two connections of which the first is lost anywhere. For the Wayland
  host three rows and four frames, before and after the main loop begins.
- *video*: two changes (of content, size, or loss of liveness) and two datagrams
  in flight. Frames need one or two fragments, or three, which is too many. All
  time-outs can be over at any moment. On networks that change the order, one of
  the two changes at most is a resize or a loss of liveness (`FewSessions`). For
  rectangles, tiles of 4 x 4 and words
  of 16, on screens of 5 x 7, 9 x 5, 8 x 8 and 4 x 9: whole and cut tiles at
  either edge; every subset of tiles dirty; requests that begin on the screen,
  on its edge, past it and a word's end away, with lengths of none, one, a tile
  and a pixel, and the largest that a word holds; two rectangles at most, so
  that updates are cut.
- *viewer*: two viewers, three modes, two drags; sizes with eight values to a
  byte, such that a request, read as the server reads it, gets the one mode or
  the other, is refused, or asks for two screens. For the threads two sessions,
  so that the second reuses the first's descriptor and finds its remains, and
  one window closed by the user. *resize_wire* has real sizes, *viewer_close*
  one session.

Deadlock is checked for the sessions. The other models may stop: their peers,
users and applications are bounded.

### Fairness

- *RfbSession*: the host calls `vnc_server_poll()` again and again (weak
  fairness of the server's steps), and `poll()` does not fail for ever (strong
  fairness of `PollReturns`: EINTR is an accident). Nothing is asked of peers,
  not even to read the page they asked for. So `DataEventuallyRead` has two
  premises in its own statement, both about what peers do: a page that is being
  sent is taken or its connection closed (`PagesAreTaken`), without which the
  poll loop stays in `send()`; and polls that find no new connection recur
  (`QuietPollsRecur`), since an accept shifts the slots, and if every poll
  accepted somebody, a client could be served by its neighbour's slot every
  time. Accepts may go on for ever. That the first premise is needed is the run
  `http_blocks`.
- *DirtyTiles*: the poll loop runs, sockets drain and viewers read and answer
  each update with a request, as the project's viewers do. One weak fairness
  condition covers all clients: each of its steps is finite in number once the
  drawing has stopped, so none can crowd out another for ever.
- *ClientOutput*: handlers run to their end, and the poll loop flushes while the
  peer reads. Nothing is asked of the peer but that.
- *AudioStream*: thread and poll loop are scheduled. `PollGoesOn` also needs the
  source to deliver or fail (`LiveSource`): the poll loop joins a thread that may
  sit in `pa_simple_read()`, and with a source that does neither it would stay
  there.
- *DesktopResize*: the viewer's threads run, its timer expires, the server
  reads and writes.
- *ViewerThreads*: threads run and a mutex that stays free is got. The bytes of a
  message may never come, unless the connection ends. GTK serves its idle
  callbacks also while it draws again and again (strong fairness: redraws are
  queued as idle callbacks too).

## 4. What is proved

By TLAPS, for every value of the constants that the modules' assumptions allow.
The assumptions give types and ranges only (sets of connections, naturals,
booleans). Two theorems have a hypothesis of their own, and say so.

| Theorem | Statement |
|---|---|
| `RfbSessionProofs!TypeCorrect` | `Spec => []TypeOK` |
| `RfbSessionProofs!LimitHolds` | `Spec => []ConnectionLimit` |
| `RfbSessionProofs!Authentication` | `Spec => []AuthenticatedSession` |
| `RfbSessionProofs!WalksAreSafe` | `Spec => []WalkSafe` |
| `RfbSessionProofs!HandshakeOrder` | `Spec => []HandshakeInOrder` |
| `ChannelsProofs!OutputTypes` | `OutputSpec => []OutputTypeOK` |
| `ChannelsProofs!ReadAsWritten` | `TRUE \notin Takes` gives `OutputSpec =>` the safety of `Channel!Spec` |
| `ChannelsProofs!CursorIsLatest` | `OutputSpec => []LatestCursor` |
| `ChannelsProofs!FramesAreRead` | `OutputSpec => []InboundExact` |
| `ChannelsProofs!WindowCorrect` | `Spec => [](TypeOK /\ WindowExact)` |
| `ChannelsProofs!WindowImplementsOnce` | `Spec => ImplementsReplayOnce` |
| `DirtyTilesProofs!SizeBeforePixels` | `Spec => [](TypeOK /\ SizeKnown)` |
| `DirtyTilesProofs!ChangesAreKept` | `TilesUncut` gives `Spec => []NoLostUpdate` |
| `DirtyTilesProofs!UpdatesAreExact` | `CasesSpec => []ExactlyWanted` |
| `DirtyTilesProofs!ClearedIsSent` | `CasesSpec => []ClearedWasSent` |
| `DirtyTilesProofs!ClearedAreSent` | what an update clears is among what it sends |
| `HextileProofs!TilesAreShown` | `HextileSpec => [](HextileTypeOK /\ ShownAsDrawn /\ FitsReserved)` |
| `HextileProofs!TilesFit` | `HextileSpec => []FitsReserved` |
| `EndsProofs!PictureIsWhole` | `CaptureSpec => [](CaptureTypeOK /\ WholePicture)` |
| `EndsProofs!SoundIsSafe` | `Spec => [](TypeOK /\ OneCapture /\ LatestSamples)` |
| `EndsProofs!OneThreadCaptures` | `Spec => []OneCapture` |
| `EndsProofs!SoundIsHeardRight` | `Spec => HeardRight` (an action property) |
| `EndsProofs!ClipboardsComeToAgree` | `ClipboardSpec => [](ClipboardTypeOK /\ ClipboardsAgree)` |
| `EndsProofs!MessagesHandledExactly` | `WebSpec => [](WebTypeOK /\ HandledExact)` |
| `VideoUdpProofs!VideoTypes` | `Spec => []TypeOK` |
| `VideoUdpProofs!SessionIsCurrent` | `Spec => []ReadyIsCurrent` |
| `VideoUdpProofs!FramesAreWhole` | `Spec => []FramesWhole` |
| `VideoUdpProofs!CompletedOnceInOrder` | `Spec => CompletedInOrder` (an action property) |
| `VideoUdpProofs!VideoOverTcp` | `Spec => []ShownOverTcp` |
| `ViewerProofs!SizeIsOnItsWay` | `Spec => [](TypeOK /\ SizeOnItsWay)` |
| `ViewerProofs!SessionsTakeTurns` | `ThreadsSpec => [](ThreadsTypeOK /\ NoUseAfterFree /\ ClosedOnce)` |
| `ViewerProofs!EachClosedOnce` | `ThreadsSpec => []ClosedOnce` |

### The poll loop and the handshake

*TypeCorrect.* One lemma per family of actions (`PeerTypes`, `PollTypes`,
`AcceptTypes`, `ServeTypes`, `ReadTypes`), over lemmas about what handlers are
made of: `UnlinkFacts` (the list without a client is a list of connections, and
one shorter if the client was in it), `DropTypes`, `ParseTypes`. The claim
that matters in it is `buffered <= ReadBuf`: the handler's test before
`recv()`.

*LimitHolds.* `ConnectionLimit` is not inductive: the limit is tested on
`Len(pfds)`, counted before `poll()`. The invariant adds `CountFresh`: in the
phase in which connections are accepted, that count is still the length of the
list. It holds because no client leaves between the two; that is also why the
test would be wrong one phase later.

*Authentication.* `AuthenticatedSession` is inductive with the types. `StateStep`
lists the ways into `WAIT_CLIENT_INIT` and `NORMAL` over all actions: with a
password, the only way in from outside is `ReadAuthResponse`.

*WalksAreSafe.* `WalkInv` is the parts of `WalkSafe` (`ListExact`: the list has
exactly those who have a struct and a socket, once; `RestOfWalk`: what is left
of the walk is in the list, once; `OwnSlot`: in a poll that accepted nobody it is
the rest of the array of slots) and `SlotsFresh`, which is what they lack: when
connections are accepted, the array is still the list. A client is freed only
when the walk has passed it, so the rest of the walk stays in the list, while
the array keeps its slot.

*HandshakeOrder.* That what was sent is a *prefix* of the script is not
inductive. `HandshakeInv` says what exactly has been sent, by state and version
(`SaidExact`), and which versions and states go together: before the version
message has come the version is still 3.8, and 3.3 never waits for a choice of
security.

### The output buffer

*OutputTypes, ReadAsWritten.* `OutTypes` gives `todo` its type: operations
whose lengths add up to what may still be written, and that reserve what they
write. `Delivered` is what every step keeps: what the peer has read, and what
waits after `write_pos`, are together what the handlers have written, and a
browser is between frames. A flush cuts the buffer in two (`AfterCut`); the part
sent is read as it is (`HeardPlain`), or is one whole frame where the browser
looks for one (`HeardFrame`); and answers to pings come between frames
(`HeardPongs`). A write appends to what waits, whether or not there was a flush
and a growth before it (`SpaceSends`). Then every step extends the stream and
what is read of it (`StreamStep`), which is the step of MessageStream. The
hypothesis is that a browser's connection takes what it is given at once; of other
viewers nothing is assumed. `FramesInStep` shows that it is needed: section 5.

*FramesAreRead.* `InExact` says that `ws_read_buf` holds just what came after
the last frame that is complete: two bytes, an extended length, a mask and a
payload of any lengths whose sum is a `size_t` (`BrowserLengths`, the assumption
that the peer leaves the top bit of a 64-bit length clear). How far the loop
over the frames gets (`ProcessedFacts`) and what is data in them
(`PayloadJoins`) are recursive functions over bytes, for reads of any length.

*CursorIsLatest.* `LatestCursor` is inductive: only the write that completes a
cursor message takes it from what is pending, and it sends the present shape.

### The replay window

The inductive invariant is `WindowExact`
itself: bit `a` is set exactly if `highest - a` was accepted. `AdvanceExact` is
the shift, `LateExact` the bit set behind; `TooOldAgree` says that the code's
test on `highest` is the abstract test on all numbers accepted. Then each step
of the window is a step of ReplayOnce.

### The framebuffer

*SizeBeforePixels.* `UpdateInv`: types, and for each client `Informed`: a peer
whose screen has, when it has read all, another size than the server's will be
told the size, has its update requested, and is owed every tile.

*ChangesAreKept.* To `UpdateInv` comes `Remembered` for each client: what a peer
will not show as it is lies in a dirty tile. Actions that draw are easy; the
step that sends is the proof. `ClearedAreSent` is its centre, a theorem about
the rectangles alone, for any request and screen where nothing wraps: runs of
tiles in a row, clipped to the request and to the screen, merged downwards, cut
at the limit of rectangles. Whatever tile has its flag cleared, each of its
pixels that the request has is in a rectangle. The runs and merges are induction
over columns and rows (`SteppingProofs`). The hypothesis `TilesUncut` says that
no desktop size ends inside a tile of a larger one. It always holds if there is
one size, or if all are of whole tiles. Without it the statement is false:
section 5 has the resize that loses part of a tile.

*UpdatesAreExact.* It is about screens and requests that are not `Wraps`, which
is what the property says too; of all of these, those beyond the screen
included. Where nothing wraps, the remainders are shown to be the numbers
themselves: `WrapSmall`, `ExtentExact` in one dimension, `ClipIs` for the
rectangle of a run, `AddRunIs` for the array. A request that has no pixel of the
screen touches no tile or only empty rectangles come of it (`NothingAsked`), and
the code's test for `rw > 0 && rh > 0` drops these. For the others, one
rectangle first: cut by the request and the screen, the rectangle of a run shows
exactly what was asked for of its tiles and is not empty (`ClipShows`, from
`LineShown` in one dimension). Two runs have no tile in common (`RunsApart`) and
every dirty tile is in one (`RunsCover`). While the tiles are walked, row by
row, each once (`OrderFacts`), the rectangles so far (`RunsSoFar`) are those of
the runs that began, no two show the same pixel, and none is missing unless the
array is full; if there are no more runs than it has room for, that none is
missing also when it is full is counting (`RunsFit`). Merging keeps all of this
(`MergeShows`): at most one rectangle can be continued by the next, since two
would show the same lowest row. `ClearedIsSent` is `ClearedAreSent` for the
updates of that specification.

*TilesAreShown.* `ShownAsDrawn` speaks of the next tile only. The encoder leaves
out a colour when it believes that the decoder has it, so the invariant
(`HextileInv`) says that there are colours, one pair for each tile in flight and
one for the start, such that the first pair is the decoder's, the last is what
the encoder remembers, and each tile turns its pair into the next
(`ColoursAhead`); and that each tile in flight is what the encoder makes of
some picture (`Encoded`). That a picture is drawn again from its background and
subrectangles is a statement about one tile: a column of spans merged downwards
covers what is not background and nothing else. *TilesFit* compares the
encoded length with the raw one that is used in its stead.

### Sound and capture

*PictureIsWhole.* While one thread copies, the mutex keeps the other out; but
the main thread clears the buffer without the mutex. `CaptureInv` says, by the
place of either thread, who holds the mutex (`MutexHeld`) and which rows hold
what (`Buffer`): once the main loop runs, the rows that PipeWire's thread has
copied are of its frame, and the others of one frame, or all from before the
loop (`WholeRows`).

*SoundIsSafe, OneThreadCaptures, SoundIsHeardRight.* `AudioInv`: a thread exists
for a client with audio, and captures the format negotiated but in the middle
of a change (`OwnCapture`); the ring holds consecutive chunks of one format up to
the latest that got there (`Sampled`); and what was heard came before what is in
the ring (`HeardBefore`). The last is
what makes the action property follow: a chunk that is sent is later than all
heard, in the format that was announced.

### Clipboards

*ClipboardsComeToAgree.* `ClipboardsAgree` speaks of rest only, and most of a
copy's way is unrest; the invariant (`Together`) says how the unrest ends.
Unless copies crossed, there are three situations: nothing has been copied since
everything agreed (`Resting`); the host's application has copied, and what the
viewers will show in the end is the text that its event, conversion or property
is about (`HostCopies`); or one viewer's application has, nothing goes the other
way, and what the viewer has sent or will send is that text (`ViewerCopies`).
`Informed` says where a viewer's next text is: asked for, in its queue, on the
wire or shown. `Kept` is about what an end remembers so as not to send a text
back: a viewer that shows the host's text has remembered just that. Each action
leads from a situation to itself or to the next. A copy makes one event and
later one conversion (`Counted`), so that the bound on copies is a bound on
conversions; that is counted with the cardinality of the events that wait. That
`NoText` is not a text is an assumption of the module.

### Web viewer

*MessagesHandledExactly.* `HandledExact` speaks of the moments between two calls
of the parser only. The invariant (`WebInv`) says where the parser is at all
times: there is a number of messages that it has consumed (`Parsed(d)`), what
arrived after them waits in `input_buf` (`Placed`), its state is the one after
the last of them, and either it is at the beginning of the next message or
inside an update with some of its rectangles handled and, if one of them was the
acknowledgement of audio, the answer to it sent (`InUpdate`). That the state
fits the message which comes is not the parser's doing: until ServerInit the
server sends a message for each answer (`Lockstep`), and after it any order will
do. When a call returns, the next message is not whole or is a refusal
(`Stopped`), and so an update that was begun and given up leaves no trace. That
is possible only because the answer to an acknowledgement is given once: it
stands alone in its update and is the last unit of it (`AckInside`), so that
once it is there the update is whole. `WholeHere` derives that the parser's
place is the one that `ArrivedWhole` chooses. An update has at least one
rectangle (`MaxRectsOf >= 1`).

### Video

`VideoInv`, in parts: `Adopted` (the setups on TCP have rising ids, above that of
the viewer's session and up to the server's), `Sent` (datagrams in flight of the
present session have frame ids below `udp_frame_id`, and on a network that keeps
the order they do not fall and fragments with one id are of one frame),
`Reassembled` (a frame in reassembly is later than the last one completed, and on
such a network put together of fragments of one frame that no datagram in flight
is older than), and, where datagrams are blocked, `OverTcp` (no session is ever
live; the size, the picture and a keyframe before it are shown, or the last
such message on TCP brings them). TLC checked this invariant on `video` before it
was proved, and that of DirtyTiles on `updates`.

### Resizing, and the viewer's threads

*SizeIsOnItsWay.* `OnItsWay` strengthens the property with order: from some
announcement of the present size on, no other size follows. Property and theorem
are about clients whose one slot was not last taken by a rejection
(`overwritten`); of the others nothing is claimed: the code loses the
announcement (section 5). `Fits` is what GTK grants a window, which the sizes of
events need.

*SessionsTakeTurns, EachClosedOnce.* `Orderly` describes the two threads as five
phases of a session (`InMain`, `Shaking`, `Running`, `Over`, `Going`), each with
which connection is behind `vnc_fd` or the thread's own descriptor, whose window
is open and which callbacks are queued. Each action leads from a phase to itself
or the next. If the user closes a window (`closes > 0`), only types are claimed:
there the property is false (section 5).

### How the proofs do induction

The library's induction theorems take an operator as a parameter, which the
installed provers cannot instantiate. `SteppingProofs` states what is needed with
sets in the place of predicates, from the well-foundedness of the naturals
(`WFMin`): `LeastOne`, `GreatestOne`, `UpTo`, `StepsStay`, and `Stepwise`, which
defines a function by recursion; and for sequences put together (`FlattenSeq`),
that one more sequence adds its elements at the end (`FlattenSteps`,
`FlattenMore`, `JoinedSteps`). What recursive functions of the models compute
(the runs of `UpdateRects`, the columns of Hextile, `Heard`, `Processed` and
`Payload` of ClientOutput) is proved from it.

### Only model-checked

- Liveness: `DataEventuallyRead`, `Converges`, `PollGoesOn`, `Settles`,
  `BackToMain`, and the second half of `ImplementsStream`. Fairness and ENABLED
  are beyond the prover. Its first half is `ReadAsWritten`.
- The `TypesOK` of the MC modules: they are conjunctions of the parts' type
  invariants, each of which is proved of its own specification.

## 5. What was found

Five runs end in a violation, by design, and are the findings of `PROJECT.json`:

- `lockout_threshold`: failures are counted in the connection's struct, and a
  failed response disconnects and frees it (`leanrfb.c:1194-1198`). No counter
  passes one, so the threshold of five is never reached.
- `http_blocks`: a page is served by `set_blocking()` and a loop of `send()`
  inside the poll loop (`leanrfb.c:1098-1106`, `145-201`). A peer that asks for
  the web client and does not read stops `vnc_server_poll()`, called
  non-blocking in `leanrfb.h:80`, for everybody.
- `resize_wire`: viewer and server lay out SetDesktopSize differently
  (`vncview.c:1099-1106`, `leanrfb.c:1370-1373`). The server takes the high byte
  of the height for the number of screens and loses step with the stream, unless
  the height is between 256 and 511.
- `browser`: a frame header goes before the output buffer whenever it is flushed
  from its start (`leanrfb.c:847`), also when an earlier send took nothing and
  the frame is there already; and the clipboard is appended to a frame that is
  still unsent. A browser that reads slowly then takes a header for data, or
  data for a header.
- `viewer_close`: `on_viewer_destroy()` frees the audio stream on the GTK thread
  while the network thread may be writing to it (`vncview.c:776`), though the
  comments there say that only the network thread touches it. The decoder is in
  the same position (`vncview.c:756-775`); `NoUseAfterFree` is therefore about
  sessions that the server ends.

Seen while modelling. The models follow the code in these; no run is devoted to
them:

- The service walk, after an accept, reads each client's events from the slot
  of another, and the last client's from a slot not filled
  (`leanrfb.c:654-658`; the comment at 524-526 says client sockets start at slot
  2). `recv()` says EAGAIN, so it costs delay, not data.
- A tile's flag is cleared although the rectangle covered part of it, when a
  request for the old size is answered after a resize (`leanrfb.c:1998-2006`).
- Audio BEGIN and END are flags sent in a fixed order, so that a quick DISABLE
  and ENABLE come out as BEGIN, END (`leanrfb.c:2041-2061`;
  `rfb_qemu_audio_extension.md:67`); a restart that fails after SET_FORMAT sends
  no END (`leanrfb.c:1469-1473`).
- The poll loop waits in `pthread_join()` for a thread blocked in
  `pa_simple_read()` (`leanrfb_audio.c:137`;
  `rfb_qemu_audio_extension.md:93`).
- A keyframe asked for waits until something is dirty (`leanrfb.c:1550-1559`;
  `rfb_h264_udp_extension.md:197`).
- On a network that reorders, a late fragment of an older frame is added to the
  one under reassembly, and `last_completed` can go back (`vncview.c:552-598`;
  `rfb_h264_udp_extension.md:33`). `FramesWhole` and `CompletedInOrder` name
  the networks for which they hold.
- TCP frames may be overtaken by UDP frames (`leanrfb.c:1538-1548`;
  `rfb_h264_udp_extension.md:186`).
- A request that begins in the last, cut tile beyond the edge of the screen
  (`leanrfb.c:1841-1864`) gets a length that wraps to almost 65536, and a
  rectangle beyond both request and screen. No viewer of the project asks for
  that; the models compute it so, and `ExactlyWanted` and `ClearedWasSent`
  except it (`PastCutEdge`).
- The length of a run of tiles is a `uint16_t` (`leanrfb.c:1843`). On screens of
  65521 pixels and more a run over the whole row has length 0, and is neither
  sent nor marked clean, though all tiles are marked "to send initial full
  screen" (`leanrfb.c:623`). The models compute it so; the properties except it
  (`TooWide`).
- A rejection takes the place of an announcement that waits in the client's one
  slot (`leanrfb.c:1396-1398`), and the viewer, which ignores the size in a
  rejection (`vnc_client_core.c:976`), is left with the old one, though each
  resize is to be announced (`rfb_desktop_resize_extension.md:60-62`). The model
  has the step; `SizeOnItsWay` excepts the viewer it happened to
  (`overwritten`).
- When users resize again while announcements are on their way, events of old
  sizes and requests can chase each other (`rfb_desktop_resize_extension.md:135`).
  `Settles` is about one resize.
- Copies on host and viewer that cross on the wire swap the two clipboards, and
  nothing brings them together again. A text that a viewer copies again after
  another viewer copied something in between is not sent, since it equals what
  the viewer sent last (`vncview.c:664`). What the host's application copies is
  not passed on when the host holds it already from a viewer
  (`x11_vnc_server.c:620`), so other viewers do not get it. The handler of owner
  changes is connected anew for every session (`vncview.c:1407`) and never
  disconnected, so that a later session handles each change several times; the
  comparison with `last_sent_clipboard` hides it.
- After the user has closed a window, the thread left behind can set `vnc_fd` to
  -1 after the next session has set it and before its thread has read it
  (`vncview.c:732`); that session then shows nothing.
- Neither viewer sends the audio message DISABLE, so the server's END never
  reaches them.
- The Wayland host publishes the buffer of the screen before it has cleared it,
  and without the mutex (`wayland_vnc_server.c:491`): a frame copied meanwhile is
  shown in part until the next one comes.
- The web page may call `connect_vnc()` while an earlier connection is open: both
  feed the one parser (`vncview_web.c:199`).

## 6. What is not modelled

- Allocation failures, except where a handler drops the connection for one.
- FFmpeg, libjpeg, OpenSSL and the calls of encoders and ciphers around them;
  the X11 host's screen capture; input injection; the portal calls of the Wayland
  host, and a second negotiation of its size, to which the code has no answer (the
  buffer and the server keep the first); the demo; SDL in the web viewer.
- In ViewerThreads, the handshake's messages (one step; they are those of
  WebViewer), the UDP socket, input events, and dialogs with main loops of their
  own. In WebViewer, a second connection while the first is open.
- In ClientOutput, 64-bit lengths with the top bit set, for which the sum of a
  frame's size wraps (`leanrfb.c:243`): `FrameSize` computes it so, but what the
  code then does with memory beyond its buffer is not modelled, so the
  assumption `BrowserLengths` keeps to lengths for which it does not. A failed
  send (the connection is dropped, as in RfbSession) and browsers that are slow,
  except in the run about them.
- In RfbSession, a handshake that never ends: the code has no time-out for it,
  so no property promises one. What a page consists of; the socket's buffer is
  large enough for it or not. `vnc_server_destroy()` is left out.
- In DirtyTiles, peers other than the project's viewers, which ask for their
  whole screen; requests for parts (they are in UpdateCases); encoders that fail
  in the middle of an update.
- In VideoUdp, a change of codec by SetEncodings, an encoder that returns a
  packet for an earlier picture, and fragment counts that differ within what is
  reassembled: the model takes such a fragment where the code drops one whose
  index is beyond the buffer, so it allows more than the code does. A frame sent
  over UDP right after setup may be a delta if the encoder was running.
- In Hextile, which of equally frequent colours is the background: either is
  allowed. `convert_pixel()` is one to one for the format viewers ask for.
- In TileRects, what is read and cleared outside the screen's arrays after a wrap:
  `ClearedBy` is the part within the screen.
- In DesktopResize, what the server reads once it is out of step.

## 7. Plan

Done: everything above. To extend the model: the change of codec by
SetEncodings in VideoUdp, periodic keyframes and with them recovery from loss,
two connections of the web page at once, and an abstract `AudioPromise` (BEGIN,
DATA, END as the peer should hear them) to compare AudioStream with.
