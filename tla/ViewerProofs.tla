---------------------------- MODULE ViewerProofs ----------------------------
(***************************************************************************)
(* The viewer with its server and host, for any number of viewers and of   *)
(* sessions: a live resize is not lost on its way, and the viewer's two    *)
(* threads do not use what the other has given up.                         *)
(***************************************************************************)
EXTENDS DesktopResize, ViewerThreads, SequenceTheorems, TLAPS

(***************************************************************************)
(* Live resizes, for any modes of the host's output and any sizes of       *)
(* windows, bytes of any width included: the announcement of the desktop's *)
(* size is not lost, but where a rejection takes its place.                *)
(***************************************************************************)

Announcement == [status : Statuses, size : Modes]

Types ==
  /\ size \in Modes
  /\ supports \in [Clients -> BOOLEAN]
  /\ pending \in [Clients -> Statuses \cup {"none"}]
  /\ in_step \in [Clients -> BOOLEAN]
  /\ overwritten \in [Clients -> BOOLEAN]
  /\ requests \in [Clients -> Seq(Sizes)]
  /\ updates \in [Clients -> Seq(Announcement)]
  /\ screen \in [Clients -> Modes]
  /\ window \in [Clients -> Sizes]
  /\ least \in [Clients -> Sizes]
  /\ events \in [Clients -> Seq(Sizes)]
  /\ idle \in [Clients -> BOOLEAN]
  /\ timer \in [Clients -> BOOLEAN]
  /\ pending_resize \in [Clients -> Sizes]
  /\ drags \in 0..MaxDrags

Fits == \A c \in Clients : window[c].w >= least[c].w /\ window[c].h >= least[c].h

\* From some announcement of the present size on, no other size is announced.
Underway(ups, s) ==
  \E i \in DOMAIN ups :
    /\ ups[i] = [status |-> "success", size |-> s]
    /\ \A j \in i + 1..Len(ups) : ups[j].status = "success" => ups[j].size = s

OnlyThat(ups, s) == \A u \in ToSet(ups) : u.status = "success" => u.size = s

OnItsWay(c) ==
  supports[c] /\ ~overwritten[c] =>
    \/ pending[c] = "success"
    \/ Underway(updates[c], size)
    \/ screen[c] = size /\ OnlyThat(updates[c], size)

LEMMA ToSetOf ==
  ASSUME NEW S, NEW q \in Seq(S)
  PROVE  ToSet(q) \subseteq S
BY DEF ToSet

LEMMA TypesGive == Types /\ Fits => TypeOK
<1> SUFFICES ASSUME Types, Fits PROVE TypeOK
  OBVIOUS
<1>1. ASSUME NEW c \in Clients
      PROVE  /\ ToSet(requests[c]) \subseteq Sizes
             /\ \A u \in ToSet(updates[c]) : u.status \in Statuses /\ u.size \in Modes
             /\ ToSet(events[c]) \subseteq Sizes
  <2>1. /\ requests[c] \in Seq(Sizes) /\ events[c] \in Seq(Sizes)
        /\ updates[c] \in Seq(Announcement)
    BY DEF Types
  <2>2. /\ ToSet(requests[c]) \subseteq Sizes /\ ToSet(events[c]) \subseteq Sizes
        /\ ToSet(updates[c]) \subseteq Announcement
    BY <2>1, ToSetOf
  <2>3. QED
    BY <2>2 DEF Announcement
<1>2. QED
  BY <1>1 DEF Types, Fits, TypeOK

LEMMA WayGives == (\A c \in Clients : OnItsWay(c)) => SizeOnItsWay
BY DEF OnItsWay, Underway, OnlyThat, SizeOnItsWay, Told

LEMMA TypesStart == Init => Types /\ Fits /\ \A c \in Clients : OnItsWay(c)
<1> SUFFICES ASSUME Init PROVE Types /\ Fits /\ \A c \in Clients : OnItsWay(c)
  OBVIOUS
<1>1. Mode0 \in Modes /\ Mode0 \in Sizes /\ MaxDrags \in Nat
  BY ResizeAssumption
<1>2. Types
  BY <1>1 DEF Init, Types, Statuses
<1>3. Fits
  BY <1>1 DEF Init, Fits, Sizes
<1>4. \A c \in Clients : OnItsWay(c)
  BY DEF Init, OnItsWay
<1>5. QED
  BY <1>2, <1>3, <1>4

-----------------------------------------------------------------------------
(* One lemma per action. *)

Stays == Types' /\ Fits' /\ \A c \in Clients : OnItsWay(c) => OnItsWay(c)'

\* What no client's announcements depend on.
LEMMA Elsewhere ==
  ASSUME UNCHANGED <<size, supports, overwritten, pending, updates, screen>>
  PROVE  \A c \in Clients : OnItsWay(c) => OnItsWay(c)'
BY DEF OnItsWay

LEMMA OneOther ==
  ASSUME NEW d \in Clients, size' = size, supports'[d] = supports[d],
         overwritten'[d] = overwritten[d], pending'[d] = pending[d],
         updates'[d] = updates[d], screen'[d] = screen[d]
  PROVE  OnItsWay(d) => OnItsWay(d)'
BY DEF OnItsWay

LEMMA DragStays ==
  ASSUME Types, Fits, NEW c \in Clients, NEW s \in Windows, Drag(c, s)
  PROVE  Stays
<1>1. s \in Sizes /\ MaxDrags \in Nat
  BY ResizeAssumption
<1>2. /\ window' = [window EXCEPT ![c] = s]
      /\ events' \in [Clients -> Seq(Sizes)]
  BY <1>1 DEF Drag, Configured, Types
<1>3. Types'
  BY <1>1, <1>2 DEF Drag, Types, clientVars, netVars
<1>4. Fits'
  BY <1>2 DEF Drag, Types, Fits
<1>5. UNCHANGED <<size, supports, overwritten, pending, updates, screen>>
  BY DEF Drag, clientVars, netVars
<1>6. QED
  BY <1>3, <1>4, <1>5, Elsewhere DEF Stays

LEMMA OnConfigureStays ==
  ASSUME Types, Fits, NEW c \in Clients, OnConfigure(c)
  PROVE  Stays
<1>1. events[c] # <<>> /\ events[c] \in Seq(Sizes)
  BY DEF OnConfigure, Types
<1>2. Head(events[c]) \in Sizes /\ Tail(events[c]) \in Seq(Sizes)
  BY <1>1
<1>3. /\ events' = [events EXCEPT ![c] = Tail(@)]
      /\ \/ /\ timer' = [timer EXCEPT ![c] = TRUE]
            /\ pending_resize' = [pending_resize EXCEPT ![c] = Head(events[c])]
         \/ UNCHANGED <<timer, pending_resize>>
      /\ UNCHANGED <<size, clientVars, netVars, screen, window, least, idle, drags>>
  BY DEF OnConfigure
<1>4. Types'
  BY <1>2, <1>3 DEF Types, clientVars, netVars
<1>5. Fits'
  BY <1>3 DEF Fits
<1>6. UNCHANGED <<size, supports, overwritten, pending, updates, screen>>
  BY <1>3 DEF clientVars, netVars
<1>7. QED
  BY <1>4, <1>5, <1>6, Elsewhere DEF Stays

LEMMA DebounceStays ==
  ASSUME Types, Fits, NEW c \in Clients, DebounceTimeout(c)
  PROVE  Stays
<1>1. Types'
  BY DEF Types, DebounceTimeout, clientVars
<1>2. Fits'
  BY DEF Fits, DebounceTimeout
<1>3. UNCHANGED <<size, supports, overwritten, pending, updates, screen>>
  BY DEF DebounceTimeout, clientVars
<1>4. QED
  BY <1>1, <1>2, <1>3, Elsewhere DEF Stays

LEMMA ApplyStays ==
  ASSUME Types, Fits, NEW c \in Clients, ApplyRemoteDesktopSize(c)
  PROVE  Stays
<1>1. screen[c] \in Sizes
  BY ResizeAssumption DEF Types
<1>2. /\ window' = [window EXCEPT ![c] = screen[c]]
      /\ events' \in [Clients -> Seq(Sizes)]
  BY <1>1 DEF ApplyRemoteDesktopSize, Configured, Types
<1>3. Types'
  BY <1>1, <1>2 DEF ApplyRemoteDesktopSize, Types, clientVars, netVars
<1>4. Fits'
  <2> SUFFICES ASSUME NEW d \in Clients
               PROVE  window'[d].w >= least'[d].w /\ window'[d].h >= least'[d].h
    BY DEF Fits
  <2>1. least' = [least EXCEPT ![c] = screen[c]]
    BY DEF ApplyRemoteDesktopSize
  <2>2. CASE d = c
    <3>1. window'[c] = screen[c] /\ least'[c] = screen[c]
      BY <1>2, <2>1 DEF Types
    <3>2. screen[c].w \in Nat /\ screen[c].h \in Nat
      BY <1>1 DEF Sizes
    <3>3. QED
      BY <2>2, <3>1, <3>2
  <2>3. CASE d # c
    <3>1. window'[d] = window[d] /\ least'[d] = least[d]
      BY <1>2, <2>1, <2>3 DEF Types
    <3>2. QED
      BY <3>1 DEF Fits
  <2>4. QED
    BY <2>2, <2>3
<1>5. UNCHANGED <<size, supports, overwritten, pending, updates, screen>>
  BY DEF ApplyRemoteDesktopSize, clientVars, netVars
<1>6. QED
  BY <1>3, <1>4, <1>5, Elsewhere DEF Stays

\* Reading takes the first announcement; what it says is shown.
LEMMA ReadSizeStays ==
  ASSUME Types, Fits, NEW c \in Clients, ReadSize(c)
  PROVE  Stays
<1> DEFINE ups == updates[c]
           u == Head(ups)
           rest == Tail(ups)
<1>1. ups # <<>> /\ ups \in Seq(Announcement)
  BY DEF ReadSize, Types
<1>2. /\ u \in Announcement /\ rest \in Seq(Announcement)
      /\ u = ups[1] /\ 1 \in DOMAIN ups
      /\ Len(rest) = Len(ups) - 1 /\ Len(ups) \in Nat \ {0}
      /\ \A i \in 1..Len(ups) - 1 : rest[i] = ups[i + 1]
      /\ DOMAIN ups = 1..Len(ups) /\ DOMAIN rest = 1..Len(ups) - 1
  BY <1>1
<1>3. /\ updates' = [updates EXCEPT ![c] = rest]
      /\ \/ /\ u.status = "success" /\ u.size # screen[c]
            /\ screen' = [screen EXCEPT ![c] = u.size]
            /\ idle' = [idle EXCEPT ![c] = TRUE]
         \/ /\ ~(u.status = "success" /\ u.size # screen[c])
            /\ UNCHANGED <<screen, idle>>
      /\ UNCHANGED <<size, clientVars, requests, window, least, events, timer,
                     pending_resize, drags>>
  BY DEF ReadSize
<1> HIDE DEF u, rest
<1>4. Types'
  BY <1>2, <1>3 DEF Types, clientVars, Announcement
<1>5. Fits'
  BY <1>3 DEF Fits
<1>6. ASSUME NEW d \in Clients, OnItsWay(d) PROVE OnItsWay(d)'
  <2>1. CASE d = c
    <3>1. UNCHANGED <<size, supports, overwritten, pending>> /\ updates'[c] = rest
      BY <1>3 DEF clientVars, Types
    <3>2. screen'[c] = IF u.status = "success" THEN u.size ELSE screen[c]
      BY <1>3 DEF Types
    <3>3. OnlyThat(ups, size) => OnlyThat(rest, size)
      <4> SUFFICES ASSUME OnlyThat(ups, size), NEW k \in DOMAIN rest,
                          rest[k].status = "success"
                   PROVE  rest[k].size = size
        BY DEF OnlyThat, ToSet
      <4>1. rest[k] = ups[k + 1] /\ k + 1 \in DOMAIN ups
        BY <1>2
      <4>2. QED
        BY <4>1 DEF OnlyThat, ToSet
    <3>4. ASSUME screen[c] = size, OnlyThat(ups, size) PROVE screen'[c] = size
      <4>1. u \in ToSet(ups)
        BY <1>2 DEF ToSet
      <4>2. QED
        BY <3>2, <3>4, <4>1 DEF OnlyThat
    <3>5. ASSUME Underway(ups, size)
          PROVE  Underway(rest, size) \/ (screen'[c] = size /\ OnlyThat(rest, size))
      <4>1. PICK i \in DOMAIN ups :
              /\ ups[i] = [status |-> "success", size |-> size]
              /\ \A j \in i + 1..Len(ups) :
                   ups[j].status = "success" => ups[j].size = size
        BY <3>5 DEF Underway
      <4>2. CASE i = 1
        <5>1. screen'[c] = size
          BY <1>2, <3>2, <4>1, <4>2
        <5>2. ASSUME NEW k \in DOMAIN rest, rest[k].status = "success"
              PROVE  rest[k].size = size
          <6>1. rest[k] = ups[k + 1] /\ k + 1 \in i + 1..Len(ups)
            <7>1. k \in 1..Len(ups) - 1
              BY <1>2
            <7> HIDE DEF ups
            <7>2. QED
              BY <1>2, <4>2, <7>1
          <6>2. QED
            BY <4>1, <5>2, <6>1
        <5>3. OnlyThat(rest, size)
          BY <5>2 DEF OnlyThat, ToSet
        <5>4. QED
          BY <5>1, <5>3
      <4>3. CASE i # 1
        <5>1. i - 1 \in DOMAIN rest /\ rest[i - 1] = ups[i] /\ i \in Int
          BY <1>2, <4>3
        <5>2. ASSUME NEW k \in (i - 1) + 1..Len(rest), rest[k].status = "success"
              PROVE  rest[k].size = size
          <6>1. rest[k] = ups[k + 1] /\ k + 1 \in i + 1..Len(ups)
            <7> HIDE DEF ups
            <7>1. i \in 1..Len(ups) /\ i \in Int /\ Len(rest) = Len(ups) - 1
              BY <1>2
            <7>2. k \in 1..Len(ups) - 1 /\ k >= i
              BY <1>2, <7>1
            <7>3. QED
              BY <1>2, <7>1, <7>2
          <6>2. QED
            BY <4>1, <5>2, <6>1
        <5>3. Underway(rest, size)
          BY <4>1, <5>1, <5>2 DEF Underway
        <5>4. QED
          BY <5>3
      <4>4. QED
        BY <4>2, <4>3
    <3> HIDE DEF ups
    <3>6. OnItsWay(c)
      BY <1>6, <2>1
    <3>7. supports[c] /\ ~overwritten[c] =>
            \/ pending[c] = "success"
            \/ Underway(rest, size)
            \/ screen'[c] = size /\ OnlyThat(rest, size)
      BY <3>3, <3>4, <3>5, <3>6 DEF OnItsWay, ups
    <3>8. QED
      BY <2>1, <3>1, <3>7 DEF OnItsWay
  <2>2. CASE d # c
    <3>1. /\ UNCHANGED <<size, supports, overwritten, pending>>
          /\ updates'[d] = updates[d] /\ screen'[d] = screen[d]
      BY <1>3, <2>2 DEF clientVars, Types
    <3>2. QED
      BY <1>6, <3>1, OneOther
  <2>3. QED
    BY <2>1, <2>2
<1>7. QED
  BY <1>4, <1>5, <1>6 DEF Stays

LEMMA SetEncodingsStays ==
  ASSUME Types, Fits, NEW c \in Clients, SetEncodings(c)
  PROVE  Stays
<1>1. /\ supports' = [supports EXCEPT ![c] = TRUE]
      /\ pending' = [pending EXCEPT ![c] = "success"]
      /\ UNCHANGED <<size, in_step, overwritten, requests, updates, screen, window,
                     least, events, idle, timer, pending_resize, drags>>
  BY DEF SetEncodings, Announce, netVars, viewerVars
<1>2. Types'
  BY <1>1 DEF Types, Statuses
<1>3. Fits'
  BY <1>1 DEF Fits
<1>4. ASSUME NEW d \in Clients, OnItsWay(d) PROVE OnItsWay(d)'
  <2>1. CASE d = c
    <3>1. pending'[c] = "success"
      BY <1>1 DEF Types
    <3>2. QED
      BY <2>1, <3>1 DEF OnItsWay
  <2>2. CASE d # c
    <3>1. supports'[d] = supports[d] /\ pending'[d] = pending[d]
      BY <1>1, <2>2 DEF Types
    <3>2. QED
      BY <1>1, <1>4, <3>1, OneOther
  <2>3. QED
    BY <2>1, <2>2
<1>5. QED
  BY <1>2, <1>3, <1>4 DEF Stays

\* A rejection takes the one slot, and the history notes what it took it from;
\* a resize puts the new size into the slot of everyone it concerns.
LEMMA SetDesktopSizeStays ==
  ASSUME Types, Fits, NEW c \in Clients, SetDesktopSize(c)
  PROVE  Stays
<1> DEFINE r == AsRead(Head(requests[c]))
<1>1. /\ supports[c] /\ requests[c] # <<>>
      /\ requests' = [requests EXCEPT ![c] = Tail(@)]
      /\ in_step' = [in_step EXCEPT ![c] = r.screens = 1]
      /\ UNCHANGED <<supports, updates, screen, window, least, events, idle, timer,
                     pending_resize, drags>>
      /\ \/ UNCHANGED <<size, pending, overwritten>>
         \/ Rejected(c)
         \/ \E m \in ClosestModes(r) : Resized(c, m)
  BY DEF SetDesktopSize, viewerVars
<1>2. requests[c] \in Seq(Sizes)
  BY DEF Types
<1>3. requests' \in [Clients -> Seq(Sizes)]
  BY <1>1, <1>2 DEF Types
<1>4. (r.screens = 1) \in BOOLEAN
  OBVIOUS
<1> HIDE DEF r
<1>5. in_step' \in [Clients -> BOOLEAN]
  BY <1>1, <1>4 DEF Types
<1>6. Fits'
  BY <1>1 DEF Fits
<1>7. CASE UNCHANGED <<size, pending, overwritten>>
  <2>1. Types'
    BY <1>1, <1>3, <1>5, <1>7 DEF Types
  <2>2. QED
    BY <1>1, <1>6, <1>7, <2>1, Elsewhere DEF Stays
<1>8. CASE Rejected(c)
  <2>1. \E answer \in Statuses \ {"success"} : pending' = [pending EXCEPT ![c] = answer]
    <3>1. CASE AllowResize
      BY <1>8, <3>1 DEF Rejected, Statuses
    <3>2. CASE ~AllowResize
      BY <1>8, <3>2 DEF Rejected, Statuses
    <3>3. QED
      BY <3>1, <3>2
  <2>2. size' = size /\ overwritten' = [overwritten EXCEPT ![c] = @ \/ pending[c] = "success"]
    BY <1>8 DEF Rejected
  <2>3. overwritten' \in [Clients -> BOOLEAN]
    BY <2>2 DEF Types
  <2>4. pending' \in [Clients -> Statuses \cup {"none"}]
    BY <2>1 DEF Types
  <2>5. Types'
    BY <1>1, <1>3, <1>5, <2>2, <2>3, <2>4 DEF Types
  <2>6. ASSUME NEW d \in Clients, OnItsWay(d) PROVE OnItsWay(d)'
    <3>1. CASE d = c
      <4>1. overwritten'[c] <=> overwritten[c] \/ pending[c] = "success"
        BY <2>2 DEF Types
      <4>2. ASSUME supports[c], ~overwritten'[c]
            PROVE  \/ Underway(updates[c], size)
                   \/ screen[c] = size /\ OnlyThat(updates[c], size)
        BY <2>6, <3>1, <4>1, <4>2 DEF OnItsWay
      <4>3. QED
        BY <1>1, <2>2, <3>1, <4>2 DEF OnItsWay
    <3>2. CASE d # c
      <4>1. overwritten'[d] = overwritten[d] /\ pending'[d] = pending[d]
        BY <2>1, <2>2, <3>2 DEF Types
      <4>2. QED
        BY <1>1, <2>2, <2>6, <4>1, OneOther
    <3>3. QED
      BY <3>1, <3>2
  <2>7. QED
    BY <1>6, <2>5, <2>6 DEF Stays
<1>9. ASSUME NEW m \in ClosestModes(r), Resized(c, m) PROVE Stays
  <2>1. m \in Modes
    BY DEF ClosestModes
  <2>2. /\ size' = m
        /\ pending' = [d \in Clients |-> IF supports[d] \/ d = c THEN "success"
                                         ELSE pending[d]]
        /\ overwritten' = [d \in Clients |->
                             overwritten[d] /\ ~(supports[d] \/ d = c)]
    BY <1>9 DEF Resized, TellAll
  <2>3. pending' \in [Clients -> Statuses \cup {"none"}]
    BY <2>2 DEF Types, Statuses
  <2>4. overwritten' \in [Clients -> BOOLEAN]
    BY <2>2
  <2>5. Types'
    BY <1>1, <1>3, <1>5, <2>1, <2>2, <2>3, <2>4 DEF Types
  <2>6. ASSUME NEW d \in Clients PROVE OnItsWay(d)'
    <3>1. supports[d] => pending'[d] = "success"
      BY <2>2
    <3>2. QED
      BY <1>1, <3>1 DEF OnItsWay
  <2>7. QED
    BY <1>6, <2>5, <2>6 DEF Stays
<1>10. QED
  BY <1>1, <1>7, <1>8, <1>9

LEMMA SendUpdateStays ==
  ASSUME Types, Fits, NEW c \in Clients, SendUpdate(c)
  PROVE  Stays
<1> DEFINE a == [status |-> pending[c], size |-> size]
           ups == updates[c]
           more == Append(ups, a)
<1>1. /\ pending[c] # "none"
      /\ updates' = [updates EXCEPT ![c] = more]
      /\ pending' = [pending EXCEPT ![c] = "none"]
      /\ UNCHANGED <<size, supports, in_step, overwritten, requests, screen, window,
                     least, events, idle, timer, pending_resize, drags>>
  BY DEF SendUpdate, viewerVars
<1>2. a \in Announcement /\ ups \in Seq(Announcement)
  BY <1>1 DEF Types, Announcement
<1>3. a.status = pending[c] /\ a.size = size
  OBVIOUS
<1>4. /\ more \in Seq(Announcement) /\ Len(more) = Len(ups) + 1 /\ Len(ups) \in Nat
      /\ more[Len(ups) + 1] = a /\ \A i \in 1..Len(ups) : more[i] = ups[i]
      /\ DOMAIN more = 1..Len(ups) + 1 /\ DOMAIN ups = 1..Len(ups)
  <2> HIDE DEF a, ups
  <2>1. QED
    BY <1>2
<1>5. pending[c] = "success" => a = [status |-> "success", size |-> size]
  OBVIOUS
<1> HIDE DEF a, more
<1>6. Types'
  BY <1>1, <1>4 DEF Types
<1>7. Fits'
  BY <1>1 DEF Fits
<1>8. ASSUME NEW d \in Clients, OnItsWay(d) PROVE OnItsWay(d)'
  <2>1. CASE d = c
    <3>1. updates'[c] = more
      BY <1>1 DEF Types
    <3>2. ASSUME pending[c] = "success" PROVE Underway(more, size)
      <4>1. more[Len(ups) + 1] = [status |-> "success", size |-> size]
        BY <1>4, <1>5, <3>2
      <4>2. Len(ups) + 1 \in DOMAIN more /\ Len(ups) + 1 + 1..Len(more) = {}
        BY <1>4
      <4>3. QED
        BY <4>1, <4>2 DEF Underway
    <3>3. ASSUME pending[c] # "success", Underway(ups, size)
          PROVE  Underway(more, size)
      <4>1. PICK i \in DOMAIN ups :
              /\ ups[i] = [status |-> "success", size |-> size]
              /\ \A j \in i + 1..Len(ups) :
                   ups[j].status = "success" => ups[j].size = size
        BY <3>3 DEF Underway
      <4>2. i \in DOMAIN more /\ more[i] = ups[i] /\ i \in Int
        BY <1>4
      <4>3. ASSUME NEW j \in i + 1..Len(more), more[j].status = "success"
            PROVE  more[j].size = size
        <5>1. CASE j = Len(ups) + 1
          BY <1>3, <1>4, <3>3, <4>3, <5>1
        <5>2. CASE j # Len(ups) + 1
          <6>1. j \in i + 1..Len(ups) /\ more[j] = ups[j]
            BY <1>4, <4>2, <5>2
          <6>2. QED
            BY <4>1, <4>3, <6>1
        <5>3. QED
          BY <5>1, <5>2
      <4>4. QED
        BY <4>1, <4>2, <4>3 DEF Underway
    <3>4. ASSUME OnlyThat(ups, size) PROVE OnlyThat(more, size)
      <4> SUFFICES ASSUME NEW i \in DOMAIN more, more[i].status = "success"
                   PROVE  more[i].size = size
        BY DEF OnlyThat, ToSet
      <4>1. CASE i = Len(ups) + 1
        BY <1>3, <1>4, <4>1
      <4>2. CASE i # Len(ups) + 1
        <5>1. i \in DOMAIN ups /\ more[i] = ups[i]
          BY <1>4, <4>2
        <5>2. QED
          BY <3>4, <5>1 DEF OnlyThat, ToSet
      <4>3. QED
        BY <4>1, <4>2
    <3>5. supports[c] /\ ~overwritten[c] =>
            \/ Underway(more, size)
            \/ screen[c] = size /\ OnlyThat(more, size)
      BY <1>8, <2>1, <3>2, <3>3, <3>4 DEF OnItsWay
    <3>6. QED
      BY <1>1, <2>1, <3>1, <3>5 DEF OnItsWay
  <2>2. CASE d # c
    <3>1. updates'[d] = updates[d] /\ pending'[d] = pending[d]
      BY <1>1, <2>2 DEF Types
    <3>2. QED
      BY <1>1, <1>8, <3>1, OneOther
  <2>3. QED
    BY <2>1, <2>2
<1>9. QED
  BY <1>6, <1>7, <1>8 DEF Stays

-----------------------------------------------------------------------------
LEMMA StepsStay == Types /\ Fits /\ [Next]_vars => Stays
<1> SUFFICES ASSUME Types, Fits, [Next]_vars PROVE Stays
  OBVIOUS
<1>1. CASE Next
  <2>1. PICK c \in Clients : User(c) \/ Gtk(c) \/ ReadSize(c) \/ Server(c)
    BY <1>1 DEF Next
  <2>2. CASE User(c)
    BY <2>2, DragStays DEF User
  <2>3. CASE Gtk(c)
    BY <2>3, OnConfigureStays, DebounceStays, ApplyStays DEF Gtk
  <2>4. CASE ReadSize(c)
    BY <2>4, ReadSizeStays
  <2>5. CASE Server(c)
    BY <2>5, SetEncodingsStays, SetDesktopSizeStays, SendUpdateStays DEF Server
  <2>6. QED
    BY <2>1, <2>2, <2>3, <2>4, <2>5
<1>2. CASE UNCHANGED vars
  <2>1. Types' /\ Fits'
    BY <1>2 DEF Types, Fits, vars, clientVars, netVars, viewerVars
  <2>2. UNCHANGED <<size, supports, overwritten, pending, updates, screen>>
    BY <1>2 DEF vars, clientVars, netVars, viewerVars
  <2>3. QED
    BY <2>1, <2>2, Elsewhere DEF Stays
<1>3. QED
  BY <1>1, <1>2

\* A viewer that knows the encoding and does not show the desktop at its size
\* has the announcement of it pending or on the way, whatever its own requests
\* and those of others did meanwhile, unless the one slot for it was last taken
\* by a rejection (vnc_server_resize_framebuffer() and the handler of
\* SetDesktopSize, src/src/leanrfb.c; the viewer's two threads,
\* src/vncview/vncview.c); and no window is smaller than its drawing area.
THEOREM SizeIsOnItsWay == Spec => [](TypeOK /\ SizeOnItsWay)
<1> DEFINE Inv == Types /\ Fits /\ \A c \in Clients : OnItsWay(c)
<1>1. Init => Inv
  BY TypesStart
<1>2. Inv /\ [Next]_vars => Inv'
  <2> SUFFICES ASSUME Inv, [Next]_vars PROVE Inv'
    OBVIOUS
  <2>1. Types' /\ Fits' /\ \A c \in Clients : OnItsWay(c)'
    BY StepsStay DEF Stays
  <2>2. QED
    BY <2>1
<1>3. Inv => TypeOK /\ SizeOnItsWay
  BY TypesGive, WayGives
<1>4. QED
  BY <1>1, <1>2, <1>3, PTL DEF Spec

-----------------------------------------------------------------------------
(***************************************************************************)
(* As long as it is the server that ends the sessions, the viewer's two    *)
(* threads take turns, though no lock makes them: a session is in one of   *)
(* five phases, and in each of them one thread owns the descriptor, the    *)
(* decoder, the audio stream and the window.                               *)
(***************************************************************************)

USE ThreadsAssumption DEF Sessions, Fds, None

\* What a network thread is in once it has its descriptor, until it has
\* closed it.
Working == {"loop", "poll", "recv", "lock", "rows", "reset", "decode", "play",
            "end", "exit", "forget", "close"}

\* The one connection that is open is this session's, behind f.
Holds(f) ==
  f \in Fds /\ \A g \in Fds : files[g] = IF g = f THEN session ELSE None
NothingOpen == vnc_fd = None /\ \A g \in Fds : files[g] = None

Others == \A s \in Sessions \ {session} : pc[s] \in {"none", "done"}

InMain ==
  /\ gtk = "loop" /\ main_window /\ viewer_window = None /\ idles = <<>>
  /\ NothingOpen
  /\ \A s \in Sessions : pc[s] \in {"none", "done"}

Shaking ==
  /\ gtk = "handshake" /\ main_window /\ viewer_window = None /\ idles = <<>>
  /\ session \in Sessions \ destroyed /\ pc[session] = "none"
  /\ Holds(vnc_fd)

Running ==
  /\ gtk \in {"loop", "drawing"} /\ ~main_window /\ viewer_window = session
  /\ session \in Sessions \ destroyed
  /\ idles = <<>>
  /\ \/ pc[session] = "start" /\ Holds(vnc_fd)
     \/ /\ pc[session] \in Working /\ Holds(fd[session])
        /\ pc[session] = "close" => vnc_fd = None
     \/ pc[session] = "queue" /\ NothingOpen

Over ==
  /\ gtk \in {"loop", "drawing"} /\ ~main_window /\ viewer_window = session
  /\ session \in Sessions \ destroyed
  /\ idles = <<session>>
  /\ pc[session] = "done" /\ NothingOpen

Going ==
  /\ gtk \in {"destroy", "free", "free_audio"}
  /\ ~main_window /\ viewer_window = session
  /\ session \in Sessions /\ idles = <<>>
  /\ pc[session] = "done" /\ NothingOpen

Orderly ==
  /\ InMain \/ Shaking \/ Running \/ Over \/ Going
  /\ Others /\ destroyed \subseteq 1..session
  /\ \A s \in Sessions : s > session => pc[s] = "none"
  /\ stale = {} /\ ~misclosed
  /\ audio_playback = "freed" <=> \E s \in Sessions : pc[s] = "end"

ThreadsInv == ThreadsTypeOK /\ (closes = 0 => Orderly)

-----------------------------------------------------------------------------
(* Types. *)

Places == {"none", "start", "loop", "poll", "recv", "lock", "rows", "reset",
           "decode", "play", "end", "exit", "forget", "close", "queue", "done"}

LEMMA WindowTyped == ASSUME ThreadsTypeOK, Window PROVE ThreadsTypeOK'
<1> USE DEF ThreadsTypeOK, GtkGoes, windowVars, mediaVars, fdVars, ioVars
<1>1. CASE Connect
  BY <1>1 DEF Connect
<1>2. CASE HandshakeFails
  BY <1>2 DEF HandshakeFails, Close
<1>3. CASE HandshakeDone
  <2>1. pc' \in [Sessions -> Places]
    BY <1>3 DEF HandshakeDone, Places
  <2>2. viewer_window' \in Sessions \cup {None}
    BY <1>3 DEF HandshakeDone
  <2>3. QED
    BY <1>3, <2>1, <2>2 DEF HandshakeDone, Places
<1>4. CASE OnDraw
  BY <1>4 DEF OnDraw
<1>5. CASE UserCloses
  <2>1. destroyed' \subseteq Sessions /\ closes' \in 0..MaxCloses
    <3>1. /\ viewer_window \in Sessions /\ destroyed \subseteq Sessions
          /\ closes \in 0..MaxCloses /\ closes < MaxCloses
          /\ closes' = closes + 1 /\ destroyed' = destroyed \cup {viewer_window}
      BY <1>5 DEF UserCloses, Destroy
    <3> HIDE DEF ThreadsTypeOK
    <3>2. QED
      BY <3>1
  <2>2. QED
    BY <1>5, <2>1 DEF UserCloses, Destroy
<1>6. QED
  BY <1>1, <1>2, <1>3, <1>4, <1>5 DEF Window

LEMMA ShutdownTyped == ASSUME ThreadsTypeOK, Shutdown PROVE ThreadsTypeOK'
<1> USE DEF ThreadsTypeOK, GtkGoes, windowVars, mediaVars, fdVars, ioVars
<1>1. CASE DestroyWidgetIdle
  <2>1. Head(idles) \in Sessions /\ idles' \in Seq(Sessions)
    BY <1>1 DEF DestroyWidgetIdle
  <2>2. /\ UNCHANGED <<session, closes, vnc_fd, viewer_window, main_window, files,
                       backbuffer_mutex, ended, pc, fd, reads, decoder,
                       audio_playback, misclosed>>
        /\ gtk' \in {"loop", "destroy"}
        /\ client_running' \in {client_running, FALSE}
        /\ stale' \subseteq stale \cup {"window"}
    BY <1>1 DEF DestroyWidgetIdle, Destroy, Stale
  <2>3. destroyed' \subseteq Sessions
    BY <1>1, <2>1 DEF DestroyWidgetIdle, Destroy
  <2>4. QED
    BY <2>1, <2>2, <2>3
<1>2. CASE DestroyClosesFd
  BY <1>2 DEF DestroyClosesFd, Close
<1>3. CASE DestroyFreesDecoder
  BY <1>3 DEF DestroyFreesDecoder, Stale, Pointer
<1>4. CASE DestroyFreesAudio
  BY <1>4 DEF DestroyFreesAudio, Stale, Pointer
<1>5. QED
  BY <1>1, <1>2, <1>3, <1>4 DEF Shutdown

(* What the steps of a thread have in common. *)
LEMMA ThreadTyped ==
  ASSUME ThreadsTypeOK, NEW s \in Sessions, NEW from, NEW to \in Places,
         Thread(s, from, to)
  PROVE  /\ pc' \in [Sessions -> Places]
         /\ UNCHANGED <<session, closes, gtk, main_window, viewer_window, destroyed,
                        ended>>
BY DEF Thread, ThreadsTypeOK, Places, windowVars

LEMMA ReadsTyped ==
  ASSUME ThreadsTypeOK, NEW s \in Sessions, NEW from, NEW to \in Places,
         Reads(s, from, to),
         fd' \in [Sessions -> Fds \cup {None}],
         reads' \in [Sessions -> Sessions \cup {None}],
         backbuffer_mutex' \in Sessions \cup {None}
  PROVE  ThreadsTypeOK'
<1>1. Thread(s, from, to) /\ UNCHANGED <<mediaVars, fdVars, idles>>
  BY DEF Reads
<1>2. /\ pc' \in [Sessions -> Places]
      /\ UNCHANGED <<session, closes, gtk, main_window, viewer_window, destroyed,
                     ended, idles, decoder, audio_playback, stale, vnc_fd,
                     client_running, files, misclosed>>
  BY <1>1, ThreadTyped DEF mediaVars, fdVars
<1>3. QED
  BY <1>2 DEF ThreadsTypeOK, Places

LEMMA MediaTyped ==
  ASSUME ThreadsTypeOK, NEW s \in Sessions, NEW from, NEW to \in Places,
         Media(s, from, to), {decoder', audio_playback'} \subseteq Pointer,
         stale' \subseteq {"decoder", "audio", "window"}
  PROVE  ThreadsTypeOK'
<1>1. Thread(s, from, to) /\ UNCHANGED <<fdVars, ioVars, idles>>
  BY DEF Media
<1>2. /\ pc' \in [Sessions -> Places]
      /\ UNCHANGED <<session, closes, gtk, main_window, viewer_window, destroyed,
                     ended, idles, vnc_fd, client_running, files, misclosed,
                     fd, reads, backbuffer_mutex>>
  BY <1>1, ThreadTyped DEF ioVars, fdVars
<1>3. QED
  BY <1>2 DEF ThreadsTypeOK, Places

LEMMA EndsTyped ==
  ASSUME ThreadsTypeOK, NEW s \in Sessions, NEW from, NEW to \in Places,
         Ends(s, from, to),
         client_running' \in BOOLEAN, vnc_fd' \in Sessions \cup {None},
         files' \in [Fds -> Sessions \cup {None}], misclosed' \in BOOLEAN,
         idles' \in Seq(Sessions)
  PROVE  ThreadsTypeOK'
<1>1. Thread(s, from, to) /\ UNCHANGED <<mediaVars, ioVars>>
  BY DEF Ends
<1>2. /\ pc' \in [Sessions -> Places]
      /\ UNCHANGED <<session, closes, gtk, main_window, viewer_window, destroyed,
                     ended, decoder, audio_playback, stale, fd, reads,
                     backbuffer_mutex>>
  BY <1>1, ThreadTyped DEF ioVars, mediaVars
<1>3. QED
  BY <1>2 DEF ThreadsTypeOK, Places

LEMMA BehindTyped ==
  ASSUME ThreadsTypeOK, NEW f \in Fds \cup {None}
  PROVE  Behind(f) \in Sessions \cup {None}
BY DEF Behind, ThreadsTypeOK

LEMMA StepTyped ==
  ASSUME ThreadsTypeOK, NEW s \in Sessions, NEW from, NEW to \in Places,
         Step(s, from, to)
  PROVE  ThreadsTypeOK'
BY MediaTyped DEF Step, Media, mediaVars, ThreadsTypeOK

LEMMA MessageTyped ==
  ASSUME ThreadsTypeOK, NEW s \in Sessions, Message(s)
  PROVE  ThreadsTypeOK'
<1> USE StepTyped, MediaTyped DEF Places
<1>1. CASE OtherMessage(s) \/ RawRect(s) \/ DeltaFrame(s)
  <2>1. \E to \in {"loop", "lock", "decode"} : Step(s, "recv", to)
    BY <1>1 DEF OtherMessage, RawRect, DeltaFrame
  <2>2. QED
    BY <2>1
<1>2. {decoder, audio_playback} \subseteq Pointer
  BY DEF ThreadsTypeOK
<1>3. ASSUME NEW o \in {"decoder", "audio", "window"}, NEW bad, Stale(o, bad)
      PROVE  stale' \subseteq {"decoder", "audio", "window"}
  BY <1>3 DEF Stale, ThreadsTypeOK
<1>4. CASE Keyframe(s)
  <2>1. /\ Media(s, "recv", "reset") /\ decoder' = "none"
        /\ audio_playback' = audio_playback
    BY <1>4 DEF Keyframe
  <2>2. stale' \subseteq {"decoder", "audio", "window"}
    BY <1>4, <1>3 DEF Keyframe
  <2>3. QED
    BY <1>2, <2>1, <2>2 DEF Pointer
<1>5. CASE OnAudioBegin(s)
  <2>1. /\ Media(s, "recv", "loop") /\ decoder' = decoder /\ stale' = stale
        /\ audio_playback' \in {audio_playback, "live"}
    BY <1>5 DEF OnAudioBegin
  <2>2. QED
    BY <1>2, <2>1 DEF Pointer, ThreadsTypeOK
<1>6. CASE OnAudioData(s)
  <2>1. /\ \E to \in {"loop", "play"} : Media(s, "recv", to)
        /\ UNCHANGED <<decoder, audio_playback>>
    BY <1>6 DEF OnAudioData
  <2>2. stale' \subseteq {"decoder", "audio", "window"}
    BY <1>6, <1>3 DEF OnAudioData
  <2>3. QED
    BY <1>2, <2>1, <2>2
<1>7. CASE OnAudioEnd(s)
  <2>1. CASE Step(s, "recv", "loop")
    BY <2>1
  <2>2. CASE ~Step(s, "recv", "loop")
    <3>1. /\ Media(s, "recv", "end") /\ audio_playback' = "freed"
          /\ decoder' = decoder
      BY <1>7, <2>2 DEF OnAudioEnd
    <3>2. stale' \subseteq {"decoder", "audio", "window"}
      BY <1>7, <2>2, <1>3 DEF OnAudioEnd
    <3>3. QED
      BY <1>2, <3>1, <3>2 DEF Pointer
  <2>3. QED
    BY <2>1, <2>2
<1>8. QED
  BY <1>1, <1>4, <1>5, <1>6, <1>7 DEF Message

LEMMA ProceedsTyped ==
  ASSUME ThreadsTypeOK, NEW s \in Sessions, Proceeds(s) \/ ReadsRows(s)
  PROVE  ThreadsTypeOK'
<1> USE StepTyped, MediaTyped DEF Places
<1>1. /\ fd \in [Sessions -> Fds \cup {None}]
      /\ reads \in [Sessions -> Sessions \cup {None}]
      /\ vnc_fd \in Fds \cup {None} /\ backbuffer_mutex \in Sessions \cup {None}
      /\ {decoder, audio_playback} \subseteq Pointer
      /\ stale \subseteq {"decoder", "audio", "window"}
      /\ files \in [Fds -> Sessions \cup {None}] /\ misclosed \in BOOLEAN
      /\ idles \in Seq(Sessions) /\ client_running \in BOOLEAN
      /\ viewer_window \in Sessions \cup {None}
  BY DEF ThreadsTypeOK
<1>2. ASSUME CallsRecv(s) PROVE reads' \in [Sessions -> Sessions \cup {None}]
  <2>1. Behind(fd[s]) \in Sessions \cup {None}
    BY <1>1, BehindTyped
  <2>2. QED
    BY <1>1, <1>2, <2>1 DEF CallsRecv
<1>3. CASE Starts(s)
  <2>1. /\ fd' \in [Sessions -> Fds \cup {None}]
        /\ UNCHANGED <<reads, backbuffer_mutex>> /\ Reads(s, "start", "loop")
    BY <1>1, <1>3 DEF Starts
  <2>2. QED
    BY <1>1, <2>1, ReadsTyped
<1>4. CASE Loops(s)
  <2>1. \E to \in {"poll", "exit"} : Step(s, "loop", to)
    BY <1>4 DEF Loops
  <2>2. QED
    BY <2>1
<1>5. CASE Polls(s)
  <2>1. CASE Step(s, "poll", "loop")
    BY <2>1
  <2>2. CASE /\ Reads(s, "poll", "recv") /\ CallsRecv(s)
             /\ UNCHANGED <<fd, backbuffer_mutex>>
    BY <1>1, <1>2, <2>2, ReadsTyped
  <2>3. QED
    BY <1>5, <2>1, <2>2 DEF Polls
<1>6. CASE RecvFails(s) \/ DecodeVideo(s) \/ AudioWritten(s)
  BY <1>6 DEF RecvFails, DecodeVideo, AudioWritten
<1>7. CASE LocksBackbuffer(s)
  BY <1>1, <1>2, <1>7, ReadsTyped DEF LocksBackbuffer
<1>8. CASE ResetDecoder(s)
  BY <1>1, <1>8 DEF ResetDecoder, Pointer
<1>9. CASE ForgetsAudio(s)
  BY <1>1, <1>9 DEF ForgetsAudio, Pointer
<1>10. CASE StopsRunning(s)
  BY <1>1, <1>10, EndsTyped DEF StopsRunning
<1>11. CASE ForgetsFd(s)
  BY <1>1, <1>11, EndsTyped DEF ForgetsFd
<1>12. CASE ClosesFd(s)
  <2>1. /\ Ends(s, "close", "queue") /\ UNCHANGED <<vnc_fd, client_running, idles>>
        /\ files' \in [Fds -> Sessions \cup {None}] /\ misclosed' \in BOOLEAN
    BY <1>1, <1>12 DEF ClosesFd, Close
  <2>2. QED
    BY <1>1, <2>1, EndsTyped
<1>13. CASE QueuesDestroy(s)
  <2>1. /\ Ends(s, "queue", "done")
        /\ UNCHANGED <<vnc_fd, client_running, files, misclosed>>
        /\ idles' \in {idles, Append(idles, viewer_window)}
        /\ viewer_window = None => idles' = idles
    BY <1>13 DEF QueuesDestroy, fdVars
  <2>2. idles' \in Seq(Sessions)
    <3>1. CASE viewer_window = None
      BY <1>1, <2>1, <3>1
    <3>2. CASE viewer_window # None
      <4>1. Append(idles, viewer_window) \in Seq(Sessions)
        BY <1>1, <3>2
      <4>2. QED
        BY <1>1, <2>1, <4>1, Zenon
    <3>3. QED
      BY <3>1, <3>2
  <2>3. QED
    BY <1>1, <2>1, <2>2, EndsTyped
<1>14. CASE ReadsRows(s)
  <2>1. /\ \E to \in {"loop", "exit"} : Reads(s, "rows", to)
        /\ backbuffer_mutex' = None /\ UNCHANGED <<fd, reads>>
    BY <1>14 DEF ReadsRows, Unlocks
  <2>2. QED
    BY <1>1, <2>1, ReadsTyped
<1>15. QED
  BY <1>3, <1>4, <1>5, <1>6, <1>7, <1>8, <1>9, <1>10, <1>11, <1>12, <1>13, <1>14
     DEF Proceeds

-----------------------------------------------------------------------------
(* The turns that the threads take. *)

LEMMA WhoRuns ==
  ASSUME Orderly, NEW s \in Sessions, pc[s] \notin {"none", "done"}
  PROVE  Running /\ s = session
BY DEF Orderly, InMain, Shaking, Running, Over, Going, Others

(* Nothing that is about turns changes, for one session's thread.           *)
SameTurns ==
  UNCHANGED <<session, gtk, main_window, viewer_window, destroyed, idles,
              vnc_fd, files, fd, stale, misclosed>>

(* A thread that works keeps its descriptor.                               *)
LEMMA WorksOn ==
  ASSUME ThreadsTypeOK, Orderly, NEW s \in Sessions,
         NEW to \in Working \ {"close"},
         pc[s] \in Working \ {"close"}, pc' = [pc EXCEPT ![s] = to],
         SameTurns, audio_playback' = "freed" <=> to = "end"
  PROVE  Orderly'
<1>1. Running /\ s = session
  BY WhoRuns DEF Working
<1>2. pc'[s] = to /\ \A r \in Sessions \ {s} : pc'[r] = pc[r]
  BY DEF ThreadsTypeOK
<1>3. Running'
  <2>1. Holds(fd[session])
    BY <1>1 DEF Running, Working
  <2>2. Holds(fd[session])'
    BY <2>1 DEF Holds, SameTurns
  <2>3. QED
    BY <1>1, <1>2, <2>2 DEF Running, SameTurns
<1>4. Others'
  BY <1>1, <1>2 DEF Orderly, Others, SameTurns
<1>5. (\A r \in Sessions : r > session => pc[r] = "none")'
  BY <1>1, <1>2 DEF Orderly, SameTurns
<1>6. (audio_playback = "freed" <=> \E r \in Sessions : pc[r] = "end")'
  BY <1>1, <1>2, <1>4 DEF Others, SameTurns
<1>7. QED
  BY <1>3, <1>4, <1>5, <1>6 DEF Orderly, SameTurns

LEMMA MediaTurns ==
  ASSUME NEW s, NEW from, NEW to, Media(s, from, to), stale' = stale
  PROVE  SameTurns /\ pc[s] = from /\ pc' = [pc EXCEPT ![s] = to]
BY DEF Media, Thread, SameTurns, windowVars, fdVars, ioVars

LEMMA StepTurns ==
  ASSUME NEW s, NEW from, NEW to, Step(s, from, to)
  PROVE  /\ SameTurns /\ pc[s] = from /\ pc' = [pc EXCEPT ![s] = to]
         /\ UNCHANGED <<decoder, audio_playback>>
BY MediaTurns DEF Step, mediaVars

LEMMA ReadsTurns ==
  ASSUME NEW s, NEW from, NEW to, Reads(s, from, to), fd' = fd
  PROVE  /\ SameTurns /\ pc[s] = from /\ pc' = [pc EXCEPT ![s] = to]
         /\ UNCHANGED <<decoder, audio_playback>>
BY DEF Reads, Thread, SameTurns, windowVars, fdVars, mediaVars

(* The stream is freed only while its thread forgets it, and no other      *)
(* thread is in the middle of using anything.                              *)
LEMMA OwnMedia ==
  ASSUME Orderly, NEW s \in Sessions, pc[s] \in Working
  PROVE  /\ pc[s] # "end" => audio_playback # "freed"
         /\ \A r \in Sessions \ {s} : ~UsesDecoder(r) /\ ~UsesAudio(r)
<1>1. s = session
  BY WhoRuns DEF Working
<1>2. \A r \in Sessions \ {s} : pc[r] \in {"none", "done"}
  BY <1>1 DEF Orderly, Others
<1>3. QED
  BY <1>2 DEF Orderly, UsesDecoder, UsesAudio

LEMMA MessageTurns ==
  ASSUME ThreadsTypeOK, Orderly, NEW s \in Sessions, Message(s)
  PROVE  Orderly'
<1>1. pc[s] = "recv"
  BY DEF Message, OtherMessage, RawRect, Keyframe, DeltaFrame, OnAudioBegin,
         OnAudioData, OnAudioEnd, Step, Media, Thread
<1>2. /\ pc[s] \in Working \ {"close"} /\ audio_playback # "freed"
      /\ \A r \in Sessions \ {s} : ~UsesDecoder(r) /\ ~UsesAudio(r)
  BY <1>1, OwnMedia DEF Working
<1>3. ASSUME NEW to \in {"loop", "lock", "decode"}, Step(s, "recv", to)
      PROVE  Orderly'
  <2>1. to \in Working \ {"close"} /\ to # "end"
    BY DEF Working
  <2>2. QED
    BY <1>2, <1>3, <2>1, StepTurns, WorksOn
<1>4. ASSUME NEW to \in {"loop", "reset", "play", "end"}, Media(s, "recv", to),
             stale' = stale, audio_playback' = "freed" <=> to = "end"
      PROVE  Orderly'
  <2>1. to \in Working \ {"close"}
    BY DEF Working
  <2>2. QED
    BY <1>2, <1>4, <2>1, MediaTurns, WorksOn
<1>5. CASE OtherMessage(s) \/ RawRect(s) \/ DeltaFrame(s)
  BY <1>3, <1>5 DEF OtherMessage, RawRect, DeltaFrame
<1>6. CASE Keyframe(s)
  BY <1>2, <1>4, <1>6 DEF Keyframe, Stale
<1>7. CASE OnAudioBegin(s)
  BY <1>2, <1>4, <1>7 DEF OnAudioBegin
<1>8. CASE OnAudioData(s)
  BY <1>2, <1>4, <1>8 DEF OnAudioData, Stale
<1>9. CASE OnAudioEnd(s)
  BY <1>2, <1>3, <1>4, <1>9 DEF OnAudioEnd, Stale
<1>10. QED
  BY <1>5, <1>6, <1>7, <1>8, <1>9 DEF Message

LEMMA ReadingTurns ==
  ASSUME ThreadsTypeOK, Orderly, NEW s \in Sessions,
         \/ Loops(s) \/ Polls(s) \/ RecvFails(s) \/ LocksBackbuffer(s)
         \/ ResetDecoder(s) \/ DecodeVideo(s) \/ AudioWritten(s)
         \/ ForgetsAudio(s) \/ StopsRunning(s) \/ ReadsRows(s)
  PROVE  Orderly'
<1> DEFINE inner == Working \ {"close", "end"}
<1>1. ASSUME SameTurns, pc[s] \in inner, audio_playback' = audio_playback,
             \E to \in inner : pc' = [pc EXCEPT ![s] = to]
      PROVE  Orderly'
  <2>1. PICK to \in inner : pc' = [pc EXCEPT ![s] = to]
    BY <1>1
  <2>2. audio_playback # "freed"
    BY <1>1, OwnMedia
  <2>3. QED
    BY <1>1, <2>1, <2>2, WorksOn
<1>2. {"loop", "poll", "exit", "recv", "lock", "rows", "decode", "play"} \subseteq inner
  BY DEF Working
<1> HIDE DEF inner
<1>3. CASE \/ Loops(s) \/ RecvFails(s) \/ DecodeVideo(s) \/ AudioWritten(s)
           \/ Polls(s) \/ LocksBackbuffer(s) \/ ReadsRows(s)
  <2>1. ASSUME NEW from \in inner, NEW to \in inner,
               Step(s, from, to) \/ (Reads(s, from, to) /\ fd' = fd)
        PROVE  Orderly'
    BY <1>1, <2>1, StepTurns, ReadsTurns
  <2>2. CASE Loops(s)
    <3>1. Step(s, "loop", "poll") \/ Step(s, "loop", "exit")
      BY <2>2 DEF Loops
    <3>2. QED
      BY <1>2, <2>1, <3>1
  <2>3. CASE RecvFails(s)
    <3>1. Step(s, "recv", "exit")
      BY <2>3 DEF RecvFails
    <3>2. QED
      BY <1>2, <2>1, <3>1
  <2>4. CASE DecodeVideo(s)
    <3>1. Step(s, "decode", "loop")
      BY <2>4 DEF DecodeVideo
    <3>2. QED
      BY <1>2, <2>1, <3>1
  <2>5. CASE AudioWritten(s)
    <3>1. Step(s, "play", "loop")
      BY <2>5 DEF AudioWritten
    <3>2. QED
      BY <1>2, <2>1, <3>1
  <2>6. CASE Polls(s)
    <3>1. Step(s, "poll", "loop") \/ (Reads(s, "poll", "recv") /\ fd' = fd)
      BY <2>6 DEF Polls
    <3>2. QED
      BY <1>2, <2>1, <3>1
  <2>7. CASE LocksBackbuffer(s)
    <3>1. Reads(s, "lock", "rows") /\ fd' = fd
      BY <2>7 DEF LocksBackbuffer
    <3>2. QED
      BY <1>2, <2>1, <3>1
  <2>8. CASE ReadsRows(s)
    <3>1. /\ Reads(s, "rows", "loop") \/ Reads(s, "rows", "exit")
          /\ fd' = fd
      BY <2>8 DEF ReadsRows
    <3>2. QED
      BY <1>2, <2>1, <3>1
  <2>9. QED
    BY <1>3, <2>2, <2>3, <2>4, <2>5, <2>6, <2>7, <2>8
<1>4. CASE ResetDecoder(s)
  <2>1. /\ SameTurns /\ pc[s] = "reset" /\ pc' = [pc EXCEPT ![s] = "decode"]
        /\ audio_playback' = audio_playback
    BY <1>4, MediaTurns DEF ResetDecoder
  <2>2. audio_playback # "freed"
    BY <2>1, OwnMedia DEF Working
  <2>3. QED
    BY <2>1, <2>2, WorksOn DEF Working
<1>5. CASE ForgetsAudio(s)
  <2>1. /\ SameTurns /\ pc[s] = "end" /\ pc' = [pc EXCEPT ![s] = "loop"]
        /\ audio_playback' = "none"
    BY <1>5, MediaTurns DEF ForgetsAudio
  <2>2. QED
    BY <2>1, WorksOn DEF Working
<1>6. CASE StopsRunning(s)
  <2>1. /\ SameTurns /\ pc[s] = "exit" /\ pc' = [pc EXCEPT ![s] = "forget"]
        /\ audio_playback' = audio_playback
    BY <1>6 DEF StopsRunning, Ends, Thread, SameTurns, windowVars, mediaVars, ioVars
  <2>2. audio_playback # "freed"
    BY <2>1, OwnMedia DEF Working
  <2>3. QED
    BY <2>1, <2>2, WorksOn DEF Working
<1>7. QED
  BY <1>3, <1>4, <1>5, <1>6

(* The thread that starts takes over the descriptor of the handshake.       *)
LEMMA StartsTurns ==
  ASSUME ThreadsTypeOK, Orderly, NEW s \in Sessions, Starts(s)
  PROVE  Orderly'
<1>1. /\ pc[s] = "start" /\ pc' = [pc EXCEPT ![s] = "loop"]
      /\ fd' = [fd EXCEPT ![s] = vnc_fd]
      /\ UNCHANGED <<session, gtk, main_window, viewer_window, destroyed, idles,
                     vnc_fd, files, stale, misclosed, audio_playback>>
  BY DEF Starts, Reads, Thread, windowVars, fdVars, mediaVars
<1>2. Running /\ s = session
  BY <1>1, WhoRuns
<1>3. Holds(vnc_fd)
  BY <1>1, <1>2 DEF Running, Working
<1>4. pc'[s] = "loop" /\ fd'[s] = vnc_fd /\ \A r \in Sessions \ {s} : pc'[r] = pc[r]
  BY <1>1 DEF ThreadsTypeOK
<1>5. Holds(fd[session])'
  BY <1>1, <1>2, <1>3, <1>4 DEF Holds
<1>6. Running'
  BY <1>1, <1>2, <1>4, <1>5 DEF Running, Working
<1>7. Others'
  BY <1>1, <1>2, <1>4 DEF Orderly, Others
<1>8. (\A r \in Sessions : r > session => pc[r] = "none")'
  BY <1>1, <1>2, <1>4 DEF Orderly
<1>9. (audio_playback = "freed" <=> \E r \in Sessions : pc[r] = "end")'
  BY <1>1, <1>4 DEF Orderly
<1>10. QED
  BY <1>1, <1>6, <1>7, <1>8, <1>9 DEF Orderly

(* The end of a thread: it forgets the descriptor, closes it, and leaves    *)
(* its window to GTK.                                                       *)
LEMMA EndTurns ==
  ASSUME ThreadsTypeOK, Orderly, NEW s \in Sessions,
         ForgetsFd(s) \/ ClosesFd(s) \/ QueuesDestroy(s)
  PROVE  Orderly'
<1>1. /\ pc[s] \in {"forget", "close", "queue"}
      /\ \E to \in {"close", "queue", "done"} :
           pc' = [pc EXCEPT ![s] = to] /\ to # "end"
      /\ UNCHANGED <<session, gtk, main_window, viewer_window, destroyed, fd,
                     stale, audio_playback>>
  BY DEF ForgetsFd, ClosesFd, QueuesDestroy, Ends, Thread, windowVars, mediaVars,
         ioVars
<1>2. Running /\ s = session
  BY <1>1, WhoRuns
<1>3. \A r \in Sessions \ {s} : pc'[r] = pc[r]
  BY <1>1 DEF ThreadsTypeOK
<1>4. pc'[s] \in {"close", "queue", "done"}
  BY <1>1 DEF ThreadsTypeOK
<1>5. /\ viewer_window = session /\ idles = <<>> /\ session \in Sessions \ destroyed
      /\ gtk \in {"loop", "drawing"} /\ ~main_window
  BY <1>2 DEF Running
<1>6. Others'
  BY <1>1, <1>2, <1>3 DEF Orderly, Others
<1>7. (\A r \in Sessions : r > session => pc[r] = "none")'
  BY <1>1, <1>2, <1>3 DEF Orderly
<1>8. (audio_playback = "freed" <=> \E r \in Sessions : pc[r] = "end")'
  BY <1>1, <1>3, <1>4 DEF Orderly
<1>9. CASE ForgetsFd(s)
  <2>1. /\ pc[s] = "forget" /\ pc'[s] = "close" /\ vnc_fd' = None
        /\ UNCHANGED <<files, misclosed, idles>>
    BY <1>9 DEF ForgetsFd, Ends, Thread, ThreadsTypeOK
  <2>2. Holds(fd[session])
    BY <1>2, <2>1 DEF Running, Working
  <2>3. Holds(fd[session])'
    BY <1>1, <2>1, <2>2 DEF Holds
  <2>4. Running'
    BY <1>1, <1>2, <1>5, <2>1, <2>3 DEF Running, Working
  <2>5. QED
    BY <1>1, <1>6, <1>7, <1>8, <2>1, <2>4 DEF Orderly
<1>10. CASE ClosesFd(s)
  <2>1. /\ pc[s] = "close" /\ pc'[s] = "queue" /\ UNCHANGED <<vnc_fd, idles>>
        /\ Close(fd[s], s)
    BY <1>10 DEF ClosesFd, Ends, Thread, ThreadsTypeOK
  <2>2. Holds(fd[session]) /\ vnc_fd = None
    BY <1>2, <2>1 DEF Running, Working
  <2>3. fd[session] \in Fds /\ \A g \in Fds : files'[g] = None
    BY <1>2, <2>1, <2>2 DEF Holds, Close
  <2>4. NothingOpen'
    BY <2>1, <2>2, <2>3 DEF NothingOpen
  <2>5. files[fd[s]] = s /\ ~misclosed
    BY <1>2, <2>2, <2>3 DEF Holds, Orderly
  <2>6. ~misclosed'
    BY <2>1, <2>5 DEF Close
  <2>7. Running'
    BY <1>1, <1>2, <1>5, <2>1, <2>4 DEF Running, Working
  <2>8. QED
    BY <1>1, <1>6, <1>7, <1>8, <2>6, <2>7 DEF Orderly
<1>11. CASE QueuesDestroy(s)
  <2>1. /\ pc[s] = "queue" /\ pc'[s] = "done"
        /\ UNCHANGED <<vnc_fd, files, misclosed>>
        /\ idles' = IF viewer_window = None THEN idles ELSE Append(idles, viewer_window)
    BY <1>11 DEF QueuesDestroy, Ends, Thread, ThreadsTypeOK, fdVars
  <2>2. NothingOpen
    BY <1>2, <2>1 DEF Running, Working
  <2>3. NothingOpen'
    BY <2>1, <2>2 DEF NothingOpen
  <2>4. idles' = <<session>>
    BY <1>5, <2>1
  <2>5. Over'
    BY <1>1, <1>2, <1>5, <2>1, <2>3, <2>4 DEF Over
  <2>6. QED
    BY <1>1, <1>6, <1>7, <1>8, <2>1, <2>5 DEF Orderly
<1>12. QED
  BY <1>9, <1>10, <1>11

(* The GTK thread's turns. *)
LEMMA ConnectTurns ==
  ASSUME ThreadsTypeOK, Orderly, Connect
  PROVE  Orderly'
<1>1. /\ gtk = "loop" /\ gtk' = "handshake" /\ main_window /\ session < MaxSessions
      /\ session' = session + 1
      /\ UNCHANGED <<main_window, viewer_window, destroyed, idles, pc, stale,
                     misclosed, audio_playback>>
  BY DEF Connect, GtkGoes, mediaVars
<1>2. PICK f \in Fds : files' = [files EXCEPT ![f] = session + 1] /\ vnc_fd' = f
  BY DEF Connect
<1>3. session \in 0..MaxSessions /\ session' \in Sessions
  BY <1>1 DEF ThreadsTypeOK
<1>4. InMain
  BY <1>1 DEF Orderly, InMain, Shaking, Running, Over, Going
<1>5. \A g \in Fds : files'[g] = IF g = f THEN session' ELSE None
  BY <1>1, <1>2, <1>4 DEF InMain, NothingOpen, ThreadsTypeOK
<1>6. Holds(vnc_fd)'
  BY <1>2, <1>5 DEF Holds
<1>7. session' \notin destroyed /\ destroyed \subseteq 1..session'
  BY <1>1, <1>3 DEF Orderly
<1>8. \A s \in Sessions : s >= session' => pc[s] = "none"
  BY <1>1, <1>3 DEF Orderly
<1>9. Shaking'
  BY <1>1, <1>3, <1>4, <1>6, <1>7, <1>8 DEF InMain, Shaking
<1>10. Others' /\ \A s \in Sessions : s > session' => pc'[s] = "none"
  BY <1>1, <1>3, <1>4, <1>8 DEF InMain, Others
<1>11. (audio_playback = "freed" <=> \E s \in Sessions : pc[s] = "end")'
  BY <1>1 DEF Orderly
<1>12. QED
  BY <1>1, <1>7, <1>9, <1>10, <1>11 DEF Orderly

LEMMA HandshakeTurns ==
  ASSUME ThreadsTypeOK, Orderly, HandshakeFails \/ HandshakeDone
  PROVE  Orderly'
<1>1. /\ gtk = "handshake" /\ gtk' = "loop"
      /\ UNCHANGED <<session, destroyed, idles, stale, audio_playback>>
  BY DEF HandshakeFails, HandshakeDone, GtkGoes, windowVars, mediaVars
<1>2. Shaking
  BY <1>1 DEF Orderly, InMain, Shaking, Running, Over, Going
<1>3. CASE HandshakeFails
  <2>1. /\ Close(vnc_fd, session) /\ vnc_fd' = None
        /\ UNCHANGED <<main_window, viewer_window, pc>>
    BY <1>3 DEF HandshakeFails, windowVars
  <2>2. (\A g \in Fds : files'[g] = None) /\ files[vnc_fd] = session
    BY <1>2, <2>1 DEF Shaking, Holds, Close
  <2>3. ~misclosed'
    BY <2>1, <2>2 DEF Close, Orderly
  <2>4. \A s \in Sessions : pc'[s] \in {"none", "done"}
    BY <1>2, <2>1 DEF Shaking, Orderly, Others
  <2>5. InMain'
    BY <1>1, <1>2, <2>1, <2>2, <2>4 DEF InMain, Shaking, NothingOpen
  <2>6. Others' /\ \A s \in Sessions : s > session' => pc'[s] = "none"
    BY <1>1, <2>1, <2>4 DEF Orderly, Others
  <2>7. (audio_playback = "freed" <=> \E s \in Sessions : pc[s] = "end")'
    BY <1>1, <2>1 DEF Orderly
  <2>8. QED
    BY <1>1, <2>3, <2>5, <2>6, <2>7 DEF Orderly
<1>4. CASE HandshakeDone
  <2>1. /\ ~main_window' /\ viewer_window' = session
        /\ pc' = [pc EXCEPT ![session] = "start"]
        /\ UNCHANGED <<vnc_fd, files, misclosed>>
    BY <1>4 DEF HandshakeDone
  <2>2. /\ pc'[session] = "start"
        /\ \A s \in Sessions \ {session} : pc'[s] = pc[s]
    BY <1>2, <2>1 DEF Shaking, ThreadsTypeOK
  <2>3. Holds(vnc_fd)'
    BY <1>1, <1>2, <2>1 DEF Shaking, Holds
  <2>4. Running'
    BY <1>1, <1>2, <2>1, <2>2, <2>3 DEF Running, Shaking
  <2>5. Others' /\ \A s \in Sessions : s > session' => pc'[s] = "none"
    BY <1>1, <1>2, <2>2 DEF Orderly, Others, Shaking
  <2>6. pc[session] # "end"
    BY <1>2 DEF Shaking
  <2>7. (audio_playback = "freed" <=> \E s \in Sessions : pc[s] = "end")'
    BY <1>1, <2>2, <2>6 DEF Orderly
  <2>8. QED
    BY <1>1, <2>1, <2>4, <2>5, <2>7 DEF Orderly
<1>5. QED
  BY <1>3, <1>4

LEMMA DrawTurns ==
  ASSUME Orderly, OnDraw
  PROVE  Orderly'
<1>1. /\ gtk \in {"loop", "drawing"} /\ gtk' \in {"loop", "drawing"}
      /\ gtk = "loop" => viewer_window # None
      /\ UNCHANGED <<session, main_window, viewer_window, destroyed, idles, vnc_fd,
                     files, fd, pc, stale, misclosed, audio_playback>>
  BY DEF OnDraw, GtkGoes, windowVars, mediaVars, fdVars, ioVars
<1>2. Running \/ Over
  BY <1>1 DEF Orderly, InMain, Shaking, Going
<1>3. (Running \/ Over)'
  BY <1>1, <1>2 DEF Running, Over, Holds, NothingOpen
<1>4. QED
  BY <1>1, <1>3 DEF Orderly, Others

LEMMA ShutdownTurns ==
  ASSUME ThreadsTypeOK, Orderly, Shutdown
  PROVE  Orderly'
<1>1. CASE DestroyWidgetIdle
  <2>1. gtk = "loop" /\ idles # <<>>
    BY <1>1 DEF DestroyWidgetIdle, Destroy, GtkGoes
  <2>2. Over
    BY <2>1 DEF Orderly, InMain, Shaking, Running, Over, Going
  <2>3. Head(idles) = session /\ session \notin destroyed /\ Tail(idles) = <<>>
    BY <2>2 DEF Over
  <2>4. /\ gtk' = "destroy" /\ destroyed' = destroyed \cup {session} /\ idles' = <<>>
        /\ UNCHANGED <<session, main_window, viewer_window, vnc_fd, files, fd, pc,
                       stale, misclosed, audio_playback>>
    BY <1>1, <2>3 DEF DestroyWidgetIdle, Destroy, GtkGoes, ioVars
  <2>5. Going'
    BY <2>2, <2>4 DEF Going, Over, NothingOpen
  <2>6. destroyed' \subseteq 1..session'
    BY <2>2, <2>4 DEF Over, Orderly
  <2>7. QED
    BY <2>4, <2>5, <2>6 DEF Orderly, Others
<1>2. CASE DestroyClosesFd
  <2>1. /\ gtk = "destroy" /\ gtk' = "free" /\ Close(vnc_fd, session) /\ vnc_fd' = None
        /\ UNCHANGED <<session, main_window, viewer_window, destroyed, idles, pc,
                       stale, audio_playback>>
    BY <1>2 DEF DestroyClosesFd, GtkGoes, windowVars, mediaVars
  <2>2. Going
    BY <2>1 DEF Orderly, InMain, Shaking, Running, Over, Going
  <2>3. vnc_fd = None /\ \A g \in Fds : files'[g] = None
    BY <2>1, <2>2 DEF Going, NothingOpen, Close
  <2>4. ~misclosed'
    BY <2>1, <2>3 DEF Close, Orderly
  <2>5. Going'
    BY <2>1, <2>2, <2>3 DEF Going, NothingOpen
  <2>6. QED
    BY <2>1, <2>4, <2>5 DEF Orderly, Others
<1>3. ASSUME Going
      PROVE  /\ \A s \in Sessions : ~UsesDecoder(s) /\ ~UsesAudio(s)
             /\ \A s \in Sessions : pc[s] \in {"none", "done"}
             /\ audio_playback # "freed"
  <2>1. \A s \in Sessions : pc[s] \in {"none", "done"}
    BY <1>3 DEF Going, Orderly, Others
  <2>2. QED
    BY <2>1 DEF UsesDecoder, UsesAudio, Orderly
<1>4. CASE DestroyFreesDecoder
  <2>1. /\ gtk = "free" /\ gtk' = "free_audio"
        /\ Stale("decoder", \E s \in Sessions : UsesDecoder(s))
        /\ UNCHANGED <<session, main_window, viewer_window, destroyed, idles, pc,
                       vnc_fd, files, misclosed, audio_playback>>
    BY <1>4 DEF DestroyFreesDecoder, GtkGoes, windowVars, fdVars
  <2>2. Going
    BY <2>1 DEF Orderly, InMain, Shaking, Running, Over, Going
  <2>3. stale' = stale
    BY <1>3, <2>1, <2>2 DEF Stale
  <2>4. Going'
    BY <2>1, <2>2 DEF Going, NothingOpen
  <2>5. QED
    BY <2>1, <2>3, <2>4 DEF Orderly, Others
<1>5. CASE DestroyFreesAudio
  <2>1. /\ gtk = "free_audio" /\ gtk' = "loop" /\ audio_playback' = "none"
        /\ Stale("audio", \/ audio_playback = "freed"
                          \/ audio_playback = "live" /\ \E s \in Sessions : UsesAudio(s))
        /\ viewer_window' = None /\ main_window' = TRUE
        /\ UNCHANGED <<session, destroyed, idles, pc, vnc_fd, files, misclosed>>
    BY <1>5 DEF DestroyFreesAudio, GtkGoes, fdVars
  <2>2. Going
    BY <2>1 DEF Orderly, InMain, Shaking, Running, Over, Going
  <2>3. stale' = stale
    BY <1>3, <2>1, <2>2 DEF Stale
  <2>4. InMain'
    BY <1>3, <2>1, <2>2 DEF Going, InMain, NothingOpen
  <2>5. (audio_playback = "freed" <=> \E s \in Sessions : pc[s] = "end")'
    BY <1>3, <2>1, <2>2
  <2>6. QED
    BY <2>1, <2>3, <2>4, <2>5 DEF Orderly, Others
<1>6. QED
  BY <1>1, <1>2, <1>4, <1>5 DEF Shutdown

LEMMA QuietTurns ==
  ASSUME Orderly, UNCHANGED threadVars \/ \E s \in Sessions : ServerEnds(s)
  PROVE  Orderly'
<1>1. UNCHANGED <<session, gtk, main_window, viewer_window, destroyed, idles, vnc_fd,
                 files, fd, pc, stale, misclosed, audio_playback>>
  BY DEF threadVars, ServerEnds, windowVars, mediaVars, fdVars, ioVars
<1>2. (InMain \/ Shaking \/ Running \/ Over \/ Going)'
  BY <1>1 DEF Orderly, InMain, Shaking, Running, Over, Going, Holds, NothingOpen
<1>3. QED
  BY <1>1, <1>2 DEF Orderly, Others

LEMMA ThreadsStep == ThreadsInv /\ [ThreadsNext]_threadVars => ThreadsInv'
<1> SUFFICES ASSUME ThreadsInv, [ThreadsNext]_threadVars PROVE ThreadsInv'
  OBVIOUS
<1>1. ThreadsTypeOK /\ closes \in Nat
  BY DEF ThreadsInv, ThreadsTypeOK
<1>2. ASSUME \/ UNCHANGED threadVars
             \/ \E s \in Sessions : ServerEnds(s)
      PROVE  ThreadsTypeOK' /\ closes' = closes
  BY <1>1, <1>2 DEF ThreadsTypeOK, threadVars, ServerEnds, windowVars, mediaVars,
                    fdVars, ioVars
<1>3. ThreadsTypeOK'
  BY <1>1, <1>2, WindowTyped, ShutdownTyped, MessageTyped, ProceedsTyped
     DEF ThreadsNext
<1>4. closes' = 0 => closes = 0 /\ ~UserCloses
  <2>1. CASE Window \/ Shutdown
    <3>1. closes' = closes \/ UserCloses
      BY <2>1 DEF Window, Shutdown, Connect, HandshakeFails, HandshakeDone, OnDraw,
                  UserCloses, DestroyWidgetIdle, DestroyClosesFd,
                  DestroyFreesDecoder, DestroyFreesAudio, windowVars
    <3>2. UserCloses => closes' = closes + 1
      BY DEF UserCloses
    <3>3. QED
      BY <1>1, <3>1, <3>2
  <2>2. CASE \E s \in Sessions : Message(s) \/ Proceeds(s) \/ ReadsRows(s)
    <3>1. gtk' = gtk /\ closes' = closes
      BY <2>2 DEF Message, Proceeds, ReadsRows, OtherMessage, RawRect, Keyframe,
           DeltaFrame, OnAudioBegin, OnAudioData, OnAudioEnd, Starts, Loops, Polls,
           RecvFails, LocksBackbuffer, ResetDecoder, DecodeVideo, AudioWritten,
           ForgetsAudio, StopsRunning, ForgetsFd, ClosesFd, QueuesDestroy,
           Step, Media, Reads, Ends, Thread, windowVars
    <3>2. ~UserCloses
      BY <3>1, <1>1 DEF UserCloses
    <3>3. QED
      BY <3>1, <3>2
  <2>3. CASE UNCHANGED threadVars \/ \E s \in Sessions : ServerEnds(s)
    <3>1. closes' = closes
      BY <1>2, <2>3
    <3>2. QED
      BY <1>1, <3>1 DEF UserCloses
  <2>4. QED
    BY <2>1, <2>2, <2>3 DEF ThreadsNext
<1>5. closes' = 0 => Orderly'
  <2> SUFFICES ASSUME Orderly, ~UserCloses PROVE Orderly'
    BY <1>4 DEF ThreadsInv
  <2>1. CASE Window
    BY <1>1, <2>1, ConnectTurns, HandshakeTurns, DrawTurns DEF Window
  <2>2. CASE Shutdown
    BY <1>1, <2>2, ShutdownTurns
  <2>3. ASSUME NEW s \in Sessions, Message(s) \/ Proceeds(s) \/ ReadsRows(s)
        PROVE  Orderly'
    BY <1>1, <2>3, MessageTurns, ReadingTurns, StartsTurns, EndTurns DEF Proceeds
  <2>4. CASE UNCHANGED threadVars \/ \E s \in Sessions : ServerEnds(s)
    BY <2>4, QuietTurns
  <2>5. QED
    BY <2>1, <2>2, <2>3, <2>4 DEF ThreadsNext
<1>6. QED
  BY <1>3, <1>5 DEF ThreadsInv

LEMMA ThreadsStart == ThreadsInit => ThreadsInv
<1> SUFFICES ASSUME ThreadsInit PROVE ThreadsInv
  OBVIOUS
<1>1. ThreadsTypeOK
  <2>1. /\ session = 0 /\ closes = 0 /\ gtk = "loop" /\ main_window = TRUE
        /\ client_running = FALSE /\ vnc_fd = None /\ viewer_window = None
        /\ backbuffer_mutex = None /\ destroyed = {} /\ ended = {} /\ stale = {}
        /\ decoder = "none" /\ audio_playback = "none" /\ misclosed = FALSE
        /\ idles \in Seq(Sessions)
    BY DEF ThreadsInit
  <2>2. /\ files \in [Fds -> Sessions \cup {None}]
        /\ fd \in [Sessions -> Fds \cup {None}]
        /\ reads \in [Sessions -> Sessions \cup {None}]
        /\ pc \in [Sessions -> Places]
    BY DEF ThreadsInit, Places
  <2>3. session \in 0..MaxSessions /\ closes \in 0..MaxCloses
    BY <2>1
  <2>4. /\ {main_window, client_running} \subseteq BOOLEAN
        /\ {vnc_fd, viewer_window, backbuffer_mutex} \subseteq Sessions \cup {None}
        /\ {decoder, audio_playback} \subseteq Pointer
    BY <2>1 DEF Pointer
  <2>5. /\ destroyed \subseteq Sessions /\ ended \subseteq Sessions
        /\ stale \subseteq {"decoder", "audio", "window"} /\ misclosed \in BOOLEAN
        /\ gtk \in {"loop", "handshake", "drawing", "destroy", "free", "free_audio"}
    BY <2>1
  <2>6. QED
    BY <2>1, <2>2, <2>3, <2>4, <2>5, Zenon DEF ThreadsTypeOK, Places
<1>2. InMain
  BY DEF ThreadsInit, InMain, NothingOpen
<1>3. Orderly
  BY <1>2 DEF ThreadsInit, Orderly, Others
<1>4. QED
  BY <1>1, <1>3 DEF ThreadsInv

(* As long as the server ends the sessions, whatever messages it sent and  *)
(* wherever the threads of vncview.c are: nothing is used after it was     *)
(* freed, a descriptor is closed once and by its owner, and none is left   *)
(* open when the viewer is back in its main window.                        *)
THEOREM SessionsTakeTurns ==
  ThreadsSpec => [](ThreadsTypeOK /\ NoUseAfterFree /\ ClosedOnce)
<1>1. ThreadsInv => ThreadsTypeOK /\ NoUseAfterFree /\ ClosedOnce
  <2> SUFFICES ASSUME ThreadsInv PROVE ThreadsTypeOK /\ NoUseAfterFree /\ ClosedOnce
    OBVIOUS
  <2>1. ThreadsTypeOK /\ NoUseAfterFree
    BY DEF ThreadsInv, NoUseAfterFree, Orderly
  <2>2. ASSUME Orderly, Down PROVE \A f \in Fds : files[f] = None
    BY <2>2 DEF Orderly, Down, InMain, Shaking, Running, Over, Going, NothingOpen
  <2>3. QED
    BY <2>1, <2>2 DEF ThreadsInv, ClosedOnce, Orderly
<1>2. QED
  BY <1>1, ThreadsStart, ThreadsStep, PTL DEF ThreadsSpec

(* A descriptor that one end of a session closes is not closed again by    *)
(* the other, nor left open for the next session to leak.                  *)
THEOREM EachClosedOnce == ThreadsSpec => []ClosedOnce
BY SessionsTakeTurns, PTL
=============================================================================
