--------------------------- MODULE VideoUdpProofs ---------------------------
(***************************************************************************)
(* Video over UDP and TCP, for frames of any size, any number of           *)
(* fragments and of datagrams on their way: sessions are adopted in turn,  *)
(* a frame is reassembled from its own fragments and once, and where no    *)
(* datagram passes the picture comes over TCP.                             *)
(***************************************************************************)
EXTENDS VideoUdp, FiniteSetTheorems, SequenceTheorems, TLAPS

USE VideoAssumption

(* The messages of TCP, and what one that was sent has in common with all. *)
Messages ==
  [type : {"size"}, size : Nat] \cup [type : {"setup"}, cid : Nat] \cup
  [type : {"frame"}, frame : Frames]

Reassembly == [active : BOOLEAN, frame_id : Nat, count : Nat,
               got : SUBSET Fragments]

ServerTyped ==
  /\ drawings \in 0..MaxEvents /\ resizes \in 0..MaxEvents /\ lapses \in 0..MaxEvents
  /\ dirty \in BOOLEAN /\ force_keyframe_requested \in BOOLEAN
  /\ pending_ext_desktop_size \in BOOLEAN /\ udp_setup_sent \in BOOLEAN
  /\ udp_ready \in BOOLEAN /\ live \in BOOLEAN /\ was_udp_active \in BOOLEAN
  /\ encoder \in Encoders
  /\ session \in Nat /\ udp_frame_id \in Nat /\ encoded \in Nat

WireTyped ==
  /\ network \in Networks
  /\ asked \in BOOLEAN
  /\ hellos \subseteq 1..session
  /\ tcp \in Seq(Messages)
  /\ net \in Seq(Fragments)
  /\ \A i \in DOMAIN net : net[i].idx < net[i].count /\ net[i].count <= MaxFrags

ViewerTyped ==
  /\ limited \in BOOLEAN /\ decoder \in Decoders
  /\ screen \in Nat /\ udp_cid \in Nat
  /\ last_completed \in Nat \cup {-1}
  /\ shown \in Frames
  /\ reasm \in Reassembly /\ IsFiniteSet(reasm.got)
  /\ reasm.active => Cardinality(reasm.got) < reasm.count /\ reasm.count <= MaxFrags
  /\ assembled \in SUBSET Fragments

Typed == ServerTyped /\ WireTyped /\ ViewerTyped

\* The sessions set up in m, each later than the one before, are above low
\* and at most high.
InTurn(m, low, high) ==
  /\ \A i \in DOMAIN m : m[i].type = "setup" => low < m[i].cid /\ m[i].cid <= high
  /\ \A i, j \in DOMAIN m :
       i < j /\ m[i].type = "setup" /\ m[j].type = "setup" => m[i].cid < m[j].cid

\* The viewer adopts the server's sessions in turn.
Adopted ==
  /\ udp_cid <= session
  /\ \A h \in hellos : h <= udp_cid
  /\ InTurn(tcp, udp_cid, session)
  /\ ReadyIsCurrent

\* Fragments f and g, sent in this order.
Follows(f, g) ==
  f.session = g.session =>
    /\ f.frame_id <= g.frame_id
    /\ f.frame_id = g.frame_id => f.frame = g.frame /\ f.count = g.count

Sent ==
  /\ \A i \in DOMAIN net :
       /\ net[i].session <= session
       /\ net[i].session = session => net[i].frame_id < udp_frame_id
  /\ network = "keeps order" =>
       \A i, j \in DOMAIN net : i <= j => Follows(net[i], net[j])

Reassembled ==
  /\ reasm.active => reasm.frame_id > last_completed
  /\ reasm.active /\ udp_cid = session => reasm.frame_id < udp_frame_id
  /\ network = "keeps order" /\ reasm.active =>
       /\ \A f \in reasm.got :
            f.session = udp_cid /\ f.frame_id = reasm.frame_id /\ f.count = reasm.count
       /\ \A f, g \in reasm.got : f.frame = g.frame
       /\ \A f \in reasm.got, i \in DOMAIN net : Follows(f, net[i])
       /\ reasm.got # {}
  /\ FramesWhole

\* No message of m is one of kind; the last one that is, is one of good.
NoneIn(m, kind) == \A i \in DOMAIN m : m[i] \notin kind
LastIn(m, kind, good) ==
  \E i \in DOMAIN m :
    m[i] \in kind \cap good /\ \A j \in DOMAIN m : j > i => m[j] \notin kind

IsSize == {m \in Messages : m.type = "size"}
IsFrame == {m \in Messages : m.type = "frame"}
IsKey == {m \in IsFrame : m.frame.key}
IsSetup == {m \in Messages : m.type = "setup"}

ThisSize == {m \in IsSize : m.size = resizes}
ThisPicture ==
  {m \in IsFrame : m.frame.content = drawings /\ m.frame.size = resizes}

\* What the viewer knows, or will have read at the end of m.
SizeTold(m) ==
  \/ NoneIn(m, IsSize) /\ screen = resizes
  \/ LastIn(m, IsSize, ThisSize)
PictureTold(m) ==
  \/ NoneIn(m, IsFrame) /\ shown.content = drawings /\ shown.size = resizes
  \/ LastIn(m, IsFrame, ThisPicture)
KeyTold(m) ==
  \/ NoneIn(m, IsSetup \cup IsKey) /\ decoder = "keyframe"
  \/ LastIn(m, IsSetup \cup IsKey, IsKey)

OverTcp ==
  /\ ~udp_ready
  /\ ~udp_setup_sent => encoder = "none"
  /\ ~dirty => ~pending_ext_desktop_size /\ encoder = "running"
  /\ ~pending_ext_desktop_size => SizeTold(tcp)
  /\ ~dirty => PictureTold(tcp)
  /\ encoder = "running" => KeyTold(tcp)

VideoInv ==
  Typed /\ Adopted /\ Sent /\ Reassembled /\ (network = "blocks" => OverTcp)

-----------------------------------------------------------------------------
(* Sequences of messages and datagrams. *)

LEMMA OneMore ==
  ASSUME NEW S, NEW m \in Seq(S), NEW x \in S
  PROVE  /\ m \o <<x>> \in Seq(S) /\ Len(m \o <<x>>) = Len(m) + 1
         /\ (m \o <<x>>)[Len(m) + 1] = x
         /\ \A i \in 1..Len(m) : (m \o <<x>>)[i] = m[i]
OBVIOUS

LEMMA OneLess ==
  ASSUME NEW S, NEW m \in Seq(S), m # <<>>
  PROVE  /\ Tail(m) \in Seq(S) /\ Len(m) \in Nat \ {0} /\ Len(Tail(m)) = Len(m) - 1
         /\ Head(m) = m[1] /\ Head(m) \in S
         /\ \A i \in 1..Len(m) - 1 : Tail(m)[i] = m[i + 1]
OBVIOUS

(* The last message of a kind, when one more is sent. *)
LEMMA LastSaid ==
  ASSUME NEW m \in Seq(Messages), NEW x \in Messages, NEW kind, NEW good
  PROVE  /\ x \notin kind /\ NoneIn(m, kind) => NoneIn(m \o <<x>>, kind)
         /\ x \notin kind /\ LastIn(m, kind, good) => LastIn(m \o <<x>>, kind, good)
         /\ x \in kind /\ x \in good => LastIn(m \o <<x>>, kind, good)
<1> DEFINE n == m \o <<x>>
<1>1. /\ n \in Seq(Messages) /\ Len(n) = Len(m) + 1 /\ n[Len(m) + 1] = x
      /\ \A i \in 1..Len(m) : n[i] = m[i]
  BY OneMore
<1>2. /\ Len(m) \in Nat /\ DOMAIN m = 1..Len(m) /\ DOMAIN n = 1..Len(m) + 1
  BY <1>1
<1> HIDE DEF n
<1>3. ASSUME x \notin kind, NoneIn(m, kind) PROVE NoneIn(n, kind)
  BY <1>1, <1>2, <1>3 DEF NoneIn
<1>4. ASSUME x \notin kind, LastIn(m, kind, good) PROVE LastIn(n, kind, good)
  <2>1. PICK i \in DOMAIN m :
          m[i] \in kind \cap good /\ \A j \in DOMAIN m : j > i => m[j] \notin kind
    BY <1>4 DEF LastIn
  <2>2. i \in DOMAIN n /\ n[i] \in kind \cap good
    BY <1>1, <1>2, <2>1
  <2>3. \A j \in DOMAIN n : j > i => n[j] \notin kind
    BY <1>1, <1>2, <1>4, <2>1
  <2>4. QED
    BY <2>2, <2>3 DEF LastIn
<1>5. ASSUME x \in kind, x \in good PROVE LastIn(n, kind, good)
  <2>1. Len(m) + 1 \in DOMAIN n /\ n[Len(m) + 1] \in kind \cap good
    BY <1>1, <1>2, <1>5
  <2>2. \A j \in DOMAIN n : ~(j > Len(m) + 1)
    BY <1>2
  <2>3. QED
    BY <2>1, <2>2 DEF LastIn
<1>6. QED
  BY <1>3, <1>4, <1>5 DEF n

(* And when the first is read. *)
LEMMA LastRead ==
  ASSUME NEW m \in Seq(Messages), m # <<>>, NEW kind, NEW good
  PROVE  /\ NoneIn(m, kind) => Head(m) \notin kind /\ NoneIn(Tail(m), kind)
         /\ LastIn(m, kind, good) =>
              \/ LastIn(Tail(m), kind, good)
              \/ Head(m) \in kind /\ Head(m) \in good /\ NoneIn(Tail(m), kind)
<1> DEFINE n == Tail(m)
<1>1. /\ n \in Seq(Messages) /\ Len(m) \in Nat \ {0} /\ Len(n) = Len(m) - 1
      /\ Head(m) = m[1] /\ \A i \in 1..Len(m) - 1 : n[i] = m[i + 1]
  BY OneLess
<1>2. DOMAIN m = 1..Len(m) /\ DOMAIN n = 1..Len(m) - 1
  BY <1>1
<1> HIDE DEF n
<1>3. ASSUME NoneIn(m, kind) PROVE Head(m) \notin kind /\ NoneIn(n, kind)
  BY <1>1, <1>2, <1>3 DEF NoneIn
<1>4. ASSUME LastIn(m, kind, good)
      PROVE  \/ LastIn(n, kind, good)
             \/ Head(m) \in kind /\ Head(m) \in good /\ NoneIn(n, kind)
  <2>1. PICK i \in DOMAIN m :
          m[i] \in kind \cap good /\ \A j \in DOMAIN m : j > i => m[j] \notin kind
    BY <1>4 DEF LastIn
  <2>2. CASE i = 1
    <3>1. NoneIn(n, kind)
      BY <1>1, <1>2, <2>1, <2>2 DEF NoneIn
    <3>2. QED
      BY <1>1, <2>1, <2>2, <3>1
  <2>3. CASE i # 1
    <3>1. i - 1 \in DOMAIN n /\ n[i - 1] = m[i]
      BY <1>1, <1>2, <2>3
    <3>2. ASSUME NEW j \in DOMAIN n, j > i - 1 PROVE n[j] \notin kind
      <4>1. n[j] = m[j + 1] /\ j + 1 \in DOMAIN m /\ j + 1 > i
        BY <1>1, <1>2, <3>2
      <4>2. QED
        BY <2>1, <4>1
    <3>3. QED
      BY <2>1, <3>1, <3>2 DEF LastIn
  <2>4. QED
    BY <2>2, <2>3
<1>5. QED
  BY <1>3, <1>4 DEF n

(* A datagram is taken out of those on their way, from any place. *)
LEMMA TakenOut ==
  ASSUME NEW m \in Seq(Fragments), NEW i \in DOMAIN m
  PROVE  /\ RemoveAt(m, i) \in Seq(Fragments)
         /\ m[i] \in Fragments /\ Len(m) \in Nat /\ i \in 1..Len(m)
         /\ DOMAIN RemoveAt(m, i) = 1..Len(m) - 1
         /\ \A k \in 1..Len(m) - 1 :
              RemoveAt(m, i)[k] = m[IF k < i THEN k ELSE k + 1]
<1>1. Len(m) \in Nat /\ i \in 1..Len(m) /\ m[i] \in Fragments
  OBVIOUS
<1> DEFINE a == SubSeq(m, 1, i - 1)
           b == SubSeq(m, i + 1, Len(m))
<1>2. /\ a \in Seq(Fragments) /\ Len(a) = i - 1
      /\ \A k \in 1..i - 1 : a[k] = m[k]
  BY <1>1
<1>3. /\ b \in Seq(Fragments) /\ Len(b) = Len(m) - i
      /\ \A k \in 1..Len(m) - i : b[k] = m[k + i]
  BY <1>1
<1>4. RemoveAt(m, i) = a \o b
  BY DEF RemoveAt
<1> HIDE DEF a, b
<1>5. /\ a \o b \in Seq(Fragments) /\ Len(a \o b) = Len(m) - 1
      /\ \A k \in 1..Len(m) - 1 :
           (a \o b)[k] = IF k < i THEN a[k] ELSE b[k - (i - 1)]
  <2>1. /\ a \o b \in Seq(Fragments) /\ Len(a \o b) = Len(a) + Len(b)
        /\ \A k \in 1..Len(a) + Len(b) :
             (a \o b)[k] = IF k <= Len(a) THEN a[k] ELSE b[k - Len(a)]
    BY <1>2, <1>3, ConcatProperties
  <2>2. Len(a) + Len(b) = Len(m) - 1
    BY <1>1, <1>2, <1>3
  <2>3. \A k \in 1..Len(m) - 1 : k <= Len(a) <=> k < i
    BY <1>1, <1>2
  <2>4. QED
    BY <1>2, <2>1, <2>2, <2>3
<1>6. ASSUME NEW k \in 1..Len(m) - 1
      PROVE  (a \o b)[k] = m[IF k < i THEN k ELSE k + 1]
  <2>1. CASE k < i
    BY <1>1, <1>2, <1>5, <2>1
  <2>2. CASE ~(k < i)
    <3>1. k - (i - 1) \in 1..Len(m) - i /\ (k - (i - 1)) + i = k + 1
      BY <1>1, <2>2
    <3>2. QED
      BY <1>3, <1>5, <2>2, <3>1
  <2>3. QED
    BY <2>1, <2>2
<1>7. QED
  BY <1>1, <1>4, <1>5, <1>6

-----------------------------------------------------------------------------
(* Sessions set up in turn, in one message more and in one less. *)

LEMMA TurnSaid ==
  ASSUME NEW m \in Seq(Messages), NEW x \in Messages, NEW low \in Nat, NEW high \in Nat,
         InTurn(m, low, high)
  PROVE  /\ x.type # "setup" => InTurn(m \o <<x>>, low, high)
         /\ x.type = "setup" /\ x.cid = high + 1 /\ low <= high =>
              InTurn(m \o <<x>>, low, high + 1)
<1> DEFINE n == m \o <<x>>
<1>1. /\ n \in Seq(Messages) /\ Len(n) = Len(m) + 1 /\ n[Len(m) + 1] = x
      /\ \A i \in 1..Len(m) : n[i] = m[i]
  BY OneMore
<1>2. /\ Len(m) \in Nat /\ DOMAIN m = 1..Len(m) /\ DOMAIN n = 1..Len(m) + 1
  BY <1>1
<1>3. \A i \in DOMAIN m : m[i].type = "setup" => m[i].cid \in Nat
  <2>1. \A y \in Messages : y.type = "setup" => y.cid \in Nat
    BY DEF Messages
  <2>2. QED
    BY <2>1
<1> HIDE DEF n
<1>4. ASSUME x.type # "setup" PROVE InTurn(n, low, high)
  BY <1>1, <1>2, <1>4 DEF InTurn
<1>5. ASSUME x.type = "setup", x.cid = high + 1, low <= high
      PROVE  InTurn(n, low, high + 1)
  <2>1. \A i \in DOMAIN n : n[i].type = "setup" => low < n[i].cid /\ n[i].cid <= high + 1
    BY <1>1, <1>2, <1>3, <1>5 DEF InTurn
  <2>2. ASSUME NEW i \in DOMAIN n, NEW j \in DOMAIN n,
               i < j, n[i].type = "setup", n[j].type = "setup"
        PROVE  n[i].cid < n[j].cid
    <3>1. i \in DOMAIN m /\ n[i] = m[i]
      BY <1>1, <1>2, <2>2
    <3>2. CASE j \in DOMAIN m
      BY <1>1, <1>2, <2>2, <3>1, <3>2 DEF InTurn
    <3>3. CASE j \notin DOMAIN m
      BY <1>1, <1>2, <1>3, <1>5, <2>2, <3>1, <3>3 DEF InTurn
    <3>4. QED
      BY <3>2, <3>3
  <2>3. QED
    BY <2>1, <2>2 DEF InTurn
<1>6. QED
  BY <1>4, <1>5 DEF n

LEMMA TurnRead ==
  ASSUME NEW m \in Seq(Messages), m # <<>>, NEW low \in Nat, NEW high \in Nat,
         InTurn(m, low, high)
  PROVE  /\ InTurn(Tail(m), low, high)
         /\ Head(m).type = "setup" =>
              /\ InTurn(Tail(m), Head(m).cid, high)
              /\ low < Head(m).cid /\ Head(m).cid <= high
<1> DEFINE n == Tail(m)
<1>1. /\ n \in Seq(Messages) /\ Len(m) \in Nat \ {0} /\ Len(n) = Len(m) - 1
      /\ Head(m) = m[1] /\ \A i \in 1..Len(m) - 1 : n[i] = m[i + 1]
  BY OneLess
<1>2. DOMAIN m = 1..Len(m) /\ DOMAIN n = 1..Len(m) - 1
  BY <1>1
<1> HIDE DEF n
<1>3. \A i \in DOMAIN n : n[i] = m[i + 1] /\ i + 1 \in DOMAIN m /\ 1 < i + 1 /\ i \in Int
  BY <1>1, <1>2
<1>4. ASSUME NEW i \in DOMAIN n, NEW j \in DOMAIN n,
             i < j, n[i].type = "setup", n[j].type = "setup"
      PROVE  n[i].cid < n[j].cid
  <2>1. i + 1 < j + 1
    BY <1>3, <1>4
  <2>2. QED
    BY <1>3, <1>4, <2>1 DEF InTurn
<1>5. \A i \in DOMAIN n : n[i].type = "setup" => low < n[i].cid /\ n[i].cid <= high
  BY <1>3 DEF InTurn
<1>6. ASSUME Head(m).type = "setup"
      PROVE  \A i \in DOMAIN n : n[i].type = "setup" => Head(m).cid < n[i].cid
  BY <1>1, <1>2, <1>3, <1>6 DEF InTurn
<1>7. ASSUME Head(m).type = "setup" PROVE low < Head(m).cid /\ Head(m).cid <= high
  BY <1>1, <1>2, <1>7 DEF InTurn
<1>8. InTurn(n, low, high)
  BY <1>4, <1>5 DEF InTurn
<1>9. ASSUME Head(m).type = "setup" PROVE InTurn(n, Head(m).cid, high)
  BY <1>4, <1>5, <1>6, <1>9 DEF InTurn
<1>10. QED
  BY <1>7, <1>8, <1>9 DEF n

-----------------------------------------------------------------------------
(* What a step keeps that does not touch a part of the state. *)

LEMMA AdoptedKept ==
  ASSUME Adopted, session' = session, udp_cid' = udp_cid, tcp' = tcp,
         \A h \in hellos' : h \in hellos \/ h = udp_cid,
         udp_cid \in Nat,
         udp_ready' => udp_ready /\ udp_setup_sent'
  PROVE  Adopted'
BY DEF Adopted, ReadyIsCurrent

LEMMA SentKept ==
  ASSUME Sent, session' = session, udp_frame_id' = udp_frame_id, net' = net,
         network' = network
  PROVE  Sent'
BY DEF Sent

LEMMA ReassembledKept ==
  ASSUME Reassembled, session' = session, udp_frame_id' = udp_frame_id, net' = net,
         network' = network, reasm' = reasm, last_completed' = last_completed,
         udp_cid' = udp_cid, assembled' = assembled
  PROVE  Reassembled'
BY DEF Reassembled, FramesWhole

\* A datagram is taken out of those on their way.
LEMMA SentLess ==
  ASSUME Sent, net \in Seq(Fragments), NEW k \in DOMAIN net,
         net' = RemoveAt(net, k), session' = session,
         udp_frame_id' = udp_frame_id, network' = network
  PROVE  /\ Sent'
         /\ \A i \in DOMAIN net' : \E j \in DOMAIN net : net'[i] = net[j]
<1> DEFINE At(i) == IF i < k THEN i ELSE i + 1
<1>0. /\ Len(net) \in Nat /\ DOMAIN net = 1..Len(net) /\ k \in 1..Len(net)
      /\ DOMAIN RemoveAt(net, k) = 1..Len(net) - 1
      /\ \A i \in 1..Len(net) - 1 : RemoveAt(net, k)[i] = net[At(i)]
  BY TakenOut
<1>1. /\ Len(net) \in Nat /\ DOMAIN net = 1..Len(net) /\ k \in 1..Len(net)
      /\ DOMAIN net' = 1..Len(net) - 1
      /\ \A i \in DOMAIN net' : net'[i] = net[At(i)]
  BY <1>0
<1>2. \A i \in DOMAIN net' : At(i) \in DOMAIN net
  BY <1>1
<1>3. \A i, j \in DOMAIN net' : i <= j => At(i) <= At(j)
  BY <1>1
<1> HIDE DEF At
<1>4. \A i \in DOMAIN net' : \E j \in DOMAIN net : net'[i] = net[j]
  BY <1>1, <1>2
<1>5. \A i \in DOMAIN net' :
        /\ net'[i].session <= session
        /\ net'[i].session = session => net'[i].frame_id < udp_frame_id
  BY <1>4 DEF Sent
<1>6. ASSUME network = "keeps order", NEW i \in DOMAIN net', NEW j \in DOMAIN net', i <= j
      PROVE  Follows(net'[i], net'[j])
  BY <1>1, <1>2, <1>3, <1>6 DEF Sent
<1>7. Sent'
  BY <1>5, <1>6 DEF Sent
<1>8. QED
  BY <1>4, <1>7

LEMMA WireTypedKept ==
  ASSUME WireTyped, session' = session, tcp' = tcp, net' = net, hellos' = hellos,
         network' = network, asked' \in BOOLEAN
  PROVE  WireTyped'
BY DEF WireTyped

LEMMA ViewerTypedKept ==
  ASSUME ViewerTyped, UNCHANGED viewerVars
  PROVE  ViewerTyped'
BY DEF ViewerTyped, viewerVars

\* A step of the server that leaves the wire alone.
LEMMA WireAndViewerKept ==
  ASSUME VideoInv, session' = session, udp_frame_id' = udp_frame_id, tcp' = tcp,
         net' = net, hellos' = hellos, network' = network, asked' \in BOOLEAN,
         UNCHANGED viewerVars, udp_ready' => udp_ready /\ udp_setup_sent'
  PROVE  WireTyped' /\ ViewerTyped' /\ Adopted' /\ Sent' /\ Reassembled'
<1>1. WireTyped /\ ViewerTyped /\ Adopted /\ Sent /\ Reassembled /\ udp_cid \in Nat
  BY DEF VideoInv, Typed, ViewerTyped
<1>2. /\ udp_cid' = udp_cid /\ reasm' = reasm /\ last_completed' = last_completed
      /\ assembled' = assembled
  BY DEF viewerVars
<1>3. WireTyped' /\ ViewerTyped'
  BY <1>1, WireTypedKept, ViewerTypedKept
<1>4. Adopted'
  BY <1>1, <1>2, AdoptedKept
<1>5. Sent' /\ Reassembled'
  BY <1>1, <1>2, SentKept, ReassembledKept
<1>6. QED
  BY <1>3, <1>4, <1>5

-----------------------------------------------------------------------------
(* The server's steps that send nothing. *)

LEMMA Happened ==
  ASSUME ServerTyped, MayHappen
  PROVE  /\ drawings + 1 \in 0..MaxEvents /\ resizes + 1 \in 0..MaxEvents
         /\ lapses + 1 \in 0..MaxEvents
BY DEF ServerTyped, MayHappen

LEMMA DrawKeeps ==
  ASSUME VideoInv, Draw, network' = network PROVE VideoInv'
<1>1. WireTyped' /\ ViewerTyped' /\ Adopted' /\ Sent' /\ Reassembled'
  <2>1. udp_ready' => udp_ready /\ udp_setup_sent'
    BY DEF Draw, VideoInv, Adopted, ReadyIsCurrent
  <2>2. asked' \in BOOLEAN
    BY DEF Draw, VideoInv, Typed, WireTyped
  <2>3. QED
    BY <2>1, <2>2, WireAndViewerKept DEF Draw
<1>2. ServerTyped'
  BY Happened DEF Draw, VideoInv, Typed, ServerTyped
<1>3. ASSUME network = "blocks" PROVE OverTcp'
  <2>1. ThisSize' = ThisSize /\ screen' = screen /\ decoder' = decoder
    BY DEF Draw, ThisSize, viewerVars
  <2>2. QED
    BY <1>3, <2>1 DEF Draw, VideoInv, OverTcp, SizeTold, KeyTold
<1>4. QED
  BY <1>1, <1>2, <1>3 DEF VideoInv, Typed

LEMMA ResizeKeeps ==
  ASSUME VideoInv, ResizeFramebuffer, network' = network PROVE VideoInv'
<1>1. WireTyped' /\ ViewerTyped' /\ Adopted' /\ Sent' /\ Reassembled'
  <2>1. ~udp_ready'
    BY DEF ResizeFramebuffer
  <2>2. asked' \in BOOLEAN
    BY DEF ResizeFramebuffer, VideoInv, Typed, WireTyped
  <2>3. QED
    BY <2>1, <2>2, WireAndViewerKept DEF ResizeFramebuffer
<1>2. ServerTyped'
  BY Happened DEF ResizeFramebuffer, VideoInv, Typed, ServerTyped, Encoders
<1>3. OverTcp'
  BY DEF ResizeFramebuffer, OverTcp
<1>4. QED
  BY <1>1, <1>2, <1>3 DEF VideoInv, Typed

LEMMA RequestKeyframeKeeps ==
  ASSUME VideoInv, RequestKeyframe, network' = network PROVE VideoInv'
<1>1. WireTyped' /\ ViewerTyped' /\ Adopted' /\ Sent' /\ Reassembled'
  <2>1. udp_ready' => udp_ready /\ udp_setup_sent'
    BY DEF RequestKeyframe, VideoInv, Adopted, ReadyIsCurrent
  <2>2. asked' \in BOOLEAN
    BY DEF RequestKeyframe
  <2>3. QED
    BY <2>1, <2>2, WireAndViewerKept DEF RequestKeyframe
<1>2. ServerTyped'
  BY DEF RequestKeyframe, VideoInv, Typed, ServerTyped
<1>3. ASSUME network = "blocks" PROVE OverTcp'
  <2>1. /\ ThisSize' = ThisSize /\ ThisPicture' = ThisPicture /\ screen' = screen
        /\ decoder' = decoder /\ shown' = shown
    BY DEF RequestKeyframe, ThisSize, ThisPicture, viewerVars
  <2>2. QED
    BY <1>3, <2>1
    DEF RequestKeyframe, VideoInv, OverTcp, SizeTold, KeyTold, PictureTold
<1>4. QED
  BY <1>1, <1>2, <1>3 DEF VideoInv, Typed

LEMMA LapseKeeps ==
  ASSUME VideoInv, Lapse, network' = network PROVE VideoInv'
<1>1. WireTyped' /\ ViewerTyped' /\ Adopted' /\ Sent' /\ Reassembled'
  <2>1. udp_ready' => udp_ready /\ udp_setup_sent'
    BY DEF Lapse, VideoInv, Adopted, ReadyIsCurrent
  <2>2. asked' \in BOOLEAN
    BY DEF Lapse, VideoInv, Typed, WireTyped
  <2>3. QED
    BY <2>1, <2>2, WireAndViewerKept DEF Lapse
<1>2. ServerTyped'
  BY Happened DEF Lapse, VideoInv, Typed, ServerTyped
<1>3. ASSUME network = "blocks" PROVE OverTcp'
  <2>1. /\ ThisSize' = ThisSize /\ ThisPicture' = ThisPicture /\ screen' = screen
        /\ decoder' = decoder /\ shown' = shown
    BY DEF Lapse, ThisSize, ThisPicture, viewerVars
  <2>2. QED
    BY <1>3, <2>1 DEF Lapse, VideoInv, OverTcp, SizeTold, KeyTold, PictureTold
<1>4. QED
  BY <1>1, <1>2, <1>3 DEF VideoInv, Typed

(* A HELLO is taken for the session's only after the viewer adopted it.    *)
LEMMA HandleIncomingKeeps ==
  ASSUME VideoInv, NEW cid \in hellos, HandleIncoming(cid), network' = network
  PROVE  VideoInv'
<1>1. ViewerTyped' /\ Sent' /\ Reassembled' /\ udp_cid' = udp_cid
  BY ViewerTypedKept, SentKept, ReassembledKept
  DEF HandleIncoming, VideoInv, Typed, viewerVars
<1>2. /\ udp_cid \in Nat /\ session \in Nat /\ hellos \subseteq 1..session
      /\ network # "blocks" /\ hellos' = hellos \ {cid}
  BY DEF HandleIncoming, VideoInv, Typed, ServerTyped, WireTyped, ViewerTyped
<1>3. WireTyped'
  BY DEF HandleIncoming, VideoInv, Typed, WireTyped
<1>4. ServerTyped'
  BY DEF HandleIncoming, VideoInv, Typed, ServerTyped
<1>5. Adopted'
  <2>1. ReadyIsCurrent'
    <3>1. CASE KnownSession(cid)
      <4>1. cid <= udp_cid /\ udp_cid <= session /\ cid = session /\ udp_setup_sent
        BY <3>1 DEF KnownSession, VideoInv, Adopted
      <4>2. udp_cid = session
        BY <1>2, <4>1
      <4>3. QED
        BY <1>1, <4>1, <4>2 DEF HandleIncoming, ReadyIsCurrent
    <3>2. CASE ~KnownSession(cid)
      BY <1>1, <3>2 DEF HandleIncoming, VideoInv, Adopted, ReadyIsCurrent
    <3>3. QED
      BY <3>1, <3>2
  <2>2. QED
    BY <1>1, <1>2, <2>1 DEF HandleIncoming, VideoInv, Adopted
<1>6. QED
  BY <1>1, <1>2, <1>3, <1>4, <1>5 DEF VideoInv, Typed

-----------------------------------------------------------------------------
(* Losses, and the viewer's steps that read nothing. *)

LEMMA ServerTypedKept ==
  ASSUME ServerTyped, UNCHANGED serverVars PROVE ServerTyped'
BY DEF ServerTyped, serverVars

LEMMA OverTcpKept ==
  ASSUME OverTcp, UNCHANGED serverVars, tcp' = tcp, screen' = screen,
         shown' = shown, decoder' = decoder
  PROVE  OverTcp'
<1>1. ThisSize' = ThisSize /\ ThisPicture' = ThisPicture
  BY DEF ThisSize, ThisPicture, serverVars
<1>2. QED
  BY <1>1 DEF OverTcp, SizeTold, PictureTold, KeyTold, serverVars

LEMMA LoseVideoKeeps ==
  ASSUME VideoInv, LoseVideo, network' = network PROVE VideoInv'
<1>1. ServerTyped' /\ ViewerTyped' /\ (network = "blocks" => OverTcp')
  BY ServerTypedKept, ViewerTypedKept, OverTcpKept
  DEF LoseVideo, VideoInv, Typed, viewerVars
<1>2. /\ net \in Seq(Fragments) /\ net # <<>> /\ net' = Tail(net) /\ tcp' = tcp
      /\ session' = session /\ udp_frame_id' = udp_frame_id /\ hellos' = hellos
      /\ udp_cid' = udp_cid /\ reasm' = reasm /\ last_completed' = last_completed
      /\ assembled' = assembled /\ asked' = asked /\ udp_ready' = udp_ready
      /\ udp_setup_sent' = udp_setup_sent /\ udp_cid \in Nat
  BY DEF LoseVideo, serverVars, viewerVars, VideoInv, Typed, WireTyped, ViewerTyped
<1>3. /\ Tail(net) \in Seq(Fragments) /\ Len(net) \in Nat \ {0}
      /\ DOMAIN net = 1..Len(net) /\ DOMAIN Tail(net) = 1..Len(net) - 1
      /\ \A i \in 1..Len(net) - 1 : Tail(net)[i] = net[i + 1]
  BY <1>2, OneLess
<1>4. /\ net' \in Seq(Fragments) /\ \A i \in DOMAIN net' : net'[i] = net[i + 1]
      /\ \A i \in DOMAIN net' : i + 1 \in DOMAIN net /\ i \in Int
  BY <1>2, <1>3
<1>5. WireTyped'
  BY <1>2, <1>4 DEF VideoInv, Typed, WireTyped
<1>6. Adopted'
  BY <1>2, AdoptedKept DEF VideoInv, Adopted, ReadyIsCurrent
<1>7. Sent'
  <2>1. \A i \in DOMAIN net' :
          /\ net'[i].session <= session
          /\ net'[i].session = session => net'[i].frame_id < udp_frame_id
    BY <1>4 DEF VideoInv, Sent
  <2>2. ASSUME network = "keeps order", NEW i \in DOMAIN net', NEW j \in DOMAIN net', i <= j
        PROVE  Follows(net'[i], net'[j])
    <3>1. \A a, b \in Int : a <= b => a + 1 <= b + 1
      OBVIOUS
    <3>2. i + 1 <= j + 1
      BY <1>4, <2>2, <3>1, Zenon
    <3>3. QED
      BY <1>4, <2>2, <3>2 DEF VideoInv, Sent
  <2>3. QED
    BY <1>2, <2>1, <2>2 DEF Sent
<1>8. Reassembled'
  BY <1>2, <1>4 DEF VideoInv, Reassembled, FramesWhole
<1>9. QED
  BY <1>1, <1>5, <1>6, <1>7, <1>8 DEF VideoInv, Typed

LEMMA LoseHelloKeeps ==
  ASSUME VideoInv, NEW cid \in hellos, LoseHello(cid), network' = network
  PROVE  VideoInv'
<1>1. /\ ServerTyped' /\ ViewerTyped' /\ Sent' /\ Reassembled'
      /\ (network = "blocks" => OverTcp')
  BY ServerTypedKept, ViewerTypedKept, SentKept, ReassembledKept, OverTcpKept
  DEF LoseHello, VideoInv, Typed, serverVars, viewerVars
<1>2. WireTyped'
  BY DEF LoseHello, VideoInv, Typed, WireTyped, serverVars
<1>3. Adopted'
  BY AdoptedKept DEF LoseHello, VideoInv, Typed, ViewerTyped, Adopted, ReadyIsCurrent,
    serverVars, viewerVars
<1>4. QED
  BY <1>1, <1>2, <1>3 DEF VideoInv, Typed

LEMMA LimitOverKeeps ==
  ASSUME VideoInv, LimitOver, network' = network PROVE VideoInv'
<1>1. /\ ServerTyped' /\ Sent' /\ Reassembled' /\ (network = "blocks" => OverTcp')
  BY ServerTypedKept, SentKept, ReassembledKept, OverTcpKept
  DEF LimitOver, VideoInv, Typed, serverVars
<1>2. ViewerTyped'
  BY DEF LimitOver, VideoInv, Typed, ViewerTyped
<1>3. WireTyped'
  BY DEF LimitOver, VideoInv, Typed, WireTyped, serverVars
<1>4. Adopted'
  BY AdoptedKept DEF LimitOver, VideoInv, Typed, ViewerTyped, Adopted, ReadyIsCurrent,
    serverVars
<1>5. QED
  BY <1>1, <1>2, <1>3, <1>4 DEF VideoInv, Typed

LEMMA SendHelloKeeps ==
  ASSUME VideoInv, SendHello, network' = network PROVE VideoInv'
<1>1. /\ ServerTyped' /\ ViewerTyped' /\ Sent' /\ Reassembled'
      /\ (network = "blocks" => OverTcp')
  BY ServerTypedKept, ViewerTypedKept, SentKept, ReassembledKept, OverTcpKept
  DEF SendHello, VideoInv, Typed, serverVars, viewerVars
<1>2. WireTyped'
  <2>1. udp_cid \in 1..session
    BY DEF SendHello, VideoInv, Typed, ServerTyped, ViewerTyped, Adopted
  <2>2. QED
    BY <2>1 DEF SendHello, VideoInv, Typed, WireTyped, serverVars
<1>3. Adopted'
  BY AdoptedKept DEF SendHello, VideoInv, Typed, ViewerTyped, Adopted, ReadyIsCurrent,
    serverVars, viewerVars
<1>4. QED
  BY <1>1, <1>2, <1>3 DEF VideoInv, Typed

LEMMA ReasmTimeoutKeeps ==
  ASSUME VideoInv, ReasmTimeout, network' = network PROVE VideoInv'
<1>1. /\ ServerTyped' /\ Sent' /\ (network = "blocks" => OverTcp')
  BY ServerTypedKept, SentKept, OverTcpKept
  DEF ReasmTimeout, VideoInv, Typed, serverVars
<1>2. ViewerTyped'
  <2>1. Idle \in Reassembly /\ ~Idle.active /\ IsFiniteSet(Idle.got)
    BY FS_EmptySet DEF Idle, Reassembly
  <2>2. QED
    BY <2>1 DEF ReasmTimeout, AskIf, VideoInv, Typed, ViewerTyped
<1>3. WireTyped'
  BY DEF ReasmTimeout, AskIf, VideoInv, Typed, WireTyped, ViewerTyped, serverVars
<1>4. Adopted'
  BY AdoptedKept DEF ReasmTimeout, VideoInv, Typed, ViewerTyped, Adopted, ReadyIsCurrent,
    serverVars
<1>5. Reassembled'
  BY DEF ReasmTimeout, Idle, VideoInv, Reassembled, FramesWhole
<1>6. QED
  BY <1>1, <1>2, <1>3, <1>4, <1>5 DEF VideoInv, Typed

-----------------------------------------------------------------------------
(* The viewer reads what came over TCP. *)

LEMMA ReadSizeKeeps ==
  ASSUME VideoInv, ReadSize, network' = network PROVE VideoInv'
<1>1. ServerTyped' /\ Sent' /\ Reassembled'
  BY ServerTypedKept, SentKept, ReassembledKept
  DEF ReadSize, VideoInv, Typed, serverVars
<1>2. /\ tcp \in Seq(Messages) /\ tcp # <<>> /\ udp_cid \in Nat /\ session \in Nat
  BY DEF ReadSize, VideoInv, Typed, ServerTyped, WireTyped, ViewerTyped
<1>3. Tail(tcp) \in Seq(Messages) /\ Head(tcp) \in Messages
  BY <1>2, OneLess
<1>4. Head(tcp) \in IsSize /\ Head(tcp) \notin IsFrame /\ Head(tcp) \notin IsSetup \cup IsKey
      /\ Head(tcp).size \in Nat
  BY <1>3 DEF ReadSize, Messages, IsSize, IsFrame, IsKey, IsSetup
<1>5. ViewerTyped' /\ WireTyped'
  BY <1>3, <1>4 DEF ReadSize, VideoInv, Typed, WireTyped, ViewerTyped, serverVars
<1>6. Adopted'
  BY <1>2, TurnRead DEF ReadSize, VideoInv, Adopted, ReadyIsCurrent, serverVars
<1>7. ASSUME network = "blocks" PROVE OverTcp'
  <2>1. /\ ThisSize' = ThisSize /\ ThisPicture' = ThisPicture /\ OverTcp
        /\ tcp' = Tail(tcp) /\ screen' = Head(tcp).size /\ resizes' = resizes
        /\ shown' = shown /\ decoder' = decoder /\ drawings' = drawings
    BY <1>7 DEF ThisSize, ThisPicture, ReadSize, serverVars, VideoInv
  <2>2. SizeTold(tcp) => SizeTold(tcp)'
    BY <1>2, <1>4, <2>1, LastRead DEF SizeTold, ThisSize
  <2>3. PictureTold(tcp) => PictureTold(tcp)'
    BY <1>2, <1>4, <2>1, LastRead DEF PictureTold
  <2>4. KeyTold(tcp) => KeyTold(tcp)'
    BY <1>2, <1>4, <2>1, LastRead DEF KeyTold
  <2>5. QED
    BY <2>1, <2>2, <2>3, <2>4 DEF OverTcp, ReadSize, serverVars
<1>8. QED
  BY <1>1, <1>5, <1>6, <1>7 DEF VideoInv, Typed

(* The viewer adopts a session, and forgets the frame it was reassembling. *)
LEMMA ReadSetupKeeps ==
  ASSUME VideoInv, ReadSetup, network' = network
  PROVE  VideoInv' /\ udp_cid' # udp_cid
<1>1. ServerTyped' /\ Sent'
  BY ServerTypedKept, SentKept DEF ReadSetup, VideoInv, Typed, serverVars
<1>2. /\ tcp \in Seq(Messages) /\ tcp # <<>> /\ udp_cid \in Nat /\ session \in Nat
      /\ hellos \subseteq 1..session
  BY DEF ReadSetup, VideoInv, Typed, ServerTyped, WireTyped, ViewerTyped
<1>3. Tail(tcp) \in Seq(Messages) /\ Head(tcp) \in Messages
  BY <1>2, OneLess
<1>4. Head(tcp) \in IsSetup /\ Head(tcp) \notin IsFrame /\ Head(tcp) \notin IsSize
      /\ Head(tcp).cid \in Nat /\ Head(tcp) \notin IsKey
  BY <1>3 DEF ReadSetup, Messages, IsSize, IsFrame, IsKey, IsSetup
<1>5. ViewerTyped'
  <2>1. Idle \in Reassembly /\ ~Idle.active /\ IsFiniteSet(Idle.got)
    BY FS_EmptySet DEF Idle, Reassembly
  <2>2. QED
    BY <1>4, <2>1 DEF ReadSetup, ReasmReset, VideoInv, Typed, ViewerTyped, Decoders
<1>6. WireTyped'
  BY <1>3 DEF ReadSetup, VideoInv, Typed, WireTyped, serverVars
<1>7. /\ InTurn(Tail(tcp), Head(tcp).cid, session)
      /\ udp_cid < Head(tcp).cid /\ Head(tcp).cid <= session
  BY <1>2, TurnRead DEF ReadSetup, VideoInv, Adopted
<1>8. Adopted'
  <2>1. ~udp_ready
    BY <1>2, <1>4, <1>7 DEF VideoInv, Adopted, ReadyIsCurrent
  <2>2. \A h \in hellos : h <= Head(tcp).cid
    BY <1>2, <1>4, <1>7 DEF VideoInv, Adopted
  <2>3. QED
    BY <1>7, <2>1, <2>2 DEF ReadSetup, Adopted, ReadyIsCurrent, serverVars
<1>9. Reassembled'
  BY DEF ReadSetup, ReasmReset, Idle, VideoInv, Reassembled, FramesWhole
<1>10. ASSUME network = "blocks" PROVE OverTcp'
  <2>1. /\ ThisSize' = ThisSize /\ ThisPicture' = ThisPicture /\ OverTcp
        /\ tcp' = Tail(tcp) /\ screen' = screen /\ resizes' = resizes
        /\ shown' = shown /\ drawings' = drawings
    BY <1>10 DEF ThisSize, ThisPicture, ReadSetup, serverVars, VideoInv
  <2>2. SizeTold(tcp) => SizeTold(tcp)'
    BY <1>2, <1>4, <2>1, LastRead DEF SizeTold
  <2>3. PictureTold(tcp) => PictureTold(tcp)'
    BY <1>2, <1>4, <2>1, LastRead DEF PictureTold
  <2>4. KeyTold(tcp) => KeyTold(tcp)'
    BY <1>2, <1>4, <2>1, LastRead DEF KeyTold
  <2>5. QED
    BY <2>1, <2>2, <2>3, <2>4 DEF OverTcp, ReadSetup, serverVars
<1>11. VideoInv'
  BY <1>1, <1>5, <1>6, <1>8, <1>9, <1>10 DEF VideoInv, Typed
<1>12. QED
  BY <1>2, <1>4, <1>7, <1>11 DEF ReadSetup

(* The viewer decodes a frame: one that a new encoder began with is a      *)
(* keyframe, so what comes last is shown.                                  *)
LEMMA ReadFrameKeeps ==
  ASSUME VideoInv, ReadFrame, network' = network PROVE VideoInv'
<1>1. ServerTyped' /\ Sent' /\ Reassembled'
  BY ServerTypedKept, SentKept, ReassembledKept
  DEF ReadFrame, VideoInv, Typed, serverVars
<1>2. /\ tcp \in Seq(Messages) /\ tcp # <<>> /\ udp_cid \in Nat /\ session \in Nat
  BY DEF ReadFrame, VideoInv, Typed, ServerTyped, WireTyped, ViewerTyped
<1>3. Tail(tcp) \in Seq(Messages) /\ Head(tcp) \in Messages
  BY <1>2, OneLess
<1> DEFINE frame == Head(tcp).frame
<1>4. /\ Head(tcp) \in IsFrame /\ Head(tcp) \notin IsSetup /\ Head(tcp) \notin IsSize
      /\ (Head(tcp) \in IsKey <=> frame.key)
      /\ frame \in Frames
  BY <1>3 DEF ReadFrame, Messages, IsSize, IsFrame, IsKey, IsSetup
<1>5. /\ decoder' = DecoderAfter(frame.key)
      /\ shown' = IF decoder' # "none" THEN frame ELSE shown
      /\ decoder' \in Decoders
  BY DEF ReadFrame, Shows, DecoderAfter, VideoInv, Typed, ViewerTyped, Decoders
<1>6. ViewerTyped' /\ WireTyped'
  BY <1>3, <1>4, <1>5 DEF ReadFrame, VideoInv, Typed, WireTyped, ViewerTyped, serverVars
<1>7. Adopted'
  BY <1>2, TurnRead DEF ReadFrame, VideoInv, Adopted, ReadyIsCurrent, serverVars
<1>8. ASSUME network = "blocks" PROVE OverTcp'
  <2>1. /\ ThisSize' = ThisSize /\ ThisPicture' = ThisPicture /\ OverTcp
        /\ tcp' = Tail(tcp) /\ screen' = screen /\ resizes' = resizes
        /\ drawings' = drawings
    BY <1>8 DEF ThisSize, ThisPicture, ReadFrame, serverVars, VideoInv
  <2>2. SizeTold(tcp) => SizeTold(tcp)'
    BY <1>2, <1>4, <2>1, LastRead DEF SizeTold
  <2>3. KeyTold(tcp) => KeyTold(tcp)'
    <3>1. CASE NoneIn(tcp, IsSetup \cup IsKey) /\ decoder = "keyframe"
      <4>1. NoneIn(Tail(tcp), IsSetup \cup IsKey)
        BY <1>2, <3>1, LastRead
      <4>2. decoder' = "keyframe"
        BY <1>5, <3>1 DEF DecoderAfter
      <4>3. QED
        BY <2>1, <4>1, <4>2 DEF KeyTold
    <3>2. CASE LastIn(tcp, IsSetup \cup IsKey, IsKey)
      <4>1. CASE LastIn(Tail(tcp), IsSetup \cup IsKey, IsKey)
        BY <2>1, <4>1 DEF KeyTold
      <4>2. CASE Head(tcp) \in IsKey /\ NoneIn(Tail(tcp), IsSetup \cup IsKey)
        <5>1. decoder' = "keyframe"
          BY <1>4, <1>5, <4>2 DEF DecoderAfter
        <5>2. QED
          BY <2>1, <4>2, <5>1 DEF KeyTold
      <4>3. QED
        BY <1>2, <3>2, <4>1, <4>2, LastRead
    <3>3. QED
      BY <3>1, <3>2 DEF KeyTold
  <2>4. ASSUME ~dirty, PictureTold(tcp) PROVE PictureTold(tcp)'
    <3>1. LastIn(tcp, IsFrame, ThisPicture)
      BY <1>2, <1>4, <2>4, LastRead DEF PictureTold
    <3>2. CASE LastIn(Tail(tcp), IsFrame, ThisPicture)
      BY <2>1, <3>2 DEF PictureTold
    <3>3. CASE Head(tcp) \in ThisPicture /\ NoneIn(Tail(tcp), IsFrame)
      <4>1. KeyTold(tcp)'
        BY <2>1, <2>3, <2>4 DEF OverTcp
      <4>2. ~LastIn(Tail(tcp), IsSetup \cup IsKey, IsKey)
        BY <3>3 DEF NoneIn, LastIn, IsKey
      <4>3. decoder' = "keyframe"
        BY <2>1, <4>1, <4>2 DEF KeyTold
      <4>4. shown'.content = drawings /\ shown'.size = resizes
        BY <1>5, <3>3, <4>3 DEF ThisPicture
      <4>5. QED
        BY <2>1, <3>3, <4>4 DEF PictureTold
    <3>4. QED
      BY <1>2, <3>1, <3>2, <3>3, LastRead
  <2>5. QED
    BY <2>1, <2>2, <2>3, <2>4 DEF OverTcp, ReadFrame, serverVars
<1>9. QED
  BY <1>1, <1>6, <1>7, <1>8 DEF VideoInv, Typed

-----------------------------------------------------------------------------
(* The server sends: the size if it is due, a session's setup, a frame. *)

LEMMA Announced ==
  ASSUME VideoInv, NEW m, m = tcp \o Announcement
  PROVE  /\ m \in Seq(Messages) /\ InTurn(m, udp_cid, session)
         /\ network = "blocks" =>
              /\ SizeTold(m)
              /\ ~dirty => PictureTold(m)
              /\ encoder = "running" => KeyTold(m)
<1>1. /\ tcp \in Seq(Messages) /\ resizes \in Nat /\ InTurn(tcp, udp_cid, session)
      /\ udp_cid \in Nat /\ session \in Nat /\ (network = "blocks" => OverTcp)
  BY DEF VideoInv, Typed, ServerTyped, WireTyped, ViewerTyped, Adopted
<1>2. CASE ~pending_ext_desktop_size
  <2>1. m = tcp
    BY <1>1, <1>2 DEF Announcement
  <2>2. QED
    BY <1>1, <1>2, <2>1 DEF OverTcp
<1>3. CASE pending_ext_desktop_size
  <2> DEFINE x == [type |-> "size", size |-> resizes]
  <2>1. m = tcp \o <<x>>
    BY <1>3 DEF Announcement
  <2>2. /\ x \in Messages /\ x \in IsSize /\ x \in ThisSize /\ x \notin IsFrame
        /\ x \notin IsSetup \cup IsKey /\ x.type # "setup"
    BY <1>1 DEF Messages, IsSize, ThisSize, IsFrame, IsSetup, IsKey
  <2> HIDE DEF x
  <2>3. m \in Seq(Messages) /\ InTurn(m, udp_cid, session)
    BY <1>1, <2>1, <2>2, OneMore, TurnSaid
  <2>4. SizeTold(m)
    BY <1>1, <2>1, <2>2, LastSaid DEF SizeTold
  <2>5. PictureTold(tcp) => PictureTold(m)
    BY <1>1, <2>1, <2>2, LastSaid DEF PictureTold
  <2>6. KeyTold(tcp) => KeyTold(m)
    BY <1>1, <2>1, <2>2, LastSaid DEF KeyTold
  <2>7. QED
    BY <1>1, <2>3, <2>4, <2>5, <2>6 DEF OverTcp
<1>4. QED
  BY <1>2, <1>3

\* The setup of the next session; none while one is set up.
LEMMA SetUp ==
  ASSUME VideoInv, NEW m, NEW n, m = tcp \o Announcement, n = m \o Setup
  PROVE  /\ n \in Seq(Messages)
         /\ InTurn(n, udp_cid, IF udp_setup_sent THEN session ELSE session + 1)
         /\ network = "blocks" =>
              /\ SizeTold(n)
              /\ encoder = "running" => KeyTold(n)
<1>1. /\ m \in Seq(Messages) /\ InTurn(m, udp_cid, session)
      /\ network = "blocks" => SizeTold(m) /\ (encoder = "running" => KeyTold(m))
  BY Announced
<1>2. /\ udp_cid \in Nat /\ session \in Nat /\ udp_cid <= session
      /\ (network = "blocks" => OverTcp)
  BY DEF VideoInv, Typed, ServerTyped, ViewerTyped, Adopted
<1>3. CASE udp_setup_sent
  <2>1. n = m
    BY <1>1, <1>3 DEF Setup
  <2>2. QED
    BY <1>1, <1>3, <2>1
<1>4. CASE ~udp_setup_sent
  <2> DEFINE x == [type |-> "setup", cid |-> session + 1]
  <2>1. n = m \o <<x>>
    BY <1>4 DEF Setup
  <2>2. /\ x \in Messages /\ x \notin IsSize /\ x.type = "setup" /\ x.cid = session + 1
    BY <1>2 DEF Messages, IsSize
  <2> HIDE DEF x
  <2>3. InTurn(m \o <<x>>, udp_cid, session + 1)
    BY <1>1, <1>2, <2>2, TurnSaid
  <2>4. n \in Seq(Messages)
    BY <1>1, <2>1, <2>2, OneMore
  <2>5. SizeTold(m) => SizeTold(n)
    BY <1>1, <2>1, <2>2, LastSaid DEF SizeTold
  <2>6. network = "blocks" => encoder # "running"
    BY <1>2, <1>4 DEF OverTcp
  <2>7. QED
    BY <1>1, <1>4, <2>1, <2>3, <2>5, <2>6, <2>4
<1>5. QED
  BY <1>3, <1>4

LEMMA SendSizeOnlyKeeps ==
  ASSUME VideoInv, SendSizeOnly, network' = network PROVE VideoInv'
<1> DEFINE m == tcp \o Announcement
<1>1. /\ m \in Seq(Messages) /\ InTurn(m, udp_cid, session)
      /\ network = "blocks" =>
           /\ SizeTold(m)
           /\ ~dirty => PictureTold(m)
           /\ encoder = "running" => KeyTold(m)
  BY Announced
<1>2. tcp' = m
  BY DEF SendSizeOnly
<1> HIDE DEF m
<1>3. /\ ServerTyped' /\ ViewerTyped' /\ Sent' /\ Reassembled'
  BY ViewerTypedKept, SentKept, ReassembledKept
  DEF SendSizeOnly, VideoInv, Typed, ServerTyped, viewerVars
<1>4. WireTyped'
  BY <1>1, <1>2 DEF SendSizeOnly, VideoInv, Typed, WireTyped
<1>5. Adopted'
  BY <1>1, <1>2 DEF SendSizeOnly, VideoInv, Adopted, ReadyIsCurrent, viewerVars
<1>6. ASSUME network = "blocks" PROVE OverTcp'
  <2>1. /\ ThisSize' = ThisSize /\ ThisPicture' = ThisPicture /\ screen' = screen
        /\ shown' = shown /\ decoder' = decoder /\ resizes' = resizes
        /\ drawings' = drawings /\ dirty' = dirty /\ encoder' = encoder
    BY DEF SendSizeOnly, ThisSize, ThisPicture, viewerVars
  <2>2. /\ SizeTold(tcp)'
        /\ ~dirty => PictureTold(tcp)'
        /\ encoder = "running" => KeyTold(tcp)'
    BY <1>1, <1>2, <1>6, <2>1 DEF SizeTold, PictureTold, KeyTold
  <2>3. QED
    BY <1>6, <2>1, <2>2 DEF SendSizeOnly, VideoInv, OverTcp
<1>7. QED
  BY <1>3, <1>4, <1>5, <1>6 DEF VideoInv, Typed

LEMMA SendNoFrameKeeps ==
  ASSUME VideoInv, SendNoFrame, network' = network PROVE VideoInv'
<1> DEFINE m == tcp \o Announcement
<1>1. /\ m \in Seq(Messages) /\ InTurn(m, udp_cid, session)
      /\ network = "blocks" =>
           /\ SizeTold(m)
           /\ ~dirty => PictureTold(m)
           /\ encoder = "running" => KeyTold(m)
  BY Announced
<1>2. tcp' = m
  BY DEF SendNoFrame
<1> HIDE DEF m
<1>3. ViewerTyped' /\ Sent' /\ Reassembled'
  BY ViewerTypedKept, SentKept, ReassembledKept
  DEF SendNoFrame, VideoInv, Typed, viewerVars
<1>4. ServerTyped'
  BY DEF SendNoFrame, UdpActive, Switches, VideoInv, Typed, ServerTyped
<1>5. WireTyped'
  BY <1>1, <1>2 DEF SendNoFrame, VideoInv, Typed, WireTyped
<1>6. Adopted'
  BY <1>1, <1>2 DEF SendNoFrame, VideoInv, Adopted, ReadyIsCurrent, viewerVars
<1>7. ASSUME network = "blocks" PROVE OverTcp'
  <2>1. /\ ThisSize' = ThisSize /\ ThisPicture' = ThisPicture /\ screen' = screen
        /\ shown' = shown /\ decoder' = decoder /\ resizes' = resizes
        /\ drawings' = drawings /\ encoder' = encoder
    BY DEF SendNoFrame, ThisSize, ThisPicture, viewerVars
  <2>2. ~Switches /\ (~dirty' => ~dirty)
    BY <1>7 DEF SendNoFrame, Switches, UdpActive, VideoInv, OverTcp
  <2>3. /\ SizeTold(tcp)'
        /\ ~dirty => PictureTold(tcp)'
        /\ encoder = "running" => KeyTold(tcp)'
    BY <1>1, <1>2, <1>7, <2>1 DEF SizeTold, PictureTold, KeyTold
  <2>4. QED
    BY <1>7, <2>1, <2>2, <2>3 DEF SendNoFrame, VideoInv, OverTcp
<1>8. QED
  BY <1>3, <1>4, <1>5, <1>6, <1>7 DEF VideoInv, Typed

(* What a frame, or an encoder without one, is prepared by.                *)
LEMMA Prepared ==
  ASSUME VideoInv, Prepare, network' = network
  PROVE  /\ ViewerTyped' /\ asked' \in BOOLEAN /\ hellos' \subseteq 1..session'
         /\ session' = (IF udp_setup_sent THEN session ELSE session + 1)
         /\ session' \in Nat /\ FirstId \in Nat
         /\ session <= session'
         /\ udp_setup_sent' /\ (udp_ready' => udp_ready /\ udp_setup_sent)
         /\ udp_ready' \in BOOLEAN /\ was_udp_active' \in BOOLEAN
         /\ \A n \in Seq(Messages) : tcp' = n /\ InTurn(n, udp_cid, session') => Adopted'
<1>1. /\ session \in Nat /\ udp_cid \in Nat /\ hellos \subseteq 1..session
      /\ udp_frame_id \in Nat /\ udp_setup_sent \in BOOLEAN /\ live \in BOOLEAN
      /\ udp_ready \in BOOLEAN /\ asked \in BOOLEAN
  BY DEF VideoInv, Typed, ServerTyped, WireTyped, ViewerTyped
<1>2. /\ udp_cid <= session /\ (\A h \in hellos : h <= udp_cid)
      /\ ReadyIsCurrent
  BY DEF VideoInv, Adopted
<1>3. /\ session' = (IF udp_setup_sent THEN session ELSE session + 1)
      /\ session' \in Nat /\ FirstId \in Nat /\ session <= session'
      /\ udp_setup_sent' /\ (udp_ready' => udp_ready /\ udp_setup_sent)
      /\ hellos' = hellos /\ udp_cid' = udp_cid /\ asked' = asked
      /\ udp_ready' \in BOOLEAN /\ was_udp_active' \in BOOLEAN
  <2>1. /\ hellos' = hellos /\ udp_cid' = udp_cid /\ asked' = asked
        /\ was_udp_active' \in BOOLEAN /\ FirstId \in Nat
    BY <1>1 DEF Prepare, FirstId, UdpActive, viewerVars
  <2>2. CASE udp_setup_sent
    BY <1>1, <2>1, <2>2 DEF Prepare
  <2>3. CASE ~udp_setup_sent
    <3>1. session' = session + 1 /\ ~udp_ready' /\ udp_setup_sent'
      BY <2>3 DEF Prepare
    <3>2. session <= session + 1 /\ session + 1 \in Nat
      BY <1>1
    <3>3. udp_ready' \in BOOLEAN
      BY <2>3 DEF Prepare
    <3>4. QED
      BY <2>1, <2>3, <3>1, <3>2, <3>3, Zenon
  <2>4. QED
    BY <2>2, <2>3
<1>4. ViewerTyped'
  BY ViewerTypedKept DEF Prepare, VideoInv, Typed
<1>5. hellos' \subseteq 1..session'
  BY <1>1, <1>3
<1>6. ReadyIsCurrent'
  BY <1>2, <1>3 DEF ReadyIsCurrent
<1>7. ASSUME NEW n \in Seq(Messages), tcp' = n, InTurn(n, udp_cid, session')
      PROVE  Adopted'
  <2>1. udp_cid <= session'
    BY <1>1, <1>2, <1>3
  <2>2. QED
    BY <1>2, <1>3, <1>6, <1>7, <2>1 DEF Adopted
<1>8. QED
  BY <1>1, <1>3, <1>4, <1>5, <1>7

\* A new session has sent no datagram yet.
LEMMA SessionKept ==
  ASSUME VideoInv, session' \in Nat, network' = network, net' = net,
         reasm' = reasm, last_completed' = last_completed, udp_cid' = udp_cid,
         assembled' = assembled,
         \/ session' = session /\ udp_frame_id' = udp_frame_id
         \/ session' = session + 1
  PROVE  Sent' /\ Reassembled'
<1>1. CASE session' = session /\ udp_frame_id' = udp_frame_id
  BY <1>1, SentKept, ReassembledKept DEF VideoInv
<1>2. CASE session' = session + 1
  <2>1. session \in Nat /\ udp_cid \in Nat /\ udp_cid <= session
    BY DEF VideoInv, Typed, ServerTyped, ViewerTyped, Adopted
  <2>2. \A i \in DOMAIN net : net[i].session \in Nat
    <3>1. \A f \in Fragments : f.session \in Nat
      BY DEF Fragments
    <3>2. \A i \in DOMAIN net : net[i] \in Fragments
      BY DEF VideoInv, Typed, WireTyped
    <3>3. QED
      BY <3>1, <3>2
  <2>3. \A i \in DOMAIN net :
          net[i].session <= session' /\ net[i].session # session'
    <3>1. \A i \in DOMAIN net : net[i].session <= session
      BY DEF VideoInv, Sent
    <3>2. \A a \in Nat : a <= session => a <= session + 1 /\ a # session + 1
      BY <2>1
    <3>3. QED
      BY <1>2, <2>2, <3>1, <3>2
  <2>4. Sent'
    BY <2>3 DEF VideoInv, Sent
  <2>5. Reassembled'
    <3>1. udp_cid' # session'
      BY <1>2, <2>1
    <3>2. QED
      BY <3>1 DEF VideoInv, Reassembled, FramesWhole
  <2>6. QED
    BY <2>4, <2>5
<1>3. QED
  BY <1>1, <1>2

LEMMA EncodeNothingKeeps ==
  ASSUME VideoInv, EncodeNothing, network' = network PROVE VideoInv'
<1> DEFINE m == tcp \o Announcement
           n == m \o Setup
<1>1. /\ n \in Seq(Messages)
      /\ InTurn(n, udp_cid, IF udp_setup_sent THEN session ELSE session + 1)
      /\ network = "blocks" =>
           /\ SizeTold(n)
           /\ encoder = "running" => KeyTold(n)
  BY SetUp
<1>2. tcp' = n
  BY DEF EncodeNothing
<1> HIDE DEF m, n
<1>3. /\ ViewerTyped' /\ asked' \in BOOLEAN /\ hellos' \subseteq 1..session'
      /\ session' = (IF udp_setup_sent THEN session ELSE session + 1)
      /\ session' \in Nat /\ FirstId \in Nat /\ udp_setup_sent'
      /\ (udp_ready' => udp_ready /\ udp_setup_sent)
      /\ udp_ready' \in BOOLEAN /\ was_udp_active' \in BOOLEAN
      /\ Adopted'
  BY <1>1, <1>2, Prepared DEF EncodeNothing
<1>4. ServerTyped'
  BY <1>3 DEF EncodeNothing, Prepare, VideoInv, Typed, ServerTyped, Encoders
<1>5. WireTyped'
  BY <1>1, <1>2, <1>3 DEF EncodeNothing, VideoInv, Typed, WireTyped
<1>6. Sent' /\ Reassembled'
  <2>1. \/ session' = session /\ udp_frame_id' = udp_frame_id
        \/ session' = session + 1
    BY <1>3 DEF EncodeNothing, FirstId
  <2>2. QED
    BY <1>3, <2>1, SessionKept DEF EncodeNothing, Prepare, viewerVars
<1>7. ASSUME network = "blocks" PROVE OverTcp'
  <2>1. /\ ThisSize' = ThisSize /\ ThisPicture' = ThisPicture /\ screen' = screen
        /\ decoder' = decoder /\ resizes' = resizes /\ dirty' = TRUE
    BY DEF EncodeNothing, Prepare, ThisSize, ThisPicture, viewerVars
  <2>2. encoder' = "running" => encoder = "running"
    BY DEF EncodeNothing
  <2>3. SizeTold(tcp)' /\ (encoder = "running" => KeyTold(tcp)')
    BY <1>1, <1>2, <1>7, <2>1 DEF SizeTold, KeyTold
  <2>4. ~udp_ready'
    BY <1>3, <1>7 DEF VideoInv, OverTcp
  <2>5. QED
    BY <1>3, <2>1, <2>2, <2>3, <2>4 DEF OverTcp
<1>8. QED
  BY <1>3, <1>4, <1>5, <1>6, <1>7 DEF VideoInv, Typed

LEMMA Fragmenting ==
  ASSUME session \in Nat, udp_frame_id \in Nat, NEW frame \in Frames,
         NEW count \in FragCounts
  PROVE  /\ Fragmented(frame, count) \in Seq(Fragments)
         /\ Len(Fragmented(frame, count)) = count /\ count \in Nat
         /\ \A i \in 1..count :
              /\ Fragmented(frame, count)[i].session = session
              /\ Fragmented(frame, count)[i].frame_id = udp_frame_id
              /\ Fragmented(frame, count)[i].idx < count
              /\ Fragmented(frame, count)[i].count = count
              /\ Fragmented(frame, count)[i].frame = frame
<1> DEFINE F == Fragmented(frame, count)
           G(i) == [session |-> session, frame_id |-> udp_frame_id,
                    idx |-> i - 1, count |-> count, frame |-> frame]
<1>1. count \in Nat \ {0}
  OBVIOUS
<1>2. ASSUME NEW i \in 1..count PROVE G(i) \in Fragments /\ i - 1 < count
  <2>1. i - 1 \in Nat /\ i - 1 < count
    BY <1>1
  <2>2. QED
    BY <1>1, <2>1 DEF Fragments
<1>3. F = [i \in 1..count |-> G(i)]
  BY DEF Fragmented
<1>4. F \in [1..count -> Fragments]
  BY <1>2, <1>3
<1>5. F \in Seq(Fragments) /\ Len(F) = count
  BY <1>1, <1>4
<1>6. \A i \in 1..count :
        /\ G(i).session = session /\ G(i).frame_id = udp_frame_id
        /\ G(i).idx < count /\ G(i).count = count /\ G(i).frame = frame
  BY <1>2
<1>7. \A i \in 1..count : F[i] = G(i)
  BY <1>3
<1> HIDE DEF F, G
<1>8. QED
  BY <1>1, <1>5, <1>6, <1>7 DEF F

\* The next frame of the session goes out in datagrams.
LEMMA FrameSent ==
  ASSUME VideoInv, NEW frame \in Frames, NEW count \in FragCounts, count <= MaxFrags,
         net' = net \o Fragmented(frame, count), udp_frame_id' = udp_frame_id + 1,
         session' = session, network' = network, reasm' = reasm,
         last_completed' = last_completed, udp_cid' = udp_cid, assembled' = assembled
  PROVE  /\ Sent' /\ Reassembled' /\ net' \in Seq(Fragments)
         /\ \A i \in DOMAIN net' : net'[i].idx < net'[i].count /\ net'[i].count <= MaxFrags
<1> DEFINE F == Fragmented(frame, count)
           new == net \o F
<1> HIDE DEF F
<1>1. /\ session \in Nat /\ udp_frame_id \in Nat /\ net \in Seq(Fragments)
      /\ udp_cid \in Nat /\ reasm \in Reassembly
      /\ \A i \in DOMAIN net : net[i].idx < net[i].count /\ net[i].count <= MaxFrags
  BY DEF VideoInv, Typed, ServerTyped, WireTyped, ViewerTyped
<1>2. /\ F \in Seq(Fragments) /\ Len(F) = count /\ count \in Nat
      /\ \A i \in 1..count :
           /\ F[i].session = session /\ F[i].frame_id = udp_frame_id
           /\ F[i].idx < count /\ F[i].count = count /\ F[i].frame = frame
  <2>1. session \in Nat /\ udp_frame_id \in Nat
    BY <1>1
  <2>2. QED
    BY <2>1, Fragmenting DEF F
<1>3. /\ new \in Seq(Fragments) /\ Len(new) = Len(net) + Len(F)
      /\ \A i \in 1..Len(net) + Len(F) :
           new[i] = IF i <= Len(net) THEN net[i] ELSE F[i - Len(net)]
  BY <1>1, <1>2, ConcatProperties
<1>4. Len(net) \in Nat /\ DOMAIN net = 1..Len(net) /\ DOMAIN new = 1..Len(net) + count
  BY <1>1, <1>2, <1>3
<1>5. \A i \in DOMAIN net : new[i] = net[i]
  BY <1>2, <1>3, <1>4
<1>6. ASSUME NEW i \in DOMAIN new, i \notin DOMAIN net
      PROVE  /\ new[i].session = session /\ new[i].frame_id = udp_frame_id
             /\ new[i].idx < new[i].count /\ new[i].count = count /\ new[i].frame = frame
  <2>1. i - Len(net) \in 1..count /\ ~(i <= Len(net)) /\ i \in 1..Len(net) + count
    BY <1>4, <1>6
  <2>2. new[i] = F[i - Len(net)]
    BY <1>2, <1>3, <2>1
  <2>3. QED
    BY <1>2, <2>1, <2>2
<1>7. \A i \in DOMAIN net : net[i].frame_id \in Nat /\ net[i].session \in Nat
  <2>1. \A f \in Fragments : f.frame_id \in Nat /\ f.session \in Nat
    BY DEF Fragments
  <2>2. \A i \in DOMAIN net : net[i] \in Fragments
    BY <1>1
  <2>3. QED
    BY <2>1, <2>2
<1>8. net' = new
  BY DEF F
<1> HIDE DEF new
<1>9. ASSUME NEW i \in DOMAIN new
      PROVE  /\ new[i].session <= session
             /\ new[i].session = session => new[i].frame_id < udp_frame_id + 1
  <2>1. CASE i \in DOMAIN net
    <3>1. /\ net[i].session <= session
          /\ net[i].session = session => net[i].frame_id < udp_frame_id
      BY <2>1 DEF VideoInv, Sent
    <3>2. QED
      BY <1>1, <1>5, <1>7, <2>1, <3>1
  <2>2. CASE i \notin DOMAIN net
    BY <1>1, <1>6, <2>2
  <2>3. QED
    BY <2>1, <2>2
<1>10. ASSUME network = "keeps order", NEW i \in DOMAIN new, NEW j \in DOMAIN new, i <= j
       PROVE  Follows(new[i], new[j])
  <2>1. CASE j \in DOMAIN net
    <3>1. \A a \in 1..Len(net) + count, b \in 1..Len(net) : a <= b => a \in 1..Len(net)
      BY <1>4
    <3>2. i \in DOMAIN net
      BY <1>4, <1>10, <2>1, <3>1, Zenon
    <3>3. QED
      BY <1>5, <1>10, <2>1, <3>2 DEF VideoInv, Sent
  <2>2. CASE j \notin DOMAIN net /\ i \in DOMAIN net
    <3>1. net[i].session = session => net[i].frame_id < udp_frame_id
      BY <2>2 DEF VideoInv, Sent
    <3>2. new[j].session = session /\ new[j].frame_id = udp_frame_id /\ new[i] = net[i]
      BY <1>5, <1>6, <2>2
    <3>3. net[i].frame_id < udp_frame_id =>
            net[i].frame_id <= udp_frame_id /\ net[i].frame_id # udp_frame_id
      BY <1>1, <1>7, <2>2
    <3>4. QED
      BY <3>1, <3>2, <3>3 DEF Follows
  <2>3. CASE j \notin DOMAIN net /\ i \notin DOMAIN net
    BY <1>1, <1>6, <2>3 DEF Follows
  <2>4. QED
    BY <2>1, <2>2, <2>3
<1>11. Sent'
  BY <1>8, <1>9, <1>10 DEF Sent
<1>12. Reassembled'
  <2>1. ASSUME reasm.active, udp_cid = session PROVE reasm.frame_id < udp_frame_id + 1
    <3>1. reasm.frame_id \in Nat
      BY <1>1 DEF Reassembly
    <3>2. reasm.frame_id < udp_frame_id
      BY <2>1 DEF VideoInv, Reassembled
    <3>3. QED
      BY <1>1, <3>1, <3>2
  <2>2. ASSUME network = "keeps order", reasm.active,
               NEW f \in reasm.got, NEW i \in DOMAIN new
        PROVE  Follows(f, new[i])
    <3>1. CASE i \in DOMAIN net
      BY <1>5, <2>2, <3>1 DEF VideoInv, Reassembled
    <3>2. CASE i \notin DOMAIN net
      <4>1. f.session = udp_cid /\ f.frame_id = reasm.frame_id
        BY <2>2 DEF VideoInv, Reassembled
      <4>2. udp_cid = session => reasm.frame_id < udp_frame_id
        BY <2>2 DEF VideoInv, Reassembled
      <4>3. reasm.frame_id < udp_frame_id =>
              reasm.frame_id <= udp_frame_id /\ reasm.frame_id # udp_frame_id
        BY <1>1 DEF Reassembly
      <4>4. new[i].session = session /\ new[i].frame_id = udp_frame_id
        BY <1>6, <3>2
      <4>5. QED
        BY <4>1, <4>2, <4>3, <4>4 DEF Follows
    <3>3. QED
      BY <3>1, <3>2
  <2>3. QED
    BY <1>8, <2>1, <2>2 DEF VideoInv, Reassembled, FramesWhole
<1>13. \A i \in DOMAIN new : new[i].idx < new[i].count /\ new[i].count <= MaxFrags
  BY <1>1, <1>5, <1>6
<1>14. QED
  BY <1>3, <1>8, <1>11, <1>12, <1>13 DEF new

LEMMA SendFrameKeeps ==
  ASSUME VideoInv, SendFrame, network' = network PROVE VideoInv'
<1> DEFINE m == tcp \o Announcement
           n == m \o Setup
<1>1. /\ m \in Seq(Messages) /\ InTurn(m, udp_cid, session)
      /\ n \in Seq(Messages)
      /\ InTurn(n, udp_cid, IF udp_setup_sent THEN session ELSE session + 1)
      /\ network = "blocks" =>
           /\ SizeTold(n)
           /\ encoder = "running" => KeyTold(n)
  BY Announced, SetUp
<1>2. /\ ViewerTyped' /\ asked' \in BOOLEAN /\ hellos' \subseteq 1..session'
      /\ session' = (IF udp_setup_sent THEN session ELSE session + 1)
      /\ session' \in Nat /\ FirstId \in Nat /\ udp_setup_sent'
      /\ (udp_ready' => udp_ready /\ udp_setup_sent)
      /\ udp_ready' \in BOOLEAN /\ was_udp_active' \in BOOLEAN
      /\ \A q \in Seq(Messages) : tcp' = q /\ InTurn(q, udp_cid, session') => Adopted'
  BY Prepared DEF SendFrame
<1>3. /\ udp_frame_id \in Nat /\ encoded \in Nat /\ drawings \in Nat /\ resizes \in Nat
      /\ session \in Nat /\ udp_cid \in Nat /\ udp_cid <= session
      /\ net \in Seq(Fragments) /\ network \in Networks
      /\ \A i \in DOMAIN net : net[i].idx < net[i].count /\ net[i].count <= MaxFrags
      /\ (udp_ready => udp_setup_sent)
      /\ (network = "blocks" => OverTcp)
  BY DEF VideoInv, Typed, ServerTyped, WireTyped, ViewerTyped, Adopted, ReadyIsCurrent
<1>4. /\ reasm' = reasm /\ last_completed' = last_completed /\ udp_cid' = udp_cid
      /\ assembled' = assembled /\ screen' = screen /\ decoder' = decoder
      /\ resizes' = resizes /\ drawings' = drawings /\ dirty' = FALSE
      /\ encoder' = "running" /\ encoded' = encoded + 1
      /\ pending_ext_desktop_size' = FALSE /\ force_keyframe_requested' = FALSE
      /\ lapses' = lapses /\ live' = live
  BY DEF SendFrame, Prepare, viewerVars
<1> DEFINE frame(key) == [number |-> encoded + 1, key |-> key, content |-> drawings,
                          size |-> resizes]
           OverUdp(key, count) ==
             /\ UdpActive /\ count <= MaxFrags
             /\ net' = net \o Fragmented(frame(key), count)
             /\ udp_frame_id' = udp_frame_id + 1
             /\ tcp' = m
           InStream(key) ==
             /\ tcp' = n \o <<[type |-> "frame", frame |-> frame(key)]>>
             /\ udp_frame_id' = FirstId
             /\ net' = net
<1>5. PICK key \in BOOLEAN, count \in FragCounts :
        (MustKey => key) /\ (OverUdp(key, count) \/ InStream(key))
  BY Zenon DEF SendFrame
<1>6. frame(key) \in Frames /\ frame(key).key = key
      /\ frame(key).content = drawings /\ frame(key).size = resizes
  BY <1>3 DEF Frames
<1>7. udp_frame_id' \in Nat
  BY <1>2, <1>3, <1>5
<1>8. ServerTyped'
  <2>1. encoded' \in Nat
    BY <1>3, <1>4
  <2>2. ServerTyped
    BY DEF VideoInv, Typed
  <2>3. QED
    BY <1>2, <1>4, <1>7, <2>1, <2>2 DEF ServerTyped, Encoders
<1> HIDE DEF m, n, frame
<1>9. CASE OverUdp(key, count)
  <2>1. udp_setup_sent /\ session' = session /\ network # "blocks"
    BY <1>2, <1>3, <1>9 DEF UdpActive, OverTcp
  <2>2. /\ Sent' /\ Reassembled' /\ net' \in Seq(Fragments)
        /\ \A i \in DOMAIN net' : net'[i].idx < net'[i].count /\ net'[i].count <= MaxFrags
    BY <1>4, <1>6, <1>9, <2>1, FrameSent
  <2>3. WireTyped'
    BY <1>1, <1>2, <1>3, <1>9, <2>2 DEF WireTyped
  <2>4. Adopted'
    BY <1>1, <1>2, <1>9, <2>1
  <2>5. QED
    BY <1>2, <1>8, <2>1, <2>2, <2>3, <2>4 DEF VideoInv, Typed
<1>10. CASE InStream(key)
  <2> DEFINE x == [type |-> "frame", frame |-> frame(key)]
  <2>1. /\ x \in Messages /\ x.type # "setup" /\ x \in IsFrame /\ x \in ThisPicture
        /\ x \notin IsSize /\ (x \in IsKey <=> key) /\ x \notin IsSetup
    BY <1>6 DEF Messages, IsFrame, ThisPicture, IsSize, IsKey, IsSetup
  <2>2. tcp' = n \o <<x>>
    BY <1>10
  <2> HIDE DEF x
  <2>3. n \o <<x>> \in Seq(Messages)
    BY <1>1, <2>1, OneMore
  <2>4. InTurn(n \o <<x>>, udp_cid, session')
    BY <1>1, <1>2, <1>3, <2>1, TurnSaid
  <2>5. Adopted'
    BY <1>2, <2>2, <2>3, <2>4
  <2>6. WireTyped'
    BY <1>2, <1>3, <1>10, <2>2, <2>3 DEF WireTyped
  <2>7. Sent' /\ Reassembled'
    <3>1. \/ session' = session /\ udp_frame_id' = udp_frame_id
          \/ session' = session + 1
      BY <1>2, <1>10 DEF FirstId
    <3>2. QED
      BY <1>2, <1>4, <1>10, <3>1, SessionKept
  <2>8. ASSUME network = "blocks" PROVE OverTcp'
    <3>1. ThisSize' = ThisSize /\ ThisPicture' = ThisPicture
      BY <1>4 DEF ThisSize, ThisPicture
    <3>2. SizeTold(tcp)'
      BY <1>1, <1>4, <2>1, <2>2, <2>8, <3>1, LastSaid DEF SizeTold
    <3>3. PictureTold(tcp)'
      BY <1>1, <2>1, <2>2, <3>1, LastSaid DEF PictureTold
    <3>4. KeyTold(tcp)'
      <4>1. CASE key
        BY <1>1, <2>1, <2>2, <4>1, LastSaid DEF KeyTold
      <4>2. CASE ~key
        <5>1. encoder = "running"
          BY <1>5, <4>2 DEF MustKey
        <5>2. QED
          BY <1>1, <1>4, <2>1, <2>2, <2>8, <4>2, <5>1, LastSaid DEF KeyTold
      <4>3. QED
        BY <4>1, <4>2
    <3>5. ~udp_ready'
      BY <1>2, <1>3, <2>8 DEF OverTcp
    <3>6. QED
      BY <1>2, <1>4, <3>2, <3>3, <3>4, <3>5 DEF OverTcp
  <2>9. QED
    BY <1>2, <1>8, <2>5, <2>6, <2>7, <2>8 DEF VideoInv, Typed
<1>11. QED
  BY <1>5, <1>9, <1>10

-----------------------------------------------------------------------------
(* A datagram reaches the viewer.  Base(f) and Got(f) are the frame under  *)
(* reassembly that fragment f is for, and what is there of it with f.      *)

Base(f) == IF Starts(f) THEN Started(f) ELSE reasm
Got(f) == IF \A g \in Base(f).got : g.idx # f.idx THEN Base(f).got \cup {f}
          ELSE Base(f).got
Refused(f) == Starts(f) /\ AlreadyDone(f)

LEMMA Adding ==
  ASSUME Typed, NEW f \in Fragments, AddFragment(f)
  PROVE  /\ asked' \in BOOLEAN /\ limited' \in BOOLEAN
         /\ decoder' \in Decoders /\ shown' \in Frames
         /\ \/ Drop
            \/ /\ ~Refused(f) /\ Cardinality(Got(f)) # Base(f).count
               /\ reasm' = [Base(f) EXCEPT !.got = Got(f)]
               /\ last_completed' = last_completed /\ assembled' = assembled
            \/ /\ ~Refused(f) /\ Cardinality(Got(f)) = Base(f).count
               /\ reasm' = Idle
               /\ last_completed' = f.frame_id /\ assembled' = Got(f)
<1>1. /\ asked \in BOOLEAN /\ limited \in BOOLEAN /\ decoder \in Decoders
      /\ shown \in Frames /\ f.frame \in Frames
  BY DEF Typed, WireTyped, ViewerTyped, Fragments
<1>2. CASE Refused(f)
  <2>1. Drop
    BY <1>2 DEF AddFragment, Refused
  <2>2. QED
    BY <1>1, <2>1 DEF Drop
<1>3. CASE ~Refused(f) /\ Cardinality(Got(f)) # Base(f).count
  <2>1. /\ reasm' = [Base(f) EXCEPT !.got = Got(f)]
        /\ asked' \in BOOLEAN /\ limited' \in BOOLEAN
        /\ UNCHANGED <<last_completed, decoder, shown, assembled>>
    BY <1>1, <1>3 DEF AddFragment, Refused, Got, Base, AskIf
  <2>2. QED
    BY <1>1, <1>3, <2>1
<1>4. CASE ~Refused(f) /\ Cardinality(Got(f)) = Base(f).count
  <2>1. /\ reasm' = Idle
        /\ asked' \in BOOLEAN /\ limited' \in BOOLEAN
        /\ last_completed' = f.frame_id
        /\ assembled' = Got(f)
    BY <1>1, <1>4 DEF AddFragment, Refused, Got, Base, AskIf
  <2>2. decoder' \in Decoders /\ shown' \in Frames
    BY <1>1, <1>4 DEF AddFragment, Refused, Got, Base, Shows, DecoderAfter, Decoders
  <2>3. QED
    BY <1>4, <2>1, <2>2
<1>5. QED
  BY <1>2, <1>3, <1>4

LEMMA WithOne ==
  ASSUME NEW S, IsFiniteSet(S), NEW x
  PROVE  /\ IsFiniteSet(S \cup {x}) /\ Cardinality(S) \in Nat
         /\ Cardinality(S \cup {x}) \in Nat
         /\ Cardinality(S \cup {x}) <= Cardinality(S) + 1
<1>1. /\ IsFiniteSet(S \cup {x})
      /\ Cardinality(S \cup {x}) = IF x \in S THEN Cardinality(S) ELSE Cardinality(S) + 1
  BY FS_AddElement
<1>2. Cardinality(S) \in Nat
  BY FS_CardinalityType
<1>3. QED
  BY <1>1, <1>2

(* Where datagrams keep their order, a fragment that does not begin a      *)
(* frame is one of the frame under reassembly.                             *)
LEMMA Growing ==
  ASSUME VideoInv, network # "blocks", NEW k \in Deliverable, NEW f, f = net[k],
         f.session = udp_cid, ~Refused(f)
  PROVE  /\ f \in Fragments /\ Base(f) \in Reassembly /\ Base(f).active
         /\ Got(f) \in SUBSET Fragments /\ IsFiniteSet(Got(f))
         /\ Cardinality(Got(f)) \in Nat /\ Cardinality(Got(f)) <= Base(f).count
         /\ Base(f).count <= MaxFrags
         /\ Base(f).frame_id > last_completed
         /\ udp_cid = session => Base(f).frame_id < udp_frame_id
         /\ Starts(f) => Base(f).frame_id = f.frame_id
         /\ network = "keeps order" =>
              /\ Base(f).frame_id = f.frame_id
              /\ \A g \in Got(f) : g.session = udp_cid /\ g.frame_id = Base(f).frame_id
                                   /\ g.count = Base(f).count
              /\ \A g, h \in Got(f) : g.frame = h.frame
              /\ \A g \in Got(f), j \in DOMAIN net : Follows(g, net[j])
              /\ Got(f) # {}
<1>1. /\ net \in Seq(Fragments) /\ reasm \in Reassembly /\ IsFiniteSet(reasm.got)
      /\ (reasm.active => Cardinality(reasm.got) < reasm.count /\ reasm.count <= MaxFrags)
      /\ last_completed \in Nat \cup {-1} /\ network \in Networks
      /\ \A i \in DOMAIN net : net[i].idx < net[i].count /\ net[i].count <= MaxFrags
  BY DEF VideoInv, Typed, WireTyped, ViewerTyped
<1>2. k \in DOMAIN net /\ (network = "keeps order" => k = 1)
  BY DEF Deliverable
<1>3. f \in Fragments /\ f.idx < f.count /\ f.count <= MaxFrags
  <2>1. net[k] \in Fragments
    BY <1>1, <1>2, TakenOut
  <2>2. net[k].idx < net[k].count /\ net[k].count <= MaxFrags
    BY <1>1, <1>2
  <2>3. QED
    BY <2>1, <2>2
<1>4. f.count \in Nat /\ f.idx \in Nat /\ f.frame_id \in Nat
  BY <1>3 DEF Fragments
<1>5. udp_cid = session => f.frame_id < udp_frame_id
  BY <1>2 DEF VideoInv, Sent
<1>6. network = "keeps order" => \A j \in DOMAIN net : Follows(f, net[j])
  <2>1. \A j \in DOMAIN net : 1 <= j
    BY <1>1
  <2>2. QED
    BY <1>2, <2>1 DEF VideoInv, Sent
<1>7. CASE Starts(f)
  <2>1. Base(f) = Started(f)
    BY <1>7 DEF Base
  <2>2. /\ Started(f) \in Reassembly /\ Started(f).active /\ Started(f).got = {}
        /\ Started(f).frame_id = f.frame_id /\ Started(f).count = f.count
    BY <1>4 DEF Started, Reassembly
  <2>3. Got(f) = {f}
    BY <2>1, <2>2 DEF Got
  <2>4. IsFiniteSet({f}) /\ Cardinality({f}) = 1 /\ 1 <= f.count
    <3>1. 1 <= f.count
      BY <1>3, <1>4
    <3>2. QED
      BY <3>1, FS_Singleton
  <2>5. f.frame_id > last_completed
    BY <1>1, <1>4, <1>7 DEF Refused, AlreadyDone
  <2>6. {f} \in SUBSET Fragments
    BY <1>3
  <2>7. /\ \A g \in {f} : g.session = udp_cid /\ g.frame_id = f.frame_id
                          /\ g.count = f.count
        /\ \A g, h \in {f} : g.frame = h.frame
        /\ network = "keeps order" => \A g \in {f}, j \in DOMAIN net : Follows(g, net[j])
    BY <1>6
  <2>8. /\ Base(f) \in Reassembly /\ Base(f).active /\ Base(f).frame_id = f.frame_id
        /\ Base(f).count = f.count
    BY <2>1, <2>2
  <2>9. /\ Got(f) \in SUBSET Fragments /\ IsFiniteSet(Got(f))
        /\ Cardinality(Got(f)) \in Nat /\ Cardinality(Got(f)) <= f.count
        /\ Got(f) # {}
    BY <2>3, <2>4, <2>6
  <2>10. /\ \A g \in Got(f) : g.session = udp_cid /\ g.frame_id = f.frame_id
                              /\ g.count = f.count
         /\ \A g, h \in Got(f) : g.frame = h.frame
         /\ network = "keeps order" =>
              \A g \in Got(f), j \in DOMAIN net : Follows(g, net[j])
    BY <2>3, <2>7
  <2>11. QED
    BY <1>3, <1>5, <2>5, <2>8, <2>9, <2>10
<1>8. CASE ~Starts(f)
  <2>1. Base(f) = reasm /\ reasm.active
    BY <1>8 DEF Base, Starts
  <2>2. Got(f) = reasm.got \/ Got(f) = reasm.got \cup {f}
    BY <2>1 DEF Got
  <2>3. reasm.got \in SUBSET Fragments /\ reasm.count \in Nat /\ reasm.frame_id \in Nat
    BY <1>1 DEF Reassembly
  <2>4. Got(f) \in SUBSET Fragments /\ IsFiniteSet(Got(f))
    <3>1. reasm.got \cup {f} \in SUBSET Fragments /\ IsFiniteSet(reasm.got \cup {f})
      BY <1>1, <1>3, <2>3, WithOne
    <3>2. QED
      BY <1>1, <2>2, <2>3, <3>1
  <2>5. Cardinality(Got(f)) \in Nat /\ Cardinality(Got(f)) <= reasm.count
    <3>1. Cardinality(reasm.got) \in Nat /\ Cardinality(reasm.got) < reasm.count
      BY <1>1, <2>1, FS_CardinalityType
    <3>2. CASE Got(f) = reasm.got
      BY <2>3, <3>1, <3>2
    <3>3. CASE Got(f) = reasm.got \cup {f}
      <4>1. /\ Cardinality(Got(f)) \in Nat
            /\ Cardinality(Got(f)) <= Cardinality(reasm.got) + 1
        BY <1>1, <3>3, WithOne
      <4>2. QED
        BY <2>3, <3>1, <4>1
    <3>4. QED
      BY <2>2, <3>2, <3>3
  <2>6. /\ reasm.frame_id > last_completed
        /\ udp_cid = session => reasm.frame_id < udp_frame_id
    BY <2>1 DEF VideoInv, Reassembled
  <2>7. ASSUME network = "keeps order"
        PROVE  /\ reasm.frame_id = f.frame_id
               /\ \A g \in Got(f) : g.session = udp_cid /\ g.frame_id = reasm.frame_id
                                    /\ g.count = reasm.count
               /\ \A g, h \in Got(f) : g.frame = h.frame
               /\ \A g \in Got(f), j \in DOMAIN net : Follows(g, net[j])
               /\ Got(f) # {}
    <3>1. /\ \A g \in reasm.got :
               g.session = udp_cid /\ g.frame_id = reasm.frame_id /\ g.count = reasm.count
          /\ \A g, h \in reasm.got : g.frame = h.frame
          /\ \A g \in reasm.got, j \in DOMAIN net : Follows(g, net[j])
          /\ reasm.got # {}
      BY <2>1, <2>7 DEF VideoInv, Reassembled
    <3>2. PICK g \in reasm.got : TRUE
      BY <3>1
    <3>3. Follows(g, f)
      BY <1>2, <3>1
    <3>4. g.frame_id <= f.frame_id /\ ~(f.frame_id > reasm.frame_id)
      BY <1>8, <3>1, <3>3 DEF Follows, Starts
    <3>5. f.frame_id = reasm.frame_id
      BY <1>4, <2>3, <3>1, <3>4
    <3>6. f.frame = g.frame /\ f.count = reasm.count
      BY <3>1, <3>3, <3>5 DEF Follows
    <3>7. \A h \in Got(f) : h \in reasm.got \/ h = f
      BY <2>2
    <3>8. QED
      BY <1>6, <2>2, <2>7, <3>1, <3>5, <3>6, <3>7
  <2>8. QED
    BY <1>1, <1>3, <1>8, <2>1, <2>4, <2>5, <2>6, <2>7
<1>9. QED
  BY <1>7, <1>8

LEMMA UdpDrainKeeps ==
  ASSUME VideoInv, NEW k \in Deliverable, UdpDrain(k), network' = network
  PROVE  VideoInv'
<1>1. ServerTyped' /\ tcp' = tcp /\ hellos' = hellos /\ screen' = screen
      /\ udp_cid' = udp_cid /\ session' = session /\ udp_frame_id' = udp_frame_id
      /\ udp_ready' = udp_ready /\ udp_setup_sent' = udp_setup_sent
      /\ network # "blocks" /\ net' = RemoveAt(net, k)
  BY ServerTypedKept DEF UdpDrain, VideoInv, Typed, serverVars
<1>2. /\ net \in Seq(Fragments) /\ k \in DOMAIN net
      /\ udp_cid \in Nat /\ network \in Networks /\ asked \in BOOLEAN
      /\ hellos \subseteq 1..session
      /\ \A i \in DOMAIN net : net[i].idx < net[i].count /\ net[i].count <= MaxFrags
      /\ Typed
  BY DEF VideoInv, Typed, WireTyped, ViewerTyped, Deliverable
<1>3. /\ RemoveAt(net, k) \in Seq(Fragments) /\ net[k] \in Fragments
  BY <1>2, TakenOut
<1>4. Sent' /\ \A i \in DOMAIN net' : \E j \in DOMAIN net : net'[i] = net[j]
  BY <1>1, <1>2, SentLess DEF VideoInv
<1>5. Adopted'
  BY <1>1, <1>2, AdoptedKept DEF VideoInv, Adopted, ReadyIsCurrent
<1> DEFINE f == net[k]
<1>6. \/ net[k].session # udp_cid /\ Drop
      \/ net[k].session = udp_cid /\ AddFragment(net[k])
  BY DEF UdpDrain
<1>7. ASSUME asked' \in BOOLEAN PROVE WireTyped'
  <2>1. \A i \in DOMAIN net' : net'[i].idx < net'[i].count /\ net'[i].count <= MaxFrags
    BY <1>2, <1>4
  <2>2. net' \in Seq(Fragments)
    BY <1>1, <1>3
  <2>3. WireTyped
    BY <1>2 DEF Typed
  <2>4. QED
    BY <1>1, <1>7, <2>1, <2>2, <2>3 DEF WireTyped
<1>8. ASSUME WireTyped', ViewerTyped', Reassembled' PROVE VideoInv'
  BY <1>1, <1>4, <1>5, <1>8 DEF VideoInv, Typed
<1>9. CASE Drop
  <2>1. WireTyped'
    BY <1>2, <1>7, <1>9 DEF Drop
  <2>2. ViewerTyped'
    BY <1>1, <1>2, <1>9 DEF Drop, Typed, ViewerTyped
  <2>3. Reassembled'
    BY <1>1, <1>4, <1>9 DEF Drop, VideoInv, Reassembled, FramesWhole
  <2>4. QED
    BY <1>8, <2>1, <2>2, <2>3
<1>10. CASE f.session = udp_cid /\ AddFragment(f) /\ ~Drop
  <2>1. /\ asked' \in BOOLEAN /\ limited' \in BOOLEAN
        /\ decoder' \in Decoders /\ shown' \in Frames
        /\ \/ /\ ~Refused(f) /\ Cardinality(Got(f)) # Base(f).count
              /\ reasm' = [Base(f) EXCEPT !.got = Got(f)]
              /\ last_completed' = last_completed /\ assembled' = assembled
           \/ /\ ~Refused(f) /\ Cardinality(Got(f)) = Base(f).count
              /\ reasm' = Idle
              /\ last_completed' = f.frame_id /\ assembled' = Got(f)
    BY <1>2, <1>3, <1>10, Adding
  <2>2. ~Refused(f)
    BY <2>1
  <2>3. /\ f \in Fragments /\ Base(f) \in Reassembly /\ Base(f).active
        /\ Got(f) \in SUBSET Fragments /\ IsFiniteSet(Got(f))
        /\ Cardinality(Got(f)) \in Nat /\ Cardinality(Got(f)) <= Base(f).count
        /\ Base(f).count <= MaxFrags
        /\ Base(f).frame_id > last_completed
        /\ udp_cid = session => Base(f).frame_id < udp_frame_id
        /\ network = "keeps order" =>
             /\ Base(f).frame_id = f.frame_id
             /\ \A g \in Got(f) : g.session = udp_cid /\ g.frame_id = Base(f).frame_id
                                  /\ g.count = Base(f).count
             /\ \A g, h \in Got(f) : g.frame = h.frame
             /\ \A g \in Got(f), j \in DOMAIN net : Follows(g, net[j])
             /\ Got(f) # {}
    BY <1>1, <1>10, <2>2, Growing
  <2>4. Base(f).count \in Nat /\ f.frame_id \in Nat
    BY <2>3 DEF Reassembly, Fragments
  <2>5. WireTyped'
    BY <1>7, <2>1
  <2>6. /\ screen' \in Nat /\ udp_cid' \in Nat
        /\ last_completed \in Nat \cup {-1} /\ assembled \in SUBSET Fragments
    BY <1>1, <1>2 DEF Typed, ViewerTyped
  <2> HIDE DEF f
  <2>7. CASE /\ Cardinality(Got(f)) # Base(f).count
             /\ reasm' = [Base(f) EXCEPT !.got = Got(f)]
             /\ last_completed' = last_completed /\ assembled' = assembled
    <3>1. /\ reasm' \in Reassembly /\ reasm'.got = Got(f) /\ reasm'.active
          /\ reasm'.frame_id = Base(f).frame_id /\ reasm'.count = Base(f).count
      BY <2>3, <2>7 DEF Reassembly
    <3>2. Cardinality(Got(f)) < Base(f).count
      <4>1. Cardinality(Got(f)) \in Nat /\ Cardinality(Got(f)) <= Base(f).count
        BY <2>3
      <4>2. QED
        BY <2>4, <2>7, <4>1
    <3>3. ViewerTyped'
      BY <2>1, <2>3, <2>6, <2>7, <3>1, <3>2 DEF ViewerTyped
    <3>4. Reassembled'
      <4>1. /\ reasm'.frame_id > last_completed'
            /\ udp_cid' = session' => reasm'.frame_id < udp_frame_id'
        BY <1>1, <2>3, <2>7, <3>1
      <4>2. ASSUME network = "keeps order"
            PROVE  /\ \A g \in reasm'.got : g.session = udp_cid'
                        /\ g.frame_id = reasm'.frame_id /\ g.count = reasm'.count
                   /\ \A g, h \in reasm'.got : g.frame = h.frame
                   /\ \A g \in reasm'.got, i \in DOMAIN net' : Follows(g, net'[i])
                   /\ reasm'.got # {}
        BY <1>1, <1>4, <2>3, <3>1, <4>2
      <4>3. FramesWhole'
        BY <2>7 DEF VideoInv, Reassembled, FramesWhole
      <4>4. QED
        BY <4>1, <4>2, <4>3 DEF Reassembled
    <3>5. QED
      BY <1>8, <2>5, <3>3, <3>4
  <2>8. CASE /\ Cardinality(Got(f)) = Base(f).count
             /\ reasm' = Idle
             /\ last_completed' = f.frame_id /\ assembled' = Got(f)
    <3>1. Idle \in Reassembly /\ ~Idle.active /\ IsFiniteSet(Idle.got)
      BY FS_EmptySet DEF Idle, Reassembly
    <3>2. ViewerTyped'
      BY <2>1, <2>3, <2>4, <2>6, <2>8, <3>1 DEF ViewerTyped
    <3>3. FramesWhole'
      <4>1. ASSUME network = "keeps order", Got(f) # {}
            PROVE  /\ Cardinality({g.frame : g \in Got(f)}) = 1
                   /\ \A g \in Got(f) : g.count = Cardinality(Got(f))
        <5>1. PICK h \in Got(f) : TRUE
          BY <4>1
        <5>2. {g.frame : g \in Got(f)} = {h.frame}
          BY <2>3, <4>1, <5>1
        <5>3. Cardinality({h.frame}) = 1
          BY FS_Singleton
        <5>4. QED
          BY <2>3, <2>8, <4>1, <5>2, <5>3
      <4>2. QED
        BY <2>8, <4>1 DEF FramesWhole
    <3>4. Reassembled'
      BY <2>8, <3>1, <3>3 DEF Reassembled
    <3>5. QED
      BY <1>8, <2>5, <3>2, <3>4
  <2>9. QED
    BY <2>1, <2>7, <2>8
<1>11. QED
  BY <1>6, <1>9, <1>10

(* A frame that is completed is later than those completed before.         *)
LEMMA Later ==
  ASSUME VideoInv, NEW k \in Deliverable, UdpDrain(k),
         network = "reorders" => ~reasm.active
  PROVE  \/ last_completed' = last_completed /\ assembled' = assembled
         \/ last_completed' > last_completed
<1>1. network # "blocks" /\ network \in Networks /\ Typed
  BY DEF UdpDrain, VideoInv, Typed, WireTyped
<1>2. net[k] \in Fragments
  BY TakenOut DEF Deliverable, VideoInv, Typed, WireTyped
<1>3. CASE net[k].session # udp_cid
  BY <1>3 DEF UdpDrain, Drop
<1>4. CASE net[k].session = udp_cid
  <2> DEFINE f == net[k]
  <2>1. AddFragment(f)
    BY <1>4 DEF UdpDrain
  <2>2. \/ Drop
        \/ last_completed' = last_completed /\ assembled' = assembled
        \/ ~Refused(f) /\ last_completed' = f.frame_id
    BY <1>1, <1>2, <2>1, Adding
  <2>3. ASSUME ~Refused(f) PROVE f.frame_id > last_completed
    <3>1. /\ Base(f).frame_id > last_completed
          /\ Starts(f) => Base(f).frame_id = f.frame_id
          /\ network = "keeps order" => Base(f).frame_id = f.frame_id
      BY <1>1, <1>4, <2>3, Growing
    <3>2. network = "keeps order" \/ Starts(f)
      BY <1>1 DEF Networks, Starts
    <3>3. QED
      BY <3>1, <3>2
  <2>4. QED
    BY <2>2, <2>3 DEF Drop
<1>5. QED
  BY <1>3, <1>4

-----------------------------------------------------------------------------
(* The invariant holds first, is kept by every step, and says enough.      *)

LEMMA InitVideo == Init => VideoInv
<1> SUFFICES ASSUME Init PROVE VideoInv
  OBVIOUS
<1>1. /\ tcp = <<>> /\ net = <<>> /\ DOMAIN tcp = {} /\ DOMAIN net = {}
      /\ tcp \in Seq(Messages) /\ net \in Seq(Fragments)
  BY DEF Init
<1>2. ServerTyped
  <2>1. 0 \in 0..MaxEvents /\ 0 \in Nat
    BY DEF VideoAssumption
  <2>2. QED
    BY <2>1 DEF Init, ServerTyped, Encoders
<1>3. WireTyped
  BY <1>1 DEF Init, WireTyped
<1>4. ViewerTyped
  <2>1. Idle \in Reassembly /\ ~Idle.active /\ IsFiniteSet(Idle.got)
    BY FS_EmptySet DEF Idle, Reassembly
  <2>2. Nothing \in Frames
    BY DEF Nothing, Frames
  <2>3. QED
    BY <2>1, <2>2 DEF Init, ViewerTyped, Decoders
<1>5. Adopted
  BY <1>1 DEF Init, Adopted, InTurn, ReadyIsCurrent
<1>6. Sent
  BY <1>1 DEF Init, Sent
<1>7. Reassembled
  BY DEF Init, Reassembled, Idle, FramesWhole
<1>8. OverTcp
  BY DEF Init, OverTcp
<1>9. QED
  BY <1>2, <1>3, <1>4, <1>5, <1>6, <1>7, <1>8 DEF VideoInv, Typed

LEMMA StepVideo == VideoInv /\ [Next]_vars => VideoInv'
<1> SUFFICES ASSUME VideoInv, [Next]_vars PROVE VideoInv'
  OBVIOUS
<1>1. CASE UNCHANGED vars
  <2>1. UNCHANGED serverVars /\ UNCHANGED viewerVars
    BY <1>1 DEF vars
  <2>2. network' = network /\ tcp' = tcp /\ asked' = asked /\ net' = net /\ hellos' = hellos
    BY <1>1 DEF vars
  <2>3. /\ session' = session /\ udp_frame_id' = udp_frame_id /\ udp_ready' = udp_ready
        /\ udp_setup_sent' = udp_setup_sent /\ screen' = screen /\ shown' = shown
        /\ decoder' = decoder /\ asked \in BOOLEAN
        /\ (udp_ready => udp_setup_sent)
    BY <2>1 DEF serverVars, viewerVars, VideoInv, Typed, WireTyped, Adopted, ReadyIsCurrent
  <2>4. WireTyped' /\ ViewerTyped' /\ Adopted' /\ Sent' /\ Reassembled'
    BY <2>1, <2>2, <2>3, WireAndViewerKept
  <2>5. ServerTyped' /\ (network = "blocks" => OverTcp')
    BY <2>1, <2>2, <2>3, ServerTypedKept, OverTcpKept DEF VideoInv, Typed
  <2>6. QED
    BY <2>2, <2>4, <2>5 DEF VideoInv, Typed
<1>2. CASE Next
  <2>1. network' = network
    BY <1>2 DEF Next
  <2>2. CASE Server
    BY <2>1, <2>2, DrawKeeps, ResizeKeeps, RequestKeyframeKeeps, LapseKeeps,
       HandleIncomingKeeps, SendSizeOnlyKeeps, SendNoFrameKeeps, EncodeNothingKeeps,
       SendFrameKeeps
    DEF Server
  <2>3. CASE Network
    BY <2>1, <2>3, LoseVideoKeeps, LoseHelloKeeps DEF Network
  <2>4. CASE Viewer
    BY <2>1, <2>4, ReadSizeKeeps, ReadSetupKeeps, ReadFrameKeeps, UdpDrainKeeps,
       ReasmTimeoutKeeps, LimitOverKeeps, SendHelloKeeps
    DEF Viewer
  <2>5. QED
    BY <1>2, <2>2, <2>3, <2>4 DEF Next
<1>3. QED
  BY <1>1, <1>2

LEMMA VideoAlways == Spec => []VideoInv
BY InitVideo, StepVideo, PTL DEF Spec

LEMMA TypesFollow == VideoInv => TypeOK
<1> SUFFICES ASSUME VideoInv PROVE TypeOK
  OBVIOUS
<1>1. ServerTyped /\ WireTyped /\ ViewerTyped
  BY DEF VideoInv, Typed
<1>2. \A f \in ToSet(net) : f \in Fragments /\ f.idx < f.count
  BY <1>1 DEF ToSet, WireTyped
<1>3. QED
  BY <1>1, <1>2 DEF ServerTyped, WireTyped, ViewerTyped, TypeOK

LEMMA ShownFollows == VideoInv => ShownOverTcp
<1> SUFFICES ASSUME VideoInv, network = "blocks", tcp = <<>>, ~dirty
             PROVE  /\ shown.content = drawings
                    /\ shown.size = resizes /\ screen = resizes
                    /\ decoder = "keyframe"
  BY DEF ShownOverTcp
<1>1. DOMAIN tcp = {} /\ OverTcp
  BY DEF VideoInv
<1>2. \A kind, good : ~LastIn(tcp, kind, good)
  BY <1>1 DEF LastIn
<1>3. QED
  BY <1>1, <1>2 DEF OverTcp, SizeTold, PictureTold, KeyTold

-----------------------------------------------------------------------------
(* Whatever is lost or comes late, a frame under reassembly and every      *)
(* fragment on its way are of their types: fewer fragments are there than  *)
(* the frame has, and never more than VNC_UDP_MAX_FRAGS are waited for     *)
(* (reasm_add_fragment(), vncview.c).                                      *)
THEOREM VideoTypes == Spec => []TypeOK
BY VideoAlways, TypesFollow, PTL

(* The server takes UDP for live only for a viewer that adopted the        *)
(* session it sends in: sessions are set up over TCP with rising ids, a    *)
(* HELLO carries one the viewer has adopted, and a resize, which gives the *)
(* session up, makes its HELLOs count for nothing                          *)
(* (vnc_udp_server_handle_incoming(), vnc_resize_framebuffer()).           *)
THEOREM SessionIsCurrent == Spec => []ReadyIsCurrent
<1>1. VideoInv => ReadyIsCurrent
  BY DEF VideoInv, Adopted
<1>2. QED
  BY <1>1, VideoAlways, PTL

(* Where datagrams keep their order, every frame the viewer decodes from   *)
(* datagrams was put together from all the fragments of one frame          *)
(* (reasm_add_fragment()), for any number of fragments and any losses.     *)
THEOREM FramesAreWhole == Spec => []FramesWhole
<1>1. VideoInv => FramesWhole
  BY DEF VideoInv, Reassembled
<1>2. QED
  BY <1>1, VideoAlways, PTL

(* Where no datagram passes, a viewer that has read everything shows the   *)
(* framebuffer at its size, unless a frame is still due: the last size and *)
(* the last frame sent are the current ones, and a frame that is not a     *)
(* keyframe follows one (vnc_send_video_update()).                         *)
THEOREM VideoOverTcp == Spec => []ShownOverTcp
BY VideoAlways, ShownFollows, PTL

(* Frames of a session are completed in the order of sending and once each *)
(* (last_completed_frame_id, vncview.c), as long as no datagram that comes *)
(* out of order finds a frame under reassembly.                            *)
THEOREM CompletedOnceInOrder == Spec => CompletedInOrder
<1>1. ASSUME VideoInv, [Next]_vars
      PROVE  [/\ udp_cid' = udp_cid
              /\ network = "reorders" => ~reasm.active
              => /\ last_completed' >= last_completed
                 /\ assembled' # assembled => last_completed' > last_completed]_vars
  <2> SUFFICES ASSUME Next, udp_cid' = udp_cid,
                      network = "reorders" => ~reasm.active
               PROVE  /\ last_completed' >= last_completed
                      /\ assembled' # assembled => last_completed' > last_completed
    BY <1>1
  <2>1. last_completed \in Int /\ last_completed' \in Int
    <3>1. VideoInv'
      BY <1>1, StepVideo
    <3>2. last_completed \in Nat \cup {-1} /\ last_completed' \in Nat \cup {-1}
      BY <1>1, <3>1 DEF VideoInv, Typed, ViewerTyped
    <3>3. QED
      BY <3>2
  <2>2. network' = network
    BY DEF Next
  <2>3. CASE last_completed' = last_completed /\ assembled' = assembled
    BY <2>1, <2>3
  <2>4. CASE \E k \in Deliverable : UdpDrain(k)
    BY <1>1, <2>1, <2>4, Later
  <2>5. ~ReadSetup
    BY <1>1, <2>2, ReadSetupKeeps
  <2>6. CASE Server
    BY <2>3, <2>6
    DEF Server, Draw, ResizeFramebuffer, RequestKeyframe, Lapse, HandleIncoming,
      SendSizeOnly, SendNoFrame, EncodeNothing, SendFrame, Prepare, viewerVars
  <2>7. CASE Network
    BY <2>3, <2>7 DEF Network, LoseVideo, LoseHello, viewerVars
  <2>8. CASE Viewer
    BY <2>3, <2>4, <2>5, <2>8
    DEF Viewer, ReadSize, ReadFrame, ReasmTimeout, LimitOver, SendHello, viewerVars
  <2>9. QED
    BY <2>6, <2>7, <2>8 DEF Next
<1>2. QED
  BY <1>1, VideoAlways, PTL DEF Spec, CompletedInOrder
=============================================================================
