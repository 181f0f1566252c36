--------------------------- MODULE ChannelsProofs ---------------------------
(***************************************************************************)
(* The two channels of a session, for all sizes and whatever is written,   *)
(* taken and received.                                                     *)
(*                                                                         *)
(* The buffered connection (ClientOutput).  The invariant of what goes out *)
(* is Delivered: what the peer has read, and what waits in the buffer      *)
(* after write_pos, are together what the handlers have written, and a     *)
(* browser is between two frames; every flush, growth and write keeps it,  *)
(* as long as a browser's connection takes what it is given.  The          *)
(* invariant of what comes in is InExact: the buffer holds just what came  *)
(* after the last frame that is complete.                                  *)
(*                                                                         *)
(* The datagrams (ReplayWindow).  The invariant is TypeOK together with    *)
(* WindowExact: what the bitmap says about the last W numbers is all that  *)
(* the function knows, and WindowExact is the fact that this is what was   *)
(* accepted.                                                               *)
(***************************************************************************)
EXTENDS ClientOutput, ReplayWindow, SteppingProofs, FiniteSetTheorems,
        SequenceTheorems, TLAPS

-----------------------------------------------------------------------------
(* The operations of handlers, and how much they write. *)

Parts == {"size", "cursor", "none"}
AppendOps == {o \in [op : {"append"}, len : Nat, reserve : Nat, part : Parts] :
                o.len <= o.reserve}
OtherOps == [op : {"flush", "return_if_unsent"}, len : {0}]
Ops == AppendOps \cup OtherOps

\* What is known of one operation of a handler.
LEMMA OpFacts ==
  ASSUME NEW o \in Ops
  PROVE  /\ o.len \in Nat
         /\ o.op = "append" => /\ o \in AppendOps /\ o.reserve \in Nat
                               /\ o.len <= o.reserve /\ o.part \in Parts
         /\ o.op # "append" => o.len = 0
BY DEF Ops, AppendOps, OtherOps

\* Total is the last of the running sums of lengths.
LEMMA Sums ==
  ASSUME NEW ops \in Seq(Ops)
  PROVE  \E t \in [0..Len(ops) -> Nat] :
           /\ t[0] = 0
           /\ \A n \in 1..Len(ops) : t[n] = t[n - 1] + ops[n].len
           /\ Total(ops) = t[Len(ops)]
<1> DEFINE N == Len(ops)
           F(f) == [n \in 0..N |-> IF n = 0 THEN 0 ELSE f[n - 1] + ops[n].len]
           step == [p \in Nat \X (1..N) |-> p[1] + ops[p[2]].len]
<1>1. N \in Nat /\ \A n \in 1..N : ops[n].len \in Nat
  BY OpFacts
<1> HIDE DEF N
<1>2. \A q \in Nat, n \in 1..N : step[<<q, n>>] = q + ops[n].len
  OBVIOUS
<1>3. step \in [Nat \X (1..N) -> Nat]
  BY <1>1
<1> HIDE DEF step
<1>4. PICK g \in [0..N -> Nat] : Stepped(g, 0, step, N)
  BY <1>1, <1>3, Stepwise
<1>5. g[0] = 0 /\ \A n \in 1..N : g[n] = step[<<g[n - 1], n>>]
  BY <1>4 DEF Stepped
<1>6. g = F(g)
  <2>1. ASSUME NEW n \in 1..N PROVE g[n] = g[n - 1] + ops[n].len
    <3>1. n - 1 \in 0..N
      BY <1>1
    <3>2. QED
      BY <1>2, <1>4, <1>5, <3>1
  <2>2. QED
    BY <1>1, <1>4, <1>5, <2>1
<1> DEFINE h == CHOOSE f : f = F(f)
<1>7. Total(ops) = h[N]
  BY DEF Total, N
<1> HIDE DEF F
<1>8. h = F(h)
  BY <1>6
<1> HIDE DEF h
<1>9. /\ DOMAIN h = 0..N /\ h[0] = 0
      /\ \A n \in 1..N : h[n] = h[n - 1] + ops[n].len
  <2>1. /\ DOMAIN F(h) = 0..N /\ F(h)[0] = 0
        /\ \A n \in 1..N : F(h)[n] = h[n - 1] + ops[n].len
    BY <1>1 DEF F
  <2>2. QED
    BY <1>8, <2>1
<1>10. \A n \in 0..N : h[n] \in Nat
  <2>1. h[0] \in Nat
    BY <1>9
  <2>2. ASSUME NEW n \in 1..N, h[n - 1] \in Nat PROVE h[n] \in Nat
    <3>1. ops[n].len \in Nat
      BY <1>1
    <3>2. h[n] = h[n - 1] + ops[n].len
      BY <1>9
    <3>3. QED
      BY <2>2, <3>1, <3>2
  <2>3. QED
    BY <1>1, <2>1, <2>2, StepsStay
<1>11. h \in [0..N -> Nat]
  <2>1. h = [n \in 0..N |-> h[n]]
    BY <1>8, <1>9 DEF F
  <2>2. QED
    BY <1>10, <2>1
<1>12. QED
  BY <1>7, <1>9, <1>11 DEF N

\* An operation done is its length less to write.
LEMMA TotalFacts ==
  /\ Total(<<>>) = 0
  /\ \A ops \in Seq(Ops) :
       /\ Total(ops) \in Nat
       /\ ops # <<>> => Total(ops) = Head(ops).len + Total(Tail(ops))
<1>1. Total(<<>>) = 0
  <2>1. <<>> \in Seq(Ops) /\ Len(<<>>) = 0
    OBVIOUS
  <2>2. QED
    BY <2>1, Sums
<1>2. ASSUME NEW ops \in Seq(Ops) PROVE Total(ops) \in Nat
  BY Sums
<1>3. ASSUME NEW ops \in Seq(Ops), ops # <<>>
      PROVE  Total(ops) = Head(ops).len + Total(Tail(ops))
  <2>1. /\ Tail(ops) \in Seq(Ops) /\ Len(Tail(ops)) = Len(ops) - 1
        /\ Len(ops) \in Nat \ {0} /\ Head(ops) = ops[1]
        /\ \A n \in 1..Len(ops) - 1 : Tail(ops)[n] = ops[n + 1]
    BY <1>3
  <2> DEFINE N == Len(ops)
             r == Tail(ops)
             k == ops[1].len
  <2>2. k \in Nat
    BY <2>1, OpFacts
  <2>3. PICK t \in [0..N -> Nat] :
          /\ t[0] = 0 /\ \A n \in 1..N : t[n] = t[n - 1] + ops[n].len
          /\ Total(ops) = t[N]
    BY Sums
  <2>4. PICK u \in [0..N - 1 -> Nat] :
          /\ u[0] = 0 /\ \A n \in 1..N - 1 : u[n] = u[n - 1] + r[n].len
          /\ Total(r) = u[N - 1]
    <3>1. \E u \in [0..Len(r) -> Nat] :
            /\ u[0] = 0 /\ \A n \in 1..Len(r) : u[n] = u[n - 1] + r[n].len
            /\ Total(r) = u[Len(r)]
      BY <2>1, Sums
    <3>2. QED
      BY <2>1, <3>1
  <2> DEFINE S == {n \in 0..N - 1 : t[n + 1] = k + u[n]}
  <2>5. 0 \in S
    <3>1. 1 \in 1..N /\ 0 \in 0..N - 1 /\ 1 - 1 = 0 /\ 0 + 1 = 1
      BY <2>1
    <3>2. t[1] = t[0] + ops[1].len
      BY <2>3, <3>1
    <3>3. t[1] = k + u[0]
      BY <2>2, <2>3, <2>4, <3>2
    <3>4. QED
      BY <3>1, <3>3
  <2>6. ASSUME NEW n \in 1..N - 1, n - 1 \in S PROVE n \in S
    <3>1. /\ n + 1 \in 1..N /\ n \in 0..N - 1 /\ n - 1 \in 0..N - 1
          /\ n + 1 - 1 = n /\ n - 1 + 1 = n
      BY <2>1
    <3>2. t[n + 1] = t[n] + ops[n + 1].len /\ t[n] = k + u[n - 1]
      BY <2>3, <2>6, <3>1
    <3>3. u[n] = u[n - 1] + ops[n + 1].len
      BY <2>1, <2>4
    <3>4. ops[n + 1].len \in Nat /\ u[n - 1] \in Nat
      BY <2>4, <3>1, OpFacts
    <3>5. QED
      BY <2>2, <3>1, <3>2, <3>3, <3>4
  <2>7. N - 1 \in S
    <3>1. N - 1 \in Nat /\ N - 1 \in 0..N - 1
      BY <2>1
    <3> HIDE DEF S, N
    <3>2. \A n \in 0..N - 1 : n \in S
      BY <2>5, <2>6, <3>1, UpTo
    <3>3. QED
      BY <3>1, <3>2
  <2>8. QED
    BY <2>1, <2>3, <2>4, <2>7
<1>4. QED
  BY <1>1, <1>2, <1>3

-----------------------------------------------------------------------------
(* What the peer makes of the units it reads. *)

Units == {"unit", "frame", "pong"} \X Nat
Read == Units \cup {<<"garbage", 0>>}
Peers == [got : Seq(Read), left : Nat]

LEMMA UnitFacts ==
  ASSUME NEW u \in Units
  PROVE  u \in Read /\ u[1] \in {"unit", "frame", "pong"} /\ u[2] \in Nat
BY DEF Units, Read

\* A peer reads on whatever comes.
LEMMA HearTyped ==
  ASSUME NEW peer \in Peers, NEW u \in Units, is_websocket \in BOOLEAN
  PROVE  Hear(peer, u) \in Peers
<1>1. u \in Read /\ u[1] \in {"unit", "frame", "pong"} /\ u[2] \in Nat
  BY UnitFacts
<1>2. /\ peer.got \in Seq(Read) /\ peer.left \in Nat
      /\ \A x \in Read : Append(peer.got, x) \in Seq(Read)
  BY DEF Peers
<1>3. CASE ~is_websocket \/ peer.left > 0
  <2>1. Hear(peer, u) = [got |-> Append(peer.got, u),
                         left |-> IF is_websocket THEN peer.left - 1 ELSE 0]
    BY <1>3 DEF Hear
  <2>2. (IF is_websocket THEN peer.left - 1 ELSE 0) \in Nat
    BY <1>2, <1>3
  <2>3. QED
    BY <1>1, <1>2, <2>1, <2>2 DEF Peers
<1>4. CASE is_websocket /\ peer.left = 0
  <2>1. ~(~is_websocket \/ peer.left > 0)
    BY <1>4
  <2>2. CASE u[1] = "frame"
    <3>1. Hear(peer, u) = [peer EXCEPT !.left = u[2]]
      BY <1>4, <2>1, <2>2 DEF Hear
    <3>2. QED
      BY <1>1, <3>1 DEF Peers
  <2>3. CASE u[1] = "pong"
    <3>1. Hear(peer, u) = peer
      BY <1>4, <2>1, <2>3 DEF Hear
    <3>2. QED
      BY <3>1
  <2>4. CASE u[1] = "unit"
    <3>1. Hear(peer, u) = [peer EXCEPT !.got = Append(@, <<"garbage", 0>>)]
      BY <1>4, <2>1, <2>4 DEF Hear
    <3>2. <<"garbage", 0>> \in Read
      BY DEF Read
    <3>3. QED
      BY <1>2, <3>1, <3>2 DEF Peers
  <2>5. QED
    BY <1>1, <2>2, <2>3, <2>4
<1>5. QED
  BY <1>2, <1>3, <1>4

\* What the peer is when it has heard n of units.
Hears(h, units) ==
  /\ h[0] = [got |-> got, left |-> left]
  /\ \A n \in 1..Len(units) : h[n] = Hear(h[n - 1], units[n])

\* Heard is the last of the states that one unit after the other leads to.
LEMMA HeardSteps ==
  ASSUME is_websocket \in BOOLEAN, got \in Seq(Read), left \in Nat,
         NEW units \in Seq(Units)
  PROVE  \E h \in [0..Len(units) -> Peers] :
           Hears(h, units) /\ Heard(units) = h[Len(units)]
<1> DEFINE N == Len(units)
           start == [got |-> got, left |-> left]
           F(f) == [n \in 0..N |-> IF n = 0 THEN start ELSE Hear(f[n - 1], units[n])]
           step == [p \in Peers \X (1..N) |-> Hear(p[1], units[p[2]])]
<1>1. N \in Nat /\ start \in Peers /\ \A n \in 1..N : units[n] \in Units
  BY DEF Peers
<1> DEFINE h == CHOOSE f : f = F(f)
<1>2. Heard(units) = h[N]
  BY DEF Heard
<1> HIDE DEF N, start
<1>3. step \in [Peers \X (1..N) -> Peers]
  BY <1>1, HearTyped
<1>4. \A q \in Peers, n \in 1..N : step[<<q, n>>] = Hear(q, units[n])
  OBVIOUS
<1> HIDE DEF step
<1>5. PICK g \in [0..N -> Peers] : Stepped(g, start, step, N)
  BY <1>1, <1>3, Stepwise
<1>6. g[0] = start /\ \A n \in 1..N : g[n] = Hear(g[n - 1], units[n])
  <2>1. ASSUME NEW n \in 1..N PROVE g[n] = Hear(g[n - 1], units[n])
    <3>1. n - 1 \in 0..N
      BY <1>1
    <3>2. g[n] = step[<<g[n - 1], n>>] /\ g[n - 1] \in Peers
      BY <1>5, <3>1 DEF Stepped
    <3>3. QED
      BY <1>4, <3>2
  <2>2. QED
    BY <1>5, <2>1 DEF Stepped
<1>7. g = F(g)
  <2>1. ASSUME NEW n \in 0..N
        PROVE  g[n] = IF n = 0 THEN start ELSE Hear(g[n - 1], units[n])
    BY <1>1, <1>6
  <2>2. QED
    BY <2>1
<1> HIDE DEF F
<1>8. h = F(h)
  BY <1>7
<1> HIDE DEF h
<1>9. /\ DOMAIN h = 0..N /\ h[0] = start
      /\ \A n \in 1..N : h[n] = Hear(h[n - 1], units[n])
  <2>1. /\ DOMAIN F(h) = 0..N /\ F(h)[0] = start
        /\ \A n \in 1..N : F(h)[n] = Hear(h[n - 1], units[n])
    BY <1>1 DEF F
  <2>2. QED
    BY <1>8, <2>1
<1>10. \A n \in 0..N : h[n] \in Peers
  <2>1. h[0] \in Peers
    BY <1>1, <1>9
  <2>2. ASSUME NEW n \in 1..N, h[n - 1] \in Peers PROVE h[n] \in Peers
    BY <1>1, <1>9, <2>2, HearTyped
  <2>3. QED
    BY <1>1, <2>1, <2>2, StepsStay
<1>11. h \in [0..N -> Peers]
  <2>1. h = [n \in 0..N |-> h[n]]
    BY <1>8, <1>9 DEF F
  <2>2. QED
    BY <1>10, <2>1
<1>12. QED
  BY <1>2, <1>9, <1>11 DEF Hears, N, start

LEMMA HeardTyped ==
  ASSUME is_websocket \in BOOLEAN, got \in Seq(Read), left \in Nat,
         NEW units \in Seq(Units)
  PROVE  Heard(units).got \in Seq(Read) /\ Heard(units).left \in Nat
<1>1. Len(units) \in 0..Len(units)
  OBVIOUS
<1>2. Heard(units) \in Peers
  BY <1>1, HeardSteps
<1>3. QED
  BY <1>2 DEF Peers

\* A sequence followed by the beginnings of another.
LEMMA PrefixSteps ==
  ASSUME NEW S, NEW s \in Seq(S), NEW t \in Seq(S)
  PROVE  /\ s \o SubSeq(t, 1, 0) = s
         /\ s \o SubSeq(t, 1, Len(t)) = s \o t
         /\ \A n \in 1..Len(t) :
              s \o SubSeq(t, 1, n) = Append(s \o SubSeq(t, 1, n - 1), t[n])
<1>1. SubSeq(t, 1, 0) = <<>>
  OBVIOUS
<1>2. SubSeq(t, 1, Len(t)) = t
  OBVIOUS
<1>3. ASSUME NEW n \in 1..Len(t)
      PROVE  s \o SubSeq(t, 1, n) = Append(s \o SubSeq(t, 1, n - 1), t[n])
  <2> DEFINE a == SubSeq(t, 1, n - 1)
  <2>1. a \in Seq(S) /\ t[n] \in S /\ <<t[n]>> \in Seq(S)
    OBVIOUS
  <2>2. SubSeq(t, 1, n) = a \o <<t[n]>>
    BY SubSeqRecursiveSecond
  <2> HIDE DEF a
  <2>3. s \o (a \o <<t[n]>>) = (s \o a) \o <<t[n]>>
    BY <2>1, ConcatAssociative
  <2>4. Append(s \o a, t[n]) = (s \o a) \o <<t[n]>>
    BY <2>1, ConcatProperties, AppendIsConcat
  <2>5. QED
    BY <2>2, <2>3, <2>4 DEF a
<1>4. QED
  BY <1>1, <1>2, <1>3

\* Without frames, units are read as they come.
LEMMA HeardPlain ==
  ASSUME is_websocket = FALSE, got \in Seq(Read), left = 0,
         NEW units \in Seq(Units)
  PROVE  Heard(units).got = got \o units /\ Heard(units).left = 0
<1> DEFINE N == Len(units)
<1>1. N \in Nat /\ units \in Seq(Read) /\ \A n \in 1..N : units[n] \in Units
  BY DEF Read
<1>2. PICK h \in [0..N -> Peers] : Hears(h, units) /\ Heard(units) = h[N]
  BY HeardSteps
<1> DEFINE S == {n \in 0..N : h[n].got = got \o SubSeq(units, 1, n) /\ h[n].left = 0}
<1>3. 0 \in S
  <2>1. 0 \in 0..N /\ h[0] = [got |-> got, left |-> left]
    BY <1>1, <1>2 DEF Hears
  <2>2. got \o SubSeq(units, 1, 0) = got
    BY <1>1, PrefixSteps
  <2>3. QED
    BY <2>1, <2>2
<1>4. ASSUME NEW n \in 1..N, n - 1 \in S PROVE n \in S
  <2>1. n \in 0..N /\ h[n] = Hear(h[n - 1], units[n])
    BY <1>1, <1>2 DEF Hears
  <2>2. h[n] = [got |-> Append(h[n - 1].got, units[n]), left |-> 0]
    BY <2>1 DEF Hear
  <2>3. h[n - 1].got = got \o SubSeq(units, 1, n - 1)
    BY <1>4
  <2>a. h[n].got = Append(h[n - 1].got, units[n]) /\ h[n].left = 0
    <3> HIDE DEF S, N
    <3>1. QED
      BY <2>2
  <2>b. got \o SubSeq(units, 1, n) = Append(got \o SubSeq(units, 1, n - 1), units[n])
    BY <1>1, PrefixSteps
  <2>4. h[n].got = got \o SubSeq(units, 1, n)
    <3> HIDE DEF S, N
    <3>1. QED
      BY <2>a, <2>3, <2>b
  <2>5. QED
    BY <2>1, <2>a, <2>4
<1>5. N \in S
  <2> HIDE DEF S, N
  <2>1. \A n \in 0..N : n \in S
    BY <1>1, <1>3, <1>4, UpTo
  <2>2. QED
    BY <1>1, <2>1
<1>6. QED
  BY <1>1, <1>2, <1>5, PrefixSteps

\* A frame that comes where one is looked for gives what is in it.
LEMMA HeardFrame ==
  ASSUME is_websocket = TRUE, got \in Seq(Read), left = 0,
         NEW buf \in Seq(Units)
  PROVE  /\ Heard(<<Header(Len(buf))>> \o buf).got = got \o buf
         /\ Heard(<<Header(Len(buf))>> \o buf).left = 0
<1> DEFINE units == <<Header(Len(buf))>> \o buf
           L == Len(buf)
           N == Len(units)
<1>1. L \in Nat /\ buf \in Seq(Read) /\ Header(L) \in Units
  BY DEF Header, Units, Read
<1>2. /\ units \in Seq(Units) /\ N = L + 1 /\ units[1] = Header(L)
      /\ \A n \in 2..N : units[n] = buf[n - 1]
  BY <1>1
<1>3. PICK h \in [0..N -> Peers] : Hears(h, units) /\ Heard(units) = h[N]
  BY <1>2, HeardSteps
<1> HIDE DEF units, L, N
<1> DEFINE S == {n \in 0..L : /\ h[n + 1].got = got \o SubSeq(buf, 1, n)
                              /\ h[n + 1].left = L - n}
<1>4. 0 \in S
  <2>1. 0 \in 0..L /\ 1 \in 1..N /\ 1 - 1 = 0 /\ 0 + 1 = 1 /\ L - 0 = L
    BY <1>1, <1>2
  <2>2. h[1] = Hear(h[1 - 1], units[1]) /\ h[0] = [got |-> got, left |-> 0]
    BY <1>3, <2>1 DEF Hears, N
  <2>3. h[1] = Hear([got |-> got, left |-> 0], <<"frame", L>>)
    BY <1>2, <2>1, <2>2 DEF Header
  <2>4. h[1] = [[got |-> got, left |-> 0] EXCEPT !.left = L]
    BY <2>3 DEF Hear
  <2>5. got \o SubSeq(buf, 1, 0) = got
    BY <1>1, PrefixSteps
  <2>6. QED
    BY <2>1, <2>4, <2>5
<1>5. ASSUME NEW n \in 1..L, n - 1 \in S PROVE n \in S
  <2>1. /\ n \in 0..L /\ n + 1 \in 2..N /\ n + 1 \in 1..N /\ n + 1 - 1 = n
        /\ n - 1 + 1 = n /\ L - (n - 1) > 0 /\ L - (n - 1) - 1 = L - n
    BY <1>1, <1>2
  <2>2. h[n + 1] = Hear(h[n], units[n + 1])
    BY <1>3, <2>1 DEF Hears, N
  <2>3. units[n + 1] = buf[n]
    BY <1>2, <2>1
  <2>4. h[n].got = got \o SubSeq(buf, 1, n - 1) /\ h[n].left = L - (n - 1)
    BY <1>5, <2>1
  <2>5. h[n + 1] = [got |-> Append(h[n].got, buf[n]), left |-> h[n].left - 1]
    BY <2>1, <2>2, <2>3, <2>4 DEF Hear
  <2>a. h[n + 1].got = Append(h[n].got, buf[n]) /\ h[n + 1].left = h[n].left - 1
    <3> HIDE DEF S
    <3>1. QED
      BY <2>5
  <2>b. got \o SubSeq(buf, 1, n) = Append(got \o SubSeq(buf, 1, n - 1), buf[n])
    BY <1>1, PrefixSteps DEF L
  <2>6. h[n + 1].got = got \o SubSeq(buf, 1, n)
    <3> HIDE DEF S
    <3>1. QED
      BY <2>4, <2>a, <2>b
  <2>7. QED
    BY <2>1, <2>4, <2>a, <2>6
<1>6. L \in S
  <2> HIDE DEF S
  <2>1. \A n \in 0..L : n \in S
    BY <1>1, <1>4, <1>5, UpTo
  <2>2. QED
    BY <1>1, <2>1
<1>7. h[N].got = got \o buf /\ h[N].left = 0
  <2>1. N = L + 1 /\ L - L = 0
    BY <1>1, <1>2
  <2>2. got \o SubSeq(buf, 1, L) = got \o buf
    BY <1>1, PrefixSteps DEF L
  <2>3. QED
    BY <1>6, <2>1, <2>2
<1>8. QED
  BY <1>3, <1>7 DEF units, L

\* Answers to pings between frames are not read as data.
LEMMA HeardPongs ==
  ASSUME is_websocket = TRUE, got \in Seq(Read), left = 0, NEW N \in Nat
  PROVE  LET pongs == [i \in 1..N |-> Pong] IN
         Heard(pongs).got = got /\ Heard(pongs).left = 0
<1> DEFINE pongs == [i \in 1..N |-> Pong]
<1>1. Pong \in Units
  BY DEF Pong, Units
<1>2. pongs \in Seq(Units) /\ Len(pongs) = N
  BY <1>1
<1>3. PICK h \in [0..N -> Peers] : Hears(h, pongs) /\ Heard(pongs) = h[N]
  <2> HIDE DEF pongs
  <2>1. QED
    BY <1>2, HeardSteps
<1> DEFINE S == {n \in 0..N : h[n] = [got |-> got, left |-> 0]}
<1>4. 0 \in S
  BY <1>3 DEF Hears
<1>5. ASSUME NEW n \in 1..N, n - 1 \in S PROVE n \in S
  <2>1. h[n] = Hear([got |-> got, left |-> 0], <<"pong", 0>>)
    BY <1>2, <1>3, <1>5 DEF Hears, Pong
  <2>2. h[n] = [got |-> got, left |-> 0]
    BY <2>1 DEF Hear
  <2>3. QED
    BY <2>2
<1>6. N \in S
  <2> HIDE DEF S
  <2>1. \A n \in 0..N : n \in S
    BY <1>4, <1>5, UpTo
  <2>2. QED
    BY <2>1
<1>7. QED
  BY <1>3, <1>6

-----------------------------------------------------------------------------
(* The buffer. *)

After(buf, pos) == SubSeq(buf, pos + 1, Len(buf))

InBuffer(buf, pos, cap) ==
  /\ buf \in Seq(Units) /\ pos \in 0..Len(buf)
  /\ cap \in Nat /\ Len(buf) <= cap

Buffered == is_websocket \in BOOLEAN /\ InBuffer(write_buf, write_pos, write_cap)

\* What a partial send takes, and what it leaves.
LEMMA AfterCut ==
  ASSUME NEW S, NEW s \in Seq(S), NEW a \in 0..Len(s), NEW b \in a..Len(s)
  PROVE  SubSeq(s, a + 1, b) \o After(s, b) = After(s, a)
<1> DEFINE m == a + 1
           n == Len(s)
<1>1. m \in 1..Len(s) + 1 /\ b \in m - 1..Len(s) /\ n \in b..Len(s)
  OBVIOUS
<1> HIDE DEF m, n
<1>2. SubSeq(s, m, b) \o SubSeq(s, b + 1, n) = SubSeq(s, m, n)
  BY <1>1, ConcatAdjacentSubSeq
<1>3. QED
  BY <1>2 DEF After, m, n

\* Growing makes the room that is needed.
LEMMA GrownFits ==
  ASSUME NEW cap \in Nat, NEW need \in Nat
  PROVE  /\ Grown(cap, need) \in Nat
         /\ Grown(cap, need) >= need /\ Grown(cap, need) >= 2 * cap
BY OutputAssumption DEF Grown

\* A buffer made a frame fits its allocation.
LEMMA PreparedFacts ==
  ASSUME Buffered
  PROVE  LET p == Prepared(write_buf, write_pos, write_cap) IN
         /\ InBuffer(p.buf, write_pos, p.cap)
         /\ ~is_websocket => p.buf = write_buf
         /\ is_websocket /\ write_pos = 0 =>
              p.buf = IF write_buf = <<>> THEN <<>>
                      ELSE <<Header(Len(write_buf))>> \o write_buf
<1> DEFINE p == Prepared(write_buf, write_pos, write_cap)
           L == Len(write_buf)
<1>1. /\ write_buf \in Seq(Units) /\ L \in Nat /\ write_pos \in 0..L
      /\ write_cap \in Nat /\ L <= write_cap /\ is_websocket \in BOOLEAN
  BY DEF Buffered, InBuffer
<1>2. CASE is_websocket /\ write_buf # <<>> /\ write_pos = 0
  <2>1. p = [buf |-> <<Header(L)>> \o write_buf,
             cap |-> IF write_cap < L + 1 THEN Grown(write_cap, L + 1) ELSE write_cap]
    BY <1>2 DEF Prepared, Framed
  <2>2. <<Header(L)>> \in Seq(Units) /\ Len(<<Header(L)>>) = 1
    BY <1>1 DEF Header, Units
  <2>3. <<Header(L)>> \o write_buf \in Seq(Units) /\ Len(<<Header(L)>> \o write_buf) = L + 1
    BY <1>1, <2>2, ConcatProperties
  <2>4. /\ (IF write_cap < L + 1 THEN Grown(write_cap, L + 1) ELSE write_cap) \in Nat
        /\ (IF write_cap < L + 1 THEN Grown(write_cap, L + 1) ELSE write_cap) >= L + 1
    <3> HIDE DEF p, L
    <3>1. L + 1 \in Nat
      BY <1>1
    <3>2. Grown(write_cap, L + 1) \in Nat /\ Grown(write_cap, L + 1) >= L + 1
      BY <1>1, <3>1, GrownFits
    <3>3. QED
      BY <1>1, <3>1, <3>2
  <2>5. /\ p.buf = <<Header(L)>> \o write_buf
        /\ p.cap = IF write_cap < L + 1 THEN Grown(write_cap, L + 1) ELSE write_cap
    BY <2>1
  <2> HIDE DEF p, L
  <2>6. InBuffer(p.buf, write_pos, p.cap)
    BY <1>1, <1>2, <2>3, <2>4, <2>5 DEF InBuffer
  <2>7. QED
    BY <1>2, <2>5, <2>6 DEF p, L
<1>3. CASE ~(is_websocket /\ write_buf # <<>> /\ write_pos = 0)
  <2>1. p = [buf |-> write_buf, cap |-> write_cap]
    BY <1>3 DEF Prepared
  <2>2. QED
    BY <1>1, <1>3, <2>1 DEF InBuffer
<1>4. QED
  BY <1>2, <1>3

\* What can come of a flush fits, and is cut from what was prepared.
LEMMA FlushFacts ==
  ASSUME Buffered, NEW f \in Flushes(write_buf, write_pos, write_cap)
  PROVE  /\ InBuffer(f.buf, f.pos, f.cap) /\ f.sent \in Seq(Units)
         /\ ~is_websocket => f.sent \o After(f.buf, f.pos) = After(write_buf, write_pos)
         /\ is_websocket /\ TRUE \notin Takes /\ write_pos = 0 =>
              /\ f.buf = <<>> /\ f.pos = 0
              /\ f.sent = IF write_buf = <<>> THEN <<>>
                          ELSE <<Header(Len(write_buf))>> \o write_buf
<1> DEFINE p == Prepared(write_buf, write_pos, write_cap)
           L == Len(p.buf)
<1>1. /\ InBuffer(p.buf, write_pos, p.cap)
      /\ ~is_websocket => p.buf = write_buf
      /\ is_websocket /\ write_pos = 0 =>
           p.buf = IF write_buf = <<>> THEN <<>>
                   ELSE <<Header(Len(write_buf))>> \o write_buf
  BY PreparedFacts
<1>2. PICK k \in Taken(L - write_pos) :
        f = [buf |-> IF write_pos + k = L THEN <<>> ELSE p.buf,
             pos |-> IF write_pos + k = L THEN 0 ELSE write_pos + k,
             cap |-> p.cap,
             sent |-> SubSeq(p.buf, write_pos + 1, write_pos + k)]
  BY DEF Flushes
<1>3. /\ f.buf = IF write_pos + k = L THEN <<>> ELSE p.buf
      /\ f.pos = IF write_pos + k = L THEN 0 ELSE write_pos + k
      /\ f.cap = p.cap
      /\ f.sent = SubSeq(p.buf, write_pos + 1, write_pos + k)
  BY <1>2
<1> HIDE DEF p
<1>4. /\ p.buf \in Seq(Units) /\ L \in Nat /\ write_pos \in 0..L
      /\ p.cap \in Nat /\ L <= p.cap
  BY <1>1 DEF InBuffer
<1>5. k \in 0..L - write_pos
  BY <1>4 DEF Taken
<1>6. InBuffer(f.buf, f.pos, f.cap)
  <2>1. CASE write_pos + k = L
    <3>1. f.buf = <<>> /\ f.pos = 0
      BY <1>3, <2>1
    <3>2. QED
      BY <1>3, <1>4, <3>1 DEF InBuffer
  <2>2. CASE write_pos + k # L
    <3>1. f.buf = p.buf /\ f.pos = write_pos + k
      BY <1>3, <2>2
    <3>2. QED
      BY <1>3, <1>4, <1>5, <3>1 DEF InBuffer
  <2>3. QED
    BY <2>1, <2>2
<1>7. f.sent \in Seq(Units)
  <2>1. \A i \in write_pos + 1..write_pos + k : p.buf[i] \in Units
    BY <1>4, <1>5
  <2>2. write_pos + 1 \in Int /\ write_pos + k \in Int
    BY <1>4, <1>5
  <2>3. QED
    BY <1>3, <2>1, <2>2, SubSeqProperties
<1>8. f.sent \o After(f.buf, f.pos) = After(p.buf, write_pos)
  <2>1. CASE write_pos + k = L
    <3>1. After(f.buf, f.pos) = <<>>
      BY <1>3, <2>1, SubSeqEmpty DEF After
    <3>2. f.sent \o <<>> = f.sent
      BY <1>7, ConcatEmptySeq
    <3>3. QED
      BY <1>3, <2>1, <3>1, <3>2 DEF After
  <2>2. CASE write_pos + k # L
    <3>1. f.buf = p.buf /\ f.pos = write_pos + k
      BY <1>3, <2>2
    <3>2. write_pos + k \in write_pos..L
      BY <1>4, <1>5
    <3>3. SubSeq(p.buf, write_pos + 1, write_pos + k) \o After(p.buf, write_pos + k)
            = After(p.buf, write_pos)
      BY <1>4, <3>2, AfterCut
    <3>4. QED
      BY <1>3, <3>1, <3>3
  <2>3. QED
    BY <2>1, <2>2
<1>9. ASSUME is_websocket, TRUE \notin Takes, write_pos = 0
      PROVE  f.buf = <<>> /\ f.pos = 0 /\ f.sent = p.buf
  <2>1. k = L - write_pos
    BY <1>9 DEF Taken, Buffered
  <2>2. write_pos + k = L /\ k = L
    BY <1>4, <1>9, <2>1
  <2>3. f.sent = SubSeq(p.buf, 1, L)
    BY <1>3, <1>9, <2>2
  <2>4. QED
    BY <1>3, <1>4, <2>2, <2>3, SubSeqFull
<1>10. QED
  BY <1>1, <1>6, <1>7, <1>8, <1>9

LEMMA FlushFields ==
  ASSUME Buffered, NEW f \in Flushes(write_buf, write_pos, write_cap)
  PROVE  f \in [buf : Seq(Units), pos : Nat, cap : Nat, sent : Seq(Units)]
<1>1. f = [buf |-> f.buf, pos |-> f.pos, cap |-> f.cap, sent |-> f.sent]
  BY DEF Flushes
<1>2. InBuffer(f.buf, f.pos, f.cap) /\ f.sent \in Seq(Units)
  BY FlushFacts
<1>3. f.buf \in Seq(Units) /\ f.pos \in Nat /\ f.cap \in Nat
  BY <1>2 DEF InBuffer
<1>4. QED
  BY <1>1, <1>2, <1>3

\* A buffer is left as it was, or flushed and then perhaps grown.
LEMMA SpaceFacts ==
  ASSUME Buffered, NEW n \in Nat, NEW e \in EnsureWriteSpace(n)
  PROVE  /\ InBuffer(e.buf, e.pos, e.cap) /\ e.sent \in Seq(Units)
         /\ Len(e.buf) + n <= e.cap
         /\ \/ e.buf = write_buf /\ e.pos = write_pos /\ e.sent = <<>>
            \/ \E f \in Flushes(write_buf, write_pos, write_cap) :
                 e.buf = f.buf /\ e.pos = f.pos /\ e.sent = f.sent
<1>1. InBuffer(write_buf, write_pos, write_cap) /\ Len(write_buf) \in Nat
  BY DEF Buffered, InBuffer
<1>2. CASE write_cap - Len(write_buf) >= n
  <2>1. e = [buf |-> write_buf, pos |-> write_pos, cap |-> write_cap, sent |-> <<>>]
    BY <1>2 DEF EnsureWriteSpace
  <2>2. /\ e.buf = write_buf /\ e.pos = write_pos /\ e.cap = write_cap
        /\ e.sent = <<>> /\ e.sent \in Seq(Units)
    BY <2>1
  <2>3. Len(write_buf) + n <= write_cap
    BY <1>1, <1>2 DEF InBuffer
  <2>4. QED
    BY <1>1, <2>2, <2>3
<1>3. CASE ~(write_cap - Len(write_buf) >= n)
  <2>1. PICK f \in Flushes(write_buf, write_pos, write_cap) :
          e = [f EXCEPT !.cap = IF Space(f) < n THEN Grown(@, Len(f.buf) + n) ELSE @]
    BY <1>3 DEF EnsureWriteSpace
  <2>2. f \in [buf : Seq(Units), pos : Nat, cap : Nat, sent : Seq(Units)]
    BY FlushFields
  <2>a. InBuffer(f.buf, f.pos, f.cap) /\ f.sent \in Seq(Units)
    BY FlushFacts
  <2>3. InBuffer(f.buf, f.pos, f.cap) /\ Len(f.buf) \in Nat /\ f.sent \in Seq(Units)
    BY <2>2, <2>a
  <2> DEFINE cap == IF Space(f) < n THEN Grown(f.cap, Len(f.buf) + n) ELSE f.cap
  <2>4. e.buf = f.buf /\ e.pos = f.pos /\ e.cap = cap /\ e.sent = f.sent
    BY <2>1, <2>2
  <2>5. Len(f.buf) + n \in Nat
    BY <2>3
  <2>6. /\ Grown(f.cap, Len(f.buf) + n) \in Nat
        /\ Grown(f.cap, Len(f.buf) + n) >= Len(f.buf) + n
    BY <2>3, <2>5, GrownFits DEF InBuffer
  <2>7. cap \in Nat /\ Len(f.buf) + n <= cap
    BY <2>3, <2>6 DEF Space, InBuffer
  <2>8. InBuffer(f.buf, f.pos, cap)
    BY <2>3, <2>7 DEF InBuffer
  <2> HIDE DEF cap
  <2>9. QED
    BY <2>3, <2>4, <2>7, <2>8
<1>4. QED
  BY <1>2, <1>3

-----------------------------------------------------------------------------
(* What is sent, and what waits, are together what was written. *)

Listens == is_websocket \in BOOLEAN /\ got \in Seq(Read) /\ left = 0

\* To be sent nothing changes nothing.
LEMMA HeardNothing == Listens => Heard(<<>>).got = got /\ Heard(<<>>).left = 0
<1> SUFFICES ASSUME Listens PROVE Heard(<<>>).got = got /\ Heard(<<>>).left = 0
  OBVIOUS
<1>1. <<>> \in Seq(Units) /\ Len(<<>>) = 0
  OBVIOUS
<1>2. PICK h \in [0..0 -> Peers] : Hears(h, <<>>) /\ Heard(<<>>) = h[0]
  BY <1>1, HeardSteps DEF Listens
<1>3. QED
  BY <1>2 DEF Hears, Listens

\* A browser's connection takes what it is given, at once.
TakesAll == is_websocket => TRUE \notin Takes /\ write_pos = 0

\* What the peer reads by a flush, and what is left, are what there was.
LEMMA FlushSends ==
  ASSUME Buffered, Listens, TakesAll,
         NEW f \in Flushes(write_buf, write_pos, write_cap)
  PROVE  \E s \in Seq(Units) :
           /\ Heard(f.sent).got = got \o s /\ Heard(f.sent).left = 0
           /\ is_websocket => f.pos = 0
           /\ s \o After(f.buf, f.pos) = After(write_buf, write_pos)
<1>1. /\ InBuffer(f.buf, f.pos, f.cap) /\ f.sent \in Seq(Units)
      /\ ~is_websocket => f.sent \o After(f.buf, f.pos) = After(write_buf, write_pos)
      /\ is_websocket /\ TRUE \notin Takes /\ write_pos = 0 =>
           /\ f.buf = <<>> /\ f.pos = 0
           /\ f.sent = IF write_buf = <<>> THEN <<>>
                       ELSE <<Header(Len(write_buf))>> \o write_buf
  BY FlushFacts
<1>2. CASE ~is_websocket
  <2>1. is_websocket = FALSE
    BY <1>2 DEF Listens
  <2>2. Heard(f.sent).got = got \o f.sent /\ Heard(f.sent).left = 0
    BY <1>1, <2>1, HeardPlain DEF Listens
  <2>3. QED
    BY <1>1, <1>2, <2>2
<1>3. CASE is_websocket
  <2>1. is_websocket = TRUE /\ write_pos = 0 /\ write_buf \in Seq(Units)
    BY <1>3 DEF Listens, TakesAll, Buffered, InBuffer
  <2>2. /\ f.buf = <<>> /\ f.pos = 0
        /\ f.sent = IF write_buf = <<>> THEN <<>>
                    ELSE <<Header(Len(write_buf))>> \o write_buf
    BY <1>1, <1>3 DEF TakesAll
  <2>3. Heard(f.sent).got = got \o write_buf /\ Heard(f.sent).left = 0
    <3>1. CASE write_buf = <<>>
      <4>1. got \o <<>> = got
        BY ConcatEmptySeq DEF Listens
      <4>2. QED
        BY <2>2, <3>1, <4>1, HeardNothing
    <3>2. CASE write_buf # <<>>
      BY <2>1, <2>2, <3>2, HeardFrame DEF Listens
    <3>3. QED
      BY <3>1, <3>2
  <2>4. After(f.buf, f.pos) = <<>>
    BY <2>2, SubSeqEmpty DEF After
  <2>5. After(write_buf, write_pos) = write_buf
    BY <2>1, SubSeqFull DEF After
  <2>6. write_buf \o <<>> = write_buf
    BY <2>1, ConcatEmptySeq
  <2>7. QED
    BY <2>1, <2>2, <2>3, <2>4, <2>5, <2>6
<1>4. QED
  BY <1>2, <1>3

\* So with the space made for a write.
LEMMA SpaceSends ==
  ASSUME Buffered, Listens, TakesAll, NEW n \in Nat, NEW e \in EnsureWriteSpace(n)
  PROVE  \E s \in Seq(Units) :
           /\ Heard(e.sent).got = got \o s /\ Heard(e.sent).left = 0
           /\ is_websocket => e.pos = 0
           /\ s \o After(e.buf, e.pos) = After(write_buf, write_pos)
<1>1. CASE e.buf = write_buf /\ e.pos = write_pos /\ e.sent = <<>>
  <2>1. got \o <<>> = got /\ <<>> \in Seq(Units)
    BY ConcatEmptySeq DEF Listens
  <2>2. After(write_buf, write_pos) \in Seq(Units)
    BY SubSeqProperties DEF After, Buffered, InBuffer
  <2>3. <<>> \o After(write_buf, write_pos) = After(write_buf, write_pos)
    BY <2>2, ConcatEmptySeq
  <2>4. QED
    BY <1>1, <2>1, <2>3, HeardNothing DEF TakesAll
<1>2. CASE \E f \in Flushes(write_buf, write_pos, write_cap) :
             e.buf = f.buf /\ e.pos = f.pos /\ e.sent = f.sent
  BY <1>2, FlushSends
<1>3. QED
  BY <1>1, <1>2, SpaceFacts

-----------------------------------------------------------------------------
(* The invariant. *)

OutTypes ==
  /\ is_websocket \in WebSockets /\ Buffered
  /\ normal \in BOOLEAN
  /\ pending \subseteq {"size", "cursor"}
  /\ cursor \in 0..MaxCursors /\ cursor_sent \in 0..MaxCursors
  /\ todo \in Seq(Ops)
  /\ written \in Nat /\ written + Total(todo) <= MaxUnits
  /\ got \in Seq(Read) /\ left \in Nat

\* Nothing is on its way but what waits in the buffer.
Delivered ==
  /\ left = 0 /\ (is_websocket => write_pos = 0)
  /\ got \o After(write_buf, write_pos) = Stream

\* The peer reads on, and more is written.
Flows ==
  /\ \E s \in Seq(Units) : got' = got \o s
  /\ written' \in Nat /\ written' >= written

Whole == TRUE \notin Takes /\ Delivered

(* What every step does to the stream.                                      *)
Carries == Whole => Delivered' /\ Flows

LEMMA UnitsRead == \A s \in Seq(Units) : s \in Seq(Read)
BY DEF Read

\* The units numbered up to n, and the m that follow.
LEMMA StreamFacts ==
  ASSUME NEW n \in Nat, NEW m \in Nat
  PROVE  LET new == [i \in 1..m |-> Unit(n + i)] IN
         /\ new \in Seq(Units) /\ Len(new) = m
         /\ [i \in 1..n |-> Unit(i)] \in Seq(Units)
         /\ [i \in 1..n + m |-> Unit(i)] = [i \in 1..n |-> Unit(i)] \o new
<1> DEFINE new == [i \in 1..m |-> Unit(n + i)]
           old == [i \in 1..n |-> Unit(i)]
           all == [i \in 1..n + m |-> Unit(i)]
<1>1. \A i \in Nat : Unit(i) \in Units
  BY DEF Unit, Units
<1>2. /\ new \in Seq(Units) /\ Len(new) = m
      /\ old \in Seq(Units) /\ Len(old) = n
      /\ all \in Seq(Units) /\ Len(all) = n + m
  BY <1>1
<1>3. old \o new \in Seq(Units) /\ Len(old \o new) = n + m
  BY <1>2, ConcatProperties
<1>4. ASSUME NEW i \in 1..n + m PROVE all[i] = (old \o new)[i]
  <2>1. (old \o new)[i] = IF i <= n THEN old[i] ELSE new[i - n]
    <3> HIDE DEF old, new
    <3>1. QED
      BY <1>2, ConcatProperties
  <2>2. CASE i <= n
    BY <2>1, <2>2
  <2>3. CASE ~(i <= n)
    <3>1. i - n \in 1..m /\ n + (i - n) = i
      BY <2>3
    <3>2. QED
      BY <2>1, <2>3, <3>1
  <2>4. QED
    BY <2>2, <2>3
<1>5. all = old \o new
  <2> HIDE DEF all, old, new
  <2>1. QED
    BY <1>2, <1>3, <1>4, SeqEqual
<1>6. QED
  BY <1>2, <1>5

\* What waits is the buffer from write_pos on.
LEMMA AfterSteps ==
  ASSUME NEW S, NEW s \in Seq(S), NEW p \in 0..Len(s)
  PROVE  /\ After(s, p) \in Seq(S) /\ Len(After(s, p)) = Len(s) - p
         /\ \A i \in 1..Len(s) - p : After(s, p)[i] = s[p + i]
<1> DEFINE n == Len(s)
           m == p + 1
           a == SubSeq(s, m, n)
<1>1. n \in Nat /\ p \in 0..n /\ m \in Int /\ n \in Int /\ \A i \in m..n : s[i] \in S
  OBVIOUS
<1>2. a = After(s, p)
  BY DEF After
<1> HIDE DEF a
<1>3. /\ a \in Seq(S) /\ Len(a) = IF m <= n THEN n - m + 1 ELSE 0
      /\ \A i \in 1..n - m + 1 : a[i] = s[m + i - 1]
  <2> HIDE DEF m, n
  <2>1. QED
    BY <1>1, SubSeqProperties DEF a
<1>4. Len(a) = n - p
  BY <1>1, <1>3
<1>5. ASSUME NEW i \in 1..n - p PROVE a[i] = s[p + i]
  <2>1. i \in 1..n - m + 1 /\ m + i - 1 = p + i
    BY <1>1
  <2>2. a[i] = s[m + i - 1]
    BY <1>3, <2>1
  <2>3. QED
    BY <2>1, <2>2
<1>6. QED
  BY <1>2, <1>3, <1>4, <1>5

\* More in the buffer is more that waits.
LEMMA AfterConcat ==
  ASSUME NEW S, NEW s \in Seq(S), NEW t \in Seq(S), NEW p \in 0..Len(s)
  PROVE  After(s \o t, p) = After(s, p) \o t
<1> DEFINE n == Len(s)
           m == Len(t)
           u == s \o t
           a == After(s, p)
           b == After(u, p)
<1>1. /\ u \in Seq(S) /\ Len(u) = n + m /\ n \in Nat /\ m \in Nat /\ p \in 0..n
      /\ \A i \in 1..n + m : u[i] = IF i <= n THEN s[i] ELSE t[i - n]
  BY ConcatProperties
<1>2. a \in Seq(S) /\ Len(a) = n - p /\ \A i \in 1..n - p : a[i] = s[p + i]
  BY AfterSteps
<1> HIDE DEF u
<1>3. p \in 0..Len(u)
  BY <1>1
<1>a. b \in Seq(S) /\ Len(b) = Len(u) - p /\ \A i \in 1..Len(u) - p : b[i] = u[p + i]
  BY <1>1, <1>3, AfterSteps
<1>4. b \in Seq(S) /\ Len(b) = n + m - p /\ \A i \in 1..n + m - p : b[i] = u[p + i]
  <2> HIDE DEF b, n, m
  <2>1. QED
    BY <1>1, <1>a
<1> HIDE DEF a, b
<1>5. /\ a \o t \in Seq(S) /\ Len(a \o t) = n - p + m
      /\ \A i \in 1..n - p + m : (a \o t)[i] = IF i <= n - p THEN a[i] ELSE t[i - (n - p)]
  <2>1. /\ a \o t \in Seq(S) /\ Len(a \o t) = Len(a) + m
        /\ \A i \in 1..Len(a) + m : (a \o t)[i] = IF i <= Len(a) THEN a[i] ELSE t[i - Len(a)]
    BY <1>2, ConcatProperties
  <2> HIDE DEF n, m
  <2>2. QED
    BY <1>2, <2>1
<1> HIDE DEF n, m
<1>6. ASSUME NEW i \in 1..n + m - p PROVE b[i] = (a \o t)[i]
  <2>1. /\ p + i \in 1..n + m /\ i \in 1..n - p + m /\ n - p \in Nat
        /\ (p + i <= n <=> i <= n - p) /\ p + i - n = i - (n - p)
    BY <1>1
  <2>2. b[i] = u[p + i]
    BY <1>4
  <2>3. u[p + i] = IF p + i <= n THEN s[p + i] ELSE t[p + i - n]
    BY <1>1, <2>1
  <2>4. (a \o t)[i] = IF i <= n - p THEN a[i] ELSE t[i - (n - p)]
    BY <1>5, <2>1
  <2>5. i <= n - p => a[i] = s[p + i]
    BY <1>2, <2>1
  <2>6. QED
    BY <2>1, <2>2, <2>3, <2>4, <2>5
<1>7. n + m - p = n - p + m
  BY <1>1
<1>8. b = a \o t
  BY <1>4, <1>5, <1>6, <1>7, SeqEqual
<1>9. QED
  BY <1>8 DEF a, b, u

LEMMA AfterTyped ==
  ASSUME NEW buf, NEW pos, NEW cap, InBuffer(buf, pos, cap)
  PROVE  After(buf, pos) \in Seq(Units)
<1>1. buf \in Seq(Units) /\ pos + 1 \in Int /\ Len(buf) \in Int /\ pos \in Nat
  BY DEF InBuffer
<1>2. \A i \in pos + 1..Len(buf) : buf[i] \in Units
  BY <1>1
<1>3. QED
  BY <1>1, <1>2, SubSeqProperties DEF After

LEMMA Joined ==
  ASSUME NEW g \in Seq(Read), NEW s \in Seq(Units), NEW b \in Seq(Units)
  PROVE  g \o s \in Seq(Read) /\ (g \o s) \o b = g \o (s \o b)
BY UnitsRead, ConcatProperties, ConcatAssociative

LEMMA Listening ==
  ASSUME OutTypes, Whole
  PROVE  Listens /\ TakesAll
BY DEF OutTypes, Whole, Delivered, Listens, TakesAll, Buffered

-----------------------------------------------------------------------------
(* Steps. *)

LEMMA FlowsOn ==
  ASSUME NEW s \in Seq(Units), got' = got \o s, written' \in Nat, written' >= written
  PROVE  Flows
<1>1. \E u \in Seq(Units) : got' = got \o u
  OBVIOUS
<1>2. QED
  BY <1>1 DEF Flows

LEMMA SendTyped ==
  ASSUME OutTypes, NEW units \in Seq(Units), Send(units)
  PROVE  got' \in Seq(Read) /\ left' \in Nat
BY HeardTyped DEF OutTypes, Buffered, Send

\* A flush, alone.
LEMMA FlushStep ==
  ASSUME OutTypes, Flush, is_websocket' = is_websocket, written' = written
  PROVE  Buffered' /\ got' \in Seq(Read) /\ left' \in Nat /\ Carries
<1>1. PICK f \in Flushes(write_buf, write_pos, write_cap) :
        /\ write_buf' = f.buf /\ write_pos' = f.pos /\ write_cap' = f.cap
        /\ Send(f.sent)
  BY DEF Flush
<1>2. Buffered /\ written \in Nat /\ got \in Seq(Read)
  BY DEF OutTypes
<1>3. InBuffer(f.buf, f.pos, f.cap) /\ f.sent \in Seq(Units)
  BY <1>2, FlushFacts
<1>4. Buffered'
  BY <1>1, <1>2, <1>3 DEF Buffered, InBuffer
<1>5. got' \in Seq(Read) /\ left' \in Nat
  BY <1>1, <1>3, SendTyped
<1>6. ASSUME Whole PROVE Delivered' /\ Flows
  <2>1. PICK s \in Seq(Units) :
          /\ Heard(f.sent).got = got \o s /\ Heard(f.sent).left = 0
          /\ is_websocket => f.pos = 0
          /\ s \o After(f.buf, f.pos) = After(write_buf, write_pos)
    BY <1>2, <1>6, Listening, FlushSends
  <2>2. got' = got \o s /\ left' = 0
    BY <1>1, <2>1 DEF Send
  <2>3. After(f.buf, f.pos) \in Seq(Units)
    BY <1>3, AfterTyped
  <2>4. (got \o s) \o After(f.buf, f.pos) = got \o After(write_buf, write_pos)
    <3> DEFINE a == After(f.buf, f.pos)
    <3>1. a \in Seq(Units) /\ s \o a = After(write_buf, write_pos)
      BY <2>1, <2>3
    <3> HIDE DEF a
    <3>2. (got \o s) \o a = got \o (s \o a)
      BY <1>2, <3>1, Joined
    <3>3. QED
      BY <3>1, <3>2 DEF a
  <2>5. After(write_buf, write_pos)' = After(f.buf, f.pos) /\ Stream' = Stream
    BY <1>1 DEF After, Stream
  <2>6. Delivered'
    BY <1>1, <1>6, <2>1, <2>2, <2>4, <2>5 DEF Whole, Delivered
  <2>7. written' \in Nat /\ written' >= written
    BY <1>2
  <2>8. QED
    BY <2>2, <2>6, <2>7, FlowsOn
<1>7. QED
  BY <1>4, <1>5, <1>6 DEF Carries

\* Nothing is sent or written.
LEMMA QuietStep ==
  ASSUME OutTypes, Buffered', is_websocket' = is_websocket, written' = written,
         got' = got, left' = left, write_pos' = write_pos \/ write_pos' = 0,
         After(write_buf', write_pos') = After(write_buf, write_pos)
  PROVE  Carries
<1>1. ASSUME Whole PROVE Delivered'
  <2>1. Stream' = Stream
    BY DEF Stream
  <2>2. After(write_buf, write_pos)' = After(write_buf, write_pos)
    OBVIOUS
  <2>3. QED
    BY <1>1, <2>1, <2>2 DEF Whole, Delivered
<1>2. Flows
  <2>1. got \o <<>> = got /\ <<>> \in Seq(Units)
    BY ConcatEmptySeq DEF OutTypes
  <2>2. written \in Nat
    BY DEF OutTypes
  <2>3. written' \in Nat /\ written' >= written
    BY <2>2
  <2>4. got' = got \o <<>>
    BY <2>1
  <2>5. QED
    BY <2>1, <2>3, <2>4, FlowsOn
<1>3. QED
  BY <1>1, <1>2 DEF Carries

LEMMA TodoTail ==
  ASSUME OutTypes, todo # <<>>
  PROVE  /\ Head(todo) \in Ops /\ Tail(todo) \in Seq(Ops)
         /\ written + Head(todo).len + Total(Tail(todo)) <= MaxUnits
         /\ written + Total(Tail(todo)) <= MaxUnits
<1>1. Head(todo) \in Ops /\ Tail(todo) \in Seq(Ops)
  BY DEF OutTypes
<1>2. Head(todo).len \in Nat /\ Total(Tail(todo)) \in Nat /\ written \in Nat
  BY <1>1, OpFacts, TotalFacts DEF OutTypes
<1>3. Total(todo) = Head(todo).len + Total(Tail(todo))
  BY TotalFacts DEF OutTypes
<1>4. QED
  BY <1>1, <1>2, <1>3, OutputAssumption DEF OutTypes

\* A write, with the flush that may make room for it.
LEMMA AppendStep ==
  ASSUME OutTypes, AppendUnits
  PROVE  OutTypes' /\ Carries
<1> DEFINE o == Head(todo)
           new == [i \in 1..o.len |-> Unit(written + i)]
<1>1. todo # <<>> /\ o.op = "append" /\ Continue
  BY DEF AppendUnits
<1>2. /\ o \in Ops /\ Tail(todo) \in Seq(Ops)
      /\ written + o.len + Total(Tail(todo)) <= MaxUnits
  BY <1>1, TodoTail
<1>3. o.len \in Nat /\ o.reserve \in Nat /\ o.len <= o.reserve
  BY <1>1, <1>2, OpFacts
<1> HIDE DEF o
<1>4. PICK e \in EnsureWriteSpace(o.reserve) :
        /\ write_buf' = e.buf \o new
        /\ write_pos' = e.pos /\ write_cap' = e.cap
        /\ Send(e.sent)
  BY DEF AppendUnits, o
<1>5. /\ written' = written + o.len /\ pending' = pending \ {o.part}
      /\ cursor_sent' = IF o.part = "cursor" THEN cursor ELSE cursor_sent
      /\ todo' = Tail(todo)
      /\ is_websocket' = is_websocket /\ normal' = normal /\ cursor' = cursor
  BY DEF AppendUnits, Continue, o
<1>6. Buffered /\ written \in Nat /\ got \in Seq(Read)
  BY DEF OutTypes
<1>7. /\ InBuffer(e.buf, e.pos, e.cap) /\ e.sent \in Seq(Units)
      /\ Len(e.buf) + o.reserve <= e.cap
  BY <1>3, <1>6, SpaceFacts
<1>8. new \in Seq(Units) /\ Len(new) = o.len
  BY <1>3, <1>6, StreamFacts
<1>9. Stream' = Stream \o new /\ Stream \in Seq(Units)
  BY <1>3, <1>5, <1>6, StreamFacts DEF Stream
<1> HIDE DEF new
<1>10. e.buf \o new \in Seq(Units) /\ Len(e.buf \o new) = Len(e.buf) + o.len
  <2>1. e.buf \in Seq(Units)
    BY <1>7 DEF InBuffer
  <2>2. QED
    BY <1>8, <2>1, ConcatProperties
<1>11. Buffered'
  <2>1. /\ e.pos \in 0..Len(e.buf \o new) /\ e.cap \in Nat
        /\ Len(e.buf \o new) <= e.cap
    BY <1>3, <1>7, <1>10 DEF InBuffer
  <2>2. QED
    BY <1>4, <1>5, <1>6, <1>10, <2>1 DEF Buffered, InBuffer
<1>12. got' \in Seq(Read) /\ left' \in Nat
  BY <1>4, <1>7, SendTyped
<1>13. OutTypes'
  <2>1. written' + Total(todo') <= MaxUnits /\ written' \in Nat
    BY <1>2, <1>3, <1>5, <1>6
  <2>2. cursor_sent' \in 0..MaxCursors /\ pending' \subseteq {"size", "cursor"}
    BY <1>5 DEF OutTypes
  <2>3. QED
    BY <1>2, <1>5, <1>11, <1>12, <2>1, <2>2 DEF OutTypes
<1>14. ASSUME Whole PROVE Delivered' /\ Flows
  <2>1. PICK s \in Seq(Units) :
          /\ Heard(e.sent).got = got \o s /\ Heard(e.sent).left = 0
          /\ is_websocket => e.pos = 0
          /\ s \o After(e.buf, e.pos) = After(write_buf, write_pos)
    BY <1>3, <1>6, <1>14, Listening, SpaceSends
  <2> DEFINE a == After(e.buf, e.pos)
  <2>2. got' = got \o s /\ left' = 0
    BY <1>4, <2>1 DEF Send
  <2>3. a \in Seq(Units)
    BY <1>7, AfterTyped
  <2>4. After(write_buf', write_pos') = a \o new
    BY <1>4, <1>7, <1>8, AfterConcat DEF InBuffer
  <2> HIDE DEF a
  <2>5. got \o s \in Seq(Read) /\ (got \o s) \o a = Stream
    <3>1. got \o (s \o a) = Stream
      BY <1>14, <2>1 DEF Whole, Delivered, a
    <3>2. QED
      BY <1>6, <2>3, <3>1, Joined
  <2>6. (got \o s) \o (a \o new) = Stream \o new
    BY <1>8, <2>3, <2>5, Joined
  <2>7. got' \o After(write_buf', write_pos') = Stream'
    BY <1>9, <2>2, <2>4, <2>6
  <2>8. Delivered'
    BY <1>4, <1>5, <2>1, <2>2, <2>7 DEF Delivered, After
  <2>9. written' \in Nat /\ written' >= written
    BY <1>3, <1>5, <1>6
  <2>10. QED
    BY <2>2, <2>8, <2>9, FlowsOn
<1>15. QED
  BY <1>13, <1>14 DEF Carries

\* Each operation of a handler.
LEMMA HandlerStep ==
  ASSUME OutTypes, Handler
  PROVE  OutTypes' /\ Carries
<1>1. CASE AppendUnits
  BY <1>1, AppendStep
<1>2. CASE FlushBuffer
  <2>1. /\ todo # <<>> /\ Flush /\ todo' = Tail(todo)
        /\ UNCHANGED <<is_websocket, normal, cursor, pending, written, cursor_sent>>
    BY <1>2 DEF FlushBuffer, Continue
  <2>2. Tail(todo) \in Seq(Ops) /\ written + Total(Tail(todo)) <= MaxUnits
    BY <2>1, TodoTail
  <2>3. Buffered' /\ got' \in Seq(Read) /\ left' \in Nat /\ Carries
    BY <2>1, FlushStep
  <2>4. QED
    BY <2>1, <2>2, <2>3 DEF OutTypes
<1>3. CASE ReturnIfUnsent
  <2>1. /\ todo # <<>> /\ todo' = IF Unsent THEN <<>> ELSE Tail(todo)
        /\ UNCHANGED <<is_websocket, normal, write_buf, write_pos, write_cap,
                       pending, cursor, written, cursor_sent, peerVars>>
    BY <1>3 DEF ReturnIfUnsent
  <2>2. Tail(todo) \in Seq(Ops) /\ written + Total(Tail(todo)) <= MaxUnits
    BY <2>1, TodoTail
  <2>3. written + Total(<<>>) <= MaxUnits /\ <<>> \in Seq(Ops)
    <3>1. Total(<<>>) = 0 /\ Total(Tail(todo)) \in Nat
      BY <2>2, TotalFacts
    <3>2. QED
      BY <2>2, <3>1, OutputAssumption DEF OutTypes
  <2>4. todo' \in Seq(Ops) /\ written + Total(todo') <= MaxUnits
    BY <2>1, <2>2, <2>3
  <2>5. Buffered'
    BY <2>1 DEF OutTypes, Buffered, InBuffer
  <2>6. OutTypes'
    BY <2>1, <2>4, <2>5 DEF OutTypes, peerVars
  <2>7. QED
    BY <2>1, <2>5, <2>6, QuietStep DEF peerVars
<1>4. QED
  BY <1>1, <1>2, <1>3 DEF Handler

\* What the handlers have to do are operations.
LEMMA OpsTyped ==
  /\ One \in Ops /\ FlushOp \in Ops /\ ReturnOp \in Ops
  /\ \A n, r \in Nat, p \in Parts : n <= r => AppendOp(n, r, p) \in Ops
<1>1. \A n, r \in Nat, p \in Parts : n <= r => AppendOp(n, r, p) \in Ops
  BY DEF AppendOp, Ops, AppendOps
<1>2. FlushOp \in Ops /\ ReturnOp \in Ops
  BY DEF FlushOp, ReturnOp, Ops, OtherOps
<1>3. "none" \in Parts /\ 1 <= 1
  BY DEF Parts
<1>4. QED
  BY <1>1, <1>2, <1>3 DEF One

LEMMA PendingOpsTyped == SizeOps \in Seq(Ops) /\ CursorOps \in Seq(Ops)
<1>1. One \in Ops /\ FlushOp \in Ops /\ ReturnOp \in Ops
  BY OpsTyped
<1>2. AppendOp(1, 1, "size") \in Ops /\ AppendOp(2, 2, "cursor") \in Ops
  BY OpsTyped DEF Parts
<1>3. <<>> \in Seq(Ops)
  OBVIOUS
<1>4. <<One, AppendOp(1, 1, "size"), FlushOp, ReturnOp>> \in Seq(Ops)
  BY <1>1, <1>2
<1>5. <<AppendOp(2, 2, "cursor"), FlushOp, ReturnOp>> \in Seq(Ops)
  BY <1>1, <1>2
<1>6. QED
  BY <1>3, <1>4, <1>5 DEF SizeOps, CursorOps

LEMMA RectOpsTyped ==
  ASSUME NEW lens \in Seq(RectLens)
  PROVE  RectOps(lens) \in Seq(Ops)
<1> DEFINE rect(i) == <<One, AppendOp(lens[i], lens[i] + 1, "none")>>
           rects == [i \in DOMAIN lens |-> rect(i)]
<1>1. One \in Ops /\ FlushOp \in Ops
  BY OpsTyped
<1>2. ASSUME NEW i \in 1..Len(lens) PROVE rect(i) \in Seq(Ops)
  <2>0. lens[i] \in RectLens /\ RectLens \subseteq Nat
    BY OutputAssumption
  <2> DEFINE n == lens[i]
  <2>a. n \in Nat
    BY <2>0
  <2> HIDE DEF n
  <2>b. n \in Nat /\ n + 1 \in Nat /\ n <= n + 1
    BY <2>a
  <2>1. lens[i] \in Nat /\ lens[i] + 1 \in Nat /\ lens[i] <= lens[i] + 1
    BY <2>b DEF n
  <2>2. AppendOp(lens[i], lens[i] + 1, "none") \in Ops
    BY <2>1, OpsTyped DEF Parts
  <2>3. QED
    BY <1>1, <2>2
<1> HIDE DEF rect
<1>3. rects \in Seq(Seq(Ops))
  BY <1>2
<1>4. FlattenSeq(rects) \in Seq(Ops)
  <2> HIDE DEF rects
  <2>1. QED
    BY <1>3, FlattenIn
<1>5. <<One>> \in Seq(Ops) /\ <<FlushOp>> \in Seq(Ops)
  BY <1>1
<1>6. RectOps(lens) = <<One>> \o FlattenSeq(rects) \o <<FlushOp>>
  BY DEF RectOps, rect
<1> HIDE DEF rects
<1>7. QED
  BY <1>4, <1>5, <1>6, ConcatProperties

LEMMA UpdatesTyped ==
  ASSUME NEW update \in Updates
  PROVE  update \in Seq(Ops)
<1>1. One \in Ops /\ FlushOp \in Ops
  BY OpsTyped
<1>2. /\ <<>> \in Seq(Ops) /\ <<One, FlushOp>> \in Seq(Ops)
      /\ <<One, One, FlushOp>> \in Seq(Ops)
      /\ <<One, FlushOp, One, One, FlushOp>> \in Seq(Ops)
  BY <1>1
<1>3. ASSUME NEW lens \in SeqOf(RectLens, MaxRects) PROVE RectOps(lens) \in Seq(Ops)
  <2>1. PICK n \in 0..MaxRects : lens \in [1..n -> RectLens]
    BY DEF SeqOf
  <2>2. lens \in Seq(RectLens)
    BY <2>1, OutputAssumption
  <2>3. QED
    BY <2>2, RectOpsTyped
<1>4. QED
  BY <1>2, <1>3 DEF Updates, VideoOps

\* A handler begins, and nothing is sent or written by that.
LEMMA BeginStep ==
  ASSUME OutTypes, NEW ops \in Seq(Ops), Begin(ops),
         normal' = normal, pending' = pending,
         \/ write_buf' = write_buf /\ write_pos' = write_pos
         \/ ~Unsent /\ write_buf' = <<>> /\ write_pos' = 0
  PROVE  OutTypes' /\ Carries
<1>1. /\ todo' = ops /\ written + Total(ops) <= MaxUnits
      /\ is_websocket' = is_websocket /\ write_cap' = write_cap
      /\ cursor' = cursor /\ cursor_sent' = cursor_sent /\ written' = written
      /\ got' = got /\ left' = left
  BY DEF Begin, peerVars
<1>2. InBuffer(write_buf, write_pos, write_cap)
  BY DEF OutTypes, Buffered
<1>3. /\ InBuffer(write_buf', write_pos', write_cap')
      /\ After(write_buf', write_pos') = After(write_buf, write_pos)
      /\ write_pos' = write_pos \/ write_pos' = 0
  <2>1. CASE write_buf' = write_buf /\ write_pos' = write_pos
    BY <1>1, <1>2, <2>1
  <2>2. CASE ~Unsent /\ write_buf' = <<>> /\ write_pos' = 0
    <3>1. Len(write_buf) \in Nat /\ write_pos = Len(write_buf)
      BY <1>2, <2>2 DEF InBuffer, Unsent
    <3>2. After(write_buf, write_pos) = <<>>
      <4>1. write_pos + 1 \in Int /\ Len(write_buf) \in Int
            /\ Len(write_buf) < write_pos + 1
        BY <3>1
      <4>2. QED
        BY <4>1, SubSeqEmpty DEF After
    <3>3. After(<<>>, 0) = <<>>
      BY SubSeqEmpty DEF After
    <3>4. InBuffer(<<>>, 0, write_cap)
      BY <1>2 DEF InBuffer
    <3>5. QED
      BY <1>1, <2>2, <3>2, <3>3, <3>4
  <2>3. QED
    BY <2>1, <2>2
<1>4. Buffered'
  BY <1>1, <1>3 DEF OutTypes, Buffered, InBuffer
<1>5. OutTypes'
  BY <1>1, <1>4 DEF OutTypes
<1>6. QED
  BY <1>1, <1>3, <1>4, <1>5, QuietStep

\* The handlers begin, and the application's calls.
Calls ==
  \/ WriteRaw \/ ClientInit \/ PollOut
  \/ SendUpdate \/ SendAudioUpdate \/ SendClipboard
  \/ \E shape \in 0..MaxCursors \ {cursor} : SetCursor(shape)
  \/ ResizeFramebuffer

\* Each action that begins a handler, and the application's calls.
LEMMA CallsStep ==
  ASSUME OutTypes, Calls
  PROVE  OutTypes' /\ Carries
<1>a. One \in Ops /\ FlushOp \in Ops /\ AppendOp(2, 2, "none") \in Ops
  BY OpsTyped DEF Parts
<1>1. CASE WriteRaw
  <2>1. <<One, FlushOp>> \in Seq(Ops)
    BY <1>a
  <2>2. Begin(<<One, FlushOp>>) /\ UNCHANGED <<normal, write_buf, write_pos, pending>>
    BY <1>1 DEF WriteRaw
  <2>3. QED
    BY <2>1, <2>2, BeginStep
<1>2. CASE SendUpdate
  <2>1. PICK update \in Updates : Begin(SizeOps \o CursorOps \o update)
    BY <1>2 DEF SendUpdate
  <2>2. SizeOps \o CursorOps \o update \in Seq(Ops)
    BY PendingOpsTyped, UpdatesTyped, ConcatProperties
  <2>3. ~Unsent /\ write_buf' = <<>> /\ write_pos' = 0 /\ UNCHANGED <<normal, pending>>
    BY <1>2 DEF SendUpdate, Composes
  <2>4. QED
    BY <2>1, <2>2, <2>3, BeginStep
<1>3. CASE SendAudioUpdate
  <2>1. PICK n \in 1..2 : Begin([i \in 1..n |-> One] \o <<FlushOp>>)
    BY <1>3 DEF SendAudioUpdate
  <2>2. [i \in 1..n |-> One] \in Seq(Ops) /\ <<FlushOp>> \in Seq(Ops)
    BY <1>a
  <2>3. [i \in 1..n |-> One] \o <<FlushOp>> \in Seq(Ops)
    BY <2>2, ConcatProperties
  <2>4. UNCHANGED <<normal, write_buf, write_pos, pending>>
    BY <1>3 DEF SendAudioUpdate
  <2>5. QED
    BY <2>1, <2>3, <2>4, BeginStep
<1>4. CASE SendClipboard
  <2>1. <<AppendOp(2, 2, "none"), FlushOp>> \in Seq(Ops)
    BY <1>a
  <2>2. /\ Begin(<<AppendOp(2, 2, "none"), FlushOp>>)
        /\ UNCHANGED <<normal, write_buf, write_pos, pending>>
    BY <1>4 DEF SendClipboard
  <2>3. QED
    BY <2>1, <2>2, BeginStep
<1>5. CASE PollOut
  <2>1. /\ Flush /\ UNCHANGED <<is_websocket, normal, pending, cursor, todo, written,
                                cursor_sent>>
    BY <1>5 DEF PollOut
  <2>2. Buffered' /\ got' \in Seq(Read) /\ left' \in Nat /\ Carries
    BY <2>1, FlushStep
  <2>3. QED
    BY <2>1, <2>2 DEF OutTypes
<1>6. ASSUME UNCHANGED <<is_websocket, write_buf, write_pos, write_cap, todo, written,
                         cursor_sent, peerVars>>,
             normal' \in BOOLEAN, pending' \subseteq {"size", "cursor"},
             cursor' \in 0..MaxCursors
      PROVE  OutTypes' /\ Carries
  <2>1. Buffered'
    BY <1>6 DEF OutTypes, Buffered, InBuffer
  <2>2. OutTypes'
    BY <1>6, <2>1 DEF OutTypes, peerVars
  <2>3. QED
    BY <1>6, <2>1, <2>2, QuietStep DEF peerVars
<1>7. CASE ClientInit
  BY <1>6, <1>7 DEF ClientInit, OutTypes
<1>8. CASE \E shape \in 0..MaxCursors \ {cursor} : SetCursor(shape)
  BY <1>6, <1>8 DEF SetCursor, TellsClients, OutTypes
<1>9. CASE ResizeFramebuffer
  BY <1>6, <1>9 DEF ResizeFramebuffer, OutTypes
<1>10. QED
  BY <1>1, <1>2, <1>3, <1>4, <1>5, <1>7, <1>8, <1>9 DEF Calls

-----------------------------------------------------------------------------
(* Slices of a sequence: the elements after the first a, up to the b-th. *)

Slice(s, a, b) == SubSeq(s, a + 1, b)

LEMMA SliceFacts ==
  ASSUME NEW S, NEW s \in Seq(S), NEW a \in 0..Len(s), NEW b \in a..Len(s)
  PROVE  /\ Slice(s, a, b) \in Seq(S) /\ Len(Slice(s, a, b)) = b - a
         /\ \A i \in 1..b - a : Slice(s, a, b)[i] = s[a + i]
<1> DEFINE m == a + 1
           t == SubSeq(s, m, b)
<1>1. a \in Nat /\ b \in Nat /\ a <= b /\ m \in Int /\ \A i \in m..b : s[i] \in S
  OBVIOUS
<1>2. t = Slice(s, a, b)
  BY DEF Slice
<1> HIDE DEF t
<1>3. /\ t \in Seq(S) /\ Len(t) = IF m <= b THEN b - m + 1 ELSE 0
      /\ \A i \in 1..b - m + 1 : t[i] = s[m + i - 1]
  <2> HIDE DEF m
  <2>1. QED
    BY <1>1, SubSeqProperties DEF t
<1>4. Len(t) = b - a
  BY <1>1, <1>3
<1>5. ASSUME NEW i \in 1..b - a PROVE t[i] = s[a + i]
  <2>1. i \in 1..b - m + 1 /\ m + i - 1 = a + i
    BY <1>1
  <2>2. t[i] = s[m + i - 1]
    BY <1>3, <2>1
  <2>3. QED
    BY <2>1, <2>2
<1>6. QED
  BY <1>2, <1>3, <1>4, <1>5

LEMMA SlicesJoin ==
  ASSUME NEW S, NEW s \in Seq(S), NEW a \in 0..Len(s), NEW b \in a..Len(s),
         NEW c \in b..Len(s)
  PROVE  Slice(s, a, b) \o Slice(s, b, c) = Slice(s, a, c)
<1> DEFINE m == a + 1
<1>1. m \in 1..Len(s) + 1 /\ b \in m - 1..Len(s) /\ c \in b..Len(s)
  OBVIOUS
<1> HIDE DEF m
<1>2. SubSeq(s, m, b) \o SubSeq(s, b + 1, c) = SubSeq(s, m, c)
  BY <1>1, ConcatAdjacentSubSeq
<1>3. QED
  BY <1>2 DEF Slice, m

LEMMA SliceOfSlice ==
  ASSUME NEW S, NEW s \in Seq(S), NEW a \in 0..Len(s), NEW b \in a..Len(s),
         NEW c \in 0..b - a, NEW d \in c..b - a
  PROVE  Slice(Slice(s, a, b), c, d) = Slice(s, a + c, a + d)
<1> DEFINE t == Slice(s, a, b)
           u == Slice(t, c, d)
           v == Slice(s, a + c, a + d)
<1>1. t \in Seq(S) /\ Len(t) = b - a /\ \A i \in 1..b - a : t[i] = s[a + i]
  BY SliceFacts
<1> HIDE DEF t
<1>2. c \in 0..Len(t) /\ d \in c..Len(t)
  BY <1>1
<1>3. u \in Seq(S) /\ Len(u) = d - c /\ \A i \in 1..d - c : u[i] = t[c + i]
  BY <1>1, <1>2, SliceFacts
<1> DEFINE e == a + c
           f == a + d
<1>4. e \in 0..Len(s) /\ f \in e..Len(s) /\ f - e = d - c
  OBVIOUS
<1> HIDE DEF e, f
<1>5. Slice(s, e, f) \in Seq(S) /\ Len(Slice(s, e, f)) = f - e
      /\ \A i \in 1..f - e : Slice(s, e, f)[i] = s[e + i]
  BY <1>4, SliceFacts
<1>6. v = Slice(s, e, f)
  BY DEF e, f
<1> HIDE DEF u, v
<1>7. ASSUME NEW i \in 1..d - c PROVE u[i] = v[i]
  <2>1. c + i \in 1..b - a /\ a + (c + i) = a + c + i
    OBVIOUS
  <2>2. u[i] = s[a + (c + i)]
    BY <1>1, <1>3, <2>1
  <2>3. v[i] = s[a + c + i]
    BY <1>4, <1>5, <1>6 DEF e
  <2>4. QED
    BY <2>1, <2>2, <2>3
<1>8. u = v
  BY <1>3, <1>4, <1>5, <1>6, <1>7, SeqEqual
<1>9. QED
  BY <1>8 DEF u, v, t

-----------------------------------------------------------------------------
(* What data frames carry. *)

\* The data among the first n of bytes.
Carried(d, bytes) ==
  /\ d[0] = <<>>
  /\ \A n \in 1..Len(bytes) :
       d[n] = IF bytes[n][1] = "data" THEN Append(d[n - 1], bytes[n]) ELSE d[n - 1]

\* Payload is the last of the data among the first bytes.
LEMMA PayloadSteps ==
  ASSUME NEW S, NEW bytes \in Seq(S)
  PROVE  \E d \in [0..Len(bytes) -> Seq(S)] :
           Carried(d, bytes) /\ Payload(bytes) = d[Len(bytes)]
<1> DEFINE N == Len(bytes)
           X == Seq(S)
           With(s, n) == IF bytes[n][1] = "data" THEN Append(s, bytes[n]) ELSE s
           F(f) == [n \in 0..N |->
                      IF n = 0 THEN <<>>
                      ELSE IF bytes[n][1] = "data" THEN Append(f[n - 1], bytes[n])
                      ELSE f[n - 1]]
           step == [p \in X \X (1..N) |-> With(p[1], p[2])]
<1>1. N \in Nat /\ <<>> \in X /\ \A s \in X, n \in 1..N : With(s, n) \in X
  OBVIOUS
<1> DEFINE h == CHOOSE f : f = F(f)
<1>2. Payload(bytes) = h[N]
  BY DEF Payload
<1> HIDE DEF N, X, With
<1>3. step \in [X \X (1..N) -> X]
  BY <1>1
<1>4. \A s \in X, n \in 1..N : step[<<s, n>>] = With(s, n)
  OBVIOUS
<1> HIDE DEF step
<1>5. PICK g \in [0..N -> X] : Stepped(g, <<>>, step, N)
  BY <1>1, <1>3, Stepwise
<1>6. g[0] = <<>> /\ \A n \in 1..N : g[n] = With(g[n - 1], n)
  <2>1. ASSUME NEW n \in 1..N PROVE g[n] = With(g[n - 1], n)
    <3>1. n - 1 \in 0..N
      BY <1>1
    <3>2. g[n] = step[<<g[n - 1], n>>] /\ g[n - 1] \in X
      BY <1>5, <3>1 DEF Stepped
    <3>3. QED
      BY <1>4, <3>2
  <2>2. QED
    BY <1>5, <2>1 DEF Stepped
<1>7. F(g) = [n \in 0..N |-> IF n = 0 THEN <<>> ELSE With(g[n - 1], n)]
  BY DEF With
<1>8. g = F(g)
  <2>1. ASSUME NEW n \in 0..N
        PROVE  g[n] = IF n = 0 THEN <<>> ELSE With(g[n - 1], n)
    BY <1>1, <1>6
  <2> HIDE DEF F
  <2>2. QED
    BY <1>7, <2>1
<1>9. F(h) = [n \in 0..N |-> IF n = 0 THEN <<>> ELSE With(h[n - 1], n)]
  BY DEF With
<1> HIDE DEF F
<1>10. h = F(h)
  BY <1>8
<1> HIDE DEF h
<1>11. h[0] = <<>> /\ \A n \in 1..N : h[n] = With(h[n - 1], n)
  BY <1>1, <1>9, <1>10
<1>12. \A n \in 0..N : h[n] \in X
  <2>1. h[0] \in X
    BY <1>1, <1>11
  <2>2. ASSUME NEW n \in 1..N, h[n - 1] \in X PROVE h[n] \in X
    BY <1>1, <1>11, <2>2
  <2>3. QED
    BY <1>1, <2>1, <2>2, StepsStay
<1>13. h \in [0..N -> X]
  <2>1. h = [n \in 0..N |-> h[n]]
    BY <1>9, <1>10
  <2>2. QED
    BY <1>12, <2>1
<1>14. QED
  BY <1>2, <1>11, <1>13 DEF Carried, With, N, X

LEMMA PayloadTyped ==
  ASSUME NEW S, NEW bytes \in Seq(S)
  PROVE  Payload(bytes) \in Seq(S)
<1>1. Len(bytes) \in 0..Len(bytes)
  OBVIOUS
<1>2. QED
  BY <1>1, PayloadSteps

LEMMA PayloadOfNothing == Payload(<<>>) = <<>>
<1>1. <<>> \in Seq({}) /\ Len(<<>>) = 0
  OBVIOUS
<1>2. PICK d \in [0..Len(<<>>) -> Seq({})] :
        Carried(d, <<>>) /\ Payload(<<>>) = d[Len(<<>>)]
  BY <1>1, PayloadSteps
<1>3. d[0] = <<>>
  BY <1>2 DEF Carried
<1>4. QED
  BY <1>1, <1>2, <1>3

Longer(s, e) == Append(s, e)

LEMMA LongerJoins ==
  ASSUME NEW S, NEW x \in Seq(S), NEW y \in Seq(S), NEW z \in S
  PROVE  Longer(x \o y, z) = x \o Longer(y, z)
<1>1. (x \o y) \o <<z>> = x \o (y \o <<z>>)
  BY ConcatAssociative
<1>2. QED
  BY <1>1, AppendIsConcat, ConcatProperties DEF Longer

\* The data of two parts are the data of the whole.
LEMMA PayloadJoins ==
  \A S : \A s \in Seq(S), t \in Seq(S) : Payload(s \o t) = Payload(s) \o Payload(t)
<1>0. SUFFICES ASSUME NEW S, NEW s, NEW t, s \in Seq(S), t \in Seq(S)
               PROVE  Payload(s \o t) = Payload(s) \o Payload(t)
  OBVIOUS
<1> DEFINE u == s \o t
           n == Len(s)
           m == Len(t)
<1>1. /\ u \in Seq(S) /\ Len(u) = n + m /\ n \in Nat /\ m \in Nat
      /\ \A i \in 1..n + m : u[i] = IF i <= n THEN s[i] ELSE t[i - n]
      /\ \A i \in 1..n : s[i] \in S
      /\ \A i \in 1..m : t[i] \in S
  BY <1>0, ConcatProperties
<1> HIDE DEF u
<1>2. PICK c : c \in [0..n + m -> Seq(S)] /\ Carried(c, u) /\ Payload(u) = c[Len(u)]
  BY <1>1, PayloadSteps
<1>3. PICK a : a \in [0..n -> Seq(S)] /\ Carried(a, s) /\ Payload(s) = a[n]
  BY <1>0, PayloadSteps
<1>4. PICK b : b \in [0..m -> Seq(S)] /\ Carried(b, t) /\ Payload(t) = b[m]
  BY <1>0, PayloadSteps
<1>5. /\ c[0] = <<>> /\ a[0] = <<>> /\ b[0] = <<>>
      /\ \A i \in 1..n + m :
           c[i] = IF u[i][1] = "data" THEN Append(c[i - 1], u[i]) ELSE c[i - 1]
      /\ \A i \in 1..n :
           a[i] = IF s[i][1] = "data" THEN Append(a[i - 1], s[i]) ELSE a[i - 1]
      /\ \A i \in 1..m :
           b[i] = IF t[i][1] = "data" THEN Append(b[i - 1], t[i]) ELSE b[i - 1]
  BY <1>1, <1>2, <1>3, <1>4 DEF Carried
<1> HIDE DEF n, m
<1>6. c[n] = a[n]
  <2> DEFINE R == {i \in 0..n : c[i] = a[i]}
  <2>1. 0 \in R
    BY <1>1, <1>5
  <2>2. ASSUME NEW i \in 1..n, i - 1 \in R PROVE i \in R
    <3>1. i \in 1..n + m /\ i <= n /\ i \in 0..n
      BY <1>1
    <3>2. u[i] = s[i] /\ c[i - 1] = a[i - 1]
      BY <1>1, <2>2, <3>1
    <3>3. c[i] = a[i]
      BY <1>5, <3>1, <3>2
    <3>4. QED
      BY <3>1, <3>3
  <2>3. \A i \in 0..n : i \in R
    <3> HIDE DEF R
    <3>1. QED
      BY <1>1, <2>1, <2>2, UpTo
  <2>4. n \in R
    BY <1>1, <2>3
  <2>5. QED
    BY <2>4
<1>7. c[n + m] = a[n] \o b[m]
  <2> DEFINE R == {i \in 0..m : c[n + i] = a[n] \o b[i]}
  <2>0. a[n] \in Seq(S) /\ \A i \in 0..m : b[i] \in Seq(S)
    BY <1>1, <1>3, <1>4
  <2>1. 0 \in R
    <3>1. n + 0 = n /\ 0 \in 0..m
      BY <1>1
    <3>2. a[n] \o <<>> = a[n]
      BY <2>0, ConcatEmptySeq
    <3>3. QED
      BY <1>5, <1>6, <3>1, <3>2
  <2>2. ASSUME NEW i \in 1..m, i - 1 \in R PROVE i \in R
    <3>1. /\ n + i \in 1..n + m /\ ~(n + i <= n) /\ n + i - n = i /\ i \in 0..m
          /\ i - 1 \in 0..m /\ n + i - 1 = n + (i - 1)
      BY <1>1
    <3>2. c[n + (i - 1)] = a[n] \o b[i - 1]
      BY <2>2
    <3> HIDE DEF R
    <3> DEFINE k == n + i
    <3>a. k \in 1..n + m /\ ~(k <= n) /\ k - n = i /\ k - 1 = n + (i - 1)
      BY <1>1
    <3>b. c[k - 1] = a[n] \o b[i - 1]
      BY <3>2, <3>a
    <3> HIDE DEF k
    <3>c. u[k] = t[i]
      BY <1>1, <3>a
    <3>3. c[k] = IF t[i][1] = "data" THEN Append(a[n] \o b[i - 1], t[i])
                 ELSE a[n] \o b[i - 1]
      BY <1>5, <3>a, <3>b, <3>c
    <3>d. t[i] \in S /\ b[i - 1] \in Seq(S)
      BY <1>1, <2>0, <3>1
    <3>4. Append(a[n] \o b[i - 1], t[i]) = a[n] \o Append(b[i - 1], t[i])
      <4>1. Longer(a[n] \o b[i - 1], t[i]) = a[n] \o Longer(b[i - 1], t[i])
        <5>1. ASSUME NEW x \in Seq(S), NEW y \in Seq(S), NEW z \in S
              PROVE  Longer(x \o y, z) = x \o Longer(y, z)
          BY LongerJoins
        <5>2. a[n] \in Seq(S) /\ b[i - 1] \in Seq(S) /\ t[i] \in S
          BY <2>0, <3>d
        <5>3. QED
          BY <5>1, <5>2, Zenon
      <4>2. QED
        BY <4>1 DEF Longer
    <3>e. b[i] = IF t[i][1] = "data" THEN Append(b[i - 1], t[i]) ELSE b[i - 1]
      BY <1>5
    <3>5. c[n + i] = a[n] \o b[i]
      BY <3>3, <3>4, <3>e DEF k
    <3>6. QED
      BY <3>1, <3>5 DEF R
  <2>3. \A i \in 0..m : i \in R
    <3> HIDE DEF R
    <3>1. QED
      BY <1>1, <2>1, <2>2, UpTo
  <2>4. m \in R
    <3>1. m \in 0..m
      BY <1>1
    <3> HIDE DEF R
    <3>2. QED
      BY <2>3, <3>1
  <2>5. QED
    BY <2>4
<1>8. QED
  BY <1>1, <1>2, <1>3, <1>4, <1>7 DEF u

-----------------------------------------------------------------------------
(* The browser's frames, one after the other. *)

FrameBytes ==
  ({"op"} \X PeerFrames) \cup ({"len"} \X Nat)
    \cup ({"ext", "mask", "data", "ping", "close", "other"} \X Nat \X Nat)

\* What follows the first two bytes of a frame.
Body(fr) == fr.ext + fr.mask + fr.len

\* The size of a browser's frame does not wrap.
LEMMA FrameSizes ==
  ASSUME NEW fr \in PeerFrames
  PROVE  /\ {fr.ext, fr.mask, fr.len, Body(fr)} \subseteq Nat
         /\ fr.ext <= Body(fr) /\ FrameSize(fr) = 2 + Body(fr)
<1>1. fr.ext \in ExtLens /\ fr.mask \in MaskLens /\ fr.len \in FrameLens
  BY DEF PeerFrames
<1> DEFINE e == fr.ext
           m == fr.mask
           l == fr.len
           n == 2 + e + m + l
<1>2. e \in Nat /\ m \in Nat /\ l \in Nat /\ SizeWord \in Nat
  BY <1>1, OutputAssumption
<1>3. n < SizeWord
  BY <1>1, BrowserLengths
<1> HIDE DEF e, m, l
<1>4. n \in 0..SizeWord - 1 /\ n = 2 + (e + m + l) /\ e <= e + m + l /\ e + m + l \in Nat
  BY <1>2, <1>3
<1>5. n % SizeWord = n
  BY <1>2, <1>4
<1>6. QED
  BY <1>2, <1>4, <1>5 DEF FrameSize, Body, e, m, l

\* Where the k-th frame ends.
EndOf(k) == Len(FlattenSeq([i \in 1..k |-> Bytes(i)]))

\* What a sequence begins with, whatever is put behind it.
LEMMA Headed ==
  ASSUME NEW S, NEW a \in Seq(S), NEW b \in Seq(S), Len(a) >= 1
  PROVE  a \o b \in Seq(S) /\ Len(a \o b) = Len(a) + Len(b) /\ (a \o b)[1] = a[1]
<1>1. /\ a \o b \in Seq(S) /\ Len(a \o b) = Len(a) + Len(b)
      /\ \A k \in 1..Len(a) + Len(b) :
           (a \o b)[k] = IF k <= Len(a) THEN a[k] ELSE b[k - Len(a)]
  BY ConcatProperties
<1>2. 1 \in 1..Len(a) + Len(b) /\ 1 <= Len(a)
  OBVIOUS
<1>3. QED
  BY <1>1, <1>2

\* A frame begins with its op and its length.
LEMMA FrameTyped ==
  ASSUME frames \in Seq(PeerFrames), NEW i \in 1..Len(frames)
  PROVE  /\ frames[i] \in PeerFrames /\ Body(frames[i]) \in Nat
         /\ Bytes(i) \in Seq(FrameBytes) /\ Len(Bytes(i)) = 2 + Body(frames[i])
         /\ Bytes(i)[1] = <<"op", frames[i]>>
<1> DEFINE fr == frames[i]
           head == <<<<"op", fr>>, <<"len", i>>>>
           exts == [j \in 1..fr.ext |-> <<"ext", i, j>>]
           masks == [j \in 1..fr.mask |-> <<"mask", i, j>>]
           rest == [j \in 1..fr.len |-> <<fr.op, i, j>>]
<1>1. fr \in PeerFrames /\ i \in Nat
  OBVIOUS
<1> HIDE DEF fr
<1>2. /\ fr.ext \in Nat /\ fr.mask \in Nat /\ fr.len \in Nat /\ Body(fr) \in Nat
      /\ fr.op \in {"data", "ping", "close", "other"}
  <2>1. fr.op \in {"data", "ping", "close", "other"}
    BY <1>1 DEF PeerFrames
  <2>2. QED
    BY <1>1, <2>1, FrameSizes
<1>3. head \in Seq(FrameBytes) /\ Len(head) = 2 /\ head[1] = <<"op", fr>>
  <2>1. <<"op", fr>> \in FrameBytes /\ <<"len", i>> \in FrameBytes
    BY <1>1 DEF FrameBytes
  <2>2. QED
    BY <2>1
<1>4. exts \in Seq(FrameBytes) /\ Len(exts) = fr.ext
  <2>1. \A j \in 1..fr.ext : <<"ext", i, j>> \in FrameBytes
    BY <1>1, <1>2 DEF FrameBytes
  <2>2. QED
    BY <1>2, <2>1
<1>5. masks \in Seq(FrameBytes) /\ Len(masks) = fr.mask
  <2>1. \A j \in 1..fr.mask : <<"mask", i, j>> \in FrameBytes
    BY <1>1, <1>2 DEF FrameBytes
  <2>2. QED
    BY <1>2, <2>1
<1>6. rest \in Seq(FrameBytes) /\ Len(rest) = fr.len
  <2>1. \A j \in 1..fr.len : <<fr.op, i, j>> \in FrameBytes
    BY <1>1, <1>2 DEF FrameBytes
  <2>2. QED
    BY <1>2, <2>1
<1>7. Bytes(i) = ((head \o exts) \o masks) \o rest
  BY DEF Bytes, fr
<1> HIDE DEF head, exts, masks, rest
<1>8. /\ head \o exts \in Seq(FrameBytes) /\ Len(head \o exts) = 2 + fr.ext
      /\ (head \o exts)[1] = <<"op", fr>>
  <2>1. /\ head \in Seq(FrameBytes) /\ exts \in Seq(FrameBytes) /\ Len(head) >= 1
        /\ Len(head) = 2 /\ Len(exts) = fr.ext /\ head[1] = <<"op", fr>>
    BY <1>3, <1>4
  <2>2. head \o exts \in Seq(FrameBytes) /\ Len(head \o exts) = Len(head) + Len(exts)
        /\ (head \o exts)[1] = head[1]
    BY <2>1, Headed
  <2>3. QED
    BY <2>1, <2>2
<1>9. /\ (head \o exts) \o masks \in Seq(FrameBytes)
      /\ Len((head \o exts) \o masks) = 2 + fr.ext + fr.mask
      /\ ((head \o exts) \o masks)[1] = <<"op", fr>>
  <2> DEFINE a == head \o exts
  <2>1. a \in Seq(FrameBytes) /\ Len(a) = 2 + fr.ext /\ Len(a) >= 1 /\ a[1] = <<"op", fr>>
    BY <1>2, <1>8
  <2> HIDE DEF a
  <2>2. a \o masks \in Seq(FrameBytes) /\ Len(a \o masks) = 2 + fr.ext + fr.mask
        /\ (a \o masks)[1] = <<"op", fr>>
    BY <1>2, <1>5, <2>1, Headed
  <2>3. QED
    BY <2>2 DEF a
<1>10. /\ Bytes(i) \in Seq(FrameBytes) /\ Bytes(i)[1] = <<"op", fr>>
       /\ Len(Bytes(i)) = 2 + fr.ext + fr.mask + fr.len
  <2> DEFINE a == (head \o exts) \o masks
  <2>1. /\ a \in Seq(FrameBytes) /\ Len(a) = 2 + fr.ext + fr.mask /\ Len(a) >= 1
        /\ a[1] = <<"op", fr>> /\ Bytes(i) = a \o rest
    BY <1>2, <1>7, <1>9
  <2> HIDE DEF a
  <2>2. /\ a \o rest \in Seq(FrameBytes) /\ Len(a \o rest) = Len(a) + Len(rest)
        /\ (a \o rest)[1] = a[1]
    BY <1>6, <2>1, Headed
  <2>3. QED
    BY <1>6, <2>1, <2>2
<1>11. QED
  <2>1. 2 + fr.ext + fr.mask + fr.len = 2 + Body(fr)
    BY <1>2 DEF Body
  <2>2. QED
    BY <1>1, <1>2, <1>10, <2>1 DEF fr

\* What the first n of the frames come to.
LEMMA InboundSteps ==
  ASSUME frames \in Seq(PeerFrames)
  PROVE  \E f \in [0..Len(frames) -> Seq(FrameBytes)] :
           /\ f[0] = <<>>
           /\ \A n \in 1..Len(frames) : f[n] = f[n - 1] \o Bytes(n)
           /\ \A k \in 0..Len(frames) : FlattenSeq([i \in 1..k |-> Bytes(i)]) = f[k]
           /\ Inbound = f[Len(frames)]
<1> DEFINE N == Len(frames)
           q(k) == [i \in 1..k |-> Bytes(i)]
<1>1. N \in Nat /\ \A i \in 1..N : Bytes(i) \in Seq(FrameBytes)
  BY FrameTyped
<1>2. ASSUME NEW k \in 0..N
      PROVE  /\ q(k) \in Seq(Seq(FrameBytes)) /\ Len(q(k)) = k
             /\ \A i \in 1..k : q(k)[i] = Bytes(i)
  <2>1. k \in Nat /\ \A i \in 1..k : Bytes(i) \in Seq(FrameBytes)
    BY <1>1
  <2>2. QED
    BY <2>1
<1>3. Inbound = FlattenSeq(q(N))
  BY DEF Inbound
<1> HIDE DEF N, q
<1>4. ASSUME NEW k \in 0..N
      PROVE  \E f \in [0..k -> Seq(FrameBytes)] :
               /\ f[0] = <<>> /\ \A n \in 1..k : f[n] = f[n - 1] \o Bytes(n)
               /\ FlattenSeq(q(k)) = f[k]
  <2>1. PICK f \in [0..Len(q(k)) -> Seq(FrameBytes)] :
          Joins(f, q(k)) /\ FlattenSeq(q(k)) = f[Len(q(k))]
    BY <1>2, FlattenSteps
  <2>2. QED
    BY <1>2, <2>1 DEF Joins
<1>5. N \in 0..N
  BY <1>1
<1>6. PICK f \in [0..N -> Seq(FrameBytes)] :
        /\ f[0] = <<>> /\ \A n \in 1..N : f[n] = f[n - 1] \o Bytes(n)
        /\ FlattenSeq(q(N)) = f[N]
  BY <1>4, <1>5
<1>7. ASSUME NEW k \in 0..N PROVE FlattenSeq(q(k)) = f[k]
  <2>1. PICK g \in [0..k -> Seq(FrameBytes)] :
          /\ g[0] = <<>> /\ \A n \in 1..k : g[n] = g[n - 1] \o Bytes(n)
          /\ FlattenSeq(q(k)) = g[k]
    BY <1>4
  <2> DEFINE R == {n \in 0..k : g[n] = f[n]}
  <2>2. 0 \in R
    BY <1>1, <1>6, <2>1
  <2>3. ASSUME NEW n \in 1..k, n - 1 \in R PROVE n \in R
    <3>1. n \in 1..N /\ n \in 0..k
      BY <1>1
    <3>2. g[n - 1] = f[n - 1]
      BY <2>3
    <3>3. g[n] = f[n]
      BY <1>6, <2>1, <3>1, <3>2
    <3>4. QED
      BY <3>1, <3>3
  <2>4. \A n \in 0..k : n \in R
    <3> HIDE DEF R
    <3>1. k \in Nat
      BY <1>1
    <3>2. QED
      BY <2>2, <2>3, <3>1, UpTo
  <2>5. k \in R
    BY <1>1, <2>4
  <2>6. QED
    BY <2>1, <2>5
<1>8. QED
  BY <1>3, <1>6, <1>7 DEF q, N

\* Each frame ends as far from the last as it is long.
LEMMA EndFacts ==
  ASSUME frames \in Seq(PeerFrames)
  PROVE  /\ Inbound \in Seq(FrameBytes) /\ EndOf(0) = 0
         /\ EndOf(Len(frames)) = Len(Inbound)
         /\ \A k \in 0..Len(frames) : EndOf(k) \in Nat
         /\ \A k \in 1..Len(frames) :
              /\ EndOf(k) = EndOf(k - 1) + 2 + Body(frames[k])
              /\ Body(frames[k]) \in Nat
              /\ Inbound[EndOf(k - 1) + 1] = <<"op", frames[k]>>
<1> DEFINE N == Len(frames)
<1>1. PICK f \in [0..N -> Seq(FrameBytes)] :
        /\ f[0] = <<>>
        /\ \A n \in 1..N : f[n] = f[n - 1] \o Bytes(n)
        /\ \A k \in 0..N : FlattenSeq([i \in 1..k |-> Bytes(i)]) = f[k]
        /\ Inbound = f[N]
  BY InboundSteps
<1>2. N \in Nat /\ N \in 0..N /\ 0 \in 0..N /\ \A n \in 1..N : n - 1 \in 0..N /\ n \in 0..N
  OBVIOUS
<1>3. \A k \in 0..N : EndOf(k) = Len(f[k]) /\ f[k] \in Seq(FrameBytes) /\ Len(f[k]) \in Nat
  <2> SUFFICES ASSUME NEW k \in 0..N
               PROVE  EndOf(k) = Len(f[k]) /\ f[k] \in Seq(FrameBytes) /\ Len(f[k]) \in Nat
    OBVIOUS
  <2>1. FlattenSeq([i \in 1..k |-> Bytes(i)]) = f[k]
    BY <1>1
  <2>2. f[k] \in Seq(FrameBytes)
    OBVIOUS
  <2>3. QED
    BY <2>1, <2>2 DEF EndOf
<1>4. ASSUME NEW k \in 1..N
      PROVE  /\ Bytes(k) \in Seq(FrameBytes) /\ Len(Bytes(k)) = 2 + Body(frames[k])
             /\ Bytes(k)[1] = <<"op", frames[k]>> /\ Body(frames[k]) \in Nat
  BY FrameTyped
<1> HIDE DEF N
<1>5. ASSUME NEW k \in 1..N
      PROVE  /\ Len(f[k]) = Len(f[k - 1]) + (2 + Body(frames[k]))
             /\ \A i \in 1..Len(f[k]) :
                  f[k][i] = IF i <= Len(f[k - 1]) THEN f[k - 1][i]
                            ELSE Bytes(k)[i - Len(f[k - 1])]
  <2>1. f[k - 1] \in Seq(FrameBytes) /\ f[k] = f[k - 1] \o Bytes(k)
    BY <1>1, <1>2
  <2> DEFINE a == f[k - 1]
             b == Bytes(k)
  <2>2. a \in Seq(FrameBytes) /\ b \in Seq(FrameBytes) /\ f[k] = a \o b
    BY <1>4, <2>1
  <2>a. Len(b) = 2 + Body(frames[k])
    BY <1>4
  <2> HIDE DEF a, b
  <2>3. /\ Len(a \o b) = Len(a) + Len(b)
        /\ \A i \in 1..Len(a) + Len(b) : (a \o b)[i] = IF i <= Len(a) THEN a[i] ELSE b[i - Len(a)]
    BY <2>2, ConcatProperties
  <2>4. /\ Len(f[k]) = Len(a) + (2 + Body(frames[k]))
        /\ \A i \in 1..Len(f[k]) : f[k][i] = IF i <= Len(a) THEN a[i] ELSE b[i - Len(a)]
    BY <2>2, <2>a, <2>3
  <2>5. QED
    BY <2>4 DEF a, b
<1>6. ASSUME NEW k \in 1..N PROVE EndOf(k) = EndOf(k - 1) + 2 + Body(frames[k])
  <2>1. k \in 0..N /\ k - 1 \in 0..N
    BY <1>2
  <2>2. EndOf(k) = Len(f[k]) /\ EndOf(k - 1) = Len(f[k - 1]) /\ Len(f[k - 1]) \in Nat
    BY <1>3, <2>1
  <2>3. Len(f[k]) = Len(f[k - 1]) + (2 + Body(frames[k])) /\ Body(frames[k]) \in Nat
    BY <1>4, <1>5
  <2> DEFINE x == EndOf(k)
             y == EndOf(k - 1)
             l == Body(frames[k])
             v == Len(f[k])
             w == Len(f[k - 1])
  <2>4. x = v /\ y = w /\ w \in Nat /\ v = w + (2 + l) /\ l \in Nat
    BY <2>2, <2>3
  <2> HIDE DEF x, y, l, v, w
  <2>5. x = y + 2 + l
    BY <2>4
  <2>6. QED
    BY <2>5 DEF x, y, l
<1>7. ASSUME NEW k \in 1..N PROVE Inbound[EndOf(k - 1) + 1] = <<"op", frames[k]>>
  <2> DEFINE p == EndOf(k - 1) + 1
             op == <<"op", frames[k]>>
             R == {n \in 0..N : n >= k => p <= Len(f[n]) /\ f[n][p] = op}
  <2>1. p \in Nat /\ p = Len(f[k - 1]) + 1 /\ p >= 1
    BY <1>2, <1>3
  <2> HIDE DEF p, op
  <2>2. 0 \in R
    BY <1>2
  <2>3. ASSUME NEW n \in 1..N, n - 1 \in R PROVE n \in R
    <3>1. n - 1 \in 0..N /\ n \in 0..N
      BY <1>2
    <3>2. Len(f[n]) = Len(f[n - 1]) + (2 + Body(frames[n])) /\ Len(f[n - 1]) \in Nat
          /\ Body(frames[n]) \in Nat
      BY <1>3, <1>4, <1>5, <3>1
    <3>3. CASE n = k
      <4>0. p = Len(f[n - 1]) + 1
        BY <2>1, <3>3
      <4>1. p \in 1..Len(f[n]) /\ ~(p <= Len(f[n - 1])) /\ p - Len(f[n - 1]) = 1
        <5> DEFINE v == Len(f[n])
                   w == Len(f[n - 1])
                   l == Body(frames[n])
        <5>1. v = w + (2 + l) /\ w \in Nat /\ l \in Nat /\ p \in Nat /\ p = w + 1
          BY <2>1, <3>2, <4>0
        <5> HIDE DEF R, v, w, l
        <5>2. p \in 1..v /\ ~(p <= w) /\ p - w = 1
          BY <5>1
        <5>3. QED
          BY <5>2 DEF v, w
      <4>2. f[n][p] = Bytes(n)[1]
        BY <1>5, <4>1
      <4>3. f[n][p] = op
        BY <1>4, <3>3, <4>2 DEF op
      <4>4. QED
        BY <3>1, <4>1, <4>3
    <3>4. CASE n > k
      <4>1. n - 1 >= k
        BY <3>4
      <4>2. p <= Len(f[n - 1]) /\ f[n - 1][p] = op
        BY <2>3, <4>1
      <4>3. p \in 1..Len(f[n])
        <5> DEFINE v == Len(f[n])
                   w == Len(f[n - 1])
                   l == Body(frames[n])
        <5>1. v = w + (2 + l) /\ w \in Nat /\ l \in Nat /\ p \in Nat /\ p >= 1 /\ p <= w
          BY <2>1, <3>2, <4>2
        <5> HIDE DEF R, v, w, l
        <5>2. p \in 1..v
          BY <5>1
        <5>3. QED
          BY <5>2 DEF v
      <4>4. f[n][p] = f[n - 1][p]
        BY <1>5, <4>2, <4>3
      <4>5. QED
        BY <3>1, <4>2, <4>3, <4>4
    <3>5. CASE n < k
      BY <3>1, <3>5
    <3>6. QED
      BY <3>3, <3>4, <3>5
  <2>4. \A n \in 0..N : n \in R
    <3> HIDE DEF R
    <3>1. QED
      BY <1>2, <2>2, <2>3, UpTo
  <2>5. N >= k
    BY <1>2
  <2>6. f[N][p] = op
    BY <1>2, <2>4, <2>5
  <2>7. QED
    BY <1>1, <2>6 DEF p, op
<1>8. /\ Inbound \in Seq(FrameBytes) /\ EndOf(0) = 0 /\ EndOf(N) = Len(Inbound)
      /\ \A k \in 0..N : EndOf(k) \in Nat
  BY <1>1, <1>2, <1>3
<1>9. QED
  BY <1>4, <1>6, <1>7, <1>8 DEF N

\* Later frames end later.
LEMMA EndsApart ==
  ASSUME frames \in Seq(PeerFrames),
         NEW i \in 0..Len(frames), NEW j \in 0..Len(frames), i <= j
  PROVE  EndOf(j) \in Nat /\ EndOf(i) \in Nat /\ EndOf(j) >= EndOf(i) + (j - i)
<1> DEFINE N == Len(frames)
           R == {n \in 0..N : n >= i => EndOf(n) >= EndOf(i) + (n - i)}
<1>1. N \in Nat /\ \A n \in 1..N : n - 1 \in 0..N /\ n \in 0..N
  OBVIOUS
<1>2. \A n \in 0..N : EndOf(n) \in Nat
  BY EndFacts
<1>3. \A n \in 1..N : EndOf(n) = EndOf(n - 1) + 2 + Body(frames[n]) /\ Body(frames[n]) \in Nat
  BY EndFacts
<1> HIDE DEF N
<1>4. 0 \in R
  BY <1>1, <1>2 DEF N
<1>5. ASSUME NEW n \in 1..N, n - 1 \in R PROVE n \in R
  <2>1. /\ EndOf(n) = EndOf(n - 1) + 2 + Body(frames[n]) /\ Body(frames[n]) \in Nat
        /\ EndOf(n - 1) \in Nat /\ EndOf(n) \in Nat /\ EndOf(i) \in Nat /\ n \in 0..N
    BY <1>1, <1>2, <1>3 DEF N
  <2>2. n - 1 >= i => EndOf(n - 1) >= EndOf(i) + (n - 1 - i)
    BY <1>5
  <2>3. n >= i => EndOf(n) >= EndOf(i) + (n - i)
    <3>1. CASE n = i
      BY <2>1, <3>1
    <3>2. CASE n > i
      <4>1. i \in Nat /\ n \in Nat /\ n - 1 >= i
        BY <1>1, <3>2
      <4> DEFINE x == EndOf(i)
                 y == EndOf(n - 1)
                 z == EndOf(n)
                 l == Body(frames[n])
      <4>2. /\ x \in Nat /\ y \in Nat /\ z \in Nat /\ l \in Nat
            /\ z = y + 2 + l /\ y >= x + (n - 1 - i)
        BY <2>1, <2>2, <4>1
      <4> HIDE DEF R, x, y, z, l
      <4>3. z >= x + (n - i)
        BY <4>1, <4>2
      <4>4. QED
        BY <4>3 DEF x, z
    <3>3. QED
      BY <3>1, <3>2
  <2>4. QED
    BY <2>1, <2>3
<1>6. \A n \in 0..N : n \in R
  <2> HIDE DEF R
  <2>1. QED
    BY <1>1, <1>4, <1>5, UpTo
<1>7. QED
  BY <1>2, <1>6 DEF N

-----------------------------------------------------------------------------
(* How far the loop over the frames gets. *)

Past(buf, i) ==
  IF /\ Len(buf) - i >= 2
     /\ Len(buf) - i >= 2 + buf[i + 1][2].ext
     /\ Len(buf) - i >= FrameSize(buf[i + 1][2])
  THEN i + FrameSize(buf[i + 1][2]) ELSE i

\* What has been received after the frames up to the k-th: m bytes in all,
\* with the j-th frame the last that is complete.
Reading(k, j, m) ==
  /\ frames \in Seq(PeerFrames)
  /\ k \in 0..Len(frames) /\ j \in k..Len(frames)
  /\ m \in 0..Len(Inbound) /\ EndOf(j) <= m
  /\ j < Len(frames) => m < EndOf(j + 1)

Remaining(k, m) == Slice(Inbound, EndOf(k), m)

\* Where the buffer lies in what the browser sends.
LEMMA ReadingFacts ==
  ASSUME NEW k, NEW j, NEW m, Reading(k, j, m)
  PROVE  /\ EndOf(k) \in 0..Len(Inbound) /\ EndOf(j) \in 0..Len(Inbound)
         /\ EndOf(k) <= EndOf(j) /\ m \in EndOf(k)..Len(Inbound)
         /\ EndOf(j) >= EndOf(k) + (j - k)
         /\ Remaining(k, m) \in Seq(FrameBytes) /\ Len(Remaining(k, m)) = m - EndOf(k)
         /\ \A i \in 1..m - EndOf(k) : Remaining(k, m)[i] = Inbound[EndOf(k) + i]
<1>1. /\ Inbound \in Seq(FrameBytes) /\ Len(Inbound) \in Nat
      /\ k \in 0..Len(frames) /\ j \in 0..Len(frames) /\ k <= j
      /\ k \in Nat /\ j \in Nat
      /\ frames \in Seq(PeerFrames) /\ m \in 0..Len(Inbound) /\ EndOf(j) <= m
  BY EndFacts DEF Reading
<1>2. EndOf(j) \in Nat /\ EndOf(k) \in Nat /\ EndOf(j) >= EndOf(k) + (j - k)
  BY <1>1, EndsApart
<1> DEFINE x == EndOf(k)
           y == EndOf(j)
           n == Len(Inbound)
<1>3. /\ x \in Nat /\ y \in Nat /\ n \in Nat /\ m \in 0..n /\ y <= m
      /\ y >= x + (j - k) /\ j \in Nat /\ k \in Nat /\ k <= j
  BY <1>1, <1>2
<1> HIDE DEF x, y, n
<1>4. x \in 0..n /\ y \in 0..n /\ x <= y /\ m \in x..n
  BY <1>3
<1>5. /\ Slice(Inbound, x, m) \in Seq(FrameBytes) /\ Len(Slice(Inbound, x, m)) = m - x
      /\ \A i \in 1..m - x : Slice(Inbound, x, m)[i] = Inbound[x + i]
  BY <1>1, <1>4, SliceFacts DEF n
<1>6. QED
  BY <1>3, <1>4, <1>5 DEF x, y, n, Remaining

\* One turn of the loop takes a frame that is complete, and nothing else.
LEMMA PastFacts ==
  ASSUME NEW k, NEW j, NEW m, Reading(k, j, m), NEW p \in k..j
  PROVE  Past(Remaining(k, m), EndOf(p) - EndOf(k))
           = EndOf(IF p < j THEN p + 1 ELSE p) - EndOf(k)
<1>1. /\ frames \in Seq(PeerFrames) /\ Len(frames) \in Nat
      /\ k \in Nat /\ j \in Nat /\ k <= j /\ j <= Len(frames)
      /\ p \in Nat /\ k <= p /\ p <= j /\ m \in Nat
      /\ m \in 0..Len(Inbound) /\ EndOf(j) <= m
      /\ j < Len(frames) => m < EndOf(j + 1)
  BY DEF Reading
<1> DEFINE N == Len(frames)
           buf == Remaining(k, m)
           x == EndOf(k)
           i == EndOf(p) - x
           e == EndOf(p)
<1>2. /\ x \in Nat /\ e \in Nat /\ x <= e /\ EndOf(j) \in Nat /\ e <= EndOf(j)
      /\ Len(buf) = m - x
      /\ \A q \in 1..m - x : buf[q] = Inbound[x + q]
  <2>1. p \in 0..N /\ k \in 0..N /\ j \in 0..N
    BY <1>1
  <2>2. /\ EndOf(p) \in Nat /\ EndOf(k) \in Nat /\ EndOf(p) >= EndOf(k) + (p - k)
        /\ EndOf(j) \in Nat /\ EndOf(j) >= EndOf(p) + (j - p)
    BY <1>1, <2>1, EndsApart
  <2>3. EndOf(k) <= EndOf(p) /\ EndOf(p) <= EndOf(j)
    <3> DEFINE y == EndOf(j)
    <3>1. /\ e \in Nat /\ x \in Nat /\ y \in Nat /\ e >= x + (p - k) /\ y >= e + (j - p)
          /\ k \in Nat /\ p \in Nat /\ j \in Nat /\ k <= p /\ p <= j
      BY <1>1, <2>2
    <3> HIDE DEF x, y, e
    <3>2. x <= e /\ e <= y
      BY <3>1
    <3>3. QED
      BY <3>2 DEF x, y, e
  <2>4. QED
    BY <2>2, <2>3, ReadingFacts
<1>3. CASE p < N /\ m >= e + 2
  <2> DEFINE l == Body(frames[p + 1])
  <2>1. p + 1 \in 1..N /\ p + 1 - 1 = p
    BY <1>1, <1>3
  <2> DEFINE w == p + 1
  <2>a. w \in 1..N /\ w - 1 = p
    BY <2>1
  <2> HIDE DEF w
  <2>b. /\ EndOf(w) = EndOf(p) + 2 + Body(frames[w]) /\ Body(frames[w]) \in Nat
        /\ Inbound[EndOf(p) + 1] = <<"op", frames[w]>>
    BY <1>1, <2>a, EndFacts
  <2>2. EndOf(p + 1) = e + 2 + l /\ l \in Nat /\ Inbound[e + 1] = <<"op", frames[p + 1]>>
    BY <2>b DEF w
  <2>3. buf[i + 1] = Inbound[e + 1]
    <3> HIDE DEF buf, x, e
    <3>1. i + 1 \in 1..m - x /\ x + (i + 1) = e + 1
      BY <1>1, <1>2, <1>3 DEF e
    <3>2. QED
      BY <1>2, <3>1
  <2> DEFINE fr == frames[p + 1]
  <2>4. buf[i + 1][2] = fr
    BY <2>2, <2>3
  <2>c. fr.ext \in Nat /\ fr.ext <= l /\ FrameSize(fr) = 2 + l
    <3>1. fr \in PeerFrames
      BY <1>1, <2>1
    <3> HIDE DEF fr
    <3>2. fr.ext \in Nat /\ fr.ext <= Body(fr) /\ FrameSize(fr) = 2 + Body(fr)
      BY <3>1, FrameSizes
    <3>3. QED
      BY <3>2 DEF fr
  <2>5. Len(buf) - i = m - e /\ m - e >= 2
    <3> HIDE DEF buf, x, e
    <3>1. QED
      BY <1>1, <1>2, <1>3 DEF e
  <2>6. Past(buf, i) = IF m - e >= 2 + l THEN i + 2 + l ELSE i
    <3> HIDE DEF buf, l, fr, x, e
    <3>0. m - e \in Int /\ i \in Int
      BY <1>1, <1>2 DEF e
    <3> HIDE DEF i
    <3>1. /\ l \in Nat /\ m - e \in Int /\ m - e >= 2 /\ i \in Int
          /\ fr.ext \in Nat /\ fr.ext <= l /\ Len(buf) - i = m - e
      BY <2>2, <2>5, <2>c, <3>0
    <3>2. Past(buf, i) = IF /\ m - e >= 2 /\ m - e >= 2 + fr.ext
                            /\ m - e >= FrameSize(fr)
                         THEN i + FrameSize(fr) ELSE i
      BY <2>4, <3>1 DEF Past
    <3>3. QED
      BY <2>c, <3>1, <3>2
  <2>7. CASE p < j
    <3>1. EndOf(p + 1) <= m
      <4>1. w \in 0..N /\ j \in 0..N /\ w <= j
        BY <1>1, <2>7 DEF w
      <4>2. EndOf(w) \in Nat /\ EndOf(j) \in Nat /\ EndOf(j) >= EndOf(w) + (j - w)
        BY <1>1, <4>1, EndsApart
      <4> DEFINE y == EndOf(w)
                 z == EndOf(j)
      <4>3. y \in Nat /\ z \in Nat /\ z >= y + (j - w) /\ j - w >= 0 /\ j - w \in Int /\ z <= m
        BY <1>1, <2>7, <4>1, <4>2
      <4> HIDE DEF y, z
      <4>4. y <= m
        BY <1>1, <4>3
      <4>5. QED
        BY <4>4 DEF y, w
    <3>2. Past(buf, i) = i + 2 + l
      <4> HIDE DEF buf, i, l, e
      <4>1. m - e >= 2 + l
        BY <1>1, <1>2, <2>2, <3>1
      <4>2. QED
        BY <2>6, <4>1
    <3>3. i + 2 + l = EndOf(p + 1) - x
      <4> HIDE DEF x, l, e
      <4>1. QED
        BY <1>2, <2>2 DEF e
    <3>4. QED
      BY <2>7, <3>2, <3>3
  <2>8. CASE ~(p < j)
    <3>1. p = j
      BY <1>1, <2>8
    <3>2. m < EndOf(p + 1)
      BY <1>1, <1>3, <3>1
    <3>3. Past(buf, i) = i
      <4> HIDE DEF buf, i, l, e
      <4>1. ~(m - e >= 2 + l)
        BY <1>1, <1>2, <2>2, <3>2
      <4>2. QED
        BY <2>6, <4>1
    <3>4. QED
      BY <2>8, <3>3
  <2>9. QED
    BY <2>7, <2>8
<1>4. CASE ~(p < N /\ m >= e + 2)
  <2>1. p = j /\ m < e + 2
    <3>1. CASE p = N
      <4>1. p = j /\ EndOf(N) = Len(Inbound)
        BY <1>1, <3>1, EndFacts
      <4>2. m <= e
        BY <1>1, <3>1, <4>1
      <4> HIDE DEF e
      <4>3. QED
        BY <1>1, <1>2, <4>1, <4>2
    <3>2. CASE p # N
      <4>1. p < N /\ ~(m >= e + 2)
        BY <1>1, <1>4, <3>2
      <4>2. p = j
        <5> SUFFICES ASSUME p < j PROVE FALSE
          BY <1>1
        <5> DEFINE w == p + 1
        <5>1. w \in 1..N /\ w \in 0..N /\ j \in 0..N /\ w <= j /\ w - 1 = p
          BY <1>1
        <5> HIDE DEF w
        <5>2. EndOf(w) \in Nat /\ EndOf(j) \in Nat /\ EndOf(j) >= EndOf(w) + (j - w)
          BY <1>1, <5>1, EndsApart
        <5>3. EndOf(w) = e + 2 + Body(frames[w]) /\ Body(frames[w]) \in Nat
          BY <1>1, <5>1, EndFacts
        <5> DEFINE y == EndOf(w)
                   z == EndOf(j)
                   l == Body(frames[w])
        <5>4. /\ y \in Nat /\ z \in Nat /\ z >= y + (j - w) /\ j - w >= 0 /\ j - w \in Int
              /\ y = e + 2 + l /\ l \in Nat /\ z <= m
          BY <1>1, <5>1, <5>2, <5>3
        <5> HIDE DEF y, z, l, e
        <5>5. QED
          BY <1>1, <1>2, <4>1, <5>4
      <4> HIDE DEF e
      <4>3. QED
        BY <1>1, <1>2, <4>1, <4>2
    <3>3. QED
      BY <3>1, <3>2
  <2>2. Len(buf) - i < 2 /\ Len(buf) - i \in Int
    <3> HIDE DEF buf, x, e
    <3>1. QED
      BY <1>1, <1>2, <2>1 DEF e
  <2>3. Past(buf, i) = i
    <3> HIDE DEF buf, i
    <3>1. ~(Len(buf) - i >= 2)
      BY <2>2
    <3>2. QED
      BY <3>1 DEF Past
  <2>4. QED
    BY <1>1, <2>1, <2>3
<1>5. QED
  BY <1>3, <1>4

\* The loop stops at the end of the last frame that is complete.
LEMMA ProcessedFacts ==
  ASSUME NEW k, NEW j, NEW m, Reading(k, j, m)
  PROVE  Processed(Remaining(k, m)) = EndOf(j) - EndOf(k)
<1> DEFINE buf == Remaining(k, m)
           L == Len(buf)
           At(n) == EndOf(IF k + n < j THEN k + n ELSE j) - EndOf(k)
           F(f) == [n \in 0..L |-> IF n = 0 THEN 0 ELSE Past(buf, f[n - 1])]
           g == [n \in 0..L |-> At(n)]
           h == CHOOSE f : f = F(f)
<1>1. /\ k \in Nat /\ j \in Nat /\ k <= j /\ L \in Nat /\ L = m - EndOf(k)
      /\ m \in Nat /\ EndOf(k) \in Nat /\ EndOf(j) \in Nat
      /\ EndOf(j) >= EndOf(k) + (j - k) /\ EndOf(j) <= m
  <2>1. k \in Nat /\ j \in Nat /\ k <= j /\ m \in Nat /\ EndOf(j) <= m
    BY DEF Reading
  <2>2. /\ EndOf(k) \in Nat /\ EndOf(j) \in Nat /\ m - EndOf(k) \in Nat
        /\ EndOf(j) >= EndOf(k) + (j - k) /\ L = m - EndOf(k)
    BY ReadingFacts
  <2>3. QED
    BY <2>1, <2>2
<1>2. Processed(buf) = h[L]
  BY DEF Processed, Past
<1> HIDE DEF L, buf, h
<1>3. At(0) = 0
  <2>1. (IF k + 0 < j THEN k + 0 ELSE j) = k
    BY <1>1
  <2>2. QED
    BY <1>1, <2>1
<1>4. ASSUME NEW n \in 1..L PROVE At(n) = Past(buf, At(n - 1))
  <2> DEFINE p == IF k + (n - 1) < j THEN k + (n - 1) ELSE j
             q == IF k + n < j THEN k + n ELSE j
  <2>1. p \in k..j /\ (IF p < j THEN p + 1 ELSE p) = q
    BY <1>1
  <2> HIDE DEF p
  <2>2. Past(Remaining(k, m), EndOf(p) - EndOf(k))
          = EndOf(IF p < j THEN p + 1 ELSE p) - EndOf(k)
    BY <2>1, PastFacts
  <2>3. Past(Remaining(k, m), EndOf(p) - EndOf(k)) = EndOf(q) - EndOf(k)
    BY <2>1, <2>2
  <2>4. QED
    BY <2>3 DEF p, buf
<1>5. At(L) = EndOf(j) - EndOf(k)
  <2>1. (IF k + L < j THEN k + L ELSE j) = j
    <3> DEFINE x == EndOf(k)
               y == EndOf(j)
    <3>1. /\ x \in Nat /\ y \in Nat /\ y >= x + (j - k) /\ y <= m /\ L = m - x
      BY <1>1
    <3> HIDE DEF x, y
    <3>2. ~(k + L < j)
      BY <1>1, <3>1
    <3>3. QED
      BY <3>2
  <2>2. QED
    BY <2>1
<1> HIDE DEF At
<1>6. \A n \in 0..L : g[n] = At(n)
  OBVIOUS
<1>7. g = F(g)
  <2>1. ASSUME NEW n \in 0..L
        PROVE  g[n] = IF n = 0 THEN 0 ELSE Past(buf, g[n - 1])
    <3>1. CASE n = 0
      BY <1>3, <1>6, <3>1
    <3>2. CASE n # 0
      <4>1. n \in 1..L /\ n - 1 \in 0..L
        BY <1>1, <3>2
      <4> HIDE DEF g
      <4>2. g[n] = At(n) /\ g[n - 1] = At(n - 1)
        BY <1>6, <4>1
      <4>3. QED
        BY <1>4, <3>2, <4>1, <4>2
    <3>3. QED
      BY <3>1, <3>2
  <2>2. g = [n \in 0..L |-> g[n]]
    OBVIOUS
  <2> HIDE DEF g
  <2>3. QED
    BY <2>1, <2>2
<1> HIDE DEF g
<1>8. h = F(h)
  <2> HIDE DEF F
  <2>1. QED
    BY <1>7 DEF h
<1>9. h[0] = 0 /\ \A n \in 1..L : h[n] = Past(buf, h[n - 1])
  <2>1. \A n \in 0..L : F(h)[n] = IF n = 0 THEN 0 ELSE Past(buf, h[n - 1])
    OBVIOUS
  <2> HIDE DEF F
  <2>2. \A n \in 0..L : h[n] = IF n = 0 THEN 0 ELSE Past(buf, h[n - 1])
    BY <1>8, <2>1
  <2>3. 0 \in 0..L /\ \A n \in 1..L : n \in 0..L /\ n # 0
    BY <1>1
  <2>4. QED
    BY <2>2, <2>3
<1> DEFINE R == {n \in 0..L : h[n] = At(n)}
<1>10. 0 \in R
  BY <1>1, <1>3, <1>9
<1>11. ASSUME NEW n \in 1..L, n - 1 \in R PROVE n \in R
  <2>1. h[n - 1] = At(n - 1) /\ n \in 0..L
    BY <1>1, <1>11
  <2>2. h[n] = At(n)
    BY <1>4, <1>9, <2>1
  <2>3. QED
    BY <2>1, <2>2
<1>12. \A n \in 0..L : n \in R
  <2> HIDE DEF R
  <2>1. QED
    BY <1>1, <1>10, <1>11, UpTo
<1>13. h[L] = At(L)
  <2>1. L \in 0..L
    BY <1>1
  <2>2. L \in R
    <3> HIDE DEF R
    <3>1. QED
      BY <1>12, <2>1
  <2>3. QED
    BY <2>2
<1>14. QED
  BY <1>2, <1>5, <1>13 DEF buf

\* What the loop takes are whole frames, and the rest is what came after them.
LEMMA ReadingOn ==
  ASSUME NEW k, NEW j, NEW m, Reading(k, j, m)
  PROVE  LET buf == Remaining(k, m)
             taken == SubSeq(buf, 1, Processed(buf)) IN
         /\ Reading(j, j, m) /\ Rest(buf) = Remaining(j, m)
         /\ taken \in Seq(FrameBytes)
         /\ Payload(Slice(Inbound, 0, EndOf(k))) \o Payload(taken)
              = Payload(Slice(Inbound, 0, EndOf(j)))
<1> DEFINE buf == Remaining(k, m)
           x == EndOf(k)
           y == EndOf(j)
           z == y - x
           taken == SubSeq(buf, 1, Processed(buf))
<1>1. /\ Inbound \in Seq(FrameBytes)
      /\ x \in 0..Len(Inbound) /\ y \in x..Len(Inbound) /\ y <= m
      /\ m \in x..Len(Inbound) /\ x \in Nat /\ y \in Nat /\ x <= y
      /\ Len(buf) = m - x /\ Len(Inbound) \in Nat /\ m \in Nat
  <2>1. /\ x \in 0..Len(Inbound) /\ y \in 0..Len(Inbound) /\ x <= y
        /\ m \in x..Len(Inbound) /\ Len(buf) = m - x
    BY ReadingFacts
  <2>2. y <= m /\ frames \in Seq(PeerFrames) /\ m \in 0..Len(Inbound)
    BY DEF Reading
  <2>3. Inbound \in Seq(FrameBytes) /\ Len(Inbound) \in Nat
    BY <2>2, EndFacts
  <2> DEFINE n == Len(Inbound)
  <2>4. n \in Nat /\ x \in 0..n /\ y \in 0..n /\ x <= y /\ m \in x..n /\ y <= m
    BY <2>1, <2>2, <2>3
  <2> HIDE DEF x, y, n, buf
  <2>5. y \in x..n /\ x \in Nat /\ y \in Nat /\ m \in Nat
    BY <2>4
  <2>6. QED
    BY <2>1, <2>3, <2>4, <2>5 DEF n
<1>2. Processed(buf) = z
  BY ProcessedFacts
<1>3. Reading(j, j, m)
  <2>1. /\ frames \in Seq(PeerFrames)
        /\ k \in 0..Len(frames) /\ j \in k..Len(frames)
        /\ m \in 0..Len(Inbound) /\ EndOf(j) <= m
        /\ j < Len(frames) => m < EndOf(j + 1)
    BY DEF Reading
  <2>2. j \in 0..Len(frames) /\ j \in j..Len(frames)
    BY <2>1
  <2>3. QED
    BY <2>1, <2>2 DEF Reading
<1>a. buf = Slice(Inbound, x, m)
  BY DEF Remaining
<1> HIDE DEF x, y, buf
<1>4. z \in 0..m - x /\ 0 \in 0..m - x /\ z \in 0..z /\ m - x \in z..m - x /\ z \in Nat
      /\ x + z = y /\ x + 0 = x /\ x + (m - x) = m /\ m - x \in Nat
  BY <1>1
<1>5. taken = Slice(Inbound, x, y)
  <2>1. Slice(Slice(Inbound, x, m), 0, z) = Slice(Inbound, x + 0, x + z)
    <3> HIDE DEF z
    <3>1. z \in 0..m - x /\ 0 \in 0..m - x
      BY <1>4
    <3>2. QED
      BY <1>1, <3>1, SliceOfSlice
  <2>2. taken = Slice(buf, 0, z)
    BY <1>2 DEF Slice
  <2>3. QED
    BY <1>4, <1>a, <2>1, <2>2
<1>6. Rest(buf) = Slice(Inbound, y, m)
  <2>1. Slice(Slice(Inbound, x, m), z, m - x) = Slice(Inbound, x + z, x + (m - x))
    <3> HIDE DEF z
    <3>1. z \in 0..m - x /\ m - x \in z..m - x
      BY <1>4
    <3> DEFINE d == m - x
    <3>2. z \in 0..d /\ d \in z..d
      BY <3>1
    <3>3. Slice(Slice(Inbound, x, m), z, d) = Slice(Inbound, x + z, x + d)
      <4>1. d \in z..m - x /\ z \in 0..m - x
        BY <3>2
      <4> HIDE DEF d
      <4>2. QED
        BY <1>1, <4>1, SliceOfSlice
    <3>4. QED
      BY <3>3
  <2>2. Rest(buf) = Slice(buf, z, m - x)
    BY <1>1, <1>2 DEF Slice, Rest
  <2>3. QED
    BY <1>4, <1>a, <2>1, <2>2
<1>7. taken \in Seq(FrameBytes)
  BY <1>1, <1>5, SliceFacts
<1>8. Payload(Slice(Inbound, 0, x)) \o Payload(taken) = Payload(Slice(Inbound, 0, y))
  <2> DEFINE a == Slice(Inbound, 0, x)
             b == Slice(Inbound, x, y)
  <2>1. 0 \in 0..Len(Inbound) /\ x \in 0..Len(Inbound)
    BY <1>1
  <2>2. a \in Seq(FrameBytes) /\ b \in Seq(FrameBytes)
    BY <1>1, <2>1, SliceFacts
  <2>3. a \o b = Slice(Inbound, 0, y)
    BY <1>1, <2>1, SlicesJoin
  <2> HIDE DEF a, b
  <2>4. Payload(a \o b) = Payload(a) \o Payload(b)
    BY <2>2, PayloadJoins
  <2>5. QED
    BY <1>5, <2>3, <2>4 DEF a, b
<1>9. Remaining(j, m) = Slice(Inbound, y, m)
  BY DEF Remaining, y
<1>10. QED
  BY <1>3, <1>6, <1>7, <1>8, <1>9 DEF x, y, buf

-----------------------------------------------------------------------------
(* What has been received. *)

InTypes ==
  /\ frames \in Seq(PeerFrames) /\ arrived \in 0..Len(Inbound)
  /\ closed \in BOOLEAN
  /\ ws_read_buf \in Seq(FrameBytes) /\ Len(ws_read_buf) <= ReadBuf
  /\ read_len \in 0..ReadBuf

\* The buffer holds what came after the last frame that is complete.
InExact ==
  ~closed =>
    \E k \in 0..Len(frames) :
      /\ Reading(k, k, arrived)
      /\ payload = Payload(Slice(Inbound, 0, EndOf(k)))
      /\ ws_read_buf = Remaining(k, arrived)

\* More bytes come, and perhaps more frames are complete.
LEMMA Further ==
  ASSUME NEW k, NEW m, Reading(k, k, m), NEW n \in 1..Len(Inbound) - m
  PROVE  /\ m + n \in 0..Len(Inbound)
         /\ Remaining(k, m) \o SubSeq(Inbound, m + 1, m + n) = Remaining(k, m + n)
         /\ \E j \in k..Len(frames) : Reading(k, j, m + n)
<1> DEFINE N == Len(frames)
           c == m + n
           T == {j \in 0..N : j >= k /\ EndOf(j) <= c}
<1>1. /\ frames \in Seq(PeerFrames) /\ N \in Nat /\ k \in 0..N /\ m \in 0..Len(Inbound)
      /\ EndOf(k) <= m /\ Inbound \in Seq(FrameBytes) /\ Len(Inbound) \in Nat
      /\ EndOf(k) \in 0..Len(Inbound) /\ m \in EndOf(k)..Len(Inbound)
      /\ \A j \in 0..N : EndOf(j) \in Nat
  <2>1. /\ frames \in Seq(PeerFrames) /\ N \in Nat /\ k \in 0..N /\ m \in 0..Len(Inbound)
        /\ EndOf(k) <= m
    BY DEF Reading
  <2>2. /\ Inbound \in Seq(FrameBytes) /\ Len(Inbound) \in Nat
        /\ \A j \in 0..N : EndOf(j) \in Nat
    BY <2>1, EndFacts
  <2>3. EndOf(k) \in 0..Len(Inbound) /\ m \in EndOf(k)..Len(Inbound)
    BY ReadingFacts
  <2>4. QED
    BY <2>1, <2>2, <2>3
<1>2. c \in m..Len(Inbound) /\ c \in 0..Len(Inbound) /\ c >= m /\ c \in Nat
  BY <1>1
<1> HIDE DEF c
<1>3. Slice(Inbound, EndOf(k), m) \o Slice(Inbound, m, c) = Slice(Inbound, EndOf(k), c)
  BY <1>1, <1>2, SlicesJoin
<1> HIDE DEF N
<1>4. k \in T
  <2> DEFINE x == EndOf(k)
  <2>1. x \in Nat /\ x <= m /\ m \in Nat
    BY <1>1
  <2> HIDE DEF x
  <2>2. x <= c /\ k >= k
    BY <1>1, <1>2, <2>1
  <2>3. QED
    BY <1>1, <2>2 DEF x
<1>5. PICK j \in T : \A i \in T : j >= i
  <2>1. T \in SUBSET (0..N) /\ T # {}
    BY <1>4
  <2> HIDE DEF T
  <2>2. QED
    BY <1>1, <2>1, GreatestOne
<1>6. j \in 0..N /\ j >= k /\ EndOf(j) <= c /\ j \in k..N
  BY <1>1, <1>5
<1>7. j < N => c < EndOf(j + 1)
  <2> SUFFICES ASSUME j < N PROVE c < EndOf(j + 1)
    OBVIOUS
  <2>1. j + 1 \in 0..N /\ j + 1 >= k /\ ~(j >= j + 1)
    BY <1>1, <1>6
  <2>2. ~(EndOf(j + 1) <= c)
    BY <1>5, <2>1
  <2>3. EndOf(j + 1) \in Nat
    BY <1>1, <2>1
  <2>4. QED
    BY <1>2, <2>2, <2>3
<1>8. Reading(k, j, c)
  BY <1>1, <1>2, <1>6, <1>7 DEF Reading, N
<1>9. QED
  BY <1>2, <1>3, <1>6, <1>8 DEF c, N, Remaining, Slice

LEMMA PingsCounted ==
  ASSUME NEW S, NEW bytes \in Seq(S)
  PROVE  Pings(bytes) \in Nat
<1> DEFINE P == {i \in DOMAIN bytes : bytes[i][1] = "op" /\ bytes[i][2].op = "ping"}
<1>1. DOMAIN bytes = 1..Len(bytes) /\ Len(bytes) \in Nat
  OBVIOUS
<1>2. IsFiniteSet(1..Len(bytes)) /\ P \subseteq 1..Len(bytes)
  BY <1>1, FS_Interval
<1> HIDE DEF P
<1>3. IsFiniteSet(P) /\ Cardinality(P) \in Nat
  BY <1>2, FS_Subset, FS_CardinalityType
<1>4. QED
  BY <1>3 DEF Pings, P

\* Answers to pings are nothing that the peer reads, and at most what it sent.
LEMMA PongStep ==
  ASSUME OutTypes, is_websocket, NEW p \in Nat, NEW n \in Taken(p),
         Send([i \in 1..n |-> Pong]), UNCHANGED <<is_websocket, outVars>>
  PROVE  OutTypes' /\ Carries
<1>1. n \in Nat
  <2>1. Taken(p) = 0..p \/ Taken(p) = {p}
    BY Zenon DEF Taken
  <2>2. QED
    BY <2>1
<1>2. /\ UNCHANGED <<is_websocket, normal, write_buf, write_pos, write_cap, pending,
                     cursor, todo, written, cursor_sent>>
  BY DEF outVars
<1> DEFINE pongs == [i \in 1..n |-> Pong]
<1>3. pongs \in Seq(Units)
  <2>1. Pong \in Units
    BY DEF Pong, Units
  <2>2. QED
    BY <1>1, <2>1
<1>4. got' \in Seq(Read) /\ left' \in Nat
  <2> HIDE DEF pongs
  <2>1. Send(pongs)
    BY DEF pongs
  <2>2. QED
    BY <1>3, <2>1, SendTyped
<1>5. Buffered'
  BY <1>2 DEF OutTypes, Buffered, InBuffer
<1>6. OutTypes'
  BY <1>2, <1>4, <1>5 DEF OutTypes
<1>7. Carries
  <2> SUFFICES ASSUME Whole PROVE Delivered' /\ Flows
    BY DEF Carries
  <2>1. /\ is_websocket = TRUE /\ got \in Seq(Read) /\ left = 0
    BY DEF OutTypes, Buffered, Whole, Delivered
  <2>2. got' = got /\ left' = left
    BY <1>1, <2>1, HeardPongs DEF Send
  <2>3. After(write_buf', write_pos') = After(write_buf, write_pos)
    BY <1>2
  <2>4. QED
    BY <1>2, <1>5, <2>2, <2>3, QuietStep DEF Carries
<1>8. QED
  BY <1>6, <1>7

\* The frames do not change.
LEMMA FramesStay ==
  ASSUME frames' = frames
  PROVE  Inbound' = Inbound /\ \A k : EndOf(k)' = EndOf(k)
<1>1. Inbound' = Inbound
  BY DEF Inbound, Bytes
<1>2. ASSUME NEW k PROVE EndOf(k)' = EndOf(k)
  BY DEF EndOf, Bytes
<1>3. QED
  BY <1>1, <1>2

LEMMA ExactNext ==
  ASSUME frames' = frames, frames \in Seq(PeerFrames), NEW k, Reading(k, k, arrived'),
         payload' = Payload(Slice(Inbound, 0, EndOf(k))),
         ws_read_buf' = Remaining(k, arrived')
  PROVE  InExact'
<1> DEFINE m == arrived'
           s == Slice(Inbound, 0, EndOf(k))
           r == Remaining(k, m)
<1>1. Inbound' = Inbound /\ EndOf(k)' = EndOf(k) /\ EndOf(k + 1)' = EndOf(k + 1)
  BY FramesStay
<1>2. k \in 0..Len(frames)' /\ Reading(k, k, arrived)'
  BY <1>1 DEF Reading
<1>3. Payload(Slice(Inbound, 0, EndOf(k)))' = Payload(Slice(Inbound, 0, EndOf(k)))
  BY <1>1 DEF Payload, Slice
<1>4. Remaining(k, arrived)' = Remaining(k, arrived')
  BY <1>1 DEF Remaining, Slice
<1>5. QED
  BY <1>2, <1>3, <1>4 DEF InExact

LEMMA InStays ==
  ASSUME InTypes, InExact, UNCHANGED inVars
  PROVE  InTypes' /\ InExact'
<1>1. /\ frames' = frames /\ arrived' = arrived /\ ws_read_buf' = ws_read_buf
      /\ read_len' = read_len /\ payload' = payload /\ closed' = closed
  BY DEF inVars
<1>2. InTypes'
  BY <1>1, FramesStay DEF InTypes
<1>3. InExact'
  <2>1. CASE closed
    BY <1>1, <2>1 DEF InExact
  <2>2. CASE ~closed
    <3>1. PICK k \in 0..Len(frames) :
            /\ Reading(k, k, arrived)
            /\ payload = Payload(Slice(Inbound, 0, EndOf(k)))
            /\ ws_read_buf = Remaining(k, arrived)
      BY <2>2 DEF InExact
    <3>2. /\ Reading(k, k, arrived')
          /\ payload' = Payload(Slice(Inbound, 0, EndOf(k)))
          /\ ws_read_buf' = Remaining(k, arrived')
      BY <1>1, <3>1
    <3>3. QED
      BY <1>1, <3>2, ExactNext DEF InTypes
  <2>3. QED
    BY <2>1, <2>2
<1>4. QED
  BY <1>2, <1>3

\* A read, in which frames are parsed, answered or refused.
LEMMA ReceiveStep ==
  ASSUME OutTypes, InTypes, InExact, NEW n \in 1..Len(Inbound) - arrived, Receive(n)
  PROVE  OutTypes' /\ Carries /\ InTypes' /\ InExact'
<1> DEFINE m == arrived + n
           buf == ws_read_buf \o SubSeq(Inbound, arrived + 1, m)
           taken == SubSeq(buf, 1, Processed(buf))
<1>1. /\ ~closed /\ is_websocket /\ arrived' = m
      /\ IF Len(ws_read_buf) + n > ReadBuf THEN Disconnect ELSE ParseFrames(buf)
      /\ UNCHANGED <<is_websocket, outVars>> /\ frames' = frames
  BY DEF Receive, Idle
<1>2. /\ frames \in Seq(PeerFrames) /\ Inbound \in Seq(FrameBytes)
      /\ arrived \in Nat /\ n \in Nat /\ Len(Inbound) \in Nat
  BY EndFacts DEF InTypes
<1>3. PICK k \in 0..Len(frames) :
        /\ Reading(k, k, arrived)
        /\ payload = Payload(Slice(Inbound, 0, EndOf(k)))
        /\ ws_read_buf = Remaining(k, arrived)
  BY <1>1 DEF InExact
<1>4. /\ m \in 0..Len(Inbound) /\ buf = Remaining(k, m)
      /\ \E j \in k..Len(frames) : Reading(k, j, m)
  BY <1>3, Further
<1>5. PICK j \in k..Len(frames) : Reading(k, j, m)
  BY <1>4
<1>6. /\ Reading(j, j, m) /\ Rest(buf) = Remaining(j, m)
      /\ taken \in Seq(FrameBytes)
      /\ payload \o Payload(taken) = Payload(Slice(Inbound, 0, EndOf(j)))
  <2> HIDE DEF m
  <2>1. LET b == Remaining(k, m)
            t == SubSeq(b, 1, Processed(b)) IN
        /\ Reading(j, j, m) /\ Rest(b) = Remaining(j, m)
        /\ t \in Seq(FrameBytes)
        /\ Payload(Slice(Inbound, 0, EndOf(k))) \o Payload(t)
             = Payload(Slice(Inbound, 0, EndOf(j)))
    BY <1>5, ReadingOn
  <2> HIDE DEF buf
  <2>2. QED
    BY <1>3, <1>4, <2>1
<1> HIDE DEF m, buf, taken
<1>7. Inbound' = Inbound
  BY <1>1, FramesStay
<1>8. CASE Disconnect
  <2>1. /\ closed' = TRUE /\ ws_read_buf' = ws_read_buf /\ read_len' = read_len
        /\ got' = got /\ left' = left
    BY <1>8 DEF Disconnect, peerVars
  <2>2. InTypes' /\ InExact'
    BY <1>1, <1>2, <1>4, <1>7, <2>1 DEF InTypes, InExact
  <2>3. UNCHANGED <<is_websocket, normal, write_buf, write_pos, write_cap, pending,
                    cursor, todo, written, cursor_sent, got, left>>
    BY <1>1, <2>1 DEF outVars
  <2>4. Buffered' /\ OutTypes'
    BY <2>3 DEF OutTypes, Buffered, InBuffer
  <2>5. QED
    BY <2>2, <2>3, <2>4, QuietStep
<1>9. CASE ~Disconnect
  <2>1. Len(ws_read_buf) + n <= ReadBuf /\ ParseFrames(buf)
    <3>1. Len(ws_read_buf) \in Nat /\ ReadBuf \in Nat
      BY OutputAssumption DEF InTypes
    <3>2. ParseFrames(buf) /\ ~(Len(ws_read_buf) + n > ReadBuf)
      BY <1>1, <1>9
    <3>3. QED
      BY <1>2, <3>1, <3>2
  <2>2. /\ ~(read_len + Len(Payload(taken)) > ReadBuf)
        /\ ws_read_buf' = Rest(buf)
        /\ payload' = payload \o Payload(taken)
        /\ read_len' \in 0..read_len + Len(Payload(taken))
        /\ \E p \in Taken(Pings(taken)) : Send([i \in 1..p |-> Pong])
        /\ closed' = closed
    BY <1>9, <2>1 DEF ParseFrames, taken
  <2>3. OutTypes' /\ Carries
    <3>1. PICK p \in Taken(Pings(taken)) : Send([i \in 1..p |-> Pong])
      BY <2>2
    <3>2. Pings(taken) \in Nat
      BY <1>6, PingsCounted
    <3>3. QED
      BY <1>1, <3>1, <3>2, PongStep
  <2>4. InExact'
    <3>1. /\ Reading(j, j, arrived')
          /\ payload' = Payload(Slice(Inbound, 0, EndOf(j)))
          /\ ws_read_buf' = Remaining(j, arrived')
      BY <1>1, <1>6, <2>2
    <3>2. QED
      BY <1>1, <1>2, <3>1, ExactNext
  <2>5. ws_read_buf' \in Seq(FrameBytes) /\ Len(ws_read_buf') <= ReadBuf
    <3>1. /\ Len(Remaining(k, arrived)) = arrived - EndOf(k)
          /\ Len(Remaining(j, m)) = m - EndOf(j)
          /\ Remaining(j, m) \in Seq(FrameBytes)
          /\ EndOf(k) <= EndOf(j) /\ EndOf(k) \in Nat /\ EndOf(j) \in Nat
      BY <1>3, <1>5, <1>6, ReadingFacts
    <3> DEFINE x == EndOf(k)
               y == EndOf(j)
               l == Len(ws_read_buf)
    <3>2. /\ l = arrived - x /\ l + n <= ReadBuf /\ x <= y /\ x \in Nat /\ y \in Nat
          /\ ReadBuf \in Nat
      BY <1>3, <2>1, <3>1, OutputAssumption
    <3>3. ws_read_buf' = Remaining(j, m) /\ Len(ws_read_buf') = m - y
      BY <1>6, <2>2, <3>1
    <3> HIDE DEF x, y, l
    <3>4. m - y <= ReadBuf
      BY <1>2, <3>2 DEF m
    <3>5. QED
      BY <3>1, <3>3, <3>4
  <2>6. read_len' \in 0..ReadBuf
    <3>1. Payload(taken) \in Seq(FrameBytes)
      BY <1>6, PayloadTyped
    <3> DEFINE l == Len(Payload(taken))
    <3>2. l \in Nat
      BY <3>1
    <3> HIDE DEF l
    <3>3. ~(read_len + l > ReadBuf) /\ read_len' \in 0..read_len + l
      BY <2>2 DEF l
    <3>4. QED
      BY <3>2, <3>3, OutputAssumption DEF InTypes
  <2>7. InTypes'
    <3>1. frames' \in Seq(PeerFrames) /\ arrived' \in 0..Len(Inbound') /\ closed' \in BOOLEAN
      BY <1>1, <1>2, <1>4, <1>7, <2>2 DEF InTypes
    <3>2. QED
      BY <2>5, <2>6, <3>1 DEF InTypes
  <2>8. QED
    BY <2>3, <2>4, <2>7
<1>10. QED
  BY <1>8, <1>9

-----------------------------------------------------------------------------
(* The invariant holds. *)

OutInv == OutTypes /\ InTypes /\ InExact /\ LatestCursor

LEMMA InitHolds == OutputInit => OutInv /\ (TRUE \notin Takes => Whole) /\ Channel!Init
<1> SUFFICES ASSUME OutputInit
             PROVE  OutInv /\ (TRUE \notin Takes => Whole) /\ Channel!Init
  OBVIOUS
<1> USE OutputAssumption
<1>1. /\ is_websocket \in WebSockets /\ normal = FALSE
      /\ write_buf = <<>> /\ write_pos = 0 /\ write_cap = InitSize
      /\ pending = {"cursor"} /\ cursor = 0 /\ cursor_sent = 0
      /\ todo = <<>> /\ written = 0 /\ got = <<>> /\ left = 0
      /\ arrived = 0 /\ ws_read_buf = <<>> /\ read_len = 0
      /\ payload = <<>> /\ closed = FALSE
      /\ frames \in IF is_websocket THEN SeqOf(PeerFrames, MaxFrames) ELSE {<<>>}
  BY DEF OutputInit
<1>2. OutTypes
  <2>1. todo \in Seq(Ops) /\ Total(todo) = 0 /\ got \in Seq(Read)
    BY <1>1, TotalFacts
  <2>2. written \in Nat /\ written + Total(todo) <= MaxUnits
    BY <1>1, <2>1
  <2>3. InBuffer(write_buf, write_pos, write_cap)
    BY <1>1 DEF InBuffer
  <2>4. is_websocket \in WebSockets /\ is_websocket \in BOOLEAN
    BY <1>1
  <2>5. pending \subseteq {"size", "cursor"} /\ cursor \in 0..MaxCursors
        /\ cursor_sent \in 0..MaxCursors /\ left \in Nat
    BY <1>1
  <2>a. normal \in BOOLEAN
    BY <1>1, Zenon
  <2>6. QED
    BY <2>1, <2>2, <2>3, <2>4, <2>5, <2>a DEF OutTypes, Buffered
<1>3. frames \in Seq(PeerFrames)
  <2>1. CASE frames = <<>>
    BY <2>1
  <2>2. CASE frames \in SeqOf(PeerFrames, MaxFrames)
    <3>1. PICK n \in 0..MaxFrames : frames \in [1..n -> PeerFrames]
      BY <2>2 DEF SeqOf
    <3>2. n \in Nat
      OBVIOUS
    <3>3. QED
      BY <3>1, <3>2
  <2>3. QED
    BY <1>1, <2>1, <2>2
<1>4. /\ Inbound \in Seq(FrameBytes) /\ Len(Inbound) \in Nat /\ EndOf(0) = 0
      /\ Len(frames) \in Nat
      /\ \A k \in 1..Len(frames) :
           EndOf(k) = EndOf(k - 1) + 2 + Body(frames[k]) /\ Body(frames[k]) \in Nat
  BY <1>3, EndFacts
<1>5. Reading(0, 0, 0)
  <2>1. 0 < Len(frames) => 0 < EndOf(0 + 1)
    <3> SUFFICES ASSUME 0 < Len(frames) PROVE 0 < EndOf(1)
      OBVIOUS
    <3>1. 1 \in 1..Len(frames) /\ 1 - 1 = 0
      BY <1>4
    <3>2. EndOf(1) = EndOf(0) + 2 + Body(frames[1]) /\ Body(frames[1]) \in Nat
      BY <1>4, <3>1
    <3>3. QED
      BY <1>4, <3>2
  <2>2. 0 \in 0..Len(frames) /\ 0 \in 0..Len(Inbound) /\ EndOf(0) <= 0
    BY <1>4
  <2>3. QED
    BY <1>3, <2>1, <2>2 DEF Reading
<1>6. InTypes
  <2>1. ws_read_buf \in Seq(FrameBytes) /\ Len(ws_read_buf) = 0
    BY <1>1
  <2>2. closed \in BOOLEAN
    BY <1>1, Zenon
  <2>3. arrived \in 0..Len(Inbound) /\ read_len \in 0..ReadBuf /\ 0 <= ReadBuf
    BY <1>1, <1>4
  <2>4. QED
    BY <1>3, <2>1, <2>2, <2>3 DEF InTypes
<1>7. InExact
  <2>1. Slice(Inbound, 0, 0) = <<>>
    <3>1. 0 + 1 \in Int /\ 0 \in Int /\ 0 < 0 + 1
      OBVIOUS
    <3>2. QED
      BY <3>1, SubSeqEmpty DEF Slice
  <2>2. payload = Payload(Slice(Inbound, 0, EndOf(0)))
    BY <1>1, <1>4, <2>1, PayloadOfNothing
  <2>3. ws_read_buf = Remaining(0, arrived)
    BY <1>1, <1>4, <2>1 DEF Remaining
  <2>4. 0 \in 0..Len(frames) /\ Reading(0, 0, arrived)
    BY <1>1, <1>4, <1>5
  <2>5. QED
    BY <2>2, <2>3, <2>4 DEF InExact
<1>8. LatestCursor
  BY <1>1 DEF LatestCursor
<1>9. Stream = <<>>
  <2>1. 1..written = {}
    BY <1>1
  <2>2. QED
    BY <2>1 DEF Stream
<1>10. After(write_buf, write_pos) = <<>>
  BY <1>1, SubSeqEmpty DEF After
<1>11. TRUE \notin Takes => Whole
  <2>1. got = <<>> /\ <<>> \o <<>> = <<>>
    BY <1>1
  <2>2. got \o After(write_buf, write_pos) = Stream
    BY <1>9, <1>10, <2>1
  <2>3. QED
    BY <1>1, <2>2, Zenon DEF Whole, Delivered
<1>12. Channel!Init
  BY <1>1, <1>9 DEF Channel!Init
<1>13. QED
  BY <1>2, <1>6, <1>7, <1>8, <1>11, <1>12 DEF OutInv

\* Only a cursor message sent takes the cursor from what is pending.
LEMMA CursorStep ==
  ASSUME OutInv, OutputNext
  PROVE  LatestCursor'
<1> USE DEF LatestCursor
<1>0. LatestCursor
  BY DEF OutInv
<1>1. CASE AppendUnits
  <2>1. /\ pending' = pending \ {Head(todo).part} /\ cursor' = cursor
        /\ cursor_sent' = IF Head(todo).part = "cursor" THEN cursor ELSE cursor_sent
    BY <1>1 DEF AppendUnits, Continue
  <2>2. QED
    BY <1>0, <2>1
<1>2. ASSUME UNCHANGED <<pending, cursor, cursor_sent>> PROVE LatestCursor'
  BY <1>0, <1>2
<1>3. CASE FlushBuffer \/ ReturnIfUnsent
  BY <1>2, <1>3 DEF FlushBuffer, ReturnIfUnsent, Continue
<1>4. CASE WriteRaw \/ ClientInit \/ PollOut \/ SendUpdate \/ SendAudioUpdate \/ SendClipboard
  BY <1>2, <1>4 DEF WriteRaw, ClientInit, PollOut, SendUpdate, SendAudioUpdate,
                    SendClipboard, Begin
<1>5. CASE \E shape \in 0..MaxCursors \ {cursor} : SetCursor(shape)
  BY <1>5 DEF SetCursor, TellsClients
<1>6. CASE ResizeFramebuffer
  BY <1>0, <1>6 DEF ResizeFramebuffer
<1>7. CASE \E n \in 1..Len(Inbound) - arrived : Receive(n)
  BY <1>2, <1>7 DEF Receive, outVars
<1>8. QED
  BY <1>1, <1>3, <1>4, <1>5, <1>6, <1>7 DEF OutputNext, Handler

LEMMA NextHolds ==
  ASSUME OutInv, OutputNext
  PROVE  OutInv' /\ Carries
<1>1. OutTypes /\ InTypes /\ InExact
  BY DEF OutInv
<1>2. LatestCursor'
  BY CursorStep
<1>3. CASE Handler
  <2>1. UNCHANGED inVars
    BY <1>3 DEF Handler, AppendUnits, FlushBuffer, ReturnIfUnsent, Continue
  <2>2. QED
    BY <1>1, <1>2, <1>3, <2>1, HandlerStep, InStays DEF OutInv
<1>4. CASE Calls
  <2>1. UNCHANGED inVars
    BY <1>4 DEF Calls, WriteRaw, ClientInit, PollOut, SendUpdate, SendAudioUpdate,
                SendClipboard, SetCursor, ResizeFramebuffer, Begin
  <2>2. QED
    BY <1>1, <1>2, <1>4, <2>1, CallsStep, InStays DEF OutInv
<1>5. CASE \E n \in 1..Len(Inbound) - arrived : Receive(n)
  BY <1>1, <1>2, <1>5, ReceiveStep DEF OutInv
<1>6. QED
  BY <1>3, <1>4, <1>5 DEF OutputNext, Calls

LEMMA StutterHolds ==
  ASSUME OutInv, UNCHANGED outputVars
  PROVE  OutInv' /\ (Whole => Whole') /\ UNCHANGED <<Stream, got>>
<1>1. UNCHANGED inVars /\ UNCHANGED outVars /\ UNCHANGED peerVars
      /\ is_websocket' = is_websocket
  BY DEF outputVars
<1>2. UNCHANGED <<normal, write_buf, write_pos, write_cap, pending, cursor, todo,
                  written, cursor_sent, got, left>>
  BY <1>1 DEF outVars, peerVars
<1>3. InTypes' /\ InExact'
  BY <1>1, InStays DEF OutInv
<1>4. OutTypes'
  BY <1>1, <1>2 DEF OutInv, OutTypes, Buffered, InBuffer
<1>5. LatestCursor'
  BY <1>2 DEF OutInv, LatestCursor
<1>6. UNCHANGED <<Stream, got>>
  BY <1>2 DEF Stream
<1>7. Whole => Whole'
  BY <1>1, <1>2, <1>6 DEF Whole, Delivered, After
<1>8. QED
  BY <1>3, <1>4, <1>5, <1>6, <1>7 DEF OutInv

LEMMA OutInvHolds == OutputSpec => []OutInv
<1>1. OutInv /\ [OutputNext]_outputVars => OutInv'
  BY NextHolds, StutterHolds
<1>2. QED
  BY <1>1, InitHolds, PTL DEF OutputSpec

-----------------------------------------------------------------------------
(* The buffer never holds more than was allocated for it, nor the browser's *)
(* more than VNC_READ_BUF_SIZE, whatever is written, taken and received.   *)
THEOREM OutputTypes == OutputSpec => []OutputTypeOK
<1>1. OutInv => OutputTypeOK
  <2> SUFFICES ASSUME OutInv PROVE OutputTypeOK
    OBVIOUS
  <2>1. OutTypes /\ InTypes
    BY DEF OutInv
  <2>2. written \in 0..MaxUnits
    <3>1. Total(todo) \in Nat /\ written \in Nat /\ written + Total(todo) <= MaxUnits
      BY <2>1, TotalFacts DEF OutTypes
    <3> DEFINE t == Total(todo)
    <3>2. t \in Nat /\ written \in Nat /\ written + t <= MaxUnits
      BY <3>1
    <3> HIDE DEF t
    <3>3. QED
      BY <3>2, OutputAssumption
  <2>3. Len(write_buf) <= write_cap /\ write_pos <= Len(write_buf)
    BY <2>1 DEF OutTypes, Buffered, InBuffer
  <2>4. QED
    BY <2>1, <2>2, <2>3 DEF OutTypes, InTypes, OutputTypeOK
<1>2. QED
  BY <1>1, OutInvHolds, PTL

(* After a client was told of a change it has the present shape of the     *)
(* cursor, whatever changed while an earlier message was on its way.       *)
THEOREM CursorIsLatest == OutputSpec => []LatestCursor
<1>1. OutInv => LatestCursor
  BY DEF OutInv
<1>2. QED
  BY <1>1, OutInvHolds, PTL

(* However the browser's bytes are cut into reads, the data of the frames  *)
(* that have come completely is read once, in order, and nothing else is.  *)
THEOREM FramesAreRead == OutputSpec => []InboundExact
<1>1. OutInv => InboundExact
  <2> SUFFICES ASSUME OutInv, ~closed PROVE InboundExact
    BY DEF InboundExact
  <2>1. PICK k \in 0..Len(frames) :
          /\ Reading(k, k, arrived)
          /\ payload = Payload(Slice(Inbound, 0, EndOf(k)))
    BY DEF OutInv, InExact
  <2>2. /\ EndOf(k) <= arrived
        /\ k < Len(frames) => arrived < EndOf(k + 1)
        /\ payload = Payload(SubSeq(Inbound, 1, EndOf(k)))
    BY <2>1 DEF Reading, Slice
  <2> DEFINE End(q) == Len(FlattenSeq([i \in 1..q |-> Bytes(i)]))
  <2>3. End(k) = EndOf(k) /\ End(k + 1) = EndOf(k + 1)
    BY DEF EndOf
  <2> HIDE DEF End
  <2>4. /\ End(k) <= arrived
        /\ k < Len(frames) => arrived < End(k + 1)
        /\ payload = Payload(SubSeq(Inbound, 1, End(k)))
    BY <2>2, <2>3
  <2>5. \E q \in 0..Len(frames) :
          /\ End(q) <= arrived
          /\ q < Len(frames) => arrived < End(q + 1)
          /\ payload = Payload(SubSeq(Inbound, 1, End(q)))
    <3> WITNESS k \in 0..Len(frames)
    <3>1. QED
      BY <2>4
  <2>6. QED
    BY <2>5 DEF InboundExact, End
<1>2. QED
  BY <1>1, OutInvHolds, PTL

LEMMA PrefixOfJoined ==
  ASSUME NEW S, NEW s \in Seq(S), NEW t \in Seq(S)
  PROVE  IsPrefix(s, s \o t)
<1> DEFINE u == s \o t
           n == Len(s)
<1>1. /\ u \in Seq(S) /\ n \in Nat /\ n <= Len(u) /\ Len(u) \in Nat
      /\ \A i \in 1..n : u[i] = s[i]
  <2>1. /\ Len(u) = n + Len(t) /\ n \in Nat /\ Len(t) \in Nat /\ u \in Seq(S)
        /\ \A i \in 1..n + Len(t) : u[i] = IF i <= n THEN s[i] ELSE t[i - n]
    BY ConcatProperties
  <2> HIDE DEF u, n
  <2>2. \A i \in 1..n : i \in 1..n + Len(t) /\ i <= n
    BY <2>1
  <2>3. QED
    BY <2>1, <2>2
<1> HIDE DEF u
<1> DEFINE a == Slice(s, 0, n)
           b == Slice(u, 0, n)
<1>2. 0 \in 0..Len(s) /\ n \in 0..Len(s) /\ 0 \in 0..Len(u) /\ n \in 0..Len(u)
      /\ n - 0 = n
  BY <1>1
<1>3. a \in Seq(S) /\ Len(a) = n /\ \A i \in 1..n : a[i] = s[0 + i]
  BY <1>2, SliceFacts
<1> HIDE DEF n
<1>4. b \in Seq(S) /\ Len(b) = n /\ \A i \in 1..n : b[i] = u[0 + i]
  <2>1. /\ b \in Seq(S) /\ Len(b) = n - 0 /\ \A i \in 1..n - 0 : b[i] = u[0 + i]
    BY <1>1, <1>2, SliceFacts
  <2>2. QED
    BY <1>2, <2>1
<1> HIDE DEF a, b
<1>5. \A i \in 1..n : a[i] = b[i]
  <2>1. \A i \in 1..n : 0 + i = i
    BY <1>1
  <2>2. QED
    BY <1>1, <1>3, <1>4, <2>1
<1>6. a = b
  BY <1>3, <1>4, <1>5, SeqEqual
<1>7. QED
  BY <1>1, <1>6 DEF IsPrefix, Slice, a, b, u, n

\* A step of the server is a step of the stream.
LEMMA StreamStep ==
  ASSUME OutInv, OutputNext, Whole
  PROVE  Whole' /\ Channel!Next
<1>1. Delivered' /\ Flows /\ OutTypes' /\ OutTypes
  BY NextHolds DEF Carries, OutInv
<1>2. Whole'
  BY <1>1 DEF Whole
<1>3. IsPrefix(got, got')
  <2>1. PICK s \in Seq(Units) : got' = got \o s
    BY <1>1 DEF Flows
  <2>2. got \in Seq(Read) /\ s \in Seq(Read)
    BY <1>1, UnitsRead DEF OutTypes
  <2>3. QED
    BY <2>1, <2>2, PrefixOfJoined
<1>4. IsPrefix(got', Stream')
  <2> DEFINE a == After(write_buf', write_pos')
  <2>1. InBuffer(write_buf', write_pos', write_cap')
    BY <1>1 DEF OutTypes, Buffered, InBuffer
  <2>2. a \in Seq(Units)
    BY <2>1, AfterTyped
  <2>3. a \in Seq(Read) /\ got' \in Seq(Read)
    BY <1>1, <2>2, UnitsRead DEF OutTypes
  <2>4. got' \o a = Stream'
    BY <1>1 DEF Delivered, After
  <2> HIDE DEF a
  <2>5. QED
    BY <2>3, <2>4, PrefixOfJoined
<1>5. IsPrefix(Stream, Stream')
  <2> DEFINE m == written' - written
             n == written
             new == [i \in 1..m |-> Unit(n + i)]
             old == [i \in 1..n |-> Unit(i)]
  <2>1. n \in Nat /\ m \in Nat /\ n + m = written'
    <3>1. written \in Nat
      BY <1>1 DEF OutTypes
    <3>2. written' \in Nat /\ written' >= written
      BY <1>1 DEF Flows
    <3> DEFINE w == written'
    <3>3. n \in Nat /\ w \in Nat /\ w >= n
      BY <3>1, <3>2
    <3> HIDE DEF n, w
    <3>4. w - n \in Nat /\ n + (w - n) = w
      BY <3>3
    <3>5. QED
      BY <3>3, <3>4 DEF n, w
  <2> HIDE DEF m, n
  <2>2. /\ new \in Seq(Units) /\ old \in Seq(Units)
        /\ [i \in 1..n + m |-> Unit(i)] = old \o new
    BY <2>1, StreamFacts
  <2>3. Stream = old
    BY DEF Stream, n
  <2>4. Stream' = [i \in 1..n + m |-> Unit(i)]
    BY <2>1 DEF Stream, Unit
  <2> HIDE DEF old, new
  <2>5. QED
    BY <2>2, <2>3, <2>4, PrefixOfJoined
<1>6. QED
  BY <1>2, <1>3, <1>4, <1>5 DEF Channel!Next, Channel!IsPrefix, IsPrefix

(* The peer reads what the handlers have written, in order and complete,   *)
(* wherever the buffer was flushed, partly sent or grown in the middle of  *)
(* a message; in a browser, whose frames FramesInStep shows can go wrong,  *)
(* as long as the connection takes what it is given.                       *)
THEOREM ReadAsWritten ==
  ASSUME TRUE \notin Takes
  PROVE  OutputSpec => Channel!Init /\ [][Channel!Next]_<<Stream, got>>
<1>1. OutputInit => Whole /\ Channel!Init
  BY InitHolds
<1>2. OutInv /\ Whole /\ [OutputNext]_outputVars
        => Whole' /\ [Channel!Next]_<<Stream, got>>
  BY StreamStep, StutterHolds
<1>3. QED
  BY <1>1, <1>2, OutInvHolds, PTL DEF OutputSpec

-----------------------------------------------------------------------------
(* The anti-replay window. *)

(* The window stays exact when it moves: after a shift, bit a speaks of    *)
(* the number that bit a - s spoke of before.                              *)
LEMMA AdvanceExact ==
  ASSUME TypeOK, WindowExact, NEW n \in Counters, Advance(n)
  PROVE  TypeOK' /\ WindowExact'
<1> USE WindowAssumption DEF Bits
<1>1. n \in Nat /\ highest \in Nat /\ n > highest
  BY DEF TypeOK, Advance
<1>2. TypeOK'
  <2>1. bitmap' \subseteq Bits
    BY DEF Advance, ShiftLeft
  <2>2. accepted' \subseteq Counters /\ verdict' \in Nat \X BOOLEAN
    BY <1>1 DEF TypeOK, Advance, Accepted
  <2>3. QED
    BY <1>1, <2>1, <2>2 DEF TypeOK, Advance
<1>3. \A m \in accepted' : m <= highest'
  BY <1>1 DEF TypeOK, WindowExact, Advance, Accepted
<1>4. highest' \in accepted'
  BY DEF Advance, Accepted
<1>5. ASSUME NEW a \in Bits
      PROVE  a \in bitmap' <=> a <= highest' /\ highest' - a \in accepted'
  <2>1. CASE a = 0
    BY <1>1, <2>1 DEF Advance, Accepted
  <2>2. CASE a # 0 /\ n - highest >= W
    <3>1. a \notin bitmap'
      BY <2>2 DEF Advance
    <3>2. a <= n => n - a > highest /\ n - a # n
      BY <1>1, <2>2
    <3>3. a <= n => n - a \notin accepted'
      BY <1>1, <3>2 DEF WindowExact, Advance, Accepted, TypeOK
    <3>4. QED
      BY <3>1, <3>3 DEF Advance
  <2>3. CASE a # 0 /\ n - highest < W
    <3> DEFINE s == n - highest
    <3>1. s \in Nat /\ s > 0
      BY <1>1
    <3>2. a \in bitmap' <=> a >= s /\ a - s \in bitmap
      <4>1. bitmap' = {0} \cup ShiftLeft(bitmap, s)
        BY <1>1, <2>3 DEF Advance
      <4>2. QED
        BY <2>3, <4>1 DEF ShiftLeft
    <3>3. a <= n => (n - a \in accepted' <=> n - a \in accepted)
      BY <1>1, <2>3 DEF Advance, Accepted
    <3>4. CASE a < s
      <4>1. a <= n /\ n - a > highest
        BY <1>1, <3>4
      <4>2. n - a \notin accepted
        BY <1>1, <4>1 DEF WindowExact, TypeOK
      <4>3. a \notin bitmap'
        BY <3>1, <3>2, <3>4
      <4>4. QED
        BY <3>3, <4>1, <4>2, <4>3 DEF Advance
    <3>5. CASE a >= s
      <4>1. a - s \in Bits
        BY <1>1, <3>1, <3>5
      <4>2. a - s \in bitmap <=> a - s <= highest
                                   /\ highest - (a - s) \in accepted
        BY <4>1 DEF WindowExact
      <4>3. (a - s <= highest <=> a <= n) /\ highest - (a - s) = n - a
        BY <1>1
      <4>4. highest' = n
        BY DEF Advance
      <4>5. a \in bitmap' <=> a <= n /\ n - a \in accepted
        BY <3>2, <3>5, <4>2, <4>3
      <4>6. QED
        BY <3>3, <4>4, <4>5
    <3>6. QED
      BY <1>1, <3>1, <3>4, <3>5
  <2>4. QED
    BY <1>1, <2>1, <2>2, <2>3
<1>6. QED
  BY <1>2, <1>3, <1>4, <1>5 DEF WindowExact

(* A late number sets its own bit and no other. *)
LEMMA LateExact ==
  ASSUME TypeOK, WindowExact, NEW n \in Counters, Late(n)
  PROVE  TypeOK' /\ WindowExact'
<1> USE WindowAssumption DEF Bits
<1>1. n \in Nat /\ highest \in Nat /\ n <= highest /\ highest - n \in Bits
  BY DEF TypeOK, Late, TooOld
<1>2. TypeOK'
  BY <1>1 DEF TypeOK, Late, Accepted
<1>3. \A m \in accepted' : m <= highest'
  BY <1>1 DEF WindowExact, Late, Accepted
<1>4. highest' # 0 => highest' \in accepted'
  BY DEF WindowExact, Late, Accepted
<1>5. ASSUME NEW a \in Bits
      PROVE  a \in bitmap' <=> a <= highest' /\ highest' - a \in accepted'
  <2>1. a \in bitmap <=> a <= highest /\ highest - a \in accepted
    BY DEF WindowExact
  <2>2. a = highest - n <=> a <= highest /\ highest - a = n
    BY <1>1
  <2>3. QED
    BY <2>1, <2>2 DEF Late, Accepted
<1>6. QED
  BY <1>2, <1>3, <1>4, <1>5 DEF WindowExact

(* The window is well typed and exact in every state: what is remembered   *)
(* is what was accepted (src/src/leanrfb_udp.c, vnc_udp_replay_check).     *)
THEOREM WindowCorrect == Spec => [](TypeOK /\ WindowExact)
<1>1. Init => TypeOK /\ WindowExact
  <2>1. ASSUME Init
        PROVE  TypeOK
    <3>1. verdict \in Nat \X BOOLEAN
      BY <2>1 DEF Init
    <3>2. highest \in Nat /\ bitmap \subseteq Bits /\ accepted \subseteq Counters
      BY <2>1 DEF Init
    <3>3. QED
      BY <3>1, <3>2 DEF TypeOK
  <2>2. Init => WindowExact
    BY DEF Init, WindowExact
  <2>3. QED
    BY <2>1, <2>2
<1>2. TypeOK /\ WindowExact /\ UNCHANGED vars => (TypeOK /\ WindowExact)'
  BY DEF vars, TypeOK, WindowExact
<1>3. ASSUME TypeOK, WindowExact, NewKey
      PROVE  TypeOK' /\ WindowExact'
  BY <1>3, WindowAssumption DEF NewKey, TypeOK, WindowExact, Bits
<1>4. ASSUME TypeOK, WindowExact, NEW n \in Counters, ReplayCheck(n)
      PROVE  TypeOK' /\ WindowExact'
  <2>1. ASSUME Discard(n)
        PROVE  TypeOK' /\ WindowExact'
    BY <1>4, <2>1, WindowAssumption DEF Discard, Refused, TypeOK, WindowExact
  <2>2. QED
    BY <1>4, <2>1, AdvanceExact, LateExact DEF ReplayCheck
<1>5. TypeOK /\ WindowExact /\ [Next]_vars => (TypeOK /\ WindowExact)'
  BY <1>2, <1>3, <1>4 DEF Next
<1>6. QED
  BY <1>1, <1>5, PTL DEF Spec

(* The two ways of saying that a number fell out of the window agree: by   *)
(* the newest number, as the code does, and by some accepted number.       *)
LEMMA TooOldAgree ==
  ASSUME TypeOK, WindowExact, NEW n \in Counters
  PROVE  Abstract!TooOld(n) <=> TooOld(n)
<1> USE WindowAssumption
<1>1. n \in Nat /\ highest \in Nat
  BY DEF TypeOK
<1>2. ASSUME NEW m \in accepted, m >= n + W
      PROVE  highest - n >= W
  BY <1>1, <1>2 DEF WindowExact, TypeOK
<1>3. ASSUME highest - n >= W
      PROVE  \E m \in accepted : m >= n + W
  BY <1>1, <1>3 DEF WindowExact
<1>4. QED
  BY <1>2, <1>3 DEF Abstract!TooOld, TooOld

(* A number ahead of the newest is fresh: taking it is the abstract        *)
(* Accept.                                                                 *)
LEMMA AdvanceAccepts ==
  ASSUME TypeOK, WindowExact, NEW n \in Counters, Advance(n)
  PROVE  Abstract!Accept(n)
<1> USE WindowAssumption
<1>1. n \in Nat /\ highest \in Nat /\ n > highest
  BY DEF TypeOK, Advance
<1>2. n \notin accepted /\ ~TooOld(n)
  BY <1>1 DEF WindowExact, TooOld
<1>3. QED
  BY <1>2, TooOldAgree DEF Advance, Accepted, Abstract!Accept

(* A late number whose bit is clear was never accepted: taking it is the   *)
(* abstract Accept too.                                                    *)
LEMMA LateAccepts ==
  ASSUME TypeOK, WindowExact, NEW n \in Counters, Late(n)
  PROVE  Abstract!Accept(n)
<1> USE WindowAssumption
<1>1. n \in Nat /\ highest \in Nat
  BY DEF TypeOK
<1>2. n <= highest /\ ~(highest - n >= W)
  BY DEF Late, TooOld
<1>3. highest - n \in Bits /\ highest - (highest - n) = n
  BY <1>1, <1>2 DEF Bits
<1>4. n \notin accepted
  BY <1>1, <1>3 DEF WindowExact, Late
<1>5. QED
  BY <1>4, TooOldAgree DEF Late, Accepted, Abstract!Accept

(* A number the window discards is too old or was accepted before: the     *)
(* abstract Refuse.                                                        *)
LEMMA DiscardRefuses ==
  ASSUME TypeOK, WindowExact, NEW n \in Counters, Discard(n)
  PROVE  Abstract!Refuse(n)
<1> USE WindowAssumption
<1>1. n \in Nat /\ highest \in Nat /\ n <= highest
  BY DEF TypeOK, Discard
<1>2. ASSUME ~TooOld(n)
      PROVE  n \in accepted
  <2>1. highest - n \in Bits /\ highest - (highest - n) = n
    BY <1>1, <1>2 DEF TooOld, Bits
  <2>2. QED
    BY <1>2, <2>1 DEF WindowExact, Discard
<1>3. QED
  BY <1>2, TooOldAgree DEF Discard, Refused, Abstract!Refuse

(* Every call of vnc_udp_replay_check() is an Accept or a Refuse of the    *)
(* abstract specification: no packet number is accepted twice under one    *)
(* key, and no fresh number inside the window is refused.                  *)
THEOREM WindowImplementsOnce == Spec => ImplementsReplayOnce
<1>1. Init => Abstract!Init
  BY DEF Init, Abstract!Init
<1>2. UNCHANGED vars => UNCHANGED <<accepted, verdict>>
  BY DEF vars
<1>3. NewKey => Abstract!NewKey
  BY DEF NewKey, Abstract!NewKey
<1>4. ASSUME TypeOK, WindowExact, NEW n \in Counters, ReplayCheck(n)
      PROVE  Abstract!Accept(n) \/ Abstract!Refuse(n)
  BY <1>4, AdvanceAccepts, LateAccepts, DiscardRefuses DEF ReplayCheck
<1>5. TypeOK /\ WindowExact /\ [Next]_vars
        => [Abstract!Next]_<<accepted, verdict>>
  BY <1>2, <1>3, <1>4 DEF Next, Abstract!Next
<1>6. QED
  BY <1>1, <1>5, WindowCorrect, PTL
  DEF Spec, ImplementsReplayOnce, Abstract!Spec
=============================================================================
