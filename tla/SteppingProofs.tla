--------------------------- MODULE SteppingProofs ---------------------------
(***************************************************************************)
(* Induction over numbers in a form the provers can use: with sets in the  *)
(* place of predicates.  A set of numbers has a least one; what holds at 0 *)
(* and goes from each number to the next holds up to any bound; and a step *)
(* that can be taken from everywhere defines a function by recursion.      *)
(* From these: what FlattenSeq makes of a sequence of sequences.           *)
(***************************************************************************)
EXTENDS Integers, SequencesExt, SequenceTheorems, WellFoundedInduction, TLAPS

Before == {ss \in Nat \X Nat : ss[1] < ss[2]}

LEMMA LeastOne ==
  ASSUME NEW T \in SUBSET Nat, T # {}
  PROVE  \E m \in T : \A k \in T : m <= k
<1>1. IsWellFoundedOn(Before, Nat)
  BY NatLessThanWellFounded DEF OpToRel, Before
<1>2. PICK m \in T : \A k \in T : <<k, m>> \notin Before
  BY <1>1, WFMin
<1>3. ASSUME NEW k \in T PROVE m <= k
  <2>1. m \in Nat /\ k \in Nat /\ <<k, m>> \in Nat \X Nat
    OBVIOUS
  <2>2. ~(k < m)
    BY <1>2, <2>1 DEF Before
  <2>3. QED
    BY <2>1, <2>2
<1>4. QED
  BY <1>3

LEMMA GreatestOne ==
  ASSUME NEW N \in Nat, NEW T \in SUBSET (0..N), T # {}
  PROVE  \E m \in T : \A k \in T : m >= k
<1> DEFINE S == {n \in 0..N : N - n \in T}
<1>1. S \in SUBSET Nat
  OBVIOUS
<1>2. S # {}
  <2>1. PICK k \in T : TRUE
    OBVIOUS
  <2>2. N - k \in 0..N /\ N - (N - k) = k
    BY <2>1
  <2>3. QED
    BY <2>2
<1>3. PICK n \in S : \A k \in S : n <= k
  <2> HIDE DEF S
  <2>1. QED
    BY <1>1, <1>2, LeastOne
<1>4. ASSUME NEW k \in T PROVE N - n >= k
  <2>1. N - k \in 0..N /\ N - (N - k) = k /\ k \in Int
    OBVIOUS
  <2>2. N - k \in S
    BY <2>1
  <2>3. n <= N - k /\ n \in Int
    <3>1. n \in Int
      BY <1>1
    <3> HIDE DEF S
    <3>2. QED
      BY <1>3, <2>2, <3>1
  <2>4. QED
    BY <2>1, <2>3
<1>5. N - n \in T
  BY <1>3
<1>6. QED
  BY <1>4, <1>5

LEMMA UpTo ==
  ASSUME NEW N \in Nat, NEW S, 0 \in S, \A i \in 1..N : i - 1 \in S => i \in S
  PROVE  \A i \in 0..N : i \in S
<1> DEFINE T == {i \in 0..N : i \notin S}
<1> SUFFICES ASSUME T # {} PROVE FALSE
  OBVIOUS
<1>1. T \in SUBSET Nat
  OBVIOUS
<1> HIDE DEF T
<1>2. PICK m \in T : \A k \in T : m <= k
  BY <1>1, LeastOne
<1> USE DEF T
<1>3. m \in 1..N /\ m \notin S
  BY <1>2
<1>4. m - 1 \notin T
  BY <1>1, <1>2, <1>3
<1>5. m - 1 \in S
  BY <1>3, <1>4
<1>6. QED
  BY <1>3, <1>5

Stepped(f, base, step, n) ==
  f[0] = base /\ \A i \in 1..n : f[i] = step[<<f[i - 1], i>>]

\* A step from each element of X to one of X can be taken again and again.
LEMMA Stepwise ==
  ASSUME NEW X, NEW N \in Nat, NEW base \in X, NEW step \in [X \X (1..N) -> X]
  PROVE  \E f \in [0..N -> X] : Stepped(f, base, step, N)
<1> DEFINE S == {n \in 0..N : \E f \in [0..n -> X] : Stepped(f, base, step, n)}
<1>1. 0 \in S
  <2> DEFINE g == [i \in 0..0 |-> base]
  <2>1. g \in [0..0 -> X] /\ g[0] = base
    OBVIOUS
  <2> HIDE DEF g
  <2>2. Stepped(g, base, step, 0)
    BY <2>1 DEF Stepped
  <2>3. QED
    BY <2>1, <2>2
<1>2. ASSUME NEW n \in 1..N, n - 1 \in S PROVE n \in S
  <2>1. PICK f \in [0..n - 1 -> X] : Stepped(f, base, step, n - 1)
    BY <1>2
  <2> DEFINE v == step[<<f[n - 1], n>>]
             g == [i \in 0..n |-> IF i = n THEN v ELSE f[i]]
  <2>2. f[n - 1] \in X
    BY <2>1
  <2>3. v \in X
    BY <2>2
  <2>4. g \in [0..n -> X]
    <3> HIDE DEF v
    <3>1. QED
      BY <2>1, <2>3
  <2>5. /\ f[0] = base
        /\ \A i \in 1..n - 1 : f[i] = step[<<f[i - 1], i>>]
    BY <2>1 DEF Stepped
  <2>6. /\ \A i \in 0..n - 1 : g[i] = f[i]
        /\ g[n] = v
    <3> HIDE DEF v
    <3>1. QED
      OBVIOUS
  <2> HIDE DEF g
  <2>7. g[0] = base
    BY <2>5, <2>6
  <2>8. ASSUME NEW i \in 1..n PROVE g[i] = step[<<g[i - 1], i>>]
    <3>1. CASE i = n
      <4>1. g[n - 1] = f[n - 1]
        BY <2>6
      <4>2. QED
        BY <3>1, <4>1, <2>6
    <3>2. CASE i # n
      <4>1. i \in 1..n - 1 /\ i \in 0..n - 1 /\ i - 1 \in 0..n - 1
        BY <3>2
      <4>2. g[i] = f[i] /\ g[i - 1] = f[i - 1] /\ f[i] = step[<<f[i - 1], i>>]
        BY <4>1, <2>5, <2>6
      <4>3. QED
        BY <4>2
    <3>3. QED
      BY <3>1, <3>2
  <2>9. Stepped(g, base, step, n)
    BY <2>7, <2>8 DEF Stepped
  <2>10. n \in 0..N
    OBVIOUS
  <2>11. QED
    BY <2>4, <2>9, <2>10
<1>3. N \in S
  <2> HIDE DEF S
  <2>1. \A i \in 0..N : i \in S
    BY <1>1, <1>2, UpTo
  <2>2. QED
    BY <2>1
<1>4. QED
  BY <1>3

\* What holds of the first value and is kept by each step holds of all values.
LEMMA StepsStay ==
  ASSUME NEW X, NEW N \in Nat, NEW h, h[0] \in X,
         \A n \in 1..N : h[n - 1] \in X => h[n] \in X
  PROVE  \A n \in 0..N : h[n] \in X
<1> DEFINE S == {n \in 0..N : h[n] \in X}
<1>1. 0 \in S
  OBVIOUS
<1>2. ASSUME NEW n \in 1..N, n - 1 \in S PROVE n \in S
  <2>1. n \in 0..N /\ h[n - 1] \in X
    BY <1>2
  <2>2. h[n] \in X
    BY <2>1
  <2>3. QED
    BY <2>1, <2>2
<1>3. \A n \in 0..N : n \in S
  <2> HIDE DEF S
  <2>1. QED
    BY <1>1, <1>2, UpTo
<1>4. QED
  BY <1>3

-----------------------------------------------------------------------------
(* Sequences put together. *)

\* What the first n of q's sequences come to.
Joins(f, q) == f[0] = <<>> /\ \A n \in 1..Len(q) : f[n] = f[n - 1] \o q[n]

LEMMA FlattenSteps ==
  ASSUME NEW S, NEW q \in Seq(Seq(S))
  PROVE  \E f \in [0..Len(q) -> Seq(S)] : Joins(f, q) /\ FlattenSeq(q) = f[Len(q)]
<1> DEFINE N == Len(q)
           X == Seq(S)
           F(f) == [i \in 1..N |-> IF i = 1 THEN q[i] ELSE f[i - 1] \o q[i]]
           step == [p \in X \X (1..N) |-> p[1] \o q[p[2]]]
<1>1. N \in Nat /\ <<>> \in X /\ \A n \in 1..N : q[n] \in X
  OBVIOUS
<1>2. \A s, t \in X : s \o t \in X
  BY ConcatProperties
<1>a. \A s \in X : <<>> \o s = s
  BY ConcatEmptySeq
<1> HIDE DEF N, X
<1>3. step \in [X \X (1..N) -> X]
  BY <1>1, <1>2
<1>4. \A s \in X, n \in 1..N : step[<<s, n>>] = s \o q[n]
  OBVIOUS
<1> HIDE DEF step
<1>5. PICK g \in [0..N -> X] : Stepped(g, <<>>, step, N)
  BY <1>1, <1>3, Stepwise
<1>6. g[0] = <<>> /\ \A n \in 1..N : g[n] = g[n - 1] \o q[n]
  <2>1. ASSUME NEW n \in 1..N PROVE g[n] = g[n - 1] \o q[n]
    <3>1. n - 1 \in 0..N
      BY <1>1
    <3>2. g[n] = step[<<g[n - 1], n>>] /\ g[n - 1] \in X
      BY <1>5, <3>1 DEF Stepped
    <3>3. QED
      BY <1>4, <3>2
  <2>2. QED
    BY <1>5, <2>1 DEF Stepped
<1>b. ASSUME 1 \in 1..N PROVE g[1] = q[1]
  <2>1. g[1] = g[1 - 1] \o q[1] /\ q[1] \in X
    BY <1>1, <1>6, <1>b
  <2>2. 1 - 1 = 0
    OBVIOUS
  <2>4. g[1] = <<>> \o q[1]
    BY <1>6, <2>1, <2>2
  <2>3. QED
    BY <1>a, <2>1, <2>4
<1>7. CASE N = 0
  <2>1. q = <<>>
    BY <1>7 DEF N
  <2>2. FlattenSeq(q) = <<>>
    BY <1>7, <2>1 DEF FlattenSeq, N
  <2>3. QED
    BY <1>5, <1>6, <1>7, <2>2 DEF Joins, N, X
<1>8. CASE N # 0
  <2> DEFINE h == CHOOSE f : f = F(f)
             gg == [i \in 1..N |-> g[i]]
  <2>1. FlattenSeq(q) = h[N]
    BY <1>8 DEF FlattenSeq, N
  <2>2. gg = F(gg)
    <3>1. ASSUME NEW i \in 1..N
          PROVE  gg[i] = IF i = 1 THEN q[i] ELSE gg[i - 1] \o q[i]
      <4>1. CASE i = 1
        <5>1. g[1] = q[1]
          BY <1>b, <4>1
        <5>2. QED
          BY <4>1, <5>1
      <4>2. CASE i # 1
        <5>1. i - 1 \in 1..N
          BY <1>1, <4>2
        <5>2. QED
          BY <1>6, <4>2, <5>1
      <4>3. QED
        BY <4>1, <4>2
    <3>2. QED
      BY <3>1
  <2> HIDE DEF F
  <2>3. h = F(h)
    BY <2>2
  <2> HIDE DEF h, gg
  <2>4. /\ h[1] = q[1]
        /\ \A i \in 2..N : h[i] = h[i - 1] \o q[i]
    <3>1. \A i \in 1..N : F(h)[i] = IF i = 1 THEN q[i] ELSE h[i - 1] \o q[i]
      BY DEF F
    <3>2. 1 \in 1..N /\ \A i \in 2..N : i \in 1..N /\ i # 1
      BY <1>1, <1>8
    <3>3. F(h)[1] = q[1]
      BY <3>1, <3>2
    <3>4. ASSUME NEW i \in 2..N PROVE F(h)[i] = h[i - 1] \o q[i]
      BY <3>1, <3>2
    <3>5. QED
      BY <2>3, <3>3, <3>4
  <2> DEFINE T == {n \in 0..N : n = 0 \/ h[n] = g[n]}
  <2>5. 0 \in T
    BY <1>1
  <2>6. ASSUME NEW n \in 1..N, n - 1 \in T PROVE n \in T
    <3>1. CASE n = 1
      <4>2. g[1] = q[1]
        BY <1>b, <3>1
      <4>3. QED
        BY <1>1, <2>4, <3>1, <4>2
    <3>2. CASE n # 1
      <4>1. n \in 2..N /\ n - 1 # 0 /\ n \in 0..N
        BY <1>1, <3>2
      <4>2. h[n - 1] = g[n - 1]
        BY <2>6, <4>1
      <4>3. h[n] = g[n]
        BY <1>6, <2>4, <4>1, <4>2
      <4>4. QED
        BY <4>1, <4>3
    <3>3. QED
      BY <3>1, <3>2
  <2>7. h[N] = g[N]
    <3> HIDE DEF T
    <3>1. \A n \in 0..N : n \in T
      BY <1>1, <2>5, <2>6, UpTo
    <3>2. N \in T
      BY <1>1, <3>1
    <3>3. QED
      BY <1>8, <3>2 DEF T
  <2>8. QED
    BY <1>5, <1>6, <2>1, <2>7 DEF Joins, N, X
<1>9. QED
  BY <1>7, <1>8

\* What sequences are put together of is in the whole.
LEMMA FlattenIn ==
  ASSUME NEW S, NEW q \in Seq(Seq(S))
  PROVE  FlattenSeq(q) \in Seq(S)
<1>1. Len(q) \in Nat /\ Len(q) \in 0..Len(q)
  OBVIOUS
<1>2. QED
  BY <1>1, FlattenSteps

\* What the first n of q's sequences are together.
JoinedTo(q, n) == FlattenSeq(SubSeq(q, 1, n))

LEMMA FlattenMore ==
  ASSUME NEW S, NEW q \in Seq(Seq(S)), NEW m \in Seq(S)
  PROVE  FlattenSeq(Append(q, m)) = FlattenSeq(q) \o m
<1> DEFINE N == Len(q)
           r == Append(q, m)
<1>1. /\ N \in Nat /\ r \in Seq(Seq(S)) /\ Len(r) = N + 1 /\ r[N + 1] = m
      /\ \A n \in 1..N : r[n] = q[n]
  OBVIOUS
<1>2. PICK f \in [0..N -> Seq(S)] : Joins(f, q) /\ FlattenSeq(q) = f[N]
  BY FlattenSteps
<1> HIDE DEF r, N
<1>3. PICK g \in [0..N + 1 -> Seq(S)] : Joins(g, r) /\ FlattenSeq(r) = g[N + 1]
  BY <1>1, FlattenSteps
<1>4. /\ f[0] = <<>> /\ \A n \in 1..N : f[n] = f[n - 1] \o q[n]
      /\ g[0] = <<>> /\ \A n \in 1..N + 1 : g[n] = g[n - 1] \o r[n]
  BY <1>1, <1>2, <1>3 DEF Joins, N
<1> DEFINE T == {n \in 0..N : g[n] = f[n]}
<1>5. 0 \in T
  BY <1>1, <1>4
<1>6. ASSUME NEW n \in 1..N, n - 1 \in T PROVE n \in T
  <2>1. n \in 1..N + 1 /\ n \in 0..N /\ g[n - 1] = f[n - 1]
    BY <1>1, <1>6
  <2>2. g[n] = f[n]
    BY <1>1, <1>4, <2>1
  <2>3. QED
    BY <2>1, <2>2
<1>7. g[N] = f[N]
  <2> HIDE DEF T
  <2>1. N \in T
    <3>1. \A n \in 0..N : n \in T
      BY <1>1, <1>5, <1>6, UpTo
    <3>2. N \in 0..N
      BY <1>1
    <3>3. QED
      BY <3>1, <3>2
  <2>2. QED
    BY <2>1 DEF T
<1>8. g[N + 1] = g[N] \o m
  <2>1. N + 1 \in 1..N + 1 /\ N + 1 - 1 = N
    BY <1>1
  <2>2. \A n \in 1..N + 1 : g[n] = g[n - 1] \o r[n]
    BY <1>4
  <2>3. ASSUME NEW n \in 1..N + 1, n = N + 1 PROVE g[n] = g[N] \o m
    <3>1. g[n] = g[n - 1] \o r[n]
      BY <2>2
    <3>2. n - 1 = N /\ r[n] = m
      BY <1>1, <2>3
    <3>3. QED
      BY <3>1, <3>2
  <2>4. QED
    BY <2>1, <2>3
<1>9. QED
  BY <1>2, <1>3, <1>7, <1>8 DEF r

LEMMA FlattenNone == FlattenSeq(<<>>) = <<>>
BY DEF FlattenSeq

\* Beginnings: one sequence at a time.
LEMMA JoinedSteps ==
  ASSUME NEW S, NEW q \in Seq(Seq(S))
  PROVE  /\ JoinedTo(q, 0) = <<>> /\ JoinedTo(q, Len(q)) = FlattenSeq(q)
         /\ \A n \in 0..Len(q) : JoinedTo(q, n) \in Seq(S)
         /\ \A n \in 1..Len(q) : JoinedTo(q, n) = JoinedTo(q, n - 1) \o q[n]
<1>1. SubSeq(q, 1, 0) = <<>> /\ SubSeq(q, 1, Len(q)) = q
  BY SubSeqEmpty, SubSeqFull
<1>2. ASSUME NEW n \in 0..Len(q) PROVE SubSeq(q, 1, n) \in Seq(Seq(S))
  OBVIOUS
<1>3. ASSUME NEW n \in 1..Len(q) PROVE JoinedTo(q, n) = JoinedTo(q, n - 1) \o q[n]
  <2> DEFINE a == SubSeq(q, 1, n - 1)
  <2>1. a \in Seq(Seq(S)) /\ q[n] \in Seq(S)
    OBVIOUS
  <2>2. SubSeq(q, 1, n) = a \o <<q[n]>>
    BY SubSeqRecursiveSecond
  <2> HIDE DEF a
  <2>3. a \o <<q[n]>> = Append(a, q[n])
    BY <2>1, AppendIsConcat
  <2>4. FlattenSeq(Append(a, q[n])) = FlattenSeq(a) \o q[n]
    BY <2>1, FlattenMore
  <2>5. QED
    BY <2>2, <2>3, <2>4 DEF JoinedTo, a
<1>4. \A n \in 0..Len(q) : JoinedTo(q, n) \in Seq(S)
  BY <1>2, FlattenIn DEF JoinedTo
<1>5. QED
  BY <1>1, <1>3, <1>4, FlattenNone DEF JoinedTo

\* Where each of the sequences is in the whole.
LEMMA JoinedWithin ==
  ASSUME NEW S, NEW q \in Seq(Seq(S)), NEW n \in 0..Len(q), NEW k \in 0..n
  PROVE  /\ Len(JoinedTo(q, k)) <= Len(JoinedTo(q, n))
         /\ \A i \in 1..Len(JoinedTo(q, k)) : JoinedTo(q, n)[i] = JoinedTo(q, k)[i]
<1> DEFINE p(j) == JoinedTo(q, j)
           M == Len(q)
           T == {j \in 0..n - k : /\ Len(p(k)) <= Len(p(k + j))
                                  /\ \A i \in 1..Len(p(k)) : p(k + j)[i] = p(k)[i]}
<1>1. /\ M \in Nat /\ n \in 0..M /\ k \in 0..n /\ n - k \in Nat /\ k + 0 = k
      /\ k + (n - k) = n /\ \A j \in 0..n - k : k + j \in 0..M
  OBVIOUS
<1>2. ASSUME NEW j \in 0..M PROVE p(j) \in Seq(S) /\ Len(p(j)) \in Nat
  <2>1. p(j) \in Seq(S)
    BY JoinedSteps
  <2> HIDE DEF p
  <2>2. QED
    BY <2>1
<1>3. ASSUME NEW j \in 1..M
      PROVE  /\ Len(p(j - 1)) <= Len(p(j))
             /\ \A i \in 1..Len(p(j - 1)) : p(j)[i] = p(j - 1)[i]
  <2> DEFINE a == p(j - 1)
             b == q[j]
  <2>1. p(j) = a \o b
    BY JoinedSteps
  <2>2. j - 1 \in 0..M /\ b \in Seq(S)
    OBVIOUS
  <2>3. a \in Seq(S) /\ Len(a) \in Nat /\ Len(b) \in Nat
    <3>1. a \in Seq(S)
      BY <1>2, <2>2
    <3> HIDE DEF a, b
    <3>2. QED
      BY <2>2, <3>1
  <2> HIDE DEF a, b
  <2>4. /\ Len(a \o b) = Len(a) + Len(b)
        /\ \A i \in 1..Len(a) + Len(b) : (a \o b)[i] = IF i <= Len(a) THEN a[i] ELSE b[i - Len(a)]
    BY <2>2, <2>3, ConcatProperties
  <2>5. \A i \in 1..Len(a) : i \in 1..Len(a) + Len(b) /\ i <= Len(a)
    BY <2>3
  <2>6. Len(a) <= Len(a \o b) /\ \A i \in 1..Len(a) : (a \o b)[i] = a[i]
    BY <2>3, <2>4, <2>5
  <2>7. QED
    BY <2>1, <2>6 DEF a
<1> HIDE DEF p, M
<1>4. 0 \in T
  BY <1>1, <1>2
<1>5. ASSUME NEW j \in 1..n - k, j - 1 \in T PROVE j \in T
  <2>1. /\ k + j \in 1..M /\ k + j - 1 = k + (j - 1) /\ j \in 0..n - k
        /\ k + (j - 1) \in 0..M /\ k + j \in 0..M
    BY <1>1
  <2>2. /\ Len(p(k + (j - 1))) <= Len(p(k + j))
        /\ \A i \in 1..Len(p(k + (j - 1))) : p(k + j)[i] = p(k + (j - 1))[i]
    BY <1>3, <2>1
  <2>3. /\ Len(p(k)) <= Len(p(k + (j - 1)))
        /\ \A i \in 1..Len(p(k)) : p(k + (j - 1))[i] = p(k)[i]
    BY <1>5
  <2>4. Len(p(k)) \in Nat /\ Len(p(k + (j - 1))) \in Nat /\ Len(p(k + j)) \in Nat
    BY <1>1, <1>2, <2>1
  <2>5. Len(p(k)) <= Len(p(k + j))
        /\ \A i \in 1..Len(p(k)) : i \in 1..Len(p(k + (j - 1)))
    BY <2>2, <2>3, <2>4
  <2>6. \A i \in 1..Len(p(k)) : p(k + j)[i] = p(k)[i]
    BY <2>2, <2>3, <2>5
  <2>7. QED
    BY <2>1, <2>5, <2>6
<1>6. n - k \in T
  <2> HIDE DEF T
  <2>1. \A j \in 0..n - k : j \in T
    BY <1>1, <1>4, <1>5, UpTo
  <2>2. n - k \in 0..n - k
    BY <1>1
  <2>3. QED
    BY <2>1, <2>2
<1>7. QED
  BY <1>1, <1>6 DEF p
=============================================================================
