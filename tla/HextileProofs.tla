--------------------------- MODULE HextileProofs ---------------------------
(***************************************************************************)
(* Hextile for tiles of any size and any colours, however many tiles are   *)
(* on their way: the decoder shows what was encoded, although colours are  *)
(* left out that it is believed to have, and no tile takes more bytes than *)
(* are reserved for it.                                                    *)
(***************************************************************************)
EXTENDS Hextile, SteppingProofs, FiniteSetTheorems, TLAPS

-----------------------------------------------------------------------------
(* Tiles, spans and subrectangles. *)

LEMMA TileFacts ==
  ASSUME NEW t \in AllTiles
  PROVE  /\ t.w \in 1..Side /\ t.h \in 1..Side /\ Side \in Nat
         /\ t.at \in [Area(t.w, t.h) -> Colours]
         /\ DOMAIN t.at = Area(t.w, t.h)
         /\ ColoursOf(t) \subseteq Colours
<1>1. PICK s \in Shapes :
        t \in [w : {s[1]}, h : {s[2]}, at : [Area(s[1], s[2]) -> Colours]]
  BY DEF AllTiles
<1>2. t.w = s[1] /\ t.h = s[2] /\ t.at \in [Area(s[1], s[2]) -> Colours]
  BY <1>1
<1>3. s[1] \in 1..Side /\ s[2] \in 1..Side /\ Side \in Nat
  BY HextileAssumption
<1>4. t.at \in [Area(t.w, t.h) -> Colours]
  BY <1>2
<1>5. QED
  BY <1>2, <1>3, <1>4 DEF ColoursOf

SpanType(t) == [x : 0..t.w - 1, y : 0..t.h - 1, w : 1..t.w, h : {1},
                color : ColoursOf(t)]

LEMMA SpanFacts ==
  ASSUME NEW t \in AllTiles, NEW b, NEW s \in Spans(t, b)
  PROVE  /\ s \in SpanType(t)
         /\ s.x \in 0..t.w - 1 /\ s.y \in 0..t.h - 1 /\ s.w \in 1..t.w
         /\ s.x + s.w <= t.w /\ s.color # b /\ s.color \in ColoursOf(t)
         /\ \A i \in s.x..s.x + s.w - 1 : t.at[<<i, s.y>>] = s.color
<1>1. s \in SpanType(t) /\ s.x + s.w <= t.w /\ Uniform(t, b, s)
  BY DEF Spans, SpanType
<1>2. QED
  BY <1>1 DEF SpanType, Uniform

\* Every pixel that is not of the background is in a span of its colour.
LEMMA PixelInSpan ==
  ASSUME NEW t \in AllTiles, NEW b, NEW x0 \in 0..t.w - 1, NEW y0 \in 0..t.h - 1,
         t.at[<<x0, y0>>] # b
  PROVE  \E s \in Spans(t, b) : s.y = y0 /\ x0 \in s.x..s.x + s.w - 1
<1> DEFINE c == t.at[<<x0, y0>>]
           L == {i \in 0..x0 : \A k \in i..x0 : t.at[<<k, y0>>] = c}
           R == {n \in 1..t.w - x0 : x0 + n = t.w \/ t.at[<<x0 + n, y0>>] # c}
<1>1. t.w \in Nat /\ t.h \in Nat /\ x0 \in Nat /\ y0 \in Nat
  BY TileFacts
<1>2. c \in ColoursOf(t)
  BY TileFacts DEF ColoursOf, Area
<1>3. x0 \in L
  <2>1. \A k \in x0..x0 : k = x0
    BY <1>1
  <2>2. QED
    BY <1>1, <2>1
<1>4. t.w - x0 \in R
  BY <1>1
<1>5. L \in SUBSET Nat /\ R \in SUBSET Nat
  BY <1>1
<1> HIDE DEF c
<1>6. PICK m \in L : \A k \in L : m <= k
  <2> HIDE DEF L
  <2>1. QED
    BY <1>3, <1>5, LeastOne
<1>7. PICK r \in R : \A k \in R : r <= k
  <2> HIDE DEF R
  <2>1. QED
    BY <1>4, <1>5, LeastOne
<1>8. /\ m \in 0..x0 /\ r \in 1..t.w - x0
      /\ \A k \in m..x0 : t.at[<<k, y0>>] = c
      /\ x0 + r = t.w \/ t.at[<<x0 + r, y0>>] # c
  BY <1>6, <1>7
<1>9. ASSUME m > 0, t.at[<<m - 1, y0>>] = c PROVE FALSE
  <2>1. m - 1 \in 0..x0
    BY <1>1, <1>8, <1>9
  <2>2. ASSUME NEW k \in m - 1..x0 PROVE t.at[<<k, y0>>] = c
    <3>1. k = m - 1 \/ k \in m..x0
      BY <1>1, <1>8
    <3>2. QED
      BY <1>8, <1>9, <3>1
  <2>3. m - 1 \in L
    BY <2>1, <2>2
  <2> HIDE DEF L
  <2>4. m <= m - 1
    BY <1>6, <2>3
  <2>5. QED
    BY <1>1, <1>8, <2>4
<1>10. ASSUME NEW k \in x0..x0 + r - 1 PROVE t.at[<<k, y0>>] = c
  <2>1. CASE k = x0
    <3>1. x0 \in m..x0
      BY <1>1, <1>8
    <3>2. QED
      BY <1>8, <2>1, <3>1
  <2>2. CASE k # x0
    <3>1. k - x0 \in 1..t.w - x0 /\ k - x0 < r /\ x0 + (k - x0) = k /\ k # t.w
      BY <1>1, <1>8, <2>2
    <3>2. k - x0 \notin R
      <4> HIDE DEF R
      <4>1. ~(r <= k - x0)
        BY <1>1, <1>8, <3>1
      <4>2. QED
        BY <1>7, <4>1
    <3>3. QED
      BY <3>1, <3>2
  <2>3. QED
    BY <2>1, <2>2
<1> DEFINE s == [x |-> m, y |-> y0, w |-> x0 + r - m, h |-> 1, color |-> c]
<1>11. s \in SpanType(t)
  <2>1. m \in 0..t.w - 1 /\ x0 + r - m \in 1..t.w
    BY <1>1, <1>8
  <2>2. QED
    BY <1>2, <2>1 DEF SpanType, c
<1>12. s.x = m /\ s.y = y0 /\ s.w = x0 + r - m /\ s.color = c
  OBVIOUS
<1> HIDE DEF s
<1>13. s.x + s.w = x0 + r /\ x0 + r <= t.w
  BY <1>1, <1>8, <1>12
<1>14. \A i \in s.x..s.x + s.w - 1 : t.at[<<i, s.y>>] = s.color
  <2> SUFFICES ASSUME NEW i \in m..x0 + r - 1 PROVE t.at[<<i, y0>>] = c
    BY <1>12, <1>13
  <2>1. i \in m..x0 \/ i \in x0..x0 + r - 1
    BY <1>1, <1>8
  <2>2. QED
    BY <1>8, <1>10, <2>1
<1>15. Uniform(t, b, s)
  BY <1>12, <1>14 DEF Uniform, c
<1>16. s.x > 0 => t.at[<<s.x - 1, s.y>>] # s.color
  BY <1>9, <1>12
<1>17. s.x + s.w < t.w => t.at[<<s.x + s.w, s.y>>] # s.color
  <2>1. x0 + r < t.w => x0 + r # t.w
    BY <1>1, <1>8
  <2>2. QED
    BY <1>8, <1>12, <1>13, <2>1
<1>18. s \in Spans(t, b)
  BY <1>11, <1>13, <1>15, <1>16, <1>17 DEF Spans, SpanType
<1>19. s.y = y0 /\ x0 \in s.x..s.x + s.w - 1
  BY <1>1, <1>8, <1>12, <1>13
<1>20. QED
  BY <1>18, <1>19

LEMMA BelowFacts ==
  ASSUME NEW t, NEW s \in SpanType(t), NEW n \in Int, t.h \in Nat
  PROVE  /\ Below(s, n).x = s.x /\ Below(s, n).w = s.w
         /\ Below(s, n).y = s.y + n /\ Below(s, n).color = s.color
         /\ Below(s, 0) = s
         /\ \A k \in Int : Below(Below(s, n), k) = Below(s, n + k)
<1>1. s.y \in Int
  BY DEF SpanType
<1>2. s = [x |-> s.x, y |-> s.y, w |-> s.w, h |-> s.h, color |-> s.color]
  BY DEF SpanType
<1>3. \A k \in Int :
        Below(s, k) = [x |-> s.x, y |-> s.y + k, w |-> s.w, h |-> s.h,
                       color |-> s.color]
  BY <1>2 DEF Below, SpanType
<1>4. Below(s, 0) = s
  BY <1>1, <1>2, <1>3
<1>5. ASSUME NEW k \in Int PROVE Below(Below(s, n), k) = Below(s, n + k)
  <2> DEFINE u == [x |-> s.x, y |-> s.y + n, w |-> s.w, h |-> s.h,
                   color |-> s.color]
  <2>1. Below(u, k) = [x |-> s.x, y |-> s.y + n + k, w |-> s.w, h |-> s.h,
                       color |-> s.color]
    BY DEF Below
  <2>2. s.y + n + k = s.y + (n + k) /\ n + k \in Int
    BY <1>1
  <2>3. QED
    BY <1>3, <2>1, <2>2
<1>6. QED
  BY <1>3, <1>4, <1>5

Height(t, b, s) ==
  Max({n \in 1..t.h : \A k \in 0..n - 1 : Below(s, k) \in Spans(t, b)})

LEMMA HeightFacts ==
  ASSUME NEW t \in AllTiles, NEW b, NEW s \in Spans(t, b)
  PROVE  /\ Height(t, b, s) \in 1..t.h
         /\ \A k \in 0..Height(t, b, s) - 1 : Below(s, k) \in Spans(t, b)
         /\ \A n \in 1..t.h :
              (\A k \in 0..n - 1 : Below(s, k) \in Spans(t, b))
                => n <= Height(t, b, s)
<1> DEFINE T == {n \in 1..t.h : \A k \in 0..n - 1 : Below(s, k) \in Spans(t, b)}
<1>1. t.h \in Nat \ {0}
  BY TileFacts
<1>2. 1 \in T
  <2>1. Below(s, 0) = s
    BY <1>1, SpanFacts, BelowFacts
  <2>2. \A k \in 0..1 - 1 : k = 0
    OBVIOUS
  <2>3. QED
    BY <1>1, <2>1, <2>2
<1>3. T \in SUBSET (0..t.h)
  BY <1>1
<1>4. \E m \in T : \A k \in T : m >= k
  <2> HIDE DEF T
  <2>1. QED
    BY <1>1, <1>2, <1>3, GreatestOne
<1>5. Max(T) \in T /\ \A k \in T : Max(T) >= k
  <2> HIDE DEF T
  <2>1. QED
    BY <1>4 DEF Max
<1>6. Height(t, b, s) = Max(T)
  BY DEF Height
<1>7. Height(t, b, s) \in T /\ \A k \in T : Height(t, b, s) >= k
  BY <1>5, <1>6
<1> HIDE DEF Height
<1>8. ASSUME NEW n \in 1..t.h, \A k \in 0..n - 1 : Below(s, k) \in Spans(t, b)
      PROVE  n <= Height(t, b, s)
  <2>1. n \in T
    BY <1>8
  <2>2. Height(t, b, s) >= n /\ Height(t, b, s) \in Int /\ n \in Int
    BY <1>1, <1>7, <2>1
  <2>3. QED
    BY <2>2
<1>9. QED
  BY <1>7, <1>8

Tops(t, b) == {u \in Spans(t, b) : Below(u, -1) \notin Spans(t, b)}

LEMMA SubrectsAre ==
  ASSUME NEW t, NEW b
  PROVE  Subrects(t, b) = {[s EXCEPT !.h = Height(t, b, s)] : s \in Tops(t, b)}
BY DEF Subrects, Height, Tops

LEMMA SubrectFacts ==
  ASSUME NEW t \in AllTiles, NEW b, NEW r \in Subrects(t, b)
  PROVE  \E s \in Tops(t, b) :
           /\ r.x = s.x /\ r.y = s.y /\ r.w = s.w /\ r.color = s.color
           /\ r.h = Height(t, b, s)
<1>1. PICK s \in Tops(t, b) : r = [s EXCEPT !.h = Height(t, b, s)]
  BY SubrectsAre
<1>2. s \in SpanType(t)
  BY SpanFacts DEF Tops
<1>3. r.x = s.x /\ r.y = s.y /\ r.w = s.w /\ r.color = s.color
      /\ r.h = Height(t, b, s)
  <2> DEFINE n == Height(t, b, s)
  <2> HIDE DEF n
  <2>1. r = [s EXCEPT !.h = n]
    BY <1>1 DEF n
  <2>2. r.h = n
    BY <1>2, <2>1 DEF SpanType
  <2>3. QED
    BY <1>2, <2>1, <2>2 DEF SpanType, n
<1>4. QED
  BY <1>3

LEMMA SubrectShape ==
  ASSUME NEW t \in AllTiles, NEW b, NEW r \in Subrects(t, b)
  PROVE  /\ r = [x |-> r.x, y |-> r.y, w |-> r.w, h |-> r.h, color |-> r.color]
         /\ r.color \in ColoursOf(t)
<1>1. PICK s \in Tops(t, b) : r = [s EXCEPT !.h = Height(t, b, s)]
  BY SubrectsAre
<1>2. s \in SpanType(t)
  BY <1>1, SpanFacts DEF Tops
<1> DEFINE n == Height(t, b, s)
<1>3. r = [s EXCEPT !.h = n]
  BY <1>1
<1> HIDE DEF n
<1>4. QED
  BY <1>2, <1>3 DEF SpanType

In(p, s) == p[1] \in s.x..s.x + s.w - 1 /\ p[2] \in s.y..s.y + s.h - 1

\* A subrectangle is within the tile, and every pixel of it has its colour.
LEMMA SubrectColour ==
  ASSUME NEW t \in AllTiles, NEW b, NEW r \in Subrects(t, b)
  PROVE  /\ r.x \in 0..t.w - 1 /\ r.y \in 0..t.h - 1
         /\ r.w \in 1..t.w /\ r.h \in 1..t.h
         /\ r.x + r.w <= t.w /\ r.y + r.h <= t.h
         /\ r.color # b
         /\ \A p \in Area(t.w, t.h) : In(p, r) => t.at[p] = r.color
<1>1. PICK s \in Tops(t, b) :
        /\ r.x = s.x /\ r.y = s.y /\ r.w = s.w /\ r.color = s.color
        /\ r.h = Height(t, b, s)
  BY SubrectFacts
<1>2. t.w \in Nat /\ t.h \in Nat
  BY TileFacts
<1>3. s \in Spans(t, b)
  BY DEF Tops
<1>4. /\ s \in SpanType(t) /\ s.x \in 0..t.w - 1 /\ s.y \in 0..t.h - 1
      /\ s.w \in 1..t.w /\ s.x + s.w <= t.w /\ s.color # b
  BY <1>3, SpanFacts
<1>5. /\ r.h \in 1..t.h
      /\ \A k \in 0..r.h - 1 : Below(s, k) \in Spans(t, b)
  BY <1>1, <1>3, HeightFacts
<1>6. r.y + r.h <= t.h
  <2>1. r.h - 1 \in 0..r.h - 1 /\ r.h - 1 \in Int
    BY <1>2, <1>5
  <2>2. Below(s, r.h - 1).y \in 0..t.h - 1
    BY <1>5, <2>1, SpanFacts
  <2>3. Below(s, r.h - 1).y = s.y + (r.h - 1)
    BY <1>2, <1>4, <2>1, BelowFacts
  <2>4. QED
    BY <1>1, <1>2, <1>4, <1>5, <2>2, <2>3
<1>7. ASSUME NEW p \in Area(t.w, t.h), In(p, r) PROVE t.at[p] = r.color
  <2>1. p = <<p[1], p[2]>> /\ p[1] \in Int /\ p[2] \in Int
    BY <1>2 DEF Area
  <2> DEFINE k == p[2] - s.y
  <2>2. k \in 0..r.h - 1 /\ s.y + k = p[2] /\ k \in Int
    BY <1>1, <1>2, <1>4, <1>5, <1>7, <2>1 DEF In
  <2> HIDE DEF k
  <2>3. Below(s, k) \in Spans(t, b)
    BY <1>5, <2>2
  <2>4. /\ Below(s, k).x = s.x /\ Below(s, k).w = s.w
        /\ Below(s, k).y = p[2] /\ Below(s, k).color = s.color
    BY <1>2, <1>4, <2>2, BelowFacts
  <2>5. p[1] \in s.x..s.x + s.w - 1
    BY <1>1, <1>7 DEF In
  <2>6. t.at[<<p[1], p[2]>>] = s.color
    BY <2>3, <2>4, <2>5, SpanFacts
  <2>7. QED
    BY <1>1, <2>1, <2>6
<1>8. QED
  BY <1>1, <1>4, <1>5, <1>6, <1>7

\* Every span is part of a subrectangle.
LEMMA SpanInSubrect ==
  ASSUME NEW t \in AllTiles, NEW b, NEW s \in Spans(t, b)
  PROVE  \E r \in Subrects(t, b) :
           /\ r.x = s.x /\ r.w = s.w
           /\ s.y \in r.y..r.y + r.h - 1
<1>a. /\ \A m \in Int : /\ Below(s, m).x = s.x /\ Below(s, m).w = s.w
                          /\ Below(s, m).y = s.y + m
                          /\ \A n \in Int : Below(Below(s, m), n) = Below(s, m + n)
      /\ Below(s, 0) = s
  BY SpanFacts, TileFacts, BelowFacts
<1> DEFINE S == Spans(t, b)
           T == {j \in 0..s.y : \A k \in 0..j : Below(s, 0 - k) \in S}
<1>1. /\ s \in SpanType(t) /\ s.y \in 0..t.h - 1 /\ t.h \in Nat
      /\ s.y \in Nat
  BY SpanFacts, TileFacts
<1>2. 0 \in T
  <2> HIDE DEF S
  <2>1. ASSUME NEW k \in 0..0 PROVE Below(s, 0 - k) \in S
    <3> HIDE DEF T
    <3>1. k = 0
      OBVIOUS
    <3>2. 0 - k = 0
      BY <3>1
    <3>3. QED
      BY <1>a, <3>2 DEF S
  <2> HIDE DEF S
  <2>2. QED
    BY <1>1, <2>1
<1>3. PICK j \in T : \A k \in T : j >= k
  <2>1. T \in SUBSET (0..s.y)
    OBVIOUS
  <2> HIDE DEF T
  <2>2. QED
    BY <1>1, <1>2, <2>1, GreatestOne
<1>4. j \in 0..s.y /\ \A k \in 0..j : Below(s, 0 - k) \in S
  BY <1>3
<1> DEFINE u == Below(s, 0 - j)
<1>5. u \in S
  BY <1>4
<1>6. /\ u.x = s.x /\ u.w = s.w /\ u.y = s.y - j
      /\ \A n \in Int : Below(u, n) = Below(s, 0 - j + n)
  <2>1. 0 - j \in Int /\ s.y + (0 - j) = s.y - j
    BY <1>1, <1>4
  <2> HIDE DEF S, T
  <2>2. QED
    BY <1>1, <1>a, <2>1
<1>7. Below(u, -1) \notin S
  <2> SUFFICES ASSUME Below(u, -1) \in S PROVE FALSE
    OBVIOUS
  <2>1. Below(u, -1) = Below(s, 0 - (j + 1))
    <3>1. 0 - j + (-1) = 0 - (j + 1)
      BY <1>1, <1>4
    <3>2. QED
      BY <1>6, <3>1
  <2>2. Below(s, 0 - (j + 1)).y = s.y - (j + 1)
    <3>1. 0 - (j + 1) \in Int /\ s.y + (0 - (j + 1)) = s.y - (j + 1)
      BY <1>1, <1>4
    <3>2. QED
      BY <1>1, <1>a, <3>1
  <2>3. s.y - (j + 1) \in 0..t.h - 1
    BY <2>1, <2>2, SpanFacts
  <2>4. j + 1 \in 0..s.y
    BY <1>1, <1>4, <2>3
  <2>5. \A k \in 0..j + 1 : Below(s, 0 - k) \in S
    <3> SUFFICES ASSUME NEW k \in 0..j + 1 PROVE Below(s, 0 - k) \in S
      OBVIOUS
    <3>1. k = j + 1 \/ k \in 0..j
      BY <1>1, <1>4
    <3>2. QED
      BY <1>4, <2>1, <3>1
  <2>6. j + 1 \in T
    BY <2>4, <2>5
  <2> HIDE DEF T
  <2>7. j >= j + 1
    BY <1>3, <2>6
  <2>8. QED
    BY <1>1, <1>4, <2>7
<1>8. u \in Tops(t, b)
  BY <1>5, <1>7 DEF Tops
<1>9. j + 1 <= Height(t, b, u)
  <2>1. j + 1 \in 1..t.h
    BY <1>1, <1>4
  <2>2. ASSUME NEW k \in 0..j + 1 - 1 PROVE Below(u, k) \in S
    <3>1. j - k \in 0..j /\ 0 - j + k = 0 - (j - k) /\ k \in Int
      BY <1>1, <1>4
    <3>2. Below(u, k) = Below(s, 0 - (j - k))
      BY <1>6, <3>1
    <3>3. QED
      BY <1>4, <3>1, <3>2
  <2>3. QED
    BY <1>5, <2>1, <2>2, HeightFacts
<1>10. Height(t, b, u) \in 1..t.h
  BY <1>5, HeightFacts
<1> HIDE DEF u
<1> DEFINE n == Height(t, b, u)
           r == [u EXCEPT !.h = n]
<1>11. r \in Subrects(t, b)
  BY <1>8, SubrectsAre
<1>12. u \in SpanType(t)
  BY <1>5, SpanFacts
<1> HIDE DEF n
<1>13. r.x = u.x /\ r.w = u.w /\ r.y = u.y /\ r.h = n
  BY <1>12 DEF SpanType
<1> HIDE DEF r
<1>14. s.y \in u.y..u.y + n - 1
  <2>1. u.y = s.y - j /\ j + 1 <= n /\ n \in Int
    BY <1>1, <1>6, <1>9, <1>10 DEF n
  <2>2. QED
    BY <1>1, <1>4, <2>1
<1>15. QED
  BY <1>6, <1>11, <1>13, <1>14
-----------------------------------------------------------------------------
(* What is sent of a tile, and what the decoder makes of it. *)

CodeFor(t, b, pb, pf) ==
  IF RawBetter(t, Coded(t, b, pb, pf)) THEN Raw(t) ELSE Coded(t, b, pb, pf)

LEMMA CodeFields ==
  ASSUME NEW t, NEW b, NEW pb, NEW pf
  PROVE  /\ Raw(t).raw /\ Raw(t).pixels = t.at
         /\ Raw(t).bg = {} /\ Raw(t).fg = {}
         /\ ~Coded(t, b, pb, pf).raw
         /\ Coded(t, b, pb, pf).bg = {b} \ pb
         /\ Coded(t, b, pb, pf).fg = Foreground(t, b) \ pf
         /\ Coded(t, b, pb, pf).coloured = Coloured(t)
         /\ Coded(t, b, pb, pf).subrects = Subrects(t, b)
BY DEF Raw, Coded

LEMMA Numbers ==
  ASSUME NEW t \in AllTiles
  PROVE  /\ IsFiniteSet(Area(t.w, t.h))
         /\ Cardinality(Area(t.w, t.h)) = t.w * t.h
         /\ IsFiniteSet(ColoursOf(t))
<1>1. t.w \in Nat \ {0} /\ t.h \in Nat \ {0} /\ t.at \in [Area(t.w, t.h) -> Colours]
  BY TileFacts
<1>2. /\ IsFiniteSet(0..t.w - 1) /\ Cardinality(0..t.w - 1) = t.w
      /\ IsFiniteSet(0..t.h - 1) /\ Cardinality(0..t.h - 1) = t.h
  <2>1. /\ 0 \in Int /\ t.w - 1 \in Int /\ t.h - 1 \in Int
        /\ t.w - 1 - 0 + 1 = t.w /\ t.h - 1 - 0 + 1 = t.h
        /\ ~(0 > t.w - 1) /\ ~(0 > t.h - 1)
    BY <1>1
  <2>2. QED
    BY <2>1, FS_Interval
<1>3. IsFiniteSet(Area(t.w, t.h)) /\ Cardinality(Area(t.w, t.h)) = t.w * t.h
  <2> DEFINE X == 0..t.w - 1
             Y == 0..t.h - 1
  <2> HIDE DEF X, Y
  <2>1. IsFiniteSet(X) /\ IsFiniteSet(Y) /\ Cardinality(X) = t.w /\ Cardinality(Y) = t.h
    BY <1>2 DEF X, Y
  <2>2. IsFiniteSet(X \X Y) /\ Cardinality(X \X Y) = t.w * t.h
    BY <2>1, FS_Product
  <2>3. QED
    BY <2>2 DEF Area, X, Y
<1>4. t.at \in Surjection(Area(t.w, t.h), ColoursOf(t))
  BY <1>1 DEF Surjection, ColoursOf
<1>5. IsFiniteSet(ColoursOf(t))
  BY <1>3, <1>4, FS_Surjection
<1>6. QED
  BY <1>3, <1>5

LEMMA AtMostOne ==
  ASSUME NEW S, IsFiniteSet(S), NEW b \in S, ~(Cardinality(S) > 2)
  PROVE  \E c : S \ {b} \subseteq {c}
<1>1. /\ IsFiniteSet(S \ {b}) /\ Cardinality(S) \in Nat
      /\ Cardinality(S \ {b}) = Cardinality(S) - 1
  BY FS_RemoveElement, FS_CardinalityType
<1>2. Cardinality(S \ {b}) \in Nat
  BY <1>1, FS_CardinalityType
<1>3. Cardinality(S \ {b}) = 0 \/ Cardinality(S \ {b}) = 1
  BY <1>1, <1>2
<1>4. CASE Cardinality(S \ {b}) = 0
  BY <1>1, <1>4, FS_EmptySet
<1>5. CASE Cardinality(S \ {b}) = 1
  BY <1>1, <1>5, FS_Singleton
<1>6. QED
  BY <1>3, <1>4, <1>5

LEMMA ForegroundIsOne ==
  ASSUME NEW t \in AllTiles, NEW b \in ColoursOf(t)
  PROVE  \E c : Foreground(t, b) \subseteq {c}
<1>1. CASE Coloured(t)
  BY <1>1 DEF Foreground
<1>2. CASE ~Coloured(t)
  <2>1. \E c : ColoursOf(t) \ {b} \subseteq {c}
    BY <1>2, Numbers, AtMostOne DEF Coloured
  <2>2. QED
    BY <1>2, <2>1 DEF Foreground
<1>3. QED
  BY <1>1, <1>2

\* Where the decoder has the background and, of a tile that carries no colours
\* of its own, the foreground, it shows the tile.
LEMMA DecodedRight ==
  ASSUME NEW t \in AllTiles, NEW b \in ColoursOf(t), NEW pb, NEW pf, NEW f,
         Foreground(t, b) \subseteq {f}
  PROVE  Decoded(t, Coded(t, b, pb, pf), b, f) = t.at
<1> DEFINE code == Coded(t, b, pb, pf)
           Over(p) == {s \in code.subrects : /\ p[1] \in s.x..s.x + s.w - 1
                                             /\ p[2] \in s.y..s.y + s.h - 1}
<1>a. ~code.raw /\ code.coloured = Coloured(t) /\ code.subrects = Subrects(t, b)
  BY CodeFields
<1>b. \A p : Over(p) = {s \in Subrects(t, b) : In(p, s)}
  BY <1>a DEF In
<1>1. t.at \in [Area(t.w, t.h) -> Colours] /\ t.w \in Nat /\ t.h \in Nat
  BY TileFacts
<1>2. Decoded(t, code, b, f) =
        [p \in Area(t.w, t.h) |->
           IF Over(p) = {} THEN b
           ELSE IF code.coloured THEN (CHOOSE s \in Over(p) : TRUE).color ELSE f]
  <2> HIDE DEF code
  <2>1. QED
    BY <1>a DEF Decoded
<1>3. ASSUME NEW p \in Area(t.w, t.h)
      PROVE  (IF Over(p) = {} THEN b
              ELSE IF code.coloured THEN (CHOOSE s \in Over(p) : TRUE).color ELSE f)
               = t.at[p]
  <2>1. CASE Over(p) = {}
    <3> SUFFICES ASSUME t.at[p] # b PROVE FALSE
      BY <2>1
    <3>1. p = <<p[1], p[2]>> /\ p[1] \in 0..t.w - 1 /\ p[2] \in 0..t.h - 1
      BY DEF Area
    <3>2. t.at[<<p[1], p[2]>>] # b
      BY <3>1
    <3>3. PICK s \in Spans(t, b) : s.y = p[2] /\ p[1] \in s.x..s.x + s.w - 1
      BY <3>1, <3>2, PixelInSpan
    <3>4. PICK r \in Subrects(t, b) :
            r.x = s.x /\ r.w = s.w /\ s.y \in r.y..r.y + r.h - 1
      BY SpanInSubrect
    <3>5. r \in Over(p)
      BY <1>b, <3>3, <3>4 DEF In
    <3>6. QED
      BY <2>1, <3>5
  <2>2. CASE Over(p) # {}
    <3> DEFINE r == CHOOSE s \in Over(p) : TRUE
    <3>1. r \in Over(p)
      BY <2>2
    <3> HIDE DEF r
    <3>2. r \in Subrects(t, b) /\ In(p, r)
      BY <1>b, <3>1
    <3>3. t.at[p] = r.color /\ r.color # b
      BY <3>2, SubrectColour
    <3>4. ~Coloured(t) => r.color = f
      <4>1. t.at[p] \in ColoursOf(t)
        BY <1>1 DEF ColoursOf
      <4>2. QED
        BY <3>3, <4>1 DEF Foreground
    <3>5. QED
      BY <1>a, <2>2, <3>3, <3>4 DEF r
  <2>3. QED
    BY <2>1, <2>2
<1>4. Decoded(t, code, b, f) = [p \in Area(t.w, t.h) |-> t.at[p]]
  BY <1>2, <1>3
<1>5. QED
  BY <1>1, <1>4

\* A colour that is left out is the one the decoder has.
LEMMA NothingTold ==
  ASSUME NEW prev, NEW old, NEW initial, NEW first \in BOOLEAN,
         prev \subseteq {old}, first => prev = {}
  PROVE  Remember(prev, {}) \subseteq {Received({}, first, initial, old)}
BY DEF Received, Remember

LEMMA SubrectsFinite ==
  ASSUME NEW t \in AllTiles, NEW b
  PROVE  IsFiniteSet(Subrects(t, b))
<1> DEFINE S == Subrects(t, b)
           A == Area(t.w, t.h)
           B == (1..t.w) \X (1..t.h)
           place == [r \in S |-> <<<<r.x, r.y>>, <<r.w, r.h>>>>]
<1>1. t.w \in Nat /\ t.h \in Nat
  BY TileFacts
<1>2. IsFiniteSet(A \X B)
  <2>1. IsFiniteSet(1..t.w) /\ IsFiniteSet(1..t.h)
    <3>1. 1 \in Int /\ t.w \in Int /\ t.h \in Int
      BY <1>1
    <3>2. QED
      BY <3>1, FS_Interval
  <2>2. IsFiniteSet(B)
    BY <2>1, FS_Product
  <2>3. IsFiniteSet(A)
    BY Numbers
  <2> HIDE DEF A, B
  <2>4. QED
    BY <2>2, <2>3, FS_Product
<1>3. ASSUME NEW r \in S PROVE place[r] \in A \X B
  <2>1. /\ r.x \in 0..t.w - 1 /\ r.y \in 0..t.h - 1
        /\ r.w \in 1..t.w /\ r.h \in 1..t.h
    BY SubrectColour
  <2>2. <<r.x, r.y>> \in A /\ <<r.w, r.h>> \in B
    BY <2>1 DEF Area
  <2>3. QED
    BY <2>2
<1>4. ASSUME NEW r \in S, NEW q \in S, place[r] = place[q] PROVE r = q
  <2>1. r.x = q.x /\ r.y = q.y /\ r.w = q.w /\ r.h = q.h
    BY <1>4
  <2>2. <<r.x, r.y>> \in A /\ In(<<r.x, r.y>>, r) /\ In(<<r.x, r.y>>, q)
    <3>1. /\ r.x \in 0..t.w - 1 /\ r.y \in 0..t.h - 1
          /\ r.w \in 1..t.w /\ r.h \in 1..t.h
      BY SubrectColour
    <3>2. r.x \in r.x..r.x + r.w - 1 /\ r.y \in r.y..r.y + r.h - 1
      BY <1>1, <3>1
    <3>3. QED
      BY <2>1, <3>1, <3>2 DEF In, Area
  <2>3. r.color = q.color
    BY <2>2, SubrectColour
  <2>4. /\ r = [x |-> r.x, y |-> r.y, w |-> r.w, h |-> r.h, color |-> r.color]
        /\ q = [x |-> q.x, y |-> q.y, w |-> q.w, h |-> q.h, color |-> q.color]
    BY SubrectShape
  <2>5. QED
    BY <2>1, <2>3, <2>4
<1>5. place \in Injection(S, A \X B)
  <2> HIDE DEF S, A, B
  <2>1. place \in [S -> A \X B]
    BY <1>3
  <2>2. QED
    BY <1>4, <2>1 DEF Injection, IsInjective
<1>6. QED
  <2> HIDE DEF S, A, B, place
  <2>1. IsFiniteSet(S)
    BY <1>2, <1>5, FS_Injection
  <2>2. QED
    BY <2>1 DEF S

\* No more bytes than raw: what would take as many is sent raw, and a tile of
\* one colour takes a byte and at most one pixel.
LEMMA BytesFit ==
  ASSUME NEW t \in AllTiles, NEW b \in ColoursOf(t), NEW pb, NEW pf
  PROVE  Bytes(CodeFor(t, b, pb, pf)) <= 1 + PixelBytes * t.w * t.h
<1> DEFINE coded == Coded(t, b, pb, pf)
           area == t.w * t.h
<1>1. t.w \in Nat \ {0} /\ t.h \in Nat \ {0} /\ PixelBytes \in Nat \ {0}
  BY TileFacts, HextileAssumption
<1>2. area \in Nat \ {0}
  BY <1>1
<1>3. PixelBytes * t.w * t.h = PixelBytes * area /\ PixelBytes * area \in Nat
      /\ t.w * t.h * PixelBytes = PixelBytes * area
  BY <1>1
<1>4. CASE RawBetter(t, coded)
  <2>1. CodeFor(t, b, pb, pf) = Raw(t)
    BY <1>4 DEF CodeFor
  <2>2. Bytes(Raw(t)) = 1 + PixelBytes * Cardinality(DOMAIN t.at)
    BY CodeFields DEF Bytes
  <2>3. Cardinality(DOMAIN t.at) = area
    BY TileFacts, Numbers
  <2>4. QED
    BY <1>1, <1>3, <2>1, <2>2, <2>3
<1>5. CASE ~RawBetter(t, coded)
  <2>1. CodeFor(t, b, pb, pf) = coded
    BY <1>5 DEF CodeFor
  <2> DEFINE nb == Cardinality({b} \ pb)
             nf == Cardinality(Foreground(t, b) \ pf)
             ns == Cardinality(Subrects(t, b))
  <2>2. Bytes(coded) =
          1 + PixelBytes * (nb + nf) + (IF Subrects(t, b) = {} THEN 0 ELSE 1)
            + ns * (IF Coloured(t) THEN 2 + PixelBytes ELSE 2)
    <3>1. /\ ~coded.raw /\ coded.bg = {b} \ pb /\ coded.fg = Foreground(t, b) \ pf
          /\ coded.coloured = Coloured(t) /\ coded.subrects = Subrects(t, b)
      BY CodeFields
    <3> HIDE DEF coded
    <3>2. QED
      BY <3>1 DEF Bytes
  <2>3. nb \in 0..1
    <3>1. IsFiniteSet({b}) /\ Cardinality({b}) = 1 /\ {b} \ pb \in SUBSET {b}
      BY FS_Singleton
    <3>2. Cardinality({b} \ pb) <= 1 /\ Cardinality({b} \ pb) \in Nat
      BY <3>1, FS_Subset, FS_CardinalityType
    <3>3. QED
      BY <3>2
  <2>4. nf \in Nat
    <3>1. Foreground(t, b) \ pf \in SUBSET ColoursOf(t)
      BY DEF Foreground
    <3>2. QED
      BY <3>1, Numbers, FS_Subset, FS_CardinalityType
  <2>5. ns \in Nat
    BY SubrectsFinite, FS_CardinalityType
  <2>6. CASE Cardinality(ColoursOf(t)) > 1
    <3>1. ~(Bytes(coded) >= t.w * t.h * PixelBytes)
      BY <1>5, <2>6 DEF RawBetter
    <3>2. Bytes(coded) \in Int
      <4> HIDE DEF nb, nf, ns
      <4>1. PixelBytes * (nb + nf) \in Int
        BY <1>1, <2>3, <2>4
      <4>2. ns * (IF Coloured(t) THEN 2 + PixelBytes ELSE 2) \in Int
        BY <1>1, <2>5
      <4>3. QED
        BY <2>2, <4>1, <4>2
    <3> HIDE DEF coded, area
    <3>3. QED
      BY <1>3, <2>1, <3>1, <3>2
  <2>7. CASE ~(Cardinality(ColoursOf(t)) > 1)
    <3>1. ColoursOf(t) \ {b} = {}
      <4>1. Cardinality(ColoursOf(t)) \in Nat
        BY Numbers, FS_CardinalityType
      <4>2. /\ IsFiniteSet(ColoursOf(t) \ {b})
            /\ Cardinality(ColoursOf(t) \ {b}) = Cardinality(ColoursOf(t)) - 1
        BY Numbers, FS_RemoveElement
      <4>3. Cardinality(ColoursOf(t) \ {b}) \in Nat
        BY <4>2, FS_CardinalityType
      <4>4. Cardinality(ColoursOf(t) \ {b}) = 0
        BY <2>7, <4>1, <4>2, <4>3
      <4>5. QED
        BY <4>2, <4>4, FS_EmptySet
    <3>2. nf = 0
      <4>1. Foreground(t, b) \ pf = {}
        BY <3>1 DEF Foreground
      <4>2. QED
        BY <4>1, FS_EmptySet
    <3>3. Subrects(t, b) = {}
      <4> SUFFICES ASSUME NEW r \in Subrects(t, b) PROVE FALSE
        OBVIOUS
      <4>1. r.color \in ColoursOf(t) /\ r.color # b
        BY SubrectColour, SubrectShape
      <4>2. QED
        BY <3>1, <4>1
    <3>4. ns = 0
      BY <3>3, FS_EmptySet
    <3> HIDE DEF nb, nf, ns, coded, area
    <3>5. Bytes(coded) = 1 + PixelBytes * nb
      BY <1>1, <2>2, <2>3, <3>2, <3>3, <3>4
    <3>6. PixelBytes * nb <= PixelBytes * 1 /\ PixelBytes * 1 <= PixelBytes * area
      BY <1>1, <1>2, <2>3
    <3>7. PixelBytes * nb \in Int
      BY <1>1, <2>3
    <3>8. QED
      BY <1>1, <1>3, <2>1, <3>5, <3>6, <3>7
  <2>8. QED
    BY <2>6, <2>7
<1>6. QED
  BY <1>4, <1>5

\* One more tile is encoded: the decoder will show it, and has then the colours
\* that the encoder takes it to have.
LEMMA EncodedRight ==
  ASSUME NEW t \in AllTiles, NEW b \in ColoursOf(t), NEW first \in BOOLEAN,
         NEW pb, NEW pf, NEW oldB \in Colours, NEW oldF \in Colours,
         pb \subseteq {oldB}, pf \subseteq {oldF},
         first => pb = {} /\ pf = {},
         NEW code, code = CodeFor(t, b, pb, pf),
         NEW newB, newB = Received(code.bg, first, StartBg, oldB),
         NEW newF, newF = Received(code.fg, first, StartFg, oldF)
  PROVE  /\ newB \in Colours /\ newF \in Colours
         /\ Remember(pb, code.bg) \subseteq {newB}
         /\ Remember(pf, code.fg) \subseteq {newF}
         /\ Decoded(t, code, newB, newF) = t.at
<1>1. ColoursOf(t) \subseteq Colours /\ StartBg \in Colours /\ StartFg \in Colours
  BY TileFacts, HextileAssumption
<1>2. CASE RawBetter(t, Coded(t, b, pb, pf))
  <2>1. code = Raw(t)
    BY <1>2 DEF CodeFor
  <2>2. code.bg = {} /\ code.fg = {}
    <3>1. Raw(t).bg = {} /\ Raw(t).fg = {}
      BY CodeFields
    <3>2. QED
      BY <2>1, <3>1
  <2>3. newB \in Colours /\ newF \in Colours
    BY <1>1, <2>2 DEF Received
  <2>4. Remember(pb, code.bg) \subseteq {newB} /\ Remember(pf, code.fg) \subseteq {newF}
    BY <2>2, NothingTold
  <2>5. Decoded(t, code, newB, newF) = t.at
    <3>1. Decoded(t, Raw(t), newB, newF) = t.at
      BY CodeFields DEF Decoded
    <3>2. QED
      BY <2>1, <3>1
  <2>6. QED
    BY <2>3, <2>4, <2>5
<1>3. CASE ~RawBetter(t, Coded(t, b, pb, pf))
  <2>1. code = Coded(t, b, pb, pf)
    BY <1>3 DEF CodeFor
  <2>2. code.bg = {b} \ pb /\ code.fg = Foreground(t, b) \ pf
    <3>1. /\ Coded(t, b, pb, pf).bg = {b} \ pb
          /\ Coded(t, b, pb, pf).fg = Foreground(t, b) \ pf
      BY CodeFields
    <3>2. QED
      BY <2>1, <3>1
  <2>3. newB = b /\ Remember(pb, code.bg) = {b}
    <3>1. CASE b \in pb
      <4>1. code.bg = {} /\ ~first /\ b = oldB /\ pb = {b}
        BY <2>2, <3>1
      <4>2. QED
        BY <4>1 DEF Received, Remember
    <3>2. CASE b \notin pb
      <4>1. code.bg = {b}
        BY <2>2, <3>2
      <4>2. QED
        BY <4>1 DEF Received, Remember
    <3>3. QED
      BY <3>1, <3>2
  <2>4. /\ newF \in Colours /\ Foreground(t, b) \subseteq {newF}
        /\ Remember(pf, code.fg) \subseteq {newF}
    <3>1. PICK c : Foreground(t, b) \subseteq {c}
      BY ForegroundIsOne
    <3>2. CASE Foreground(t, b) = {}
      <4>1. code.fg = {}
        BY <2>2, <3>2
      <4>2. newF \in Colours
        BY <1>1, <4>1 DEF Received
      <4>3. QED
        BY <3>2, <4>1, <4>2, NothingTold
    <3>3. CASE Foreground(t, b) = {c}
      <4>1. code.fg = {c} \ pf
        BY <2>2, <3>3
      <4>2. newF = c /\ Remember(pf, code.fg) = {c}
        <5>1. CASE c \in pf
          <6>1. code.fg = {} /\ ~first /\ c = oldF /\ pf = {c}
            BY <4>1, <5>1
          <6>2. QED
            BY <6>1 DEF Received, Remember
        <5>2. CASE c \notin pf
          <6>1. code.fg = {c}
            BY <4>1, <5>2
          <6>2. QED
            BY <6>1 DEF Received, Remember
        <5>3. QED
          BY <5>1, <5>2
      <4>3. c \in ColoursOf(t)
        BY <3>3 DEF Foreground
      <4>4. QED
        BY <1>1, <3>3, <4>2, <4>3
    <3>4. QED
      BY <3>1, <3>2, <3>3
  <2>5. Decoded(t, code, newB, newF) = t.at
    BY <2>1, <2>3, <2>4, DecodedRight
  <2>6. QED
    BY <1>1, <2>3, <2>4, <2>5
<1>4. QED
  BY <1>2, <1>3

-----------------------------------------------------------------------------
(* The tiles on their way. *)

\* A message is one that the encoder makes, for some colours remembered.
Encoded(m) ==
  /\ m.tile \in AllTiles /\ m.first \in BOOLEAN
  /\ \E b \in ColoursOf(m.tile) :
       \E pb, pf : m.code = CodeFor(m.tile, b, pb, pf)

\* B[i] and F[i] are the decoder's colours when it has read i messages more.
ColoursAhead(B, F) ==
  /\ B \in [0..Len(wire) -> Colours] /\ F \in [0..Len(wire) -> Colours]
  /\ B[0] = bg /\ F[0] = fg
  /\ \A i \in 1..Len(wire) :
       /\ B[i] = Received(wire[i].code.bg, wire[i].first, StartBg, B[i - 1])
       /\ F[i] = Received(wire[i].code.fg, wire[i].first, StartFg, F[i - 1])
       /\ Decoded(wire[i].tile, wire[i].code, B[i], F[i]) = wire[i].tile.at
  /\ prev_bg \subseteq {B[Len(wire)]} /\ prev_fg \subseteq {F[Len(wire)]}

HextileInv ==
  /\ \E S : wire \in Seq(S)
  /\ \A i \in 1..Len(wire) : Encoded(wire[i])
  /\ \E B, F : ColoursAhead(B, F)

LEMMA HextileStart == HextileInit => HextileInv
<1> SUFFICES ASSUME HextileInit PROVE HextileInv
  OBVIOUS
<1> DEFINE B == [i \in 0..0 |-> StartBg]
           F == [i \in 0..0 |-> StartFg]
<1>1. wire = <<>> /\ Len(wire) = 0 /\ wire \in Seq({})
  BY DEF HextileInit
<1>2. ColoursAhead(B, F)
  BY <1>1, HextileAssumption DEF HextileInit, ColoursAhead
<1>3. QED
  BY <1>1, <1>2 DEF HextileInv

LEMMA EncodeKeeps ==
  ASSUME HextileInv, NEW t \in AllTiles, NEW first \in BOOLEAN, EncodeTile(t, first)
  PROVE  HextileInv'
<1> DEFINE pb == AtStart(prev_bg, first)
           pf == AtStart(prev_fg, first)
           n == Len(wire)
<1>1. PICK b \in Backgrounds(t) :
        /\ wire' = Append(wire, [code |-> CodeFor(t, b, pb, pf), first |-> first,
                                 tile |-> t])
        /\ prev_bg' = Remember(pb, CodeFor(t, b, pb, pf).bg)
        /\ prev_fg' = Remember(pf, CodeFor(t, b, pb, pf).fg)
  BY DEF EncodeTile, CodeFor
<1>2. b \in ColoursOf(t) /\ bg' = bg /\ fg' = fg
  BY DEF Backgrounds, EncodeTile, decoderVars
<1>3. PICK S : wire \in Seq(S)
  BY DEF HextileInv
<1>4. PICK B, F : ColoursAhead(B, F)
  BY DEF HextileInv
<1>5. n \in Nat
  BY <1>3
<1>6. /\ B \in [0..n -> Colours] /\ F \in [0..n -> Colours]
      /\ B[n] \in Colours /\ F[n] \in Colours
      /\ prev_bg \subseteq {B[n]} /\ prev_fg \subseteq {F[n]}
  BY <1>4, <1>5 DEF ColoursAhead
<1>7. /\ pb \subseteq {B[n]} /\ pf \subseteq {F[n]}
      /\ first => pb = {} /\ pf = {}
  BY <1>6 DEF AtStart
<1> DEFINE code == CodeFor(t, b, pb, pf)
           m == [code |-> code, first |-> first, tile |-> t]
           newB == Received(code.bg, first, StartBg, B[n])
           newF == Received(code.fg, first, StartFg, F[n])
<1>8. /\ newB \in Colours /\ newF \in Colours
      /\ Remember(pb, code.bg) \subseteq {newB}
      /\ Remember(pf, code.fg) \subseteq {newF}
      /\ Decoded(t, code, newB, newF) = t.at
  <2> HIDE DEF pb, pf, code, newB, newF
  <2>1. code = CodeFor(t, b, pb, pf) /\ newB = Received(code.bg, first, StartBg, B[n])
        /\ newF = Received(code.fg, first, StartFg, F[n])
    BY DEF code, newB, newF
  <2>2. QED
    BY <1>2, <1>6, <1>7, <2>1, EncodedRight
<1>9. Encoded(m)
  BY <1>2 DEF Encoded
<1>10. m.code = code /\ m.first = first /\ m.tile = t
  OBVIOUS
<1> HIDE DEF code, m, pb, pf
<1>11. /\ wire' = Append(wire, m) /\ wire' \in Seq(S \cup {m})
       /\ Len(wire') = n + 1 /\ wire'[n + 1] = m
       /\ \A i \in 1..n : wire'[i] = wire[i]
  <2>1. wire' = Append(wire, m)
    BY <1>1 DEF m, code
  <2>2. wire \in Seq(S \cup {m}) /\ m \in S \cup {m}
    BY <1>3
  <2>3. QED
    BY <2>1, <2>2
<1>12. \A i \in 1..Len(wire') : Encoded(wire'[i])
  <2> SUFFICES ASSUME NEW i \in 1..n + 1 PROVE Encoded(wire'[i])
    BY <1>11
  <2>1. i \in 1..n \/ i = n + 1
    BY <1>5
  <2>2. \A j \in 1..n : Encoded(wire[j])
    BY DEF HextileInv
  <2>3. QED
    BY <1>9, <1>11, <2>1, <2>2
<1>b. PICK B1, F1 :
        /\ B1 = [i \in 0..n + 1 |-> IF i = n + 1 THEN newB ELSE B[i]]
        /\ F1 = [i \in 0..n + 1 |-> IF i = n + 1 THEN newF ELSE F[i]]
  OBVIOUS
<1>13. ColoursAhead(B1, F1)'
  <2> HIDE DEF newB, newF
  <2>1. B1 \in [0..n + 1 -> Colours] /\ F1 \in [0..n + 1 -> Colours]
    BY <1>5, <1>6, <1>8, <1>b
  <2>2. B1[n + 1] = newB /\ F1[n + 1] = newF
    BY <1>5, <1>b
  <2>3. \A i \in 0..n : B1[i] = B[i] /\ F1[i] = F[i]
    BY <1>5, <1>b
  <2>4. B1[0] = bg' /\ F1[0] = fg'
    BY <1>2, <1>4, <1>5, <2>3 DEF ColoursAhead
  <2>5. ASSUME NEW i \in 1..n + 1
        PROVE  /\ B1[i] = Received(wire'[i].code.bg, wire'[i].first, StartBg, B1[i - 1])
               /\ F1[i] = Received(wire'[i].code.fg, wire'[i].first, StartFg, F1[i - 1])
               /\ Decoded(wire'[i].tile, wire'[i].code, B1[i], F1[i]) = wire'[i].tile.at
    <3>1. CASE i = n + 1
      <4>1. i - 1 = n /\ n \in 0..n
        BY <1>5, <3>1
      <4>2. QED
        BY <1>8, <1>10, <1>11, <2>2, <2>3, <3>1, <4>1 DEF newB, newF
    <3>2. CASE i \in 1..n
      <4>1. i \in 0..n /\ i - 1 \in 0..n
        BY <1>5, <3>2
      <4>2. QED
        BY <1>4, <1>11, <2>3, <3>2, <4>1 DEF ColoursAhead
    <3>3. QED
      BY <1>5, <3>1, <3>2
  <2>6. prev_bg' \subseteq {B1[n + 1]} /\ prev_fg' \subseteq {F1[n + 1]}
    BY <1>1, <1>8, <2>2 DEF code
  <2>7. Len(wire') = n + 1
    BY <1>11
  <2> HIDE DEF n
  <2>8. QED
    BY <2>1, <2>4, <2>5, <2>6, <2>7 DEF ColoursAhead
<1>14. QED
  BY <1>11, <1>12, <1>13 DEF HextileInv

LEMMA DecodeKeeps ==
  ASSUME HextileInv, DecodeTile
  PROVE  HextileInv'
<1> DEFINE n == Len(wire)
<1>1. PICK S : wire \in Seq(S)
  BY DEF HextileInv
<1>2. PICK B, F : ColoursAhead(B, F)
  BY DEF HextileInv
<1>3. /\ wire # <<>> /\ wire' = Tail(wire) /\ Head(wire) = wire[1]
      /\ prev_bg' = prev_bg /\ prev_fg' = prev_fg
      /\ bg' = Received(wire[1].code.bg, wire[1].first, StartBg, bg)
      /\ fg' = Received(wire[1].code.fg, wire[1].first, StartFg, fg)
  BY <1>1 DEF DecodeTile, BgFor, FgFor, encoderVars
<1>4. /\ n \in Nat \ {0} /\ wire' \in Seq(S) /\ Len(wire') = n - 1
      /\ \A i \in 1..n - 1 : wire'[i] = wire[i + 1]
  BY <1>1, <1>3
<1>5. \A i \in 1..Len(wire') : Encoded(wire'[i])
  <2> SUFFICES ASSUME NEW i \in 1..n - 1 PROVE Encoded(wire'[i])
    BY <1>4
  <2>1. i + 1 \in 1..n
    BY <1>4
  <2>2. QED
    BY <1>4, <2>1 DEF HextileInv
<1>6. PICK B1, F1 : /\ B1 = [i \in 0..n - 1 |-> B[i + 1]]
                    /\ F1 = [i \in 0..n - 1 |-> F[i + 1]]
  OBVIOUS
<1>7. ColoursAhead(B1, F1)'
  <2> HIDE DEF n
  <2>1. /\ B \in [0..n -> Colours] /\ F \in [0..n -> Colours]
        /\ B[0] = bg /\ F[0] = fg
        /\ \A i \in 1..n :
             /\ B[i] = Received(wire[i].code.bg, wire[i].first, StartBg, B[i - 1])
             /\ F[i] = Received(wire[i].code.fg, wire[i].first, StartFg, F[i - 1])
             /\ Decoded(wire[i].tile, wire[i].code, B[i], F[i]) = wire[i].tile.at
        /\ prev_bg \subseteq {B[n]} /\ prev_fg \subseteq {F[n]}
    BY <1>2 DEF ColoursAhead, n
  <2>2. \A i \in 0..n - 1 : i + 1 \in 0..n
    BY <1>4
  <2>3. B1 \in [0..n - 1 -> Colours] /\ F1 \in [0..n - 1 -> Colours]
    BY <1>6, <2>1, <2>2
  <2>4. \A i \in 0..n - 1 : B1[i] = B[i + 1] /\ F1[i] = F[i + 1]
    BY <1>6
  <2>5. B1[0] = bg' /\ F1[0] = fg'
    <3>1. 0 \in 0..n - 1 /\ 0 + 1 = 1 /\ 1 \in 1..n /\ 1 - 1 = 0
      BY <1>4
    <3>2. QED
      BY <1>3, <2>1, <2>4, <3>1
  <2>6. ASSUME NEW i \in 1..n - 1
        PROVE  /\ B1[i] = Received(wire'[i].code.bg, wire'[i].first, StartBg, B1[i - 1])
               /\ F1[i] = Received(wire'[i].code.fg, wire'[i].first, StartFg, F1[i - 1])
               /\ Decoded(wire'[i].tile, wire'[i].code, B1[i], F1[i]) = wire'[i].tile.at
    <3>1. /\ i \in 0..n - 1 /\ i - 1 \in 0..n - 1 /\ i - 1 + 1 = i
          /\ i + 1 \in 1..n /\ i + 1 - 1 = i
      BY <1>4
    <3>2. B1[i] = B[i + 1] /\ F1[i] = F[i + 1] /\ B1[i - 1] = B[i] /\ F1[i - 1] = F[i]
      BY <2>4, <3>1
    <3>3. wire'[i] = wire[i + 1]
      BY <1>4
    <3>4. QED
      BY <2>1, <3>1, <3>2, <3>3
  <2>7. prev_bg' \subseteq {B1[n - 1]} /\ prev_fg' \subseteq {F1[n - 1]}
    <3>1. n - 1 \in 0..n - 1 /\ n - 1 + 1 = n
      BY <1>4
    <3>2. QED
      BY <1>3, <2>1, <2>4, <3>1
  <2>8. Len(wire') = n - 1
    BY <1>4
  <2>9. QED
    BY <2>3, <2>5, <2>6, <2>7, <2>8 DEF ColoursAhead
<1>8. QED
  BY <1>4, <1>5, <1>7 DEF HextileInv

LEMMA HextileStep == HextileInv /\ [HextileNext]_hextileVars => HextileInv'
<1> SUFFICES ASSUME HextileInv, [HextileNext]_hextileVars PROVE HextileInv'
  OBVIOUS
<1>1. CASE DecodeTile
  BY <1>1, DecodeKeeps
<1>2. ASSUME NEW t \in AllTiles, NEW first \in BOOLEAN, EncodeTile(t, first)
      PROVE  HextileInv'
  BY <1>2, EncodeKeeps
<1>3. CASE UNCHANGED hextileVars
  <2>1. /\ wire' = wire /\ bg' = bg /\ fg' = fg
        /\ prev_bg' = prev_bg /\ prev_fg' = prev_fg
    BY <1>3 DEF hextileVars, encoderVars, decoderVars
  <2>2. \A B, F : ColoursAhead(B, F) => ColoursAhead(B, F)'
    BY <2>1 DEF ColoursAhead
  <2>3. QED
    BY <2>1, <2>2 DEF HextileInv
<1>4. QED
  BY <1>1, <1>2, <1>3 DEF HextileNext

LEMMA InvShows == HextileInv => ShownAsDrawn
<1> SUFFICES ASSUME HextileInv, wire # <<>>
             PROVE  Decoded(Head(wire).tile, Head(wire).code, BgFor(Head(wire)),
                            FgFor(Head(wire))) = Head(wire).tile.at
  BY DEF ShownAsDrawn
<1>1. PICK S : wire \in Seq(S)
  BY DEF HextileInv
<1>2. PICK B, F : ColoursAhead(B, F)
  BY DEF HextileInv
<1>3. Len(wire) \in Nat \ {0} /\ Head(wire) = wire[1] /\ 1 \in 1..Len(wire) /\ 1 - 1 = 0
  BY <1>1
<1>4. B[1] = BgFor(wire[1]) /\ F[1] = FgFor(wire[1])
  BY <1>2, <1>3 DEF ColoursAhead, BgFor, FgFor
<1>5. QED
  BY <1>2, <1>3, <1>4 DEF ColoursAhead

LEMMA InvFits == HextileInv => FitsReserved
<1> SUFFICES ASSUME HextileInv, NEW i \in DOMAIN wire
             PROVE  Bytes(wire[i].code) <=
                      1 + PixelBytes * wire[i].tile.w * wire[i].tile.h
  BY DEF FitsReserved
<1>1. PICK S : wire \in Seq(S)
  BY DEF HextileInv
<1>2. i \in 1..Len(wire)
  BY <1>1
<1>3. QED
  BY <1>2, BytesFit DEF HextileInv, Encoded

LEMMA InvTypes == HextileInv => HextileTypeOK
<1> SUFFICES ASSUME HextileInv PROVE HextileTypeOK
  OBVIOUS
<1>1. PICK S : wire \in Seq(S)
  BY DEF HextileInv
<1>2. PICK B, F : ColoursAhead(B, F)
  BY DEF HextileInv
<1>3. Len(wire) \in Nat /\ DOMAIN wire = 1..Len(wire)
  BY <1>1
<1>4. /\ bg \in Colours /\ fg \in Colours
      /\ B[Len(wire)] \in Colours /\ F[Len(wire)] \in Colours
  BY <1>2, <1>3 DEF ColoursAhead
<1>5. ASSUME NEW s, NEW c \in Colours, s \subseteq {c}
      PROVE  s \subseteq Colours /\ Cardinality(s) <= 1
  <2>1. s = {} \/ s = {c}
    BY <1>5
  <2>2. Cardinality(s) = 0 \/ Cardinality(s) = 1
    BY <2>1, FS_EmptySet, FS_Singleton
  <2>3. QED
    BY <1>5, <2>2
<1>6. /\ prev_bg \subseteq Colours /\ Cardinality(prev_bg) <= 1
      /\ prev_fg \subseteq Colours /\ Cardinality(prev_fg) <= 1
  BY <1>2, <1>4, <1>5 DEF ColoursAhead
<1>7. ASSUME NEW i \in DOMAIN wire, ~wire[i].code.raw,
             NEW s \in wire[i].code.subrects
      PROVE  /\ s.x \in 0..Side - 1 /\ s.y \in 0..Side - 1
             /\ s.x + s.w <= Side /\ s.y + s.h <= Side
  <2> DEFINE t == wire[i].tile
  <2>1. Encoded(wire[i])
    BY <1>3 DEF HextileInv
  <2>2. t \in AllTiles
    BY <2>1 DEF Encoded
  <2>a. PICK b \in ColoursOf(t) :
          \E pb, pf : wire[i].code = CodeFor(t, b, pb, pf)
    BY <2>1 DEF Encoded
  <2>3. PICK pb, pf : wire[i].code = CodeFor(t, b, pb, pf)
    BY <2>a
  <2>4. wire[i].code = Coded(t, b, pb, pf)
    <3>1. CASE wire[i].code = Raw(t)
      <4>1. Raw(t).raw
        BY CodeFields
      <4>2. QED
        BY <1>7, <3>1, <4>1
    <3>2. QED
      BY <2>3, <3>1 DEF CodeFor
  <2>5. s \in Subrects(t, b)
    <3>1. Coded(t, b, pb, pf).subrects = Subrects(t, b)
      BY CodeFields
    <3>2. QED
      BY <2>4, <3>1
  <2>6. t.w \in 1..Side /\ t.h \in 1..Side /\ Side \in Nat
    BY <2>2, TileFacts
  <2> HIDE DEF t
  <2>7. /\ s.x \in 0..t.w - 1 /\ s.y \in 0..t.h - 1
        /\ s.w \in 1..t.w /\ s.h \in 1..t.h
        /\ s.x + s.w <= t.w /\ s.y + s.h <= t.h
    BY <2>2, <2>5, SubrectColour
  <2>8. QED
    BY <2>6, <2>7
<1>8. QED
  BY <1>4, <1>6, <1>7 DEF HextileTypeOK

\* Whatever tiles are sent, in whatever rectangles, with however many of them
\* on their way, the viewer shows each as it was in the framebuffer, though
\* colours are left out that it is believed to have
\* (vnc_encode_hextile(), src/src/leanrfb_hextile.c, and decode_hextile(),
\* src/vncview/vnc_client_core.c); no tile takes more bytes than are reserved
\* for it, and the places of subrectangles fit into their bits.
THEOREM TilesAreShown == HextileSpec => [](HextileTypeOK /\ ShownAsDrawn /\ FitsReserved)
<1>1. HextileInv => HextileTypeOK /\ ShownAsDrawn /\ FitsReserved
  BY InvTypes, InvShows, InvFits
<1>2. QED
  BY <1>1, HextileStart, HextileStep, PTL DEF HextileSpec

\* The space that vnc_encode_hextile() reserves for a tile is enough, although
\* it was computed for a raw one.
THEOREM TilesFit == HextileSpec => []FitsReserved
<1>1. HextileTypeOK /\ ShownAsDrawn /\ FitsReserved => FitsReserved
  OBVIOUS
<1>2. QED
  BY <1>1, TilesAreShown, PTL
=============================================================================
