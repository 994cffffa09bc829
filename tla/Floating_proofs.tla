--------------------------- MODULE Floating_proofs ---------------------------
(***************************************************************************)
(* Proofs about the floating layer.  The invariant is that of its data,    *)
(* and of every window in it that it fits on a screen and is at rest:      *)
(* whatever changes a listed frame ends in frame_resize, and what that     *)
(* makes has both properties (Resized).  The rest is what is true of the   *)
(* functions of rectangles: of the hints, of unique_rects, of the snaps.   *)
(***************************************************************************)
EXTENDS Floating, SequenceTheorems, WellFoundedInduction, TLAPS

-----------------------------------------------------------------------------
(* The arithmetic of C.                                                    *)

LEMMA Division ==
  ASSUME NEW a \in Nat, NEW b \in Nat \ {0}
  PROVE  a \div b \in Nat /\ b * (a \div b) <= a /\ a < b * (a \div b) + b
  BY SMTT(20)

LEMMA QuotRem ==
  ASSUME NEW a \in Int, NEW b \in Nat \ {0}
  PROVE  /\ Quot(a, b) \in Int /\ Rem(a, b) \in Int
         /\ a = b * Quot(a, b) + Rem(a, b)
         /\ a >= 0 => Quot(a, b) >= 0 /\ 0 <= Rem(a, b) /\ Rem(a, b) < b /\ Rem(a, b) <= a
         /\ a < 0 => Quot(a, b) <= 0 /\ Rem(a, b) <= 0 /\ -b < Rem(a, b) /\ a <= Rem(a, b)
<1>1. CASE a >= 0
  <2>1. Quot(a, b) = a \div b
    BY <1>1 DEF Quot
  <2>2. a \in Nat
    BY <1>1
  <2> QED BY <1>1, <2>1, <2>2, Division, SMTT(20) DEF Rem
<1>2. CASE a < 0
  <2>1. Quot(a, b) = -((-a) \div b)
    BY <1>2 DEF Quot
  <2>2. -a \in Nat
    BY <1>2
  <2>3. /\ (-a) \div b \in Nat /\ b * ((-a) \div b) <= -a
        /\ -a < b * ((-a) \div b) + b
    BY <2>2, Division
  <2>4. b * (-((-a) \div b)) = -(b * ((-a) \div b))
    BY <2>3, SMTT(20)
  <2> QED BY <1>2, <2>1, <2>3, <2>4, SMTT(20) DEF Rem
<1> QED BY <1>1, <1>2

LEMMA QuotNat ==
  ASSUME NEW a \in Nat, NEW b \in Nat \ {0}
  PROVE  Quot(a, b) \in Nat /\ Rem(a, b) \in Nat
<1>1. a \in Int /\ a >= 0
  OBVIOUS
<1> QED BY <1>1, QuotRem

(* A multiple of b that is at most a, and more than a - b, is the greatest.*)
LEMMA OneMultiple ==
  ASSUME NEW b \in Nat \ {0}, NEW k \in Int, NEW m \in Int,
         b * k < b * m + b, b * m < b * k + b
  PROVE  k = m
<1>1. ASSUME k >= m + 1 PROVE FALSE
  <2>1. b * (k - m - 1) >= 0
    BY <1>1, SMTT(20)
  <2>2. b * (k - m - 1) = b * k - b * m - b
    BY SMTT(20)
  <2> QED BY <2>1, <2>2, SMTT(20)
<1>2. ASSUME m >= k + 1 PROVE FALSE
  <2>1. b * (m - k - 1) >= 0
    BY <1>2, SMTT(20)
  <2>2. b * (m - k - 1) = b * m - b * k - b
    BY SMTT(20)
  <2> QED BY <2>1, <2>2, SMTT(20)
<1> QED BY <1>1, <1>2

LEMMA Products ==
  ASSUME NEW a \in Nat, NEW b \in Nat
  PROVE  a * b \in Nat
  BY SMTT(20)
-----------------------------------------------------------------------------
(* Numbers, and functions whose values are made one after another.         *)

LEMMA NatMin ==
  ASSUME NEW S, S \subseteq Nat, S # {}
  PROVE  \E m \in S : \A k \in S : m <= k
<1> DEFINE R == OpToRel(<, Nat)
<1>1. PICK m \in S : \A k \in S : <<k, m>> \notin R
  <2>1. IsWellFoundedOn(R, Nat)
    BY NatLessThanWellFounded, Zenon
  <2> HIDE DEF R
  <2> QED BY <2>1, WFMin
<1>2. \A k \in S : ~(k < m)
  BY <1>1 DEF OpToRel
<1> QED BY <1>2

(* A set of numbers that has 0, and with each number below n the next one, *)
(* has all of them.                                                        *)
LEMMA UpTo ==
  ASSUME NEW n \in Nat, NEW G, 0 \in G,
         \A m \in 0 .. n - 1 : m \in G => m + 1 \in G
  PROVE  n \in G
<1> DEFINE bad == {m \in 0 .. n : m \notin G}
<1>1. ASSUME bad # {} PROVE FALSE
  <2>1. PICK m \in bad : \A k \in bad : m <= k
    <3>1. bad \subseteq Nat
      OBVIOUS
    <3> HIDE DEF bad
    <3> QED BY <1>1, <3>1, NatMin
  <2>2. m \in 0 .. n /\ m \notin G /\ m # 0
    OBVIOUS
  <2>3. m - 1 \in 0 .. n - 1 /\ (m - 1) + 1 = m /\ ~(m <= m - 1)
    BY <2>2
  <2>4. m - 1 \in G
    BY <2>1, <2>3
  <2> QED BY <2>2, <2>3, <2>4
<1>2. n \in 0 .. n /\ n \notin bad
  BY <1>1
<1> QED BY <1>2

LEMMA StaysIn ==
  ASSUME NEW n \in Nat, NEW S, NEW k, k[0] \in S,
         \A i \in 1 .. n : k[i - 1] \in S => k[i] \in S
  PROVE  k[n] \in S
<1> DEFINE G == {m \in 0 .. n : k[m] \in S}
<1>1. 0 \in G
  OBVIOUS
<1>2. \A m \in 0 .. n - 1 : m \in G => m + 1 \in G
  <2> TAKE m \in 0 .. n - 1
  <2>1. m + 1 \in 1 .. n /\ (m + 1) - 1 = m /\ m + 1 \in 0 .. n
    OBVIOUS
  <2>2. k[m] \in S => k[m + 1] \in S
    BY <2>1
  <2> QED BY <2>1, <2>2
<1> HIDE DEF G
<1>3. n \in G
  BY <1>1, <1>2, UpTo
<1> QED BY <1>3 DEF G

LEMMA AllIn ==
  ASSUME NEW n \in Nat, NEW S, NEW k, k[0] \in S,
         \A i \in 1 .. n : k[i - 1] \in S => k[i] \in S
  PROVE  \A i \in 0 .. n : k[i] \in S
<1> TAKE m \in 0 .. n
<1>1. m \in Nat /\ \A i \in 1 .. m : i \in 1 .. n
  OBVIOUS
<1> QED BY <1>1, StaysIn

(* A function whose value at each place is made from the one before.       *)
Iterated(n, S, first, step) ==
  \E f \in [0 .. n -> S] :
    f[0] = first /\ \A i \in 1 .. n : f[i] = step[<<f[i - 1], i>>]

LEMMA Iterates ==
  ASSUME NEW n \in Nat, NEW S, NEW first \in S,
         NEW step \in [S \X (1 .. n) -> S]
  PROVE  Iterated(n, S, first, step)
<1> DEFINE Is(m, f) == /\ f \in [0 .. m -> S] /\ f[0] = first
                       /\ \A i \in 1 .. m : f[i] = step[<<f[i - 1], i>>]
           G == {m \in 0 .. n : \E f : Is(m, f)}
<1>1. 0 \in G
  <2> DEFINE f == [i \in 0 .. 0 |-> first]
  <2>1. f \in [0 .. 0 -> S] /\ f[0] = first
    OBVIOUS
  <2>2. Is(0, f)
    BY <2>1
  <2>3. 0 \in 0 .. n
    OBVIOUS
  <2> HIDE DEF f, Is
  <2> QED BY <2>2, <2>3
<1>2. ASSUME NEW m \in 0 .. n - 1, m \in G PROVE m + 1 \in G
  <2>1. PICK f : Is(m, f)
    BY <1>2
  <2> DEFINE g == [i \in 0 .. m + 1 |-> IF i = m + 1 THEN step[<<f[m], m + 1>>] ELSE f[i]]
  <2>2. m \in Nat /\ m + 1 \in 1 .. n /\ m + 1 \in 0 .. n
    OBVIOUS
  <2>3. f[m] \in S /\ step[<<f[m], m + 1>>] \in S
    BY <2>1, <2>2
  <2>4. \A i \in 0 .. m : g[i] = f[i] /\ f[i] \in S
    BY <2>1, <2>2
  <2>5. g[m + 1] = step[<<f[m], m + 1>>]
    BY <2>2
  <2>6. g \in [0 .. m + 1 -> S]
    BY <2>1, <2>3
  <2> HIDE DEF g
  <2>7. g[0] = first
    BY <2>1, <2>2, <2>4
  <2>8. \A i \in 1 .. m + 1 : g[i] = step[<<g[i - 1], i>>]
    <3> TAKE i \in 1 .. m + 1
    <3>1. CASE i = m + 1
      <4>1. i - 1 = m /\ m \in 0 .. m
        BY <2>2, <3>1
      <4> QED BY <2>4, <2>5, <3>1, <4>1
    <3>2. CASE i # m + 1
      <4>1. i \in 1 .. m /\ i \in 0 .. m /\ i - 1 \in 0 .. m
        BY <2>2, <3>2
      <4> QED BY <2>1, <2>4, <4>1
    <3> QED BY <3>1, <3>2
  <2>9. Is(m + 1, g)
    BY <2>6, <2>7, <2>8
  <2> HIDE DEF Is
  <2> QED BY <2>2, <2>9
<1> HIDE DEF G
<1>3. n \in G
  BY <1>1, <1>2, UpTo
<1> QED BY <1>3 DEF G, Iterated

-----------------------------------------------------------------------------
(* Points and rectangles.                                                  *)

LEMMA PtIs ==
  ASSUME NEW x \in Int, NEW y \in Int
  PROVE  Pt(x, y) \in Points /\ Pt(x, y).x = x /\ Pt(x, y).y = y
  BY DEF Pt, Points

LEMMA Parts ==
  ASSUME NEW r \in Rects
  PROVE  /\ r.min \in Points /\ r.max \in Points
         /\ {r.min.x, r.min.y, r.max.x, r.max.y} \subseteq Int
         /\ WidthOf(r) = r.max.x - r.min.x /\ HeightOf(r) = r.max.y - r.min.y
         /\ WidthOf(r) \in Int /\ HeightOf(r) \in Int
  BY DEF Rects, Points, WidthOf, HeightOf

LEMMA SameParts ==
  ASSUME NEW r \in Rects, NEW s \in Rects,
         r.min.x = s.min.x, r.min.y = s.min.y, r.max.x = s.max.x, r.max.y = s.max.y
  PROVE  r = s
<1>1. r.min = s.min
  BY DEF Rects, Points
<1>2. r.max = s.max
  BY DEF Rects, Points
<1> QED BY <1>1, <1>2 DEF Rects

LEMMA SameSizes ==
  ASSUME NEW r \in Rects, NEW s \in Rects,
         r.min = s.min, WidthOf(r) = WidthOf(s), HeightOf(r) = HeightOf(s)
  PROVE  r = s
<1>1. {r.min.x, r.min.y, r.max.x, r.max.y, s.min.x, s.min.y, s.max.x, s.max.y} \subseteq Int
  BY Parts
<1>2. r.max.x = s.max.x /\ r.max.y = s.max.y
  BY <1>1 DEF WidthOf, HeightOf
<1> QED BY <1>2, SameParts

LEMMA PointOps ==
  ASSUME NEW p \in Points, NEW q \in Points
  PROVE  /\ AddPt(p, q) \in Points /\ AddPt(p, q).x = p.x + q.x /\ AddPt(p, q).y = p.y + q.y
         /\ SubPt(p, q) \in Points /\ SubPt(p, q).x = p.x - q.x /\ SubPt(p, q).y = p.y - q.y
         /\ MulPt(p, q) \in Points /\ MulPt(p, q).x = p.x * q.x /\ MulPt(p, q).y = p.y * q.y
         /\ p.x \in Int /\ p.y \in Int
  BY DEF AddPt, SubPt, MulPt, Pt, Points

LEMMA RectOps ==
  ASSUME NEW r \in Rects, NEW p \in Points
  PROVE  /\ SizeOf(r) \in Points /\ SizeOf(r).x = WidthOf(r) /\ SizeOf(r).y = HeightOf(r)
         /\ RectAddPt(r, p) \in Rects
         /\ RectAddPt(r, p).min.x = r.min.x + p.x /\ RectAddPt(r, p).min.y = r.min.y + p.y
         /\ RectAddPt(r, p).max.x = r.max.x + p.x /\ RectAddPt(r, p).max.y = r.max.y + p.y
         /\ RectSubPt(r, p) \in Rects
         /\ RectSubPt(r, p).min.x = r.min.x - p.x /\ RectSubPt(r, p).min.y = r.min.y - p.y
         /\ RectSubPt(r, p).max.x = r.max.x - p.x /\ RectSubPt(r, p).max.y = r.max.y - p.y
         /\ RectSetOrigin(r, p) \in Rects /\ RectSetOrigin(r, p).min = p
         /\ RectSetOrigin(r, p).max.x = p.x + WidthOf(r)
         /\ RectSetOrigin(r, p).max.y = p.y + HeightOf(r)
<1>1. r.min \in Points /\ r.max \in Points
  BY Parts
<1>2. SizeOf(r) \in Points /\ SizeOf(r).x = WidthOf(r) /\ SizeOf(r).y = HeightOf(r)
  BY <1>1, PointOps DEF SizeOf, WidthOf, HeightOf
<1>3. /\ AddPt(r.min, p) \in Points /\ AddPt(r.max, p) \in Points
      /\ SubPt(r.min, p) \in Points /\ SubPt(r.max, p) \in Points
      /\ AddPt(p, SizeOf(r)) \in Points
  BY <1>1, <1>2, PointOps
<1>4. /\ RectAddPt(r, p) \in Rects /\ RectSubPt(r, p) \in Rects /\ RectSetOrigin(r, p) \in Rects
  BY <1>3 DEF RectAddPt, RectSubPt, RectSetOrigin, Rects
<1>5. /\ RectAddPt(r, p).min = AddPt(r.min, p) /\ RectAddPt(r, p).max = AddPt(r.max, p)
      /\ RectSubPt(r, p).min = SubPt(r.min, p) /\ RectSubPt(r, p).max = SubPt(r.max, p)
      /\ RectSetOrigin(r, p).min = p /\ RectSetOrigin(r, p).max = AddPt(p, SizeOf(r))
  BY DEF RectAddPt, RectSubPt, RectSetOrigin
<1> QED BY <1>1, <1>2, <1>4, <1>5, PointOps

LEMMA RectIs ==
  ASSUME NEW x0 \in Int, NEW y0 \in Int, NEW x1 \in Int, NEW y1 \in Int
  PROVE  /\ Rect(x0, y0, x1, y1) \in Rects
         /\ Rect(x0, y0, x1, y1).min.x = x0 /\ Rect(x0, y0, x1, y1).min.y = y0
         /\ Rect(x0, y0, x1, y1).max.x = x1 /\ Rect(x0, y0, x1, y1).max.y = y1
  BY PtIs DEF Rect, Rects

Sides(r, x0, y0, x1, y1) ==
  r \in Rects /\ r.min.x = x0 /\ r.min.y = y0 /\ r.max.x = x1 /\ r.max.y = y1

LEMMA SidesAre ==
  ASSUME NEW x0 \in Int, NEW y0 \in Int, NEW x1 \in Int, NEW y1 \in Int
  PROVE  Sides(Rect(x0, y0, x1, y1), x0, y0, x1, y1)
  BY RectIs DEF Sides

LEMMA MostLeast ==
  ASSUME NEW a \in Int, NEW b \in Int
  PROVE  /\ Most(a, b) \in {a, b} /\ Most(a, b) >= a /\ Most(a, b) >= b /\ Most(a, b) \in Int
         /\ Least(a, b) \in {a, b} /\ Least(a, b) <= a /\ Least(a, b) <= b /\ Least(a, b) \in Int
  BY DEF Most, Least

LEMMA Zero == ZP \in Points /\ ZR \in Rects /\ ZP.x = 0 /\ ZP.y = 0
              /\ ZR.min.x = 0 /\ ZR.min.y = 0 /\ ZR.max.x = 0 /\ ZR.max.y = 0
  BY PtIs, RectIs DEF ZP, ZR
-----------------------------------------------------------------------------
(* Decorations.                                                            *)

Windowed == [hints : Hints, bare : Decorations, collapsed : BOOLEAN, r : Rects, floatr : Rects]

LEMMA Decorated ==
  ASSUME NEW c, c.bare \in Decorations
  PROVE  Edge(c) \in Nat /\ Top(c) \in Nat
  BY FloatingAssumption DEF Edge, Top

LEMMA Client2Rect ==
  ASSUME NEW c, c.bare \in Decorations, NEW r \in Rects
  PROVE  /\ FrameClient2Rect(c, r) \in Rects
         /\ FrameClient2Rect(c, r).min.x = r.min.x - Edge(c)
         /\ FrameClient2Rect(c, r).min.y = r.min.y - Top(c)
         /\ FrameClient2Rect(c, r).max.x = r.max.x + Edge(c)
         /\ FrameClient2Rect(c, r).max.y = r.max.y + Edge(c)
<1>1. {r.min.x, r.min.y, r.max.x, r.max.y} \subseteq Int /\ Edge(c) \in Int /\ Top(c) \in Int
  BY Parts, Decorated
<1> DEFINE x0 == r.min.x - Edge(c)
           y0 == r.min.y - Top(c)
           x1 == r.max.x + Edge(c)
           y1 == r.max.y + Edge(c)
<1>2. x0 \in Int /\ y0 \in Int /\ x1 \in Int /\ y1 \in Int
  BY <1>1
<1>3. FrameClient2Rect(c, r) = Rect(x0, y0, x1, y1)
  BY DEF FrameClient2Rect
<1> HIDE DEF x0, y0, x1, y1
<1>4. /\ Rect(x0, y0, x1, y1) \in Rects
      /\ Rect(x0, y0, x1, y1).min.x = x0 /\ Rect(x0, y0, x1, y1).min.y = y0
      /\ Rect(x0, y0, x1, y1).max.x = x1 /\ Rect(x0, y0, x1, y1).max.y = y1
  BY <1>2, RectIs
<1> QED BY <1>3, <1>4 DEF x0, y0, x1, y1

(* How much a frame is larger than its client's window.                    *)
Around(c) == SizeOf(FrameClient2Rect(c, ZR))

LEMMA AroundIs ==
  ASSUME NEW c, c.bare \in Decorations
  PROVE  /\ Around(c) \in Points /\ Around(c).x = Edge(c) + Edge(c) /\ Around(c).y = Top(c) + Edge(c)
         /\ Around(c).x \in Nat /\ Around(c).y \in Nat
<1> DEFINE R == FrameClient2Rect(c, ZR)
<1>1. /\ R \in Rects /\ R.min.x = 0 - Edge(c) /\ R.min.y = 0 - Top(c)
      /\ R.max.x = 0 + Edge(c) /\ R.max.y = 0 + Edge(c)
  BY Client2Rect, Zero
<1>2. Edge(c) \in Nat /\ Top(c) \in Nat
  BY Decorated
<1> HIDE DEF R
<1>3. WidthOf(R) = Edge(c) + Edge(c) /\ HeightOf(R) = Top(c) + Edge(c)
  BY <1>1, <1>2 DEF WidthOf, HeightOf
<1>4. SizeOf(R) \in Points /\ SizeOf(R).x = WidthOf(R) /\ SizeOf(R).y = HeightOf(R)
  BY <1>1, Zero, RectOps
<1> QED BY <1>2, <1>3, <1>4 DEF Around, R

LEMMA Rect2Client ==
  ASSUME NEW c, c.bare \in Decorations, NEW r \in Rects,
         WidthOf(r) > Around(c).x, HeightOf(r) > Around(c).y
  PROVE  /\ FrameRect2Client(c, r) \in Rects
         /\ FrameRect2Client(c, r).min.x = r.min.x + Edge(c)
         /\ FrameRect2Client(c, r).min.y = r.min.y + Top(c)
         /\ FrameRect2Client(c, r).max.x = r.max.x - Edge(c)
         /\ FrameRect2Client(c, r).max.y = r.max.y - Edge(c)
<1>1. Edge(c) \in Nat /\ Top(c) \in Nat /\ {r.min.x, r.min.y, r.max.x, r.max.y} \subseteq Int
  BY Parts, Decorated
<1> DEFINE x0 == r.min.x + Edge(c)
           y0 == r.min.y + Top(c)
           x1 == r.max.x - Edge(c)
           y1 == r.max.y - Edge(c)
           s == Rect(x0, y0, x1, y1)
<1>2. /\ s \in Rects /\ s.min.x = r.min.x + Edge(c) /\ s.min.y = r.min.y + Top(c)
      /\ s.max.x = r.max.x - Edge(c) /\ s.max.y = r.max.y - Edge(c)
  <2>1. x0 \in Int /\ y0 \in Int /\ x1 \in Int /\ y1 \in Int
    BY <1>1
  <2> HIDE DEF x0, y0, x1, y1
  <2>2. s \in Rects /\ s.min.x = x0 /\ s.min.y = y0 /\ s.max.x = x1 /\ s.max.y = y1
    BY <2>1, RectIs
  <2> QED BY <2>2 DEF x0, y0, x1, y1
<1>3. WidthOf(r) = r.max.x - r.min.x /\ HeightOf(r) = r.max.y - r.min.y
  BY DEF WidthOf, HeightOf
<1>4. FrameRect2Client(c, r) = [s EXCEPT !.max = Pt(Most(s.max.x, s.min.x + 1), Most(s.max.y, s.min.y + 1))]
  BY DEF FrameRect2Client, s
<1> HIDE DEF s
<1>5. s.max.x >= s.min.x + 1 /\ s.max.y >= s.min.y + 1
  BY <1>1, <1>2, <1>3, AroundIs
<1>6. Most(s.max.x, s.min.x + 1) = s.max.x /\ Most(s.max.y, s.min.y + 1) = s.max.y
  BY <1>1, <1>2, <1>5 DEF Most
<1>7. Pt(s.max.x, s.max.y) = s.max
  BY <1>2 DEF Pt, Rects, Points
<1>8. [s EXCEPT !.max = s.max] = s
  BY <1>2 DEF Rects
<1> QED BY <1>2, <1>4, <1>6, <1>7, <1>8
-----------------------------------------------------------------------------
(* Where a program knows its window to be (AsksToStay).                    *)

LEMMA Halved ==
  ASSUME NEW p \in Points
  PROVE  HalfPt(p) \in Points /\ HalfPt(p).x = Quot(p.x, 2) /\ HalfPt(p).y = Quot(p.y, 2)
<1>1. p.x \in Int /\ p.y \in Int /\ 2 \in Nat \ {0}
  BY DEF Points
<1>2. Quot(p.x, 2) \in Int /\ Quot(p.y, 2) \in Int
  BY <1>1, QuotRem, Zenon
<1> QED BY <1>2, PtIs DEF HalfPt

LEMMA HalfOfMinus ==
  ASSUME NEW n \in Nat
  PROVE  Quot(-n, 2) = -Quot(n, 2) /\ Quot(n, 2) \in Nat
  BY DEF Quot

(* Two rectangles of different size, one within the other, are moved by    *)
(* the same amount in opposite directions.                                 *)
LEMMA GravitateIs ==
  ASSUME NEW a \in Rects, NEW b \in Rects, NEW g \in Points, NEW d \in Points,
         d.x \in Nat, d.y \in Nat
  PROVE  LET q == MulPt(HalfPt(d), g)
         IN  /\ q \in Points
             /\ (WidthOf(b) = WidthOf(a) + d.x /\ HeightOf(b) = HeightOf(a) + d.y)
                  => Gravitate(a, b, g) = RectSubPt(a, q)
             /\ (WidthOf(b) = WidthOf(a) - d.x /\ HeightOf(b) = HeightOf(a) - d.y)
                  => Gravitate(a, b, g) = RectAddPt(a, q)
<1> DEFINE q == MulPt(HalfPt(d), g)
           e == SubPt(SizeOf(b), SizeOf(a))
<1>1. HalfPt(d) \in Points /\ q \in Points
  BY Halved, PointOps
<1>2. /\ SizeOf(a) \in Points /\ SizeOf(a).x = WidthOf(a) /\ SizeOf(a).y = HeightOf(a)
      /\ SizeOf(b) \in Points /\ SizeOf(b).x = WidthOf(b) /\ SizeOf(b).y = HeightOf(b)
  BY Zero, RectOps
<1>3. e \in Points /\ e.x = WidthOf(b) - WidthOf(a) /\ e.y = HeightOf(b) - HeightOf(a)
  BY <1>2, PointOps
<1>4. WidthOf(a) \in Int /\ HeightOf(a) \in Int
  BY Parts
<1>5. Gravitate(a, b, g) = RectSubPt(a, MulPt(HalfPt(e), g))
  BY DEF Gravitate, e
<1> HIDE DEF e
<1>6. ASSUME WidthOf(b) = WidthOf(a) + d.x, HeightOf(b) = HeightOf(a) + d.y
      PROVE  Gravitate(a, b, g) = RectSubPt(a, q)
  <2>1. e.x = d.x /\ e.y = d.y
    BY <1>3, <1>4, <1>6
  <2>2. e = d
    BY <1>3, <2>1 DEF Points
  <2> QED BY <1>5, <2>2
<1>7. ASSUME WidthOf(b) = WidthOf(a) - d.x, HeightOf(b) = HeightOf(a) - d.y
      PROVE  Gravitate(a, b, g) = RectAddPt(a, q)
  <2> DEFINE m == MulPt(HalfPt(e), g)
  <2>1. e.x = -d.x /\ e.y = -d.y
    BY <1>3, <1>4, <1>7
  <2>2. /\ HalfPt(e) \in Points /\ HalfPt(e).x = -HalfPt(d).x /\ HalfPt(e).y = -HalfPt(d).y
    BY <1>3, <2>1, Halved, HalfOfMinus
  <2>3. m \in Points /\ m.x = HalfPt(e).x * g.x /\ m.y = HalfPt(e).y * g.y
    BY <2>2, PointOps
  <2>4. q.x = HalfPt(d).x * g.x /\ q.y = HalfPt(d).y * g.y
    BY <1>1, PointOps
  <2>5. HalfPt(d).x \in Int /\ HalfPt(d).y \in Int /\ g.x \in Int /\ g.y \in Int
    BY <1>1 DEF Points
  <2>6. m.x = -q.x /\ m.y = -q.y
    BY <2>2, <2>3, <2>4, <2>5, SMTT(20)
  <2> HIDE DEF m, q
  <2>7. RectSubPt(a, m) = RectAddPt(a, q)
    <3>1. RectSubPt(a, m) \in Rects /\ RectAddPt(a, q) \in Rects
      BY <1>1, <2>3, RectOps
    <3>2. {a.min.x, a.min.y, a.max.x, a.max.y, q.x, q.y} \subseteq Int
      BY <1>1, Parts DEF Points
    <3>3. /\ RectSubPt(a, m).min.x = RectAddPt(a, q).min.x
          /\ RectSubPt(a, m).min.y = RectAddPt(a, q).min.y
          /\ RectSubPt(a, m).max.x = RectAddPt(a, q).max.x
          /\ RectSubPt(a, m).max.y = RectAddPt(a, q).max.y
      <4>1. /\ RectSubPt(a, m).min.x = a.min.x - m.x /\ RectSubPt(a, m).min.y = a.min.y - m.y
            /\ RectSubPt(a, m).max.x = a.max.x - m.x /\ RectSubPt(a, m).max.y = a.max.y - m.y
        BY <2>3, RectOps
      <4>2. /\ RectAddPt(a, q).min.x = a.min.x + q.x /\ RectAddPt(a, q).min.y = a.min.y + q.y
            /\ RectAddPt(a, q).max.x = a.max.x + q.x /\ RectAddPt(a, q).max.y = a.max.y + q.y
        BY <1>1, RectOps
      <4> QED BY <2>6, <3>2, <4>1, <4>2
    <3> QED BY <3>1, <3>3, SameParts
  <2> QED BY <1>5, <2>7 DEF m
<1> QED BY <1>1, <1>6, <1>7

LEMMA Stays ==
  ASSUME NEW c \in Windowed, WidthOf(c.floatr) > Around(c).x, HeightOf(c.floatr) > Around(c).y
  PROVE  ClientGrav(c, KnownToProgram(c)) = c.floatr
<1> DEFINE r == c.floatr
           g == c.hints.grav
           d == Around(c)
           e == Pt(Edge(c), Top(c))
           z == IF c.hints.static THEN ZP ELSE e
           q == MulPt(HalfPt(d), g)
           cr == FrameRect2Client(c, r)
           s == RectAddPt(r, q)
           t == RectSubPt(s, z)
           k == FrameRect2Client(c, t)
           f == FrameClient2Rect(c, k)
           u == RectSubPt(k, q)
           v == RectAddPt(u, z)
<1>1. /\ r \in Rects /\ g \in Points /\ d \in Points /\ d.x \in Nat /\ d.y \in Nat
      /\ c.bare \in Decorations /\ c.hints.static \in BOOLEAN
      /\ d.x = Edge(c) + Edge(c) /\ d.y = Top(c) + Edge(c) /\ Edge(c) \in Nat /\ Top(c) \in Nat
  BY AroundIs, Decorated DEF Windowed, Hints
<1>2. e \in Points /\ e.x = Edge(c) /\ e.y = Top(c) /\ z \in Points /\ (c.hints.static => z = ZP)
      /\ (~c.hints.static => z = e)
  BY <1>1, PtIs, Zero
<1>3. /\ cr \in Rects /\ cr.min.x = r.min.x + Edge(c) /\ cr.min.y = r.min.y + Top(c)
      /\ cr.max.x = r.max.x - Edge(c) /\ cr.max.y = r.max.y - Edge(c)
  BY <1>1, Rect2Client
<1>4. {r.min.x, r.min.y, r.max.x, r.max.y} \subseteq Int
  BY <1>1, Parts
<1> HIDE DEF e, cr, r, g, d
<1>5. WidthOf(cr) = WidthOf(r) - d.x /\ HeightOf(cr) = HeightOf(r) - d.y
  BY <1>1, <1>3, <1>4 DEF WidthOf, HeightOf
<1>6. Gravitate(r, cr, g) = s /\ q \in Points
  BY <1>1, <1>3, <1>5, GravitateIs
<1>7. SubPt(cr.min, r.min) = e
  <2>1. r.min \in Points /\ cr.min \in Points
    BY <1>1, <1>3, Parts
  <2>2. SubPt(cr.min, r.min) \in Points
    BY <2>1, PointOps
  <2>3. SubPt(cr.min, r.min).x = e.x /\ SubPt(cr.min, r.min).y = e.y
    BY <1>1, <1>2, <1>3, <1>4, <2>1, PointOps
  <2> QED BY <1>2, <2>2, <2>3 DEF Points
<1>8. KnownToProgram(c) = k
  BY <1>6, <1>7 DEF KnownToProgram, r, cr, g
<1> HIDE DEF q
<1>9. /\ s \in Rects /\ s.min.x = r.min.x + q.x /\ s.min.y = r.min.y + q.y
      /\ s.max.x = r.max.x + q.x /\ s.max.y = r.max.y + q.y
  BY <1>1, <1>6, RectOps
<1> HIDE DEF s, z
<1>10. /\ t \in Rects /\ t.min.x = s.min.x - z.x /\ t.min.y = s.min.y - z.y
       /\ t.max.x = s.max.x - z.x /\ t.max.y = s.max.y - z.y
  BY <1>2, <1>9, RectOps
<1> HIDE DEF t
<1>11. q.x \in Int /\ q.y \in Int /\ z.x \in Int /\ z.y \in Int
  BY <1>2, <1>6 DEF Points
<1>12. WidthOf(t) = WidthOf(r) /\ HeightOf(t) = HeightOf(r)
  BY <1>4, <1>9, <1>10, <1>11 DEF WidthOf, HeightOf
<1>13. WidthOf(t) > Around(c).x /\ HeightOf(t) > Around(c).y
  BY <1>12 DEF r
<1>14. /\ k \in Rects /\ k.min.x = t.min.x + Edge(c) /\ k.min.y = t.min.y + Top(c)
       /\ k.max.x = t.max.x - Edge(c) /\ k.max.y = t.max.y - Edge(c)
  BY <1>1, <1>10, <1>13, Rect2Client
<1> HIDE DEF k
<1>15. /\ f \in Rects /\ f.min.x = k.min.x - Edge(c) /\ f.min.y = k.min.y - Top(c)
       /\ f.max.x = k.max.x + Edge(c) /\ f.max.y = k.max.y + Edge(c)
  BY <1>1, <1>14, Client2Rect
<1> HIDE DEF f
<1>16. {k.min.x, k.min.y, k.max.x, k.max.y} \subseteq Int
  BY <1>14, Parts
<1>17. WidthOf(f) = WidthOf(k) + d.x /\ HeightOf(f) = HeightOf(k) + d.y
  BY <1>1, <1>15, <1>16 DEF WidthOf, HeightOf
<1>18. Gravitate(k, f, g) = u
  BY <1>1, <1>14, <1>15, <1>17, GravitateIs DEF q
<1>19. SubPt(k.min, f.min) = e
  <2>1. k.min \in Points /\ f.min \in Points
    BY <1>14, <1>15, Parts
  <2>2. SubPt(k.min, f.min) \in Points
    BY <2>1, PointOps
  <2>3. SubPt(k.min, f.min).x = e.x /\ SubPt(k.min, f.min).y = e.y
    BY <1>1, <1>2, <1>15, <1>16, <2>1, PointOps
  <2> QED BY <1>2, <2>2, <2>3 DEF Points
<1>20. ClientGrav(c, k) = FrameClient2Rect(c, v)
  BY <1>18, <1>19 DEF ClientGrav, f, g, z
<1>21. /\ u \in Rects /\ u.min.x = k.min.x - q.x /\ u.min.y = k.min.y - q.y
       /\ u.max.x = k.max.x - q.x /\ u.max.y = k.max.y - q.y
  BY <1>6, <1>14, RectOps
<1> HIDE DEF u
<1>22. /\ v \in Rects /\ v.min.x = u.min.x + z.x /\ v.min.y = u.min.y + z.y
       /\ v.max.x = u.max.x + z.x /\ v.max.y = u.max.y + z.y
  BY <1>2, <1>21, RectOps
<1> HIDE DEF v
<1> DEFINE y == FrameClient2Rect(c, v)
<1>23. /\ y \in Rects /\ y.min.x = v.min.x - Edge(c) /\ y.min.y = v.min.y - Top(c)
       /\ y.max.x = v.max.x + Edge(c) /\ y.max.y = v.max.y + Edge(c)
  BY <1>1, <1>22, Client2Rect
<1> HIDE DEF y
<1>24. y.min.x = r.min.x /\ y.min.y = r.min.y /\ y.max.x = r.max.x /\ y.max.y = r.max.y
  BY <1>1, <1>4, <1>9, <1>10, <1>11, <1>14, <1>21, <1>22, <1>23
<1>25. y = r
  BY <1>1, <1>23, <1>24, SameParts
<1> QED BY <1>8, <1>20, <1>25 DEF y, r

-----------------------------------------------------------------------------
(* A width, or a height, as size hints would have it.                      *)

Clamped(n, lo, hi) == Least(Most(n, lo), hi)
Stepped(p, base, inc) == p - Rem(p - base, inc)
Sized(n, lo, hi, base, inc) == Stepped(Clamped(n, lo, hi), base, inc)

LEMMA Clamps ==
  ASSUME NEW n \in Int, NEW lo \in Int, NEW hi \in Int
  PROVE  /\ Clamped(n, lo, hi) \in Int
         /\ Clamped(n, lo, hi) = IF hi < lo THEN hi
                                 ELSE IF n < lo THEN lo ELSE IF n > hi THEN hi ELSE n
  BY DEF Clamped, Most, Least

(* From above the base rounded down to a step, and from below it up.       *)
LEMMA Steps ==
  ASSUME NEW p \in Int, NEW base \in Int, NEW inc \in Nat \ {0}
  PROVE  LET s == Stepped(p, base, inc)
         IN  /\ s \in Int /\ \E k \in Int : s = base + inc * k
             /\ p >= base => base <= s /\ s <= p /\ p < s + inc
             /\ p < base => p <= s /\ s <= base /\ s < p + inc
<1> DEFINE a == p - base
<1>1. a \in Int
  OBVIOUS
<1> HIDE DEF a
<1>2. /\ Quot(a, inc) \in Int /\ Rem(a, inc) \in Int
      /\ a = inc * Quot(a, inc) + Rem(a, inc)
      /\ a >= 0 => 0 <= Rem(a, inc) /\ Rem(a, inc) < inc /\ Rem(a, inc) <= a
      /\ a < 0 => Rem(a, inc) <= 0 /\ -inc < Rem(a, inc) /\ a <= Rem(a, inc)
  BY <1>1, QuotRem
<1>3. Stepped(p, base, inc) = p - Rem(a, inc)
  BY DEF Stepped, a
<1>4. inc * Quot(a, inc) \in Int
  BY <1>2, SMTT(20)
<1>5. p - Rem(a, inc) = base + inc * Quot(a, inc)
  BY <1>2, <1>4 DEF a
<1>6. /\ p - Rem(a, inc) \in Int
      /\ p >= base => base <= p - Rem(a, inc) /\ p - Rem(a, inc) <= p /\ p < p - Rem(a, inc) + inc
      /\ p < base => p <= p - Rem(a, inc) /\ p - Rem(a, inc) <= base /\ p - Rem(a, inc) < p + inc
  BY <1>2 DEF a
<1> QED BY <1>2, <1>3, <1>5, <1>6

(* What lies between a number and its step has the same step.              *)
LEMMA SameStep ==
  ASSUME NEW p \in Int, NEW q \in Int, NEW base \in Int, NEW inc \in Nat \ {0},
         \/ Stepped(p, base, inc) <= q /\ q <= p
         \/ p <= q /\ q <= Stepped(p, base, inc)
  PROVE  Stepped(q, base, inc) = Stepped(p, base, inc)
<1> DEFINE s == Stepped(p, base, inc)
           t == Stepped(q, base, inc)
<1>1. /\ s \in Int
      /\ p >= base => base <= s /\ s <= p /\ p < s + inc
      /\ p < base => p <= s /\ s <= base /\ s < p + inc
  BY Steps
<1>2. /\ t \in Int
      /\ q >= base => base <= t /\ t <= q /\ q < t + inc
      /\ q < base => q <= t /\ t <= base /\ t < q + inc
  BY Steps
<1>3. PICK k \in Int : s = base + inc * k
  BY Steps
<1>4. PICK m \in Int : t = base + inc * m
  BY Steps
<1>5. \/ s <= q /\ q <= p
      \/ p <= q /\ q <= s
  OBVIOUS
<1> HIDE DEF s, t
<1>6. s < t + inc /\ t < s + inc
  BY <1>1, <1>2, <1>5
<1>7. inc * k \in Int /\ inc * m \in Int
  BY SMTT(20)
<1>8. inc * k < inc * m + inc /\ inc * m < inc * k + inc
  BY <1>3, <1>4, <1>6, <1>7
<1>9. k = m
  BY <1>8, OneMultiple
<1> QED BY <1>3, <1>4, <1>9 DEF s, t

LEMMA SizedOk ==
  ASSUME NEW n \in Int, NEW lo \in Int, NEW hi \in Int, NEW base \in Int, NEW inc \in Nat \ {0}
  PROVE  LET s == Sized(n, lo, hi, base, inc)
         IN  /\ s \in Int
             /\ \A z \in Int : z <= lo /\ z <= hi /\ z <= base => z <= s
             /\ Sized(s, lo, hi, base, inc) = s
<1> DEFINE p == Clamped(n, lo, hi)
           s == Stepped(p, base, inc)
           q == Clamped(s, lo, hi)
<1>1. p \in Int /\ p = IF hi < lo THEN hi ELSE IF n < lo THEN lo ELSE IF n > hi THEN hi ELSE n
  BY Clamps
<1>2. /\ s \in Int
      /\ p >= base => base <= s /\ s <= p
      /\ p < base => p <= s /\ s <= base
  BY <1>1, Steps
<1>3. q \in Int /\ q = IF hi < lo THEN hi ELSE IF s < lo THEN lo ELSE IF s > hi THEN hi ELSE s
  BY <1>2, Clamps
<1>4. Stepped(q, base, inc) = s
  <2>1. (s <= q /\ q <= p) \/ (p <= q /\ q <= s)
    <3> HIDE DEF p, s, q
    <3> QED BY <1>1, <1>2, <1>3
  <2> QED BY <1>1, <1>3, <2>1, SameStep
<1>5. \A z \in Int : z <= lo /\ z <= hi /\ z <= base => z <= s
  <2> HIDE DEF p, s, q
  <2> QED BY <1>1, <1>2
<1>6. Sized(n, lo, hi, base, inc) = s /\ Sized(s, lo, hi, base, inc) = Stepped(q, base, inc)
  BY DEF Sized
<1> QED BY <1>2, <1>4, <1>5, <1>6

LEMMA SizedTwice ==
  ASSUME NEW n \in Int, NEW lo \in Int, NEW hi \in Int, NEW base \in Int, NEW inc \in Nat \ {0}
  PROVE  Sized(Sized(n, lo, hi, base, inc), lo, hi, base, inc) = Sized(n, lo, hi, base, inc)
  BY SizedOk

(* A size below the least of a frame, w, has the same one again as w has   *)
(* with it, or one between the two.                                        *)
LEMMA SizedWidened ==
  ASSUME NEW n \in Int, NEW lo \in Int, NEW hi \in Int, NEW base \in Int, NEW inc \in Nat \ {0},
         NEW w \in Int, inc > 1 => lo >= w, Sized(n, lo, hi, base, inc) < w
  PROVE  /\ Sized(n, lo, hi, base, inc) <= Sized(w, lo, hi, base, inc)
         /\ Sized(w, lo, hi, base, inc) <= w
<1> DEFINE p == Clamped(n, lo, hi)
           s == Stepped(p, base, inc)
           q == Clamped(w, lo, hi)
<1>1. p \in Int /\ p = IF hi < lo THEN hi ELSE IF n < lo THEN lo ELSE IF n > hi THEN hi ELSE n
  BY Clamps
<1>2. /\ s \in Int
      /\ p >= base => base <= s /\ s <= p /\ p < s + inc
      /\ p < base => p <= s /\ s <= base /\ s < p + inc
  BY <1>1, Steps
<1>3. q \in Int /\ q = IF hi < lo THEN hi ELSE IF w < lo THEN lo ELSE IF w > hi THEN hi ELSE w
  BY Clamps
<1>4. Sized(n, lo, hi, base, inc) = s /\ Sized(w, lo, hi, base, inc) = Stepped(q, base, inc)
  BY DEF Sized
<1>5. s < w
  BY <1>4
<1>6. /\ Stepped(q, base, inc) \in Int
      /\ q >= base => Stepped(q, base, inc) <= q /\ q < Stepped(q, base, inc) + inc
      /\ q < base => q <= Stepped(q, base, inc) /\ Stepped(q, base, inc) < q + inc
  BY <1>3, Steps
<1> HIDE DEF p, s, q
<1>7. CASE inc = 1
  <2>1. s = p /\ Stepped(q, base, inc) = q
    BY <1>1, <1>2, <1>3, <1>6, <1>7
  <2> QED BY <1>1, <1>3, <1>4, <1>5, <2>1
<1>8. CASE inc > 1
  <2>1. (s <= q /\ q <= p) \/ (p <= q /\ q <= s)
    BY <1>1, <1>2, <1>3, <1>5, <1>8
  <2>2. Stepped(q, base, inc) = s
    BY <1>1, <1>3, <2>1, SameStep DEF s
  <2> QED BY <1>2, <1>4, <1>5, <2>2
<1> QED BY <1>7, <1>8

(* An empty frame is as high again when it has been given a height of one. *)
LEMMA SizedEmpty ==
  ASSUME NEW n \in Int, NEW lo \in Nat \ {0}, NEW hi \in Int, NEW base \in Int,
         NEW inc \in Nat \ {0}, Sized(n, lo, hi, base, inc) = 0, base >= 0, hi >= 0
  PROVE  Sized(1, lo, hi, base, inc) = 0
<1> DEFINE p == Clamped(n, lo, hi)
           s == Stepped(p, base, inc)
           q == Clamped(1, lo, hi)
<1>1. p \in Int /\ p = IF hi < lo THEN hi ELSE IF n < lo THEN lo ELSE IF n > hi THEN hi ELSE n
  BY Clamps
<1>2. /\ s \in Int
      /\ p >= base => base <= s /\ s <= p
      /\ p < base => p <= s /\ s <= base
  BY <1>1, Steps
<1>3. q \in Int /\ q = IF hi < lo THEN hi ELSE IF 1 < lo THEN lo ELSE IF 1 > hi THEN hi ELSE 1
  <2>1. lo \in Int /\ 1 \in Int
    OBVIOUS
  <2> QED BY <2>1, Clamps, Zenon
<1>4. s = 0 /\ Sized(1, lo, hi, base, inc) = Stepped(q, base, inc)
  BY DEF Sized
<1> HIDE DEF p, s, q
<1>5. s <= q /\ q <= p
  BY <1>1, <1>2, <1>3, <1>4
<1>6. Stepped(q, base, inc) = s
  BY <1>1, <1>3, <1>5, SameStep DEF s
<1> QED BY <1>4, <1>6

-----------------------------------------------------------------------------
(* Size hints.                                                             *)

LEMMA SizesAre ==
  ASSUME NEW h \in Hints, NEW p \in Points
  PROVE  LET n == InSteps(h, WithinSizes(h, p))
         IN  /\ n \in Points
             /\ n.x = Sized(p.x, h.min.x, h.max.x, h.base.x, h.inc.x)
             /\ n.y = Sized(p.y, h.min.y, h.max.y, h.base.y, h.inc.y)
<1> DEFINE a == Clamped(p.x, h.min.x, h.max.x)
           b == Clamped(p.y, h.min.y, h.max.y)
           m == Stepped(a, h.base.x, h.inc.x)
           k == Stepped(b, h.base.y, h.inc.y)
<1>1. /\ {p.x, p.y, h.min.x, h.min.y, h.max.x, h.max.y, h.base.x, h.base.y} \subseteq Int
      /\ h.inc.x \in Nat \ {0} /\ h.inc.y \in Nat \ {0}
  BY DEF Hints, Points, Positive
<1>2. a \in Int /\ b \in Int
  BY <1>1, Clamps
<1>3. WithinSizes(h, p) = Pt(a, b)
  BY DEF WithinSizes, Clamped
<1> HIDE DEF a, b
<1>4. Pt(a, b).x = a /\ Pt(a, b).y = b
  BY <1>2, PtIs
<1>5. InSteps(h, Pt(a, b)) = Pt(m, k)
  BY <1>4 DEF InSteps, Stepped
<1>6. m \in Int /\ k \in Int
  BY <1>1, <1>2, Steps
<1> HIDE DEF m, k
<1>7. Pt(m, k) \in Points /\ Pt(m, k).x = m /\ Pt(m, k).y = k
  BY <1>6, PtIs
<1> QED BY <1>3, <1>5, <1>7 DEF Sized, m, k, a, b

LEMMA Leasts ==
  ASSUME NEW h \in Hints
  PROVE  /\ LeastSize(h) \in Points
         /\ LeastSize(h).x >= TitleH /\ LeastSize(h).y >= TitleH
         /\ h.min.x >= 2 * TitleH => LeastSize(h).x >= 2 * TitleH
<1> DEFINE x == IF h.min.x < 2 * TitleH THEN TitleH + Rem(2 * TitleH, h.inc.x) ELSE h.min.x
           y == IF h.min.y < TitleH THEN TitleH + Rem(TitleH, h.inc.y) ELSE h.min.y
<1>1. /\ {h.min.x, h.min.y} \subseteq Int /\ h.inc.x \in Nat \ {0} /\ h.inc.y \in Nat \ {0}
      /\ TitleH \in Nat /\ TitleH \in Int /\ 2 * TitleH \in Nat /\ 2 * TitleH \in Int
  BY FloatingAssumption DEF Hints, Points, Positive
<1>2. Rem(2 * TitleH, h.inc.x) \in Nat /\ Rem(TitleH, h.inc.y) \in Nat
  BY <1>1, QuotNat, Zenon
<1>3. /\ x \in Int /\ y \in Int /\ x >= TitleH /\ y >= TitleH
      /\ h.min.x >= 2 * TitleH => x >= 2 * TitleH
  BY <1>1, <1>2
<1>4. LeastSize(h) = Pt(x, y)
  BY DEF LeastSize
<1> HIDE DEF x, y
<1>5. Pt(x, y) \in Points /\ Pt(x, y).x = x /\ Pt(x, y).y = y
  BY <1>3, PtIs
<1> QED BY <1>3, <1>4, <1>5

LEMMA FrameHinted ==
  ASSUME NEW c \in Windowed
  PROVE  LET H == FrameGetHints(c)
         IN  /\ H \in Hints /\ H.inc = c.hints.inc /\ H.aspect = c.hints.aspect
             /\ H.min.x = LeastSize(c.hints).x + Around(c).x
             /\ H.min.y = LeastSize(c.hints).y + Around(c).y
             /\ H.max.x = c.hints.max.x + Around(c).x /\ H.max.y = c.hints.max.y + Around(c).y
             /\ H.base.x = c.hints.base.x + Around(c).x /\ H.base.y = c.hints.base.y + Around(c).y
             /\ H.baspect.x = c.hints.baspect.x + Around(c).x
             /\ H.baspect.y = c.hints.baspect.y + Around(c).y
<1> DEFINE h == c.hints
           d == Around(c)
           H == FrameGetHints(c)
<1>1. h \in Hints /\ c.bare \in Decorations
  BY DEF Windowed
<1>2. d \in Points
  BY <1>1, AroundIs
<1>3. H = [h EXCEPT !.min = AddPt(LeastSize(h), d), !.max = AddPt(h.max, d),
                    !.base = AddPt(h.base, d), !.baspect = AddPt(h.baspect, d)]
  BY <1>1 DEF FrameGetHints, Around, Hints
<1> HIDE DEF h, d, H
<1>4. LeastSize(h) \in Points /\ h.max \in Points /\ h.base \in Points /\ h.baspect \in Points
  BY <1>1, Leasts DEF Hints
<1>5. /\ AddPt(LeastSize(h), d) \in Points /\ AddPt(h.max, d) \in Points
      /\ AddPt(h.base, d) \in Points /\ AddPt(h.baspect, d) \in Points
  BY <1>2, <1>4, PointOps
<1>6. H \in Hints /\ H.inc = h.inc /\ H.aspect = h.aspect
      /\ H.min = AddPt(LeastSize(h), d) /\ H.max = AddPt(h.max, d)
      /\ H.base = AddPt(h.base, d) /\ H.baspect = AddPt(h.baspect, d)
  BY <1>1, <1>3, <1>5 DEF Hints
<1>7. /\ H.min.x = LeastSize(h).x + d.x /\ H.min.y = LeastSize(h).y + d.y
      /\ H.max.x = h.max.x + d.x /\ H.max.y = h.max.y + d.y
      /\ H.base.x = h.base.x + d.x /\ H.base.y = h.base.y + d.y
      /\ H.baspect.x = h.baspect.x + d.x /\ H.baspect.y = h.baspect.y + d.y
  BY <1>2, <1>4, <1>6, PointOps
<1> QED BY <1>6, <1>7 DEF h, d, H

(* What counts for the aspect is never empty in height.                    *)
LEMMA AspectIs ==
  ASSUME NEW h \in Hints, NEW p \in Points, NEW q \in Points, q.y >= 1
  PROVE  LET s == InAspect(h, p, q)
         IN  /\ s \in Points
             /\ h.aspect = ZR => s = p
             /\ (p.x >= 0 /\ p.y >= 0 /\ (h.aspect # ZR => q.x >= 0)
                 /\ h.baspect.x >= 0 /\ h.baspect.y >= 0)
                  => s.x >= 0 /\ s.y >= 0
<1> DEFINE lo == h.aspect.min
           hi == h.aspect.max
           x == IF Quot(q.x * hi.y, q.y) > hi.x THEN h.baspect.x + Quot(q.y * hi.x, hi.y) ELSE p.x
           y == IF Quot(q.x * lo.y, q.y) < lo.x THEN h.baspect.y + Quot(q.x * lo.y, lo.x) ELSE p.y
<1>1. /\ {p.x, p.y, q.x, q.y, h.baspect.x, h.baspect.y} \subseteq Int
      /\ q.y \in Nat \ {0} /\ p = Pt(p.x, p.y)
  BY DEF Hints, Points, Pt
<1>2. InAspect(h, p, q) = Pt(x, y)
  BY DEF InAspect
<1>3. CASE h.aspect = ZR
  <2>1. hi.x = 0 /\ hi.y = 0 /\ lo.x = 0 /\ lo.y = 0
    BY <1>3, Zero
  <2>2. q.x * hi.y = 0 /\ q.x * lo.y = 0
    BY <1>1, <2>1
  <2>3. Quot(0, q.y) = 0
    <3>1. 0 \div q.y = 0
      BY <1>1, SMTT(20)
    <3> QED BY <3>1 DEF Quot
  <2>4. x = p.x /\ y = p.y
    BY <2>1, <2>2, <2>3
  <2> HIDE DEF x, y
  <2> QED BY <1>1, <1>2, <1>3, <2>4
<1>4. CASE h.aspect # ZR
  <2>1. /\ hi.x \in Nat \ {0} /\ hi.y \in Nat \ {0} /\ lo.x \in Nat \ {0} /\ lo.y \in Nat \ {0}
    BY <1>4 DEF Hints, Positive
  <2>2. q.y * hi.x \in Nat
    BY <1>1, <2>1, Products
  <2>3. q.x * lo.y \in Int /\ (q.x >= 0 => q.x * lo.y >= 0)
    BY <1>1, <2>1, SMTT(20)
  <2>4. Quot(q.y * hi.x, hi.y) \in Nat
    BY <2>1, <2>2, QuotNat, Zenon
  <2>5. Quot(q.x * lo.y, lo.x) \in Int /\ (q.x * lo.y >= 0 => Quot(q.x * lo.y, lo.x) >= 0)
    <3> DEFINE m == q.x * lo.y
    <3>1. m \in Int
      BY <2>3
    <3> HIDE DEF m
    <3> QED BY <2>1, <3>1, QuotRem DEF m
  <2>6. x \in {h.baspect.x + Quot(q.y * hi.x, hi.y), p.x}
        /\ y \in {h.baspect.y + Quot(q.x * lo.y, lo.x), p.y}
    OBVIOUS
  <2> HIDE DEF x, y
  <2>7. x \in Int /\ y \in Int
    BY <1>1, <2>4, <2>5, <2>6
  <2>8. Pt(x, y) \in Points /\ Pt(x, y).x = x /\ Pt(x, y).y = y
    BY <2>7, PtIs
  <2>9. ASSUME p.x >= 0, p.y >= 0, q.x >= 0, h.baspect.x >= 0, h.baspect.y >= 0
        PROVE  x >= 0 /\ y >= 0
    BY <1>1, <2>3, <2>4, <2>5, <2>6, <2>9
  <2> QED BY <1>2, <1>4, <2>8, <2>9
<1> QED BY <1>3, <1>4

(* The size that SizeHint gives a rectangle of size z.                     *)
Hinted(h, z) ==
  LET n == InSteps(h, WithinSizes(h, z))
  IN  InAspect(h, n, Pt(n.x - h.baspect.x, Most(n.y - h.baspect.y, 1)))

LEMMA HintedIs ==
  ASSUME NEW h \in Hints, NEW z \in Points
  PROVE  /\ Hinted(h, z) \in Points
         /\ h.aspect = ZR => /\ Hinted(h, z).x = Sized(z.x, h.min.x, h.max.x, h.base.x, h.inc.x)
                             /\ Hinted(h, z).y = Sized(z.y, h.min.y, h.max.y, h.base.y, h.inc.y)
         /\ ({h.min.x, h.min.y, h.max.x, h.max.y, h.base.x, h.base.y, h.baspect.x, h.baspect.y}
               \subseteq Nat
             /\ (h.aspect # ZR => h.baspect.x <= h.min.x /\ h.baspect.x <= h.max.x
                                  /\ h.baspect.x <= h.base.x))
              => Hinted(h, z).x \in Nat /\ Hinted(h, z).y \in Nat
<1> DEFINE n == InSteps(h, WithinSizes(h, z))
           a == n.x - h.baspect.x
           b == Most(n.y - h.baspect.y, 1)
           q == Pt(a, b)
<1>1. /\ n \in Points /\ n.x \in Int /\ n.y \in Int
      /\ n.x = Sized(z.x, h.min.x, h.max.x, h.base.x, h.inc.x)
      /\ n.y = Sized(z.y, h.min.y, h.max.y, h.base.y, h.inc.y)
  BY SizesAre DEF Points
<1>2. Hinted(h, z) = InAspect(h, n, q)
  BY DEF Hinted
<1> HIDE DEF n
<1>3. /\ {z.x, z.y, h.min.x, h.min.y, h.max.x, h.max.y, h.base.x, h.base.y,
          h.baspect.x, h.baspect.y} \subseteq Int
      /\ h.inc.x \in Nat \ {0} /\ h.inc.y \in Nat \ {0}
  BY DEF Hints, Points, Positive
<1>4. a \in Int /\ b \in Int /\ b >= 1
  BY <1>1, <1>3 DEF Most
<1> HIDE DEF b
<1>5. q \in Points /\ q.x = a /\ q.y = b
  BY <1>4, PtIs
<1> HIDE DEF q
<1>6. /\ InAspect(h, n, q) \in Points
      /\ h.aspect = ZR => InAspect(h, n, q) = n
      /\ (n.x >= 0 /\ n.y >= 0 /\ (h.aspect # ZR => q.x >= 0)
          /\ h.baspect.x >= 0 /\ h.baspect.y >= 0)
           => InAspect(h, n, q).x >= 0 /\ InAspect(h, n, q).y >= 0
  BY <1>1, <1>4, <1>5, AspectIs
<1>7. ASSUME {h.min.x, h.min.y, h.max.x, h.max.y, h.base.x, h.base.y, h.baspect.x, h.baspect.y}
               \subseteq Nat,
             h.aspect # ZR => h.baspect.x <= h.min.x /\ h.baspect.x <= h.max.x
                              /\ h.baspect.x <= h.base.x
      PROVE  Hinted(h, z).x \in Nat /\ Hinted(h, z).y \in Nat
  <2>1. \A u \in Int : u <= h.min.x /\ u <= h.max.x /\ u <= h.base.x => u <= n.x
    <3>1. /\ z.x \in Int /\ h.min.x \in Int /\ h.max.x \in Int /\ h.base.x \in Int
          /\ h.inc.x \in Nat \ {0}
      BY <1>3
    <3>2. \A u \in Int : u <= h.min.x /\ u <= h.max.x /\ u <= h.base.x
            => u <= Sized(z.x, h.min.x, h.max.x, h.base.x, h.inc.x)
      BY <3>1, SizedOk, Zenon
    <3> QED BY <1>1, <3>2
  <2>2. \A u \in Int : u <= h.min.y /\ u <= h.max.y /\ u <= h.base.y => u <= n.y
    <3>1. /\ z.y \in Int /\ h.min.y \in Int /\ h.max.y \in Int /\ h.base.y \in Int
          /\ h.inc.y \in Nat \ {0}
      BY <1>3
    <3>2. \A u \in Int : u <= h.min.y /\ u <= h.max.y /\ u <= h.base.y
            => u <= Sized(z.y, h.min.y, h.max.y, h.base.y, h.inc.y)
      BY <3>1, SizedOk, Zenon
    <3> QED BY <1>1, <3>2
  <2>3. 0 <= n.x /\ 0 <= n.y
    BY <1>1, <1>3, <1>7, <2>1, <2>2
  <2>4. h.aspect # ZR => q.x >= 0
    BY <1>1, <1>3, <1>5, <1>7, <2>1
  <2>5. InAspect(h, n, q).x >= 0 /\ InAspect(h, n, q).y >= 0
    BY <1>3, <1>6, <1>7, <2>3, <2>4
  <2>6. InAspect(h, n, q).x \in Int /\ InAspect(h, n, q).y \in Int
    BY <1>6 DEF Points
  <2> QED BY <1>2, <2>5, <2>6
<1> QED BY <1>1, <1>2, <1>6, <1>7

LEMMA SizeHintIs ==
  ASSUME NEW h \in Hints, NEW r \in Rects
  PROVE  LET s == SizeHint(h, r)
         IN  /\ s \in Rects /\ s.min = r.min
             /\ WidthOf(s) = Hinted(h, SizeOf(r)).x /\ HeightOf(s) = Hinted(h, SizeOf(r)).y
             /\ SizeOf(s) = Hinted(h, SizeOf(r))
<1> DEFINE z == Hinted(h, SizeOf(r))
           s == SizeHint(h, r)
<1>1. SizeOf(r) \in Points
  BY RectOps, Zero
<1>2. z \in Points
  BY <1>1, HintedIs
<1>3. s = [r EXCEPT !.max = AddPt(r.min, z)]
  BY DEF SizeHint, Hinted
<1> HIDE DEF z, s
<1>4. r.min \in Points /\ r.min.x \in Int /\ r.min.y \in Int /\ z.x \in Int /\ z.y \in Int
  BY <1>2 DEF Rects, Points
<1>5. AddPt(r.min, z) \in Points /\ AddPt(r.min, z).x = r.min.x + z.x
      /\ AddPt(r.min, z).y = r.min.y + z.y
  BY <1>2, <1>4, PointOps
<1>6. s \in Rects /\ s.min = r.min /\ s.max = AddPt(r.min, z)
  BY <1>3, <1>5 DEF Rects
<1>7. WidthOf(s) = z.x /\ HeightOf(s) = z.y
  BY <1>4, <1>5, <1>6 DEF WidthOf, HeightOf
<1>8. SizeOf(s) \in Points /\ SizeOf(s).x = z.x /\ SizeOf(s).y = z.y
  BY <1>6, <1>7, RectOps, Zero
<1>9. SizeOf(s) = z
  BY <1>2, <1>8 DEF Points
<1> QED BY <1>6, <1>7, <1>9 DEF z, s

LEMMA Sticks ==
  ASSUME NEW s \in Rects, NEW r \in Rects, NEW sticky
  PROVE  /\ Sticking(s, r, sticky) \in Rects
         /\ WidthOf(Sticking(s, r, sticky)) = WidthOf(s)
         /\ HeightOf(Sticking(s, r, sticky)) = HeightOf(s)
         /\ sticky = {"West", "North"} => Sticking(s, r, sticky) = s
<1> DEFINE x == IF sticky \cap Across = {"East"} THEN WidthOf(r) - WidthOf(s) ELSE 0
           y == IF sticky \cap Along = {"South"} THEN HeightOf(r) - HeightOf(s) ELSE 0
           d == Pt(x, y)
           t == RectAddPt(s, d)
<1>1. x \in Int /\ y \in Int
  BY Parts
<1>2. Sticking(s, r, sticky) = t
  BY DEF Sticking
<1>3. ASSUME sticky = {"West", "North"} PROVE x = 0 /\ y = 0
  <2>1. "East" \notin sticky /\ "South" \notin sticky
    BY <1>3
  <2>2. sticky \cap Across # {"East"} /\ sticky \cap Along # {"South"}
    BY <2>1
  <2> QED BY <2>2
<1> HIDE DEF x, y
<1>4. d \in Points /\ d.x = x /\ d.y = y
  BY <1>1, PtIs
<1> HIDE DEF d
<1>5. /\ t \in Rects
      /\ t.min.x = s.min.x + x /\ t.min.y = s.min.y + y
      /\ t.max.x = s.max.x + x /\ t.max.y = s.max.y + y
  BY <1>4, RectOps
<1> HIDE DEF t
<1>6. {s.min.x, s.min.y, s.max.x, s.max.y} \subseteq Int
  BY Parts
<1>7. WidthOf(t) = WidthOf(s) /\ HeightOf(t) = HeightOf(s)
  BY <1>1, <1>5, <1>6 DEF WidthOf, HeightOf
<1>8. ASSUME x = 0, y = 0 PROVE t = s
  <2>1. t.min.x = s.min.x /\ t.min.y = s.min.y /\ t.max.x = s.max.x /\ t.max.y = s.max.y
    BY <1>5, <1>6, <1>8
  <2> QED BY <1>5, <2>1, SameParts
<1> QED BY <1>2, <1>3, <1>5, <1>7, <1>8

(* What frame_gethints makes of hints that make sense makes sense.         *)
LEMMA SensibleSize ==
  ASSUME NEW c \in Windowed, Sensible(c.hints), NEW z \in Points
  PROVE  Hinted(FrameGetHints(c), z).x \in Nat /\ Hinted(FrameGetHints(c), z).y \in Nat
<1> DEFINE H == FrameGetHints(c)
           h == c.hints
           d == Around(c)
           l == LeastSize(h)
<1>1. /\ H \in Hints /\ H.aspect = h.aspect
      /\ H.min.x = l.x + d.x /\ H.min.y = l.y + d.y
      /\ H.max.x = h.max.x + d.x /\ H.max.y = h.max.y + d.y
      /\ H.base.x = h.base.x + d.x /\ H.base.y = h.base.y + d.y
      /\ H.baspect.x = h.baspect.x + d.x /\ H.baspect.y = h.baspect.y + d.y
  BY FrameHinted
<1>2. d.x \in Nat /\ d.y \in Nat
  BY AroundIs DEF Windowed
<1>3. l.x \in Nat /\ l.y \in Nat
  <2>1. h \in Hints /\ TitleH \in Nat
    BY FloatingAssumption DEF Windowed
  <2>2. l \in Points /\ l.x >= TitleH /\ l.y >= TitleH
    BY <2>1, Leasts
  <2> QED BY <2>1, <2>2 DEF Points
<1>4. /\ h.max.x \in Nat /\ h.max.y \in Nat /\ h.base.x \in Nat /\ h.base.y \in Nat
      /\ h.baspect.x \in Nat /\ h.baspect.y \in Nat
      /\ h.aspect # ZR => h.baspect.x <= l.x /\ h.baspect.x <= h.max.x /\ h.baspect.x <= h.base.x
  BY DEF Sensible
<1> HIDE DEF H, h, d, l
<1>5. {H.min.x, H.min.y, H.max.x, H.max.y, H.base.x, H.base.y, H.baspect.x, H.baspect.y}
        \subseteq Nat
  BY <1>1, <1>2, <1>3, <1>4
<1>6. H.aspect # ZR => H.baspect.x <= H.min.x /\ H.baspect.x <= H.max.x
                       /\ H.baspect.x <= H.base.x
  BY <1>1, <1>2, <1>3, <1>4
<1> QED BY <1>1, <1>5, <1>6, HintedIs DEF H

-----------------------------------------------------------------------------
(* Places on a screen.                                                     *)

LEMMA Greatest ==
  ASSUME NEW n \in Nat, NEW S \in SUBSET (1 .. n), S # {}, NEW f \in [S -> Int]
  PROVE  \E i \in S : \A j \in S : f[i] > f[j] \/ (f[i] = f[j] /\ i <= j)
<1> DEFINE Most1(i, T) == i \in T /\ \A j \in T : f[i] > f[j] \/ (f[i] = f[j] /\ i <= j)
           To(m) == S \cap (1 .. m)
           G == {m \in 0 .. n : To(m) = {} \/ \E i : Most1(i, To(m))}
<1>1. 0 \in G
  OBVIOUS
<1>2. ASSUME NEW m \in 0 .. n - 1, m \in G PROVE m + 1 \in G
  <2>1. m + 1 \in 0 .. n /\ m \in Nat
    OBVIOUS
  <2>2. CASE m + 1 \notin S
    <3>1. To(m + 1) = To(m)
      BY <2>1, <2>2
    <3> QED BY <1>2, <2>1, <3>1
  <2>3. CASE m + 1 \in S
    <3>1. To(m + 1) = To(m) \cup {m + 1}
      BY <2>1, <2>3
    <3>2. \A j \in To(m) : j \in S /\ j \in Int /\ f[j] \in Int /\ j < m + 1
      OBVIOUS
    <3>3. f[m + 1] \in Int
      BY <2>3
    <3> HIDE DEF To
    <3>4. CASE To(m) = {}
      <4>1. Most1(m + 1, To(m + 1))
        BY <2>1, <3>1, <3>4
      <4> HIDE DEF Most1
      <4> QED BY <2>1, <4>1
    <3>5. CASE To(m) # {}
      <4>1. PICK i : Most1(i, To(m))
        BY <1>2, <3>5
      <4>2. CASE f[m + 1] > f[i]
        <5>1. Most1(m + 1, To(m + 1))
          <6>1. \A j \in To(m) : f[m + 1] > f[j]
            BY <3>2, <3>3, <4>1, <4>2
          <6> QED BY <2>1, <3>1, <6>1
        <5> HIDE DEF Most1
        <5> QED BY <2>1, <5>1
      <4>3. CASE ~(f[m + 1] > f[i])
        <5>1. f[i] > f[m + 1] \/ (f[i] = f[m + 1] /\ i <= m + 1)
          BY <2>1, <3>2, <3>3, <4>1, <4>3
        <5>2. Most1(i, To(m + 1))
          BY <3>1, <4>1, <5>1
        <5> HIDE DEF Most1
        <5> QED BY <2>1, <5>2
      <4> QED BY <4>2, <4>3
    <3> QED BY <3>4, <3>5
  <2> QED BY <2>2, <2>3
<1> HIDE DEF G
<1>3. n \in G
  BY <1>1, <1>2, UpTo
<1>4. To(n) = S
  OBVIOUS
<1> QED BY <1>3, <1>4 DEF G

LEMMA Intersections ==
  ASSUME NEW r \in Rects, NEW i \in Rects
  PROVE  LET m == RectIntersection(r, i)
         IN  /\ m \in Rects /\ WidthOf(m) \in Int /\ HeightOf(m) \in Int
             /\ WidthOf(m) = Least(r.max.x, i.max.x) - Most(r.min.x, i.min.x)
             /\ HeightOf(m) = Least(r.max.y, i.max.y) - Most(r.min.y, i.min.y)
<1> DEFINE x0 == Most(r.min.x, i.min.x)
           y0 == Most(r.min.y, i.min.y)
           x1 == Least(r.max.x, i.max.x)
           y1 == Least(r.max.y, i.max.y)
           m == Rect(x0, y0, x1, y1)
<1>1. {r.min.x, r.min.y, r.max.x, r.max.y, i.min.x, i.min.y, i.max.x, i.max.y} \subseteq Int
  BY Parts
<1>2. x0 \in Int /\ y0 \in Int /\ x1 \in Int /\ y1 \in Int
  BY <1>1 DEF Most, Least
<1>3. RectIntersection(r, i) = m
  BY DEF RectIntersection
<1> HIDE DEF x0, y0, x1, y1
<1>4. m \in Rects /\ m.min.x = x0 /\ m.min.y = y0 /\ m.max.x = x1 /\ m.max.y = y1
  BY <1>2, RectIs
<1> HIDE DEF m
<1>5. WidthOf(m) = x1 - x0 /\ HeightOf(m) = y1 - y0
  <2>1. WidthOf(m) = m.max.x - m.min.x /\ HeightOf(m) = m.max.y - m.min.y
    BY Zenon DEF WidthOf, HeightOf
  <2> QED BY ONLY <1>4, <2>1, Zenon
<1> QED BY <1>2, <1>3, <1>4, <1>5 DEF x0, y0, x1, y1

LEMMA InsideIs ==
  ASSUME NEW s \in DOMAIN Screens
  PROVE  LET i == Inside(s)
             r == Screens[s].r
         IN  /\ i \in Rects /\ r \in Rects /\ Screens[s].vr \in Rects
             /\ i.min.x = r.min.x + BarH /\ i.min.y = r.min.y + BarH
             /\ i.max.x = r.max.x - BarH /\ i.max.y = r.max.y - BarH
             /\ i.min.x <= i.max.x /\ i.min.y <= i.max.y
<1> DEFINE r == Screens[s].r
           x0 == r.min.x + BarH
           y0 == r.min.y + BarH
           x1 == r.max.x - BarH
           y1 == r.max.y - BarH
<1>1. r \in Rects /\ Screens[s].vr \in Rects /\ BarH \in Nat
      /\ WidthOf(r) >= 2 * BarH /\ HeightOf(r) >= 2 * BarH
  <2>1. Screens[s] \in [r : Rects, vr : Rects]
    <3> DEFINE T == [r : Rects, vr : Rects]
    <3>1. Screens \in Seq(T)
      BY FloatingAssumption
    <3> HIDE DEF T
    <3>2. s \in 1 .. Len(Screens)
      BY <3>1
    <3>3. Screens[s] \in T
      BY <3>1, <3>2, ElementOfSeq
    <3> QED BY <3>3 DEF T
  <2>2. r \in Rects /\ Screens[s].vr \in Rects
    BY <2>1
  <2>3. WidthOf(r) >= 2 * BarH /\ HeightOf(r) >= 2 * BarH
    BY FloatingAssumption, Zenon
  <2>4. BarH \in Nat
    BY FloatingAssumption
  <2> QED BY <2>2, <2>3, <2>4
<1>2. /\ {r.min.x, r.min.y, r.max.x, r.max.y} \subseteq Int
      /\ WidthOf(r) = r.max.x - r.min.x /\ HeightOf(r) = r.max.y - r.min.y
  BY <1>1, Parts
<1> HIDE DEF r
<1>3. x0 \in Int /\ y0 \in Int /\ x1 \in Int /\ y1 \in Int /\ x0 <= x1 /\ y0 <= y1
  BY <1>1, <1>2
<1>4. Inside(s) = Rect(x0, y0, x1, y1)
  BY DEF Inside, InsetRect, r
<1> HIDE DEF x0, y0, x1, y1
<1>5. /\ Rect(x0, y0, x1, y1) \in Rects
      /\ Rect(x0, y0, x1, y1).min.x = x0 /\ Rect(x0, y0, x1, y1).min.y = y0
      /\ Rect(x0, y0, x1, y1).max.x = x1 /\ Rect(x0, y0, x1, y1).max.y = y1
  BY <1>3, RectIs
<1> QED BY <1>1, <1>3, <1>4, <1>5 DEF x0, y0, x1, y1, r

LEMMA MeetsIs ==
  ASSUME NEW r \in Rects
  PROVE  Meets(r) <=> \E s \in DOMAIN Screens :
                        LET i == Inside(s)
                        IN  /\ Most(r.min.x, i.min.x) <= Least(r.max.x, i.max.x)
                            /\ Most(r.min.y, i.min.y) <= Least(r.max.y, i.max.y)
<1> SUFFICES ASSUME NEW s \in DOMAIN Screens
             PROVE  LET i == Inside(s)
                        m == RectIntersection(r, i)
                    IN  (WidthOf(m) >= 0 /\ HeightOf(m) >= 0)
                        <=> (/\ Most(r.min.x, i.min.x) <= Least(r.max.x, i.max.x)
                             /\ Most(r.min.y, i.min.y) <= Least(r.max.y, i.max.y))
  BY DEF Meets
<1> DEFINE i == Inside(s)
           m == RectIntersection(r, i)
           x0 == Most(r.min.x, i.min.x)
           y0 == Most(r.min.y, i.min.y)
           x1 == Least(r.max.x, i.max.x)
           y1 == Least(r.max.y, i.max.y)
<1>1. i \in Rects
  BY InsideIs
<1> HIDE DEF i
<1>2. WidthOf(m) = x1 - x0 /\ HeightOf(m) = y1 - y0
  BY <1>1, Intersections
<1>3. {r.min.x, r.min.y, r.max.x, r.max.y, i.min.x, i.min.y, i.max.x, i.max.y} \subseteq Int
  BY <1>1, Parts
<1>4. x0 \in Int /\ y0 \in Int /\ x1 \in Int /\ y1 \in Int
  BY <1>3 DEF Most, Least
<1> HIDE DEF x0, y0, x1, y1
<1>5. (WidthOf(m) >= 0 /\ HeightOf(m) >= 0) <=> (x0 <= x1 /\ y0 <= y1)
  BY <1>2, <1>4
<1> QED BY <1>5 DEF i, x0, y0, x1, y1

(* What reaches as far as something that meets a screen meets one, too.    *)
LEMMA MeetsWider ==
  ASSUME NEW r \in Rects, NEW q \in Rects, Meets(r), RectContains(q, r)
  PROVE  Meets(q)
<1>1. PICK s \in DOMAIN Screens :
         LET i == Inside(s)
         IN  /\ Most(r.min.x, i.min.x) <= Least(r.max.x, i.max.x)
             /\ Most(r.min.y, i.min.y) <= Least(r.max.y, i.max.y)
  BY MeetsIs
<1> DEFINE i == Inside(s)
<1>2. i \in Rects
  BY InsideIs
<1>3. /\ Most(r.min.x, i.min.x) <= Least(r.max.x, i.max.x)
      /\ Most(r.min.y, i.min.y) <= Least(r.max.y, i.max.y)
  BY <1>1
<1> HIDE DEF i
<1>4. /\ {r.min.x, r.min.y, r.max.x, r.max.y, i.min.x, i.min.y, i.max.x, i.max.y} \subseteq Int
      /\ {q.min.x, q.min.y, q.max.x, q.max.y} \subseteq Int
  BY <1>2, Parts
<1>5. /\ Most(q.min.x, i.min.x) <= Least(q.max.x, i.max.x)
      /\ Most(q.min.y, i.min.y) <= Least(q.max.y, i.max.y)
  BY <1>3, <1>4 DEF Most, Least, RectContains
<1> QED BY <1>5, MeetsIs DEF i

LEMMA NearestScreen ==
  ASSUME NEW r \in Rects
  PROVE  FirstMost(DOMAIN Screens, LAMBDA s : Nearness(r, s)) \in DOMAIN Screens
<1> DEFINE S == DOMAIN Screens
           f == [s \in S |-> Nearness(r, s)]
<1>1. \A s \in S : Nearness(r, s) \in Int
  <2> TAKE s \in S
  <2> DEFINE i == RectIntersection(r, Inside(s))
  <2>1. WidthOf(i) \in Int /\ HeightOf(i) \in Int
    BY InsideIs, Intersections
  <2> HIDE DEF i
  <2>2. Nearness(r, s) = IF WidthOf(i) <= 0 /\ HeightOf(i) <= 0
                         THEN Most(WidthOf(i), HeightOf(i)) ELSE Least(WidthOf(i), HeightOf(i))
    BY DEF Nearness, i
  <2> QED BY <2>1, <2>2 DEF Most, Least
<1>2. f \in [S -> Int]
  BY <1>1
<1>3. S = 1 .. Len(Screens) /\ Len(Screens) \in Nat /\ S # {}
  BY FloatingAssumption
<1>4. \A s \in S : f[s] = Nearness(r, s)
  OBVIOUS
<1> HIDE DEF S, f
<1>5. PICK i \in S : \A j \in S : f[i] > f[j] \/ (f[i] = f[j] /\ i <= j)
  BY <1>2, <1>3, Greatest
<1>6. \A j \in S : Nearness(r, i) > Nearness(r, j) \/ (Nearness(r, i) = Nearness(r, j) /\ i <= j)
  BY <1>4, <1>5
<1>7. FirstMost(S, LAMBDA s : Nearness(r, s))
      = CHOOSE k \in S : \A j \in S : Nearness(r, k) > Nearness(r, j)
                                     \/ (Nearness(r, k) = Nearness(r, j) /\ k <= j)
  BY DEF FirstMost
<1>8. FirstMost(S, LAMBDA s : Nearness(r, s)) \in S
  BY <1>6, <1>7, Zenon
<1> QED BY <1>8 DEF S

LEMMA Constrained ==
  ASSUME NEW r \in Rects
  PROVE  LET q == Constrain(r)
         IN  /\ q \in Rects /\ WidthOf(q) = WidthOf(r) /\ HeightOf(q) = HeightOf(r)
             /\ Meets(r) => q = r
             /\ WidthOf(r) >= 0 /\ HeightOf(r) >= 0 => Meets(q)
<1>1. CASE Meets(r)
  BY <1>1, Parts DEF Constrain
<1>2. CASE ~Meets(r)
  <2> DEFINE s == FirstMost(DOMAIN Screens, LAMBDA t : Nearness(r, t))
             i == Inside(s)
             x == -Least(r.max.x - i.min.x, 0) - Most(r.min.x - i.max.x, 0)
             y == -Least(r.max.y - i.min.y, 0) - Most(r.min.y - i.max.y, 0)
             d == Pt(x, y)
             q == RectAddPt(r, d)
  <2>1. s \in DOMAIN Screens
    BY NearestScreen
  <2>2. Constrain(r) = q
    BY <1>2 DEF Constrain, MovedTo
  <2> HIDE DEF s
  <2>3. i \in Rects /\ i.min.x <= i.max.x /\ i.min.y <= i.max.y
    BY <2>1, InsideIs
  <2> HIDE DEF i
  <2>4. {r.min.x, r.min.y, r.max.x, r.max.y, i.min.x, i.min.y, i.max.x, i.max.y} \subseteq Int
    BY <2>3, Parts
  <2>5. x \in Int /\ y \in Int
    BY <2>4 DEF Most, Least
  <2>6. ASSUME r.min.x <= r.max.x
        PROVE  Most(r.min.x + x, i.min.x) <= Least(r.max.x + x, i.max.x)
    BY <2>3, <2>4, <2>6 DEF Most, Least
  <2>7. ASSUME r.min.y <= r.max.y
        PROVE  Most(r.min.y + y, i.min.y) <= Least(r.max.y + y, i.max.y)
    BY <2>3, <2>4, <2>7 DEF Most, Least
  <2> HIDE DEF x, y
  <2>8. d \in Points /\ d.x = x /\ d.y = y
    BY <2>5, PtIs
  <2> HIDE DEF d
  <2>9. /\ q \in Rects
        /\ q.min.x = r.min.x + x /\ q.min.y = r.min.y + y
        /\ q.max.x = r.max.x + x /\ q.max.y = r.max.y + y
    BY <2>8, RectOps
  <2> HIDE DEF q
  <2>10. WidthOf(q) = WidthOf(r) /\ HeightOf(q) = HeightOf(r)
    BY <2>4, <2>5, <2>9 DEF WidthOf, HeightOf
  <2>11. ASSUME WidthOf(r) >= 0, HeightOf(r) >= 0 PROVE Meets(q)
    <3>1. r.min.x <= r.max.x /\ r.min.y <= r.max.y
      BY <2>4, <2>11 DEF WidthOf, HeightOf
    <3>2. /\ Most(q.min.x, i.min.x) <= Least(q.max.x, i.max.x)
          /\ Most(q.min.y, i.min.y) <= Least(q.max.y, i.max.y)
      BY <2>6, <2>7, <2>9, <3>1
    <3> QED BY <2>1, <2>9, <3>2, MeetsIs DEF i
  <2> QED BY <1>2, <2>2, <2>9, <2>10, <2>11
<1> QED BY <1>1, <1>2
-----------------------------------------------------------------------------
(* frame_resize.                                                           *)

LEMMA WidenedIs ==
  ASSUME NEW q \in Rects
  PROVE  LET v == Widened(q)
         IN  /\ v \in Rects /\ v.min = q.min /\ v.max.y = q.max.y
             /\ WidthOf(v) = Most(WidthOf(q), 2 * TitleH) /\ HeightOf(v) = HeightOf(q)
             /\ RectContains(v, q)
             /\ WidthOf(q) >= 2 * TitleH => v = q
<1> DEFINE v == Widened(q)
<1>1. {q.min.x, q.min.y, q.max.x, q.max.y} \subseteq Int /\ TitleH \in Nat
  BY Parts, FloatingAssumption
<1>2. v = [q EXCEPT !.max = [q.max EXCEPT !.x = Most(q.max.x, q.min.x + 2 * TitleH)]]
  BY DEF Widened, Rects
<1>3. Most(q.max.x, q.min.x + 2 * TitleH) \in Int
  BY <1>1 DEF Most
<1> HIDE DEF v
<1>4. /\ v \in Rects /\ v.min = q.min /\ v.max.y = q.max.y
      /\ v.max.x = Most(q.max.x, q.min.x + 2 * TitleH)
  BY <1>2, <1>3 DEF Rects, Points
<1>5. WidthOf(v) = Most(WidthOf(q), 2 * TitleH) /\ HeightOf(v) = HeightOf(q)
  BY <1>1, <1>4 DEF WidthOf, HeightOf, Most
<1>6. RectContains(v, q)
  BY <1>1, <1>4 DEF RectContains, Most
<1>7. ASSUME WidthOf(q) >= 2 * TitleH PROVE v = q
  <2>1. v.max.x = q.max.x
    BY <1>1, <1>4, <1>7 DEF WidthOf, Most
  <2> QED BY <1>4, <2>1, SameParts
<1> QED BY <1>4, <1>5, <1>6, <1>7 DEF v

LEMMA FullIs ==
  ASSUME NEW f, NEW r \in Rects
  PROVE  LET q == Full(f, r)
         IN  /\ q \in Rects /\ q.min = r.min
             /\ WidthOf(r) > 0 => WidthOf(q) = WidthOf(r)
             /\ WidthOf(r) > 0 /\ HeightOf(r) > 0 => q = r
             /\ WidthOf(r) > 0 /\ HeightOf(r) = 0 /\ ~f.collapsed => HeightOf(q) = 1
<1> DEFINE x == Most(r.min.x + 1, r.max.x)
           y == Most(r.min.y + 1, r.max.y)
           m == Pt(x, y)
           p == [r EXCEPT !.max = m]
<1>1. {r.min.x, r.min.y, r.max.x, r.max.y} \subseteq Int
      /\ WidthOf(r) = r.max.x - r.min.x /\ HeightOf(r) = r.max.y - r.min.y
  BY Parts
<1>2. x \in Int /\ y \in Int
  BY <1>1 DEF Most
<1>3. Full(f, r) \in {p, r} /\ (WidthOf(r) > 0 /\ HeightOf(r) > 0 => Full(f, r) = r)
      /\ (WidthOf(r) > 0 /\ HeightOf(r) = 0 /\ ~f.collapsed => Full(f, r) = p)
  BY <1>1 DEF Full, Rects
<1>4. WidthOf(r) > 0 => x = r.max.x
  BY <1>1 DEF Most
<1>5. HeightOf(r) = 0 => y = r.min.y + 1
  BY <1>1 DEF Most
<1> HIDE DEF x, y
<1>6. m \in Points /\ m.x = x /\ m.y = y
  BY <1>2, PtIs
<1> HIDE DEF m
<1>7. p \in Rects /\ p.min = r.min /\ p.max = m
  BY <1>6 DEF Rects
<1> HIDE DEF p
<1>8. /\ WidthOf(r) > 0 => WidthOf(p) = WidthOf(r)
      /\ HeightOf(r) = 0 => HeightOf(p) = 1
  BY <1>1, <1>2, <1>4, <1>5, <1>6, <1>7 DEF WidthOf, HeightOf
<1> QED BY <1>3, <1>7, <1>8

LEMMA AllowedIs ==
  ASSUME NEW f \in Windowed, NEW r \in Rects
  PROVE  LET z == Hinted(FrameGetHints(f), SizeOf(r))
             v == Allowed(f, r)
         IN  /\ v \in Rects
             /\ WidthOf(v) = Most(z.x, 2 * TitleH) /\ HeightOf(v) = z.y
             /\ Sensible(f.hints) => \E q \in Rects : /\ Meets(q) /\ q.min = v.min
                                                      /\ WidthOf(q) = z.x /\ HeightOf(q) = z.y
                                                      /\ RectContains(v, q)
<1> DEFINE H == FrameGetHints(f)
           z == Hinted(H, SizeOf(r))
           sticky == GetSticky(f.r, r)
           s == FrameHints(f, r, sticky)
           q == Constrain(s)
           v == Widened(q)
<1>1. H \in Hints /\ SizeOf(r) \in Points
  BY FrameHinted, RectOps, Zero
<1>2. Sensible(f.hints) => z.x \in Nat /\ z.y \in Nat
  BY <1>1, SensibleSize
<1>3. s = Sticking(SizeHint(H, r), r, sticky)
  BY DEF FrameHints
<1>4. Allowed(f, r) = v
  BY DEF Allowed
<1> HIDE DEF H, sticky
<1>5. /\ SizeHint(H, r) \in Rects
      /\ WidthOf(SizeHint(H, r)) = z.x /\ HeightOf(SizeHint(H, r)) = z.y
  BY <1>1, SizeHintIs
<1> HIDE DEF z, s
<1>6. s \in Rects /\ WidthOf(s) = z.x /\ HeightOf(s) = z.y
  BY <1>3, <1>5, Sticks
<1>7. /\ q \in Rects /\ WidthOf(q) = z.x /\ HeightOf(q) = z.y
      /\ z.x >= 0 /\ z.y >= 0 => Meets(q)
  BY <1>6, Constrained
<1> HIDE DEF q
<1>8. /\ v \in Rects /\ v.min = q.min /\ RectContains(v, q)
      /\ WidthOf(v) = Most(z.x, 2 * TitleH) /\ HeightOf(v) = z.y
  BY <1>7, WidenedIs
<1> HIDE DEF v
<1>9. Sensible(f.hints) => Meets(q)
  BY <1>2, <1>7
<1>10. q \in Rects /\ q.min = v.min /\ WidthOf(q) = z.x /\ HeightOf(q) = z.y
  BY <1>7, <1>8
<1> QED BY <1>4, <1>8, <1>9, <1>10 DEF z, H

LEMMA TakenIs ==
  ASSUME NEW f \in Windowed, NEW r \in Rects
  PROVE  LET x == Taken(f, r)
         IN  /\ x \in Windowed
             /\ x.hints = f.hints /\ x.bare = f.bare /\ x.collapsed = f.collapsed
             /\ ~f.collapsed => x.r = r /\ x.floatr = r
             /\ (~f.collapsed /\ f.r = r /\ f.floatr = r) => x = f
<1>1. CASE f.collapsed
  <2> DEFINE y == r.min.y + TitleH
             s == [r EXCEPT !.max = [r.max EXCEPT !.y = y]]
  <2>1. y \in Int
    BY Parts, FloatingAssumption
  <2> HIDE DEF y
  <2>2. s \in Rects
    BY <2>1 DEF Rects, Points
  <2>3. Taken(f, r) = [f EXCEPT !.r = s]
    BY <1>1 DEF Taken, y, Rects
  <2> HIDE DEF s
  <2> QED BY <1>1, <2>2, <2>3 DEF Windowed
<1>2. CASE ~f.collapsed
  <2>1. Taken(f, r) = [f EXCEPT !.r = r, !.floatr = r]
    BY <1>2 DEF Taken
  <2>2. (f.r = r /\ f.floatr = r) => [f EXCEPT !.r = r, !.floatr = r] = f
    BY DEF Windowed
  <2> QED BY <1>2, <2>1, <2>2 DEF Windowed
<1> QED BY <1>1, <1>2

(* A frame is within reach, as far as its hints make sense.                *)
Fits(c) == ~c.collapsed /\ Sensible(c.hints) => Meets(c.r)

(* It stays as it is.                                                      *)
Stable(c) == FrameResize(c, c.r) = c
Rests(c) == ~c.collapsed /\ Agreeable(c.hints)
            => \E bare \in Decorations : Stable([c EXCEPT !.bare = bare])

LEMMA ResizedFits ==
  ASSUME NEW f \in Windowed, NEW r \in Rects
  PROVE  LET x == FrameResize(f, r)
         IN  /\ x \in Windowed /\ Fits(x)
             /\ x.hints = f.hints /\ x.bare = f.bare /\ x.collapsed = f.collapsed
             /\ ~f.collapsed => x.r = Allowed(f, Full(f, r)) /\ x.floatr = x.r
<1> DEFINE q == Full(f, r)
           v == Allowed(f, q)
           x == Taken(f, v)
<1>1. q \in Rects
  BY FullIs
<1>2. FrameResize(f, r) = x
  BY DEF FrameResize
<1> HIDE DEF q
<1>3. v \in Rects
      /\ (Sensible(f.hints) => \E p \in Rects : Meets(p) /\ RectContains(v, p))
  BY <1>1, AllowedIs
<1> HIDE DEF v
<1>4. /\ x \in Windowed
      /\ x.hints = f.hints /\ x.bare = f.bare /\ x.collapsed = f.collapsed
      /\ ~f.collapsed => x.r = v /\ x.floatr = v
  BY <1>3, TakenIs
<1> HIDE DEF x
<1>5. Fits(x)
  <2> SUFFICES ASSUME ~x.collapsed, Sensible(x.hints) PROVE Meets(x.r)
    BY DEF Fits
  <2>1. x.r = v /\ Sensible(f.hints)
    BY <1>4
  <2>2. PICK p \in Rects : Meets(p) /\ RectContains(v, p)
    BY <1>3, <2>1
  <2> QED BY <1>3, <2>1, <2>2, MeetsWider
<1> QED BY <1>2, <1>4, <1>5 DEF v, q

LEMMA Unmoved ==
  ASSUME NEW r \in Rects, NEW q \in Rects, r.min = q.min
  PROVE  GetSticky(r, q) = {"West", "North"}
  BY DEF GetSticky

LEMMA SameHints ==
  ASSUME NEW c, NEW x, c.hints = x.hints, c.bare = x.bare
  PROVE  FrameGetHints(c) = FrameGetHints(x)
<1>1. Edge(c) = Edge(x) /\ Top(c) = Top(x)
  BY DEF Edge, Top
<1>2. FrameClient2Rect(c, ZR) = FrameClient2Rect(x, ZR)
  BY <1>1 DEF FrameClient2Rect
<1> QED BY <1>2 DEF FrameGetHints

(* A frame that has the size it is given again, or was given only a height *)
(* or a width more, stays as it is.                                        *)
LEMMA StaysPut ==
  ASSUME NEW x \in Windowed, ~x.collapsed, x.floatr = x.r,
         NEW q \in Rects, Meets(q), q.min = x.r.min, WidthOf(q) <= WidthOf(x.r),
         WidthOf(x.r) >= 2 * TitleH, HeightOf(q) = HeightOf(x.r), HeightOf(x.r) >= 0,
         LET p == SizeOf(Full(x, x.r))
             z == Hinted(FrameGetHints(x), p)
         IN  WidthOf(q) <= z.x /\ z.y = HeightOf(x.r)
             /\ Most(z.x, 2 * TitleH) = WidthOf(x.r)
  PROVE  Stable(x)
<1> DEFINE v == x.r
           r == Full(x, v)
           H == FrameGetHints(x)
           z == Hinted(H, SizeOf(r))
           s == SizeHint(H, r)
<1>1. v \in Rects /\ H \in Hints /\ TitleH \in Nat /\ TitleH > 3
  BY FrameHinted, FloatingAssumption DEF Windowed
<1>2. /\ {v.min.x, v.min.y, v.max.x, v.max.y, q.min.x, q.min.y, q.max.x, q.max.y} \subseteq Int
      /\ WidthOf(v) \in Int /\ HeightOf(v) \in Int /\ WidthOf(q) \in Int
  BY <1>1, Parts
<1>3. r \in Rects /\ r.min = v.min
  BY <1>1, FullIs
<1>4. FrameResize(x, v) = Taken(x, Allowed(x, r))
  BY DEF FrameResize
<1>5. /\ WidthOf(q) <= z.x /\ z.y = HeightOf(v) /\ Most(z.x, 2 * TitleH) = WidthOf(v)
  OBVIOUS
<1>6. GetSticky(x.r, r) = {"West", "North"}
  BY <1>1, <1>3, Unmoved
<1> HIDE DEF r, H
<1>7. s \in Rects /\ s.min = r.min /\ WidthOf(s) = z.x /\ HeightOf(s) = z.y
  BY <1>1, <1>3, SizeHintIs
<1>8. FrameHints(x, r, GetSticky(x.r, r)) = s
  BY <1>3, <1>6, <1>7, Sticks DEF FrameHints, H
<1> HIDE DEF s, z
<1>9. RectContains(s, q)
  <2>1. {s.min.x, s.min.y, s.max.x, s.max.y} \subseteq Int
    BY <1>7, Parts
  <2> QED BY <1>2, <1>3, <1>5, <1>7, <2>1 DEF RectContains, WidthOf, HeightOf
<1>10. Constrain(s) = s
  BY <1>7, <1>9, MeetsWider, Constrained
<1>11. Allowed(x, r) = Widened(s)
  BY <1>8, <1>10 DEF Allowed
<1>12. /\ Widened(s) \in Rects /\ Widened(s).min = s.min
       /\ WidthOf(Widened(s)) = WidthOf(v) /\ HeightOf(Widened(s)) = HeightOf(v)
  BY <1>5, <1>7, WidenedIs
<1>13. Widened(s) = v
  BY <1>1, <1>3, <1>7, <1>12, SameSizes
<1>14. Taken(x, v) = x
  BY <1>1, TakenIs
<1> QED BY <1>4, <1>11, <1>13, <1>14 DEF Stable

LEMMA Settles ==
  ASSUME NEW f \in Windowed, NEW r \in Rects, ~f.collapsed, Agreeable(f.hints)
  PROVE  Stable(FrameResize(f, r))
<1> DEFINE r1 == Full(f, r)
           H == FrameGetHints(f)
           z == Hinted(H, SizeOf(r1))
           x == FrameResize(f, r)
           v == x.r
           r2 == Full(x, v)
           y == Hinted(H, SizeOf(r2))
           X(n) == Sized(n, H.min.x, H.max.x, H.base.x, H.inc.x)
           Y(n) == Sized(n, H.min.y, H.max.y, H.base.y, H.inc.y)
<1>1. r1 \in Rects
  BY FullIs
<1>2. /\ x \in Windowed /\ x.hints = f.hints /\ x.bare = f.bare /\ ~x.collapsed
      /\ v = Allowed(f, r1) /\ x.floatr = v
  BY ResizedFits
<1> HIDE DEF x
<1>3. FrameGetHints(x) = H
  BY <1>2, SameHints
<1>4. Sensible(f.hints) /\ f.hints.aspect = ZR
  BY DEF Agreeable
<1>5. /\ H \in Hints /\ H.aspect = ZR
      /\ H.inc.x > 1 => H.min.x >= 2 * TitleH
      /\ H.min.y \in Nat \ {0} /\ H.max.y >= 0 /\ H.base.y >= 0
  <2> DEFINE h == f.hints
             d == Around(f)
             l == LeastSize(h)
  <2>1. /\ H \in Hints /\ H.inc = h.inc /\ H.aspect = h.aspect
        /\ H.min.x = l.x + d.x /\ H.min.y = l.y + d.y
        /\ H.max.y = h.max.y + d.y /\ H.base.y = h.base.y + d.y
    BY FrameHinted
  <2>2. d.x \in Nat /\ d.y \in Nat
    BY AroundIs DEF Windowed
  <2>3. TitleH \in Nat /\ TitleH > 3
    BY FloatingAssumption
  <2>4. /\ l \in Points /\ l.y >= TitleH /\ (h.min.x >= 2 * TitleH => l.x >= 2 * TitleH)
    BY Leasts DEF Windowed
  <2>5. l.x \in Int /\ l.y \in Int
    BY <2>4 DEF Points
  <2>6. h.max.y \in Nat /\ h.base.y \in Nat
    BY <1>4 DEF Sensible
  <2>7. h.inc.x > 1 => h.min.x >= 2 * TitleH
    BY DEF Agreeable
  <2> HIDE DEF H, h, d, l
  <2>8. H.min.y \in Nat \ {0} /\ H.max.y >= 0 /\ H.base.y >= 0
    BY <2>1, <2>2, <2>3, <2>4, <2>5, <2>6
  <2>9. H.inc.x > 1 => H.min.x >= 2 * TitleH
    BY <2>1, <2>2, <2>3, <2>4, <2>5, <2>7
  <2>10. h.aspect = ZR
    BY <1>4 DEF h
  <2> QED BY <2>1, <2>8, <2>9, <2>10
<1>6. /\ v \in Rects /\ WidthOf(v) = Most(z.x, 2 * TitleH) /\ HeightOf(v) = z.y
      /\ \E q \in Rects : /\ Meets(q) /\ q.min = v.min
                          /\ WidthOf(q) = z.x /\ HeightOf(q) = z.y
  BY <1>1, <1>2, <1>4, AllowedIs
<1>7. SizeOf(r1) \in Points /\ SizeOf(r1).x \in Int /\ SizeOf(r1).y \in Int
  BY <1>1, RectOps, Zero, Parts
<1>8. z.x \in Nat /\ z.y \in Nat
  BY <1>4, <1>7, SensibleSize
<1>9. z.x = X(SizeOf(r1).x) /\ z.y = Y(SizeOf(r1).y)
  BY <1>5, <1>7, HintedIs
<1>10. r2 \in Rects /\ (WidthOf(v) > 0 => WidthOf(r2) = WidthOf(v))
       /\ (WidthOf(v) > 0 /\ HeightOf(v) > 0 => r2 = v)
       /\ (WidthOf(v) > 0 /\ HeightOf(v) = 0 => HeightOf(r2) = 1)
  BY <1>2, <1>6, FullIs
<1>11. SizeOf(r2) \in Points /\ SizeOf(r2).x = WidthOf(r2) /\ SizeOf(r2).y = HeightOf(r2)
  BY <1>10, RectOps, Zero
<1>12. y.x = X(WidthOf(r2)) /\ y.y = Y(HeightOf(r2))
  BY <1>5, <1>11, HintedIs
<1>13. /\ {H.min.x, H.min.y, H.max.x, H.max.y, H.base.x, H.base.y} \subseteq Int
       /\ H.inc.x \in Nat \ {0} /\ H.inc.y \in Nat \ {0}
  BY <1>5 DEF Hints, Points, Positive
<1>14. TitleH \in Nat /\ TitleH > 3
  BY FloatingAssumption
<1> HIDE DEF H, z, v, r1, r2, y
<1>15. WidthOf(r2) = Most(z.x, 2 * TitleH) /\ WidthOf(v) > 0 /\ WidthOf(v) >= 2 * TitleH
       /\ z.x <= WidthOf(v)
  BY <1>6, <1>8, <1>10, <1>14 DEF Most
<1>16. Y(z.y) = z.y /\ X(z.x) = z.x
  <2>1. X(SizeOf(r1).x) = X(X(SizeOf(r1).x))
    <3> DEFINE n == SizeOf(r1).x
    <3>1. /\ n \in Int /\ H.min.x \in Int /\ H.max.x \in Int /\ H.base.x \in Int
          /\ H.inc.x \in Nat \ {0}
      BY <1>7, <1>13
    <3> HIDE DEF n
    <3>2. X(X(n)) = X(n)
      BY <3>1, SizedTwice
    <3> QED BY <3>2 DEF n
  <2>2. Y(SizeOf(r1).y) = Y(Y(SizeOf(r1).y))
    <3> DEFINE n == SizeOf(r1).y
    <3>1. /\ n \in Int /\ H.min.y \in Int /\ H.max.y \in Int /\ H.base.y \in Int
          /\ H.inc.y \in Nat \ {0}
      BY <1>7, <1>13
    <3> HIDE DEF n
    <3>2. Y(Y(n)) = Y(n)
      BY <3>1, SizedTwice
    <3> QED BY <3>2 DEF n
  <2> QED BY <1>9, <2>1, <2>2
<1>17. y.y = z.y
  <2>1. CASE z.y = 0
    <3>1. HeightOf(r2) = 1
      BY <1>6, <1>10, <1>15, <2>1
    <3>2. Y(1) = 0
      <4>1. Y(SizeOf(r1).y) = 0
        BY <1>9, <2>1
      <4>2. /\ SizeOf(r1).y \in Int /\ H.min.y \in Nat \ {0} /\ H.max.y \in Int
            /\ H.base.y \in Int /\ H.inc.y \in Nat \ {0} /\ H.max.y >= 0 /\ H.base.y >= 0
        BY <1>5, <1>7, <1>13
      <4> QED BY <4>1, <4>2, SizedEmpty
    <3> QED BY <1>12, <2>1, <3>1, <3>2
  <2>2. CASE z.y # 0
    <3>1. HeightOf(r2) = z.y
      BY <1>6, <1>8, <1>10, <1>15, <2>2
    <3> QED BY <1>12, <1>16, <3>1
  <2> QED BY <2>1, <2>2
<1>18. z.x <= y.x /\ Most(y.x, 2 * TitleH) = WidthOf(v)
  <2>1. CASE z.x >= 2 * TitleH
    <3>1. WidthOf(r2) = z.x /\ WidthOf(v) = z.x
      BY <1>6, <1>8, <1>14, <1>15, <2>1 DEF Most
    <3>2. y.x = z.x
      BY <1>12, <1>16, <3>1
    <3> QED BY <1>8, <1>14, <2>1, <3>1, <3>2 DEF Most
  <2>2. CASE z.x < 2 * TitleH
    <3> DEFINE w == 2 * TitleH
    <3>1. WidthOf(r2) = w /\ WidthOf(v) = w /\ w \in Int
      BY <1>6, <1>8, <1>14, <1>15, <2>2 DEF Most
    <3>2. z.x < w /\ (H.inc.x > 1 => H.min.x >= w)
      BY <1>5, <2>2
    <3> HIDE DEF w
    <3>3. X(SizeOf(r1).x) < w
      BY <1>9, <3>2
    <3>4. X(SizeOf(r1).x) <= X(w) /\ X(w) <= w
      BY <1>7, <1>13, <3>1, <3>2, <3>3, SizedWidened
    <3>5. X(w) \in Int
      BY <1>13, <3>1, SizedOk
    <3>6. y.x = X(w)
      BY <1>12, <3>1
    <3>7. z.x <= y.x /\ y.x <= w /\ y.x \in Int
      BY <1>9, <3>4, <3>5, <3>6
    <3>8. Most(y.x, w) = w
      BY <3>1, <3>7 DEF Most
    <3> QED BY <3>1, <3>7, <3>8 DEF w
  <2> QED BY <1>8, <1>14, <2>1, <2>2
<1>19. PICK q \in Rects : Meets(q) /\ q.min = v.min /\ WidthOf(q) = z.x /\ HeightOf(q) = z.y
  BY <1>6
<1>20. /\ HeightOf(v) >= 0 /\ WidthOf(q) <= WidthOf(v) /\ HeightOf(q) = HeightOf(v)
       /\ WidthOf(q) <= y.x /\ y.y = HeightOf(v)
  BY <1>6, <1>8, <1>15, <1>17, <1>18, <1>19
<1>21. Stable(x)
  BY <1>2, <1>3, <1>15, <1>18, <1>19, <1>20, StaysPut DEF v, r2, y
<1> QED BY <1>21 DEF x

LEMMA Resized ==
  ASSUME NEW f \in Windowed, NEW r \in Rects
  PROVE  LET x == FrameResize(f, r)
         IN  /\ x \in Windowed /\ Fits(x) /\ Rests(x)
             /\ x.hints = f.hints /\ x.bare = f.bare /\ x.collapsed = f.collapsed
<1> DEFINE x == FrameResize(f, r)
<1>1. /\ x \in Windowed /\ Fits(x)
      /\ x.hints = f.hints /\ x.bare = f.bare /\ x.collapsed = f.collapsed
  BY ResizedFits
<1>2. ASSUME ~x.collapsed, Agreeable(x.hints)
      PROVE  \E bare \in Decorations : Stable([x EXCEPT !.bare = bare])
  <2>1. Stable(x)
    BY <1>1, <1>2, Settles
  <2>2. x.bare \in Decorations /\ [x EXCEPT !.bare = x.bare] = x
    BY <1>1 DEF Windowed
  <2> HIDE DEF x
  <2> QED BY <2>1, <2>2
<1>3. Rests(x)
  BY <1>2 DEF Rests
<1> QED BY <1>1, <1>3

-----------------------------------------------------------------------------
(* Sequences.                                                              *)

LEMMA Removed ==
  ASSUME NEW S, NEW s \in Seq(S), NEW i \in 1 .. Len(s)
  PROVE  /\ RemoveAt(s, i) \in Seq(S)
         /\ Len(RemoveAt(s, i)) = Len(s) - 1
         /\ \A j \in 1 .. Len(s) - 1 : RemoveAt(s, i)[j] = s[IF j < i THEN j ELSE j + 1]
<1> DEFINE l == SubSeq(s, 1, i - 1)
           r == SubSeq(s, i + 1, Len(s))
<1>0. Len(s) \in Nat /\ i \in Nat
  OBVIOUS
<1>1. l \in Seq(S) /\ Len(l) = i - 1 /\ \A j \in 1 .. i - 1 : l[j] = s[j]
  BY <1>0
<1>2. r \in Seq(S) /\ Len(r) = Len(s) - i /\ \A j \in 1 .. Len(s) - i : r[j] = s[i + j]
  BY <1>0
<1>3. RemoveAt(s, i) = l \o r
  BY DEF RemoveAt
<1> HIDE DEF l, r
<1>4. l \o r \in Seq(S) /\ Len(l \o r) = Len(s) - 1
  <2>1. l \o r \in Seq(S) /\ Len(l \o r) = Len(l) + Len(r)
    BY <1>1, <1>2, ConcatProperties
  <2>2. (i - 1) + (Len(s) - i) = Len(s) - 1
    BY <1>0
  <2> QED BY <2>1, <2>2, <1>1, <1>2
<1>5. ASSUME NEW j \in 1 .. Len(s) - 1
      PROVE  (l \o r)[j] = s[IF j < i THEN j ELSE j + 1]
  <2>1. CASE j < i
    <3>1. (l \o r)[j] = l[j]
      BY <1>0, <1>1, <1>2, <2>1
    <3> QED BY <3>1, <1>0, <1>1, <2>1
  <2>2. CASE ~(j < i)
    <3>1. (l \o r)[j] = r[j - (i - 1)] /\ j - (i - 1) \in 1 .. Len(s) - i
      BY <1>0, <1>1, <1>2, <2>2
    <3>2. i + (j - (i - 1)) = j + 1
      BY <1>0
    <3>3. r[j - (i - 1)] = s[j + 1]
      BY <3>1, <3>2, <1>2
    <3> QED BY <3>1, <3>3, <2>2
  <2> QED BY <2>1, <2>2
<1> QED BY <1>3, <1>4, <1>5

(* s with e inserted at i.                                                 *)
LEMMA Inserted ==
  ASSUME NEW S, NEW s \in Seq(S), NEW i \in 1 .. Len(s) + 1, NEW e \in S
  PROVE  /\ InsertAt(s, i, e) \in Seq(S)
         /\ Len(InsertAt(s, i, e)) = Len(s) + 1
         /\ InsertAt(s, i, e)[i] = e
         /\ \A j \in 1 .. Len(s) + 1 :
              j # i => InsertAt(s, i, e)[j] = s[IF j < i THEN j ELSE j - 1]
<1> DEFINE l == SubSeq(s, 1, i - 1)
           r == SubSeq(s, i, Len(s))
           m == l \o <<e>>
<1>0. Len(s) \in Nat /\ i \in Nat
  OBVIOUS
<1>1. l \in Seq(S) /\ Len(l) = i - 1 /\ \A j \in 1 .. i - 1 : l[j] = s[j]
  BY <1>0
<1>2. r \in Seq(S) /\ Len(r) = Len(s) + 1 - i /\ \A j \in 1 .. Len(s) + 1 - i : r[j] = s[i - 1 + j]
  BY <1>0
<1>3. InsertAt(s, i, e) = m \o r
  BY DEF InsertAt
<1> HIDE DEF l, r
<1>4. m \in Seq(S) /\ Len(m) = i /\ m[i] = e /\ \A j \in 1 .. i - 1 : m[j] = s[j]
  BY <1>0, <1>1
<1> HIDE DEF m
<1>5. m \o r \in Seq(S) /\ Len(m \o r) = Len(s) + 1
  BY <1>0, <1>2, <1>4
<1>6. (m \o r)[i] = e
  BY <1>0, <1>2, <1>4
<1>7. ASSUME NEW j \in 1 .. Len(s) + 1, j # i
      PROVE  (m \o r)[j] = s[IF j < i THEN j ELSE j - 1]
  <2>1. CASE j < i
    <3>1. (m \o r)[j] = m[j]
      BY <1>0, <1>2, <1>4, <2>1
    <3> QED BY <3>1, <1>0, <1>4, <2>1
  <2>2. CASE ~(j < i)
    <3>1. (m \o r)[j] = r[j - i] /\ j - i \in 1 .. Len(s) + 1 - i
      BY <1>0, <1>2, <1>4, <1>7, <2>2
    <3>2. i - 1 + (j - i) = j - 1
      BY <1>0
    <3>3. r[j - i] = s[j - 1]
      BY <3>1, <3>2, <1>2
    <3> QED BY <3>1, <3>3, <2>2
  <2> QED BY <2>1, <2>2
<1> QED BY <1>3, <1>5, <1>6, <1>7


(* The frames that are left, one after another.                            *)
Leaves(k, S, L, T) ==
  /\ k \in [0 .. Len(L) -> Seq(S)] /\ Besides(L, T) = k[Len(L)] /\ k[0] = <<>>
  /\ \A i \in 1 .. Len(L) : k[i] = IF L[i] \in T THEN k[i - 1] ELSE Append(k[i - 1], L[i])

LEMMA BesidesIs ==
  ASSUME NEW S, NEW L \in Seq(S), NEW T
  PROVE  \E k : Leaves(k, S, L, T)
<1> DEFINE n == Len(L)
           SS == Seq(S)
           first == <<>>
           Is(k) == k = [i \in 0 .. n |-> IF i = 0 THEN <<>> ELSE IF L[i] \in T THEN k[i - 1] ELSE Append(k[i - 1], L[i])]
           kept == CHOOSE k : Is(k)
           step == [x \in SS \X (1 .. n) |-> IF L[x[2]] \in T THEN x[1] ELSE Append(x[1], L[x[2]])]
<1>1. n \in Nat /\ first \in SS
  OBVIOUS
<1>2. \A k \in SS, i \in 1 .. n : (IF L[i] \in T THEN k ELSE Append(k, L[i])) \in SS
  OBVIOUS
<1>3. step \in [SS \X (1 .. n) -> SS]
      /\ \A k \in SS, i \in 1 .. n : step[<<k, i>>] = IF L[i] \in T THEN k ELSE Append(k, L[i])
  BY <1>2
<1> HIDE DEF step, SS, first, n
<1>4. PICK f \in [0 .. n -> SS] :
         f[0] = first /\ \A i \in 1 .. n : f[i] = step[<<f[i - 1], i>>]
  <2>1. n \in Nat /\ first \in SS /\ step \in [SS \X (1 .. n) -> SS]
    BY <1>1, <1>3
  <2>2. Iterated(n, SS, first, step)
    BY ONLY <2>1, Iterates
  <2> QED BY <2>2 DEF Iterated
<1>5. \A i \in 1 .. n : f[i] = IF L[i] \in T THEN f[i - 1] ELSE Append(f[i - 1], L[i])
  <2> TAKE i \in 1 .. n
  <2>1. i - 1 \in 0 .. n
    BY <1>1
  <2>2. f[i - 1] \in SS
    BY <1>4, <2>1
  <2>3. step[<<f[i - 1], i>>] = IF L[i] \in T THEN f[i - 1] ELSE Append(f[i - 1], L[i])
    BY <1>3, <2>2
  <2> QED BY <1>4, <2>3
<1>6. Is(f)
  <2> DEFINE g == [i \in 0 .. n |-> IF i = 0 THEN <<>> ELSE IF L[i] \in T THEN f[i - 1] ELSE Append(f[i - 1], L[i])]
  <2>1. \A i \in 0 .. n : f[i] = g[i]
    <3> TAKE i \in 0 .. n
    <3>1. CASE i = 0
      BY <1>1, <1>4, <3>1 DEF first
    <3>2. CASE i # 0
      <4>1. i \in 1 .. n
        BY <1>1, <3>2
      <4> QED BY <1>5, <3>2, <4>1
    <3> QED BY <3>1, <3>2
  <2>2. f = [i \in 0 .. n |-> f[i]] /\ g = [i \in 0 .. n |-> g[i]]
    BY <1>4
  <2> HIDE DEF g
  <2>3. f = g
    BY <2>1, <2>2
  <2> QED BY <2>3 DEF g
<1>7. Is(kept)
  BY <1>6
<1>8. Besides(L, T) = kept[n]
  BY DEF Besides, n, first
<1> HIDE DEF kept
<1>9. /\ DOMAIN kept = 0 .. n /\ kept = [i \in 0 .. n |-> kept[i]]
      /\ kept[0] = first
      /\ \A i \in 1 .. n : kept[i] = IF L[i] \in T THEN kept[i - 1] ELSE Append(kept[i - 1], L[i])
  <2> DEFINE g == [i \in 0 .. n |-> IF i = 0 THEN <<>> ELSE IF L[i] \in T THEN kept[i - 1] ELSE Append(kept[i - 1], L[i])]
  <2>1. kept = g
    BY <1>7
  <2>2. \A i \in 0 .. n : g[i] = IF i = 0 THEN <<>> ELSE IF L[i] \in T THEN kept[i - 1] ELSE Append(kept[i - 1], L[i])
    OBVIOUS
  <2>3. DOMAIN g = 0 .. n /\ g = [i \in 0 .. n |-> g[i]]
    OBVIOUS
  <2> HIDE DEF g
  <2>4. 0 \in 0 .. n /\ \A i \in 1 .. n : i \in 0 .. n /\ i # 0
    BY <1>1
  <2> QED BY <2>1, <2>2, <2>3, <2>4 DEF first
<1>10. \A i \in 1 .. n : kept[i - 1] \in SS => kept[i] \in SS
  BY <1>2, <1>9
<1>11. \A i \in 0 .. n : kept[i] \in SS
  BY <1>1, <1>9, <1>10, AllIn
<1>12. kept \in [0 .. n -> SS]
  BY <1>9, <1>11
<1>13. Leaves(kept, S, L, T)
  BY <1>8, <1>9, <1>12 DEF n, SS, first, Leaves
<1> QED BY <1>13

LEMMA BesidesHas ==
  ASSUME NEW S, NEW L \in Seq(S), NEW T
  PROVE  /\ Besides(L, T) \in Seq(S)
         /\ \A a \in ToSet(L) \ T : a \in ToSet(Besides(L, T))
         /\ ToSet(Besides(L, T)) \subseteq ToSet(L)
<1> DEFINE n == Len(L)
<1>1. \E k : Leaves(k, S, L, T)
  BY BesidesIs
<1>11. PICK k \in [0 .. n -> Seq(S)] :
         /\ Besides(L, T) = k[n] /\ k[0] = <<>>
         /\ \A i \in 1 .. n : k[i] = IF L[i] \in T THEN k[i - 1] ELSE Append(k[i - 1], L[i])
  BY <1>1, Zenon DEF Leaves
<1>2. n \in Nat /\ \A i \in 1 .. n : L[i] \in S
  OBVIOUS
<1> DEFINE Has(m) == {L[i] : i \in 1 .. m}
           G == {m \in 0 .. n : Has(m) \ T \subseteq ToSet(k[m]) /\ ToSet(k[m]) \subseteq Has(m)}
<1>3. 0 \in G
  <2>1. Has(0) = {} /\ ToSet(<<>>) = {} /\ 0 \in 0 .. n
    BY <1>2 DEF ToSet
  <2> QED BY <1>11, <2>1
<1>4. ASSUME NEW m \in 0 .. n - 1, m \in G PROVE m + 1 \in G
  <2>1. m + 1 \in 1 .. n /\ (m + 1) - 1 = m /\ m \in 0 .. n /\ m + 1 \in 0 .. n
    BY <1>2
  <2>2. k[m] \in Seq(S) /\ L[m + 1] \in S
    BY <1>2, <2>1
  <2>3. Has(m + 1) = Has(m) \cup {L[m + 1]}
    <3>1. 1 .. m + 1 = (1 .. m) \cup {m + 1}
      BY <2>1
    <3> QED BY <3>1
  <2>4. k[m + 1] = IF L[m + 1] \in T THEN k[m] ELSE Append(k[m], L[m + 1])
    BY <1>11, <2>1
  <2>5. ToSet(Append(k[m], L[m + 1])) = ToSet(k[m]) \cup {L[m + 1]}
    <3> DEFINE u == k[m]
               e == L[m + 1]
    <3> HIDE DEF u, e
    <3>1. u \in Seq(S) /\ e \in S
      BY <2>2 DEF u, e
    <3>2. ToSet(Append(u, e)) = ToSet(u) \cup {e}
      <4>1. /\ Len(u) \in Nat /\ DOMAIN u = 1 .. Len(u)
            /\ DOMAIN Append(u, e) = 1 .. Len(u) + 1
            /\ \A i \in 1 .. Len(u) : Append(u, e)[i] = u[i]
            /\ Append(u, e)[Len(u) + 1] = e
        BY <3>1
      <4>2. 1 .. Len(u) + 1 = (1 .. Len(u)) \cup {Len(u) + 1}
        BY <4>1
      <4> QED BY <4>1, <4>2 DEF ToSet
    <3> QED BY <3>2 DEF u, e
  <2>6. Has(m) \ T \subseteq ToSet(k[m]) /\ ToSet(k[m]) \subseteq Has(m)
    BY <1>4
  <2> HIDE DEF Has
  <2>7. Has(m + 1) \ T \subseteq ToSet(k[m + 1]) /\ ToSet(k[m + 1]) \subseteq Has(m + 1)
    BY <2>3, <2>4, <2>5, <2>6
  <2> QED BY <2>1, <2>7
<1> HIDE DEF G
<1>5. n \in G
  BY <1>2, <1>3, <1>4, UpTo
<1>6. ToSet(L) = Has(n)
  BY <1>2 DEF ToSet
<1>7. k[n] \in Seq(S)
  BY <1>11, <1>2
<1> QED BY <1>11, <1>5, <1>6, <1>7 DEF G

LEMMA Joined ==
  ASSUME NEW S, NEW u \in Seq(S), NEW v \in Seq(S)
  PROVE  u \o v \in Seq(S) /\ ToSet(u \o v) = ToSet(u) \cup ToSet(v)
<1>1. /\ Len(u) \in Nat /\ Len(v) \in Nat /\ u \o v \in Seq(S)
      /\ Len(u \o v) = Len(u) + Len(v)
      /\ \A i \in 1 .. Len(u) + Len(v) :
           (u \o v)[i] = IF i <= Len(u) THEN u[i] ELSE v[i - Len(u)]
      /\ DOMAIN u = 1 .. Len(u) /\ DOMAIN v = 1 .. Len(v)
      /\ DOMAIN (u \o v) = 1 .. Len(u) + Len(v)
  BY ConcatProperties
<1> DEFINE w == u \o v
<1> HIDE DEF w
<1>2. ASSUME NEW a \in ToSet(w) PROVE a \in ToSet(u) \cup ToSet(v)
  <2>1. PICK i \in 1 .. Len(u) + Len(v) : a = w[i]
    BY <1>1, <1>2 DEF ToSet, w
  <2>2. CASE i <= Len(u)
    <3>1. i \in DOMAIN u /\ a = u[i]
      BY <1>1, <2>1, <2>2 DEF w
    <3> QED BY <3>1 DEF ToSet
  <2>3. CASE ~(i <= Len(u))
    <3>1. i - Len(u) \in DOMAIN v /\ a = v[i - Len(u)]
      BY <1>1, <2>1, <2>3 DEF w
    <3> QED BY <3>1 DEF ToSet
  <2> QED BY <2>2, <2>3
<1>3. ASSUME NEW a \in ToSet(u) PROVE a \in ToSet(w)
  <2>1. PICK i \in 1 .. Len(u) : a = u[i]
    BY <1>1, <1>3 DEF ToSet
  <2>2. i \in DOMAIN w /\ a = w[i]
    BY <1>1, <2>1 DEF w
  <2> QED BY <2>2 DEF ToSet
<1>4. ASSUME NEW a \in ToSet(v) PROVE a \in ToSet(w)
  <2>1. PICK i \in 1 .. Len(v) : a = v[i]
    BY <1>1, <1>4 DEF ToSet
  <2>2. i + Len(u) \in DOMAIN w /\ a = w[i + Len(u)]
    <3>1. i + Len(u) \in 1 .. Len(u) + Len(v) /\ ~(i + Len(u) <= Len(u)) /\ (i + Len(u)) - Len(u) = i
      BY <1>1, <2>1
    <3> QED BY <1>1, <2>1, <3>1 DEF w
  <2> QED BY <2>2 DEF ToSet
<1> QED BY <1>1, <1>2, <1>3, <1>4 DEF w

LEMMA InsertedSet ==
  ASSUME NEW S, NEW s \in Seq(S), NEW i \in 1 .. Len(s) + 1, NEW e \in S
  PROVE  /\ InsertAt(s, i, e) \in Seq(S) /\ InsertAt(s, i, e) # <<>>
         /\ ToSet(InsertAt(s, i, e)) = ToSet(s) \cup {e}
<1> DEFINE t == InsertAt(s, i, e)
<1>1. /\ t \in Seq(S) /\ Len(t) = Len(s) + 1 /\ t[i] = e
      /\ \A j \in 1 .. Len(s) + 1 : j # i => t[j] = s[IF j < i THEN j ELSE j - 1]
  <2>1. t \in Seq(S) /\ Len(t) = Len(s) + 1 /\ t[i] = e
    BY Inserted
  <2>2. ASSUME NEW j \in 1 .. Len(s) + 1, j # i PROVE t[j] = s[IF j < i THEN j ELSE j - 1]
    BY <2>2, Inserted
  <2> QED BY <2>1, <2>2
<1> HIDE DEF t
<1>2. Len(s) \in Nat /\ i \in Int /\ DOMAIN s = 1 .. Len(s) /\ DOMAIN t = 1 .. Len(s) + 1
  BY <1>1
<1>3. ASSUME NEW a \in ToSet(t) PROVE a \in ToSet(s) \cup {e}
  <2>1. PICK j \in 1 .. Len(s) + 1 : a = t[j]
    BY <1>2, <1>3 DEF ToSet
  <2>2. CASE j = i
    BY <1>1, <2>1, <2>2
  <2>3. CASE j # i
    <3>1. (IF j < i THEN j ELSE j - 1) \in DOMAIN s
      BY <1>2, <2>3
    <3> QED BY <1>1, <2>1, <2>3, <3>1 DEF ToSet
  <2> QED BY <2>2, <2>3
<1>4. e \in ToSet(t)
  BY <1>1, <1>2 DEF ToSet
<1>5. ASSUME NEW a \in ToSet(s) PROVE a \in ToSet(t)
  <2>1. PICK j \in 1 .. Len(s) : a = s[j]
    BY <1>2, <1>5 DEF ToSet
  <2> DEFINE k == IF j < i THEN j ELSE j + 1
  <2>2. k \in 1 .. Len(s) + 1 /\ k # i /\ (IF k < i THEN k ELSE k - 1) = j
    BY <1>2, <2>1
  <2> HIDE DEF k
  <2>3. t[k] = a
    BY <1>1, <2>1, <2>2
  <2> QED BY <1>2, <2>2, <2>3 DEF ToSet
<1>6. t # <<>>
  <2>1. Len(<<>>) = 0 /\ Len(t) # 0
    BY <1>1, <1>2
  <2> QED BY <2>1
<1> QED BY <1>1, <1>3, <1>4, <1>5, <1>6 DEF t

LEMMA RemovedSet ==
  ASSUME NEW S, NEW s \in Seq(S), NEW i \in 1 .. Len(s)
  PROVE  /\ RemoveAt(s, i) \in Seq(S) /\ ToSet(RemoveAt(s, i)) \subseteq ToSet(s)
         /\ Len(RemoveAt(s, i)) = Len(s) - 1
         /\ \A j \in 1 .. Len(s) : j # i => s[j] \in ToSet(RemoveAt(s, i))
<1> DEFINE t == RemoveAt(s, i)
<1>1. /\ t \in Seq(S) /\ Len(t) = Len(s) - 1
      /\ \A j \in 1 .. Len(s) - 1 : t[j] = s[IF j < i THEN j ELSE j + 1]
  BY Removed
<1> HIDE DEF t
<1>2. Len(s) \in Nat /\ i \in Int /\ DOMAIN s = 1 .. Len(s) /\ DOMAIN t = 1 .. Len(s) - 1
  BY <1>1
<1>3. ASSUME NEW a \in ToSet(t) PROVE a \in ToSet(s)
  <2>1. PICK j \in 1 .. Len(s) - 1 : a = t[j]
    BY <1>2, <1>3 DEF ToSet
  <2>2. (IF j < i THEN j ELSE j + 1) \in DOMAIN s
    BY <1>2
  <2> QED BY <1>1, <2>1, <2>2 DEF ToSet
<1>4. ASSUME NEW j \in 1 .. Len(s), j # i PROVE s[j] \in ToSet(t)
  <2> DEFINE k == IF j < i THEN j ELSE j - 1
  <2>1. k \in 1 .. Len(s) - 1 /\ (IF k < i THEN k ELSE k + 1) = j
    BY <1>2, <1>4
  <2> HIDE DEF k
  <2>2. t[k] = s[j]
    BY <1>1, <2>1
  <2> QED BY <1>2, <2>1, <2>2 DEF ToSet
<1> QED BY <1>1, <1>3, <1>4 DEF t

-----------------------------------------------------------------------------
(* What is left free of a screen (unique_rects).                           *)

(* A place is free when it has a size, and is covered by a rectangle that  *)
(* contains it.                                                            *)
Solid(q) == q.min.x < q.max.x /\ q.min.y < q.max.y
Covers(vec, q) == \E i \in DOMAIN vec : RectContains(vec[i], q)

LEMMA Within ==
  ASSUME NEW a \in Rects, NEW b \in Rects, NEW c \in Rects,
         RectContains(a, b)
  PROVE  /\ RectContains(b, c) => RectContains(a, c)
         /\ Overlap(b, c) => Overlap(a, c)
<1>1. {a.min.x, a.min.y, a.max.x, a.max.y, b.min.x, b.min.y, b.max.x, b.max.y,
       c.min.x, c.min.y, c.max.x, c.max.y} \subseteq Int
  BY Parts
<1> QED BY <1>1 DEF RectContains, Overlap

(* The element of a sequence of rectangles that covers another covers what *)
(* that contains.                                                          *)
LEMMA CoversWithin ==
  ASSUME NEW vec \in Seq(Rects), NEW r \in Rects, Covers(vec, r),
         NEW q \in Rects, RectContains(r, q)
  PROVE  Covers(vec, q)
<1>1. PICK i \in DOMAIN vec : RectContains(vec[i], r)
  BY DEF Covers
<1>2. vec[i] \in Rects
  OBVIOUS
<1>3. RectContains(vec[i], q)
  BY <1>1, <1>2, Within
<1> QED BY <1>3 DEF Covers

LEMMA RectPushIs ==
  ASSUME NEW vec \in Seq(Rects), NEW r \in Rects
  PROVE  /\ RectPush(vec, r) \in Seq(Rects)
         /\ ToSet(RectPush(vec, r)) \subseteq ToSet(vec) \cup {r}
         /\ Covers(RectPush(vec, r), r)
         /\ \A q \in Rects : Covers(vec, q) => Covers(RectPush(vec, r), q)
<1> DEFINE hits == {i \in DOMAIN vec : RectContains(vec[i], r) \/ RectContains(r, vec[i])}
           i == CHOOSE i \in hits : \A j \in hits : i <= j
<1>1. DOMAIN vec = 1 .. Len(vec) /\ Len(vec) \in Nat /\ \A j \in DOMAIN vec : vec[j] \in Rects
  OBVIOUS
<1>2. RectPush(vec, r) = IF hits = {} THEN Append(vec, r)
                         ELSE IF RectContains(vec[i], r) THEN vec ELSE [vec EXCEPT ![i] = r]
  BY DEF RectPush
<1>3. hits # {} => i \in hits
  <2> SUFFICES ASSUME hits # {} PROVE i \in hits
    OBVIOUS
  <2>1. hits \subseteq Nat
    BY <1>1
  <2>2. \A j \in hits : j \in DOMAIN vec
    OBVIOUS
  <2> HIDE DEF hits
  <2>3. \E m \in hits : \A j \in hits : m <= j
    BY <2>1, NatMin
  <2> QED BY <2>3
<1>4. RectContains(r, r)
  BY Parts DEF RectContains
<1>5. CASE hits = {}
  <2> DEFINE w == Append(vec, r)
  <2>1. /\ w \in Seq(Rects) /\ DOMAIN w = 1 .. Len(vec) + 1 /\ w[Len(vec) + 1] = r
        /\ \A j \in 1 .. Len(vec) : w[j] = vec[j]
    OBVIOUS
  <2> HIDE DEF w
  <2>2. 1 .. Len(vec) + 1 = (1 .. Len(vec)) \cup {Len(vec) + 1}
    BY <1>1
  <2>3. ToSet(w) \subseteq ToSet(vec) \cup {r}
    BY <1>1, <2>1, <2>2 DEF ToSet
  <2>4. Covers(w, r)
    BY <1>4, <2>1, <2>2 DEF Covers
  <2>5. \A q \in Rects : Covers(vec, q) => Covers(w, q)
    BY <1>1, <2>1, <2>2 DEF Covers
  <2>6. RectPush(vec, r) = w
    BY <1>2, <1>5 DEF w
  <2> QED BY <2>1, <2>3, <2>4, <2>5, <2>6
<1>6. CASE hits # {}
  <2>1. i \in DOMAIN vec /\ (RectContains(vec[i], r) \/ RectContains(r, vec[i]))
    BY <1>3, <1>6
  <2>2. RectPush(vec, r) = IF RectContains(vec[i], r) THEN vec ELSE [vec EXCEPT ![i] = r]
    BY <1>2, <1>6
  <2> HIDE DEF hits, i
  <2>3. CASE RectContains(vec[i], r)
    <3>1. Covers(vec, r)
      BY <2>1, <2>3 DEF Covers
    <3> QED BY <2>2, <2>3, <3>1
  <2>4. CASE ~RectContains(vec[i], r)
    <3> DEFINE w == [vec EXCEPT ![i] = r]
    <3>1. /\ w \in Seq(Rects) /\ DOMAIN w = DOMAIN vec /\ w[i] = r
          /\ \A j \in DOMAIN vec : j # i => w[j] = vec[j]
      BY <2>1
    <3> HIDE DEF w
    <3>2. ToSet(w) \subseteq ToSet(vec) \cup {r}
      BY <3>1 DEF ToSet
    <3>3. Covers(w, r)
      BY <1>4, <2>1, <3>1 DEF Covers
    <3>4. ASSUME NEW q \in Rects, Covers(vec, q) PROVE Covers(w, q)
      <4>1. PICK j \in DOMAIN vec : RectContains(vec[j], q)
        BY <3>4 DEF Covers
      <4>2. CASE j = i
        <5>1. RectContains(r, q)
          BY <1>1, <2>1, <2>4, <4>1, <4>2, Within
        <5> QED BY <2>1, <3>1, <5>1 DEF Covers
      <4>3. CASE j # i
        BY <3>1, <4>1, <4>3 DEF Covers
      <4> QED BY <4>2, <4>3
    <3>5. RectPush(vec, r) = w
      BY <2>2, <2>4 DEF w
    <3> QED BY <3>1, <3>2, <3>3, <3>4, <3>5
  <2> QED BY <2>3, <2>4
<1> QED BY <1>5, <1>6

(* Rectangles are pushed one after another.                                *)
Pushes(k, vec, rects) ==
  /\ k \in [0 .. Len(rects) -> Seq(Rects)] /\ PushAll(vec, rects) = k[Len(rects)] /\ k[0] = vec
  /\ \A i \in 1 .. Len(rects) : k[i] = RectPush(k[i - 1], rects[i])

LEMMA PushAllIs ==
  ASSUME NEW vec \in Seq(Rects), NEW rects \in Seq(Rects)
  PROVE  \E k : Pushes(k, vec, rects)
<1> DEFINE n == Len(rects)
           SS == Seq(Rects)
           first == vec
           Is(k) == k = [i \in 0 .. n |-> IF i = 0 THEN vec ELSE RectPush(k[i - 1], rects[i])]
           pushed == CHOOSE k : Is(k)
           step == [x \in SS \X (1 .. n) |-> RectPush(x[1], rects[x[2]])]
<1>1. n \in Nat /\ first \in SS
  OBVIOUS
<1>2. \A k \in SS, i \in 1 .. n : RectPush(k, rects[i]) \in SS
  <2> TAKE k \in SS, i \in 1 .. n
  <2>1. k \in Seq(Rects) /\ rects[i] \in Rects
    OBVIOUS
  <2> QED BY <2>1, RectPushIs
<1>3. step \in [SS \X (1 .. n) -> SS]
      /\ \A k \in SS, i \in 1 .. n : step[<<k, i>>] = RectPush(k, rects[i])
  BY <1>2
<1> HIDE DEF step, SS, first, n
<1>4. PICK f \in [0 .. n -> SS] :
         f[0] = first /\ \A i \in 1 .. n : f[i] = step[<<f[i - 1], i>>]
  <2>1. n \in Nat /\ first \in SS /\ step \in [SS \X (1 .. n) -> SS]
    BY <1>1, <1>3
  <2>2. Iterated(n, SS, first, step)
    BY ONLY <2>1, Iterates
  <2> QED BY <2>2 DEF Iterated
<1>5. \A i \in 1 .. n : f[i] = RectPush(f[i - 1], rects[i])
  <2> TAKE i \in 1 .. n
  <2>1. i - 1 \in 0 .. n
    BY <1>1
  <2>2. f[i - 1] \in SS
    BY <1>4, <2>1
  <2>3. step[<<f[i - 1], i>>] = RectPush(f[i - 1], rects[i])
    BY <1>3, <2>2
  <2> QED BY <1>4, <2>3
<1>6. Is(f)
  <2> DEFINE g == [i \in 0 .. n |-> IF i = 0 THEN vec ELSE RectPush(f[i - 1], rects[i])]
  <2>1. \A i \in 0 .. n : f[i] = g[i]
    <3> TAKE i \in 0 .. n
    <3>1. CASE i = 0
      BY <1>1, <1>4, <3>1 DEF first
    <3>2. CASE i # 0
      <4>1. i \in 1 .. n
        BY <1>1, <3>2
      <4> QED BY <1>5, <3>2, <4>1
    <3> QED BY <3>1, <3>2
  <2>2. f = [i \in 0 .. n |-> f[i]] /\ g = [i \in 0 .. n |-> g[i]]
    BY <1>4
  <2> HIDE DEF g
  <2>3. f = g
    BY <2>1, <2>2
  <2> QED BY <2>3 DEF g
<1>7. Is(pushed)
  BY <1>6
<1>8. PushAll(vec, rects) = pushed[n]
  BY DEF PushAll, n, first
<1> HIDE DEF pushed
<1>9. /\ DOMAIN pushed = 0 .. n /\ pushed = [i \in 0 .. n |-> pushed[i]]
      /\ pushed[0] = first
      /\ \A i \in 1 .. n : pushed[i] = RectPush(pushed[i - 1], rects[i])
  <2> DEFINE g == [i \in 0 .. n |-> IF i = 0 THEN vec ELSE RectPush(pushed[i - 1], rects[i])]
  <2>1. pushed = g
    BY <1>7
  <2>2. \A i \in 0 .. n : g[i] = IF i = 0 THEN vec ELSE RectPush(pushed[i - 1], rects[i])
    OBVIOUS
  <2>3. DOMAIN g = 0 .. n /\ g = [i \in 0 .. n |-> g[i]]
    OBVIOUS
  <2> HIDE DEF g
  <2>4. 0 \in 0 .. n /\ \A i \in 1 .. n : i \in 0 .. n /\ i # 0
    BY <1>1
  <2> QED BY <2>1, <2>2, <2>3, <2>4 DEF first
<1>10. \A i \in 1 .. n : pushed[i - 1] \in SS => pushed[i] \in SS
  BY <1>2, <1>9
<1>11. \A i \in 0 .. n : pushed[i] \in SS
  BY <1>1, <1>9, <1>10, AllIn
<1>12. pushed \in [0 .. n -> SS]
  BY <1>9, <1>11
<1>13. Pushes(pushed, vec, rects)
  BY <1>8, <1>9, <1>12 DEF n, SS, first, Pushes
<1> QED BY <1>13

LEMMA PushAllHas ==
  ASSUME NEW vec \in Seq(Rects), NEW rects \in Seq(Rects)
  PROVE  /\ PushAll(vec, rects) \in Seq(Rects)
         /\ ToSet(PushAll(vec, rects)) \subseteq ToSet(vec) \cup ToSet(rects)
         /\ \A q \in Rects : Covers(vec, q) \/ Covers(rects, q) => Covers(PushAll(vec, rects), q)
<1> DEFINE n == Len(rects)
<1>1. \E k : Pushes(k, vec, rects)
  BY PushAllIs
<1>2. PICK k \in [0 .. n -> Seq(Rects)] :
        /\ PushAll(vec, rects) = k[n] /\ k[0] = vec
        /\ \A i \in 1 .. n : k[i] = RectPush(k[i - 1], rects[i])
  BY <1>1, Zenon DEF Pushes
<1>3. /\ n \in Nat /\ DOMAIN rects = 1 .. n
      /\ \A i \in 1 .. n : rects[i] \in Rects /\ rects[i] \in ToSet(rects)
  BY DEF ToSet
<1> DEFINE Had(m, q) == Covers(vec, q) \/ \E i \in 1 .. m : RectContains(rects[i], q)
           G == {m \in 0 .. n : /\ ToSet(k[m]) \subseteq ToSet(vec) \cup ToSet(rects)
                                /\ \A q \in Rects : Had(m, q) => Covers(k[m], q)}
<1>4. 0 \in G
  BY <1>2, <1>3
<1>5. ASSUME NEW m \in 0 .. n - 1, m \in G PROVE m + 1 \in G
  <2>1. m + 1 \in 1 .. n /\ (m + 1) - 1 = m /\ m \in 0 .. n /\ m + 1 \in 0 .. n
    BY <1>3
  <2> DEFINE u == k[m]
             v == k[m + 1]
             r == rects[m + 1]
  <2>2. u \in Seq(Rects) /\ v = RectPush(u, r) /\ r \in Rects /\ r \in ToSet(rects)
    BY <1>2, <1>3, <2>1
  <2>3. /\ ToSet(u) \subseteq ToSet(vec) \cup ToSet(rects)
        /\ \A q \in Rects : Had(m, q) => Covers(u, q)
    BY <1>5
  <2> HIDE DEF u, v, r
  <2>4. /\ v \in Seq(Rects) /\ ToSet(v) \subseteq ToSet(u) \cup {r} /\ Covers(v, r)
        /\ \A q \in Rects : Covers(u, q) => Covers(v, q)
    <3>1. /\ RectPush(u, r) \in Seq(Rects)
          /\ ToSet(RectPush(u, r)) \subseteq ToSet(u) \cup {r}
          /\ Covers(RectPush(u, r), r)
          /\ \A q \in Rects : Covers(u, q) => Covers(RectPush(u, r), q)
      BY ONLY <2>2, RectPushIs
    <3> QED BY <2>2, <3>1
  <2>5. ASSUME NEW q \in Rects, Had(m + 1, q) PROVE Covers(v, q)
    <3>1. CASE Had(m, q)
      BY <2>3, <2>4, <3>1
    <3>2. CASE ~Had(m, q)
      <4>1. RectContains(r, q)
        <5>1. PICK i \in 1 .. m + 1 : RectContains(rects[i], q)
          BY <2>5, <3>2
        <5>2. i \notin 1 .. m
          BY <3>2, <5>1
        <5>3. i = m + 1
          BY <2>1, <5>1, <5>2
        <5> QED BY <5>1, <5>3 DEF r
      <4> QED BY <2>2, <2>4, <4>1, CoversWithin
    <3> QED BY <3>1, <3>2
  <2>6. ToSet(v) \subseteq ToSet(vec) \cup ToSet(rects)
    BY <2>2, <2>3, <2>4
  <2> QED BY <2>1, <2>5, <2>6 DEF v
<1> HIDE DEF G
<1>6. n \in G
  BY <1>3, <1>4, <1>5, UpTo
<1>7. /\ ToSet(k[n]) \subseteq ToSet(vec) \cup ToSet(rects)
      /\ \A q \in Rects : Had(n, q) => Covers(k[n], q)
  BY <1>6 DEF G
<1>8. \A q \in Rects : Covers(rects, q) => Had(n, q)
  BY <1>3 DEF Covers
<1>9. k[n] \in Seq(Rects)
  BY <1>2, <1>3
<1> HIDE DEF Had
<1>10. \A q \in Rects : Covers(vec, q) => Had(n, q)
  BY DEF Had
<1> QED BY <1>2, <1>7, <1>8, <1>9, <1>10

(* One rectangle, or none.                                                 *)
LEMMA Optional ==
  ASSUME NEW r \in Rects, NEW c \in BOOLEAN
  PROVE  LET p == IF c THEN <<r>> ELSE <<>>
         IN  p \in Seq(Rects) /\ ToSet(p) = IF c THEN {r} ELSE {}
<1>1. <<r>> \in Seq(Rects) /\ DOMAIN <<r>> = {1} /\ <<r>>[1] = r
  OBVIOUS
<1>2. ToSet(<<r>>) = {r}
  BY <1>1 DEF ToSet
<1>3. <<>> \in Seq(Rects) /\ ToSet(<<>>) = {}
  BY DEF ToSet
<1> QED BY <1>1, <1>2, <1>3

LEMMA PiecesAre ==
  ASSUME NEW r2 \in Rects, NEW r1 \in Rects
  PROVE  /\ Pieces(r2, r1) \in Seq(Rects)
         /\ \A p \in ToSet(Pieces(r2, r1)) : RectContains(r2, p) /\ ~Overlap(p, r1)
         /\ \A q \in Rects : Solid(q) /\ RectContains(r2, q) /\ ~Overlap(q, r1)
                             => Covers(Pieces(r2, r1), q)
<1>1. {r1.min.x, r1.min.y, r1.max.x, r1.max.y, r2.min.x, r2.min.y, r2.max.x, r2.max.y} \subseteq Int
  BY Parts
<1>4. /\ r1.min.x \in Int /\ r1.min.y \in Int /\ r1.max.x \in Int /\ r1.max.y \in Int
      /\ r2.min.x \in Int /\ r2.min.y \in Int /\ r2.max.x \in Int /\ r2.max.y \in Int
  BY <1>1
<1>2. CASE ~RectIntersects(r1, r2)
  <2>1. Pieces(r2, r1) = <<r2>>
    BY <1>2 DEF Pieces
  <2>2. <<r2>> \in Seq(Rects) /\ DOMAIN <<r2>> = {1} /\ <<r2>>[1] = r2
    OBVIOUS
  <2>3. ToSet(<<r2>>) = {r2}
    BY <2>2 DEF ToSet
  <2>4. RectContains(r2, r2) /\ ~Overlap(r2, r1)
    BY <1>1, <1>2 DEF RectContains, Overlap, RectIntersects
  <2> QED BY <2>1, <2>2, <2>3, <2>4 DEF Covers
<1>3. CASE RectIntersects(r1, r2)
  <2> DEFINE a == Rect(r2.min.x, r2.min.y, r1.min.x, r2.max.y)
             b == Rect(r2.min.x, r2.min.y, r2.max.x, r1.min.y)
             c == Rect(r1.max.x, r2.min.y, r2.max.x, r2.max.y)
             d == Rect(r2.min.x, r1.max.y, r2.max.x, r2.max.y)
             A == r2.min.x < r1.min.x
             B == r2.min.y < r1.min.y
             C == r2.max.x > r1.max.x
             D == r2.max.y > r1.max.y
             one == IF A THEN <<a>> ELSE <<>>
             two == IF B THEN <<b>> ELSE <<>>
             three == IF C THEN <<c>> ELSE <<>>
             four == IF D THEN <<d>> ELSE <<>>
  <2>1. Pieces(r2, r1) = one \o two \o three \o four
    BY <1>3 DEF Pieces
  <2>2. /\ a \in Rects /\ a.min.x = r2.min.x /\ a.min.y = r2.min.y
        /\ a.max.x = r1.min.x /\ a.max.y = r2.max.y
    <3>1. Sides(a, r2.min.x, r2.min.y, r1.min.x, r2.max.y)
      BY <1>4, SidesAre
    <3> HIDE DEF a
    <3> QED BY <3>1 DEF Sides
  <2>3. /\ b \in Rects /\ b.min.x = r2.min.x /\ b.min.y = r2.min.y
        /\ b.max.x = r2.max.x /\ b.max.y = r1.min.y
    <3>1. Sides(b, r2.min.x, r2.min.y, r2.max.x, r1.min.y)
      BY <1>4, SidesAre
    <3> HIDE DEF b
    <3> QED BY <3>1 DEF Sides
  <2>4. /\ c \in Rects /\ c.min.x = r1.max.x /\ c.min.y = r2.min.y
        /\ c.max.x = r2.max.x /\ c.max.y = r2.max.y
    <3>1. Sides(c, r1.max.x, r2.min.y, r2.max.x, r2.max.y)
      BY <1>4, SidesAre
    <3> HIDE DEF c
    <3> QED BY <3>1 DEF Sides
  <2>5. /\ d \in Rects /\ d.min.x = r2.min.x /\ d.min.y = r1.max.y
        /\ d.max.x = r2.max.x /\ d.max.y = r2.max.y
    <3>1. Sides(d, r2.min.x, r1.max.y, r2.max.x, r2.max.y)
      BY <1>4, SidesAre
    <3> HIDE DEF d
    <3> QED BY <3>1 DEF Sides
  <2> HIDE DEF a, b, c, d
  <2>6. A \in BOOLEAN /\ B \in BOOLEAN /\ C \in BOOLEAN /\ D \in BOOLEAN
    OBVIOUS
  <2>7. /\ A => RectContains(r2, a) /\ ~Overlap(a, r1)
        /\ B => RectContains(r2, b) /\ ~Overlap(b, r1)
        /\ C => RectContains(r2, c) /\ ~Overlap(c, r1)
        /\ D => RectContains(r2, d) /\ ~Overlap(d, r1)
    <3>1. A => RectContains(r2, a) /\ ~Overlap(a, r1)
      BY <1>1, <1>3, <2>2 DEF RectContains, Overlap, RectIntersects
    <3>2. B => RectContains(r2, b) /\ ~Overlap(b, r1)
      BY <1>1, <1>3, <2>3 DEF RectContains, Overlap, RectIntersects
    <3>3. C => RectContains(r2, c) /\ ~Overlap(c, r1)
      BY <1>1, <1>3, <2>4 DEF RectContains, Overlap, RectIntersects
    <3>4. D => RectContains(r2, d) /\ ~Overlap(d, r1)
      BY <1>1, <1>3, <2>5 DEF RectContains, Overlap, RectIntersects
    <3> QED BY <3>1, <3>2, <3>3, <3>4
  <2>8. ASSUME NEW q \in Rects, Solid(q), RectContains(r2, q), ~Overlap(q, r1)
        PROVE  \/ A /\ RectContains(a, q)
               \/ B /\ RectContains(b, q)
               \/ C /\ RectContains(c, q)
               \/ D /\ RectContains(d, q)
    <3>1. {q.min.x, q.min.y, q.max.x, q.max.y} \subseteq Int
      BY Parts
    <3>2. /\ q.min.x < q.max.x /\ q.min.y < q.max.y
          /\ q.min.x >= r2.min.x /\ q.max.x <= r2.max.x
          /\ q.min.y >= r2.min.y /\ q.max.y <= r2.max.y
      BY <2>8 DEF Solid, RectContains
    <3>3. \/ q.min.x >= r1.max.x \/ r1.min.x >= q.max.x
          \/ q.min.y >= r1.max.y \/ r1.min.y >= q.max.y
      BY <1>1, <2>8, <3>1 DEF Overlap
    <3>4. CASE q.min.x >= r1.max.x
      BY <1>1, <2>4, <3>1, <3>2, <3>4 DEF RectContains
    <3>5. CASE r1.min.x >= q.max.x
      BY <1>1, <2>2, <3>1, <3>2, <3>5 DEF RectContains
    <3>6. CASE q.min.y >= r1.max.y
      BY <1>1, <2>5, <3>1, <3>2, <3>6 DEF RectContains
    <3>7. CASE r1.min.y >= q.max.y
      BY <1>1, <2>3, <3>1, <3>2, <3>7 DEF RectContains
    <3> QED BY <3>3, <3>4, <3>5, <3>6, <3>7
  <2>9. /\ one \in Seq(Rects) /\ ToSet(one) = IF A THEN {a} ELSE {}
        /\ two \in Seq(Rects) /\ ToSet(two) = IF B THEN {b} ELSE {}
        /\ three \in Seq(Rects) /\ ToSet(three) = IF C THEN {c} ELSE {}
        /\ four \in Seq(Rects) /\ ToSet(four) = IF D THEN {d} ELSE {}
    <3> HIDE DEF A, B, C, D
    <3>1. one \in Seq(Rects) /\ ToSet(one) = IF A THEN {a} ELSE {}
      BY <2>2, <2>6, Optional
    <3>2. two \in Seq(Rects) /\ ToSet(two) = IF B THEN {b} ELSE {}
      BY <2>3, <2>6, Optional
    <3>3. three \in Seq(Rects) /\ ToSet(three) = IF C THEN {c} ELSE {}
      BY <2>4, <2>6, Optional
    <3>4. four \in Seq(Rects) /\ ToSet(four) = IF D THEN {d} ELSE {}
      BY <2>5, <2>6, Optional
    <3> QED BY <3>1, <3>2, <3>3, <3>4
  <2> HIDE DEF A, B, C, D, one, two, three, four
  <2> DEFINE v == one \o two \o three \o four
             Left == (IF A THEN {a} ELSE {}) \cup (IF B THEN {b} ELSE {})
                     \cup (IF C THEN {c} ELSE {}) \cup (IF D THEN {d} ELSE {})
  <2>10. v \in Seq(Rects) /\ ToSet(v) = Left
    <3> DEFINE m == one \o two
               n == m \o three
    <3>1. m \in Seq(Rects) /\ ToSet(m) = ToSet(one) \cup ToSet(two)
      BY <2>9, Joined
    <3> HIDE DEF m
    <3>2. n \in Seq(Rects) /\ ToSet(n) = ToSet(m) \cup ToSet(three)
      BY <2>9, <3>1, Joined
    <3>4. v = n \o four
      BY DEF m
    <3> HIDE DEF n, v
    <3>3. v \in Seq(Rects) /\ ToSet(v) = ToSet(n) \cup ToSet(four)
      BY <2>9, <3>2, <3>4, Joined
    <3> QED BY <2>9, <3>1, <3>2, <3>3
  <2>11. \A p \in Left : RectContains(r2, p) /\ ~Overlap(p, r1)
    BY <2>7
  <2>12. \A q \in Rects : Solid(q) /\ RectContains(r2, q) /\ ~Overlap(q, r1)
                          => \E p \in Left : RectContains(p, q)
    BY <2>8
  <2> HIDE DEF v, Left
  <2>13. \A q : (\E p \in ToSet(v) : RectContains(p, q)) => Covers(v, q)
    BY DEF ToSet, Covers
  <2>14. Pieces(r2, r1) = v
    BY <2>1 DEF v
  <2> QED BY <2>10, <2>11, <2>12, <2>13, <2>14, SMTT(30)
<1> QED BY <1>2, <1>3

(* The pieces of one rectangle after another are pushed.                   *)
Cuts(k, v1, r1) ==
  /\ k \in [0 .. Len(v1) -> Seq(Rects)] /\ Cut(v1, r1) = k[Len(v1)] /\ k[0] = <<>>
  /\ \A i \in 1 .. Len(v1) : k[i] = PushAll(k[i - 1], Pieces(v1[i], r1))

LEMMA CutIs ==
  ASSUME NEW v1 \in Seq(Rects), NEW r1 \in Rects
  PROVE  \E k : Cuts(k, v1, r1)
<1> DEFINE n == Len(v1)
           SS == Seq(Rects)
           first == <<>>
           Is(k) == k = [i \in 0 .. n |-> IF i = 0 THEN <<>> ELSE PushAll(k[i - 1], Pieces(v1[i], r1))]
           v2 == CHOOSE k : Is(k)
           step == [x \in SS \X (1 .. n) |-> PushAll(x[1], Pieces(v1[x[2]], r1))]
<1>1. n \in Nat /\ first \in SS
  OBVIOUS
<1>2. \A k \in SS, i \in 1 .. n : PushAll(k, Pieces(v1[i], r1)) \in SS
  <2> TAKE k \in SS, i \in 1 .. n
  <2>1. k \in Seq(Rects) /\ v1[i] \in Rects
    OBVIOUS
  <2>2. Pieces(v1[i], r1) \in Seq(Rects)
    BY <2>1, PiecesAre
  <2> QED BY <2>1, <2>2, PushAllHas
<1>3. step \in [SS \X (1 .. n) -> SS]
      /\ \A k \in SS, i \in 1 .. n : step[<<k, i>>] = PushAll(k, Pieces(v1[i], r1))
  BY <1>2
<1> HIDE DEF step, SS, first, n
<1>4. PICK f \in [0 .. n -> SS] :
         f[0] = first /\ \A i \in 1 .. n : f[i] = step[<<f[i - 1], i>>]
  <2>1. n \in Nat /\ first \in SS /\ step \in [SS \X (1 .. n) -> SS]
    BY <1>1, <1>3
  <2>2. Iterated(n, SS, first, step)
    BY ONLY <2>1, Iterates
  <2> QED BY <2>2 DEF Iterated
<1>5. \A i \in 1 .. n : f[i] = PushAll(f[i - 1], Pieces(v1[i], r1))
  <2> TAKE i \in 1 .. n
  <2>1. i - 1 \in 0 .. n
    BY <1>1
  <2>2. f[i - 1] \in SS
    BY <1>4, <2>1
  <2>3. step[<<f[i - 1], i>>] = PushAll(f[i - 1], Pieces(v1[i], r1))
    BY <1>3, <2>2
  <2> QED BY <1>4, <2>3
<1>6. Is(f)
  <2> DEFINE g == [i \in 0 .. n |-> IF i = 0 THEN <<>> ELSE PushAll(f[i - 1], Pieces(v1[i], r1))]
  <2>1. \A i \in 0 .. n : f[i] = g[i]
    <3> TAKE i \in 0 .. n
    <3>1. CASE i = 0
      BY <1>1, <1>4, <3>1 DEF first
    <3>2. CASE i # 0
      <4>1. i \in 1 .. n
        BY <1>1, <3>2
      <4> QED BY <1>5, <3>2, <4>1
    <3> QED BY <3>1, <3>2
  <2>2. f = [i \in 0 .. n |-> f[i]] /\ g = [i \in 0 .. n |-> g[i]]
    BY <1>4
  <2> HIDE DEF g
  <2>3. f = g
    BY <2>1, <2>2
  <2> QED BY <2>3 DEF g
<1>7. Is(v2)
  BY <1>6
<1>8. Cut(v1, r1) = v2[n]
  BY DEF Cut, n, first
<1> HIDE DEF v2
<1>9. /\ DOMAIN v2 = 0 .. n /\ v2 = [i \in 0 .. n |-> v2[i]]
      /\ v2[0] = first
      /\ \A i \in 1 .. n : v2[i] = PushAll(v2[i - 1], Pieces(v1[i], r1))
  <2> DEFINE g == [i \in 0 .. n |-> IF i = 0 THEN <<>> ELSE PushAll(v2[i - 1], Pieces(v1[i], r1))]
  <2>1. v2 = g
    BY <1>7
  <2>2. \A i \in 0 .. n : g[i] = IF i = 0 THEN <<>> ELSE PushAll(v2[i - 1], Pieces(v1[i], r1))
    OBVIOUS
  <2>3. DOMAIN g = 0 .. n /\ g = [i \in 0 .. n |-> g[i]]
    OBVIOUS
  <2> HIDE DEF g
  <2>4. 0 \in 0 .. n /\ \A i \in 1 .. n : i \in 0 .. n /\ i # 0
    BY <1>1
  <2> QED BY <2>1, <2>2, <2>3, <2>4 DEF first
<1>10. \A i \in 1 .. n : v2[i - 1] \in SS => v2[i] \in SS
  BY <1>2, <1>9
<1>11. \A i \in 0 .. n : v2[i] \in SS
  BY <1>1, <1>9, <1>10, AllIn
<1>12. v2 \in [0 .. n -> SS]
  BY <1>9, <1>11
<1>13. Cuts(v2, v1, r1)
  BY <1>8, <1>9, <1>12 DEF n, SS, first, Cuts
<1> QED BY <1>13

LEMMA CutHas ==
  ASSUME NEW v1 \in Seq(Rects), NEW r1 \in Rects
  PROVE  /\ Cut(v1, r1) \in Seq(Rects)
         /\ \A p \in ToSet(Cut(v1, r1)) :
              ~Overlap(p, r1) /\ \E a \in ToSet(v1) : RectContains(a, p)
         /\ \A q \in Rects : Solid(q) /\ ~Overlap(q, r1) /\ Covers(v1, q)
                             => Covers(Cut(v1, r1), q)
<1> DEFINE n == Len(v1)
<1>1. \E k : Cuts(k, v1, r1)
  BY CutIs
<1>2. PICK k \in [0 .. n -> Seq(Rects)] :
        /\ Cut(v1, r1) = k[n] /\ k[0] = <<>>
        /\ \A i \in 1 .. n : k[i] = PushAll(k[i - 1], Pieces(v1[i], r1))
  BY <1>1, Zenon DEF Cuts
<1>3. /\ n \in Nat /\ DOMAIN v1 = 1 .. n
      /\ \A i \in 1 .. n : v1[i] \in Rects /\ v1[i] \in ToSet(v1)
  BY DEF ToSet
<1> DEFINE Clean(p) == ~Overlap(p, r1) /\ \E a \in ToSet(v1) : RectContains(a, p)
           Had(m, q) == Solid(q) /\ ~Overlap(q, r1) /\ \E i \in 1 .. m : RectContains(v1[i], q)
           G == {m \in 0 .. n : /\ \A p \in ToSet(k[m]) : Clean(p)
                                /\ \A q \in Rects : Had(m, q) => Covers(k[m], q)}
<1>4. 0 \in G
  <2>1. ToSet(<<>>) = {} /\ 0 \in 0 .. n /\ \A q : ~Had(0, q)
    BY <1>3 DEF ToSet
  <2> HIDE DEF Clean, Had
  <2> QED BY <1>2, <2>1
<1>5. ASSUME NEW m \in 0 .. n - 1, m \in G PROVE m + 1 \in G
  <2>1. m + 1 \in 1 .. n /\ (m + 1) - 1 = m /\ m \in 0 .. n /\ m + 1 \in 0 .. n
    BY <1>3
  <2> DEFINE u == k[m]
             v == k[m + 1]
             a == v1[m + 1]
             pieces == Pieces(a, r1)
  <2>2. u \in Seq(Rects) /\ v = PushAll(u, pieces) /\ a \in Rects /\ a \in ToSet(v1)
    BY <1>2, <1>3, <2>1
  <2>3. /\ \A p \in ToSet(u) : Clean(p)
        /\ \A q \in Rects : Had(m, q) => Covers(u, q)
    BY <1>5
  <2> HIDE DEF u, v
  <2>4. /\ pieces \in Seq(Rects)
        /\ \A p \in ToSet(pieces) : RectContains(a, p) /\ ~Overlap(p, r1)
        /\ \A q \in Rects : Solid(q) /\ RectContains(a, q) /\ ~Overlap(q, r1) => Covers(pieces, q)
    BY <2>2, PiecesAre
  <2> HIDE DEF pieces
  <2>5. /\ v \in Seq(Rects) /\ ToSet(v) \subseteq ToSet(u) \cup ToSet(pieces)
        /\ \A q \in Rects : Covers(u, q) \/ Covers(pieces, q) => Covers(v, q)
    BY <2>2, <2>4, PushAllHas
  <2>6. ASSUME NEW q \in Rects, Had(m + 1, q) PROVE Covers(v, q)
    <3>1. CASE Had(m, q)
      BY <2>3, <2>5, <3>1
    <3>2. CASE ~Had(m, q)
      <4>1. Solid(q) /\ ~Overlap(q, r1) /\ RectContains(a, q)
        <5>1. PICK i \in 1 .. m + 1 : RectContains(v1[i], q)
          BY <2>6
        <5>2. i \notin 1 .. m
          BY <2>6, <3>2, <5>1
        <5>3. i = m + 1
          BY <2>1, <5>1, <5>2
        <5> QED BY <2>6, <5>1, <5>3
      <4> QED BY <2>4, <2>5, <4>1
    <3> QED BY <3>1, <3>2
  <2>7. \A p \in ToSet(v) : Clean(p)
    BY <2>2, <2>3, <2>4, <2>5
  <2> QED BY <2>1, <2>6, <2>7 DEF v
<1> HIDE DEF G
<1>6. n \in G
  BY <1>3, <1>4, <1>5, UpTo
<1>7. /\ \A p \in ToSet(k[n]) : Clean(p)
      /\ \A q \in Rects : Had(n, q) => Covers(k[n], q)
  BY <1>6 DEF G
<1>8. \A q \in Rects : Solid(q) /\ ~Overlap(q, r1) /\ Covers(v1, q) => Had(n, q)
  BY <1>3 DEF Covers
<1>9. k[n] \in Seq(Rects)
  BY <1>2, <1>3
<1> QED BY <1>2, <1>7, <1>8, <1>9

(* A rectangle is cut by one after another.                                *)
Frees(k, vec, orig) ==
  /\ k \in [0 .. Len(vec) -> Seq(Rects)] /\ UniqueRects(vec, orig) = k[Len(vec)] /\ k[0] = <<orig>>
  /\ \A i \in 1 .. Len(vec) : k[i] = Cut(k[i - 1], vec[i])

LEMMA UniqueRectsIs ==
  ASSUME NEW vec \in Seq(Rects), NEW orig \in Rects
  PROVE  \E k : Frees(k, vec, orig)
<1> DEFINE n == Len(vec)
           SS == Seq(Rects)
           first == <<orig>>
           Is(k) == k = [i \in 0 .. n |-> IF i = 0 THEN <<orig>> ELSE Cut(k[i - 1], vec[i])]
           v1 == CHOOSE k : Is(k)
           step == [x \in SS \X (1 .. n) |-> Cut(x[1], vec[x[2]])]
<1>1. n \in Nat /\ first \in SS
  OBVIOUS
<1>2. \A k \in SS, i \in 1 .. n : Cut(k, vec[i]) \in SS
  <2> TAKE k \in SS, i \in 1 .. n
  <2>1. k \in Seq(Rects) /\ vec[i] \in Rects
    OBVIOUS
  <2> QED BY <2>1, CutHas
<1>3. step \in [SS \X (1 .. n) -> SS]
      /\ \A k \in SS, i \in 1 .. n : step[<<k, i>>] = Cut(k, vec[i])
  BY <1>2
<1> HIDE DEF step, SS, first, n
<1>4. PICK f \in [0 .. n -> SS] :
         f[0] = first /\ \A i \in 1 .. n : f[i] = step[<<f[i - 1], i>>]
  <2>1. n \in Nat /\ first \in SS /\ step \in [SS \X (1 .. n) -> SS]
    BY <1>1, <1>3
  <2>2. Iterated(n, SS, first, step)
    BY ONLY <2>1, Iterates
  <2> QED BY <2>2 DEF Iterated
<1>5. \A i \in 1 .. n : f[i] = Cut(f[i - 1], vec[i])
  <2> TAKE i \in 1 .. n
  <2>1. i - 1 \in 0 .. n
    BY <1>1
  <2>2. f[i - 1] \in SS
    BY <1>4, <2>1
  <2>3. step[<<f[i - 1], i>>] = Cut(f[i - 1], vec[i])
    BY <1>3, <2>2
  <2> QED BY <1>4, <2>3
<1>6. Is(f)
  <2> DEFINE g == [i \in 0 .. n |-> IF i = 0 THEN <<orig>> ELSE Cut(f[i - 1], vec[i])]
  <2>1. \A i \in 0 .. n : f[i] = g[i]
    <3> TAKE i \in 0 .. n
    <3>1. CASE i = 0
      BY <1>1, <1>4, <3>1 DEF first
    <3>2. CASE i # 0
      <4>1. i \in 1 .. n
        BY <1>1, <3>2
      <4> QED BY <1>5, <3>2, <4>1
    <3> QED BY <3>1, <3>2
  <2>2. f = [i \in 0 .. n |-> f[i]] /\ g = [i \in 0 .. n |-> g[i]]
    BY <1>4
  <2> HIDE DEF g
  <2>3. f = g
    BY <2>1, <2>2
  <2> QED BY <2>3 DEF g
<1>7. Is(v1)
  BY <1>6
<1>8. UniqueRects(vec, orig) = v1[n]
  BY DEF UniqueRects, n, first
<1> HIDE DEF v1
<1>9. /\ DOMAIN v1 = 0 .. n /\ v1 = [i \in 0 .. n |-> v1[i]]
      /\ v1[0] = first
      /\ \A i \in 1 .. n : v1[i] = Cut(v1[i - 1], vec[i])
  <2> DEFINE g == [i \in 0 .. n |-> IF i = 0 THEN <<orig>> ELSE Cut(v1[i - 1], vec[i])]
  <2>1. v1 = g
    BY <1>7
  <2>2. \A i \in 0 .. n : g[i] = IF i = 0 THEN <<orig>> ELSE Cut(v1[i - 1], vec[i])
    OBVIOUS
  <2>3. DOMAIN g = 0 .. n /\ g = [i \in 0 .. n |-> g[i]]
    OBVIOUS
  <2> HIDE DEF g
  <2>4. 0 \in 0 .. n /\ \A i \in 1 .. n : i \in 0 .. n /\ i # 0
    BY <1>1
  <2> QED BY <2>1, <2>2, <2>3, <2>4 DEF first
<1>10. \A i \in 1 .. n : v1[i - 1] \in SS => v1[i] \in SS
  BY <1>2, <1>9
<1>11. \A i \in 0 .. n : v1[i] \in SS
  BY <1>1, <1>9, <1>10, AllIn
<1>12. v1 \in [0 .. n -> SS]
  BY <1>9, <1>11
<1>13. Frees(v1, vec, orig)
  BY <1>8, <1>9, <1>12 DEF n, SS, first, Frees
<1> QED BY <1>13

(* What is left is free: it lies in the screen and overlaps no window.     *)
(* And all that is free is left.                                           *)
LEMMA UniqueRectsFree ==
  ASSUME NEW vec \in Seq(Rects), NEW orig \in Rects
  PROVE  LET free == UniqueRects(vec, orig)
         IN  /\ free \in Seq(Rects)
             /\ \A p \in ToSet(free) :
                  RectContains(orig, p) /\ \A j \in DOMAIN vec : ~Overlap(p, vec[j])
             /\ \A q \in Rects :
                  /\ Solid(q) /\ RectContains(orig, q)
                  /\ \A j \in DOMAIN vec : ~Overlap(q, vec[j])
                  => Covers(free, q)
<1> DEFINE n == Len(vec)
<1>1. \E k : Frees(k, vec, orig)
  BY UniqueRectsIs
<1>2. PICK k \in [0 .. n -> Seq(Rects)] :
        /\ UniqueRects(vec, orig) = k[n] /\ k[0] = <<orig>>
        /\ \A i \in 1 .. n : k[i] = Cut(k[i - 1], vec[i])
  BY <1>1, Zenon DEF Frees
<1>3. n \in Nat /\ DOMAIN vec = 1 .. n /\ \A i \in 1 .. n : vec[i] \in Rects
  OBVIOUS
<1> DEFINE Clean(m, p) == RectContains(orig, p) /\ \A j \in 1 .. m : ~Overlap(p, vec[j])
           Wanted(q) == /\ Solid(q) /\ RectContains(orig, q)
                        /\ \A j \in DOMAIN vec : ~Overlap(q, vec[j])
           G == {m \in 0 .. n : /\ \A p \in ToSet(k[m]) : Clean(m, p)
                                /\ \A q \in Rects : Wanted(q) => Covers(k[m], q)}
<1>4. 0 \in G
  <2>1. DOMAIN <<orig>> = {1} /\ <<orig>>[1] = orig /\ 0 \in 0 .. n
    BY <1>3
  <2>2. ToSet(<<orig>>) = {orig}
    BY <2>1 DEF ToSet
  <2>3. RectContains(orig, orig) /\ 1 .. 0 = {}
    BY Parts DEF RectContains
  <2>4. Clean(0, orig)
    BY <2>3
  <2>5. \A q \in Rects : Wanted(q) => Covers(<<orig>>, q)
    BY <2>1 DEF Covers
  <2> HIDE DEF Clean, Wanted
  <2> QED BY <1>2, <2>1, <2>2, <2>4, <2>5
<1>5. ASSUME NEW m \in 0 .. n - 1, m \in G PROVE m + 1 \in G
  <2>1. m + 1 \in 1 .. n /\ (m + 1) - 1 = m /\ m \in 0 .. n /\ m + 1 \in 0 .. n
    BY <1>3
  <2> DEFINE u == k[m]
             v == k[m + 1]
             r == vec[m + 1]
  <2>2. u \in Seq(Rects) /\ v = Cut(u, r) /\ r \in Rects
    BY <1>2, <1>3, <2>1
  <2>3. /\ \A p \in ToSet(u) : Clean(m, p)
        /\ \A q \in Rects : Wanted(q) => Covers(u, q)
    BY <1>5
  <2>4. \A q : Wanted(q) => ~Overlap(q, r) /\ Solid(q)
    BY <1>3, <2>1
  <2> HIDE DEF u, v, Wanted
  <2>5. /\ v \in Seq(Rects)
        /\ \A p \in ToSet(v) : ~Overlap(p, r) /\ \E a \in ToSet(u) : RectContains(a, p)
        /\ \A q \in Rects : Solid(q) /\ ~Overlap(q, r) /\ Covers(u, q) => Covers(v, q)
    BY <2>2, CutHas
  <2>6. \A q \in Rects : Wanted(q) => Covers(v, q)
    BY <2>3, <2>4, <2>5
  <2>7. ASSUME NEW p \in ToSet(v) PROVE Clean(m + 1, p)
    <3>1. PICK a \in ToSet(u) : RectContains(a, p)
      BY <2>5
    <3>2. /\ a \in Rects /\ p \in Rects /\ RectContains(orig, a)
          /\ \A j \in 1 .. m : ~Overlap(a, vec[j])
      <4>1. a \in Rects /\ p \in Rects
        BY <2>2, <2>5 DEF ToSet
      <4> QED BY <2>3, <4>1
    <3>3. RectContains(orig, p)
      BY <3>1, <3>2, Within
    <3>4. ASSUME NEW j \in 1 .. m + 1 PROVE ~Overlap(p, vec[j])
      <4>1. CASE j = m + 1
        BY <2>5, <4>1
      <4>2. CASE j # m + 1
        <5>1. j \in 1 .. m /\ j \in 1 .. n
          BY <1>3, <2>1, <4>2
        <5> QED BY <1>3, <3>1, <3>2, <5>1, Within
      <4> QED BY <4>1, <4>2
    <3> QED BY <3>3, <3>4
  <2> HIDE DEF Clean
  <2> QED BY <2>1, <2>6, <2>7 DEF v
<1> HIDE DEF G
<1>6. n \in G
  BY <1>3, <1>4, <1>5, UpTo
<1>7. /\ \A p \in ToSet(k[n]) : Clean(n, p)
      /\ \A q \in Rects : Wanted(q) => Covers(k[n], q)
  BY <1>6 DEF G
<1>8. k[n] \in Seq(Rects)
  BY <1>2, <1>3
<1> QED BY <1>2, <1>3, <1>7, <1>8

-----------------------------------------------------------------------------
(* What the mouse does to a rectangle.                                     *)

Lines == [low : Int, high : Int, from : Int, to : Int]

LEMMA SnappingIs ==
  ASSUME NEW dx \in Int, NEW line \in Lines, NEW from, NEW to, NEW p \in Int
  PROVE  Snapping(dx, line, from, to, p) \in Int
<1>1. line.low - p \in Int /\ line.high - p \in Int
  BY DEF Lines
<1>2. Nearer(dx, line.low - p) \in Int
  BY <1>1 DEF Nearer
<1>3. Nearer(Nearer(dx, line.low - p), line.high - p) \in Int
  BY <1>1, <1>2 DEF Nearer
<1> QED BY <1>3 DEF Snapping

(* One line after another may be nearer.                                   *)
Snaps(k, lines, d, from, to, p) ==
  /\ k \in [0 .. Len(lines) -> Int] /\ SnapLine(lines, d, from, to, p) = k[Len(lines)] /\ k[0] = d
  /\ \A i \in 1 .. Len(lines) : k[i] = Snapping(k[i - 1], lines[i], from, to, p)

LEMMA SnapLineIs ==
  ASSUME NEW lines \in Seq(Lines), NEW d \in Int, NEW from, NEW to, NEW p \in Int
  PROVE  \E k : Snaps(k, lines, d, from, to, p)
<1> DEFINE n == Len(lines)
           SS == Int
           first == d
           Is(k) == k = [i \in 0 .. n |-> IF i = 0 THEN d ELSE Snapping(k[i - 1], lines[i], from, to, p)]
           dx == CHOOSE k : Is(k)
           step == [x \in SS \X (1 .. n) |-> Snapping(x[1], lines[x[2]], from, to, p)]
<1>1. n \in Nat /\ first \in SS
  OBVIOUS
<1>2. \A k \in SS, i \in 1 .. n : Snapping(k, lines[i], from, to, p) \in SS
  <2> TAKE k \in SS, i \in 1 .. n
  <2>1. k \in Int /\ lines[i] \in Lines
    OBVIOUS
  <2> QED BY <2>1, SnappingIs
<1>3. step \in [SS \X (1 .. n) -> SS]
      /\ \A k \in SS, i \in 1 .. n : step[<<k, i>>] = Snapping(k, lines[i], from, to, p)
  BY <1>2
<1> HIDE DEF step, SS, first, n
<1>4. PICK f \in [0 .. n -> SS] :
         f[0] = first /\ \A i \in 1 .. n : f[i] = step[<<f[i - 1], i>>]
  <2>1. n \in Nat /\ first \in SS /\ step \in [SS \X (1 .. n) -> SS]
    BY <1>1, <1>3
  <2>2. Iterated(n, SS, first, step)
    BY ONLY <2>1, Iterates
  <2> QED BY <2>2 DEF Iterated
<1>5. \A i \in 1 .. n : f[i] = Snapping(f[i - 1], lines[i], from, to, p)
  <2> TAKE i \in 1 .. n
  <2>1. i - 1 \in 0 .. n
    BY <1>1
  <2>2. f[i - 1] \in SS
    BY <1>4, <2>1
  <2>3. step[<<f[i - 1], i>>] = Snapping(f[i - 1], lines[i], from, to, p)
    BY <1>3, <2>2
  <2> QED BY <1>4, <2>3
<1>6. Is(f)
  <2> DEFINE g == [i \in 0 .. n |-> IF i = 0 THEN d ELSE Snapping(f[i - 1], lines[i], from, to, p)]
  <2>1. \A i \in 0 .. n : f[i] = g[i]
    <3> TAKE i \in 0 .. n
    <3>1. CASE i = 0
      BY <1>1, <1>4, <3>1 DEF first
    <3>2. CASE i # 0
      <4>1. i \in 1 .. n
        BY <1>1, <3>2
      <4> QED BY <1>5, <3>2, <4>1
    <3> QED BY <3>1, <3>2
  <2>2. f = [i \in 0 .. n |-> f[i]] /\ g = [i \in 0 .. n |-> g[i]]
    BY <1>4
  <2> HIDE DEF g
  <2>3. f = g
    BY <2>1, <2>2
  <2> QED BY <2>3 DEF g
<1>7. Is(dx)
  BY <1>6
<1>8. SnapLine(lines, d, from, to, p) = dx[n]
  BY DEF SnapLine, n, first
<1> HIDE DEF dx
<1>9. /\ DOMAIN dx = 0 .. n /\ dx = [i \in 0 .. n |-> dx[i]]
      /\ dx[0] = first
      /\ \A i \in 1 .. n : dx[i] = Snapping(dx[i - 1], lines[i], from, to, p)
  <2> DEFINE g == [i \in 0 .. n |-> IF i = 0 THEN d ELSE Snapping(dx[i - 1], lines[i], from, to, p)]
  <2>1. dx = g
    BY <1>7
  <2>2. \A i \in 0 .. n : g[i] = IF i = 0 THEN d ELSE Snapping(dx[i - 1], lines[i], from, to, p)
    OBVIOUS
  <2>3. DOMAIN g = 0 .. n /\ g = [i \in 0 .. n |-> g[i]]
    OBVIOUS
  <2> HIDE DEF g
  <2>4. 0 \in 0 .. n /\ \A i \in 1 .. n : i \in 0 .. n /\ i # 0
    BY <1>1
  <2> QED BY <2>1, <2>2, <2>3, <2>4 DEF first
<1>10. \A i \in 1 .. n : dx[i - 1] \in SS => dx[i] \in SS
  BY <1>2, <1>9
<1>11. \A i \in 0 .. n : dx[i] \in SS
  BY <1>1, <1>9, <1>10, AllIn
<1>12. dx \in [0 .. n -> SS]
  BY <1>9, <1>11
<1>13. Snaps(dx, lines, d, from, to, p)
  BY <1>8, <1>9, <1>12 DEF n, SS, first, Snaps
<1> QED BY <1>13

LEMMA SnapLineInt ==
  ASSUME NEW lines \in Seq(Lines), NEW d \in Int, NEW from, NEW to, NEW p \in Int
  PROVE  SnapLine(lines, d, from, to, p) \in Int
<1>1. PICK k : Snaps(k, lines, d, from, to, p)
  BY SnapLineIs
<1>2. k \in [0 .. Len(lines) -> Int] /\ SnapLine(lines, d, from, to, p) = k[Len(lines)]
  BY <1>1 DEF Snaps
<1>3. Len(lines) \in 0 .. Len(lines)
  OBVIOUS
<1> QED BY <1>2, <1>3

LEMMA SnapLinesInt ==
  ASSUME NEW rects \in Seq(Rects), NEW d \in Int, NEW r \in Rects, NEW p \in Int
  PROVE  SnapHLine(rects, d, r, p) \in Int /\ SnapVLine(rects, d, r, p) \in Int
<1> DEFINE h == [i \in DOMAIN rects |->
                   [low |-> rects[i].min.y, high |-> rects[i].max.y,
                    from |-> rects[i].min.x, to |-> rects[i].max.x]]
           v == [i \in DOMAIN rects |->
                   [low |-> rects[i].min.x, high |-> rects[i].max.x,
                    from |-> rects[i].min.y, to |-> rects[i].max.y]]
<1>1. \A i \in DOMAIN rects : rects[i] \in Rects
  OBVIOUS
<1>2. \A i \in DOMAIN rects : rects[i].min.x \in Int /\ rects[i].min.y \in Int
                             /\ rects[i].max.x \in Int /\ rects[i].max.y \in Int
  BY <1>1 DEF Rects, Points
<1>3. DOMAIN rects = 1 .. Len(rects) /\ Len(rects) \in Nat
  OBVIOUS
<1>4. h \in Seq(Lines) /\ v \in Seq(Lines)
  <2>1. \A i \in DOMAIN rects : h[i] \in Lines /\ v[i] \in Lines
    BY <1>2 DEF Lines
  <2>2. h \in [1 .. Len(rects) -> Lines] /\ v \in [1 .. Len(rects) -> Lines]
    BY <1>3, <2>1
  <2> QED BY <1>3, <2>2
<1>5. /\ SnapHLine(rects, d, r, p) = SnapLine(h, d, r.min.x, r.max.x, p)
      /\ SnapVLine(rects, d, r, p) = SnapLine(v, d, r.min.y, r.max.y, p)
  BY DEF SnapHLine, SnapVLine
<1> HIDE DEF h, v
<1> QED BY <1>4, <1>5, SnapLineInt

LEMMA RectMorphIs ==
  ASSUME NEW r \in Rects, NEW d \in Points, NEW mask \in SUBSET Center
  PROVE  RectMorph(r, d, mask).r \in Rects /\ RectMorph(r, d, mask).mask \in SUBSET Center
<1> DEFINE x0 == r.min.x + (IF "West" \in mask THEN d.x ELSE 0)
           x1 == r.max.x + (IF "East" \in mask THEN d.x ELSE 0)
           y0 == r.min.y + (IF "North" \in mask THEN d.y ELSE 0)
           y1 == r.max.y + (IF "South" \in mask THEN d.y ELSE 0)
<1>1. {r.min.x, r.min.y, r.max.x, r.max.y, d.x, d.y} \subseteq Int
  BY Parts DEF Points
<1>2. x0 \in Int /\ x1 \in Int /\ y0 \in Int /\ y1 \in Int
  BY <1>1
<1>3. /\ RectMorph(r, d, mask).r = Rect(Least(x0, x1), Least(y0, y1), Most(x0, x1), Most(y0, y1))
      /\ RectMorph(r, d, mask).mask = Xor(mask, (IF x0 > x1 THEN Across ELSE {})
                                                \cup (IF y0 > y1 THEN Along ELSE {}))
  BY DEF RectMorph
<1> HIDE DEF x0, x1, y0, y1
<1>4. Least(x0, x1) \in Int /\ Least(y0, y1) \in Int /\ Most(x0, x1) \in Int /\ Most(y0, y1) \in Int
  BY <1>2, MostLeast
<1>5. Rect(Least(x0, x1), Least(y0, y1), Most(x0, x1), Most(y0, y1)) \in Rects
  BY <1>4, SidesAre DEF Sides
<1>6. RectMorph(r, d, mask).mask \in SUBSET Center
  BY <1>3 DEF Xor, Across, Along, Center
<1> QED BY <1>3, <1>5, <1>6

LEMMA SnapRectIs ==
  ASSUME NEW rects \in Seq(Rects), NEW r \in Rects, NEW mask \in SUBSET Center
  PROVE  SnapRect(rects, r, mask).r \in Rects /\ SnapRect(rects, r, mask).mask \in SUBSET Center
<1> DEFINE n == IF "North" \in mask THEN SnapHLine(rects, Snap + 1, r, r.min.y) ELSE Snap + 1
           y == IF "South" \in mask THEN SnapHLine(rects, n, r, r.max.y) ELSE n
           e == IF "East" \in mask THEN SnapVLine(rects, Snap + 1, r, r.max.x) ELSE Snap + 1
           x == IF "West" \in mask THEN SnapVLine(rects, e, r, r.min.x) ELSE e
           near == (IF Magnitude(x) <= Snap THEN Across ELSE {})
                   \cup (IF Magnitude(y) <= Snap THEN Along ELSE {})
           d == Pt(IF Across \subseteq near THEN x ELSE 0, IF Along \subseteq near THEN y ELSE 0)
<1>1. r.min.x \in Int /\ r.min.y \in Int /\ r.max.x \in Int /\ r.max.y \in Int
  BY Parts
<1>2. Snap + 1 \in Int
  BY FloatingAssumption
<1>3. n \in Int /\ e \in Int
  BY <1>1, <1>2, SnapLinesInt
<1> HIDE DEF n, e
<1>4. y \in Int /\ x \in Int
  BY <1>1, <1>3, SnapLinesInt
<1>5. /\ SnapRect(rects, r, mask).r = RectMorph(r, d, mask).r
      /\ SnapRect(rects, r, mask).mask = RectMorph(r, d, mask).mask
  BY DEF SnapRect, n, e
<1> HIDE DEF x, y, near
<1>6. (IF Across \subseteq near THEN x ELSE 0) \in Int /\ (IF Along \subseteq near THEN y ELSE 0) \in Int
  BY <1>4
<1>7. d \in Points
  BY <1>6, PtIs
<1> HIDE DEF d
<1> QED BY <1>5, <1>7, RectMorphIs
-----------------------------------------------------------------------------
(* Places.                                                                 *)

Layered == [Windows -> Windowed]

LEMMA ContainsIs ==
  ASSUME NEW S, NEW L \in Seq(S), NEW w
  PROVE  Contains(L, w) <=> w \in ToSet(L)
  BY DEF Contains, ToSet

LEMMA Rectangles ==
  ASSUME NEW f \in Layered, NEW L \in Seq(Windows)
  PROVE  [i \in 1 .. Len(L) |-> f[L[i]].r] \in Seq(Rects)
<1>1. \A i \in 1 .. Len(L) : f[L[i]].r \in Rects
  <2> TAKE i \in 1 .. Len(L)
  <2>1. L[i] \in Windows
    OBVIOUS
  <2>2. f[L[i]] \in Windowed
    BY <2>1 DEF Layered
  <2> QED BY <2>2 DEF Windowed
<1>2. [i \in 1 .. Len(L) |-> f[L[i]].r] \in [1 .. Len(L) -> Rects]
  BY <1>1
<1>3. Len(L) \in Nat
  OBVIOUS
<1> DEFINE v == [i \in 1 .. Len(L) |-> f[L[i]].r]
<1> HIDE DEF v
<1>4. v \in [1 .. Len(L) -> Rects]
  BY <1>2 DEF v
<1>5. v \in Seq(Rects)
  BY <1>3, <1>4
<1> QED BY <1>5 DEF v

LEMMA ViewRectsAre ==
  ASSUME NEW f \in Layered, NEW ignored, list \in Seq(Windows)
  PROVE  ViewRects(f, ignored) \in Seq(Rects)
<1> DEFINE shown == Besides(list, ignored)
           u == [i \in 1 .. Len(shown) |-> f[shown[i]].r]
           n == Len(Screens)
           v == [i \in 1 .. 2 * n |->
                   IF i % 2 = 1 THEN Screens[(i + 1) \div 2].vr ELSE Screens[i \div 2].r]
<1>1. shown \in Seq(Windows)
  BY BesidesHas
<1> HIDE DEF shown
<1>2. u \in Seq(Rects)
  BY <1>1, Rectangles
<1>3. n \in Nat /\ DOMAIN Screens = 1 .. n
  BY FloatingAssumption
<1> HIDE DEF n
<1>4. \A i \in 1 .. 2 * n : v[i] \in Rects
  <2> TAKE i \in 1 .. 2 * n
  <2>1. CASE i % 2 = 1
    <3>1. (i + 1) \div 2 \in DOMAIN Screens
      BY <1>3, <2>1
    <3> QED BY <2>1, <3>1, InsideIs
  <2>2. CASE i % 2 # 1
    <3>1. i \div 2 \in DOMAIN Screens
      BY <1>3, <2>2
    <3> QED BY <2>2, <3>1, InsideIs
  <2> QED BY <2>1, <2>2
<1>5. v \in Seq(Rects)
  <2>1. v = [i \in 1 .. 2 * n |-> v[i]]
    OBVIOUS
  <2>2. 2 * n \in Nat
    BY <1>3
  <2> HIDE DEF v
  <2>3. v \in [1 .. 2 * n -> Rects]
    BY <1>4, <2>1
  <2> QED BY <2>2, <2>3
<1>6. ViewRects(f, ignored) = u \o v
  BY DEF ViewRects, shown, n
<1> HIDE DEF u, v
<1> QED BY <1>2, <1>5, <1>6, Joined

LEMMA LargestFree ==
  ASSUME NEW free \in Seq(Rects), NEW fits \in SUBSET DOMAIN free, fits # {}
  PROVE  FirstMost(fits, LAMBDA i : -AreaOf(free[i])) \in fits
<1> DEFINE f == [i \in fits |-> -AreaOf(free[i])]
<1>1. \A i \in fits : -AreaOf(free[i]) \in Int
  <2> TAKE i \in fits
  <2>1. free[i] \in Rects
    OBVIOUS
  <2>2. WidthOf(free[i]) \in Int /\ HeightOf(free[i]) \in Int
    BY <2>1, Parts
  <2> QED BY <2>2 DEF AreaOf
<1>2. f \in [fits -> Int]
  BY <1>1
<1>3. DOMAIN free = 1 .. Len(free) /\ Len(free) \in Nat
  OBVIOUS
<1>4. \A i \in fits : f[i] = -AreaOf(free[i])
  OBVIOUS
<1> HIDE DEF f
<1>5. PICK i \in fits : \A j \in fits : f[i] > f[j] \/ (f[i] = f[j] /\ i <= j)
  BY <1>2, <1>3, Greatest
<1>6. \A j \in fits : -AreaOf(free[i]) > -AreaOf(free[j])
                      \/ (-AreaOf(free[i]) = -AreaOf(free[j]) /\ i <= j)
  BY <1>4, <1>5
<1>7. FirstMost(fits, LAMBDA k : -AreaOf(free[k]))
      = CHOOSE k \in fits : \A j \in fits : -AreaOf(free[k]) > -AreaOf(free[j])
                              \/ (-AreaOf(free[k]) = -AreaOf(free[j]) /\ k <= j)
  BY DEF FirstMost
<1> QED BY <1>6, <1>7, Zenon

LEMMA PlacedIs ==
  ASSUME NEW free \in Seq(Rects), NEW r \in Rects, NEW screen \in Rects,
         win \in Layered, fsel \in Windows \cup {NoWindow}
  PROVE  /\ Placed(free, r, screen) \in Rects
         /\ Fitting(free, r) # {} =>
              \E i \in Fitting(free, r) : Placed(free, r, screen) = RectSetOrigin(r, free[i].min)
<1> DEFINE fits == Fitting(free, r)
           i == FirstMost(fits, LAMBDA k : -AreaOf(free[k]))
           d == Pt(TitleH - 3, TitleH - 3)
           p == IF fsel = NoWindow THEN ZP ELSE AddPt(win[fsel].r.min, d)
<1>1. fits \in SUBSET DOMAIN free
  BY DEF Fitting
<1>2. Placed(free, r, screen) = IF fits # {} THEN RectSetOrigin(r, free[i].min)
                                ELSE Cascaded(r, p, screen)
  BY DEF Placed, PlacedIn
<1> HIDE DEF fits
<1>3. ASSUME fits # {} PROVE i \in fits /\ free[i].min \in Points
  <2>1. i \in fits
    BY <1>1, <1>3, LargestFree
  <2> HIDE DEF i
  <2>2. free[i] \in Rects
    BY <1>1, <2>1
  <2> QED BY <2>1, <2>2, Parts
<1> HIDE DEF i
<1>4. p \in Points
  <2>1. TitleH - 3 \in Int
    BY FloatingAssumption
  <2>2. d \in Points
    BY <2>1, PtIs
  <2> HIDE DEF d
  <2>3. ASSUME fsel # NoWindow PROVE win[fsel].r.min \in Points
    <3>1. win[fsel] \in Windowed
      BY <2>3 DEF Layered
    <3>2. win[fsel].r \in Rects
      BY <3>1 DEF Windowed
    <3> QED BY <3>2, Parts
  <2> QED BY <2>2, <2>3, Zero, PointOps
<1> HIDE DEF p
<1>5. Cascaded(r, p, screen) \in Rects
  <2>1. screen.min \in Points
    BY Parts
  <2> QED BY <1>4, <2>1, RectOps DEF Cascaded
<1> QED BY <1>2, <1>3, <1>5, RectOps DEF fits

LEMMA PlaceframeIs ==
  ASSUME NEW w \in Windows, NEW s \in DOMAIN Screens,
         list \in Seq(Windows), win \in Layered, fsel \in Windows \cup {NoWindow}
  PROVE  FloatPlaceframe(w, s) \in Rects
<1> DEFINE others == Besides(list, {w})
           vec == [i \in 1 .. Len(others) |-> win[others[i]].r]
           free == UniqueRects(vec, Screens[s].vr)
<1>1. others \in Seq(Windows)
  BY BesidesHas
<1> HIDE DEF others
<1>2. vec \in Seq(Rects)
  BY <1>1, Rectangles
<1> HIDE DEF vec
<1>3. Screens[s].vr \in Rects /\ Screens[s].r \in Rects
  BY InsideIs
<1>4. free \in Seq(Rects)
  BY <1>2, <1>3, UniqueRectsFree
<1> HIDE DEF free
<1>5. win[w].floatr \in Rects
  BY DEF Layered, Windowed
<1>6. FloatPlaceframe(w, s) = IF win[w].hints.position THEN win[w].floatr
                              ELSE Placed(free, win[w].floatr, Screens[s].r)
  BY DEF FloatPlaceframe, free, vec, others
<1> QED BY <1>3, <1>4, <1>5, <1>6, PlacedIs

-----------------------------------------------------------------------------
(* The layer as a whole.                                                   *)

(* The windows of L are in reach and at rest.                              *)
Good(L, f) == \A w \in ToSet(L) : Fits(f[w]) /\ Rests(f[w])

LEMMA ViewUpdatedIs ==
  ASSUME NEW L \in Seq(Windows), NEW f \in Layered
  PROVE  /\ ViewUpdated(L, f) \in Layered /\ Good(L, ViewUpdated(L, f))
         /\ \A w \in ToSet(L) : ViewUpdated(L, f)[w] = FrameResize(f[w], f[w].r)
         /\ \A w \in Windows \ ToSet(L) : ViewUpdated(L, f)[w] = f[w]
<1> DEFINE g == ViewUpdated(L, f)
<1>1. \A w \in Windows : f[w] \in Windowed /\ f[w].r \in Rects
  BY DEF Layered, Windowed
<1>2. g = [w \in Windows |-> IF Contains(L, w) THEN FrameResize(f[w], f[w].r) ELSE f[w]]
  BY DEF ViewUpdated
<1>3. \A w \in Windows : g[w] = IF w \in ToSet(L) THEN FrameResize(f[w], f[w].r) ELSE f[w]
  BY <1>2, ContainsIs
<1>4. ToSet(L) \subseteq Windows
  BY DEF ToSet
<1>5. DOMAIN g = Windows /\ g = [w \in Windows |-> g[w]]
  BY <1>2
<1> HIDE DEF g
<1>6. \A w \in ToSet(L) : g[w] \in Windowed /\ Fits(g[w]) /\ Rests(g[w])
  <2> TAKE w \in ToSet(L)
  <2>1. f[w] \in Windowed /\ f[w].r \in Rects
    BY <1>1, <1>4
  <2>2. g[w] = FrameResize(f[w], f[w].r)
    BY <1>3, <1>4
  <2> QED BY <2>1, <2>2, Resized
<1>7. \A w \in Windows : g[w] \in Windowed
  BY <1>1, <1>3, <1>6
<1>8. g \in Layered
  BY <1>5, <1>7 DEF Layered
<1> QED BY <1>3, <1>4, <1>6, <1>8 DEF Good, g

LEMMA FloatArrangedIs ==
  ASSUME NEW L \in Seq(Windows), NEW f \in Layered
  PROVE  /\ FloatArranged(L, f) \in Layered /\ Good(L, FloatArranged(L, f))
         /\ \A w \in ToSet(L) :
              FloatArranged(L, f)[w] = FrameResize([f[w] EXCEPT !.r = f[w].floatr], f[w].floatr)
<1> DEFINE g == [w \in Windows |-> IF Contains(L, w) THEN [f[w] EXCEPT !.r = f[w].floatr]
                                                     ELSE f[w]]
<1>1. \A w \in Windows : f[w] \in Windowed /\ [f[w] EXCEPT !.r = f[w].floatr] \in Windowed
                         /\ [f[w] EXCEPT !.r = f[w].floatr].r = f[w].floatr
  BY DEF Layered, Windowed
<1>2. g \in Layered
  BY <1>1 DEF Layered
<1>3. ToSet(L) \subseteq Windows
  BY DEF ToSet
<1>4. \A w \in ToSet(L) : g[w] = [f[w] EXCEPT !.r = f[w].floatr] /\ g[w].r = f[w].floatr
  BY <1>1, <1>3, ContainsIs
<1>5. FloatArranged(L, f) = ViewUpdated(L, g)
  BY DEF FloatArranged
<1> HIDE DEF g
<1>6. /\ ViewUpdated(L, g) \in Layered /\ Good(L, ViewUpdated(L, g))
      /\ \A w \in ToSet(L) : ViewUpdated(L, g)[w] = FrameResize(g[w], g[w].r)
  BY <1>2, ViewUpdatedIs
<1> QED BY <1>4, <1>5, <1>6

LEMMA FocusableIs ==
  ASSUME NEW L \in Seq(Windows), L # <<>>, NEW f, NEW w \in ToSet(L)
  PROVE  /\ Focusable(L, f, w) \in ToSet(L)
         /\ ~f[w].collapsed => Focusable(L, f, w) = w
<1> DEFINE n == Len(L)
           i == CHOOSE j \in DOMAIN L : L[j] = w
           open == {j \in DOMAIN L : ~f[L[j]].collapsed}
           after == {j \in open : j >= i}
<1>1. i \in DOMAIN L /\ L[i] = w
  BY DEF ToSet
<1> HIDE DEF i
<1>2. n \in Nat /\ DOMAIN L = 1 .. n /\ 1 \in 1 .. n
  BY EmptySeq, LenProperties
<1>3. open \subseteq 1 .. n
  BY <1>2
<1>4. Focusable(L, f, w) =
        IF after # {} THEN L[CHOOSE j \in open : j >= i /\ \A k \in open : k >= i => j <= k]
        ELSE IF open # {} THEN L[CHOOSE j \in open : \A k \in open : k <= j]
        ELSE L[1]
  <2>1. (\E j \in open : j >= i) <=> after # {}
    OBVIOUS
  <2>2. Focusable(L, f, w) =
          IF \E j \in open : j >= i
          THEN L[CHOOSE j \in open : j >= i /\ \A k \in open : k >= i => j <= k]
          ELSE IF open # {} THEN L[CHOOSE j \in open : \A k \in open : k <= j]
          ELSE L[1]
    BY DEF Focusable, i
  <2> HIDE DEF open, after
  <2> QED BY <2>1, <2>2
<1>5. ASSUME NEW j \in DOMAIN L PROVE L[j] \in ToSet(L)
  BY DEF ToSet
<1>6. CASE after # {}
  <2> DEFINE x == CHOOSE j \in open : j >= i /\ \A k \in open : k >= i => j <= k
  <2>1. PICK m \in after : \A k \in after : m <= k
    <3>1. after \subseteq Nat
      BY <1>2, <1>3
    <3> HIDE DEF after
    <3> QED BY <1>6, <3>1, NatMin
  <2>2. m \in open /\ m >= i /\ \A k \in open : k >= i => m <= k
    BY <2>1
  <2>3. x \in open /\ x >= i /\ \A k \in open : k >= i => x <= k
    BY <2>2, Zenon
  <2> HIDE DEF x
  <2>4. ~f[w].collapsed => x = i
    <3> SUFFICES ASSUME ~f[w].collapsed PROVE x = i
      OBVIOUS
    <3>1. i \in open /\ i >= i
      BY <1>1, <1>2
    <3>2. x <= i /\ x >= i /\ x \in Int /\ i \in Int
      BY <1>1, <1>2, <1>3, <2>3, <3>1
    <3> QED BY <3>2
  <2>5. Focusable(L, f, w) = L[x]
    BY <1>4, <1>6 DEF x
  <2> QED BY <1>1, <1>5, <2>3, <2>4, <2>5
<1>7. CASE after = {} /\ open # {}
  <2> DEFINE x == CHOOSE j \in open : \A k \in open : k <= j
  <2>1. PICK m \in open : \A k \in open : k <= m
    <3> DEFINE id == [k \in open |-> k]
    <3>1. id \in [open -> Int] /\ \A k \in open : id[k] = k
      BY <1>2, <1>3
    <3> HIDE DEF open, id
    <3>2. PICK m \in open : \A j \in open : id[m] > id[j] \/ (id[m] = id[j] /\ m <= j)
      BY <1>2, <1>3, <1>7, <3>1, Greatest
    <3>3. \A j \in open : j \in Int
      BY <1>2, <1>3
    <3>4. \A j \in open : j <= m
      BY <3>1, <3>2, <3>3
    <3> QED BY <3>4
  <2>2. x \in open
    BY <2>1, Zenon
  <2>3. f[w].collapsed
    <3> SUFFICES ASSUME ~f[w].collapsed PROVE FALSE
      OBVIOUS
    <3>1. i \in after
      BY <1>1, <1>2
    <3> QED BY <1>7, <3>1
  <2>4. Focusable(L, f, w) = L[x]
    BY <1>4, <1>7
  <2> HIDE DEF x
  <2> QED BY <1>5, <2>2, <2>3, <2>4
<1>8. CASE after = {} /\ open = {}
  <2>1. f[w].collapsed
    BY <1>1, <1>8
  <2>2. Focusable(L, f, w) = L[1]
    BY <1>4, <1>8
  <2> QED BY <1>2, <1>5, <2>1, <2>2
<1> QED BY <1>6, <1>7, <1>8

(* Who has the focus after frame_focus, and that all windows are in place. *)
LEMMA GiveFocusIs ==
  ASSUME NEW L \in Seq(Windows), NEW f \in Layered, NEW w \in ToSet(L), GiveFocus(L, f, w)
  PROVE  /\ fsel' \in ToSet(L) /\ win' \in Layered /\ Good(L, win')
         /\ ~f[w].collapsed => fsel' = w
         /\ fsel' = w => win'[w] = FrameResize([f[w] EXCEPT !.collapsed = FALSE, !.r = f[w].floatr],
                                               f[w].floatr)
<1> DEFINE x == Focusable(L, f, w)
           g == [f EXCEPT ![x].collapsed = FALSE]
<1>1. fsel' = x /\ win' = FloatArranged(L, g)
  BY DEF GiveFocus
<1>2. L # <<>>
  BY DEF ToSet
<1>3. x \in ToSet(L) /\ (~f[w].collapsed => x = w)
  BY <1>2, FocusableIs
<1> HIDE DEF x
<1>4. ToSet(L) \subseteq Windows
  BY DEF ToSet
<1>5. \A v \in Windows : f[v] \in Windowed /\ [f[v] EXCEPT !.collapsed = FALSE] \in Windowed
                         /\ [f[v] EXCEPT !.collapsed = FALSE].floatr = f[v].floatr
  BY DEF Layered, Windowed
<1>6. /\ g \in Layered /\ g[x] = [f[x] EXCEPT !.collapsed = FALSE]
      /\ \A v \in Windows \ {x} : g[v] = f[v]
  <2>1. x \in Windows /\ DOMAIN f = Windows /\ f = [v \in Windows |-> f[v]]
    BY <1>3, <1>4 DEF Layered
  <2>2. g = [v \in Windows |-> IF v = x THEN [f[x] EXCEPT !.collapsed = FALSE] ELSE f[v]]
    BY <2>1
  <2> HIDE DEF g
  <2>3. \A v \in Windows : g[v] = IF v = x THEN [f[x] EXCEPT !.collapsed = FALSE] ELSE f[v]
    BY <2>2
  <2>4. DOMAIN g = Windows /\ g = [v \in Windows |-> g[v]]
    BY <2>2
  <2>5. \A v \in Windows : g[v] \in Windowed
    BY <1>5, <2>3
  <2> QED BY <2>1, <2>3, <2>4, <2>5 DEF Layered
<1> HIDE DEF g
<1>7. /\ FloatArranged(L, g) \in Layered /\ Good(L, FloatArranged(L, g))
      /\ \A v \in ToSet(L) :
           FloatArranged(L, g)[v] = FrameResize([g[v] EXCEPT !.r = g[v].floatr], g[v].floatr)
  BY <1>6, FloatArrangedIs
<1>8. fsel' = w => win'[w] = FrameResize([f[w] EXCEPT !.collapsed = FALSE, !.r = f[w].floatr],
                                         f[w].floatr)
  <2> SUFFICES ASSUME x = w
               PROVE  win'[w] = FrameResize([f[w] EXCEPT !.collapsed = FALSE, !.r = f[w].floatr],
                                            f[w].floatr)
    BY <1>1
  <2>1. win'[w] = FrameResize([g[w] EXCEPT !.r = g[w].floatr], g[w].floatr)
    BY <1>1, <1>7
  <2>2. g[w] = [f[w] EXCEPT !.collapsed = FALSE] /\ g[w].floatr = f[w].floatr
    BY <1>4, <1>5, <1>6
  <2>3. [g[w] EXCEPT !.r = g[w].floatr] = [f[w] EXCEPT !.collapsed = FALSE, !.r = f[w].floatr]
    BY <2>2
  <2> QED BY <2>1, <2>2, <2>3
<1> QED BY <1>1, <1>3, <1>7, <1>8

(* client_resize of one window of the layer.                               *)
LEMMA ResizeIs ==
  ASSUME NEW w \in Windows, NEW r \in Rects, win \in Layered, Resize(w, r)
  PROVE  /\ win' \in Layered /\ Fits(win'[w]) /\ Rests(win'[w])
         /\ \A v \in Windows \ {w} : win'[v] = win[v]
<1>1. win = [v \in Windows |-> win[v]] /\ \A v \in Windows : win[v] \in Windowed
  BY DEF Layered
<1> DEFINE x == FrameResize(win[w], r)
<1>2. x \in Windowed /\ Fits(x) /\ Rests(x)
  BY <1>1, Resized
<1>3. win' = [win EXCEPT ![w] = x]
  BY DEF Resize
<1> HIDE DEF x
<1>4. win' = [v \in Windows |-> IF v = w THEN x ELSE win[v]]
  BY <1>1, <1>3
<1>5. \A v \in Windows : win'[v] = IF v = w THEN x ELSE win[v]
  BY <1>4
<1>6. win' \in Layered
  BY <1>1, <1>2, <1>4 DEF Layered
<1> QED BY <1>2, <1>5, <1>6

-----------------------------------------------------------------------------
(* What is asked of a frame.                                               *)

LEMMA Gravitates ==
  ASSUME NEW a \in Rects, NEW b \in Rects, NEW g \in Points
  PROVE  Gravitate(a, b, g) \in Rects
<1>1. SizeOf(a) \in Points /\ SizeOf(b) \in Points
  BY RectOps, Zero
<1>2. SubPt(SizeOf(b), SizeOf(a)) \in Points
  BY <1>1, PointOps
<1>3. HalfPt(SubPt(SizeOf(b), SizeOf(a))) \in Points
  BY <1>2, Halved
<1>4. MulPt(HalfPt(SubPt(SizeOf(b), SizeOf(a))), g) \in Points
  BY <1>3, PointOps
<1> QED BY <1>4, RectOps DEF Gravitate

LEMMA ClientGravIs ==
  ASSUME NEW c, c.bare \in Decorations, c.hints \in Hints, NEW rd \in Rects
  PROVE  ClientGrav(c, rd) \in Rects
<1> DEFINE r == FrameClient2Rect(c, rd)
           back == IF c.hints.static THEN ZP ELSE SubPt(rd.min, r.min)
<1>1. r \in Rects
  BY Client2Rect
<1>2. ClientGrav(c, rd) = FrameClient2Rect(c, RectAddPt(Gravitate(rd, r, c.hints.grav), back))
  BY DEF ClientGrav
<1> HIDE DEF r
<1>3. rd.min \in Points /\ r.min \in Points
  BY <1>1, Parts
<1>4. back \in Points
  BY <1>3, Zero, PointOps
<1> HIDE DEF back
<1>5. c.hints.grav \in Points
  BY DEF Hints
<1>6. Gravitate(rd, r, c.hints.grav) \in Rects
  BY <1>1, <1>5, Gravitates
<1>7. RectAddPt(Gravitate(rd, r, c.hints.grav), back) \in Rects
  BY <1>4, <1>6, RectOps
<1> QED BY <1>2, <1>7, Client2Rect

LEMMA ClientRect ==
  ASSUME NEW c, c.bare \in Decorations, NEW r \in Rects
  PROVE  FrameRect2Client(c, r) \in Rects
<1> DEFINE x0 == r.min.x + Edge(c)
           y0 == r.min.y + Top(c)
           x1 == r.max.x - Edge(c)
           y1 == r.max.y - Edge(c)
           s == Rect(x0, y0, x1, y1)
<1>1. {r.min.x, r.min.y, r.max.x, r.max.y} \subseteq Int /\ Edge(c) \in Int /\ Top(c) \in Int
  BY Parts, Decorated
<1>2. x0 \in Int /\ y0 \in Int /\ x1 \in Int /\ y1 \in Int
  BY <1>1
<1>3. FrameRect2Client(c, r)
      = [s EXCEPT !.max = Pt(Most(@.x, s.min.x + 1), Most(@.y, s.min.y + 1))]
  BY DEF FrameRect2Client
<1> HIDE DEF x0, y0, x1, y1
<1>4. Sides(s, x0, y0, x1, y1)
  BY <1>2, SidesAre
<1> HIDE DEF s
<1>5. s \in Rects /\ s.max.x = x1 /\ s.max.y = y1 /\ s.min.x = x0 /\ s.min.y = y0
  BY <1>4 DEF Sides
<1>6. s.min.x + 1 \in Int /\ s.min.y + 1 \in Int /\ s.max.x \in Int /\ s.max.y \in Int
  BY <1>2, <1>5
<1>7. Most(s.max.x, s.min.x + 1) \in Int /\ Most(s.max.y, s.min.y + 1) \in Int
  BY <1>6, MostLeast
<1>8. Pt(Most(s.max.x, s.min.x + 1), Most(s.max.y, s.min.y + 1)) \in Points
  BY <1>7, PtIs
<1> QED BY <1>3, <1>5, <1>8 DEF Rects

LEMMA KnownIs ==
  ASSUME NEW c \in Windowed
  PROVE  KnownToProgram(c) \in Rects
<1> DEFINE r == c.floatr
           cr == FrameRect2Client(c, r)
           back == IF c.hints.static THEN ZP ELSE SubPt(cr.min, r.min)
<1>1. r \in Rects /\ c.bare \in Decorations /\ c.hints.grav \in Points
  BY DEF Windowed, Hints
<1>2. KnownToProgram(c) = FrameRect2Client(c, RectSubPt(Gravitate(r, cr, c.hints.grav), back))
  BY DEF KnownToProgram
<1> HIDE DEF r
<1>3. cr \in Rects
  BY <1>1, ClientRect
<1> HIDE DEF cr
<1>4. r.min \in Points /\ cr.min \in Points
  BY <1>1, <1>3, Parts
<1>5. back \in Points
  BY <1>4, Zero, PointOps
<1> HIDE DEF back
<1>6. Gravitate(r, cr, c.hints.grav) \in Rects
  BY <1>1, <1>3, Gravitates
<1>7. RectSubPt(Gravitate(r, cr, c.hints.grav), back) \in Rects
  BY <1>5, <1>6, RectOps
<1> QED BY <1>1, <1>2, <1>7, ClientRect

LEMMA FrameHintsAre ==
  ASSUME NEW c \in Windowed, NEW r \in Rects, NEW sticky
  PROVE  FrameHints(c, r, sticky) \in Rects
<1>1. FrameGetHints(c) \in Hints
  BY FrameHinted
<1>2. SizeHint(FrameGetHints(c), r) \in Rects
  BY <1>1, SizeHintIs
<1> QED BY <1>2, Sticks DEF FrameHints

LEMMA MovedPt ==
  ASSUME NEW pt \in Points, NEW q \in Points
  PROVE  SubPt(pt, q) \in Points /\ AddPt(pt, q) \in Points
  BY PointOps

(* The hints of a window of which the program has said nothing.            *)
LEMMA NoHints ==
  ASSUME NEW xs, DOMAIN xs = {}
  PROVE  GetHints(xs) \in Hints
<1>2. Huge \in Int /\ Huge >= 0
  BY FloatingAssumption
<1>3. ZP = [x |-> 0, y |-> 0] /\ ZP \in Points
  BY Zero DEF ZP, Pt
<1> DEFINE most == Pt(Most(Pt(Huge, Huge).x, ZP.x), Most(Pt(Huge, Huge).y, ZP.y))
           inc == Pt(Most(Pt(1, 1).x, 1), Most(Pt(1, 1).y, 1))
           g == GravityPt("NorthWest")
<1>4. most \in Points /\ inc \in Positive /\ g \in Points
  BY <1>2 DEF ZP, Pt, Most, Points, Positive, GravityPt
<1> DEFINE Field(n, d) == IF n \in DOMAIN xs THEN xs[n] ELSE d
<1>5. \A n, d : Field(n, d) = d /\ n \notin DOMAIN xs
  OBVIOUS
<1> DEFINE mx == Field("max", Pt(Huge, Huge))
           mn == Field("min", ZP)
           ic == Field("inc", Pt(1, 1))
<1>6. GetHints(xs) =
        [min |-> mn, max |-> Pt(Most(mx.x, mn.x), Most(mx.y, mn.y)),
         base |-> Field("base", mn), baspect |-> Field("base", ZP),
         inc |-> Pt(Most(ic.x, 1), Most(ic.y, 1)), aspect |-> Field("aspect", ZR),
         position |-> "position" \in DOMAIN xs,
         grav |-> GravityPt(Field("gravity", "NorthWest")),
         static |-> Field("gravity", "NorthWest") = "Static"]
  BY DEF GetHints
<1>7. /\ mn = ZP /\ mx = Pt(Huge, Huge) /\ ic = Pt(1, 1)
      /\ Field("base", ZP) = ZP /\ Field("aspect", ZR) = ZR
      /\ Field("gravity", "NorthWest") = "NorthWest"
      /\ Pt(Most(mx.x, mn.x), Most(mx.y, mn.y)) = most
      /\ Pt(Most(ic.x, 1), Most(ic.y, 1)) = inc
      /\ GravityPt(Field("gravity", "NorthWest")) = g
  BY <1>5
<1> HIDE DEF most, inc, g, Field, mn, mx, ic
<1> DEFINE p == "position" \in DOMAIN xs
           s == Field("gravity", "NorthWest") = "Static"
           A == {ZR} \cup [min : Positive, max : Positive]
<1>8. GetHints(xs) = [min |-> ZP, max |-> most, base |-> ZP, baspect |-> ZP, inc |-> inc,
                      aspect |-> ZR, position |-> p, grav |-> g, static |-> s]
  <2> HIDE DEF p, s
  <2> QED BY <1>6, <1>7 DEF p, s
<1>9. p \in BOOLEAN /\ s \in BOOLEAN /\ ZR \in A
  OBVIOUS
<1> HIDE DEF p, s, A
<1>10. [min |-> ZP, max |-> most, base |-> ZP, baspect |-> ZP, inc |-> inc,
        aspect |-> ZR, position |-> p, grav |-> g, static |-> s]
       \in [min : Points, max : Points, base : Points, baspect : Points, inc : Positive,
            aspect : A, position : BOOLEAN, grav : Points, static : BOOLEAN]
  BY <1>3, <1>4, <1>9
<1> QED BY <1>8, <1>10 DEF Hints, A

-----------------------------------------------------------------------------
(* The invariant.                                                          *)

Moves == [kind : {"move"}, w : Windows, moved : BOOLEAN, first : BOOLEAN,
          rects : Seq(Rects), origin : Rects, pt : Points]
Resizes == [kind : {"resize"}, w : Windows, align : SUBSET Center, focus : BOOLEAN,
            rects : Seq(Rects), origin : Rects, pt : Points]

FloatInv ==
  /\ list \in Seq(Windows) /\ win \in Layered
  /\ fsel \in ToSet(list) \cup {NoWindow} /\ (fsel = NoWindow <=> list = <<>>)
  /\ drag \in {NoDrag} \cup Moves \cup Resizes
  /\ drag # NoDrag => drag.w \in ToSet(list)
  /\ Good(list, win)

LEMMA ListedIn ==
  ASSUME NEW L \in Seq(Windows)
  PROVE  ToSet(L) \subseteq Windows /\ (ToSet(L) # {} <=> L # <<>>)
<1>1. ToSet(L) \subseteq Windows
  BY DEF ToSet
<1>2. ASSUME L # <<>> PROVE ToSet(L) # {}
  <2>1. 1 \in DOMAIN L
    BY <1>2, EmptySeq, LenProperties
  <2>2. L[1] \in ToSet(L)
    BY <2>1 DEF ToSet
  <2> QED BY <2>2
<1>3. ASSUME L = <<>> PROVE ToSet(L) = {}
  <2>1. DOMAIN L = 1 .. Len(L) /\ Len(L) = 0
    BY <1>3, EmptySeq, LenProperties
  <2>2. DOMAIN L = {}
    BY <2>1
  <2> QED BY <2>2 DEF ToSet
<1> QED BY <1>1, <1>2, <1>3

(* The steps of the layer that leave the drag and the list alone, or keep  *)
(* the window of the drag in the list.                                     *)
LEMMA KeepsAll ==
  ASSUME FloatInv, list' = list, drag' = drag, win' \in Layered, Good(list, win'),
         fsel' = fsel \/ fsel' \in ToSet(list)
  PROVE  FloatInv'
<1>1. fsel' = NoWindow <=> list = <<>>
  BY ListedIn, FloatingAssumption DEF FloatInv
<1> QED BY <1>1 DEF FloatInv, Good, Moves, Resizes

(* One window is resized, and the others stay.                             *)
LEMMA ResizeKeeps ==
  ASSUME FloatInv, NEW w \in Windows, NEW r \in Rects, Resize(w, r)
  PROVE  win' \in Layered /\ Good(list, win')
<1>1. /\ win' \in Layered /\ Fits(win'[w]) /\ Rests(win'[w])
      /\ \A v \in Windows \ {w} : win'[v] = win[v]
  BY ResizeIs DEF FloatInv
<1>2. \A v \in ToSet(list) : v = w \/ win'[v] = win[v]
  BY <1>1, ListedIn DEF FloatInv
<1>3. \A v \in ToSet(list) : Fits(win'[v]) /\ Rests(win'[v])
  BY <1>1, <1>2 DEF FloatInv, Good
<1> QED BY <1>1, <1>3 DEF Good

LEMMA AttachKeeps ==
  ASSUME FloatInv, NEW w \in Windows, NEW s \in DOMAIN Screens, NEW focused \in BOOLEAN,
         NEW selected \in BOOLEAN, Attach(w, s, focused, selected)
  PROVE  FloatInv'
<1> DEFINE i == IF fsel = NoWindow THEN 0 ELSE CHOOSE i \in DOMAIN list : list[i] = fsel
           L == InsertAt(list, i + 1, w)
           place == FloatPlaceframe(w, s)
           f == [win EXCEPT ![w] = [@ EXCEPT !.r = win[w].floatr, !.floatr = place]]
           now == focused \/ (fsel = NoWindow /\ selected)
<1>1. list' = L /\ drag' = drag /\ drag = NoDrag /\ Attached(w, L, place, now)
  BY DEF Attach, Idle
<1>2. list \in Seq(Windows) /\ win \in Layered /\ fsel \in Windows \cup {NoWindow}
  BY ListedIn DEF FloatInv
<1>3. i + 1 \in 1 .. Len(list) + 1
  <2>1. ASSUME fsel # NoWindow PROVE i \in 1 .. Len(list)
    <3>1. \E j \in DOMAIN list : list[j] = fsel
      BY <2>1 DEF FloatInv, ToSet
    <3>2. i \in DOMAIN list
      BY <2>1, <3>1
    <3> QED BY <1>2, <3>2
  <2>2. Len(list) \in Nat
    BY <1>2
  <2> QED BY <2>1, <2>2
<1> HIDE DEF i
<1>4. L \in Seq(Windows) /\ L # <<>> /\ ToSet(L) = ToSet(list) \cup {w}
  BY <1>2, <1>3, InsertedSet
<1> HIDE DEF L
<1>5. place \in Rects
  BY <1>2, PlaceframeIs
<1> HIDE DEF place
<1>6. f \in Layered
  <2>1. win[w] \in Windowed /\ win[w].floatr \in Rects
    BY <1>2 DEF Layered, Windowed
  <2>2. [win[w] EXCEPT !.r = win[w].floatr, !.floatr = place] \in Windowed
    BY <1>5, <2>1 DEF Windowed
  <2> QED BY <1>2, <2>2 DEF Layered
<1> HIDE DEF f, now
<1>7. w \in ToSet(L)
  BY <1>4
<1>8. IF now THEN GiveFocus(L, f, w)
      ELSE fsel' = (IF fsel = NoWindow THEN w ELSE fsel) /\ win' = ViewUpdated(L, f)
  BY <1>1 DEF Attached, f
<1>9. fsel' \in ToSet(L) /\ win' \in Layered /\ Good(L, win')
  <2>1. CASE now
    <3>1. GiveFocus(L, f, w)
      BY <1>8, <2>1
    <3> QED BY <1>4, <1>6, <1>7, <3>1, GiveFocusIs
  <2>2. CASE ~now
    <3>1. fsel' = (IF fsel = NoWindow THEN w ELSE fsel) /\ win' = ViewUpdated(L, f)
      BY <1>8, <2>2
    <3>2. fsel' \in ToSet(L)
      BY <1>4, <3>1 DEF FloatInv
    <3> QED BY <1>4, <1>6, <3>1, <3>2, ViewUpdatedIs
  <2> QED BY <2>1, <2>2
<1>10. fsel' # NoWindow
  BY <1>4, <1>9, ListedIn, FloatingAssumption
<1> QED BY <1>1, <1>4, <1>9, <1>10 DEF FloatInv, Good

LEMMA DetachKeeps ==
  ASSUME FloatInv, NEW w \in Windows, NEW selected \in BOOLEAN, Detach(w, selected)
  PROVE  FloatInv'
<1> DEFINE i == CHOOSE i \in DOMAIN list : list[i] = w
           L == RemoveAt(list, i)
           pr == IF i > 1 THEN list[i - 1] ELSE L[1]
<1>1. /\ Contains(list, w) /\ list' = L /\ drag' = drag /\ drag = NoDrag
      /\ CASE L = <<>> -> fsel' = NoWindow /\ UNCHANGED win
           [] L # <<>> /\ fsel = w /\ selected -> GiveFocus(L, win, pr)
           [] OTHER -> /\ fsel' = IF fsel = w THEN Focusable(L, win, pr) ELSE fsel
                       /\ win' = ViewUpdated(L, win)
  BY DEF Detach, Idle
<1>2. list \in Seq(Windows) /\ win \in Layered
  BY DEF FloatInv
<1>3. i \in 1 .. Len(list) /\ list[i] = w
  BY <1>1, <1>2, ContainsIs DEF ToSet
<1> HIDE DEF i
<1>4. /\ L \in Seq(Windows) /\ ToSet(L) \subseteq ToSet(list)
      /\ \A j \in 1 .. Len(list) : j # i => list[j] \in ToSet(L)
  BY <1>2, <1>3, RemovedSet
<1> HIDE DEF L
<1>5. ASSUME L # <<>> PROVE pr \in ToSet(L)
  <2>1. CASE i > 1
    <3>1. i - 1 \in 1 .. Len(list) /\ i - 1 # i
      BY <1>3, <2>1
    <3> QED BY <1>4, <2>1, <3>1
  <2>2. CASE ~(i > 1)
    <3>1. 1 \in DOMAIN L
      BY <1>4, <1>5, EmptySeq, LenProperties
    <3> QED BY <2>2, <3>1 DEF ToSet
  <2> QED BY <2>1, <2>2
<1> HIDE DEF pr
<1>6. CASE L = <<>>
  <2>1. fsel' = NoWindow /\ win' = win
    BY <1>1, <1>6
  <2>2. ToSet(L) = {}
    BY <1>4, <1>6, ListedIn
  <2> QED BY <1>1, <1>2, <1>4, <1>6, <2>1, <2>2 DEF FloatInv, Good
<1>7. CASE L # <<>> /\ fsel = w /\ selected
  <2>1. GiveFocus(L, win, pr)
    BY <1>1, <1>7
  <2>2. fsel' \in ToSet(L) /\ win' \in Layered /\ Good(L, win')
    BY <1>2, <1>4, <1>5, <1>7, <2>1, GiveFocusIs
  <2>3. fsel' # NoWindow
    BY <1>4, <2>2, ListedIn, FloatingAssumption
  <2> QED BY <1>1, <1>4, <1>7, <2>2, <2>3 DEF FloatInv, Good
<1>8. CASE L # <<>> /\ ~(fsel = w /\ selected)
  <2>1. /\ fsel' = IF fsel = w THEN Focusable(L, win, pr) ELSE fsel
        /\ win' = ViewUpdated(L, win)
    BY <1>1, <1>8
  <2>2. win' \in Layered /\ Good(L, win')
    BY <1>2, <1>4, <2>1, ViewUpdatedIs
  <2>3. fsel' \in ToSet(L)
    <3>1. CASE fsel = w
      BY <1>4, <1>5, <1>8, <2>1, <3>1, FocusableIs
    <3>2. CASE fsel # w
      <4>1. fsel \in ToSet(list)
        <5>1. list # <<>>
          BY <1>1, <1>2, ContainsIs, ListedIn
        <5> QED BY <5>1 DEF FloatInv
      <4>2. PICK j \in 1 .. Len(list) : list[j] = fsel
        BY <1>2, <4>1 DEF ToSet
      <4>3. fsel \in ToSet(L)
        BY <1>3, <1>4, <3>2, <4>2
      <4> QED BY <2>1, <3>2, <4>3
    <3> QED BY <3>1, <3>2
  <2>4. fsel' # NoWindow
    BY <1>4, <2>3, ListedIn, FloatingAssumption
  <2> QED BY <1>1, <1>4, <1>8, <2>2, <2>3, <2>4 DEF FloatInv, Good
<1> QED BY <1>6, <1>7, <1>8

LEMMA FocusKeeps ==
  ASSUME FloatInv, NEW w \in Windows, FocusClient(w)
  PROVE  FloatInv'
<1>1. w \in ToSet(list) /\ GiveFocus(list, win, w) /\ list' = list /\ drag' = drag
  BY ContainsIs DEF FocusClient, FloatInv
<1>2. fsel' \in ToSet(list) /\ win' \in Layered /\ Good(list, win')
  BY <1>1, GiveFocusIs DEF FloatInv
<1> QED BY <1>1, <1>2, KeepsAll

LEMMA ConfigureKeeps ==
  ASSUME FloatInv, NEW w \in Windows, NEW asked \in Asked, NEW mask, Configure(w, asked, mask)
  PROVE  FloatInv'
<1> DEFINE c == win[w]
           known == KnownToProgram(c)
           min == Pt(IF "x" \in mask THEN asked.min.x ELSE known.min.x,
                     IF "y" \in mask THEN asked.min.y ELSE known.min.y)
           size == Pt(IF "width" \in mask THEN WidthOf(asked) ELSE WidthOf(known),
                      IF "height" \in mask THEN HeightOf(asked) ELSE HeightOf(known))
           rd == [min |-> min, max |-> AddPt(min, size)]
           r == ClientGrav(c, rd)
<1>1. c \in Windowed /\ asked \in Rects
  BY FloatingAssumption DEF FloatInv, Layered
<1>2. /\ IF Contains(list, w) THEN Resize(w, r) ELSE win' = [win EXCEPT ![w].floatr = r]
      /\ list' = list /\ fsel' = fsel /\ drag' = drag
  BY DEF Configure
<1> HIDE DEF c
<1>3. known \in Rects
  BY <1>1, KnownIs
<1> HIDE DEF known
<1>4. /\ {asked.min.x, asked.min.y, known.min.x, known.min.y} \subseteq Int
      /\ {WidthOf(asked), HeightOf(asked), WidthOf(known), HeightOf(known)} \subseteq Int
  BY <1>1, <1>3, Parts
<1>5. min \in Points /\ size \in Points
  BY <1>4, PtIs
<1> HIDE DEF min, size
<1>6. rd \in Rects
  BY <1>5, PointOps DEF Rects
<1> HIDE DEF rd
<1>7. r \in Rects
  BY <1>1, <1>6, ClientGravIs DEF Windowed
<1> HIDE DEF r
<1>8. CASE Contains(list, w)
  <2>1. win' \in Layered /\ Good(list, win')
    BY <1>2, <1>7, <1>8, ResizeKeeps
  <2> QED BY <1>2, <2>1, KeepsAll
<1>9. CASE ~Contains(list, w)
  <2>1. win' = [win EXCEPT ![w].floatr = r]
    BY <1>2, <1>9
  <2>2. [win[w] EXCEPT !.floatr = r] \in Windowed
    BY <1>1, <1>7 DEF Windowed, c
  <2>3. win \in Layered /\ list \in Seq(Windows)
    BY DEF FloatInv
  <2>4. win' \in Layered /\ \A v \in Windows \ {w} : win'[v] = win[v]
    BY <2>1, <2>2, <2>3 DEF Layered
  <2>5. w \notin ToSet(list) /\ ToSet(list) \subseteq Windows
    BY <1>9, <2>3, ContainsIs, ListedIn
  <2>6. Good(list, win')
    BY <2>4, <2>5 DEF Good, FloatInv
  <2> QED BY <1>2, <2>4, <2>6, KeepsAll
<1> QED BY <1>8, <1>9

LEMMA Amounts ==
  ASSUME NEW a \in GrowAmounts, NEW unit \in Points
  PROVE  Times(a, unit) \in Points
<1>1. a.n \in Int
  BY FloatingAssumption
<1>2. Pt(a.n, a.n) \in Points
  BY <1>1, PtIs
<1> QED BY <1>2, PointOps DEF Times

LEMMA GrowKeeps ==
  ASSUME FloatInv, NEW w \in Windows, NEW side, NEW amount \in GrowAmounts,
         MsgGrow(w, side, amount)
  PROVE  FloatInv'
<1> DEFINE c == win[w]
           lo == c.hints.aspect.min
           u == Pt(Most(TitleH - 3, c.hints.inc.x), Most(TitleH - 3, c.hints.inc.y))
           a == Times(amount, u)
           d == IF side \in Across
                THEN Pt(a.x, IF lo.x # 0 THEN Quot(a.x * lo.y, lo.x) ELSE 0)
                ELSE Pt(IF lo.y # 0 THEN Quot(a.y * lo.x, lo.y) ELSE 0, a.y)
           r == IF side \in {"West", "North"} THEN [c.r EXCEPT !.min = SubPt(@, d)]
                                              ELSE [c.r EXCEPT !.max = AddPt(@, d)]
<1>1. Resize(w, r) /\ list' = list /\ fsel' = fsel /\ drag' = drag
  BY Zenon DEF MsgGrow
<1>2. c \in Windowed
  BY DEF FloatInv, Layered
<1> HIDE DEF c
<1>3. /\ c.r \in Rects /\ c.hints.inc \in Positive
      /\ c.hints.aspect \in {ZR} \cup [min : Positive, max : Positive]
  BY <1>2 DEF Windowed, Hints
<1>4. lo = ZP \/ lo \in Positive
  BY <1>3 DEF ZR, Rect, ZP
<1>5. lo.x \in Nat /\ lo.y \in Nat
  BY <1>4, Zero DEF Positive
<1> HIDE DEF lo
<1>6. u \in Points
  <2>1. TitleH - 3 \in Int /\ c.hints.inc.x \in Int /\ c.hints.inc.y \in Int
    BY <1>3, FloatingAssumption DEF Positive
  <2> QED BY <2>1, MostLeast, PtIs
<1> HIDE DEF u
<1>7. a \in Points /\ a.x \in Int /\ a.y \in Int
  BY <1>6, Amounts DEF Points
<1> HIDE DEF a
<1>8. a.x * lo.y \in Int /\ a.y * lo.x \in Int
  BY <1>5, <1>7
<1>9. /\ (IF lo.x # 0 THEN Quot(a.x * lo.y, lo.x) ELSE 0) \in Int
      /\ (IF lo.y # 0 THEN Quot(a.y * lo.x, lo.y) ELSE 0) \in Int
  <2>1. \A m \in Int, b \in Nat \ {0} : Quot(m, b) \in Int
    BY QuotRem
  <2> DEFINE m == a.x * lo.y
             n == a.y * lo.x
  <2>2. m \in Int /\ n \in Int
    BY <1>8
  <2> HIDE DEF m, n
  <2>3. /\ lo.x # 0 => Quot(m, lo.x) \in Int
        /\ lo.y # 0 => Quot(n, lo.y) \in Int
    BY <1>5, <2>1, <2>2
  <2> QED BY <2>3 DEF m, n
<1>10. d \in Points
  BY <1>7, <1>9, PtIs
<1> HIDE DEF d
<1>11. c.r.min \in Points /\ c.r.max \in Points
  BY <1>3, Parts
<1>12. SubPt(c.r.min, d) \in Points /\ AddPt(c.r.max, d) \in Points
  BY <1>10, <1>11, PointOps
<1>13. r \in Rects
  BY <1>3, <1>12 DEF Rects
<1> HIDE DEF r
<1>14. win' \in Layered /\ Good(list, win')
  <2>1. FloatInv /\ w \in Windows /\ Resize(w, r)
    BY <1>1
  <2> QED BY ONLY <1>13, <2>1, ResizeKeeps
<1> QED BY <1>1, <1>14, KeepsAll

LEMMA NudgeKeeps ==
  ASSUME FloatInv, NEW w \in Windows, NEW side \in Center, NEW amount \in GrowAmounts,
         MsgNudge(w, side, amount)
  PROVE  FloatInv'
<1> DEFINE a == Times(amount, TitlebarPt)
           d == CASE side = "West" -> Pt(-a.x, 0)
                  [] side = "East" -> Pt(a.x, 0)
                  [] side = "North" -> Pt(0, -a.y)
                  [] side = "South" -> Pt(0, a.y)
           r == RectAddPt(win[w].r, d)
<1>1. Resize(w, r) /\ list' = list /\ fsel' = fsel /\ drag' = drag
  BY DEF MsgNudge
<1>2. win[w].r \in Rects
  BY DEF FloatInv, Layered, Windowed
<1>3. TitlebarPt \in Points
  BY FloatingAssumption, PtIs DEF TitlebarPt
<1>4. a \in Points /\ a.x \in Int /\ a.y \in Int
  BY <1>3, Amounts DEF Points
<1> HIDE DEF a
<1>5. -a.x \in Int /\ -a.y \in Int /\ 0 \in Int
  BY <1>4
<1>6. {Pt(-a.x, 0), Pt(a.x, 0), Pt(0, -a.y), Pt(0, a.y)} \subseteq Points
  BY <1>4, <1>5, PtIs
<1>7. d \in Points
  BY <1>6 DEF Center
<1> HIDE DEF d
<1>8. r \in Rects
  BY <1>2, <1>7, RectOps
<1> HIDE DEF r
<1>9. win' \in Layered /\ Good(list, win')
  BY <1>1, <1>8, ResizeKeeps
<1> QED BY <1>1, <1>9, KeepsAll

LEMMA NormalHintsKeep ==
  ASSUME FloatInv, NEW w \in Windows, NEW xs \in SizeHints, PropNormalHints(w, xs)
  PROVE  FloatInv'
<1> DEFINE f == [win EXCEPT ![w].hints = GetHints(xs)]
<1>1. win' = ViewUpdated(list, f) /\ list' = list /\ fsel' = fsel /\ drag' = drag
  BY DEF PropNormalHints
<1>2. GetHints(xs) \in Hints
  BY HintsAssumption
<1>3. win[w] \in Windowed /\ win \in Layered /\ list \in Seq(Windows)
  BY DEF FloatInv, Layered
<1>4. [win[w] EXCEPT !.hints = GetHints(xs)] \in Windowed
  BY <1>2, <1>3 DEF Windowed
<1>5. f \in Layered
  BY <1>3, <1>4 DEF Layered
<1> HIDE DEF f
<1>6. win' \in Layered /\ Good(list, win')
  BY <1>1, <1>3, <1>5, ViewUpdatedIs
<1> QED BY <1>1, <1>6, KeepsAll

LEMMA MotifHintsKeep ==
  ASSUME FloatInv, NEW w \in Windows, NEW bare \in Decorations, PropMotifHints(w, bare)
  PROVE  FloatInv'
<1> DEFINE x == [win[w] EXCEPT !.bare = bare]
<1>1. win' = [win EXCEPT ![w].bare = bare] /\ list' = list /\ fsel' = fsel /\ drag' = drag
  BY DEF PropMotifHints
<1>2. win[w] \in Windowed /\ win \in Layered /\ list \in Seq(Windows)
  BY DEF FloatInv, Layered
<1>3. /\ x \in Windowed /\ x.collapsed = win[w].collapsed /\ x.hints = win[w].hints
      /\ x.r = win[w].r
      /\ \A b : [x EXCEPT !.bare = b] = [win[w] EXCEPT !.bare = b]
  BY <1>2 DEF Windowed
<1>4. win' = [win EXCEPT ![w] = x]
  BY <1>1
<1>5. win'[w] = x /\ win' \in Layered /\ \A v \in Windows \ {w} : win'[v] = win[v]
  <2> HIDE DEF x
  <2> QED BY <1>2, <1>3, <1>4 DEF Layered
<1> HIDE DEF x
<1>6. Fits(win[w]) => Fits(x)
  BY <1>3 DEF Fits
<1>7. Rests(win[w]) => Rests(x)
  BY <1>3 DEF Rests
<1>8. \A v \in ToSet(list) : v = w \/ win'[v] = win[v]
  BY <1>2, <1>5, ListedIn
<1>9. Good(list, win')
  BY <1>5, <1>6, <1>7, <1>8 DEF FloatInv, Good
<1> QED BY <1>1, <1>5, <1>9, KeepsAll

(* The steps of the loops that read the mouse.                             *)
LEMMA DragKinds ==
  ASSUME FloatInv
  PROVE  /\ drag.kind = "move" => drag \in Moves /\ drag.w \in ToSet(list) /\ drag.w \in Windows
         /\ drag.kind = "resize" => drag \in Resizes /\ drag.w \in ToSet(list) /\ drag.w \in Windows
<1>1. NoDrag.kind = "none"
  BY DEF NoDrag
<1>2. \A x \in Moves : x.kind = "move"
  BY DEF Moves
<1>3. \A x \in Resizes : x.kind = "resize"
  BY DEF Resizes
<1>4. drag \in {NoDrag} \cup Moves \cup Resizes /\ (drag # NoDrag => drag.w \in ToSet(list))
      /\ ToSet(list) \subseteq Windows
  BY ListedIn DEF FloatInv
<1> QED BY <1>1, <1>2, <1>3, <1>4

(* A drag of a window of the layer, of which the list stays as it is.      *)
LEMMA KeepsDragging ==
  ASSUME FloatInv, list' = list, win' \in Layered, Good(list, win'),
         fsel' = fsel \/ fsel' \in ToSet(list),
         drag' \in {NoDrag} \cup Moves \cup Resizes, drag' # NoDrag => drag'.w \in ToSet(list)
  PROVE  FloatInv'
<1>1. fsel' = NoWindow <=> list = <<>>
  BY ListedIn, FloatingAssumption DEF FloatInv
<1> QED BY <1>1 DEF FloatInv, Good, Moves, Resizes

LEMMA MoveBeginKeeps ==
  ASSUME FloatInv, NEW w \in Windows, NEW moved \in BOOLEAN, MoveBegin(w, moved)
  PROVE  FloatInv'
<1>1. /\ Contains(list, w) /\ list' = list
      /\ IF win[w].collapsed THEN UNCHANGED <<fsel, win>> ELSE GiveFocus(list, win, w)
      /\ drag' = [kind |-> "move", w |-> w, moved |-> moved, first |-> TRUE,
                  rects |-> ViewRects(win', {w}), origin |-> win'[w].r, pt |-> ZP]
  BY DEF MoveBegin
<1>2. list \in Seq(Windows) /\ win \in Layered /\ Good(list, win) /\ w \in ToSet(list)
  BY <1>1, ContainsIs DEF FloatInv
<1>3. win' \in Layered /\ Good(list, win') /\ (fsel' = fsel \/ fsel' \in ToSet(list))
  BY <1>1, <1>2, GiveFocusIs
<1>4. ViewRects(win', {w}) \in Seq(Rects) /\ win'[w].r \in Rects /\ ZP \in Points
  <2>1. win'[w] \in Windowed
    BY <1>3 DEF Layered
  <2> QED BY <1>2, <1>3, <2>1, ViewRectsAre, Zero DEF Windowed
<1>5. drag' \in Moves /\ drag'.w = w
  BY <1>1, <1>4 DEF Moves
<1> QED BY <1>1, <1>2, <1>3, <1>5, KeepsDragging

LEMMA MoveMotionKeeps ==
  ASSUME FloatInv, NEW pt \in Pointers, MoveMotion(pt)
  PROVE  FloatInv'
<1> DEFINE c == win[drag.w]
           d == IF drag.first THEN ZP ELSE SubPt(pt, drag.pt)
           origin == Constrain(RectAddPt(drag.origin, d))
           snapped == SnapRect(drag.rects, origin, Center).r
           r == Constrain(FrameHints(c, snapped, Center))
<1>1. /\ drag.kind = "move" /\ Resize(drag.w, r) /\ list' = list /\ fsel' = fsel
      /\ drag' = [drag EXCEPT !.pt = pt, !.origin = origin, !.first = FALSE,
                              !.moved = @ \/ ~drag.first]
  BY DEF MoveMotion
<1>2. drag \in Moves /\ drag.w \in ToSet(list) /\ drag.w \in Windows
  BY <1>1, DragKinds
<1>3. c \in Windowed
  BY <1>2 DEF FloatInv, Layered
<1> HIDE DEF c
<1>4. drag.origin \in Rects /\ drag.rects \in Seq(Rects) /\ drag.pt \in Points /\ pt \in Points
  BY <1>2, FloatingAssumption DEF Moves
<1>5. d \in Points
  BY <1>4, Zero, PointOps
<1> HIDE DEF d
<1>6. RectAddPt(drag.origin, d) \in Rects
  BY <1>4, <1>5, RectOps
<1>7. origin \in Rects
  BY <1>6, Constrained
<1> HIDE DEF origin
<1>8. snapped \in Rects
  BY <1>4, <1>7, SnapRectIs
<1> HIDE DEF snapped
<1>9. FrameHints(c, snapped, Center) \in Rects
  BY <1>3, <1>8, FrameHintsAre
<1>10. r \in Rects
  BY <1>9, Constrained
<1> HIDE DEF r
<1>11. win' \in Layered /\ Good(list, win')
  BY <1>1, <1>2, <1>10, ResizeKeeps
<1>12. drag' \in Moves /\ drag'.w = drag.w
  BY <1>1, <1>2, <1>4, <1>7 DEF Moves
<1> QED BY <1>1, <1>2, <1>11, <1>12, KeepsDragging

LEMMA MoveButtonKeeps ==
  ASSUME FloatInv, NEW pt \in Pointers, NEW third \in BOOLEAN, MoveButton(pt, third)
  PROVE  FloatInv'
<1>1. /\ drag.kind = "move" /\ list' = list /\ fsel' = fsel /\ win' = win
      /\ drag' = IF third THEN NoDrag ELSE [drag EXCEPT !.pt = pt]
  BY DEF MoveButton
<1>2. drag \in Moves /\ drag.w \in ToSet(list) /\ pt \in Points
  BY <1>1, DragKinds, FloatingAssumption
<1>3. [drag EXCEPT !.pt = pt] \in Moves /\ [drag EXCEPT !.pt = pt].w = drag.w
  BY <1>2 DEF Moves
<1>4. win' \in Layered /\ Good(list, win')
  BY <1>1 DEF FloatInv
<1> QED BY <1>1, <1>2, <1>3, <1>4, KeepsDragging

LEMMA MoveEndKeeps ==
  ASSUME FloatInv, MoveEnd
  PROVE  FloatInv'
<1> DEFINE w == drag.w
           turned == [win[w] EXCEPT !.collapsed = ~@]
           x == FrameResize(turned, turned.floatr)
<1>1. /\ drag.kind = "move" /\ drag' = NoDrag /\ list' = list
      /\ CASE drag.first -> GiveFocus(list, win, w)
           [] ~drag.first /\ ~drag.moved -> win' = [win EXCEPT ![w] = x] /\ UNCHANGED fsel
           [] ~drag.first /\ drag.moved -> UNCHANGED <<fsel, win>>
  BY DEF MoveEnd
<1>2. drag \in Moves /\ w \in ToSet(list) /\ w \in Windows
  BY <1>1, DragKinds
<1>3. list \in Seq(Windows) /\ win \in Layered /\ Good(list, win)
  BY DEF FloatInv
<1>4. drag.first \in BOOLEAN /\ drag.moved \in BOOLEAN
  BY <1>2 DEF Moves
<1> HIDE DEF w
<1>5. x \in Windowed /\ Fits(x) /\ Rests(x)
  <2>1. win[w] \in Windowed
    BY <1>2, <1>3 DEF Layered
  <2>2. turned \in Windowed /\ turned.floatr \in Rects
    BY <2>1 DEF Windowed
  <2> HIDE DEF turned
  <2> QED BY <2>2, Resized
<1> HIDE DEF x
<1>6. win' \in Layered /\ Good(list, win') /\ (fsel' = fsel \/ fsel' \in ToSet(list))
  <2>1. CASE drag.first
    BY <1>1, <1>2, <1>3, <2>1, GiveFocusIs
  <2>2. CASE ~drag.first /\ ~drag.moved
    <3>1. win' = [win EXCEPT ![w] = x] /\ fsel' = fsel
      BY <1>1, <2>2
    <3>2. win'[w] = x /\ win' \in Layered /\ \A v \in Windows \ {w} : win'[v] = win[v]
      BY <1>2, <1>3, <1>5, <3>1 DEF Layered
    <3>3. \A v \in ToSet(list) : v = w \/ win'[v] = win[v]
      BY <1>3, <3>2, ListedIn
    <3> QED BY <1>3, <1>5, <3>1, <3>2, <3>3 DEF Good
  <2>3. CASE ~drag.first /\ drag.moved
    BY <1>1, <1>3, <2>3
  <2> QED BY <1>4, <2>1, <2>2, <2>3
<1> QED BY <1>1, <1>6, KeepsDragging

LEMMA ResizeBeginKeeps ==
  ASSUME FloatInv, NEW w \in Windows, NEW align \in SUBSET Center, NEW before \in BOOLEAN,
         ResizeBegin(w, align, before)
  PROVE  FloatInv'
<1> DEFINE r == win'[w].r
           hr == HalfPt(SizeOf(r))
           Half(far, near, n) == IF far \in align THEN 2 * n ELSE IF near \in align THEN 0 ELSE n
           rects == ViewRects(win', IF w \in Elsewhere THEN {} ELSE {w})
           pt == IF align = Center THEN SubPt(r.max, Pt(TitleH, TitleH))
                 ELSE AddPt(r.min, Pt(Half("East", "West", hr.x), Half("South", "North", hr.y)))
<1>1. /\ Contains(list, w) /\ list' = list
      /\ IF before THEN GiveFocus(list, win, w) ELSE UNCHANGED <<fsel, win>>
      /\ drag' = [kind |-> "resize", w |-> w, align |-> align, focus |-> ~before,
                  rects |-> rects, origin |-> r, pt |-> pt]
  BY DEF ResizeBegin
<1>2. list \in Seq(Windows) /\ win \in Layered /\ Good(list, win) /\ w \in ToSet(list)
  BY <1>1, ContainsIs DEF FloatInv
<1>3. win' \in Layered /\ Good(list, win') /\ (fsel' = fsel \/ fsel' \in ToSet(list))
  BY <1>1, <1>2, GiveFocusIs
<1>4. r \in Rects /\ rects \in Seq(Rects)
  <2>1. win'[w] \in Windowed
    BY <1>3 DEF Layered
  <2> QED BY <1>2, <1>3, <2>1, ViewRectsAre DEF Windowed
<1> HIDE DEF r, rects
<1>5. r.min \in Points /\ r.max \in Points /\ SizeOf(r) \in Points
  BY <1>4, Parts, RectOps, Zero
<1>6. hr \in Points
  BY <1>5, Halved
<1> HIDE DEF hr
<1>7. hr.x \in Int /\ hr.y \in Int /\ TitleH \in Int
  BY <1>6, FloatingAssumption DEF Points
<1>8. Half("East", "West", hr.x) \in Int /\ Half("South", "North", hr.y) \in Int
  BY <1>7
<1> HIDE DEF Half
<1>9. /\ Pt(TitleH, TitleH) \in Points
      /\ Pt(Half("East", "West", hr.x), Half("South", "North", hr.y)) \in Points
  BY <1>7, <1>8, PtIs
<1>10. pt \in Points
  BY <1>5, <1>9, PointOps
<1> HIDE DEF pt
<1>11. drag' \in Resizes /\ drag'.w = w
  BY <1>1, <1>4, <1>10 DEF Resizes
<1> QED BY <1>1, <1>2, <1>3, <1>11, KeepsDragging

LEMMA ResizeMotionKeeps ==
  ASSUME FloatInv, NEW pt \in Pointers, ResizeMotion(pt)
  PROVE  FloatInv'
<1> DEFINE c == win[drag.w]
           d == SubPt(pt, drag.pt)
           morph == RectMorph(drag.origin, d, drag.align)
           moved == Constrain(morph.r)
           snap == SnapRect(drag.rects, moved, morph.mask)
           r == Constrain(FrameHints(c, snap.r, snap.grav))
<1>1. /\ drag.kind = "resize" /\ Resize(drag.w, r) /\ list' = list /\ fsel' = fsel
      /\ drag' = [drag EXCEPT !.pt = pt, !.origin = morph.r, !.align = snap.mask]
  BY DEF ResizeMotion
<1>2. drag \in Resizes /\ drag.w \in ToSet(list) /\ drag.w \in Windows
  BY <1>1, DragKinds
<1>3. c \in Windowed
  BY <1>2 DEF FloatInv, Layered
<1> HIDE DEF c
<1>4. /\ drag.origin \in Rects /\ drag.rects \in Seq(Rects) /\ drag.pt \in Points
      /\ drag.align \in SUBSET Center /\ pt \in Points
  BY <1>2, FloatingAssumption DEF Resizes
<1>5. d \in Points
  BY <1>4, PointOps
<1> HIDE DEF d
<1>6. morph.r \in Rects /\ morph.mask \in SUBSET Center
  BY <1>4, <1>5, RectMorphIs
<1> HIDE DEF morph
<1>7. moved \in Rects
  BY <1>6, Constrained
<1> HIDE DEF moved
<1>8. snap.r \in Rects /\ snap.mask \in SUBSET Center
  BY <1>4, <1>6, <1>7, SnapRectIs
<1> HIDE DEF snap
<1>9. FrameHints(c, snap.r, snap.grav) \in Rects
  BY <1>3, <1>8, FrameHintsAre
<1>10. r \in Rects
  BY <1>9, Constrained
<1> HIDE DEF r
<1>11. win' \in Layered /\ Good(list, win')
  BY <1>1, <1>2, <1>10, ResizeKeeps
<1>12. drag' \in Resizes /\ drag'.w = drag.w
  BY <1>1, <1>2, <1>4, <1>6, <1>8 DEF Resizes
<1> QED BY <1>1, <1>2, <1>11, <1>12, KeepsDragging

LEMMA ResizeEndKeeps ==
  ASSUME FloatInv, ResizeEnd
  PROVE  FloatInv'
<1>1. /\ drag.kind = "resize" /\ drag' = NoDrag /\ list' = list
      /\ IF drag.focus /\ fsel # drag.w THEN GiveFocus(list, win, drag.w)
                                        ELSE UNCHANGED <<fsel, win>>
  BY DEF ResizeEnd
<1>2. drag.w \in ToSet(list) /\ list \in Seq(Windows) /\ win \in Layered /\ Good(list, win)
  BY <1>1, DragKinds DEF FloatInv
<1>3. win' \in Layered /\ Good(list, win') /\ (fsel' = fsel \/ fsel' \in ToSet(list))
  BY <1>1, <1>2, GiveFocusIs
<1> QED BY <1>1, <1>3, KeepsDragging

LEMMA FloatInvInit ==
  ASSUME FloatInit
  PROVE  FloatInv
<1>1. list = <<>> /\ fsel = NoWindow /\ drag = NoDrag
  BY DEF FloatInit
<1>2. list \in Seq(Windows) /\ ToSet(list) = {}
  BY <1>1, ListedIn, EmptySeq
<1>3. win \in Layered
  <2> DEFINE nothing == GetHints(<<>>)
             c(a) == [hints |-> nothing, bare |-> {}, collapsed |-> FALSE, r |-> a, floatr |-> a]
             r(a) == ClientGrav(c(a), a)
             x(a) == [c(a) EXCEPT !.r = r(a), !.floatr = r(a)]
  <2>1. PICK asked \in [Windows -> Asked] : win = [w \in Windows |-> x(asked[w])]
    BY DEF FloatInit
  <2>2. nothing \in Hints
    <3>1. \A e : e = <<>> => DOMAIN e = {}
      <4> TAKE e
      <4> HAVE e = <<>>
      <4>1. e \in Seq(Windows) /\ Len(e) = 0
        BY EmptySeq
      <4>2. DOMAIN e = 1 .. Len(e)
        BY <4>1, LenProperties
      <4> QED BY <4>1, <4>2
    <3> QED BY <3>1, NoHints
  <2> HIDE DEF nothing
  <2>3. {} \in Decorations
    BY FloatingAssumption
  <2>4. ASSUME NEW a \in Rects PROVE x(a) \in Windowed
    <3>1. c(a) \in Windowed /\ c(a).bare \in Decorations /\ c(a).hints \in Hints
      BY <2>2, <2>3 DEF Windowed
    <3> HIDE DEF c
    <3>2. r(a) \in Rects
      BY <3>1, ClientGravIs
    <3> HIDE DEF r
    <3> QED BY <3>1, <3>2 DEF Windowed
  <2> HIDE DEF x
  <2>5. \A w \in Windows : x(asked[w]) \in Windowed
    <3> TAKE w \in Windows
    <3>1. asked[w] \in Rects
      BY FloatingAssumption
    <3> QED BY <2>4, <3>1
  <2> QED BY <2>1, <2>5 DEF Layered
<1> QED BY <1>1, <1>2, <1>3 DEF FloatInv, Good

LEMMA FloatInvNext ==
  ASSUME FloatInv, [FloatNext]_floatVars
  PROVE  FloatInv'
<1>1. ASSUME NEW w \in Windows, NEW s \in DOMAIN Screens, NEW focused \in BOOLEAN,
             NEW selected \in BOOLEAN, Attach(w, s, focused, selected)
      PROVE  FloatInv'
  BY <1>1, AttachKeeps
<1>2. ASSUME NEW w \in Windows, NEW selected \in BOOLEAN, Detach(w, selected)
      PROVE  FloatInv'
  BY <1>2, DetachKeeps
<1>3. ASSUME NEW w \in Windows, FocusClient(w)
      PROVE  FloatInv'
  BY <1>3, FocusKeeps
<1>4. ASSUME NEW w \in Windows, NEW asked \in Asked,
             NEW mask \in {{"x", "y"}, {"x", "width"}, {"height"}}, Configure(w, asked, mask)
      PROVE  FloatInv'
  BY <1>4, ConfigureKeeps
<1>5. ASSUME NEW w \in Windows, NEW side \in Center, NEW amount \in GrowAmounts,
             MsgGrow(w, side, amount)
      PROVE  FloatInv'
  BY <1>5, GrowKeeps
<1>6. ASSUME NEW w \in Windows, NEW side \in Center, NEW amount \in GrowAmounts,
             MsgNudge(w, side, amount)
      PROVE  FloatInv'
  BY <1>6, NudgeKeeps
<1>7. ASSUME NEW w \in Windows, NEW xs \in SizeHints, PropNormalHints(w, xs)
      PROVE  FloatInv'
  BY <1>7, NormalHintsKeep
<1>8. ASSUME NEW w \in Windows, NEW bare \in Decorations, PropMotifHints(w, bare)
      PROVE  FloatInv'
  BY <1>8, MotifHintsKeep
<1>9. ASSUME NEW w \in Windows, NEW moved \in BOOLEAN, MoveBegin(w, moved)
      PROVE  FloatInv'
  BY <1>9, MoveBeginKeeps
<1>10. ASSUME NEW pt \in Pointers, MoveMotion(pt)
       PROVE  FloatInv'
  BY <1>10, MoveMotionKeeps
<1>11. ASSUME NEW pt \in Pointers, NEW third \in BOOLEAN, MoveButton(pt, third)
       PROVE  FloatInv'
  BY <1>11, MoveButtonKeeps
<1>12. ASSUME NEW w \in Windows, NEW before \in BOOLEAN, NEW pt \in Pointers,
              NEW align \in {Center, Quadrant(win[w].r, pt)} \ {{}},
              ResizeBegin(w, align, before)
       PROVE  FloatInv'
  <2>1. align \in SUBSET Center
    BY DEF Quadrant
  <2> QED BY <1>12, <2>1, ResizeBeginKeeps
<1>13. ASSUME NEW pt \in Pointers, ResizeMotion(pt)
       PROVE  FloatInv'
  BY <1>13, ResizeMotionKeeps
<1>14. ASSUME UNCHANGED floatVars
       PROVE  FloatInv'
  BY <1>14 DEF floatVars, FloatInv, Good, Moves, Resizes
<1>15. FloatNext \/ UNCHANGED floatVars
  OBVIOUS
<1> QED BY <1>1, <1>2, <1>3, <1>4, <1>5, <1>6, <1>7, <1>8, <1>9, <1>10, <1>11, <1>12, <1>13,
           <1>14, <1>15, MoveEndKeeps, ResizeEndKeeps DEF FloatNext

(* The layer's variables have their types, the selected window is one of   *)
(* the layer and there is one unless it is empty, a drag is of a window of *)
(* the layer, and every window is in reach and at rest: frame_resize ends  *)
(* every way of changing a listed frame (float.c, frame.c, mouse.c).       *)
THEOREM FloatInvariance == FloatSpec => []FloatInv
<1>1. FloatInit => FloatInv
  BY FloatInvInit
<1>2. FloatInv /\ [FloatNext]_floatVars => FloatInv'
  BY FloatInvNext
<1> QED BY <1>1, <1>2, PTL DEF FloatSpec

(* However a window of the layer was moved, asked for, resized or placed,  *)
(* it has a corner on a screen, away from its border by the height of a    *)
(* bar, if its hints make sense and it is not collapsed (constrain).       *)
THEOREM WindowsReachable == FloatSpec => []Reachable
<1>1. FloatInv => Reachable
  BY DEF FloatInv, Good, Reachable, Listed, Fits
<1> QED BY <1>1, FloatInvariance, PTL

(* The view_update that follows every change moves and resizes no window   *)
(* that nobody has asked for, if its hints agree with the least width of a *)
(* frame (sizehint, frame_resize).                                         *)
THEOREM WindowsSettled == FloatSpec => []Settled
<1>1. FloatInv => Settled
  BY DEF FloatInv, Good, Settled, Listed, Rests, Stable
<1> QED BY <1>1, FloatInvariance, PTL

(* What a program is told of its window's place and size, and asks for     *)
(* again, is what it has, for every gravity and decoration (client_grav).  *)
THEOREM AskingStays == FloatSpec => []AsksToStay
<1>1. FloatInv => AsksToStay
  <2> SUFFICES ASSUME FloatInv, NEW w \in Listed,
                      WidthOf(win[w].floatr) > SizeOf(FrameClient2Rect(win[w], ZR)).x,
                      HeightOf(win[w].floatr) > SizeOf(FrameClient2Rect(win[w], ZR)).y
               PROVE  ClientGrav(win[w], KnownToProgram(win[w])) = win[w].floatr
    BY DEF AsksToStay
  <2>1. win[w] \in Windowed
    BY ListedIn DEF FloatInv, Layered, Listed
  <2> DEFINE c == win[w]
  <2>2. c \in Windowed /\ WidthOf(c.floatr) > Around(c).x /\ HeightOf(c.floatr) > Around(c).y
    BY <2>1 DEF Around
  <2> HIDE DEF c
  <2>3. ClientGrav(c, KnownToProgram(c)) = c.floatr
    BY <2>2, Stays
  <2> QED BY <2>3 DEF c
<1> QED BY <1>1, FloatInvariance, PTL

-----------------------------------------------------------------------------
(* New windows.                                                            *)

LEMMA SetOriginIs ==
  ASSUME NEW r \in Rects, NEW p \in Points
  PROVE  LET q == RectSetOrigin(r, p)
         IN  /\ q \in Rects /\ q.min = p /\ SizeOf(q) = SizeOf(r)
             /\ WidthOf(q) = WidthOf(r) /\ HeightOf(q) = HeightOf(r)
             /\ q.max.x = p.x + WidthOf(r) /\ q.max.y = p.y + HeightOf(r)
<1> DEFINE q == RectSetOrigin(r, p)
<1>1. /\ q \in Rects /\ q.min = p
      /\ q.max.x = p.x + WidthOf(r) /\ q.max.y = p.y + HeightOf(r)
  BY RectOps
<1> HIDE DEF q
<1>2. WidthOf(r) \in Int /\ HeightOf(r) \in Int /\ p.x \in Int /\ p.y \in Int
  BY Parts DEF Points
<1>3. WidthOf(q) = WidthOf(r) /\ HeightOf(q) = HeightOf(r)
  BY <1>1, <1>2, Parts
<1>4. /\ SizeOf(q) \in Points /\ SizeOf(q).x = WidthOf(q) /\ SizeOf(q).y = HeightOf(q)
      /\ SizeOf(r) \in Points /\ SizeOf(r).x = WidthOf(r) /\ SizeOf(r).y = HeightOf(r)
  BY <1>1, RectOps, Zero
<1>5. SizeOf(q) = SizeOf(r)
  BY <1>3, <1>4 DEF Points
<1> QED BY <1>1, <1>3, <1>5 DEF q

LEMMA OnScreen ==
  ASSUME NEW q \in Rects, NEW s \in DOMAIN Screens, RectContains(Screens[s].vr, q),
         WidthOf(q) >= 2 * TitleH, HeightOf(q) >= BarH
  PROVE  Meets(q)
<1> DEFINE r == Screens[s].r
           i == Inside(s)
<1>1. /\ i \in Rects /\ r \in Rects /\ Screens[s].vr \in Rects
      /\ i.min.x = r.min.x + BarH /\ i.min.y = r.min.y + BarH
      /\ i.max.x = r.max.x - BarH /\ i.max.y = r.max.y - BarH
      /\ i.min.x <= i.max.x /\ i.min.y <= i.max.y
  BY InsideIs
<1>2. RectContains(r, q)
  <2>1. RectContains(r, Screens[s].vr)
    BY FloatingAssumption
  <2> QED BY <1>1, <2>1, Within
<1> HIDE DEF r, i
<1>3. /\ {r.min.x, r.min.y, r.max.x, r.max.y} \subseteq Int
      /\ {i.min.x, i.min.y, i.max.x, i.max.y} \subseteq Int
      /\ {q.min.x, q.min.y, q.max.x, q.max.y} \subseteq Int
      /\ WidthOf(q) = q.max.x - q.min.x /\ HeightOf(q) = q.max.y - q.min.y
  BY <1>1, Parts
<1>4. BarH \in Nat /\ TitleH \in Nat /\ BarH <= TitleH
  BY FloatingAssumption
<1>5. /\ q.min.x >= r.min.x /\ q.max.x <= r.max.x /\ q.min.y >= r.min.y /\ q.max.y <= r.max.y
  BY <1>2 DEF RectContains
<1>6. /\ q.min.x <= q.max.x /\ q.min.x <= i.max.x /\ i.min.x <= q.max.x
      /\ q.min.y <= q.max.y /\ q.min.y <= i.max.y /\ i.min.y <= q.max.y
  BY <1>1, <1>3, <1>4, <1>5
<1>7. /\ Most(q.min.x, i.min.x) <= Least(q.max.x, i.max.x)
      /\ Most(q.min.y, i.min.y) <= Least(q.max.y, i.max.y)
  BY <1>1, <1>3, <1>6 DEF Most, Least
<1> QED BY <1>7, MeetsIs DEF i

(* A frame that is resized to an allowed size, from where it is, gets the  *)
(* rectangle that was asked for.                                           *)
LEMMA TakesPlace ==
  ASSUME NEW g \in Windowed, ~g.collapsed, NEW place \in Rects, g.r = place,
         NEW r \in Rects, SizeOf(place) = SizeOf(r),
         SizeHint(FrameGetHints(g), r) = r,
         WidthOf(place) >= 2 * TitleH, HeightOf(place) >= BarH, Meets(place)
  PROVE  FrameResize(g, place).r = place
<1> DEFINE H == FrameGetHints(g)
           s == SizeHint(H, place)
<1>1. TitleH \in Nat /\ TitleH > 0 /\ BarH \in Nat /\ BarH > 0
      /\ WidthOf(place) \in Int /\ HeightOf(place) \in Int
  BY FloatingAssumption, Parts
<1>2. WidthOf(place) > 0 /\ HeightOf(place) > 0
  BY <1>1
<1>3. Full(g, place) = place
  BY <1>2, FullIs
<1>4. H \in Hints
  BY FrameHinted
<1> HIDE DEF H
<1>5. /\ s \in Rects /\ s.min = place.min /\ SizeOf(s) = Hinted(H, SizeOf(place))
  BY <1>4, SizeHintIs
<1>6. SizeOf(SizeHint(H, r)) = Hinted(H, SizeOf(r))
  BY <1>4, SizeHintIs
<1>7. SizeOf(s) = SizeOf(place)
  BY <1>5, <1>6 DEF H
<1> HIDE DEF s
<1>8. s = place
  <2>1. /\ SizeOf(s).x = WidthOf(s) /\ SizeOf(s).y = HeightOf(s)
        /\ SizeOf(place).x = WidthOf(place) /\ SizeOf(place).y = HeightOf(place)
    BY <1>5, RectOps, Zero
  <2>2. WidthOf(s) = WidthOf(place) /\ HeightOf(s) = HeightOf(place)
    BY <1>7, <2>1
  <2> QED BY <1>5, <2>2, SameSizes
<1>9. GetSticky(g.r, place) = {"West", "North"}
  BY Unmoved
<1>10. FrameHints(g, place, GetSticky(g.r, place)) = place
  <2>1. Sticking(s, place, {"West", "North"}) = s
    BY <1>5, Sticks
  <2>2. FrameHints(g, place, {"West", "North"}) = Sticking(s, place, {"West", "North"})
    BY DEF FrameHints, s, H
  <2> QED BY <1>8, <1>9, <2>1, <2>2
<1>11. Constrain(place) = place
  BY Constrained
<1>12. Widened(place) = place
  BY WidenedIs
<1>13. Allowed(g, place) = place
  BY <1>10, <1>11, <1>12 DEF Allowed
<1>14. FrameResize(g, place).r = Allowed(g, Full(g, place))
  BY ResizedFits
<1> QED BY <1>3, <1>13, <1>14

LEMMA PlaceIsFree ==
  ASSUME FloatInv, NEW w \in Windows, w \notin Listed, NEW s \in DOMAIN Screens,
         ~win[w].hints.position, WidthOf(win[w].floatr) >= 2 * TitleH,
         HeightOf(win[w].floatr) >= BarH, Room(s, w)
  PROVE  LET place == FloatPlaceframe(w, s)
         IN  /\ place \in Rects /\ SizeOf(place) = SizeOf(win[w].floatr)
             /\ WidthOf(place) = WidthOf(win[w].floatr)
             /\ HeightOf(place) = HeightOf(win[w].floatr)
             /\ RectContains(Screens[s].vr, place)
             /\ \A v \in Listed : ~Overlap(place, win[v].r)
<1> DEFINE r == win[w].floatr
           vr == Screens[s].vr
           others == Besides(list, {w})
           vec == [i \in 1 .. Len(others) |-> win[others[i]].r]
           free == UniqueRects(vec, vr)
           place == FloatPlaceframe(w, s)
<1>1. list \in Seq(Windows) /\ win \in Layered /\ fsel \in Windows \cup {NoWindow}
  BY ListedIn DEF FloatInv
<1>2. \A v \in Windows : win[v].r \in Rects /\ win[v].floatr \in Rects
  BY <1>1 DEF Layered, Windowed
<1>3. others \in Seq(Windows) /\ ToSet(others) = Listed
  <2>1. /\ others \in Seq(Windows) /\ ToSet(others) \subseteq ToSet(list)
        /\ \A a \in ToSet(list) \ {w} : a \in ToSet(others)
    BY <1>1, BesidesHas
  <2> HIDE DEF others
  <2> QED BY <2>1 DEF Listed
<1> HIDE DEF others
<1>4. vec \in Seq(Rects) /\ DOMAIN vec = DOMAIN others
      /\ \A j \in DOMAIN others : vec[j] = win[others[j]].r
  BY <1>1, <1>3, Rectangles
<1> HIDE DEF vec
<1>5. vr \in Rects /\ Screens[s].r \in Rects /\ r \in Rects
  BY <1>2, InsideIs
<1>6. place = Placed(free, r, Screens[s].r)
  BY DEF FloatPlaceframe, vec, others
<1>7. /\ free \in Seq(Rects)
      /\ \A p \in ToSet(free) :
           RectContains(vr, p) /\ \A j \in DOMAIN vec : ~Overlap(p, vec[j])
      /\ \A q \in Rects : /\ Solid(q) /\ RectContains(vr, q)
                          /\ \A j \in DOMAIN vec : ~Overlap(q, vec[j])
                          => Covers(free, q)
  BY <1>4, <1>5, UniqueRectsFree
<1> HIDE DEF free, place, vr
<1>8. PICK q \in Rects : /\ RectContains(vr, q) /\ \A v \in Listed : ~Overlap(q, win[v].r)
                         /\ WidthOf(q) = WidthOf(r) /\ HeightOf(q) = HeightOf(r)
  <2>1. PICK x \in {vr.min.x} \cup {win[v].r.max.x : v \in Listed},
             y \in {vr.min.y} \cup {win[v].r.max.y : v \in Listed} :
               /\ RectContains(vr, RectSetOrigin(r, Pt(x, y)))
               /\ \A v \in Listed : ~Overlap(RectSetOrigin(r, Pt(x, y)), win[v].r)
    BY DEF Room, vr
  <2>2. Listed \subseteq Windows
    BY <1>1, ListedIn DEF Listed
  <2>3. \A v \in Listed : win[v].r.max.x \in Int /\ win[v].r.max.y \in Int
    BY <1>2, <2>2, Parts
  <2>4. x \in Int /\ y \in Int
    BY <1>5, <2>1, <2>3, Parts
  <2>5. Pt(x, y) \in Points
    BY <2>4, PtIs
  <2> HIDE DEF r
  <2>6. /\ RectSetOrigin(r, Pt(x, y)) \in Rects
        /\ WidthOf(RectSetOrigin(r, Pt(x, y))) = WidthOf(r)
        /\ HeightOf(RectSetOrigin(r, Pt(x, y))) = HeightOf(r)
    BY <1>5, <2>5, SetOriginIs
  <2> QED BY <2>1, <2>6
<1>9. WidthOf(r) > 0 /\ HeightOf(r) > 0
  <2>1. TitleH \in Nat /\ TitleH > 0 /\ BarH \in Nat /\ BarH > 0
    BY FloatingAssumption
  <2>2. WidthOf(r) \in Int /\ HeightOf(r) \in Int
    BY <1>5, Parts
  <2> QED BY <2>1, <2>2
<1>10. Solid(q)
  BY <1>5, <1>8, <1>9, Parts DEF Solid
<1>11. \A j \in DOMAIN vec : ~Overlap(q, vec[j])
  BY <1>3, <1>4, <1>8 DEF ToSet
<1>12. PICK k \in DOMAIN free : RectContains(free[k], q)
  BY <1>7, <1>8, <1>10, <1>11 DEF Covers
<1>13. free[k] \in Rects
  BY <1>7
<1>14. k \in Fitting(free, r)
  <2>1. WidthOf(free[k]) >= WidthOf(q) /\ HeightOf(free[k]) >= HeightOf(q)
    BY <1>12, <1>13, Parts DEF RectContains
  <2> QED BY <1>8, <2>1 DEF Fitting
<1>15. PICK i \in Fitting(free, r) : place = RectSetOrigin(r, free[i].min)
  <2>1. Fitting(free, r) # {}
    BY <1>14
  <2> HIDE DEF r
  <2> QED BY <1>1, <1>5, <1>6, <1>7, <2>1, PlacedIs
<1>16. i \in DOMAIN free /\ free[i] \in Rects /\ free[i] \in ToSet(free)
       /\ WidthOf(free[i]) >= WidthOf(r) /\ HeightOf(free[i]) >= HeightOf(r)
  <2>1. i \in DOMAIN free /\ WidthOf(free[i]) >= WidthOf(r) /\ HeightOf(free[i]) >= HeightOf(r)
    BY DEF Fitting
  <2> QED BY <1>7, <2>1 DEF ToSet
<1>17. free[i].min \in Points
  BY <1>16, Parts
<1> HIDE DEF r
<1>18. /\ place \in Rects /\ place.min = free[i].min /\ SizeOf(place) = SizeOf(r)
       /\ WidthOf(place) = WidthOf(r) /\ HeightOf(place) = HeightOf(r)
  BY <1>5, <1>15, <1>17, SetOriginIs
<1>19. RectContains(free[i], place)
  BY <1>16, <1>18, Parts DEF RectContains
<1>20. RectContains(vr, place)
  BY <1>5, <1>7, <1>16, <1>18, <1>19, Within
<1>21. ASSUME NEW v \in Listed PROVE ~Overlap(place, win[v].r)
  <2>1. PICK j \in DOMAIN vec : vec[j] = win[v].r
    BY <1>3, <1>4 DEF ToSet
  <2>2. ~Overlap(free[i], vec[j])
    BY <1>7, <1>16
  <2>3. vec[j] \in Rects
    BY <1>4
  <2> QED BY <1>16, <1>18, <1>19, <2>1, <2>2, <2>3, Within
<1> QED BY <1>18, <1>20, <1>21 DEF place, vr, r

(* What the property says of one window that is new.                       *)
Free(w) ==
  /\ w \in Listed' \ Listed /\ fsel' = w
  /\ ~win[w].hints.position
  /\ SizeHint(FrameGetHints(win[w]), win[w].floatr) = win[w].floatr
  /\ WidthOf(win[w].floatr) >= 2 * TitleH /\ HeightOf(win[w].floatr) >= BarH
  /\ \A v \in Listed : win'[v].r = win[v].r
  /\ \A s \in DOMAIN Screens : Room(s, w)
  => \A v \in Listed : ~Overlap(win'[w].r, win[v].r)

LEMMA AttachFree ==
  ASSUME FloatInv, NEW w \in Windows, NEW s \in DOMAIN Screens, NEW focused \in BOOLEAN,
         NEW selected \in BOOLEAN, Attach(w, s, focused, selected)
  PROVE  Free(w)
<1> SUFFICES ASSUME w \notin Listed, fsel' = w, ~win[w].hints.position,
                    SizeHint(FrameGetHints(win[w]), win[w].floatr) = win[w].floatr,
                    WidthOf(win[w].floatr) >= 2 * TitleH, HeightOf(win[w].floatr) >= BarH,
                    Room(s, w), NEW v0 \in Listed
             PROVE  \A v \in Listed : ~Overlap(win'[w].r, win[v].r)
  BY DEF Free
<1> DEFINE i == IF fsel = NoWindow THEN 0 ELSE CHOOSE i \in DOMAIN list : list[i] = fsel
           L == InsertAt(list, i + 1, w)
           place == FloatPlaceframe(w, s)
           f == [win EXCEPT ![w] = [@ EXCEPT !.r = win[w].floatr, !.floatr = place]]
           now == focused \/ (fsel = NoWindow /\ selected)
           g == [f[w] EXCEPT !.collapsed = FALSE, !.r = f[w].floatr]
<1>1. list' = L /\ Attached(w, L, place, now)
  BY DEF Attach
<1>2. list \in Seq(Windows) /\ win \in Layered
  BY DEF FloatInv
<1>3. /\ place \in Rects /\ SizeOf(place) = SizeOf(win[w].floatr)
      /\ WidthOf(place) = WidthOf(win[w].floatr) /\ HeightOf(place) = HeightOf(win[w].floatr)
      /\ RectContains(Screens[s].vr, place)
      /\ \A v \in Listed : ~Overlap(place, win[v].r)
  BY PlaceIsFree
<1>4. fsel # NoWindow /\ fsel \in Listed /\ fsel # w
  <2>1. list # <<>>
    BY <1>2, ListedIn DEF Listed
  <2> QED BY <2>1 DEF FloatInv, Listed
<1>5. L \in Seq(Windows) /\ w \in ToSet(L)
  <2>1. i \in 1 .. Len(list)
    <3>1. \E j \in DOMAIN list : list[j] = fsel
      BY <1>4 DEF Listed, ToSet
    <3>2. i \in DOMAIN list
      BY <1>4, <3>1
    <3> QED BY <1>2, <3>2
  <2> HIDE DEF i
  <2>2. i + 1 \in 1 .. Len(list) + 1
    BY <1>2, <2>1
  <2>3. L \in Seq(Windows) /\ ToSet(L) = ToSet(list) \cup {w}
    BY <1>2, <2>2, InsertedSet
  <2> QED BY <2>3
<1> HIDE DEF L, place
<1>6. now /\ GiveFocus(L, f, w)
  <2>1. IF now THEN GiveFocus(L, f, w)
        ELSE fsel' = (IF fsel = NoWindow THEN w ELSE fsel) /\ win' = ViewUpdated(L, f)
    BY <1>1 DEF Attached
  <2> HIDE DEF f, now
  <2>2. now
    BY <1>4, <2>1
  <2> QED BY <2>1, <2>2
<1>7. /\ f \in Layered /\ f[w].floatr = place
      /\ f[w].hints = win[w].hints /\ f[w].bare = win[w].bare
  <2>1. win[w] \in Windowed /\ win[w].floatr \in Rects
    BY <1>2 DEF Layered, Windowed
  <2> DEFINE x == [win[w] EXCEPT !.r = win[w].floatr, !.floatr = place]
  <2>2. /\ x \in Windowed /\ x.floatr = place
        /\ x.hints = win[w].hints /\ x.bare = win[w].bare
    BY <1>3, <2>1 DEF Windowed
  <2>3. f = [win EXCEPT ![w] = x]
    OBVIOUS
  <2> HIDE DEF x, f
  <2>4. f \in Layered /\ f[w] = x
    BY <1>2, <2>2, <2>3 DEF Layered
  <2> QED BY <2>2, <2>4
<1> HIDE DEF f, now
<1>8. win'[w] = FrameResize(g, place)
  <2>1. fsel' = w => win'[w] = FrameResize([f[w] EXCEPT !.collapsed = FALSE, !.r = f[w].floatr],
                                           f[w].floatr)
    BY <1>5, <1>6, <1>7, GiveFocusIs
  <2> QED BY <1>7, <2>1
<1>9. /\ g \in Windowed /\ ~g.collapsed /\ g.r = place
      /\ g.hints = win[w].hints /\ g.bare = win[w].bare
  <2>1. f[w] \in Windowed
    BY <1>7 DEF Layered
  <2> QED BY <1>3, <1>7, <2>1 DEF Windowed
<1> HIDE DEF g
<1>10. SizeHint(FrameGetHints(g), win[w].floatr) = win[w].floatr
  BY <1>9, SameHints
<1>11. win[w].floatr \in Rects
  BY <1>2 DEF Layered, Windowed
<1>12. Meets(place)
  BY <1>3, OnScreen
<1>13. WidthOf(place) >= 2 * TitleH /\ HeightOf(place) >= BarH
  BY <1>3
<1>14. FrameResize(g, place).r = place
  BY <1>3, <1>9, <1>10, <1>11, <1>12, <1>13, TakesPlace
<1> QED BY <1>3, <1>8, <1>14

(* No other step brings a window into the layer.                           *)
LEMMA OnlyAttach ==
  ASSUME FloatInv, [FloatNext]_floatVars
  PROVE  \/ Listed' \subseteq Listed
         \/ \E w \in Windows, s \in DOMAIN Screens, focused, selected \in BOOLEAN :
              Attach(w, s, focused, selected) /\ Listed' \ Listed \subseteq {w}
<1>1. ASSUME list' = list PROVE Listed' \subseteq Listed
  BY <1>1 DEF Listed
<1>2. ASSUME NEW w \in Windows, NEW s \in DOMAIN Screens, NEW focused \in BOOLEAN,
             NEW selected \in BOOLEAN, Attach(w, s, focused, selected)
      PROVE  Listed' \ Listed \subseteq {w}
  <2> DEFINE i == IF fsel = NoWindow THEN 0 ELSE CHOOSE i \in DOMAIN list : list[i] = fsel
             L == InsertAt(list, i + 1, w)
  <2>1. list' = L /\ list \in Seq(Windows)
    BY <1>2 DEF Attach, FloatInv
  <2>2. i + 1 \in 1 .. Len(list) + 1
    <3>1. ASSUME fsel # NoWindow PROVE i \in 1 .. Len(list)
      <4>1. \E j \in DOMAIN list : list[j] = fsel
        BY <3>1 DEF FloatInv, ToSet
      <4>2. i \in DOMAIN list
        BY <3>1, <4>1
      <4> QED BY <2>1, <4>2
    <3>2. Len(list) \in Nat
      BY <2>1
    <3> QED BY <3>1, <3>2
  <2> HIDE DEF i
  <2>3. ToSet(L) = ToSet(list) \cup {w}
    BY <2>1, <2>2, InsertedSet
  <2> HIDE DEF L
  <2> QED BY <2>1, <2>3 DEF Listed
<1>3. ASSUME NEW w \in Windows, NEW selected \in BOOLEAN, Detach(w, selected)
      PROVE  Listed' \subseteq Listed
  <2> DEFINE i == CHOOSE i \in DOMAIN list : list[i] = w
  <2>1. list' = RemoveAt(list, i) /\ Contains(list, w) /\ list \in Seq(Windows)
    BY <1>3 DEF Detach, FloatInv
  <2>2. i \in 1 .. Len(list)
    BY <2>1 DEF Contains
  <2> HIDE DEF i
  <2>3. ToSet(RemoveAt(list, i)) \subseteq ToSet(list)
    BY ONLY <2>1, <2>2, RemovedSet
  <2> QED BY <2>1, <2>3 DEF Listed
<1>4. \A w : FocusClient(w) => list' = list
  BY DEF FocusClient
<1>5. \A w, asked, mask : Configure(w, asked, mask) => list' = list
  BY DEF Configure
<1>6. \A w, side, amount : MsgGrow(w, side, amount) \/ MsgNudge(w, side, amount) => list' = list
  BY DEF MsgGrow, MsgNudge
<1>7. \A w, xs : PropNormalHints(w, xs) => list' = list
  BY DEF PropNormalHints
<1>8. \A w, bare : PropMotifHints(w, bare) => list' = list
  BY DEF PropMotifHints
<1>9. \A w, moved : MoveBegin(w, moved) => list' = list
  BY DEF MoveBegin
<1>10. \A pt : MoveMotion(pt) => list' = list
  BY DEF MoveMotion
<1>11. \A pt, third : MoveButton(pt, third) => list' = list
  BY DEF MoveButton
<1>12. MoveEnd => list' = list
  BY DEF MoveEnd
<1>13. \A w, align, before : ResizeBegin(w, align, before) => list' = list
  BY DEF ResizeBegin
<1>14. \A pt : ResizeMotion(pt) => list' = list
  BY DEF ResizeMotion
<1>15. ResizeEnd => list' = list
  BY DEF ResizeEnd
<1>16. \/ \E w \in Windows, s \in DOMAIN Screens, focused, selected \in BOOLEAN :
            Attach(w, s, focused, selected)
       \/ \E w \in Windows, selected \in BOOLEAN : Detach(w, selected)
       \/ list' = list
  <2>1. FloatNext \/ list' = list
    BY DEF floatVars
  <2> QED BY <2>1, <1>4, <1>5, <1>6, <1>7, <1>8, <1>9, <1>10, <1>11, <1>12, <1>13, <1>14, <1>15
          DEF FloatNext
<1> QED BY <1>1, <1>2, <1>3, <1>16

(* A new window that gets the focus and the size it has covers no other,   *)
(* while there is room for it: the rectangles that unique_rects finds are  *)
(* free, and among them is one around every place that is free, and        *)
(* float_placeframe's choice is kept by the frame_resize that follows.     *)
THEOREM NewWindowsFree == FloatSpec => PlacesFree
<1>1. FloatInv /\ [FloatNext]_floatVars => [\A w \in Windows : Free(w)]_floatVars
  <2> SUFFICES ASSUME FloatInv, [FloatNext]_floatVars, NEW w \in Windows
               PROVE  Free(w)
    OBVIOUS
  <2>1. CASE w \notin Listed' \ Listed
    BY <2>1 DEF Free
  <2>2. CASE w \in Listed' \ Listed
    <3>1. PICK s \in DOMAIN Screens, focused \in BOOLEAN, selected \in BOOLEAN :
            Attach(w, s, focused, selected)
      BY <2>2, OnlyAttach
    <3> QED BY <3>1, AttachFree
  <2> QED BY <2>1, <2>2
<1>2. [\A w \in Windows : Free(w)]_floatVars
      <=> [\A w \in Windows :
             /\ w \in Listed' \ Listed /\ fsel' = w
             /\ ~win[w].hints.position
             /\ SizeHint(FrameGetHints(win[w]), win[w].floatr) = win[w].floatr
             /\ WidthOf(win[w].floatr) >= 2 * TitleH /\ HeightOf(win[w].floatr) >= BarH
             /\ \A v \in Listed : win'[v].r = win[v].r
             /\ \A s \in DOMAIN Screens : Room(s, w)
             => \A v \in Listed : ~Overlap(win'[w].r, win[v].r)]_floatVars
  BY DEF Free
<1> QED BY <1>1, <1>2, FloatInvariance, PTL DEF FloatSpec, PlacesFree
=============================================================================
