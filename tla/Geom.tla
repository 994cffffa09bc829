-------------------------------- MODULE Geom --------------------------------
(***************************************************************************)
(* Points and rectangles: lib/libstuff/geom, lib/libstuff/x11/geometry and *)
(* the macros of stuff/geom.h.  A rectangle has its min but not its max.   *)
(* A set of sides stands for an Align, and all four of them for Center.    *)
(***************************************************************************)
EXTENDS Integers

Pt(x, y) == [x |-> x, y |-> y]
Rect(x0, y0, x1, y1) == [min |-> Pt(x0, y0), max |-> Pt(x1, y1)]
Points == [x : Int, y : Int]
Rects == [min : Points, max : Points]
ZP == Pt(0, 0)
ZR == Rect(0, 0, 0, 0)

WidthOf(r) == r.max.x - r.min.x
HeightOf(r) == r.max.y - r.min.y

Most(a, b) == IF a > b THEN a ELSE b
Least(a, b) == IF a < b THEN a ELSE b
Magnitude(n) == IF n < 0 THEN -n ELSE n

(* The division of C rounds towards zero.                                  *)
Quot(a, b) == IF a < 0 THEN -((-a) \div b) ELSE a \div b
Rem(a, b) == a - b * Quot(a, b)

AddPt(p, q) == Pt(p.x + q.x, p.y + q.y)
SubPt(p, q) == Pt(p.x - q.x, p.y - q.y)
MulPt(p, q) == Pt(p.x * q.x, p.y * q.y)
HalfPt(p) == Pt(Quot(p.x, 2), Quot(p.y, 2))
SizeOf(r) == SubPt(r.max, r.min)
RectAddPt(r, p) == [min |-> AddPt(r.min, p), max |-> AddPt(r.max, p)]
RectSubPt(r, p) == [min |-> SubPt(r.min, p), max |-> SubPt(r.max, p)]
RectSetOrigin(r, p) == [min |-> p, max |-> AddPt(p, SizeOf(r))]
InsetRect(r, n) == Rect(r.min.x + n, r.min.y + n, r.max.x - n, r.max.y - n)

RectContains(r, s) == s.min.x >= r.min.x /\ s.max.x <= r.max.x
                      /\ s.min.y >= r.min.y /\ s.max.y <= r.max.y

(* Rectangles that only touch intersect, too.                              *)
RectIntersects(r, s) == r.min.x <= s.max.x /\ r.max.x >= s.min.x
                        /\ r.min.y <= s.max.y /\ r.max.y >= s.min.y

(* Turned inside out when the two do not meet.                             *)
RectIntersection(r, s) ==
  Rect(Most(r.min.x, s.min.x), Most(r.min.y, s.min.y),
       Least(r.max.x, s.max.x), Least(r.max.y, s.max.y))

Center == {"North", "East", "South", "West"}
Across == {"East", "West"}
Along == {"North", "South"}
Xor(s, t) == (s \ t) \cup (t \ s)

(* The corner, or the side, of r that the point is near to.                *)
Quadrant(r, pt) ==
  LET p == SubPt(pt, r.min)
  IN  {s \in Center : \/ s = "East" /\ 10 * p.x >= 7 * WidthOf(r)
                      \/ s = "West" /\ 10 * p.x <= 3 * WidthOf(r)
                      \/ s = "South" /\ 10 * p.y >= 7 * HeightOf(r)
                      \/ s = "North" /\ 10 * p.y <= 3 * HeightOf(r)}

(* The corner that has stayed where it was when src became dst.            *)
GetSticky(src, dst) ==
  {IF src.min.x # dst.min.x /\ src.max.x = dst.max.x THEN "East" ELSE "West",
   IF src.min.y # dst.min.y /\ src.max.y = dst.max.y THEN "South" ELSE "North"}

(* The client's rectangle rc moved within the frame's rf.                  *)
Gravitate(rc, rf, grav) ==
  RectSubPt(rc, MulPt(HalfPt(SubPt(SizeOf(rf), SizeOf(rc))), grav))
=============================================================================
