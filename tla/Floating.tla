------------------------------ MODULE Floating ------------------------------
(***************************************************************************)
(* The floating layer of the selected view: where windows are put          *)
(* (float.c), how big they may be (sizehint.c, frame_gethints), how they   *)
(* are moved and resized by their programs (configreq_event), by messages  *)
(* (grow, nudge) and by the mouse, in loops of their own (tfloat,          *)
(* mouse_resize) that serve nothing but changes of properties.             *)
(*                                                                         *)
(* The layer has its default mode.  Its windows may have the focus and are *)
(* neither fullscreen nor struts, and wmii has started.  Which area of the *)
(* view is selected is module View's: here it is an input.                 *)
(***************************************************************************)
EXTENDS Geom, Sequences, FiniteSets, SequencesExt

CONSTANTS Windows,
          Elsewhere,   \* windows whose first frame is in another view
          Screens,     \* sequence of [r, vr]: a screen, and what bars leave of it
          SizeHints,   \* what WM_NORMAL_HINTS may say: the fields that are set
          Decorations, \* sets of what _MOTIF_WM_HINTS takes away: "title", "border"
          Asked,       \* rectangles a program may ask for
          GrowAmounts, \* what grow and nudge are given: [n, px], px for pixels
          Huge,        \* INT_MAX: more than any size that occurs
          Pointers,    \* bound: where the pointer is moved to
          MaxSteps,    \* bound: the weight of the steps of a behaviour
          TitleH,      \* labelh(def.font)
          Border,      \* def.border
          BarH,        \* Dy(screen->brect)
          Snap,        \* def.snap
          NoWindow

ASSUME FloatingAssumption ==
  /\ NoWindow \notin Windows
  /\ Screens \in Seq([r : Rects, vr : Rects]) /\ Screens # <<>>
  /\ \A s \in DOMAIN Screens : RectContains(Screens[s].r, Screens[s].vr)
  /\ Asked \subseteq Rects /\ Pointers \subseteq Points
  /\ TitleH \in Nat /\ TitleH > 3 /\ Border \in Nat /\ Snap \in Nat
  /\ BarH \in Nat \ {0} /\ BarH <= TitleH
  /\ {} \in Decorations /\ \A bare \in Decorations : bare \subseteq {"title", "border"}
  /\ \A a \in GrowAmounts : a.n \in Int /\ a.px \in BOOLEAN
  /\ \A s \in DOMAIN Screens :
       WidthOf(Screens[s].r) >= 2 * BarH /\ HeightOf(Screens[s].r) >= 2 * BarH
  /\ Huge \in Nat /\ MaxSteps \in Nat

VARIABLES
  list,   \* the floating area's frames, in order; a window names its frame
  fsel,   \* the area's sel
  win,    \* each window: its client's hints, bare; its frame's r, floatr, collapsed
  drag,   \* the loop that reads the mouse, if there is one
  steps   \* the steps that have been taken, with their weights

floatVars == <<list, fsel, win, drag, steps>>
-----------------------------------------------------------------------------
(* Size hints.                                                             *)

(* The gravity of a program's window, in halves of its size.               *)
GravityPt(g) ==
  Pt(CASE g \in {"North", "Center", "South"} -> 1
       [] g \in {"NorthEast", "East", "SouthEast"} -> 2
       [] OTHER -> 0,
     CASE g \in {"West", "Center", "East"} -> 1
       [] g \in {"SouthWest", "South", "SouthEast"} -> 2
       [] OTHER -> 0)

GetHints(xs) ==
  LET Field(n, d) == IF n \in DOMAIN xs THEN xs[n] ELSE d
      min == Field("min", ZP)
      max == Field("max", Pt(Huge, Huge))
      inc == Field("inc", Pt(1, 1))
  IN  [min |-> min, max |-> Pt(Most(max.x, min.x), Most(max.y, min.y)),
       base |-> Field("base", min), baspect |-> Field("base", ZP),
       inc |-> Pt(Most(inc.x, 1), Most(inc.y, 1)),
       aspect |-> Field("aspect", ZR),
       position |-> "position" \in DOMAIN xs,
       grav |-> GravityPt(Field("gravity", "NorthWest")),
       static |-> Field("gravity", "NorthWest") = "Static"]

(* An aspect is a ratio of positive numbers, or there is none.             *)
Positive == [x : Nat \ {0}, y : Nat \ {0}]
Hints == [min : Points, max : Points, base : Points, baspect : Points, inc : Positive,
          aspect : {ZR} \cup [min : Positive, max : Positive],
          position : BOOLEAN, grav : Points, static : BOOLEAN]

ASSUME HintsAssumption == \A xs \in SizeHints : GetHints(xs) \in Hints

\* A mutant: the size is rounded up.
SizeHintUp(h, r) ==
  LET p == SubPt(SizeOf(r), h.base)
  IN  [r EXCEPT !.max = Pt(@.x + h.inc.x - Rem(p.x, h.inc.x), @.y + h.inc.y - Rem(p.y, h.inc.y))]

WithinSizes(h, p) == Pt(Least(Most(p.x, h.min.x), h.max.x), Least(Most(p.y, h.min.y), h.max.y))
InSteps(h, p) == Pt(p.x - Rem(p.x - h.base.x, h.inc.x), p.y - Rem(p.y - h.base.y, h.inc.y))

(* The width and height, q of which count for the aspect.                  *)
InAspect(h, p, q) ==
  LET lo == h.aspect.min
      hi == h.aspect.max
  IN  Pt(IF Quot(q.x * hi.y, q.y) > hi.x THEN h.baspect.x + Quot(q.y * hi.x, hi.y) ELSE p.x,
         IF Quot(q.x * lo.y, q.y) < lo.x THEN h.baspect.y + Quot(q.x * lo.y, lo.x) ELSE p.y)

SizeHint(h, r) ==
  LET n == InSteps(h, WithinSizes(h, SizeOf(r)))
  IN  [r EXCEPT !.max = AddPt(r.min, InAspect(h, n, Pt(n.x - h.baspect.x,
                                                       Most(n.y - h.baspect.y, 1))))]

(* How far a frame reaches around its client's window.                     *)
Edge(c) == IF "border" \in c.bare THEN 0 ELSE Border
Top(c) == IF "title" \in c.bare THEN 0 ELSE TitleH

FrameRect2Client(c, r) ==
  LET s == Rect(r.min.x + Edge(c), r.min.y + Top(c), r.max.x - Edge(c), r.max.y - Edge(c))
  IN  [s EXCEPT !.max = Pt(Most(@.x, s.min.x + 1), Most(@.y, s.min.y + 1))]

FrameClient2Rect(c, r) ==
  Rect(r.min.x - Edge(c), r.min.y - Top(c), r.max.x + Edge(c), r.max.y + Edge(c))

LeastSize(h) ==
  Pt(IF h.min.x < 2 * TitleH THEN TitleH + Rem(2 * TitleH, h.inc.x) ELSE h.min.x,
     IF h.min.y < TitleH THEN TitleH + Rem(TitleH, h.inc.y) ELSE h.min.y)

FrameGetHints(c) ==
  LET d == SizeOf(FrameClient2Rect(c, ZR))
  IN  [c.hints EXCEPT !.min = AddPt(LeastSize(c.hints), d), !.max = AddPt(@, d),
                      !.base = AddPt(@, d), !.baspect = AddPt(@, d)]

(* s, of another size than r, keeps the side of r that is not to move.     *)
Sticking(s, r, sticky) ==
  RectAddPt(s, Pt(IF sticky \cap Across = {"East"} THEN WidthOf(r) - WidthOf(s) ELSE 0,
                  IF sticky \cap Along = {"South"} THEN HeightOf(r) - HeightOf(s) ELSE 0))

FrameHints(c, r, sticky) == Sticking(SizeHint(FrameGetHints(c), r), r, sticky)

(* What client_grav gives for ZR: the client's rectangle as its program    *)
(* knows it.                                                               *)
KnownToProgram(c) ==
  LET r == c.floatr
      cr == FrameRect2Client(c, r)
      back == IF c.hints.static THEN ZP ELSE SubPt(cr.min, r.min)
  IN  FrameRect2Client(c, RectSubPt(Gravitate(r, cr, c.hints.grav), back))

(* And the frame's, for a rectangle the program asks for.                  *)
\* A mutant: StaticGravity is forgotten.
ClientGravMoved(c, rd) ==
  LET r == FrameClient2Rect(c, rd)
  IN  FrameClient2Rect(c, RectAddPt(Gravitate(rd, r, c.hints.grav), SubPt(rd.min, r.min)))

ClientGrav(c, rd) ==
  LET r == FrameClient2Rect(c, rd)
      back == IF c.hints.static THEN ZP ELSE SubPt(rd.min, r.min)
  IN  FrameClient2Rect(c, RectAddPt(Gravitate(rd, r, c.hints.grav), back))
-----------------------------------------------------------------------------
(* Places.                                                                 *)

Inside(s) == InsetRect(Screens[s].r, BarH)

Meets(r) == \E s \in DOMAIN Screens :
              LET i == RectIntersection(r, Inside(s)) IN WidthOf(i) >= 0 /\ HeightOf(i) >= 0

(* How near r, which meets no screen, is to this one.                      *)
Nearness(r, s) ==
  LET i == RectIntersection(r, Inside(s))
  IN  IF WidthOf(i) <= 0 /\ HeightOf(i) <= 0 THEN Most(WidthOf(i), HeightOf(i))
                                             ELSE Least(WidthOf(i), HeightOf(i))

(* The first of those for which f is greatest.                             *)
FirstMost(S, f(_)) ==
  CHOOSE i \in S : \A j \in S : f(i) > f(j) \/ (f(i) = f(j) /\ i <= j)

\* A mutant: what is to the right or below is not moved.
MovedToLater(r, i) ==
  RectAddPt(r, Pt(-Least(r.max.x - i.min.x, 0), -Least(r.max.y - i.min.y, 0)))

(* r moved until it touches i.                                             *)
MovedTo(r, i) ==
  RectAddPt(r, Pt(-Least(r.max.x - i.min.x, 0) - Most(r.min.x - i.max.x, 0),
                  -Least(r.max.y - i.min.y, 0) - Most(r.min.y - i.max.y, 0)))

Constrain(r) ==
  IF Meets(r) THEN r
  ELSE MovedTo(r, Inside(FirstMost(DOMAIN Screens, LAMBDA s : Nearness(r, s))))

(* The assertion of frame_resize, and what is done when it fails.          *)
Full(f, r) ==
  IF WidthOf(r) <= 0 \/ HeightOf(r) < 0 \/ (HeightOf(r) = 0 /\ ~f.collapsed)
  THEN [r EXCEPT !.max = Pt(Most(r.min.x + 1, @.x), Most(r.min.y + 1, @.y))]
  ELSE r

Widened(r) == [r EXCEPT !.max.x = Most(@, r.min.x + 2 * TitleH)]

(* A collapsed frame remembers its rectangle, and has its title only.      *)
Taken(f, r) == IF f.collapsed THEN [f EXCEPT !.r = [r EXCEPT !.max.y = r.min.y + TitleH]]
                              ELSE [f EXCEPT !.r = r, !.floatr = r]

Allowed(f, r) == Widened(Constrain(FrameHints(f, r, GetSticky(f.r, r))))

FrameResize(f, r) == Taken(f, Allowed(f, Full(f, r)))

\* The frames of a list but for those of T.
Besides(L, T) ==
  LET kept[i \in 0 .. Len(L)] ==
        IF i = 0 THEN <<>> ELSE IF L[i] \in T THEN kept[i - 1] ELSE Append(kept[i - 1], L[i])
  IN  kept[Len(L)]

AreaOf(r) == WidthOf(r) * HeightOf(r)

RectPush(vec, r) ==
  LET hits == {i \in DOMAIN vec : RectContains(vec[i], r) \/ RectContains(r, vec[i])}
      i == CHOOSE i \in hits : \A j \in hits : i <= j
  IN  IF hits = {} THEN Append(vec, r)
      ELSE IF RectContains(vec[i], r) THEN vec
      ELSE [vec EXCEPT ![i] = r]

(* What is left of r2 to each side of r1.                                  *)
\* A mutant: what is on the right is always taken for free.
PiecesApart(r2, r1) ==
  IF ~RectIntersects(r1, r2) THEN <<r2>>
  ELSE <<Rect(r1.max.x, r2.min.y, r2.max.x, r2.max.y)>>

Pieces(r2, r1) ==
  IF ~RectIntersects(r1, r2) THEN <<r2>>
  ELSE LET If(c, r) == IF c THEN <<r>> ELSE <<>>
       IN  If(r2.min.x < r1.min.x, Rect(r2.min.x, r2.min.y, r1.min.x, r2.max.y))
           \o If(r2.min.y < r1.min.y, Rect(r2.min.x, r2.min.y, r2.max.x, r1.min.y))
           \o If(r2.max.x > r1.max.x, Rect(r1.max.x, r2.min.y, r2.max.x, r2.max.y))
           \o If(r2.max.y > r1.max.y, Rect(r2.min.x, r1.max.y, r2.max.x, r2.max.y))

PushAll(vec, rects) ==
  LET pushed[i \in 0 .. Len(rects)] ==
        IF i = 0 THEN vec ELSE RectPush(pushed[i - 1], rects[i])
  IN  pushed[Len(rects)]

Cut(v1, r1) ==
  LET v2[j \in 0 .. Len(v1)] ==
        IF j = 0 THEN <<>> ELSE PushAll(v2[j - 1], Pieces(v1[j], r1))
  IN  v2[Len(v1)]

(* Each free rectangle is cut by each r1 of vec.                           *)
UniqueRects(vec, orig) ==
  LET v1[i \in 0 .. Len(vec)] ==
        IF i = 0 THEN <<orig>> ELSE Cut(v1[i - 1], vec[i])
  IN  v1[Len(vec)]

(* The least of the free rectangles that the window fits in, the first of  *)
(* these, or the next step of the cascade.                                 *)
Fitting(free, r) == {i \in DOMAIN free : WidthOf(free[i]) >= WidthOf(r)
                                         /\ HeightOf(free[i]) >= HeightOf(r)}

Cascaded(r, p, screen) ==
  RectSetOrigin(r, IF p.x + WidthOf(r) > screen.max.x \/ p.y + HeightOf(r) > screen.max.y
                   THEN screen.min ELSE p)

PlacedIn(free, fits, r, screen) ==
  IF fits # {} THEN RectSetOrigin(r, free[FirstMost(fits, LAMBDA i : -AreaOf(free[i]))].min)
  ELSE Cascaded(r, IF fsel = NoWindow THEN ZP
                   ELSE AddPt(win[fsel].r.min, Pt(TitleH - 3, TitleH - 3)), screen)

Placed(free, r, screen) == PlacedIn(free, Fitting(free, r), r, screen)

FloatPlaceframe(w, s) ==
  LET others == Besides(list, {w})
  IN  IF win[w].hints.position THEN win[w].floatr
      ELSE Placed(UniqueRects([i \in 1 .. Len(others) |-> win[others[i]].r], Screens[s].vr),
                  win[w].floatr, Screens[s].r)
-----------------------------------------------------------------------------
(* What the mouse does to a rectangle.                                     *)

(* A side that is pulled across its opposite becomes the opposite.         *)
RectMorph(r, d, mask) ==
  LET x0 == r.min.x + (IF "West" \in mask THEN d.x ELSE 0)
      x1 == r.max.x + (IF "East" \in mask THEN d.x ELSE 0)
      y0 == r.min.y + (IF "North" \in mask THEN d.y ELSE 0)
      y1 == r.max.y + (IF "South" \in mask THEN d.y ELSE 0)
  IN  [r |-> Rect(Least(x0, x1), Least(y0, y1), Most(x0, x1), Most(y0, y1)),
       mask |-> Xor(mask, (IF x0 > x1 THEN Across ELSE {})
                          \cup (IF y0 > y1 THEN Along ELSE {}))]

(* How far the line at p is from the nearest side of a rectangle beside r, *)
(* the last of the nearest, when that is no further than d.  A line is the *)
(* two sides of a rectangle on one axis and its ends on the other; from    *)
(* and to are the ends of r.                                               *)
Nearer(dx, tx) == IF Magnitude(tx) <= Magnitude(dx) THEN tx ELSE dx

Snapping(dx, line, from, to, p) ==
  IF line.from <= to /\ line.to >= from THEN Nearer(Nearer(dx, line.low - p), line.high - p)
                                        ELSE dx

SnapLine(lines, d, from, to, p) ==
  LET dx[i \in 0 .. Len(lines)] ==
        IF i = 0 THEN d ELSE Snapping(dx[i - 1], lines[i], from, to, p)
  IN  dx[Len(lines)]

SnapHLine(rects, d, r, y) ==
  SnapLine([i \in DOMAIN rects |->
              [low |-> rects[i].min.y, high |-> rects[i].max.y,
               from |-> rects[i].min.x, to |-> rects[i].max.x]], d, r.min.x, r.max.x, y)
SnapVLine(rects, d, r, x) ==
  SnapLine([i \in DOMAIN rects |->
              [low |-> rects[i].min.x, high |-> rects[i].max.x,
               from |-> rects[i].min.y, to |-> rects[i].max.y]], d, r.min.y, r.max.y, x)

(* With the direction for increments: the opposite of mask, or that of the *)
(* snap.                                                                   *)
SnapRect(rects, r, mask) ==
  LET n == IF "North" \in mask THEN SnapHLine(rects, Snap + 1, r, r.min.y) ELSE Snap + 1
      y == IF "South" \in mask THEN SnapHLine(rects, n, r, r.max.y) ELSE n
      e == IF "East" \in mask THEN SnapVLine(rects, Snap + 1, r, r.max.x) ELSE Snap + 1
      x == IF "West" \in mask THEN SnapVLine(rects, e, r, r.min.x) ELSE e
      near == (IF Magnitude(x) <= Snap THEN Across ELSE {})
              \cup (IF Magnitude(y) <= Snap THEN Along ELSE {})
      d == Pt(IF Across \subseteq near THEN x ELSE 0, IF Along \subseteq near THEN y ELSE 0)
      morph == RectMorph(r, d, mask)
  IN  [r |-> morph.r, mask |-> morph.mask, grav |-> Xor(Center \ near, morph.mask)]

(* What a moved window snaps to: the windows, and each screen after what   *)
(* the bars leave of it.                                                   *)
ViewRects(f, ignored) ==
  LET shown == Besides(list, ignored)
  IN  [i \in 1 .. Len(shown) |-> f[shown[i]].r]
      \o [i \in 1 .. 2 * Len(Screens) |->
            IF i % 2 = 1 THEN Screens[(i + 1) \div 2].vr ELSE Screens[i \div 2].r]
-----------------------------------------------------------------------------
(* The layer as a whole, on functions from windows like win.               *)

(* view_update: every frame is resized to the rectangle it has.            *)
ViewUpdated(L, f) ==
  [w \in Windows |-> IF Contains(L, w) THEN FrameResize(f[w], f[w].r) ELSE f[w]]

(* float_arrange: to the one it had before it was collapsed.               *)
FloatArranged(L, f) ==
  ViewUpdated(L, [w \in Windows |-> IF Contains(L, w) THEN [f[w] EXCEPT !.r = f[w].floatr]
                                                      ELSE f[w]])

(* frame_focus and area_setsel pass over what is collapsed: the first from *)
(* w on that is open, or else the last before it, or else the first.       *)
Focusable(L, f, w) ==
  LET i == CHOOSE i \in DOMAIN L : L[i] = w
      open == {j \in DOMAIN L : ~f[L[j]].collapsed}
  IN  IF \E j \in open : j >= i
      THEN L[CHOOSE j \in open : j >= i /\ \A k \in open : k >= i => j <= k]
      ELSE IF open # {} THEN L[CHOOSE j \in open : \A k \in open : k <= j]
      ELSE L[1]

(* frame_focus: the frame is opened, and all are arranged.                 *)
GiveFocus(L, f, w) ==
  LET x == Focusable(L, f, w)
  IN  /\ fsel' = x
      /\ win' = FloatArranged(L, [f EXCEPT ![x].collapsed = FALSE])

NoDrag == [kind |-> "none"]
Idle == drag = NoDrag

(* The bound on steps; what is asked for without the mouse weighs more.    *)
Spend(weight) == steps + weight <= MaxSteps /\ steps' = steps + weight
-----------------------------------------------------------------------------
FloatInit ==
  /\ list = <<>> /\ fsel = NoWindow /\ drag = NoDrag /\ steps = 0
  /\ \E asked \in [Windows -> Asked] :
       win = [w \in Windows |->
                LET c == [hints |-> GetHints(<<>>), bare |-> {}, collapsed |-> FALSE,
                          r |-> asked[w], floatr |-> asked[w]]
                    r == ClientGrav(c, asked[w])
                IN  [c EXCEPT !.r = r, !.floatr = r]]

Attached(w, L, place, focused) ==
  LET f == [win EXCEPT ![w] = [@ EXCEPT !.r = win[w].floatr, !.floatr = place]]
  IN  IF focused THEN GiveFocus(L, f, w)
      ELSE /\ fsel' = IF fsel = NoWindow THEN w ELSE fsel
           /\ win' = ViewUpdated(L, f)

(* float_attach, and what view_attach and view_update do after it.  s: the *)
(* screen of the frame elsewhere, of its group, of the selected client or  *)
(* of the selected area.  focused: by view_attach, unless the window is a  *)
(* splash screen or has its tags from a regular expression.  selected: the *)
(* layer is the selected area, and its first window is focused at once.    *)
Attach(w, s, focused, selected) ==
  LET i == IF fsel = NoWindow THEN 0 ELSE CHOOSE i \in DOMAIN list : list[i] = fsel
  IN  /\ Spend(1) /\ Idle /\ ~Contains(list, w)
      /\ list' = InsertAt(list, i + 1, w)
      /\ Attached(w, InsertAt(list, i + 1, w), FloatPlaceframe(w, s),
                  focused \/ (fsel = NoWindow /\ selected))
      /\ UNCHANGED drag

(* float_detach, and view_update.                                          *)
Detach(w, selected) ==
  LET i == CHOOSE i \in DOMAIN list : list[i] = w
      L == RemoveAt(list, i)
      pr == IF i > 1 THEN list[i - 1] ELSE L[1]
  IN  /\ Spend(2) /\ Idle /\ Contains(list, w)
      /\ list' = L
      /\ CASE L = <<>> -> fsel' = NoWindow /\ UNCHANGED win
           [] L # <<>> /\ fsel = w /\ selected -> GiveFocus(L, win, pr)
           [] OTHER -> /\ fsel' = IF fsel = w THEN Focusable(L, win, pr) ELSE fsel
                       /\ win' = ViewUpdated(L, win)
      /\ UNCHANGED drag

FocusClient(w) ==
  /\ Spend(2) /\ Idle /\ Contains(list, w)
  /\ GiveFocus(list, win, w)
  /\ UNCHANGED <<list, drag>>

(* client_resize of a frame in the layer.                                  *)
Resize(w, r) == win' = [win EXCEPT ![w] = FrameResize(@, r)]

(* configreq_event: the fields in mask are the program's.                  *)
Configure(w, asked, mask) ==
  LET c == win[w]
      known == KnownToProgram(c)
      min == Pt(IF "x" \in mask THEN asked.min.x ELSE known.min.x,
                IF "y" \in mask THEN asked.min.y ELSE known.min.y)
      size == Pt(IF "width" \in mask THEN WidthOf(asked) ELSE WidthOf(known),
                 IF "height" \in mask THEN HeightOf(asked) ELSE HeightOf(known))
      r == ClientGrav(c, [min |-> min, max |-> AddPt(min, size)])
  IN  /\ Spend(2) /\ Idle
      /\ IF Contains(list, w) THEN Resize(w, r) ELSE win' = [win EXCEPT ![w].floatr = r]
      /\ UNCHANGED <<list, fsel, drag>>

(* The amount in a message is one of pixels, or of the unit.               *)
Times(a, unit) == IF a.px THEN Pt(a.n, a.n) ELSE MulPt(Pt(a.n, a.n), unit)
TitlebarPt == Pt(TitleH - 3, TitleH - 3)

MsgGrow(w, side, amount) ==
  LET c == win[w]
      lo == c.hints.aspect.min
      a == Times(amount, Pt(Most(TitleH - 3, c.hints.inc.x), Most(TitleH - 3, c.hints.inc.y)))
      d == IF side \in Across
           THEN Pt(a.x, IF lo.x # 0 THEN Quot(a.x * lo.y, lo.x) ELSE 0)
           ELSE Pt(IF lo.y # 0 THEN Quot(a.y * lo.x, lo.y) ELSE 0, a.y)
  IN  /\ Spend(2) /\ Idle /\ Contains(list, w)
      /\ Resize(w, IF side \in {"West", "North"} THEN [c.r EXCEPT !.min = SubPt(@, d)]
                                                 ELSE [c.r EXCEPT !.max = AddPt(@, d)])
      /\ UNCHANGED <<list, fsel, drag>>

MsgNudge(w, side, amount) ==
  LET a == Times(amount, TitlebarPt)
      d == CASE side = "West" -> Pt(-a.x, 0)
             [] side = "East" -> Pt(a.x, 0)
             [] side = "North" -> Pt(0, -a.y)
             [] side = "South" -> Pt(0, a.y)
  IN  /\ Spend(2) /\ Idle /\ Contains(list, w)
      /\ Resize(w, RectAddPt(win[w].r, d))
      /\ UNCHANGED <<list, fsel, drag>>

(* client_prop: also from within the loops of the mouse.                   *)
PropNormalHints(w, xs) ==
  LET f == [win EXCEPT ![w].hints = GetHints(xs)]
  IN  /\ Spend(2) /\ GetHints(xs) # win[w].hints
      /\ win' = ViewUpdated(list, f)
      /\ UNCHANGED <<list, fsel, drag>>

(* updatemwm: nothing is resized.                                          *)
PropMotifHints(w, bare) ==
  /\ Spend(2) /\ bare # win[w].bare
  /\ win' = [win EXCEPT ![w].bare = bare]
  /\ UNCHANGED <<list, fsel, drag>>
-----------------------------------------------------------------------------
(* tfloat.  From the grab box the window has been moved, and else a click  *)
(* collapses it.  The first motion only says where the pointer is.         *)

MoveBegin(w, moved) ==
  /\ Spend(1) /\ Idle /\ Contains(list, w)
  /\ IF win[w].collapsed THEN UNCHANGED <<fsel, win>> ELSE GiveFocus(list, win, w)
  /\ drag' = [kind |-> "move", w |-> w, moved |-> moved, first |-> TRUE,
              rects |-> ViewRects(win', {w}), origin |-> win'[w].r, pt |-> ZP]
  /\ UNCHANGED list

MoveMotion(pt) ==
  LET c == win[drag.w]
      origin == Constrain(RectAddPt(drag.origin,
                                    IF drag.first THEN ZP ELSE SubPt(pt, drag.pt)))
      snapped == SnapRect(drag.rects, origin, Center).r
  IN  /\ Spend(1) /\ drag.kind = "move"
      /\ Resize(drag.w, Constrain(FrameHints(c, snapped, Center)))
      /\ drag' = [drag EXCEPT !.pt = pt, !.origin = origin, !.first = FALSE,
                              !.moved = @ \/ ~drag.first]
      /\ UNCHANGED <<list, fsel>>

(* Another button: the pointer has moved, and the window has not.  With    *)
(* the third one the drag goes on among the columns: see module Column.    *)
MoveButton(pt, third) ==
  /\ Spend(1) /\ drag.kind = "move" /\ ~drag.first
  /\ drag' = IF third THEN NoDrag ELSE [drag EXCEPT !.pt = pt]
  /\ UNCHANGED <<list, fsel, win>>

MoveEnd ==
  LET w == drag.w
      turned == [win[w] EXCEPT !.collapsed = ~@]
  IN  /\ Spend(1) /\ drag.kind = "move"
      /\ CASE drag.first -> GiveFocus(list, win, w)
           [] ~drag.first /\ ~drag.moved ->
                /\ win' = [win EXCEPT ![w] = FrameResize(turned, turned.floatr)]
                /\ UNCHANGED fsel
           [] ~drag.first /\ drag.moved -> UNCHANGED <<fsel, win>>
      /\ drag' = NoDrag
      /\ UNCHANGED list

(* mouse_resize: focused before, when the click had the modifier, or else  *)
(* afterwards.  Center: the pointer is scaled, and given here as scaled.   *)
(* What is ignored is the first of the client's frames, which may be one   *)
(* in another view.                                                        *)
ResizeBegin(w, align, before) ==
  LET r == win'[w].r
      hr == HalfPt(SizeOf(r))
      Half(far, near, n) == IF far \in align THEN 2 * n ELSE IF near \in align THEN 0 ELSE n
  IN  /\ Spend(1) /\ Idle /\ Contains(list, w)
      /\ IF before THEN GiveFocus(list, win, w) ELSE UNCHANGED <<fsel, win>>
      /\ drag' = [kind |-> "resize", w |-> w, align |-> align, focus |-> ~before,
                  rects |-> ViewRects(win', IF w \in Elsewhere THEN {} ELSE {w}),
                  origin |-> r,
                  pt |-> IF align = Center THEN SubPt(r.max, Pt(TitleH, TitleH))
                         ELSE AddPt(r.min, Pt(Half("East", "West", hr.x),
                                              Half("South", "North", hr.y)))]
      /\ UNCHANGED list

ResizeMotion(pt) ==
  LET c == win[drag.w]
      morph == RectMorph(drag.origin, SubPt(pt, drag.pt), drag.align)
      snap == SnapRect(drag.rects, Constrain(morph.r), morph.mask)
  IN  /\ Spend(1) /\ drag.kind = "resize"
      /\ Resize(drag.w, Constrain(FrameHints(c, snap.r, snap.grav)))
      /\ drag' = [drag EXCEPT !.pt = pt, !.origin = morph.r, !.align = snap.mask]
      /\ UNCHANGED <<list, fsel>>

ResizeEnd ==
  /\ Spend(1) /\ drag.kind = "resize"
  /\ IF drag.focus /\ fsel # drag.w THEN GiveFocus(list, win, drag.w) ELSE UNCHANGED <<fsel, win>>
  /\ drag' = NoDrag
  /\ UNCHANGED list

FloatNext ==
  \/ \E w \in Windows, s \in DOMAIN Screens, focused, selected \in BOOLEAN :
       Attach(w, s, focused, selected)
  \/ \E w \in Windows, selected \in BOOLEAN : Detach(w, selected)
  \/ \E w \in Windows : FocusClient(w)
  \/ \E w \in Windows, asked \in Asked, mask \in {{"x", "y"}, {"x", "width"}, {"height"}} :
       Configure(w, asked, mask)
  \/ \E w \in Windows, side \in Center, amount \in GrowAmounts : MsgGrow(w, side, amount)
  \/ \E w \in Windows, side \in Center, amount \in GrowAmounts : MsgNudge(w, side, amount)
  \/ \E w \in Windows, xs \in SizeHints : PropNormalHints(w, xs)
  \/ \E w \in Windows, bare \in Decorations : PropMotifHints(w, bare)
  \/ \E w \in Windows, moved \in BOOLEAN : MoveBegin(w, moved)
  \/ \E pt \in Pointers : MoveMotion(pt)
  \/ \E pt \in Pointers, third \in BOOLEAN : MoveButton(pt, third)
  \/ MoveEnd
  \/ \E w \in Windows, before \in BOOLEAN :
       \E pt \in Pointers :
         \E align \in {Center, Quadrant(win[w].r, pt)} \ {{}} :
           ResizeBegin(w, align, before)
  \/ \E pt \in Pointers : ResizeMotion(pt)
  \/ ResizeEnd

FloatSpec == FloatInit /\ [][FloatNext]_floatVars
-----------------------------------------------------------------------------
(* Properties.                                                             *)

Listed == ToSet(list)

(* Sizes that make sense: none is negative, and a window with an aspect    *)
(* ratio is never narrower than the base that does not count for it.       *)
Sensible(h) ==
  /\ {h.max.x, h.max.y, h.base.x, h.base.y, h.baspect.x, h.baspect.y} \subseteq Nat
  /\ h.aspect # ZR =>
       \A width \in {LeastSize(h).x, h.max.x, h.base.x} : h.baspect.x <= width

(* A window that is not collapsed has at least a corner on a screen, away  *)
(* from its border by the height of a bar, however it was moved, asked     *)
(* for, resized or placed (constrain).                                     *)
Reachable ==
  \A w \in Listed : ~win[w].collapsed /\ Sensible(win[w].hints) => Meets(win[w].r)

(* Hints that agree with the least width of a frame: no aspect ratio, and  *)
(* increments of the width only for windows that are never narrower.       *)
Agreeable(h) ==
  /\ Sensible(h) /\ h.aspect = ZR
  /\ h.inc.x > 1 => h.min.x >= 2 * TitleH

(* No update of the view moves or resizes a window that nobody has asked   *)
(* for: resizing it to where it is changes nothing, with the decorations   *)
(* it had when it was last resized.  The size hints are applied again and  *)
(* again, and must agree with what they have made (frame_resize).          *)
Settled ==
  \A w \in Listed :
    ~win[w].collapsed /\ Agreeable(win[w].hints) =>
    \E bare \in Decorations :
      LET c == [win[w] EXCEPT !.bare = bare]
      IN  FrameResize(c, c.r) = c

(* A program that asks for the place and size it has, as it knows them,    *)
(* stays where it is, whatever the gravity and decorations of its window   *)
(* (client_grav there and back), unless its window is smaller than these.  *)
AsksToStay ==
  \A w \in Listed :
    LET c == win[w]
        d == SizeOf(FrameClient2Rect(c, ZR))
    IN  (WidthOf(c.floatr) > d.x /\ HeightOf(c.floatr) > d.y)
        => ClientGrav(c, KnownToProgram(c)) = c.floatr

Overlap(r, s) == r.min.x < s.max.x /\ s.min.x < r.max.x
                 /\ r.min.y < s.max.y /\ s.min.y < r.max.y

(* Where there is room for a window, there is some as far to the left and  *)
(* up as the others and the screen let it go.                              *)
Room(s, w) ==
  LET vr == Screens[s].vr
      xs == {vr.min.x} \cup {win[x].r.max.x : x \in Listed}
      ys == {vr.min.y} \cup {win[x].r.max.y : x \in Listed}
  IN  \E x \in xs, y \in ys :
        LET r == RectSetOrigin(win[w].floatr, Pt(x, y))
        IN  RectContains(vr, r) /\ \A v \in Listed : ~Overlap(r, win[v].r)

(* A new window with a size its hints allow, and wmii too, which does not  *)
(* ask for a place and gets the focus, covers no other while there is room *)
(* for it and the others stay where they are (unique_rects,                *)
(* float_placeframe).                                                      *)
PlacesFree ==
  [][\A w \in Windows :
       /\ w \in Listed' \ Listed /\ fsel' = w
       /\ ~win[w].hints.position
       /\ SizeHint(FrameGetHints(win[w]), win[w].floatr) = win[w].floatr
       /\ WidthOf(win[w].floatr) >= 2 * TitleH /\ HeightOf(win[w].floatr) >= BarH
       /\ \A v \in Listed : win'[v].r = win[v].r
       /\ \A s \in DOMAIN Screens : Room(s, w)
       => \A v \in Listed : ~Overlap(win'[w].r, win[v].r)]_floatVars
=============================================================================
