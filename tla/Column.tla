------------------------------- MODULE Column -------------------------------
(***************************************************************************)
(* The heights of the frames of one column: how column.c and stack.c share *)
(* the height of the column out, collapse frames or push them to the       *)
(* floating layer when there is no room, and what the operations that      *)
(* change the sharing do: attaching, detaching, focusing, the mode, grow   *)
(* and nudge (message.c), and the mouse (mouse.c, layout.c).               *)
(*                                                                         *)
(* Only the y axis is modelled.  The column is the selected one of the     *)
(* selected view, whenever something is done to it, and is not destroyed    *)
(* when it becomes empty.  Windows take any size, and the space that is    *)
(* left is given to them (incmode squeeze, as by default).                 *)
(*                                                                         *)
(* The functions of column.c call each other in a circle: arranging may    *)
(* select and push out frames, and both arrange.  A call is therefore a    *)
(* record, and Run has the stack of the calls that are left.  An action    *)
(* begins one operation: it does what the operation does itself, and       *)
(* leaves the calls that it makes to Finish.                               *)
(***************************************************************************)
EXTENDS Integers, Sequences, FiniteSets, SequencesExt

CONSTANTS Frames,     \* frames, in the column or floating
          LabelH,     \* labelh(def.font)
          Heights,    \* heights of the screen without the bar
          Amounts,    \* what grow and nudge are asked for
          Modes,      \* the words that the mode is set to
          Ys,         \* where a frame is dropped
          MaxCalls,   \* bound: calls that wait for others
          Nil

ASSUME ModesAssumption == Modes \subseteq {"default", "-stack", "stack", "+max", "-max"}

ASSUME HeightAssumption == LabelH \in Nat \ {0} /\ \A h \in Heights : h > 2 * LabelH

VARIABLES area,       \* the column
          floating,   \* the frames that float, with the colr that they keep
          calls       \* what the operation has yet to call

vars == <<area, floating, calls>>

(* A frame: colr from top to bot, r from rtop to rbot, and collapsed.      *)
Frame(id) == [id |-> id, top |-> 0, bot |-> 0, rtop |-> 0, rbot |-> 0, collapsed |-> FALSE]

(* sel is an id.  resizing is the global one.  gone: frames that have been *)
(* pushed to the floating layer.  failed: assertions and warnings.         *)
Init ==
  /\ \E h \in Heights :
       \E m \in {"default", "stack"} :
         area = [frame |-> <<>>, sel |-> Nil, mode |-> m, max |-> FALSE, height |-> h,
               resizing |-> FALSE, gone |-> {}, failed |-> {}]
  /\ floating = {} /\ calls = <<>>
-----------------------------------------------------------------------------
Dy(f) == f.bot - f.top
DyR(f) == f.rbot - f.rtop

(* The sum of the first n heights, of the colr and of the r of the frames. *)
RECURSIVE UpTo(_, _)
UpTo(h, n) == IF n = 0 THEN 0 ELSE h[n] + UpTo(h, n - 1)

HeightsColr(a) == [i \in DOMAIN a.frame |-> Dy(a.frame[i])]
HeightsR(a) == [i \in DOMAIN a.frame |-> DyR(a.frame[i])]
Only(h, S) == [i \in DOMAIN h |-> IF i \in S THEN h[i] ELSE 0]
SumOver(a, S) == UpTo(Only(HeightsColr(a), S), Len(a.frame))
Total(a) == UpTo(HeightsColr(a), Len(a.frame))
TotalR(a) == UpTo(HeightsR(a), Len(a.frame))
Place(a, id) == CHOOSE i \in DOMAIN a.frame : a.frame[i].id = id
InColumn(a) == {a.frame[i].id : i \in DOMAIN a.frame}
IdAt(a, i) == IF i \in DOMAIN a.frame THEN a.frame[i].id ELSE Nil

(* The column with each frame replaced (evaluated as a sequence).          *)
Each(a, F(_, _)) == [a EXCEPT !.frame = <<>> \o [i \in DOMAIN a.frame |-> F(i, a.frame[i])]]

Fail(a, what) == [a EXCEPT !.failed = @ \cup {what}]

(* x += (float)part / whole * surplus, in C.                               *)
Trunc(n, d) == IF n >= 0 THEN n \div d ELSE -((-n) \div d)
Scaled(x, part, whole, surplus) == Trunc(x * whole + part * surplus, whole)

CeilDivUp(n, d) == n \div d + 1   \* a mutant: one too many

CeilDiv(n, d) == (n + d - 1) \div d

(* frame_resize to a height, and what it asserts.                          *)
BadRect(a, f, top, bot) ==
  bot < top \/ (bot = top /\ (~a.max \/ a.resizing) /\ ~f.collapsed)

Resized(a, f, top, bot) ==
  LET b == IF BadRect(a, f, top, bot) /\ bot <= top THEN top + 1 ELSE bot
  IN  [f EXCEPT !.rtop = top, !.rbot = b,
                !.collapsed = IF a.mode = "default" THEN b - top < 2 * LabelH ELSE @]

Asserts(a, bad) == IF bad THEN Fail(a, "8 full") ELSE a

ResizeToColr(a) ==
  Asserts(Each(a, LAMBDA i, f : Resized(a, f, f.top, f.bot)),
          \E i \in DOMAIN a.frame : BadRect(a, a.frame[i], a.frame[i].top, a.frame[i].bot))

(* client_resize(f->client, f->r) of every frame.                          *)
ResizeToR(a) ==
  Asserts(Each(a, LAMBDA i, f : Resized(a, f, f.rtop, f.rbot)),
          \E i \in DOMAIN a.frame : BadRect(a, a.frame[i], a.frame[i].rtop, a.frame[i].rbot))
-----------------------------------------------------------------------------
(* stack.c: a stack is a run of frames that are not collapsed.             *)

(* The first frame of the stack that frame p is in, or the one after it,   *)
(* and how many frames and what height it has.                             *)
StackInfo(a, p) ==
  LET open == {i \in DOMAIN a.frame : i >= p /\ ~a.frame[i].collapsed}
      q == IF open = {} THEN p ELSE CHOOSE i \in open : \A j \in open : i <= j
      Run(i, j) == \A k \in i..j : ~a.frame[k].collapsed
      up == {i \in 1..q : Run(i, q)}
      down == {i \in (q + 1)..Len(a.frame) : Run(q + 1, i)}
  IN  [first |-> IF up = {} THEN p ELSE CHOOSE i \in up : \A j \in up : i <= j,
       nframe |-> Cardinality(up) + Cardinality(down),
       dy |-> (IF q # p THEN Dy(a.frame[q]) ELSE 0) + SumOver(a, up \cup down)]

StackScale(a, first, height) ==
  LET run == {i \in first..Len(a.frame) : \A k \in first..i : ~a.frame[k].collapsed}
      dy == SumOver(a, run)
  IN  IF dy <= 0 THEN a
      ELSE Each(a, LAMBDA i, f :
             IF i \in run THEN [f EXCEPT !.bot = Scaled(@, DyR(f), dy, height - dy)] ELSE f)
-----------------------------------------------------------------------------
(* column.c: sharing out the height.                                       *)

(* area_setsel and frame_focus choose a frame that is not collapsed, after *)
(* this one or before it.                                                  *)
Uncollapsed(a, id) ==
  LET p == Place(a, id)
      after  == {i \in p..Len(a.frame) : ~a.frame[i].collapsed}
      before == {i \in 1..Len(a.frame) : ~a.frame[i].collapsed}
  IN  IF after # {} THEN a.frame[CHOOSE i \in after : \A j \in after : i <= j].id
      ELSE IF before # {} THEN a.frame[CHOOSE i \in before : \A j \in before : j <= i].id
      ELSE a.frame[1].id

(* The calls: what they are to do, and with what.                          *)
Does(name) == [do |-> name]
FocusOn(id) == [do |-> "frame_focus", id |-> id]
DetachOf(id) == [do |-> "area_detach", id |-> id]

SetSel(a, id) == FocusOn(Uncollapsed(a, id))   \* the column is v->sel

Then(a, next) == [a |-> a, calls |-> next]

FrameFocus(a, id) ==
  Then([a EXCEPT !.sel = IF a.mode = "default" THEN Uncollapsed(a, id) ELSE id],
        IF a.resizing THEN <<>> ELSE <<Does("column_arrange")>>)

ColumnRemove(a, id) ==
  LET p  == Place(a, id)
      fs == RemoveAt(a.frame, p)
      pr == IF p > 1 THEN p - 1 ELSE 1
      b  == [a EXCEPT !.frame = fs, !.sel = IF @ = id THEN Nil ELSE @]
  IN  IF a.sel # id \/ fs = <<>> THEN Then(b, <<>>)
      ELSE IF ~fs[pr].collapsed THEN Then(b, <<SetSel(b, fs[pr].id)>>)
      ELSE IF pr < Len(fs) /\ ~fs[pr + 1].collapsed THEN Then(b, <<SetSel(b, fs[pr + 1].id)>>)
      ELSE Then([b EXCEPT !.frame[pr].collapsed = FALSE], <<FocusOn(fs[pr].id)>>)

(* area_detach, with column_detach and view_arrange.                       *)
AreaDetach(a, id) ==
  LET p == Place(a, id)
      info == StackInfo(a, p)
      first == IF info.first = p THEN IdAt(a, p + 1) ELSE IdAt(a, info.first)
  IN  Then(a, <<[do |-> "column_remove", id |-> id],
                 [do |-> "stack_scale", id |-> first, height |-> info.dy],
                 Does("column_arrange"), Does("column_arrange")>>)

(* area_moveto of a frame for which there is no room, to the floating area.*)
PushOut(a, f) ==
  LET b == [a EXCEPT !.frame[Place(a, f.id)].collapsed = FALSE]
  IN  Then([b EXCEPT !.gone = @ \cup {[f EXCEPT !.collapsed = FALSE]}],
            <<DetachOf(f.id), Does("column_arrange")>>)

(* column_fit decides which frames to collapse and which to float: all but *)
(* the selected one, in turn, while j more may stay open and i more may    *)
(* stay collapsed.  prev is the frame whose anext is to be followed: it    *)
(* strays when prev itself has been pushed out meanwhile, from within.     *)
Choice(prev, j, i) == [do |-> "choose", prev |-> prev, j |-> j, i |-> i]

Choose(a, call) ==
  LET p == IF call.prev = Nil THEN 1 ELSE Place(a, call.prev) + 1
      f == a.frame[p]
      collapsed == f.collapsed \/ call.j < 0
      j == IF f.collapsed THEN call.j ELSE call.j - 1
      out == PushOut(a, f)
  IN  IF call.prev \notin InColumn(a) \cup {Nil} THEN Then(Fail(a, "strayed"), <<>>)
      ELSE IF p > Len(a.frame) THEN Then(a, <<>>)
      ELSE IF f.id = a.sel THEN Then(a, <<Choice(f.id, call.j, call.i)>>)
      ELSE IF ~collapsed THEN Then(a, <<Choice(f.id, j, call.i)>>)
      ELSE IF call.i < 0 THEN [out EXCEPT !.calls = @ \o <<Choice(call.prev, j, call.i)>>]
      ELSE Then([a EXCEPT !.frame[p].collapsed = TRUE], <<Choice(f.id, j, call.i - 1)>>)

ColH(a) == IF a.max /\ ~a.resizing THEN 0 ELSE LabelH
UncolH == 2 * LabelH + 1

(* How many frames are collapsed for want of height, and how many float.   *)
Lack(room, by) == IF room < 0 /\ by > 0 THEN CeilDiv(-room, by) ELSE 0
Folded(a, uncol, room) == Min({uncol - 1, Lack(room, UncolH - ColH(a))})
Pushed(a, col, room) == Min({col, Lack(room, ColH(a))})

(* All open frames but n are to stay open, the others collapsed or float.  *)
Folding(a, uncol, col, room, n) ==
  LET float == Pushed(a, col + n, room + n * (UncolH - ColH(a)))
  IN  Then(a, <<Choice(Nil, uncol - n - 1, col + n - float - 1)>>)

FitInto(a, uncol, col, room) == Folding(a, uncol, col, room, Folded(a, uncol, room))

OpenFrames(a) == {i \in DOMAIN a.frame : ~a.frame[i].collapsed}

FitOpen(a, uncol) ==
  LET col == Len(a.frame) - uncol
  IN  FitInto(a, uncol, col, a.height - col * ColH(a) - uncol * UncolH)

(* The selected frame is opened when none is.                              *)
FitResized(a) ==
  IF OpenFrames(a) # {} THEN FitOpen(a, Cardinality(OpenFrames(a)))
  ELSE FitOpen([a EXCEPT !.frame[IF a.sel = Nil THEN 1 ELSE Place(a, a.sel)].collapsed = FALSE], 1)

Fit(a) == FitResized(ResizeToColr(a))

(* column_settle                                                           *)
Settle(a) ==
  LET top(i)  == UpTo(HeightsColr(a), i - 1)
      rtop(i) == UpTo(HeightsR(a), i - 1)
      b == IF TotalR(a) > a.height THEN Fail(a, "surplus") ELSE a
  IN  IF \A i \in DOMAIN a.frame : a.frame[i].collapsed THEN Fail(a, "no uncollapsed frames")
      ELSE Each(b, LAMBDA i, f : [f EXCEPT !.rtop = rtop(i), !.rbot = rtop(i) + DyR(f),
                                           !.top = top(i), !.bot = top(i) + Dy(f)])

SqueezeShort(a) ==   \* a mutant: the remainder is not given away
  LET open == OpenFrames(a)
      surplus == a.height - TotalR(a)
  IN  IF surplus <= 0 \/ open = {} \/ a.resizing THEN a
      ELSE Each(a, LAMBDA i, f : IF i \in open THEN [f EXCEPT !.rbot = @ + (surplus \div Cardinality(open))] ELSE f)

(* column_squeeze: windows that take any size grow by a pixel each, in     *)
(* turn, while there is a surplus.                                         *)
Squeeze(a) ==
  LET open == OpenFrames(a)
      surplus == a.height - TotalR(a)
      n == Cardinality(open)
      More(i) == surplus \div n + (IF Cardinality({k \in open : k < i}) < surplus % n THEN 1 ELSE 0)
  IN  IF surplus <= 0 \/ n = 0 \/ a.resizing THEN a
      ELSE Each(a, LAMBDA i, f : IF i \in open THEN [f EXCEPT !.rbot = @ + More(i)] ELSE f)

(* column_scale, after column_fit.                                         *)
Scale(a) ==
  LET least == Each(a, LAMBDA i, f :
                 IF f.collapsed THEN [f EXCEPT !.bot = f.top + ColH(a)]
                 ELSE IF Dy(f) = 0 THEN [f EXCEPT !.bot = @ + 1]
                 ELSE f)
      dy == SumOver(least, OpenFrames(a))
      surplus == a.height - Total(least)
      shared == Each(least, LAMBDA i, f :
                  IF f.collapsed THEN f ELSE [f EXCEPT !.bot = Scaled(@, Dy(f), dy, surplus)])
  IN  Settle(Squeeze(ResizeToColr(IF dy > 0 THEN shared ELSE Fail(least, "6 full"))))

ColumnScale == <<Does("fit"), Does("scale")>>

(* column_arrange; dirty when the mode "default" has been asked for.       *)
ColumnArrange(a, dirty) ==
  LET b == IF a.mode = "default" /\ ~dirty THEN a
           ELSE Each(a, LAMBDA i, f :
                  IF a.mode = "default" THEN [f EXCEPT !.top = 0, !.bot = 100]
                  ELSE [f EXCEPT !.collapsed = (f.id # a.sel)])
  IN  IF a.frame = <<>> THEN Then(a, <<>>)
      ELSE Then(b, ColumnScale \o <<Does("reselect"), Does("client_resize")>>)

ReselectNever(a) == Then(a, <<>>)   \* a mutant: the selection may stay collapsed

Reselect(a) ==
  Then(a, IF a.frame[Place(a, a.sel)].collapsed THEN <<SetSel(a, a.sel)>> ELSE <<>>)

ViewUpdate == <<Does("column_arrange"), Does("client_resize")>>
-----------------------------------------------------------------------------
(* Attaching.                                                              *)

ColumnInsert(a, f, p) ==
  LET b == [a EXCEPT !.frame = InsertAt(@, p + 1, f)]
  IN  Then(b, IF a.sel = Nil THEN <<SetSel(b, f.id)>> ELSE <<>>)

(* area_attach, with column_attach and view_arrange.                       *)
AreaAttach(a, f) ==
  LET p == Place(a, a.sel)
      info == StackInfo(a, p)
      h == info.dy \div (info.nframe + 1)
      b == IF a.sel = Nil THEN ColumnInsert(a, [f EXCEPT !.top = 0, !.bot = a.height], 0)
           ELSE ColumnInsert(StackScale(a, info.first, info.dy - h), [f EXCEPT !.top = 0, !.bot = h], p)
  IN  [b EXCEPT !.calls = @ \o <<Does("column_arrange"), Does("column_arrange")>>]

(* column_resizeframe_h, column_resizeframe's part on the y axis.          *)
ResizeframeH(a, p, wtop, wbot) ==
  LET n == Len(a.frame)
      t1 == IF p > 1 THEN Max({wtop, a.frame[p - 1].top + LabelH}) ELSE Max({wtop, 0})
      b1 == IF p < n THEN Min({wbot, a.frame[p + 1].bot - LabelH}) ELSE Min({wbot, a.height})
      top == IF p > 1 THEN t1 ELSE Min({t1, b1 - LabelH})
      bot == IF p < n THEN b1 ELSE Max({b1, top + LabelH})
      Colr(i, f) == CASE i = p     -> [f EXCEPT !.top = top, !.bot = bot]
                      [] i = p - 1 -> [f EXCEPT !.bot = top]
                      [] i = p + 1 -> [f EXCEPT !.top = bot]
                      [] OTHER     -> f
      near == {p - 1, p, p + 1} \cap DOMAIN a.frame
      b == Each(a, Colr)
  IN  Asserts(Each(b, LAMBDA i, f : IF i \in near THEN Resized(a, f, f.top, f.bot) ELSE f),
              \E i \in near : BadRect(a, b.frame[i], b.frame[i].top, b.frame[i].bot))

(* column_attachrect: after the last frame, whatever the rectangle.        *)
AttachRect(a, f) ==
  LET b == ColumnInsert(a, f, Len(a.frame))
  IN  [b EXCEPT !.calls = @ \o <<[do |-> "column_resizeframe_h", f |-> f]>> \o ColumnScale]
-----------------------------------------------------------------------------
(* The mouse.                                                              *)

(* _openstack_down and _openstack_up: the frames from p on give way, and   *)
(* collapse when that is not enough.  The result has how much they gave.   *)
RECURSIVE OpenDown(_, _, _), OpenUp(_, _, _)

OpenDown(a, p, h) ==
  LET f == a.frame[p]
      room == Dy(f) - LabelH
      fold == ~f.collapsed /\ room < h
      own == IF fold THEN room ELSE 0
      rest == OpenDown([a EXCEPT !.frame[p] = [f EXCEPT !.collapsed = @ \/ fold, !.top = @ + own]], p + 1, h - own)
  IN  IF p > Len(a.frame) THEN [a |-> a, gave |-> 0]
      ELSE IF ~f.collapsed /\ ~fold THEN [a |-> [a EXCEPT !.frame[p].top = @ + h], gave |-> h]
      ELSE [a |-> [rest.a EXCEPT !.frame[p].top = @ + rest.gave, !.frame[p].bot = @ + rest.gave],
            gave |-> own + rest.gave]

OpenUp(a, p, h) ==
  LET f == a.frame[p]
      room == Dy(f) - LabelH
      fold == ~f.collapsed /\ room < h
      own == IF fold THEN room ELSE 0
      rest == OpenUp([a EXCEPT !.frame[p] = [f EXCEPT !.collapsed = @ \/ fold, !.bot = @ - own]], p - 1, h - own)
  IN  IF p = 0 THEN [a |-> a, gave |-> 0]
      ELSE IF ~f.collapsed /\ ~fold THEN [a |-> [a EXCEPT !.frame[p].bot = @ - h], gave |-> h]
      ELSE [a |-> [rest.a EXCEPT !.frame[p].top = @ - rest.gave, !.frame[p].bot = @ - rest.gave],
            gave |-> own + rest.gave]

(* column_openstack, around frame p.                                       *)
OpenStack(a, p, h) ==
  LET down == OpenDown(a, p + 1, h)
  IN  IF p = 0 \/ h = down.gave THEN down.a ELSE OpenUp(down.a, p - 1, h - down.gave).a

(* column_drop: f is not in the column.                                    *)
ColumnDrop(a, f, wy) ==
  LET n == Len(a.frame)
      under == {i \in 1..n : wy <= a.frame[i].bot} \cup {n}
      p == Min(under)
      y == Min({Max({wy, a.frame[p].top + LabelH}), a.frame[p].bot})
      dy == a.frame[p].bot - y
      flat == [f EXCEPT !.collapsed = TRUE, !.top = 0, !.bot = LabelH]
      whole == [f EXCEPT !.top = y, !.bot = a.frame[p].bot + a.height - Total(a)]
  IN  IF n = 0 \/ wy <= a.frame[1].rtop THEN ColumnInsert(OpenStack(a, 0, LabelH), flat, 0)
      ELSE IF dy <= LabelH THEN ColumnInsert(OpenStack(a, p, LabelH - dy), flat, p)
      ELSE ColumnInsert([a EXCEPT !.frame[p].bot = y], whole, p)

(* thcol, when the button is released at y: a frame of the column is taken *)
(* out, and its neighbour grows into its place.  A frame that has been     *)
(* pushed out meanwhile is taken from the floating layer.                  *)
TakeOut(a, id, y) ==
  LET p == Place(a, id)
      out == CHOOSE f \in a.gone : f.id = id
      drop(f) == <<[do |-> "column_drop", f |-> f, y |-> y]>>
      way(prev) == <<[do |-> "give_way", f |-> a.frame[p], prev |-> prev, y |-> y]>>
  IN  IF id \notin InColumn(a)
        THEN Then([a EXCEPT !.gone = @ \ {out}], <<Does("column_arrange")>> \o drop(out))
        ELSE Then(a, <<[do |-> "column_remove", id |-> id]>> \o way(IdAt(a, p - 1)) \o drop(a.frame[p]))

GiveWay(a, f, prev, y) ==
  IF f.collapsed THEN a
  ELSE IF prev # Nil THEN [a EXCEPT !.frame[Place(a, prev)].bot = f.bot]
  ELSE IF a.frame # <<>> /\ y > a.frame[1].rtop THEN [a EXCEPT !.frame[1].top = f.top]
  ELSE a

(* pushstack_down and pushstack_up                                         *)
RECURSIVE PushDown(_, _, _), PushUp(_, _, _)

PushDown(a, p, y) ==
  LET f == a.frame[p]
      dy == y - f.top
      dh == Dy(f) - LabelH
      fold == ~f.collapsed /\ dy > dh
      own == IF fold THEN dh ELSE 0
      rest == PushDown([a EXCEPT !.frame[p] = [f EXCEPT !.collapsed = @ \/ fold, !.top = @ + own]],
                       p + 1, f.bot + dy - own)
  IN  IF p > Len(a.frame) \/ dy < 0 THEN [a |-> a, gave |-> 0]
      ELSE IF ~f.collapsed /\ ~fold THEN [a |-> [a EXCEPT !.frame[p].top = @ + dy], gave |-> dy]
      ELSE [a |-> [rest.a EXCEPT !.frame[p].top = @ + rest.gave, !.frame[p].bot = @ + rest.gave],
            gave |-> own + rest.gave]

PushUp(a, p, y) ==
  LET f == a.frame[p]
      dy == f.bot - y
      dh == Dy(f) - LabelH
      fold == ~f.collapsed /\ dy > dh
      own == IF fold THEN dh ELSE 0
      rest == PushUp([a EXCEPT !.frame[p] = [f EXCEPT !.collapsed = @ \/ fold, !.bot = @ - own]],
                     p - 1, f.top - dy + own)
  IN  IF p = 0 \/ dy < 0 THEN [a |-> a, gave |-> 0]
      ELSE IF ~f.collapsed /\ ~fold THEN [a |-> [a EXCEPT !.frame[p].bot = @ - dy], gave |-> dy]
      ELSE [a |-> [rest.a EXCEPT !.frame[p].top = @ - rest.gave, !.frame[p].bot = @ - rest.gave],
            gave |-> own + rest.gave]

(* column_frob                                                             *)
Frob(a) ==
  ResizeToR(Settle(Each(a, LAMBDA i, f : [f EXCEPT !.rtop = f.top, !.rbot = f.bot])))

(* mouse_tempvertresize: the boundary below frame p is dragged from y, and *)
(* the last motion, to pt, counts.                                         *)
Dragged(a, p, y, pt) ==
  IF p >= Len(a.frame) THEN a ELSE
  LET flat == Each(a, LAMBDA i, f : [f EXCEPT !.collapsed = FALSE])
      pushed == IF pt > y THEN PushDown(flat, p + 1, pt).a ELSE PushUp(flat, p, pt).a
  IN  Frob([pushed EXCEPT !.frame[p].bot = pt, !.frame[p + 1].top = pt])
-----------------------------------------------------------------------------
(* The calls that are left are made, and theirs before the next.           *)

FocusIn(a, id) == IF id \in InColumn(a) THEN FrameFocus(a, id) ELSE Then(a, <<>>)

Step(a, c) ==
  CASE c.do = "column_arrange" -> ColumnArrange(a, FALSE)
    [] c.do = "column_arrange dirty" -> ColumnArrange(a, TRUE)
    [] c.do = "fit" -> Fit(a)
    [] c.do = "choose" -> Choose(a, c)
    [] c.do = "scale" -> Then(Scale(a), <<>>)
    [] c.do = "reselect" -> Reselect(a)
    [] c.do = "client_resize" -> Then(ResizeToR(a), <<>>)
    [] c.do = "frame_focus" -> FocusIn(a, c.id)
    [] c.do = "area_attach" -> AreaAttach(a, Frame(c.id))
    [] c.do = "area_detach" -> AreaDetach(a, c.id)
    [] c.do = "column_remove" -> ColumnRemove(a, c.id)
    [] c.do = "stack_scale" ->
         Then(IF c.id \in InColumn(a) THEN StackScale(a, Place(a, c.id), c.height) ELSE a, <<>>)
    [] c.do = "column_attachrect" -> AttachRect(a, c.f)
    [] c.do = "column_resizeframe_h" ->
         Then(ResizeframeH(a, Place(a, c.f.id), c.f.top, c.f.bot), <<>>)
    [] c.do = "take_out" -> TakeOut(a, c.id, c.y)
    [] c.do = "give_way" -> Then(GiveWay(a, c.f, c.prev, c.y), <<>>)
    [] c.do = "column_drop" -> ColumnDrop(a, c.f, c.y)
    [] c.do = "drag" -> Then(Dragged(a, c.p, c.from, c.to), <<>>)
    [] c.do = "resizing" -> Then([a EXCEPT !.resizing = c.on], <<>>)

RECURSIVE Run(_, _)
Run(a, todo) ==
  IF todo = <<>> THEN a
  ELSE IF Len(todo) > MaxCalls THEN Fail(a, "endless")
  ELSE LET s == Step(a, Head(todo)) IN Run(s.a, s.calls \o Tail(todo))

ResizeMode(on) == <<[do |-> "resizing", on |-> on]>> \o ViewUpdate
-----------------------------------------------------------------------------
(* Actions                                                                 *)

(* The column, with nothing pushed out and nothing failed yet.             *)
Now == [area EXCEPT !.gone = {}, !.failed = {}]

Begin(a, todo, floats) ==
  calls = <<>> /\ area' = a /\ calls' = todo /\ floating' = floats

Do(todo, floats) == Begin(Now, todo, floats)

(* What has been pushed out floats.                                        *)
Finish ==
  /\ calls # <<>> /\ calls' = <<>>
  /\ LET a == Run(area, calls)
     IN  /\ area' = [a EXCEPT !.gone = {f.id : f \in @}]
         /\ floating' = floating \cup {[f EXCEPT !.rtop = 0, !.rbot = 0] : f \in a.gone}

FloatingIds == {f.id : f \in floating}

(* view_attach of a new client, which is focused or not.                   *)
ViewAttach(id) ==
  /\ id \in Frames \ (InColumn(area) \cup FloatingIds)
  /\ \E focus \in {<<>>, <<FocusOn(id)>>} :
       Do(<<[do |-> "area_attach", id |-> id]>> \o focus \o ViewUpdate, floating)

ViewDetach(id) ==
  \/ id \in InColumn(area) /\ Do(<<DetachOf(id)>> \o ViewUpdate, floating)
  \/ id \in FloatingIds /\ Do(ViewUpdate, {f \in floating : f.id # id})

(* The message "send toggle", and its way back with area_moveto.           *)
SendToFloating(id) ==
  /\ id \in InColumn(area)
  /\ Do(<<DetachOf(id), Does("column_arrange")>> \o ViewUpdate,
        floating \cup {[area.frame[Place(area, id)] EXCEPT !.rtop = 0, !.rbot = 0]})

SendToColumn(f) ==
  /\ f \in floating
  /\ Do(<<Does("column_arrange"), [do |-> "column_attachrect", f |-> f], FocusOn(f.id)>> \o ViewUpdate,
        floating \ {f})

Focus(id) == id \in InColumn(area) /\ Do(<<FocusOn(id)>>, floating)

(* The message "select up" or "down": a collapsed frame trades heights     *)
(* with the selected one.                                                  *)
SelectFrame(d) ==
  /\ area.sel # Nil
  /\ LET p == Place(area, area.sel)
         f == area.frame[p + d]
         swapped == [Now EXCEPT !.frame[p + d].bot = f.top + Dy(area.frame[p]),
                                !.frame[p].bot = area.frame[p].top + Dy(f)]
     IN  /\ p + d \in DOMAIN area.frame
         /\ IF f.collapsed /\ area.mode = "default"
              THEN Begin(swapped, <<Does("column_arrange"), FocusOn(f.id)>>, floating)
              ELSE Do(<<FocusOn(f.id)>>, floating)

(* The message "send up" or "down".                                        *)
SendFrame(id, d) ==
  /\ id \in InColumn(area)
  /\ LET p == Place(area, id)
     IN  /\ p + d \in DOMAIN area.frame
         /\ Begin([Now EXCEPT !.frame = InsertAt(RemoveAt(@, p), p + d, area.frame[p])],
                        <<FocusOn(id)>> \o ViewUpdate, floating)

(* column_setmode, for one word, and what follows.                         *)
SetMode(m) ==
  /\ area.frame # <<>>
  /\ LET mode == CASE m \in {"default", "-stack"} -> "default"
                   [] m = "stack" -> "stack"
                   [] OTHER -> area.mode
         max == IF m \in {"+max", "-max"} THEN m = "+max" ELSE area.max
         dirty == IF m = "default" THEN <<Does("column_arrange dirty")>> ELSE <<>>
     IN  Begin([Now EXCEPT !.mode = mode, !.max = max],
                     dirty \o <<Does("column_arrange")>> \o ViewUpdate, floating)

(* The messages "grow" and "nudge", up and down.                           *)
Resizeframe(id, up, down) ==
  /\ id \in InColumn(area)
  /\ LET f == area.frame[Place(area, id)]
     IN  Do(<<[do |-> "column_resizeframe_h", f |-> [f EXCEPT !.top = @ + up, !.bot = @ + down]]>> \o ViewUpdate,
            floating)

Grow(id)  == \E n \in Amounts : Resizeframe(id, -n, 0) \/ Resizeframe(id, 0, n)
Nudge(id) == \E n \in Amounts : Resizeframe(id, n, n)

(* mouse_resizecolframe, on a frame that has the focus: an edge is dragged *)
(* to y, between the edges of the frame and of its neighbour.              *)
MouseResize(id) ==
  /\ id \in InColumn(area) /\ id = area.sel
  /\ LET p == Place(area, id)
         f == area.frame[p]
         a == [Now EXCEPT !.frame[p].collapsed = FALSE]
         To(top, bot) == <<[do |-> "column_resizeframe_h", f |-> [f EXCEPT !.top = top, !.bot = bot]]>>
     IN  \/ /\ p > 1
            /\ \E y \in (a.frame[p - 1].rtop + LabelH)..(f.rbot - LabelH) :
                 Begin(a, To(y, f.rbot) \o ViewUpdate, floating)
         \/ /\ p < Len(a.frame)
            /\ \E y \in (f.rtop + LabelH)..(a.frame[p + 1].rbot - LabelH) :
                 Begin(a, To(f.rtop, y) \o ViewUpdate, floating)

(* thcol: a frame is dropped at y, from this column or from the floating   *)
(* layer.                                                                  *)
Drop(id) ==
  /\ id \in InColumn(area)
  /\ \E y \in Ys :
       Do(<<FocusOn(id)>> \o ResizeMode(TRUE) \o <<[do |-> "take_out", id |-> id, y |-> y], FocusOn(id)>>
            \o ResizeMode(FALSE), floating)

DropIn(f) ==
  /\ f \in floating
  /\ \E y \in Ys :
       Do(ResizeMode(TRUE) \o <<Does("column_arrange"), [do |-> "column_drop", f |-> f, y |-> y], FocusOn(f.id)>>
            \o ResizeMode(FALSE), floating \ {f})

TempVertResize ==
  /\ area.mode = "default"
  /\ \E p \in 1..(Len(area.frame) - 1) :
       \E pt \in (LabelH * p)..(area.height - LabelH * (Len(area.frame) - p)) :
         Begin([Now EXCEPT !.resizing = TRUE],
               <<Does("column_arrange"), [do |-> "drag", p |-> p, from |-> area.frame[p].rbot, to |-> pt],
                 [do |-> "resizing", on |-> FALSE], Does("column_arrange")>>, floating)

(* The bar, a strut or the screen changes the height of the column.        *)
ChangeHeight(h) ==
  h # area.height /\ Begin([Now EXCEPT !.height = h], ViewUpdate, floating)

Next ==
  \/ \E id \in Frames : \/ ViewAttach(id) \/ ViewDetach(id) \/ SendToFloating(id) \/ Focus(id)
                        \/ Grow(id) \/ Nudge(id) \/ MouseResize(id) \/ Drop(id)
                        \/ \E d \in {-1, 1} : SendFrame(id, d)
  \/ \E f \in floating : SendToColumn(f) \/ DropIn(f)
  \/ \E d \in {-1, 1} : SelectFrame(d)
  \/ \E m \in Modes : SetMode(m)
  \/ TempVertResize \/ Finish
  \/ \E h \in Heights : ChangeHeight(h)

Spec == Init /\ [][Next]_vars
-----------------------------------------------------------------------------
(* Properties                                                              *)

(* The frames are put one below the other, from the top of the column to   *)
(* its bottom, with nothing left and nothing over, and none is open with   *)
(* less than its title and as much again.  (column_scale, column_squeeze,  *)
(* column_settle, frame_resize)                                            *)
Tiled == calls = <<>> =>
  /\ \A i \in DOMAIN area.frame :
       LET f == area.frame[i]
       IN  /\ f.rtop = IF i = 1 THEN 0 ELSE area.frame[i - 1].rbot
           /\ ~f.collapsed => DyR(f) >= 2 * LabelH
  /\ area.frame # <<>> => area.frame[Len(area.frame)].rbot = area.height

(* A column with frames has a selected one, and it is open: whatever has   *)
(* been collapsed, removed or pushed out, the user sees what he types to,  *)
(* and column_arrange ends.  (column_remove, area_setsel, column_arrange)  *)
SelOpen == calls = <<>> =>
  /\ "endless" \notin area.failed
  /\ area.frame # <<>> =>
       area.sel \in InColumn(area) /\ ~area.frame[Place(area, area.sel)].collapsed

(* A frame is pushed to the floating layer only when there is no room for  *)
(* it: with it, and all frames but one collapsed, the column would be too  *)
(* high.  (column_fit, which is called again from within by area_moveto)   *)
NotPushedEarly ==
  area.gone # {} => Len(area.frame) * LabelH + UncolH > area.height

(* column_fit follows the frames of the column to the end.  Its comment on *)
(* the link that it keeps says "Doesn't change if we 'continue'".          *)
NeverStrays == "strayed" \notin area.failed
=============================================================================
