-------------------------------- MODULE Area --------------------------------
(***************************************************************************)
(* The areas and frames of one view: area.c, column.c, float.c and the     *)
(* list operations of frame.c in cmd/wmii, and the one loop of view.c      *)
(* (view_update) that area.c and float.c call back into.                   *)
(*                                                                         *)
(* The C code threads one struct View, its Areas and its Frames through    *)
(* calls that are several functions deep, so each function is an operator  *)
(* from a view record to a view record, named after the function.  Module  *)
(* View turns them into the actions of a specification.                    *)
(*                                                                         *)
(* A client has at most one frame in a view, so a frame is named by its    *)
(* client.  An area is named by an element of ColIds, or is Float.  The    *)
(* names in ColIds that are not in v.cols are free memory.                 *)
(*                                                                         *)
(*   cols      v->areas[0], the columns from left to right                 *)
(*   frames    a->frame, each area's frames in list order                  *)
(*   asel      a->sel                                                      *)
(*   sel, oldsel, revert, selcol   the fields of struct View               *)
(*   selected  v == selview                                                *)
(*   focus     the client last handed to client_focus for this view        *)
(*   floating  c->floating          full  the clients with fullscreen >= 0 *)
(*   f         the Frame's own fields: area, screen, column, oldarea, and  *)
(*             colr, which says whether f->colr differs from ZR            *)
(*   alive     the view exists                                             *)
(*   fault     why the program stopped, or "none"                          *)
(*                                                                         *)
(* There is one screen, number 0.  Geometry is abstracted: columns are     *)
(* tall enough for their frames, so column_fit collapses and floats        *)
(* nothing, and all areas are in mode Coldefault, so no frame is collapsed.*)
(* A column is refused only by the minimum width: |ColIds| columns fit.    *)
(* No client has a group or a tag expression.                              *)
(***************************************************************************)
EXTENDS Integers, SequencesExt

CONSTANTS
  Clients,   \* the clients that may be given a frame in the view
  ColIds,    \* names for columns; |ColIds| columns of minimum width fit
  Float,     \* the name of the floating area
  nil,       \* the null pointer
  NoFocus,   \* clients with c->nofocus
  Dialogs,   \* clients that float by type, hints or transience
  Splash     \* clients of type TypeSplash or TypeDock

ASSUME AreaAssumption ==
  /\ ColIds # {}
  /\ Float \notin ColIds /\ nil \notin ColIds /\ Float # nil
  /\ nil \notin Clients
  /\ NoFocus \subseteq Clients /\ Dialogs \subseteq Clients
  /\ Splash \subseteq Clients

Areas == ColIds \cup {Float}
Floating == {"never", "off", "on", "always"}
Faults == {"none", "assert", "nil", "freed"}
NScreens == 1

FrameFields ==
  [area : Areas \cup {nil}, screen : -1 .. NScreens, column : Int,
   oldarea : Int, colr : BOOLEAN]

\* What emallocz and frame_create leave in a frame that is in no area yet.
NewFrame ==
  [area |-> nil, screen |-> -1, column |-> 0, oldarea |-> -1, colr |-> FALSE]

ViewRecord ==
  [cols : Seq(ColIds), frames : [Areas -> Seq(Clients)],
   asel : [Areas -> Clients \cup {nil}],
   sel : Areas \cup {nil}, oldsel : Areas \cup {nil},
   revert : Areas \cup {nil}, selcol : Int, selected : BOOLEAN,
   focus : Clients \cup {nil}, floating : [Clients -> Floating],
   full : SUBSET Clients, f : [Clients -> FrameFields],
   alive : BOOLEAN, fault : Faults]

LiveAreas(v) == ToSet(v.cols) \cup {Float}
InView(v, c) == v.f[c].area # nil
Empty(v) == \A c \in Clients : ~InView(v, c)

-----------------------------------------------------------------------------
(* Lists.                                                                  *)

IndexIn(q, e) == CHOOSE i \in DOMAIN q : q[i] = e

\* The element before e, and the one after it, or nil.
Before(q, e) == LET i == IndexIn(q, e) IN IF i = 1 THEN nil ELSE q[i - 1]
After(q, e) == LET i == IndexIn(q, e) IN IF i = Len(q) THEN nil ELSE q[i + 1]

HeadOf(q) == IF q = <<>> THEN nil ELSE q[1]
LastOf(q) == IF q = <<>> THEN nil ELSE q[Len(q)]

\* frame_remove: unlink f.  frame_insert: link f after pos, or first.
FrameRemove(q, e) == RemoveAt(q, IndexIn(q, e))

FrameInsert(q, pos, e) ==
  IF pos = nil THEN InsertAt(q, 1, e) ELSE InsertAt(q, IndexIn(q, pos) + 1, e)

-----------------------------------------------------------------------------
(* area.c                                                                  *)

\* area_idx: the floating area has the index -1.
AreaIdx(v, a) == IF a = Float THEN -1 ELSE IndexIn(v.cols, a)

\* view_fullscreen_p: some frame of the floating area is fullscreen.
FullscreenP(v) == \E c \in ToSet(v.frames[Float]) : c \in v.full

\* Mutant of area_focus: no column is refused the focus.
AreaFocusAlways(v, a) ==
  [v EXCEPT !.sel = a,
            !.selcol = IF a = Float THEN @ ELSE AreaIdx(v, a),
            !.oldsel = IF a = v.sel THEN @ ELSE nil,
            !.revert = IF v.sel # nil /\ (a = Float) # (v.sel = Float)
                       THEN v.sel ELSE @,
            !.focus = IF v.selected THEN v.asel[a] ELSE @]

\* area_focus.  A column is refused the focus while a client is fullscreen.
AreaFocus(v, a) ==
  IF a # Float /\ FullscreenP(v)
  THEN v
  ELSE [v EXCEPT !.sel = a,
                 !.selcol = IF a = Float THEN @ ELSE AreaIdx(v, a),
                 !.oldsel = IF a = v.sel THEN @ ELSE nil,
                 !.revert = IF v.sel # nil /\ (a = Float) # (v.sel = Float)
                            THEN v.sel ELSE @,
                 !.focus = IF v.selected THEN v.asel[a] ELSE @]

\* Mutant of frame_focus: the client gets the focus only with its area.
FrameFocusCoreNewArea(v, c) ==
  LET a == v.f[c].area
      chosen == [v EXCEPT !.asel[a] = c]
      w == IF a = v.sel THEN chosen ELSE AreaFocus(chosen, a)
  IN  [w EXCEPT !.oldsel = IF v.sel # w.oldsel /\ c # v.asel[v.sel]
                           THEN nil ELSE @]

\* frame_focus, without float_arrange's call of view_update.  From v, w has
\* come about by area_focus, if the frame's area was not yet selected.
ClientFocus(v, w, c) ==
  [w EXCEPT !.oldsel = IF v.sel # w.oldsel /\ c # v.asel[v.sel]
                       THEN nil ELSE @,
            !.focus = IF v.selected /\ w.sel = v.f[c].area THEN c ELSE @]

FrameFocusCore(v, c) ==
  LET a == v.f[c].area
      chosen == [v EXCEPT !.asel[a] = c]
  IN  ClientFocus(v, IF a = v.sel THEN chosen ELSE AreaFocus(chosen, a), c)

\* area_setsel, likewise.
AreaSetselCore(v, a, c) ==
  IF a = v.sel /\ c # nil
  THEN FrameFocusCore(v, c)
  ELSE [v EXCEPT !.asel[a] = c]

\* area_create for a column: nil when the columns would be too narrow.
FreeCols(v) == ColIds \ ToSet(v.cols)
NewCol(v) == IF FreeCols(v) = {} THEN nil ELSE CHOOSE a \in FreeCols(v) : TRUE

AreaCreate(v, pos) ==
  IF FreeCols(v) = {} THEN v
  ELSE [v EXCEPT !.cols = FrameInsert(@, pos, NewCol(v)),
                 !.frames[NewCol(v)] = <<>>,
                 !.asel[NewCol(v)] = nil]

\* Mutants of area_destroy: v->oldsel is not cleared; the leftmost column has
\* no successor; the focus moves from any area.
AreaDestroyKeepsOldsel(v, a) ==
  LET i == IndexIn(v.cols, a)
      newfocus == IF i > 1 THEN v.cols[i - 1] ELSE After(v.cols, a)
      w == [v EXCEPT !.cols = RemoveAt(@, i),
                     !.revert = IF @ = a THEN nil ELSE @]
  IN  IF newfocus # nil /\ v.sel = a THEN AreaFocus(w, newfocus) ELSE w

AreaDestroyFromLeft(v, a) ==
  LET newfocus == Before(v.cols, a)
      w == [v EXCEPT !.cols = RemoveAt(@, IndexIn(v.cols, a)),
                     !.revert = IF @ = a THEN nil ELSE @,
                     !.oldsel = IF @ = a THEN nil ELSE @]
  IN  IF newfocus # nil /\ v.sel = a THEN AreaFocus(w, newfocus) ELSE w

\* area_destroy for a column; v.cols still holds a when it is called.
AreaDestroy(v, a) ==
  LET i == IndexIn(v.cols, a)
      newfocus == IF i > 1 THEN v.cols[i - 1] ELSE After(v.cols, a)
      w == [v EXCEPT !.cols = RemoveAt(@, i),
                     !.revert = IF @ = a THEN nil ELSE @,
                     !.oldsel = IF @ = a THEN nil ELSE @]
  IN  IF newfocus # nil /\ v.sel = a THEN AreaFocus(w, newfocus) ELSE w

-----------------------------------------------------------------------------
(* column.c                                                                *)

\* columns_update: foreach_frame visits the floating area with s = nscreens.
ColumnsUpdate(v) ==
  [v EXCEPT !.f = [c \in Clients |->
     IF ~InView(v, c) THEN @[c]
     ELSE [@[c] EXCEPT
             !.screen = IF v.f[c].area = Float THEN NScreens ELSE 0,
             !.column = AreaIdx(v, v.f[c].area)]]]

ColumnDestroy(v, a) == ColumnsUpdate(AreaDestroy(v, a))

\* column_insert
ColumnInsert(v, a, c, pos) ==
  LET w == [v EXCEPT !.f[c] = [@ EXCEPT !.area = a,
                                        !.screen = 0,
                                        !.column = AreaIdx(v, a),
                                        !.colr = TRUE],
                     !.floating[c] = IF @ = "on" THEN "off" ELSE @,
                     !.frames[a] = FrameInsert(@, pos, c)]
  IN  IF v.asel[a] = nil THEN AreaSetselCore(w, a, c) ELSE w

\* column_attach inserts after the selected frame, column_attachrect last.
ColumnAttach(v, a, c) == ColumnInsert(v, a, c, v.asel[a])
ColumnAttachRect(v, a, c) == ColumnInsert(v, a, c, LastOf(v.frames[a]))

\* column_remove: the frame before it is selected in its place.
ColumnRemove(v, c) ==
  LET a == v.f[c].area
      rest == FrameRemove(v.frames[a], c)
      pr == Before(v.frames[a], c)
      w == [v EXCEPT !.frames[a] = rest, !.f[c].area = nil]
  IN  IF v.asel[a] = c
      THEN AreaSetselCore([w EXCEPT !.asel[a] = nil], a,
                          IF pr = nil THEN HeadOf(rest) ELSE pr)
      ELSE w

\* column_detach: an empty column goes, unless it is the only one.
DestroyEmpty(w, a) ==
  IF w.frames[a] = <<>> /\ Len(w.cols) > 1 THEN ColumnDestroy(w, a) ELSE w

ColumnDetach(v, c) == DestroyEmpty(ColumnRemove(v, c), v.f[c].area)

\* The end of area_detach: v->sel->sel is read, and an empty selected area
\* yields to the floating one.
AfterDetach(v) ==
  IF v.sel \notin LiveAreas(v)
  THEN [v EXCEPT !.fault = "freed"]
  ELSE IF /\ v.asel[v.sel] = nil
          /\ v.asel[Float] \notin NoFocus \cup {nil}
       THEN [v EXCEPT !.sel = Float]
       ELSE v

-----------------------------------------------------------------------------
(* float.c, and view_update                                                *)

\* float_attach, without float_arrange's call of view_update.
FloatAttachCore(v, c) ==
  LET w == [v EXCEPT !.f[c].area = Float,
                     !.floating[c] = IF @ = "off" THEN "on" ELSE @,
                     !.frames[Float] = FrameInsert(@, v.asel[Float], c)]
  IN  IF v.asel[Float] = nil THEN AreaSetselCore(w, Float, c) ELSE w

\* The fullscreen frames view_update has yet to move, in foreach_frame order.
Pending(v) == {c \in v.full : v.f[c].area \in ColIds}

FirstPending(v) ==
  CHOOSE c \in Pending(v) : \A d \in Pending(v) :
    LET i == AreaIdx(v, v.f[c].area)
        j == AreaIdx(v, v.f[d].area)
    IN  \/ i < j
        \/ i = j /\ IndexIn(v.frames[v.f[c].area], c)
                      <= IndexIn(v.frames[v.f[d].area], d)

\* One round of view_update's loop: a fullscreen frame leaves its column.
MovePending(v) ==
  IF Pending(v) = {} THEN v
  ELSE LET c == FirstPending(v)
           marked == [v EXCEPT !.f[c].oldarea = AreaIdx(v, v.f[c].area)]
           moved == FloatAttachCore(AfterDetach(ColumnDetach(marked, c)), c)
       IN  AreaSetselCore(moved, Float, c)

\* view_update's loop also marks the fullscreen frames that already float.
MarkFullscreen(v) ==
  [v EXCEPT !.f = [c \in Clients |->
     IF c \in v.full /\ v.f[c].area = Float /\ v.f[c].oldarea = -1
     THEN [@[c] EXCEPT !.oldarea = 0] ELSE @[c]]]

\* view_update.  It does nothing to a view that is not on screen.  At most
\* two clients are fullscreen at once (MaxFull in module View).
RefreshFocus(w) ==
  IF w.fault # "none" THEN w
  ELSE AreaFocus(w, IF FullscreenP(w) THEN Float ELSE w.sel)

ViewUpdate(v) ==
  IF ~v.selected THEN v
  ELSE RefreshFocus(MarkFullscreen(MovePending(MovePending(v))))

\* frame_focus and area_setsel.  A selected view's floating area is arranged,
\* which updates the view; then the frame's client is given the focus.
FrameFocus(v, c) ==
  LET w == FrameFocusCore(v, c)
  IN  IF v.selected /\ v.f[c].area = Float /\ w.sel = Float
      THEN [ViewUpdate(w) EXCEPT !.focus = c]
      ELSE w

AreaSetsel(v, a, c) ==
  IF a = v.sel /\ c # nil THEN FrameFocus(v, c) ELSE [v EXCEPT !.asel[a] = c]

\* float_attach
FloatAttach(v, c) ==
  LET w == [v EXCEPT !.f[c].area = Float,
                     !.floating[c] = IF @ = "off" THEN "on" ELSE @,
                     !.frames[Float] = FrameInsert(@, v.asel[Float], c)]
  IN  IF v.asel[Float] = nil THEN AreaSetsel(w, Float, c) ELSE w

\* The frame float_detach selects next: the nearest one before that takes
\* focus, or else the first that does, or else the last.
FocusableBefore(q, c) ==
  LET I == {i \in 1 .. (IndexIn(q, c) - 1) : q[i] \notin NoFocus}
  IN  IF I = {} THEN nil
      ELSE q[CHOOSE i \in I : \A j \in I : j <= i]

FirstFocusable(q) ==
  LET I == {i \in DOMAIN q : q[i] \notin NoFocus}
  IN  IF I = {} THEN LastOf(q)
      ELSE q[CHOOSE i \in I : \A j \in I : i <= j]

\* view_findarea without create: nil when there are fewer columns.
FindArea(v, idx) ==
  IF idx > Len(v.cols) THEN nil ELSE v.cols[IF idx < 1 THEN 1 ELSE idx]

\* float_detach.  At its end the selection goes back to a column: sel is the
\* one that was selected last, and pr the frame that is selected here instead.
FloatYield(v, w, sel, pr) ==
  IF v.oldsel # nil THEN AreaFocus(w, v.oldsel)
  ELSE IF /\ w.frames[Float] = <<>> \/ pr \in NoFocus
          /\ sel # nil
          /\ w.frames[sel] # <<>>
       THEN AreaFocus(w, sel)
       ELSE w

FloatDetach(v, c) ==
  LET rest == FrameRemove(v.frames[Float], c)
      back == FocusableBefore(v.frames[Float], c)
      next == IF back # nil THEN back ELSE FirstFocusable(rest)
      pr == IF v.asel[Float] = c THEN next ELSE Before(v.frames[Float], c)
      out == [v EXCEPT !.frames[Float] = rest, !.f[c].area = nil]
      w == IF v.asel[Float] = c
           THEN AreaSetsel([out EXCEPT !.asel[Float] = nil], Float, next)
           ELSE out
  IN  FloatYield(v, w, FindArea(v, v.selcol), pr)

-----------------------------------------------------------------------------
(* area.c again: attaching, detaching and moving a frame.                  *)

AreaAttach(v, a, c) ==
  IF a = Float THEN FloatAttach(v, c) ELSE ColumnAttach(v, a, c)

AreaDetach(v, c) ==
  AfterDetach(IF v.f[c].area = Float THEN FloatDetach(v, c)
              ELSE ColumnDetach(v, c))

\* area_moveto.  A fullscreen client stays in the floating area; one that has
\* been in a column goes back by its rectangle.
Reattach(w, to, c, byrect) ==
  IF w.fault # "none" THEN w
  ELSE IF byrect THEN ColumnAttachRect(w, to, c)
  ELSE AreaAttach(w, to, c)

\* from->floating is read after c has left from.  If c was the last frame of
\* a column that is not the only one, that column has been freed by then, and
\* what is read is any value at all: junk.
FromFloats(w, from, junk) ==
  IF from \in LiveAreas(w) THEN from = Float ELSE junk

AreaMoveto(v, to, c, junk) ==
  LET from == v.f[c].area
      w == AreaDetach(v, c)
  IN  IF from = to \/ (c \in v.full /\ to # Float) THEN v
      ELSE Reattach(w, to, c,
                    to # Float /\ FromFloats(w, from, junk) /\ v.f[c].colr)

-----------------------------------------------------------------------------
(* What makes a view sound; module View states its properties with these.  *)

ListsOK(v) ==
  \A a \in Areas :
    /\ IsInjective(v.frames[a])
    /\ ToSet(v.frames[a]) = {c \in Clients : v.f[c].area = a}
    /\ v.frames[a] # <<>> => a \in LiveAreas(v)

AselOK(v) ==
  \A a \in Areas :
    IF v.frames[a] = <<>> THEN v.asel[a] = nil
    ELSE v.asel[a] \in ToSet(v.frames[a])

AreasOK(v) ==
  /\ v.cols # <<>>
  /\ IsInjective(v.cols)
  /\ v.sel \in LiveAreas(v)
  /\ {v.oldsel, v.revert} \subseteq LiveAreas(v) \cup {nil}

FullOK(v) ==
  /\ Pending(v) = {}
  /\ FullscreenP(v) => v.sel = Float

=============================================================================
