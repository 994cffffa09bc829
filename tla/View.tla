-------------------------------- MODULE View --------------------------------
(***************************************************************************)
(* One view of wmii: which of its areas is selected, where its clients'    *)
(* frames are and which client gets the focus, under every event and       *)
(* control message that reaches the view.  The actions are the handlers of *)
(* view.c, message.c and client.c; what they call in area.c, column.c and  *)
(* float.c is in module Area.                                              *)
(*                                                                         *)
(* The other views are abstracted to two choices: they are selected and    *)
(* left (SelectView, LeaveView, LeaveViewByFocus), and a client that comes *)
(* to this view may have its selected frame in a column elsewhere.         *)
(***************************************************************************)
EXTENDS Area

CONSTANTS
  HiddenFullscreen,  \* may a view that is not on screen hold a fullscreen
                     \* client outside its selected floating area?
  MaxFull,           \* bound: clients fullscreen at the same time, at most 2
  FloatingValues     \* the values a client's ctl file may give to floating

ASSUME ViewAssumption ==
  /\ HiddenFullscreen \in BOOLEAN
  /\ MaxFull \in 0 .. 2
  /\ FloatingValues \subseteq Floating

VARIABLE view

FirstCol == CHOOSE a \in ColIds : TRUE

\* view_create: a floating area and one column, which is selected.
Created(v) ==
  [v EXCEPT !.cols = <<FirstCol>>, !.sel = FirstCol, !.selcol = 1,
            !.alive = TRUE]

\* view_destroy, and the state before view_create: nothing is left.
Destroyed(v) ==
  [v EXCEPT !.cols = <<>>, !.frames = [a \in Areas |-> <<>>],
            !.asel = [a \in Areas |-> nil],
            !.sel = nil, !.oldsel = nil, !.revert = nil, !.selcol = 0,
            !.selected = FALSE, !.focus = nil, !.alive = FALSE]

Init ==
  view = [cols |-> <<>>, frames |-> [a \in Areas |-> <<>>],
          asel |-> [a \in Areas |-> nil],
          sel |-> nil, oldsel |-> nil, revert |-> nil, selcol |-> 0,
          selected |-> FALSE, focus |-> nil,
          floating |-> [c \in Clients |-> "off"], full |-> {},
          f |-> [c \in Clients |-> NewFrame],
          alive |-> FALSE, fault |-> "none"]

\* view_selclient
SelClient(v) == IF v.sel = nil THEN nil ELSE v.asel[v.sel]

\* client_floats_p
FloatsP(v, c) ==
  /\ v.floating[c] # "never"
  /\ c \in Dialogs \cup Splash \cup v.full \/ v.floating[c] # "off"

\* view_attach's choice of area: nil is the null pointer of view_findarea.
AttachArea(v, c, tiled) ==
  LET a == IF v.floating[c] = "never" THEN FindArea(v, v.selcol)
           ELSE IF FloatsP(v, c) THEN Float
           ELSE IF v.sel = Float /\ tiled THEN FindArea(v, 0)
           ELSE IF v.sel = Float /\ v.oldsel # nil THEN v.oldsel
           ELSE v.sel
  IN  IF a \in ColIds /\ v.floating[c] # "never" /\ FullscreenP(v)
      THEN Float ELSE a

\* view_attach.  A never-floating client goes to the column numbered selcol;
\* the result is dereferenced whether or not there is such a column.
FocusNew(w, c) == IF c \in Splash THEN w ELSE FrameFocus(w, c)

NoteOldsel(w, a) == IF a = nil THEN w ELSE [w EXCEPT !.oldsel = a]

ViewAttach(v, c, tiled) ==
  LET a == AttachArea(v, c, tiled)
      oldsel == IF FloatsP(v, c) /\ v.sel # Float /\ c \notin v.full
                THEN v.sel ELSE v.oldsel
  IN  IF a = nil THEN [v EXCEPT !.fault = "nil"]
      ELSE ViewUpdate(NoteOldsel(FocusNew(AreaAttach(v, a, c), c), oldsel))

\* view_detach, and the free of the frame in client_setviews.
DestroyUnused(u) == IF ~u.selected /\ Empty(u) THEN Destroyed(u) ELSE u

ViewDetach(v, c) ==
  DestroyUnused([ViewUpdate(AreaDetach(v, c)) EXCEPT !.f[c] = NewFrame])

\* view_update_all, as far as this view is concerned.
ViewUpdateAll(v) ==
  IF v.selected THEN ViewUpdate(v)
  ELSE IF Empty(v) THEN Destroyed(v) ELSE v

\* view_findarea with create: at most one column is added, at the right.
FindAreaCreate(v, idx) ==
  IF idx > Len(v.cols) THEN AreaCreate(v, LastOf(v.cols)) ELSE v

\* What it returns: the column numbered idx, or the one it has just added,
\* whatever number that has; nil when there was no room for it.
FoundArea(v, idx) ==
  IF idx > Len(v.cols) THEN NewCol(v) ELSE FindArea(v, idx)

\* frame_swap: two clients exchange frames, and nothing of the clients'
\* own moves with them.
Other(e, c, d) == IF e = c THEN d ELSE IF e = d THEN c ELSE e

Swapped(v, c, d) ==
  [v EXCEPT !.frames = [a \in Areas |->
                          [i \in DOMAIN @[a] |-> Other(@[a][i], c, d)]],
            !.asel = [a \in Areas |-> Other(@[a], c, d)],
            !.f = [e \in Clients |-> @[Other(e, c, d)]]]

FrameSwap(v, c, d) == ViewUpdate(Swapped(v, c, d))

\* sendarea
Settle(w, c) ==
  IF w.fault # "none" THEN w ELSE ViewUpdateAll(FrameFocus(w, c))

SendArea(v, c, to, swap, junk) ==
  Settle(IF ~swap THEN AreaMoveto(v, to, c, junk)
         ELSE IF v.asel[to] = c THEN v ELSE FrameSwap(v, c, v.asel[to]), c)

-----------------------------------------------------------------------------
(* Actions.  A message that is refused with Ebadvalue changes nothing.     *)

Running == view.fault = "none"
Live == Running /\ view.alive

\* Does c, shown fullscreen, stay in a selected floating area if this step
\* touches it?  Only a view on screen repairs the rest in view_update.
MayDisturb(c) == HiddenFullscreen \/ view.selected \/ c \notin view.full

\* client_setviews gives c a frame in the view, creating it if need be.
\* tiled: c->sel is another view's frame, with screen 0.  In a view that is
\* on screen c->sel is the new frame itself.
Attach(c, tiled) ==
  /\ Running
  /\ ~InView(view, c)
  /\ tiled => ~view.selected
  /\ \/ MayDisturb(c)
     \/ view.floating[c] # "never" /\ c \notin Splash
  /\ view' = ViewAttach(IF view.alive THEN view ELSE Created(view), c, tiled)

\* client_setviews takes c's frame away: c is untagged, or its window is gone.
Detach(c) ==
  /\ Live
  /\ InView(view, c)
  /\ view' = ViewDetach(view, c)

\* view_select of this view, or view_focus of it.
SelectView ==
  /\ Running
  /\ ~view.selected
  /\ view' = LET v == IF view.alive THEN view ELSE Created(view)
             IN  ViewUpdate([v EXCEPT !.selected = TRUE])

\* view_select of another view ends in view_update_all, which destroys this
\* one if it is empty; view_focus of another view does not.
LeaveView ==
  /\ Live
  /\ view.selected
  /\ view' = ViewUpdateAll([view EXCEPT !.selected = FALSE, !.focus = nil])

LeaveViewByFocus ==
  /\ Live
  /\ view.selected
  /\ view' = [view EXCEPT !.selected = FALSE, !.focus = nil]

\* view_update_all, called for a change in another view.
UpdateAll ==
  /\ Live
  /\ ~view.selected
  /\ Empty(view)
  /\ view' = ViewUpdateAll(view)

\* msg_selectarea: select toggle, select ~, select <column>.
SelectToggle ==
  /\ Live
  /\ view' = AreaFocus(view,
       IF view.sel # Float THEN Float
       ELSE IF view.revert \notin {nil, view.sel} THEN view.revert
       ELSE view.cols[1])

SelectArea(a) ==
  /\ Live
  /\ a \in LiveAreas(view)
  /\ view' = AreaFocus(view, a)

\* select <column> <frame>
SelectFrame(c) ==
  /\ Live
  /\ view.f[c].area \in ColIds
  /\ view' = FrameFocus(view, c)

\* select client <window>, and select up and down: the area stays selected
\* and c's frame is focused.
SelectClient(c) ==
  /\ Live
  /\ InView(view, c)
  /\ view' = FrameFocus(AreaFocus(view, view.sel), c)

\* select left and right: the next column on that side, with wrap-around.
\* From the floating area any column may be the nearest.
Beside(a) ==
  IF a = Float THEN ToSet(view.cols)
  ELSE LET i == AreaIdx(view, a)
           n == Len(view.cols)
       IN  {view.cols[IF i = 1 THEN n ELSE i - 1],
            view.cols[IF i = n THEN 1 ELSE i + 1]}

SelectBeside(a) ==
  /\ Live
  /\ a \in Beside(view.sel)
  /\ LET v == AreaFocus(view, a)
     IN  view' = IF v.asel[a] = nil THEN v ELSE FrameFocus(v, v.asel[a])

\* client.c focus(): the pointer, a click or the client itself wants c
\* focused in the view that is on screen.
FocusClient(c) ==
  /\ Live
  /\ view.selected
  /\ InView(view, c)
  /\ view' = FrameFocus(view, c)

\* send and swap <client> <area>, with any way to name the area: its number,
\* sel, ~, left or right.  junk is what area_moveto may read in a freed area.
Send(c, to, swap, junk) ==
  /\ Live
  /\ InView(view, c)
  /\ to \in LiveAreas(view)
  /\ swap => /\ ~junk /\ view.asel[to] # nil
             /\ MayDisturb(c) /\ MayDisturb(view.asel[to])
  /\ view' = SendArea(view, c, to, swap, junk)

\* send left and right out of an end column make a new column.  The column
\* that c leaves keeps a frame, so it is not freed.
SendNewColumn(c, pos) ==
  LET a == view.f[c].area
  IN  /\ Live
      /\ a \in ColIds
      /\ \/ pos = nil /\ a = HeadOf(view.cols)
         \/ pos = a /\ a = LastOf(view.cols)
      /\ Len(view.frames[a]) > 1
      /\ FreeCols(view) # {}
      /\ view' = SendArea(AreaCreate(view, pos), c, NewCol(view), FALSE, FALSE)

\* send and swap toggle of a floating client: back to the column it came
\* from, which is made if there are fewer.  When there is no room for it,
\* swap is refused; for send, column_new is called in its place, and asserts
\* that it is not given the floating area, unless c is an only frame, which is
\* refused.  A swap with a column that has no frame is refused too, but only
\* when the column has been made.
SendToggle(c, swap) ==
  LET fr == view.f[c]
      idx == IF fr.column # 0 THEN fr.column ELSE view.selcol
      v == FindAreaCreate(view, idx)
      to == FoundArea(view, idx)
      noscreen == fr.column # 0 /\ fr.screen \notin 0 .. (NScreens - 1)
  IN  /\ Live
      /\ fr.area = Float
      /\ noscreen \/ to # nil \/ (~swap /\ Len(view.frames[Float]) > 1)
      /\ swap /\ to # nil => MayDisturb(c) /\ MayDisturb(v.asel[to])
      /\ view' = IF noscreen \/ to = nil
                 THEN [view EXCEPT !.fault = "assert"]
                 ELSE IF swap /\ v.asel[to] = nil THEN v
                 ELSE SendArea(v, c, to, swap, FALSE)

\* send up and down: c passes the frame before or after it.
SendBy(c, pos) ==
  LET a == view.f[c].area
      q == view.frames[a]
      v == [view EXCEPT !.frames[a] = FrameInsert(FrameRemove(q, c), pos, c)]
  IN  /\ Live
      /\ InView(view, c)
      /\ \/ Before(q, c) # nil /\ pos = Before(q, Before(q, c))
         \/ After(q, c) # nil /\ pos = After(q, c)
      /\ view' = ViewUpdateAll(FrameFocus(v, c))

\* swap up and down: c changes places with its neighbour.
SwapBy(c, d) ==
  /\ Live
  /\ InView(view, c)
  /\ d \in {Before(view.frames[view.f[c].area], c),
            After(view.frames[view.f[c].area], c)} \ {nil}
  /\ view' = ViewUpdateAll(FrameFocus(FrameSwap(view, c, d), c))

\* fullscreen, on.
FullscreenOn(c) ==
  /\ Running
  /\ c \notin view.full
  /\ Cardinality(view.full) < MaxFull
  /\ HiddenFullscreen \/ view.selected \/ ~InView(view, c)
  /\ view' = LET v == [view EXCEPT !.full = @ \cup {c}, !.f[c].oldarea = -1]
             IN  IF InView(view, c) THEN ViewUpdate(v) ELSE v

\* Mutant of fullscreen: the mode is cleared only after the move.
FullscreenOffLate(c, junk) ==
  LET old == view.f[c].oldarea
      w == FindAreaCreate(view, old)
      to == FoundArea(view, old)
  IN  /\ Running
      /\ c \in view.full
      /\ view' = LET v == IF ~InView(view, c) \/ old <= 0 THEN view
                          ELSE IF to = nil THEN [view EXCEPT !.fault = "nil"]
                          ELSE AreaMoveto(w, to, c, junk)
                 IN  [v EXCEPT !.full = @ \ {c}]

\* fullscreen, off: a frame that view_update took out of a column goes back,
\* and is focused if it was the selected one of its area.
Refocus(moved, c, wassel) ==
  IF wassel /\ moved.fault = "none" THEN FrameFocus(moved, c) ELSE moved

FullscreenOff(c, junk) ==
  LET v == [view EXCEPT !.full = @ \ {c}]
      old == view.f[c].oldarea
      to == FoundArea(v, old)
  IN  /\ Running
      /\ c \in view.full
      /\ view' = IF ~InView(view, c) \/ old <= 0 THEN v
                 ELSE IF to = nil THEN [v EXCEPT !.fault = "nil"]
                 ELSE Refocus(AreaMoveto(FindAreaCreate(v, old), to, c, junk), c,
                              view.asel[view.f[c].area] = c)

\* The floating message of a client's ctl file.
SetFloating(c, val) ==
  /\ Running
  /\ view' = [view EXCEPT !.floating[c] = val]

Next ==
  \/ SelectView \/ LeaveView \/ LeaveViewByFocus \/ UpdateAll \/ SelectToggle
  \/ \E a \in Areas : SelectArea(a) \/ SelectBeside(a)
  \/ \E c \in Clients :
       \/ \E tiled \in BOOLEAN : Attach(c, tiled)
       \/ Detach(c)
       \/ SelectFrame(c) \/ SelectClient(c) \/ FocusClient(c)
       \/ \E to \in Areas, swap, junk \in BOOLEAN : Send(c, to, swap, junk)
       \/ \E pos \in Areas \cup {nil} : SendNewColumn(c, pos)
       \/ \E pos \in Clients \cup {nil} : SendBy(c, pos)
       \/ \E d \in Clients : SwapBy(c, d)
       \/ \E swap \in BOOLEAN : SendToggle(c, swap)
       \/ FullscreenOn(c)
       \/ \E junk \in BOOLEAN : FullscreenOff(c, junk)
       \/ \E val \in FloatingValues : SetFloating(c, val)

Spec == Init /\ [][Next]_view

-----------------------------------------------------------------------------
(* Properties.                                                             *)

TypeOK == view \in ViewRecord

\* A frame is in the list of exactly the area its area field names, once,
\* and only areas that have not been freed hold frames (frame_insert,
\* frame_remove, area_destroy's "destroying non-empty area").
FrameLists == Running => ListsOK(view)

\* An area with frames has a selected frame, one of its own (the assertion
\* at the end of area_attach); an area without has none.
AreaSel == Running => AselOK(view)

\* The view's pointers to areas never name freed memory, and a live view has
\* a column and a selected area (area_destroy clears or moves the pointers).
ViewSelLive == Live => AreasOK(view)

\* The same claim for area_detach in the middle of a handler: it never reads
\* v->sel->sel in an area that it has just freed.
DetachReadsLive == view.fault # "freed"

\* A fullscreen client of the view floats, and the floating area is selected
\* while it is there (view_update, area_focus).
FullscreenShown == Live => FullOK(view)

\* The client that was last given the focus is the selected client of the
\* view on screen (client_focus).  No step of a handler breaks this, whatever
\* moves, leaves or comes, but the end of fullscreen mode, which stops short
\* of view_update.
FocusFollowsSel ==
  Running /\ view.selected => view.focus = SelClient(view)

FocusKept ==
  [][FocusFollowsSel /\ view.full \subseteq view'.full => FocusFollowsSel']_view

\* A client that view_update took out of a column when it became fullscreen
\* is in a column again when it no longer is, whatever has happened to the
\* columns meanwhile (fullscreen).
RestoresColumn ==
  [][\A c \in view.full \ view'.full :
       Running' /\ InView(view, c) /\ view.f[c].oldarea > 0
         => view'.f[c].area \in ColIds]_view

\* What the documents say, and the code does not keep to: see the README.

\* No assertion fails on the way of a message (view_findarea).
NeverAsserts == view.fault # "assert"

\* Nor does area_moveto read from->floating in an area that area_detach has
\* freed, when a client is sent from one column to another.
MovetoReadsLive ==
  Live => \A c \in Clients \ view.full, to \in ToSet(view.cols) :
    InView(view, c) /\ view.f[c].area # to
      => view.f[c].area \in LiveAreas(AreaDetach(view, c))

\* A client that is never to float has a column to go to (view_attach).
NeverNil == view.fault # "nil"

-----------------------------------------------------------------------------
(* The inductive invariant.                                                *)

\* A view that does not exist has nothing in it and is not on screen.
Dead(v) ==
  /\ v.cols = <<>>
  /\ \A a \in Areas : v.frames[a] = <<>> /\ v.asel[a] = nil
  /\ {v.sel, v.oldsel, v.revert, v.focus} = {nil}
  /\ ~v.selected

Consistent(v) ==
  /\ v \in ViewRecord
  /\ v.fault # "freed"
  /\ v.fault = "none" =>
       /\ ListsOK(v)
       /\ AselOK(v)
       /\ IF v.alive THEN AreasOK(v) /\ FullOK(v) ELSE Dead(v)

IInv == Consistent(view)

=============================================================================
