------------------------------ MODULE Windows ------------------------------
(***************************************************************************)
(* Client windows between three parties: the programs that own them, the   *)
(* X server, and wmii.  client.c, root.c and event.c of wmii and the event *)
(* and window functions of libstuff, with the queue of events between the  *)
(* server and wmii.                                                        *)
(*                                                                         *)
(* A handler is a chain of requests that runs to its end, so it is an      *)
(* operator on the record sys.  What the server does with a request shows  *)
(* at once in the server's part of sys; what it tells wmii of it is an     *)
(* event at the end of the queue, which wmii reads when it comes to it.    *)
(*                                                                         *)
(* The server's part:                                                      *)
(*   exists, up   does the window exist, is it mapped                      *)
(*   frame        is its frame window mapped                               *)
(*   focus        the focus window; with onFrame the frame of that client, *)
(*                to which the server reverted when the client's went      *)
(*   asked        clients sent WM_TAKE_FOCUS whose answer would be taken:  *)
(*                the focus has not been set since the time stamped on it  *)
(*   queue        events not yet read                                      *)
(* wmii's part:                                                            *)
(*   client       the list of clients                                      *)
(*   mapped, fmapped   c->w.mapped and c->framewin->mapped                 *)
(*   view, sel, selview   the view of each client, the selected client of  *)
(*                each view, the selected view                             *)
(*   dfocus       disp.focus; "magic" for &c_magic, "freed" when it points *)
(*                to a client that is gone                                 *)
(*   gclient      group->client of the one group                           *)
(*                                                                         *)
(* A client is in one view and is never collapsed or fullscreen; modules   *)
(* Tags, View and Area are about the rest.  c->w.unmapped is left out:     *)
(* c->w.parent is never set, so unmap_event takes back the decrement of    *)
(* event_unmapnotify each time and the count is never below zero.          *)
(***************************************************************************)
EXTENDS Naturals, SequencesExt

CONSTANTS
  Windows,
  Views,
  First,        \* the view selected at start-up
  NoInput,      \* clients that do not want the focus set
  TakeFocus,    \* those of them that speak WM_TAKE_FOCUS
  Grouped,      \* clients whose hints name the one group
  Patient,      \* does the user wait for one change of view before the next?
  Reuse,        \* may a new client get the memory of a freed one?
  MaxMaps,      \* how often a program maps its window
  MaxQueue      \* no event from outside joins a queue of this length

ASSUME WindowsAssumption ==
  /\ First \in Views
  /\ TakeFocus \subseteq NoInput /\ NoInput \subseteq Windows
  /\ Grouped \subseteq Windows
  /\ {Patient, Reuse} \subseteq BOOLEAN
  /\ {MaxMaps, MaxQueue} \subseteq Nat
  /\ Windows \cap {"bar", "root", "none", "nil", "magic", "freed"} = {}

VARIABLES
  sys,
  app,          \* what each program has told the server it wants
  maps,         \* how often it has asked to be mapped
  calm          \* has the queue been empty since the last change of view?

vars == <<sys, app, maps, calm>>

Event(t, w) == [type |-> t, win |-> w]
Push(s, t, w) == [s EXCEPT !.queue = Append(@, Event(t, w))]
Managed(s) == ToSet(s.client)

\* The sequence q without the elements of T.
Without(q, T) ==
  LET kept[i \in 0 .. Len(q)] ==
        IF i = 0 THEN <<>> ELSE IF q[i] \in T THEN kept[i - 1] ELSE Append(kept[i - 1], q[i])
  IN  kept[Len(q)]
Viewable(s, w) == s.up[w] /\ (w \in Managed(s) => s.frame[w])

-----------------------------------------------------------------------------
(* The X server. *)

FocusTo(s, t) ==
  LET out == IF s.focus \in Windows /\ ~s.onFrame
             THEN <<Event("FocusOut", s.focus)>> ELSE <<>>
      in == IF t = "root" THEN <<>> ELSE <<Event("FocusIn", t)>>
  IN  [s EXCEPT !.focus = t, !.onFrame = FALSE, !.queue = @ \o out \o in]

(* RevertToParent: from a window that can no longer be seen the focus goes *)
(* to the closest ancestor that can, and from there to nothing at all.     *)
Revert(s) ==
  LET w == s.focus
  IN  IF w \notin Windows \/ (IF s.onFrame THEN s.frame[w] ELSE Viewable(s, w))
      THEN s
      ELSE IF s.onFrame THEN FocusTo(s, "none")
      ELSE IF s.frame[w] THEN [Push(s, "FocusOut", w) EXCEPT !.onFrame = TRUE]
      ELSE FocusTo(s, "root")

(* XSetInputFocus fails for a window that cannot be seen.                  *)
SetFocus(s, t) ==
  IF t \in Windows /\ ~Viewable(s, t) THEN s
  ELSE [(IF s.focus = t /\ ~s.onFrame THEN s ELSE FocusTo(s, t))
          EXCEPT !.asked = {}]

(* The mapped flags of libstuff decide whether a request is made at all.   *)
MapWin(s, w) ==
  IF s.mapped[w] THEN s
  ELSE LET m == [s EXCEPT !.mapped[w] = TRUE]
       IN  IF s.up[w] \/ ~s.exists[w] THEN m
           ELSE Push([m EXCEPT !.up[w] = TRUE], "Map", w)

UnmapWin(s, w) ==
  IF ~s.mapped[w] THEN s
  ELSE LET m == [s EXCEPT !.mapped[w] = FALSE]
       IN  IF ~s.up[w] THEN m
           ELSE Revert(Push([m EXCEPT !.up[w] = FALSE], "Unmap", w))

MapFrame(s, w) ==
  IF s.fmapped[w] THEN s
  ELSE [s EXCEPT !.fmapped[w] = TRUE, !.frame[w] = TRUE]

UnmapFrame(s, w) ==
  IF ~s.fmapped[w] THEN s
  ELSE LET m == [s EXCEPT !.fmapped[w] = FALSE]
       IN  IF ~s.frame[w] THEN m
           ELSE Revert(Push([m EXCEPT !.frame[w] = FALSE], "UnmapFrame", w))

-----------------------------------------------------------------------------
(* wmii: the focus. *)

FocusInClients(s, t) ==   \* a mutant: the bar is a window like any other
  IF t = "none" THEN SetFocus([s EXCEPT !.dfocus = "magic"], "bar")
  ELSE IF t \in Managed(s) THEN [s EXCEPT !.dfocus = t] ELSE s

FocusIn(s, t) ==
  IF t = "none" THEN SetFocus([s EXCEPT !.dfocus = "magic"], "bar")
  ELSE IF t = "bar" THEN [s EXCEPT !.dfocus = "nil"]
  ELSE IF t \in Managed(s) THEN [s EXCEPT !.dfocus = t] ELSE s

FocusOut(s, w) ==
  IF w \in Managed(s) /\ s.dfocus = w THEN [s EXCEPT !.dfocus = "magic"] ELSE s

IsFocus(e) == e.type \in {"FocusIn", "FocusOut"}
FocusEvent(s, e) ==
  IF e.type = "FocusIn" THEN FocusIn(s, e.win) ELSE FocusOut(s, e.win)

(* event_flush(FocusChangeMask, true), out of the order of the queue.      *)
FlushFocus(s) ==
  LET read[i \in 0 .. Len(s.queue)] ==
        IF i = 0 THEN [s EXCEPT !.queue = Without(@, {e \in ToSet(@) : IsFocus(e)})]
        ELSE IF IsFocus(s.queue[i]) THEN FocusEvent(read[i - 1], s.queue[i])
        ELSE read[i - 1]
  IN  read[Len(s.queue)]

GiveFocus(s, c) ==
  IF c = "nil" THEN SetFocus(s, "bar")
  ELSE IF c \notin NoInput THEN SetFocus(s, c)
  ELSE IF c \in TakeFocus THEN [s EXCEPT !.asked = @ \cup {c}] ELSE s

ClientFocusStale(s, c) ==   \* a mutant: events under way are not read first
  LET g == [s EXCEPT !.gclient = IF c \in Grouped THEN c ELSE @]
  IN  IF g.dfocus = c THEN g ELSE FlushFocus(GiveFocus(g, c))

ClientFocus(s, c) ==
  LET g == FlushFocus([s EXCEPT !.gclient = IF c \in Grouped THEN c ELSE @])
  IN  IF g.dfocus = c THEN g ELSE FlushFocus(GiveFocus(g, c))

-----------------------------------------------------------------------------
(* wmii: views and clients. *)

PlaceOnlyShows(s, t, w) ==   \* a mutant: clients of other views stay
  IF s.view[w] = s.selview THEN MapFrame(MapWin(t, w), w) ELSE t

(* The clients of the selected view are shown, those of others hidden.     *)
Place(s, t, w) ==
  IF s.view[w] = s.selview THEN MapFrame(MapWin(t, w), w)
  ELSE UnmapWin(UnmapFrame(t, w), w)

ViewUpdate(s) ==
  LET placed[i \in 0 .. Len(s.client)] ==
        IF i = 0 THEN s ELSE Place(s, placed[i - 1], s.client[i])
  IN  ClientFocus(placed[Len(s.client)], s.sel[s.selview])

ViewFocus(s, v) == ViewUpdate([s EXCEPT !.selview = v])

(* focus(c, user)                                                          *)
Focus(s, c) ==
  LET v == s.view[c]
      t == IF v = s.selview THEN s ELSE ViewFocus(s, v)
  IN  ClientFocus([t EXCEPT !.sel[v] = c], c)

(* The group's leader is a window that is not a client.                    *)
GroupLeader(s) ==
  IF s.gclient # "nil" THEN s.gclient
  ELSE LET members == {i \in DOMAIN s.client : s.client[i] \in Grouped}
       IN  IF members = {} THEN "nil"
           ELSE s.client[CHOOSE i \in members : \A j \in members : i <= j]

(* client_create and client_manage: a new client goes to the view of its   *)
(* group, or to the selected one, and is selected there.  Its memory may   *)
(* be that of a freed client to which disp.focus still points.             *)
ClientCreate(s, w, again) ==
  LET leader == IF w \in Grouped THEN GroupLeader(s) ELSE "nil"
      v == IF leader = "nil" THEN s.selview ELSE s.view[leader]
  IN  ViewUpdate(Revert([s EXCEPT
        !.client = Append(@, w), !.mapped[w] = FALSE, !.fmapped[w] = FALSE,
        !.frame[w] = FALSE, !.view[w] = v, !.sel[v] = w,
        !.dfocus = IF again /\ @ = "freed" THEN w ELSE @]))

(* The clients that may be selected when w leaves its view; which of them  *)
(* is module Area's matter.                                                *)
NextSel(s, w) ==
  LET v == s.view[w]
      rest == {c \in Managed(s) \ {w} : s.view[c] = v}
  IN  IF s.sel[v] # w THEN {s.sel[v]} ELSE IF rest = {} THEN {"nil"} ELSE rest

GroupRemoveKeepsClient(s, w) == s   \* a mutant: group->client stays

GroupRemove(s, w) == [s EXCEPT !.gclient = IF @ = w THEN "nil" ELSE @]

(* With the client's frame window go the events about it.                  *)
ClientDestroy(s, w, next) ==
  LET v == s.view[w]
      hid == UnmapFrame(s, w)
      out == Revert([hid EXCEPT
               !.client = Without(@, {w}),
               !.frame[w] = FALSE, !.sel[v] = next,
               !.queue = Without(@, {Event("UnmapFrame", w)})])
      left == IF v = s.selview THEN ViewUpdate(out) ELSE out
  IN  [FlushFocus(GroupRemove(UnmapWin(left, w), w))
         EXCEPT !.dfocus = IF @ = w THEN "freed" ELSE @]

-----------------------------------------------------------------------------
(* wmii: one event, read and handled to the end. *)

Receive(t) == sys.queue # <<>> /\ Head(sys.queue).type = t
Win == Head(sys.queue).win
Rest == [sys EXCEPT !.queue = Tail(@)]

MapRequestTwice ==   \* a mutant: a client may be mapped once more
  /\ Receive("MapRequest")
  /\ IF ~sys.exists[Win] THEN sys' = Rest
     ELSE \E again \in {FALSE, Reuse} : sys' = ClientCreate(Rest, Win, again)

(* A window may be gone when its attributes are asked for, or go between   *)
(* that and the first request that would tell.                             *)
MapRequest ==
  /\ Receive("MapRequest")
  /\ IF Win \in Managed(sys) \/ ~sys.exists[Win] THEN sys' = Rest
     ELSE \/ \E again \in {FALSE, Reuse} : sys' = ClientCreate(Rest, Win, again)
          \/ sys' = FlushFocus(Push([Rest EXCEPT !.exists[Win] = FALSE],
                                    "Destroy", Win))

UnmapNotifyWithdraws ==   \* a mutant: every unmap is the program's
  /\ Receive("Unmap")
  /\ IF Win \notin Managed(sys) THEN sys' = Rest
     ELSE \E next \in NextSel(sys, Win) : sys' = ClientDestroy(Rest, Win, next)

UnmapNotify ==
  /\ Receive("Unmap")
  /\ sys' = IF Win \in Managed(sys) THEN [Rest EXCEPT !.mapped[Win] = FALSE]
            ELSE Rest

FrameUnmapNotify ==
  /\ Receive("UnmapFrame")
  /\ sys' = [Rest EXCEPT !.fmapped[Win] = FALSE]

SentUnmapNotifyUnlessMapped ==   \* a mutant: a mapped window is kept
  /\ Receive("SentUnmap")
  /\ IF Win \notin Managed(sys) \/ sys.mapped[Win] THEN sys' = Rest
     ELSE \E next \in NextSel(sys, Win) : sys' = ClientDestroy(Rest, Win, next)

(* The UnmapNotify that a program sends to say that it withdraws.          *)
SentUnmapNotify ==
  /\ Receive("SentUnmap")
  /\ IF Win \notin Managed(sys) THEN sys' = Rest
     ELSE \E next \in NextSel(sys, Win) : sys' = ClientDestroy(Rest, Win, next)

DestroyNotify ==
  /\ Receive("Destroy")
  /\ IF Win \notin Managed(sys) THEN sys' = Rest
     ELSE \E next \in NextSel(sys, Win) : sys' = ClientDestroy(Rest, Win, next)

MapNotify ==
  /\ Receive("Map")
  /\ sys' = IF Win \in Managed(sys) /\ Win = sys.sel[sys.selview]
            THEN ClientFocus(Rest, Win) ELSE Rest

FocusNotify ==
  /\ sys.queue # <<>> /\ IsFocus(Head(sys.queue))
  /\ sys' = FocusEvent(Rest, Head(sys.queue))

(* Whether e->serial is past event_lastconfigure is not modelled.          *)
EnterNotify ==
  /\ Receive("Enter")
  /\ \/ sys' = Rest
     \/ /\ Win \in Managed(sys) /\ sys.dfocus # Win
        /\ sys' = Focus(Rest, Win)

Dispatch ==
  /\ \/ MapRequest \/ UnmapNotify \/ FrameUnmapNotify \/ SentUnmapNotify
     \/ DestroyNotify \/ MapNotify \/ FocusNotify \/ EnterNotify
  /\ calm' = (calm \/ sys'.queue = <<>>)
  /\ UNCHANGED <<app, maps>>

-----------------------------------------------------------------------------
(* The user. *)

Room == Len(sys.queue) < MaxQueue

(* A view is selected, by a 9P message.                                    *)
ViewSelect(v) ==
  /\ Room /\ v # sys.selview /\ (Patient => calm)
  /\ sys' = ViewFocus(sys, v)
  /\ calm' = (sys'.queue = <<>>)
  /\ UNCHANGED <<app, maps>>

(* The pointer enters a client.                                            *)
Enter(w) ==
  /\ Room /\ Viewable(sys, w) /\ (Patient => calm)
  /\ sys' = Push(sys, "Enter", w)
  /\ calm' = FALSE
  /\ UNCHANGED <<app, maps>>

-----------------------------------------------------------------------------
(* Programs.  A window is mapped again only when its withdrawal has been   *)
(* dealt with and wmii has let it go, as WM_STATE tells.                   *)

AppMap(w) ==
  /\ Room /\ maps[w] < MaxMaps
  /\ app[w] # "unmapping" /\ sys.exists[w] /\ ~sys.up[w] /\ w \notin Managed(sys)
  /\ Event("SentUnmap", w) \notin ToSet(sys.queue)
  /\ app' = [app EXCEPT ![w] = "mapped"]
  /\ maps' = [maps EXCEPT ![w] = @ + 1]
  /\ sys' = Push(sys, "MapRequest", w)
  /\ UNCHANGED calm

(* To withdraw, a program unmaps its window ...                            *)
AppUnmap(w) ==
  /\ Room /\ app[w] = "mapped" /\ sys.exists[w]
  /\ app' = [app EXCEPT ![w] = "unmapping"]
  /\ sys' = IF ~sys.up[w] THEN sys
            ELSE Revert(Push([sys EXCEPT !.up[w] = FALSE], "Unmap", w))
  /\ UNCHANGED <<maps, calm>>

(* ... and sends the event, in case it was unmapped already.               *)
AppWithdraw(w) ==
  /\ Room /\ app[w] = "unmapping" /\ sys.exists[w]
  /\ app' = [app EXCEPT ![w] = "withdrawn"]
  /\ sys' = Push(sys, "SentUnmap", w)
  /\ UNCHANGED <<maps, calm>>

AppDestroy(w) ==
  /\ Room /\ sys.exists[w]
  /\ app' = [app EXCEPT ![w] = "withdrawn"]
  /\ LET gone == [sys EXCEPT !.exists[w] = FALSE, !.up[w] = FALSE]
     IN  sys' = Push(Revert(IF sys.up[w] THEN Push(gone, "Unmap", w) ELSE gone),
                     "Destroy", w)
  /\ UNCHANGED <<maps, calm>>

(* The answer to WM_TAKE_FOCUS, with the time of the message.  A program   *)
(* that withdraws its window does not answer any more.                     *)
AppTakeFocus(w) ==
  /\ Room /\ w \in sys.asked /\ app[w] = "mapped"
  /\ sys' = SetFocus([sys EXCEPT !.asked = @ \ {w}], w)
  /\ UNCHANGED <<app, maps, calm>>

-----------------------------------------------------------------------------
Init ==
  /\ sys = [exists |-> [w \in Windows |-> TRUE], up |-> [w \in Windows |-> FALSE],
            frame |-> [w \in Windows |-> FALSE], focus |-> "bar",
            onFrame |-> FALSE, asked |-> {}, queue |-> <<>>, client |-> <<>>,
            mapped |-> [w \in Windows |-> FALSE],
            fmapped |-> [w \in Windows |-> FALSE],
            view |-> [w \in Windows |-> First], sel |-> [v \in Views |-> "nil"],
            selview |-> First, dfocus |-> "nil", gclient |-> "nil"]
  /\ app = [w \in Windows |-> "withdrawn"]
  /\ maps = [w \in Windows |-> 0]
  /\ calm = TRUE

Next ==
  \/ Dispatch
  \/ \E v \in Views : ViewSelect(v)
  \/ \E w \in Windows : \/ Enter(w) \/ AppMap(w) \/ AppUnmap(w)
                        \/ AppWithdraw(w) \/ AppDestroy(w) \/ AppTakeFocus(w)

(* wmii reads on as long as there is something to read (event_check,       *)
(* event_loop); nobody else owes anything.  This is WF_vars(Dispatch):     *)
(* Dispatch is enabled when the queue is not empty.                        *)
Fairness == []<>(sys.queue = <<>>) \/ []<><<Dispatch>>_vars

Spec == Init /\ [][Next]_vars /\ Fairness

-----------------------------------------------------------------------------
TypeOK ==
  /\ sys.client \in Seq(Windows) /\ IsInjective(sys.client)
  /\ sys.focus \in Windows \cup {"bar", "root", "none"}
  /\ sys.dfocus \in Managed(sys) \cup {"nil", "magic", "freed"}
  /\ sys.gclient \in Windows \cup {"nil"}
  /\ sys.asked \subseteq TakeFocus
  /\ sys.sel \in [Views -> Windows \cup {"nil"}] /\ sys.selview \in Views
  /\ app \in [Windows -> {"withdrawn", "mapped", "unmapping"}]

(* Nothing is under way.                                                   *)
Quiet ==
  /\ sys.queue = <<>>
  /\ \A w \in sys.asked : app[w] # "mapped"
  /\ \A w \in Windows : app[w] # "unmapping"

(* What is on the screen, when nothing is under way, is the selected view: *)
(* its clients, and no other window.                                       *)
Shown ==
  Quiet => \A w \in Windows : sys.exists[w] =>
    (Viewable(sys, w) <=> w \in Managed(sys) /\ sys.view[w] = sys.selview)

(* disp.focus is the client that has the focus, if one has.                *)
FocusKnown ==
  Quiet => /\ \A w \in Windows :
                 sys.dfocus = w <=> sys.focus = w /\ ~sys.onFrame
           /\ sys.dfocus # "freed"

(* The selected client has the focus, if it wants it, and the bar has it   *)
(* where there is none, while no client takes the focus by itself: such a  *)
(* one may answer late, and keeps what it took until something else is     *)
(* selected.  With Reuse, a client in the memory of a freed one may be     *)
(* taken for the one that has the focus, when no window has it.            *)
SelectedHasFocus ==
  Quiet /\ Managed(sys) \cap TakeFocus = {} =>
    LET c == sys.sel[sys.selview]
    IN  IF c = "nil" THEN sys.focus = "bar"
        ELSE c \notin NoInput =>
               \/ sys.focus = c /\ ~sys.onFrame
               \/ Reuse /\ sys.dfocus = c /\ sys.focus \notin Windows

(* group->client, which decides where a new client goes, is a client.      *)
GroupClientLive == sys.gclient \in Managed(sys) \cup {"nil"}

Wanted(w) == app[w] = "mapped" /\ sys.exists[w]
Withdrawn(w) == app[w] = "withdrawn" \/ ~sys.exists[w]

(* A client is let go only when its program has asked for that: an unmap   *)
(* of wmii's own is not taken for one.                                     *)
KeptUntilWithdrawn ==
  [][\A w \in Managed(sys) \ Managed(sys)' : Withdrawn(w)]_vars

(* A window that is withdrawn or destroyed is let go and is off the screen *)
(* in the end, unless it is mapped again; one that is mapped is managed.   *)
Answered ==
  \A w \in Windows :
    /\ Withdrawn(w) ~> (Wanted(w) \/ ~(w \in Managed(sys) \/ sys.up[w]))
    /\ Wanted(w) ~> (~Wanted(w) \/ w \in Managed(sys))
=============================================================================
