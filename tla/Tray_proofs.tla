----------------------------- MODULE Tray_proofs -----------------------------
(***************************************************************************)
(* Proofs about Tray: there is one tray, it is on the screen just when an  *)
(* icon's window is, and an icon that is dragged over is told of the end.  *)
(***************************************************************************)
EXTENDS Tray, TLAPS

Events ==
  [type : {"olddied", "clear", "enter", "position", "leave", "drop"}]
  \cup [type : {"dock", "map", "unmap", "destroy", "left", "info"}, win : Windows]

WinType    == [live : BOOLEAN, home : {"root", "tray"}, mapped : BOOLEAN, wants : BOOLEAN]
ClientType == [addr : Addrs, win : Windows, mapped : BOOLEAN]

TypeOK ==
  /\ at \in {"get", "create", "created", "select", "grabbed", "loop", "swallow",
             "update", "ended"}
  /\ at \in {"swallow", "update"} => icon \in [win : Windows, wants : BOOLEAN]
  /\ selection \in {"none", "waiting", "managing"}
  /\ old \in Others \cup {Nil, "self"} /\ owner \in Others \cup {Nil, "self"}
  /\ timer \in BOOLEAN /\ watched \in BOOLEAN /\ late \in BOOLEAN
  /\ other \in [Others -> {"new", "living", "dead"}]
  /\ win \in [Windows -> WinType]
  /\ queue \in Seq(Events)
  /\ clients \subseteq ClientType
  /\ winmap \in [Windows -> Addrs \cup {Nil}]
  /\ shown \in BOOLEAN
  /\ dnd \in Windows \cup {Nil, "any"} /\ drag \in {"none", "over"}
  /\ entered \subseteq Windows
  /\ docks \in [Windows -> Nat]
-----------------------------------------------------------------------------
(* What a queue holds.                                                     *)

Holds(q, types) == \E i \in 1 .. Len(q) : q[i].type \in types
About(q, w, types) == \E i \in 1 .. Len(q) : q[i].type \in types /\ q[i].win = w

DocksTwice(q, w) ==
  \E i, j \in 1 .. Len(q) : i < j /\ q[i].type = "dock" /\ q[i].win = w
                                  /\ q[j].type = "dock" /\ q[j].win = w

MapEvents  == {"map", "unmap"}
GoneEvents == {"destroy", "left"}
IconEvents == {"map", "unmap", "destroy", "left", "info"}
DragEvents == {"enter", "position", "leave", "drop"}
OverEvents == {"enter", "position"}

(* The last of the events that tell whether w is mapped tells v.           *)
Tells(q, w, v) ==
  \A i \in 1 .. Len(q) :
    /\ q[i].type \in MapEvents /\ q[i].win = w
    /\ \A j \in i + 1 .. Len(q) : ~(q[j].type \in MapEvents /\ q[j].win = w)
    => (q[i].type = "map") = v

(* The events of drags come as they should: after those that q[i] is the   *)
(* first of, over says whether a drag is on.                               *)
Drags(q, over) ==
  /\ \A i, j \in 1 .. Len(q) :
       /\ i < j /\ q[i].type \in DragEvents /\ q[j].type \in DragEvents
       /\ \A k \in i + 1 .. j - 1 : q[k].type \notin DragEvents
       => (q[i].type \in OverEvents) = (q[j].type # "enter")
  /\ \A i \in 1 .. Len(q) :
       /\ q[i].type \in DragEvents
       /\ \A k \in i + 1 .. Len(q) : q[k].type \notin DragEvents
       => (q[i].type \in OverEvents) = over

(* The first event of a drag does not begin one.                           *)
GoesOn(q) ==
  \A i \in 1 .. Len(q) :
    /\ q[i].type \in DragEvents
    /\ \A k \in 1 .. i - 1 : q[k].type \notin DragEvents
    => q[i].type # "enter"

(* What an event at the end of a queue changes.                            *)
LEMMA AppendHolds ==
  ASSUME NEW q \in Seq(Events), NEW e \in Events, NEW types
  PROVE  Holds(Append(q, e), types) <=> Holds(q, types) \/ e.type \in types
BY DEF Holds

LEMMA AppendAbout ==
  ASSUME NEW q \in Seq(Events), NEW e \in Events, NEW w, NEW types
  PROVE  About(Append(q, e), w, types)
           <=> About(q, w, types) \/ (e.type \in types /\ e.win = w)
BY DEF About

LEMMA AppendDocks ==
  ASSUME NEW q \in Seq(Events), NEW e \in Events, NEW w, ~DocksTwice(q, w),
         e.type = "dock" /\ e.win = w => ~About(q, w, {"dock"})
  PROVE  ~DocksTwice(Append(q, e), w)
BY DEF DocksTwice, About

LEMMA AppendTells ==
  ASSUME NEW q \in Seq(Events), NEW e \in Events, NEW w, NEW v \in BOOLEAN
  PROVE  Tells(Append(q, e), w, v)
           <=> IF e.type \in MapEvents /\ e.win = w THEN (e.type = "map") = v
                                                    ELSE Tells(q, w, v)
BY DEF Tells

LEMMA AppendDrags ==
  ASSUME NEW q \in Seq(Events), NEW e \in Events, NEW over \in BOOLEAN, Drags(q, over)
  PROVE  /\ e.type \notin DragEvents => Drags(Append(q, e), over)
         /\ e.type \in DragEvents /\ over = (e.type # "enter") =>
              Drags(Append(q, e), e.type \in OverEvents)
BY DEF Drags, OverEvents, DragEvents

LEMMA AppendGoesOn ==
  ASSUME NEW q \in Seq(Events), NEW e \in Events, GoesOn(q),
         Holds(q, DragEvents) \/ e.type # "enter"
  PROVE  GoesOn(Append(q, e))
BY DEF GoesOn, Holds, DragEvents

(* What an event taken from the front changes.                             *)
LEMMA TailIndex ==
  ASSUME NEW q \in Seq(Events), q # <<>>
  PROVE  /\ Tail(q) \in Seq(Events) /\ Head(q) \in Events /\ Head(q) = q[1]
         /\ Len(q) \in Nat /\ 1 \in 1 .. Len(q)
         /\ \A i \in 1 .. Len(Tail(q)) : i + 1 \in 1 .. Len(q) /\ q[i + 1] = Tail(q)[i]
         /\ \A i \in 1 .. Len(q) :
              i # 1 => i - 1 \in 1 .. Len(Tail(q)) /\ q[i] = Tail(q)[i - 1]
         /\ Len(Tail(q)) = Len(q) - 1
<1>1. Len(Tail(q)) = Len(q) - 1 /\ Len(q) \in Nat /\ Len(q) # 0
  OBVIOUS
<1>2. \A i \in 1 .. Len(q) - 1 : Tail(q)[i] = q[i + 1]
  OBVIOUS
<1>3. ASSUME NEW i \in 1 .. Len(q), i # 1
      PROVE  i - 1 \in 1 .. Len(Tail(q)) /\ q[i] = Tail(q)[i - 1]
  <2>1. i - 1 \in 1 .. Len(q) - 1 /\ (i - 1) + 1 = i
    BY <1>1, <1>3
  <2> QED BY <2>1, <1>1, <1>2
<1>4. ASSUME NEW i \in 1 .. Len(Tail(q))
      PROVE  i + 1 \in 1 .. Len(q) /\ q[i + 1] = Tail(q)[i]
  BY <1>1, <1>2
<1>5. Head(q) = q[1] /\ Head(q) \in Events /\ Tail(q) \in Seq(Events)
  OBVIOUS
<1> QED BY <1>1, <1>3, <1>4, <1>5

LEMMA TailHolds ==
  ASSUME NEW q \in Seq(Events), q # <<>>, NEW types
  PROVE  Holds(q, types) <=> Holds(Tail(q), types) \/ Head(q).type \in types
BY TailIndex DEF Holds

LEMMA TailAbout ==
  ASSUME NEW q \in Seq(Events), q # <<>>, NEW w, NEW types
  PROVE  About(q, w, types)
           <=> About(Tail(q), w, types) \/ (Head(q).type \in types /\ Head(q).win = w)
BY TailIndex DEF About

LEMMA TailDocks ==
  ASSUME NEW q \in Seq(Events), q # <<>>, NEW w, ~DocksTwice(q, w)
  PROVE  /\ ~DocksTwice(Tail(q), w)
         /\ Head(q).type = "dock" /\ Head(q).win = w => ~About(Tail(q), w, {"dock"})
<1> DEFINE t == Tail(q)
<1>1. \A i \in 1 .. Len(t) : i + 1 \in 1 .. Len(q) /\ q[i + 1] = t[i] /\ 1 < i + 1
  BY TailIndex
<1>2. ~DocksTwice(t, w)
  <2>1. ASSUME NEW i \in 1 .. Len(t), NEW j \in 1 .. Len(t), i < j
        PROVE  i + 1 < j + 1
    BY <2>1
  <2> QED BY <1>1, <2>1 DEF DocksTwice
<1>3. Head(q).type = "dock" /\ Head(q).win = w => ~About(t, w, {"dock"})
  BY <1>1, TailIndex DEF DocksTwice, About
<1> QED BY <1>2, <1>3

LEMMA TailTells ==
  ASSUME NEW q \in Seq(Events), q # <<>>, NEW w, NEW v \in BOOLEAN, Tells(q, w, v)
  PROVE  /\ Tells(Tail(q), w, v)
         /\ /\ Head(q).type \in MapEvents /\ Head(q).win = w
            /\ ~About(Tail(q), w, MapEvents)
            => (Head(q).type = "map") = v
<1> DEFINE t == Tail(q)
<1> USE TailIndex
<1>1. ASSUME NEW i \in 1 .. Len(t), t[i].type \in MapEvents, t[i].win = w,
             \A j \in i + 1 .. Len(t) : ~(t[j].type \in MapEvents /\ t[j].win = w)
      PROVE  (t[i].type = "map") = v
  <2>1. i + 1 \in 1 .. Len(q) /\ q[i + 1] = t[i]
    OBVIOUS
  <2>2. ASSUME NEW j \in (i + 1) + 1 .. Len(q)
        PROVE  ~(q[j].type \in MapEvents /\ q[j].win = w)
    <3>1. j \in 1 .. Len(q) /\ j # 1 /\ j - 1 \in i + 1 .. Len(t)
      OBVIOUS
    <3> QED BY <3>1, <1>1
  <2> QED BY <2>1, <2>2, <1>1 DEF Tells
<1>2. ASSUME Head(q).type \in MapEvents, Head(q).win = w, ~About(t, w, MapEvents)
      PROVE  (Head(q).type = "map") = v
  <2>1. ASSUME NEW j \in 1 + 1 .. Len(q)
        PROVE  ~(q[j].type \in MapEvents /\ q[j].win = w)
    <3>1. j \in 1 .. Len(q) /\ j # 1
      OBVIOUS
    <3>2. j - 1 \in 1 .. Len(t) /\ q[j] = t[j - 1]
      BY <3>1
    <3> HIDE TailIndex DEF t
    <3> QED BY <3>2, <1>2 DEF About
  <2>2. 1 \in 1 .. Len(q) /\ q[1].type \in MapEvents /\ q[1].win = w
    BY <1>2
  <2>3. (q[1].type = "map") = v
    BY <2>1, <2>2 DEF Tells
  <2> QED BY <2>3
<1> QED BY <1>1, <1>2 DEF Tells

LEMMA TailDrags ==
  ASSUME NEW q \in Seq(Events), q # <<>>, NEW over \in BOOLEAN, Drags(q, over)
  PROVE  /\ Drags(Tail(q), over)
         /\ Head(q).type \in OverEvents =>
              GoesOn(Tail(q)) /\ (Holds(Tail(q), DragEvents) \/ over)
<1> DEFINE t == Tail(q)
<1> USE TailIndex
<1>0. \A i \in 1 .. Len(t) : q[i + 1].type = t[i].type /\ i + 1 \in 1 .. Len(q)
  OBVIOUS
<1>1. ASSUME NEW i \in 1 .. Len(t), NEW j \in 1 .. Len(t), i < j,
             t[i].type \in DragEvents, t[j].type \in DragEvents,
             \A k \in i + 1 .. j - 1 : t[k].type \notin DragEvents
      PROVE  (t[i].type \in OverEvents) = (t[j].type # "enter")
  <2>1. ASSUME NEW k \in (i + 1) + 1 .. (j + 1) - 1 PROVE q[k].type \notin DragEvents
    <3>1. k \in 1 .. Len(q) /\ k # 1 /\ k - 1 \in i + 1 .. j - 1
      OBVIOUS
    <3> QED BY <3>1, <1>1
  <2>2. i + 1 < j + 1
    BY <1>1
  <2> QED BY <1>0, <1>1, <2>1, <2>2 DEF Drags
<1>2. ASSUME NEW i \in 1 .. Len(t), t[i].type \in DragEvents,
             \A k \in i + 1 .. Len(t) : t[k].type \notin DragEvents
      PROVE  (t[i].type \in OverEvents) = over
  <2>1. ASSUME NEW k \in (i + 1) + 1 .. Len(q) PROVE q[k].type \notin DragEvents
    <3>1. k \in 1 .. Len(q) /\ k # 1 /\ k - 1 \in i + 1 .. Len(t)
      OBVIOUS
    <3> QED BY <3>1, <1>2
  <2> QED BY <1>0, <1>2, <2>1 DEF Drags
<1>3. ASSUME Head(q).type \in OverEvents PROVE GoesOn(t)
  <2> SUFFICES ASSUME NEW i \in 1 .. Len(t), t[i].type \in DragEvents,
                      \A k \in 1 .. i - 1 : t[k].type \notin DragEvents
               PROVE  t[i].type # "enter"
    BY DEF GoesOn
  <2>1. ASSUME NEW k \in 1 + 1 .. (i + 1) - 1 PROVE q[k].type \notin DragEvents
    <3>1. k \in 1 .. Len(q) /\ k # 1 /\ k - 1 \in 1 .. i - 1
      OBVIOUS
    <3> QED BY <3>1
  <2>2. 1 < i + 1 /\ q[1].type \in DragEvents /\ q[1].type \in OverEvents
    BY <1>3 DEF OverEvents, DragEvents
  <2> QED BY <1>0, <2>1, <2>2 DEF Drags
<1>4. ASSUME Head(q).type \in OverEvents, ~Holds(t, DragEvents) PROVE over
  <2>1. ASSUME NEW k \in 1 + 1 .. Len(q) PROVE q[k].type \notin DragEvents
    <3>1. k \in 1 .. Len(q) /\ k # 1
      OBVIOUS
    <3> QED BY <3>1, <1>4 DEF Holds
  <2>2. q[1].type \in DragEvents /\ q[1].type \in OverEvents
    BY <1>4 DEF OverEvents, DragEvents
  <2> QED BY <2>1, <2>2 DEF Drags
<1> QED BY <1>1, <1>2, <1>3, <1>4 DEF Drags

LEMMA TailGoesOn ==
  ASSUME NEW q \in Seq(Events), q # <<>>, GoesOn(q)
  PROVE  IF Head(q).type \in DragEvents THEN Head(q).type # "enter" ELSE GoesOn(Tail(q))
<1> DEFINE t == Tail(q)
<1> USE TailIndex
<1>1. CASE Head(q).type \in DragEvents
  <2>1. \A k \in 1 .. 1 - 1 : FALSE
    OBVIOUS
  <2> QED BY <1>1, <2>1 DEF GoesOn
<1>2. CASE Head(q).type \notin DragEvents
  <2> SUFFICES ASSUME NEW i \in 1 .. Len(t), t[i].type \in DragEvents,
                      \A k \in 1 .. i - 1 : t[k].type \notin DragEvents
               PROVE  t[i].type # "enter"
    BY <1>2 DEF GoesOn
  <2>1. ASSUME NEW k \in 1 .. (i + 1) - 1 PROVE q[k].type \notin DragEvents
    <3>1. CASE k = 1
      BY <3>1, <1>2
    <3>2. CASE k # 1
      <4>1. k \in 1 .. Len(q) /\ k - 1 \in 1 .. i - 1
        BY <3>2
      <4> QED BY <4>1, <3>2
    <3> QED BY <3>1, <3>2
  <2>2. i + 1 \in 1 .. Len(q) /\ q[i + 1] = t[i]
    OBVIOUS
  <2> QED BY <2>1, <2>2 DEF GoesOn
<1> QED BY <1>1, <1>2

(* A queue of which w has nothing to hear that it had not in the other.    *)
AlikeFor(q, r, w) ==
  /\ \A S \in {{"dock"}, IconEvents, MapEvents, GoneEvents, MapEvents \cup GoneEvents} :
       About(q, w, S) <=> About(r, w, S)
  /\ DocksTwice(r, w) => DocksTwice(q, w)
  /\ \A v \in BOOLEAN : Tells(q, w, v) => Tells(r, w, v)

(* The same of the drag.                                                   *)
DragsAlike(q, r) ==
  /\ \A over \in BOOLEAN : Drags(q, over) => Drags(r, over)
  /\ GoesOn(q) => GoesOn(r)
  /\ Holds(q, DragEvents) => Holds(r, DragEvents)

Concerns(e, w) == e.type \in {"dock"} \cup IconEvents /\ e.win = w

LEMMA AppendElse ==
  ASSUME NEW q \in Seq(Events), NEW e \in Events, NEW w, ~Concerns(e, w)
  PROVE  AlikeFor(q, Append(q, e), w)
<1>1. ASSUME NEW S \in {{"dock"}, IconEvents, MapEvents, GoneEvents, MapEvents \cup GoneEvents}
      PROVE  About(q, w, S) <=> About(Append(q, e), w, S)
  <2>1. ~(e.type \in S /\ e.win = w)
    BY DEF Concerns, IconEvents, MapEvents, GoneEvents
  <2> QED BY <2>1, AppendAbout
<1>2. DocksTwice(Append(q, e), w) => DocksTwice(q, w)
  <2>1. ~(e.type = "dock" /\ e.win = w)
    BY DEF Concerns
  <2> QED BY <2>1, AppendDocks
<1>3. \A v \in BOOLEAN : Tells(q, w, v) => Tells(Append(q, e), w, v)
  <2>1. ~(e.type \in MapEvents /\ e.win = w)
    BY DEF Concerns, IconEvents, MapEvents
  <2> QED BY <2>1, AppendTells
<1> QED BY <1>1, <1>2, <1>3 DEF AlikeFor

LEMMA TailElse ==
  ASSUME NEW q \in Seq(Events), q # <<>>, NEW w, ~Concerns(Head(q), w)
  PROVE  AlikeFor(q, Tail(q), w)
<1>1. ASSUME NEW S \in {{"dock"}, IconEvents, MapEvents, GoneEvents, MapEvents \cup GoneEvents}
      PROVE  About(q, w, S) <=> About(Tail(q), w, S)
  <2>1. ~(Head(q).type \in S /\ Head(q).win = w)
    BY DEF Concerns, IconEvents, MapEvents, GoneEvents
  <2> QED BY <2>1, TailAbout
<1>2. DocksTwice(Tail(q), w) => DocksTwice(q, w)
  BY TailDocks
<1>3. \A v \in BOOLEAN : Tells(q, w, v) => Tells(Tail(q), w, v)
  BY TailTells
<1> QED BY <1>1, <1>2, <1>3 DEF AlikeFor

LEMMA AppendNoDrag ==
  ASSUME NEW q \in Seq(Events), NEW e \in Events, e.type \notin DragEvents
  PROVE  DragsAlike(q, Append(q, e))
<1>1. \A over \in BOOLEAN : Drags(q, over) => Drags(Append(q, e), over)
  BY AppendDrags
<1>2. GoesOn(q) => GoesOn(Append(q, e))
  BY AppendGoesOn DEF DragEvents
<1>3. Holds(q, DragEvents) => Holds(Append(q, e), DragEvents)
  BY AppendHolds
<1> QED BY <1>1, <1>2, <1>3 DEF DragsAlike

LEMMA TailNoDrag ==
  ASSUME NEW q \in Seq(Events), q # <<>>, Head(q).type \notin DragEvents
  PROVE  DragsAlike(q, Tail(q))
<1>1. \A over \in BOOLEAN : Drags(q, over) => Drags(Tail(q), over)
  BY TailDrags
<1>2. GoesOn(q) => GoesOn(Tail(q))
  BY TailGoesOn
<1>3. Holds(q, DragEvents) => Holds(Tail(q), DragEvents)
  BY TailHolds
<1> QED BY <1>1, <1>2, <1>3 DEF DragsAlike

LEMMA AlikeChain ==
  ASSUME NEW q, NEW r, NEW s, NEW w
  PROVE  /\ AlikeFor(q, r, w) /\ AlikeFor(r, s, w) => AlikeFor(q, s, w)
         /\ DragsAlike(q, r) /\ DragsAlike(r, s) => DragsAlike(q, s)
         /\ AlikeFor(q, q, w) /\ DragsAlike(q, q)
BY DEF AlikeFor, DragsAlike

LEMMA NoneTells ==
  ASSUME NEW q \in Seq(Events), NEW w, NEW v, ~About(q, w, MapEvents)
  PROVE  Tells(q, w, v)
BY DEF About, Tells

LEMMA AboutMore ==
  ASSUME NEW q, NEW w, NEW S, NEW T, S \subseteq T, About(q, w, S)
  PROVE  About(q, w, T)
BY DEF About

LEMMA EmptyQueue ==
  ASSUME NEW w, NEW types
  PROVE  /\ ~About(<<>>, w, types) /\ ~Holds(<<>>, types) /\ ~DocksTwice(<<>>, w)
         /\ GoesOn(<<>>) /\ \A v : Tells(<<>>, w, v) /\ Drags(<<>>, v)
BY DEF About, Holds, DocksTwice, GoesOn, Tells, Drags
-----------------------------------------------------------------------------
(* The selection is ours, or the event that says otherwise is on its way.  *)
OwnerInv == selection = "managing" => owner = "self" \/ Holds(queue, {"clear"})

Swallows(w) == at = "swallow" /\ icon.win = w
Docked(w) == \E c \in clients : c.win = w
InTray(w) == win[w].live /\ win[w].home = "tray"

(* Nothing has been done about a window yet.                               *)
Fresh(w) ==
  /\ ~Docked(w) /\ winmap[w] = Nil /\ w \notin entered
  /\ win[w].home = "root" /\ ~About(queue, w, IconEvents) /\ ~Swallows(w)

(* A window that has asked at most once is asked about once at most.       *)
DockInv(w) ==
  /\ docks[w] = 0 => Fresh(w) /\ ~About(queue, w, {"dock"})
  /\ About(queue, w, {"dock"}) => Fresh(w) /\ ~DocksTwice(queue, w)
  /\ Swallows(w) => ~Docked(w) /\ winmap[w] = Nil /\ w \notin entered

(* The list, the map and the tray's window agree.                          *)
MapInv(w) ==
  /\ winmap[w] # Nil => Docked(w)
  /\ at # "ended" /\ InTray(w) => Docked(w) \/ Swallows(w)
  /\ at = "update" /\ icon.win = w => Docked(w)

(* A client that is gone is about to be cleaned up, and no other.          *)
GoneInv(w) ==
  /\ Docked(w) /\ ~InTray(w) => About(queue, w, GoneEvents)
  /\ Swallows(w) /\ win[w].live /\ win[w].home = "root" => About(queue, w, GoneEvents)
  /\ About(queue, w, GoneEvents) => ~InTray(w)

(* The flag of a client is what the last event on its way will make it.    *)
FlagInv(w) ==
  InTray(w) =>
    /\ Tells(queue, w, win[w].mapped)
    /\ \/ About(queue, w, MapEvents)
       \/ /\ \A c \in clients : c.win = w => c.mapped = win[w].mapped
          /\ Swallows(w) => ~win[w].mapped

WinInv(w) == DockInv(w) /\ MapInv(w) /\ GoneInv(w) /\ FlagInv(w)

(* A client has an address and a window of its own.                        *)
ListInv ==
  /\ \A c, d \in clients : c.addr = d.addr \/ c.win = d.win => c = d
  /\ \A c \in clients : winmap[c.win] = c.addr

(* The tray is shown as the clients want it, or an event comes that makes  *)
(* it so.                                                                  *)
ShownInv ==
  \/ shown <=> \E c \in clients : c.mapped
  \/ \E w \in Windows : winmap[w] # Nil /\ About(queue, w, MapEvents \cup GoneEvents)

(* Only the icon that the drag is over has been told of it, and then the   *)
(* drag is not over.                                                       *)
DragInv ==
  /\ Drags(queue, drag = "over")
  /\ \A c \in clients : c.win \in entered =>
       /\ c.win = dnd
       /\ GoesOn(queue)
       /\ Holds(queue, DragEvents) \/ drag = "over"

Once == \A w \in Windows : docks[w] < 2

IconInv == (\A w \in Windows : WinInv(w)) /\ ListInv /\ ShownInv /\ DragInv

IInv == TypeOK /\ OwnerInv /\ (Once => IconInv)
-----------------------------------------------------------------------------
(* Every variable has its type.                                            *)

LEMMA TypeInit == Init => TypeOK
<1> SUFFICES ASSUME Init PROVE TypeOK
  OBVIOUS
<1>1. win \in [Windows -> WinType]
  BY DEF Init, WinType
<1>2. queue \in Seq(Events)
  BY DEF Init
<1> QED BY <1>1, <1>2, TrayAssumption DEF Init, TypeOK, Living

(* What the server may make of a window.                                   *)
LEMMA WinChanges ==
  ASSUME NEW r \in WinType
  PROVE  /\ [r EXCEPT !.home = "tray"] \in WinType /\ [r EXCEPT !.home = "root"] \in WinType
         /\ \A b \in BOOLEAN : [r EXCEPT !.mapped = b] \in WinType
         /\ \A b \in BOOLEAN : [r EXCEPT !.home = "root", !.mapped = @ /\ b] \in WinType
         /\ [r EXCEPT !.live = FALSE, !.mapped = FALSE] \in WinType
         /\ [r EXCEPT !.wants = ~@] \in WinType
         /\ r.live \in BOOLEAN /\ r.mapped \in BOOLEAN /\ r.wants \in BOOLEAN
         /\ r.home \in {"root", "tray"}
BY DEF WinType

LEMMA ClientChanges ==
  /\ \A c \in ClientType : /\ \A b \in BOOLEAN : [c EXCEPT !.mapped = b] \in ClientType
                           /\ c.addr \in Addrs /\ c.win \in Windows /\ c.mapped \in BOOLEAN
  /\ \A a \in Addrs, w \in Windows, b \in BOOLEAN : Client(a, w, b) \in ClientType
BY DEF ClientType, Client

LEMMA EventTypes ==
  ASSUME NEW e \in Events
  PROVE  /\ e.type \in {"dock"} \cup IconEvents => e.win \in Windows
         /\ e.type \in {"olddied", "clear", "dock"} \cup IconEvents \cup DragEvents
BY DEF Events, IconEvents, DragEvents

LEMMA NewEvents ==
  /\ \A t \in {"olddied", "clear"} \cup DragEvents : [type |-> t] \in Events
  /\ \A t \in {"dock"} \cup IconEvents, w \in Windows : [type |-> t, win |-> w] \in Events
BY DEF Events, IconEvents, DragEvents

LEMMA MappingType ==
  ASSUME TypeOK, NEW w \in Windows, NEW flag \in BOOLEAN, Mapping(w, flag)
  PROVE  win' \in [Windows -> WinType] /\ queue' \in Seq(Events)
<1>1. [win EXCEPT ![w].mapped = flag] \in [Windows -> WinType]
  <2>1. [win[w] EXCEPT !.mapped = flag] \in WinType
    BY WinChanges DEF TypeOK
  <2> QED BY <2>1 DEF TypeOK
<1>2. [type |-> IF flag THEN "map" ELSE "unmap", win |-> w] \in Events
  BY NewEvents DEF IconEvents
<1>3. queue \in Seq(Events) /\ win \in [Windows -> WinType]
  BY DEF TypeOK
<1>4. CASE win[w].live /\ win[w].mapped # flag
  <2> DEFINE e == [type |-> IF flag THEN "map" ELSE "unmap", win |-> w]
  <2>1. win' = [win EXCEPT ![w].mapped = flag] /\ queue' = Append(queue, e)
    BY <1>4 DEF Mapping
  <2>2. e \in Events
    BY <1>2
  <2> HIDE DEF e
  <2> QED BY <1>1, <1>3, <2>1, <2>2
<1>5. CASE ~(win[w].live /\ win[w].mapped # flag)
  BY <1>3, <1>5 DEF Mapping
<1> QED BY <1>4, <1>5

LEMMA SetMappedType ==
  ASSUME clients \subseteq ClientType, NEW w, NEW flag \in BOOLEAN, SetMapped(w, flag)
  PROVE  clients' \subseteq ClientType
<1>1. \A c \in Handled(w) : [c EXCEPT !.mapped = flag] \in ClientType
  BY ClientChanges DEF Handled
<1> QED BY <1>1 DEF SetMapped

LEMMA DisownType ==
  ASSUME TypeOK, DisownAll
  PROVE  /\ win' \in [Windows -> WinType] /\ clients' \subseteq ClientType
         /\ winmap' \in [Windows -> Addrs \cup {Nil}] /\ shown' \in BOOLEAN
         /\ selection' = "none"
<1>1. ASSUME NEW w \in Windows PROVE win'[w] \in WinType
  <2> DEFINE b == TRUE \notin {c.mapped : c \in Handled(w)}
  <2>1. b \in BOOLEAN /\ win[w] \in WinType
    BY DEF TypeOK
  <2>2. [win[w] EXCEPT !.home = "root", !.mapped = @ /\ b] \in WinType
    BY <2>1, WinChanges
  <2>3. win'[w] = IF \E c \in clients : c.win = w
                    THEN [win[w] EXCEPT !.home = "root", !.mapped = @ /\ b]
                    ELSE win[w]
    BY DEF DisownAll
  <2> QED BY <2>1, <2>2, <2>3
<1>2. win' = [w \in Windows |-> win'[w]]
  BY DEF DisownAll
<1> QED BY <1>1, <1>2 DEF DisownAll

LEMMA IconType ==
  ASSUME TypeOK, NEW w \in Windows, NEW new \in WinType, NEW t \in IconEvents, Icon(w, new, t)
  PROVE  TypeOK'
<1>1. [type |-> t, win |-> w] \in Events
  BY NewEvents
<1> QED BY <1>1 DEF Icon, TypeOK, trayvars, iconvars, dragvars

LEMMA TypeNext == TypeOK /\ [Next]_vars => TypeOK'
<1> SUFFICES ASSUME TypeOK, [Next]_vars PROVE TypeOK'
  OBVIOUS
<1> USE TrayAssumption
<1>1. CASE GetOwner
  BY <1>1 DEF GetOwner, TypeOK, trayvars, iconvars, dragvars
<1>2. CASE Create
  BY <1>2 DEF Create, SetOwner, TypeOK, trayvars, iconvars, dragvars
<1>3. CASE WaitForOld
  BY <1>3 DEF WaitForOld, SetOwner, TypeOK, trayvars, iconvars, dragvars
<1>4. CASE Created
  BY <1>4 DEF Created, Manages, TypeOK, trayvars, iconvars, dragvars
<1>5. CASE Swallowed
  <2> DEFINE w == icon.win
  <2>1. w \in Windows /\ icon.wants \in BOOLEAN
    BY <1>5 DEF Swallowed, TypeOK
  <2>2. win' \in [Windows -> WinType] /\ queue' \in Seq(Events)
    BY <1>5, <2>1, MappingType DEF Swallowed, TypeOK
  <2>3. clients' \subseteq ClientType /\ winmap' \in [Windows -> Addrs \cup {Nil}]
    <3> PICK a \in Addrs :
          IF win[w].live THEN /\ clients' = clients \cup {Client(a, w, icon.wants)}
                              /\ winmap' = [winmap EXCEPT ![w] = a]
                         ELSE winmap' = [winmap EXCEPT ![w] = Nil] /\ UNCHANGED clients
      BY <1>5 DEF Swallowed
    <3>1. clients \subseteq ClientType /\ winmap \in [Windows -> Addrs \cup {Nil}]
      BY DEF TypeOK
    <3>2. Client(a, w, icon.wants) \in ClientType
      BY <2>1, ClientChanges
    <3> QED BY <2>1, <3>1, <3>2
  <2>4. shown' \in BOOLEAN
    BY <1>5 DEF Swallowed, TrayUpdate
  <2> QED BY <1>5, <2>2, <2>3, <2>4 DEF Swallowed, TypeOK, trayvars, dragvars
<1>6. CASE UpdateInfo
  <2> DEFINE w == icon.win
  <2>1. w \in Windows /\ icon.wants \in BOOLEAN
    BY <1>6 DEF UpdateInfo, TypeOK
  <2>2. win' \in [Windows -> WinType] /\ queue' \in Seq(Events)
    <3>1. queue \in Seq(Events) /\ win \in [Windows -> WinType]
      BY DEF TypeOK
    <3> QED BY <1>6, <2>1, <3>1, MappingType DEF UpdateInfo
  <2>3. clients' \subseteq ClientType
    <3>1. clients \subseteq ClientType
      BY DEF TypeOK
    <3> QED BY <1>6, <2>1, <3>1, SetMappedType DEF UpdateInfo
  <2> QED BY <1>6, <2>2, <2>3 DEF UpdateInfo, TypeOK, trayvars, dragvars
<1>7. CASE Handle
  <2> DEFINE e == Head(queue)
  <2> DEFINE rest == Tail(queue)
  <2>0. e \in Events /\ rest \in Seq(Events)
    BY <1>7, TailIndex DEF Handle, TypeOK
  <2> HIDE DEF e, rest
  <2>1. CASE OldDied(rest)
    BY <2>0, <2>1 DEF OldDied, SetOwner, TypeOK, trayvars, iconvars, dragvars
  <2>2. CASE SelectionClear(rest)
    BY <2>0, <2>2, DisownType DEF SelectionClear, Terminate, TypeOK, trayvars, iconvars, dragvars
  <2>3. CASE e.type = "dock" /\ Dock(e.win, rest)
    <3>1. e.win \in Windows
      BY <2>0, <2>3, EventTypes
    <3> DEFINE w == e.win
    <3>2. CASE selection = "managing"
      <4>1. [win EXCEPT ![w].home = "tray"] \in [Windows -> WinType]
        <5>1. [win[w] EXCEPT !.home = "tray"] \in WinType
          BY <3>1, WinChanges DEF TypeOK
        <5> QED BY <5>1, <3>1 DEF TypeOK
      <4>2. \A t \in {"map", "unmap"} : [type |-> t, win |-> w] \in Events
        BY <3>1, NewEvents DEF IconEvents
      <4>3. rest \o <<[type |-> "unmap", win |-> w], [type |-> "map", win |-> w]>> \in Seq(Events)
        BY <4>2, <2>0
      <4>4. rest \o <<>> \in Seq(Events)
        BY <2>0
      <4>5. queue' \in Seq(Events) /\ win' \in [Windows -> WinType]
        BY <2>0, <2>3, <3>2, <4>1, <4>3, <4>4 DEF Dock, Swallow, TypeOK
      <4>6. at' = "swallow" /\ icon' \in [win : Windows, wants : BOOLEAN]
        <5>1. win[w].wants \in BOOLEAN
          BY <3>1, WinChanges DEF TypeOK
        <5>2. icon' \in {[win |-> w, wants |-> win[w].wants], [win |-> w, wants |-> TRUE]}
          BY <2>3, <3>2 DEF Dock, Swallow
        <5>3. at' = "swallow"
          BY <2>3, <3>2 DEF Dock, Swallow
        <5>4. \A b \in BOOLEAN : [win |-> w, wants |-> b] \in [win : Windows, wants : BOOLEAN]
          BY <3>1
        <5> HIDE DEF w
        <5> QED BY <5>1, <5>2, <5>3, <5>4
      <4> QED BY <2>3, <4>5, <4>6 DEF Dock, TypeOK, trayvars, dragvars
    <3>3. CASE selection # "managing"
      BY <2>0, <2>3, <3>3 DEF Dock, TypeOK, trayvars, dragvars
    <3> QED BY <3>2, <3>3
  <2>4. CASE e.type \in IconEvents /\ IconEvent(e, rest)
    <3>1. e.win \in Windows
      BY <2>0, <2>4, EventTypes
    <3>2. win[e.win].wants \in BOOLEAN
      BY <3>1, WinChanges DEF TypeOK
    <3>3. clients' \subseteq ClientType
      <4>1. clients \subseteq ClientType
        BY DEF TypeOK
      <4> QED BY <2>4, <3>1, <4>1, SetMappedType DEF IconEvent, Update, Cleanup
    <3>4. winmap' \in [Windows -> Addrs \cup {Nil}] /\ shown' \in BOOLEAN
      BY <2>4, <3>1 DEF IconEvent, Update, Cleanup, TrayUpdate, TypeOK
    <3>5. /\ at' \in {at, "update"}
          /\ at' \in {"swallow", "update"} => icon' \in [win : Windows, wants : BOOLEAN]
      BY <2>4, <3>1, <3>2 DEF IconEvent, TypeOK
    <3> QED BY <2>0, <2>4, <3>3, <3>4, <3>5 DEF IconEvent, TypeOK, trayvars, dragvars
  <2>5. CASE e.type \in DragEvents /\ DragEvent(e, rest)
    <3>1. \A c \in clients : c.win \in Windows
      BY ClientChanges DEF TypeOK
    <3>2. dnd' \in Windows \cup {Nil, "any"} /\ entered' \subseteq Windows
      BY <2>5, <3>1
      DEF DragEvent, DragEvents, DndEnter, DndPosition, DndLeave, DndDrop, UpdateStatus, TypeOK
    <3> QED BY <2>0, <2>5, <3>2 DEF DragEvent, TypeOK, trayvars, iconvars
  <2> QED BY <1>7, <2>1, <2>2, <2>3, <2>4, <2>5 DEF Handle, IconEvents, DragEvents, e, rest
<1>8. CASE Timeout
  <2>1. [type |-> "olddied"] \in Events
    BY NewEvents
  <2>2. queue' \in Seq(Events)
    <3> DEFINE e == [type |-> "olddied"]
    <3>1. queue' = queue \/ queue' = Append(queue, e)
      BY <1>8 DEF Timeout
    <3>2. queue \in Seq(Events) /\ e \in Events
      BY <2>1 DEF TypeOK
    <3> HIDE DEF e
    <3> QED BY <3>1, <3>2
  <2>3. /\ other' \in [Others -> {"new", "living", "dead"}]
        /\ owner' \in Others \cup {Nil, "self"}
    BY <1>8 DEF Timeout, TypeOK
  <2>4. at' \in {at, "ended"}
    BY <1>8 DEF Timeout, Terminate
  <2> QED BY <1>8, <2>2, <2>3, <2>4 DEF Timeout, TypeOK, iconvars, dragvars
<1>9. ASSUME NEW o \in Others, OtherTakes(o) PROVE TypeOK'
  <2>1. [type |-> "clear"] \in Events
    BY NewEvents
  <2> QED BY <1>9, <2>1 DEF OtherTakes, TypeOK, trayvars, iconvars, dragvars
<1>10. ASSUME NEW o \in Others, OtherDies(o) PROVE TypeOK'
  <2>1. [type |-> "olddied"] \in Events
    BY NewEvents
  <2> QED BY <1>10, <2>1 DEF OtherDies, Living, TypeOK, trayvars, iconvars, dragvars
<1>11. ASSUME NEW w \in Windows, Ask(w) PROVE TypeOK'
  <2>1. [type |-> "dock", win |-> w] \in Events
    BY NewEvents
  <2> QED BY <1>11, <2>1 DEF Ask, TypeOK, trayvars, iconvars, dragvars
<1>12. ASSUME NEW w \in Windows, Destroyed(w) \/ Leaves(w) \/ Hides(w) \/ Wants(w) PROVE TypeOK'
  <2>1. win[w] \in WinType
    BY DEF TypeOK
  <2>2. [win[w] EXCEPT !.mapped = FALSE] \in WinType
    BY <2>1, WinChanges
  <2> QED BY <1>12, <2>1, <2>2, WinChanges, IconType DEF Destroyed, Leaves, Hides, Wants, IconEvents
<1>13. ASSUME NEW t \in DragEvents, Drag(t) PROVE TypeOK'
  <2>1. [type |-> t] \in Events
    BY NewEvents
  <2> QED BY <1>13, <2>1 DEF Drag, DragEvents, TypeOK, trayvars, iconvars, dragvars
<1>14. CASE Signal
  BY <1>14, DisownType DEF Signal, SetOwner, Terminate, TypeOK, trayvars, dragvars
<1>15. CASE UNCHANGED vars
  BY <1>15 DEF vars, TypeOK, Handled, trayvars, iconvars, dragvars
<1> QED BY <1>1, <1>2, <1>3, <1>4, <1>5, <1>6, <1>7, <1>8, <1>9, <1>10, <1>11, <1>12,
           <1>13, <1>14, <1>15
        DEF Next, Program, Environment, DragEvents
-----------------------------------------------------------------------------
(* A step that does nothing about w.                                       *)
SameFor(w) ==
  /\ win'[w] = win[w] /\ winmap'[w] = winmap[w] /\ docks'[w] = docks[w]
  /\ \A c \in clients \cup clients' : c.win = w => (c \in clients <=> c \in clients')
  /\ w \in entered' => w \in entered \/ Docked(w)
  /\ Swallows(w) <=> Swallows(w)'
  /\ at = "ended" => at' = "ended"
  /\ (at = "update" /\ icon.win = w)' => at = "update" /\ icon.win = w
  /\ AlikeFor(queue, queue', w)

LEMMA SameWin ==
  ASSUME TypeOK, NEW w \in Windows, WinInv(w), SameFor(w),
         Swallows(w) => w \notin entered'
  PROVE  WinInv(w)'
<1>1. Docked(w)' <=> Docked(w)
  BY DEF Docked, SameFor
<1>2. InTray(w)' <=> InTray(w)
  BY DEF InTray, SameFor
<1>3. /\ About(queue', w, IconEvents) <=> About(queue, w, IconEvents)
      /\ About(queue', w, GoneEvents) <=> About(queue, w, GoneEvents)
      /\ About(queue', w, MapEvents) <=> About(queue, w, MapEvents)
      /\ About(queue', w, {"dock"}) <=> About(queue, w, {"dock"})
      /\ DocksTwice(queue', w) => DocksTwice(queue, w)
      /\ \A v \in BOOLEAN : Tells(queue, w, v) => Tells(queue', w, v)
  BY DEF SameFor, AlikeFor
<1>4. Fresh(w) => Fresh(w)'
  BY <1>1, <1>3 DEF Fresh, SameFor
<1>5. DockInv(w)'
  BY <1>1, <1>3, <1>4 DEF WinInv, DockInv, SameFor
<1>6. MapInv(w)'
  BY <1>1, <1>2 DEF WinInv, MapInv, SameFor
<1>7. GoneInv(w)'
  BY <1>1, <1>2, <1>3 DEF WinInv, GoneInv, SameFor
<1>8. FlagInv(w)'
  <2> SUFFICES ASSUME InTray(w)'
               PROVE  /\ Tells(queue', w, win'[w].mapped)
                      /\ \/ About(queue', w, MapEvents)
                         \/ /\ \A c \in clients' : c.win = w => c.mapped = win'[w].mapped
                            /\ Swallows(w)' => ~win'[w].mapped
    BY DEF FlagInv
  <2>1. win[w].mapped \in BOOLEAN
    BY WinChanges DEF TypeOK
  <2> QED BY <1>2, <1>3, <2>1 DEF WinInv, FlagInv, SameFor
<1> QED BY <1>5, <1>6, <1>7, <1>8 DEF WinInv

(* Steps that leave the list as it is.                                     *)
LEMMA SameList ==
  ASSUME ListInv, UNCHANGED <<clients, winmap>>
  PROVE  ListInv'
BY DEF ListInv

(* Steps that leave the tray's window as it is.                            *)
LEMMA SameShown ==
  ASSUME ShownInv, UNCHANGED <<clients, winmap, shown>>,
         \A w \in Windows : About(queue, w, MapEvents \cup GoneEvents)
                            => About(queue', w, MapEvents \cup GoneEvents)
  PROVE  ShownInv'
BY DEF ShownInv

(* Steps that take no part in a drag.                                      *)
LEMMA SameDrag ==
  ASSUME DragInv, UNCHANGED <<dnd, drag, entered>>, DragsAlike(queue, queue'),
         \A c \in clients' : c.win \in entered => \E d \in clients : d.win = c.win,
         drag \in {"none", "over"}
  PROVE  DragInv'
<1>1. Drags(queue', drag = "over")
  BY DEF DragInv, DragsAlike
<1>2. ASSUME NEW c \in clients', c.win \in entered
      PROVE  c.win = dnd /\ GoesOn(queue') /\ (Holds(queue', DragEvents) \/ drag = "over")
  <2>1. PICK d \in clients : d.win = c.win
    BY <1>2
  <2> QED BY <2>1, <1>2 DEF DragInv, DragsAlike
<1> QED BY <1>1, <1>2 DEF DragInv

(* Steps that do nothing about any icon.                                   *)
LEMMA Elsewhere ==
  ASSUME TypeOK, IconInv, UNCHANGED <<iconvars, dragvars>>,
         \A w : Swallows(w) <=> Swallows(w)', at = "ended" => at' = "ended",
         at' = "update" => at = "update" /\ icon' = icon, DragsAlike(queue, queue'),
         \A w \in Windows : AlikeFor(queue, queue', w)
  PROVE  IconInv'
<1>1. ASSUME NEW w \in Windows PROVE WinInv(w)'
  <2>1. SameFor(w)
    BY DEF SameFor, iconvars, dragvars
  <2>2. WinInv(w) /\ (Swallows(w) => w \notin entered')
    BY DEF IconInv, WinInv, DockInv, dragvars
  <2> QED BY <2>1, <2>2, SameWin
<1>2. \A w \in Windows : About(queue, w, MapEvents \cup GoneEvents)
                         => About(queue', w, MapEvents \cup GoneEvents)
  BY DEF AlikeFor
<1>3. ListInv' /\ ShownInv' /\ DragInv'
  BY <1>2, SameList, SameShown, SameDrag DEF IconInv, TypeOK, iconvars, dragvars
<1> QED BY <1>1, <1>3 DEF IconInv

LEMMA NoEvent == \A w : AlikeFor(queue, queue, w) /\ DragsAlike(queue, queue)
BY AlikeChain

LEMMA OtherEvent ==
  ASSUME TypeOK, NEW t \in {"olddied", "clear"}
  PROVE  LET q == Append(queue, [type |-> t])
         IN  (\A w : AlikeFor(queue, q, w)) /\ DragsAlike(queue, q)
<1> DEFINE e == [type |-> t]
<1>1. e \in Events /\ e.type = t
  BY NewEvents
<1>2. e.type \notin {"dock"} \cup IconEvents /\ e.type \notin DragEvents
  BY <1>1 DEF IconEvents, DragEvents
<1> HIDE DEF e
<1>3. \A w : ~Concerns(e, w)
  BY <1>2 DEF Concerns
<1>4. queue \in Seq(Events)
  BY DEF TypeOK
<1>5. (\A w : AlikeFor(queue, Append(queue, e), w)) /\ DragsAlike(queue, Append(queue, e))
  BY <1>1, <1>2, <1>3, <1>4, AppendElse, AppendNoDrag
<1> QED BY <1>5 DEF e

(* The steps about the selection.                                          *)
LEMMA SelectionSteps ==
  ASSUME TypeOK, IconInv,
         GetOwner \/ Create \/ WaitForOld \/ Created
  PROVE  IconInv'
<1>1. UNCHANGED <<iconvars, dragvars, queue, icon>> /\ at \notin {"swallow", "ended"}
  BY DEF GetOwner, Create, WaitForOld, Created
<1>2. at' \notin {"swallow", "update"}
  BY DEF GetOwner, Create, WaitForOld, Created, Manages
<1>3. DragsAlike(queue, queue')
  BY <1>1, NoEvent
<1>4. \A w : AlikeFor(queue, queue', w)
  BY <1>1, NoEvent
<1>5. \A w : Swallows(w) <=> Swallows(w)'
  BY <1>1, <1>2 DEF Swallows
<1> QED BY <1>1, <1>2, <1>3, <1>4, <1>5, Elsewhere

LEMMA OthersStep ==
  ASSUME TypeOK, IconInv,
         Timeout \/ \E o \in Others : OtherTakes(o) \/ OtherDies(o)
  PROVE  IconInv'
<1>1. UNCHANGED <<iconvars, dragvars, icon>>
  BY DEF Timeout, OtherTakes, OtherDies
<1>2. at' = at \/ (at = "loop" /\ at' = "ended")
  BY DEF Timeout, OtherTakes, OtherDies, Terminate
<1>3. \/ queue' = queue
      \/ \E t \in {"olddied", "clear"} : queue' = Append(queue, [type |-> t])
  BY DEF Timeout, OtherTakes, OtherDies
<1>4. (\A w : AlikeFor(queue, queue', w)) /\ DragsAlike(queue, queue')
  BY <1>3, NoEvent, OtherEvent
<1>5. \A w : Swallows(w) <=> Swallows(w)'
  BY <1>1, <1>2 DEF Swallows
<1> QED BY <1>1, <1>2, <1>4, <1>5, Elsewhere

LEMMA OldDiedStep ==
  ASSUME TypeOK, IconInv, at = "loop", queue # <<>>,
         Head(queue).type = "olddied", OldDied(Tail(queue))
  PROVE  IconInv'
<1>1. UNCHANGED <<iconvars, dragvars, icon>> /\ at' = "grabbed" /\ queue' = Tail(queue)
  BY DEF OldDied
<1>2. queue \in Seq(Events)
  BY DEF TypeOK
<1>3. \A w : ~Concerns(Head(queue), w)
  BY DEF Concerns, IconEvents
<1>4. Head(queue).type \notin DragEvents
  BY DEF DragEvents
<1>5. (\A w : AlikeFor(queue, queue', w)) /\ DragsAlike(queue, queue')
  BY <1>1, <1>2, <1>3, <1>4, TailElse, TailNoDrag
<1>6. \A w : Swallows(w) <=> Swallows(w)'
  BY <1>1 DEF Swallows
<1> QED BY <1>1, <1>5, <1>6, Elsewhere

(* A window asks to be docked.                                             *)
LEMMA AskStep ==
  ASSUME TypeOK, IconInv, NEW w \in Windows, Ask(w), Once'
  PROVE  IconInv'
<1> DEFINE e == [type |-> "dock", win |-> w]
<1>1. /\ UNCHANGED <<icon, at, win, clients, winmap, shown, dragvars>>
      /\ queue' = Append(queue, e) /\ docks' = [docks EXCEPT ![w] = @ + 1]
  BY DEF Ask
<1>2. docks \in [Windows -> Nat] /\ queue \in Seq(Events)
  BY DEF TypeOK
<1>3. docks[w] = 0
  BY <1>1, <1>2 DEF Once
<1>4. e \in Events /\ e.type = "dock" /\ e.win = w
  BY NewEvents
<1> HIDE DEF e
<1>5. Fresh(w) /\ ~About(queue, w, {"dock"})
  BY <1>3 DEF IconInv, WinInv, DockInv
<1>6. \A v \in Windows \ {w} : AlikeFor(queue, queue', v)
  BY <1>1, <1>2, <1>4, AppendElse DEF Concerns
<1>7. /\ \A S \in {IconEvents, MapEvents, GoneEvents, MapEvents \cup GoneEvents} :
           About(queue', w, S) <=> About(queue, w, S)
      /\ \A v \in BOOLEAN : Tells(queue, w, v) => Tells(queue', w, v)
      /\ ~DocksTwice(queue', w)
  <2>1. ASSUME NEW S \in {IconEvents, MapEvents, GoneEvents, MapEvents \cup GoneEvents}
        PROVE  About(queue', w, S) <=> About(queue, w, S)
    <3>1. "dock" \notin S
      BY DEF IconEvents, MapEvents, GoneEvents
    <3> QED BY <3>1, <1>1, <1>2, <1>4, AppendAbout
  <2>2. \A v \in BOOLEAN : Tells(queue, w, v) => Tells(queue', w, v)
    BY <1>1, <1>2, <1>4, AppendTells DEF MapEvents
  <2>3. ~DocksTwice(queue, w)
    BY <1>5 DEF DocksTwice, About
  <2>4. ~DocksTwice(queue', w)
    BY <2>3, <1>1, <1>2, <1>4, <1>5, AppendDocks
  <2> QED BY <2>1, <2>2, <2>4
<1>8. ASSUME NEW v \in Windows \ {w} PROVE WinInv(v)'
  <2>1. SameFor(v)
    BY <1>1, <1>2, <1>6 DEF SameFor, Swallows, dragvars
  <2>2. WinInv(v) /\ (Swallows(v) => v \notin entered')
    BY <1>1 DEF IconInv, WinInv, DockInv, dragvars
  <2> QED BY <2>1, <2>2, SameWin
<1>9. WinInv(w)'
  <2>1. Fresh(w)'
    BY <1>1, <1>5, <1>7 DEF Fresh, Docked, Swallows, dragvars
  <2>2. docks'[w] = 1
    BY <1>1, <1>2, <1>3
  <2>3. DockInv(w)'
    BY <2>1, <2>2, <1>7 DEF DockInv, Fresh
  <2>4. MapInv(w)' /\ GoneInv(w)'
    BY <2>1, <1>1, <1>5, <1>7 DEF IconInv, WinInv, MapInv, GoneInv, Fresh, InTray, Docked, Swallows
  <2>5. FlagInv(w)'
    BY <2>1 DEF FlagInv, InTray, Fresh
  <2> QED BY <2>3, <2>4, <2>5 DEF WinInv
<1>10. \A v \in Windows : About(queue, v, MapEvents \cup GoneEvents)
                          => About(queue', v, MapEvents \cup GoneEvents)
  BY <1>6, <1>7 DEF AlikeFor
<1>11. DragsAlike(queue, queue')
  BY <1>1, <1>2, <1>4, AppendNoDrag DEF DragEvents
<1>12. ListInv' /\ ShownInv' /\ DragInv'
  BY <1>1, <1>10, <1>11, SameList, SameShown, SameDrag DEF IconInv, TypeOK, dragvars
<1> QED BY <1>8, <1>9, <1>12 DEF IconInv

(* A program changes a window of its own.                                  *)
LEMMA IconElse ==
  ASSUME TypeOK, IconInv, NEW w \in Windows, NEW new, NEW t \in IconEvents, Icon(w, new, t)
  PROVE  /\ \A v \in Windows \ {w} : WinInv(v)'
         /\ ListInv' /\ DragInv'
         /\ (\A S \in {MapEvents \cup GoneEvents} :
                About(queue, w, S) => About(queue', w, S)) => ShownInv'
<1> DEFINE e == [type |-> t, win |-> w]
<1>1. /\ UNCHANGED <<icon, at, clients, winmap, shown, docks, dragvars>>
      /\ queue' = queue \/ queue' = Append(queue, e)
      /\ win' = [win EXCEPT ![w] = new]
  BY DEF Icon
<1>2. win \in [Windows -> WinType] /\ queue \in Seq(Events)
  BY DEF TypeOK
<1>3. e \in Events /\ e.type = t /\ e.win = w
  BY NewEvents
<1> HIDE DEF e
<1>4. t \notin DragEvents
  BY DEF DragEvents, IconEvents
<1>5. DragsAlike(queue, queue')
  BY <1>1, <1>2, <1>3, <1>4, AppendNoDrag, NoEvent
<1>6. \A v \in Windows \ {w} : AlikeFor(queue, queue', v)
  BY <1>1, <1>2, <1>3, AppendElse, NoEvent DEF Concerns
<1>7. ASSUME NEW v \in Windows \ {w} PROVE WinInv(v)'
  <2>1. SameFor(v)
    BY <1>1, <1>2, <1>6 DEF SameFor, Swallows, dragvars
  <2>2. WinInv(v) /\ (Swallows(v) => v \notin entered')
    BY <1>1 DEF IconInv, WinInv, DockInv, dragvars
  <2> QED BY <2>1, <2>2, SameWin
<1>8. ListInv' /\ DragInv'
  BY <1>1, <1>5, SameList, SameDrag DEF IconInv, TypeOK, dragvars
<1>9. ASSUME About(queue, w, MapEvents \cup GoneEvents) => About(queue', w, MapEvents \cup GoneEvents)
      PROVE  ShownInv'
  BY <1>1, <1>6, <1>9, SameShown DEF IconInv, AlikeFor
<1> QED BY <1>7, <1>8, <1>9

(* What its window hears of it.                                            *)
LEMMA IconHears ==
  ASSUME TypeOK, NEW w \in Windows, NEW t \in IconEvents, NEW new, Icon(w, new, t)
  PROVE  /\ win[w].home = "tray" =>
              /\ \A S : About(queue', w, S) <=> About(queue, w, S) \/ t \in S
              /\ t \notin MapEvents =>
                   \A v \in BOOLEAN : Tells(queue, w, v) => Tells(queue', w, v)
              /\ t = "unmap" => Tells(queue', w, FALSE)
         /\ win[w].home # "tray" => queue' = queue
         /\ ~DocksTwice(queue, w) => ~DocksTwice(queue', w)
<1> DEFINE e == [type |-> t, win |-> w]
<1>1. queue' = IF win[w].home = "tray" THEN Append(queue, e) ELSE queue
  BY DEF Icon
<1>2. queue \in Seq(Events)
  BY DEF TypeOK
<1>3. e \in Events /\ e.type = t /\ e.win = w
  BY NewEvents
<1> HIDE DEF e
<1>4. t # "dock"
  BY DEF IconEvents
<1>5. CASE win[w].home = "tray"
  <2>1. queue' = Append(queue, e)
    BY <1>1, <1>5
  <2>2. \A S : About(queue', w, S) <=> About(queue, w, S) \/ t \in S
    BY <2>1, <1>2, <1>3, AppendAbout
  <2>3. t \notin MapEvents => \A v \in BOOLEAN : Tells(queue, w, v) => Tells(queue', w, v)
    BY <2>1, <1>2, <1>3, AppendTells
  <2>4. t = "unmap" => Tells(queue', w, FALSE)
    BY <2>1, <1>2, <1>3, AppendTells DEF MapEvents
  <2>5. ~DocksTwice(queue, w) => ~DocksTwice(queue', w)
    BY <2>1, <1>2, <1>3, <1>4, AppendDocks
  <2> QED BY <1>5, <2>2, <2>3, <2>4, <2>5
<1>6. CASE win[w].home # "tray"
  BY <1>1, <1>6
<1> QED BY <1>5, <1>6

(* What is the same of all that programs do with their windows.            *)
IconChange(w, new, t) ==
  /\ Icon(w, new, t)
  /\ new.home = win[w].home \/ (new.home = "root" /\ t = "left" /\ win[w].home = "tray")
  /\ t \in GoneEvents => ~(new.live /\ new.home = "tray")
  /\ t \notin GoneEvents => new.live = win[w].live /\ new.home = win[w].home
  /\ t = "unmap" => new.mapped = FALSE
  /\ t = "info" => new.mapped = win[w].mapped
  /\ new.live => win[w].live

LEMMA IconStep ==
  ASSUME TypeOK, IconInv, NEW w \in Windows,
         Destroyed(w) \/ Leaves(w) \/ Hides(w) \/ Wants(w)
  PROVE  IconInv'
<1>a. \E new : \E t \in {"unmap", "info", "destroy", "left"} : IconChange(w, new, t)
  <2> DEFINE r == win[w]
  <2>1. r \in WinType
    BY DEF TypeOK
  <2> HIDE DEF r
  <2>2. CASE Destroyed(w)
    <3> DEFINE new == [r EXCEPT !.live = FALSE, !.mapped = FALSE]
    <3>1. new.live = FALSE /\ new.home = r.home
      BY <2>1 DEF WinType
    <3>2. Icon(w, new, "destroy")
      BY <2>2 DEF Destroyed, r
    <3> HIDE DEF new
    <3>3. IconChange(w, new, "destroy")
      BY <3>1, <3>2 DEF IconChange, GoneEvents, r
    <3> QED BY <3>3
  <2>3. CASE Leaves(w)
    <3> DEFINE new == [r EXCEPT !.home = "root"]
    <3>1. new.live = r.live /\ new.home = "root"
      BY <2>1 DEF WinType
    <3>2. Icon(w, new, "left") /\ r.home = "tray"
      BY <2>3 DEF Leaves, r
    <3> HIDE DEF new
    <3>3. IconChange(w, new, "left")
      BY <3>1, <3>2 DEF IconChange, GoneEvents, r
    <3> QED BY <3>3
  <2>4. CASE Hides(w)
    <3> DEFINE new == [r EXCEPT !.mapped = FALSE]
    <3>1. new.live = r.live /\ new.home = r.home /\ new.mapped = FALSE
      BY <2>1 DEF WinType
    <3>2. Icon(w, new, "unmap")
      BY <2>4 DEF Hides, r
    <3> HIDE DEF new
    <3>3. IconChange(w, new, "unmap")
      BY <3>1, <3>2 DEF IconChange, GoneEvents, r
    <3> QED BY <3>3
  <2>5. CASE Wants(w)
    <3> DEFINE new == [r EXCEPT !.wants = ~@]
    <3>1. new.live = r.live /\ new.home = r.home /\ new.mapped = r.mapped
      BY <2>1 DEF WinType
    <3>2. Icon(w, new, "info")
      BY <2>5 DEF Wants, r
    <3> HIDE DEF new
    <3>3. IconChange(w, new, "info")
      BY <3>1, <3>2 DEF IconChange, GoneEvents, r
    <3> QED BY <3>3
  <2> QED BY <2>2, <2>3, <2>4, <2>5
<1> PICK new : \E t \in {"unmap", "info", "destroy", "left"} : IconChange(w, new, t)
  BY <1>a
<1> PICK t \in {"unmap", "info", "destroy", "left"} : IconChange(w, new, t)
  OBVIOUS
<1>b. /\ t \in IconEvents /\ Icon(w, new, t)
      /\ new.home = win[w].home \/ (new.home = "root" /\ t = "left" /\ win[w].home = "tray")
      /\ t \in GoneEvents => ~(new.live /\ new.home = "tray")
      /\ t \notin GoneEvents => new.live = win[w].live /\ new.home = win[w].home
      /\ t = "unmap" => new.mapped = FALSE
      /\ t = "info" => new.mapped = win[w].mapped
      /\ new.live => win[w].live
  BY DEF IconChange, IconEvents
<1> USE <1>b
<1>1. /\ UNCHANGED <<icon, at, clients, winmap, shown, docks, dragvars>>
      /\ win'[w] = new /\ docks[w] > 0 /\ win[w].live /\ docks[w] \in Nat
  BY DEF Icon, TypeOK
<1>2. WinInv(w) /\ DockInv(w) /\ MapInv(w) /\ GoneInv(w) /\ FlagInv(w)
  BY DEF IconInv, WinInv
<1>3. win[w].home \in {"root", "tray"} /\ win[w].mapped \in BOOLEAN
  BY WinChanges DEF TypeOK
<1>4. \A S : About(queue, w, S) => About(queue', w, S)
  BY <1>3, IconHears
<1>5. "dock" \notin IconEvents /\ t \in {"unmap"} \cup GoneEvents \cup {"info"}
  BY DEF IconEvents, GoneEvents
<1>6. win[w].home = "tray" =>
        /\ About(queue', w, {"dock"}) <=> About(queue, w, {"dock"})
        /\ t \in GoneEvents => About(queue', w, GoneEvents)
        /\ t \notin GoneEvents => (About(queue', w, GoneEvents) <=> About(queue, w, GoneEvents))
        /\ t = "unmap" => About(queue', w, MapEvents) /\ Tells(queue', w, FALSE)
        /\ t = "info" => \A v \in BOOLEAN : Tells(queue, w, v) => Tells(queue', w, v)
  BY <1>5, IconHears DEF MapEvents
<1>7. win[w].home # "tray" => queue' = queue
  BY IconHears
<1>8. Docked(w)' = Docked(w) /\ Swallows(w)' = Swallows(w)
  BY <1>1 DEF Docked, Swallows
<1>9. InTray(w)' => InTray(w) /\ t \notin GoneEvents
  BY <1>1, <1>3 DEF InTray
<1>10. DockInv(w)'
  <2>1. win[w].home = "tray" => ~Fresh(w)
    BY DEF Fresh
  <2>2. win[w].home # "tray" => (Fresh(w) => Fresh(w)')
    BY <1>1, <1>3, <1>7, <1>8 DEF Fresh, dragvars
  <2>3. CASE win[w].home = "tray"
    BY <2>1, <2>3, <1>1, <1>2, <1>6, <1>8 DEF DockInv, dragvars
  <2>4. CASE win[w].home # "tray"
    BY <2>2, <2>4, <1>1, <1>2, <1>7, <1>8 DEF DockInv, dragvars
  <2> QED BY <2>3, <2>4
<1>11. MapInv(w)'
  BY <1>1, <1>2, <1>8, <1>9 DEF MapInv
<1>12. GoneInv(w)'
  <2>1. CASE t \in GoneEvents /\ win[w].home = "tray"
    BY <2>1, <1>6, <1>9 DEF GoneInv
  <2>2. CASE t \in GoneEvents /\ win[w].home # "tray"
    BY <2>2, <1>1, <1>2, <1>7, <1>8, <1>9 DEF GoneInv, InTray
  <2>3. CASE t \notin GoneEvents
    <3>1. InTray(w)' <=> InTray(w)
      BY <2>3, <1>1 DEF InTray
    <3>2. About(queue', w, GoneEvents) <=> About(queue, w, GoneEvents)
      BY <2>3, <1>6, <1>7
    <3> QED BY <3>1, <3>2, <2>3, <1>1, <1>2, <1>8 DEF GoneInv
  <2> QED BY <2>1, <2>2, <2>3
<1>13. FlagInv(w)'
  <2> SUFFICES ASSUME InTray(w)' PROVE FlagInv(w)'
    BY DEF FlagInv
  <2>1. win[w].home = "tray" /\ t \in {"unmap", "info"} /\ InTray(w)
    BY <1>5, <1>9 DEF InTray
  <2>2. CASE t = "unmap"
    BY <2>1, <2>2, <1>1, <1>6 DEF FlagInv
  <2>3. CASE t = "info"
    <3>1. Tells(queue', w, win'[w].mapped)
      BY <2>1, <2>3, <1>1, <1>2, <1>3, <1>6 DEF FlagInv
    <3> QED BY <3>1, <2>1, <2>3, <1>1, <1>2, <1>4, <1>8 DEF FlagInv
  <2> QED BY <2>1, <2>2, <2>3
<1>14. ListInv' /\ DragInv' /\ ShownInv' /\ \A v \in Windows \ {w} : WinInv(v)'
  BY <1>4, IconElse
<1> QED BY <1>10, <1>11, <1>12, <1>13, <1>14 DEF IconInv, WinInv

(* Somebody drags over the tray.                                           *)
LEMMA DragStep ==
  ASSUME TypeOK, IconInv, NEW t \in DragEvents, Drag(t)
  PROVE  IconInv'
<1> DEFINE e == [type |-> t]
<1>1. /\ UNCHANGED <<icon, at, win, clients, winmap, shown, docks, dnd, entered>>
      /\ queue' = Append(queue, e)
  BY DEF Drag, iconvars
<1>2. queue \in Seq(Events) /\ drag \in {"none", "over"}
  BY DEF TypeOK
<1>3. e \in Events /\ e.type = t
  BY NewEvents
<1> HIDE DEF e
<1>4. t \notin {"dock"} \cup IconEvents
  BY DEF DragEvents, IconEvents
<1>5. \A w : AlikeFor(queue, queue', w)
  BY <1>1, <1>2, <1>3, <1>4, AppendElse DEF Concerns
<1>6. ASSUME NEW w \in Windows PROVE WinInv(w)'
  <2>1. SameFor(w)
    BY <1>1, <1>5 DEF SameFor, Swallows
  <2>2. WinInv(w) /\ (Swallows(w) => w \notin entered')
    BY <1>1 DEF IconInv, WinInv, DockInv
  <2> QED BY <2>1, <2>2, SameWin
<1>7. ListInv' /\ ShownInv'
  BY <1>1, <1>5, SameList, SameShown DEF IconInv, AlikeFor
<1>8. /\ (drag = "over") = (t # "enter")
      /\ (drag' = "over") = (t \in OverEvents)
  BY <1>2 DEF Drag, DragEvents, OverEvents
<1>9. DragInv'
  <2>1. Drags(queue, drag = "over")
    BY DEF IconInv, DragInv
  <2>2. Drags(queue', t \in OverEvents)
    BY <2>1, <1>1, <1>2, <1>3, <1>8, AppendDrags
  <2>3. Drags(queue', drag' = "over")
    BY <2>2, <1>8
  <2>4. ASSUME NEW c \in clients, c.win \in entered
        PROVE  c.win = dnd /\ GoesOn(queue') /\ Holds(queue', DragEvents)
    <3>1. c.win = dnd /\ GoesOn(queue) /\ (Holds(queue, DragEvents) \/ drag = "over")
      BY <2>4 DEF IconInv, DragInv
    <3>2. GoesOn(queue')
      BY <3>1, <1>1, <1>2, <1>3, <1>8, AppendGoesOn
    <3>3. Holds(queue', DragEvents)
      BY <1>1, <1>2, <1>3, AppendHolds
    <3> QED BY <3>1, <3>2, <3>3
  <2> QED BY <2>3, <2>4, <1>1 DEF DragInv
<1> QED BY <1>6, <1>7, <1>9 DEF IconInv

(* The tray hears of it.                                                   *)
LEMMA DragEventStep ==
  ASSUME TypeOK, IconInv, at = "loop", queue # <<>>,
         Head(queue).type \in DragEvents, DragEvent(Head(queue), Tail(queue))
  PROVE  IconInv'
<1> DEFINE t == Head(queue).type
<1>1. /\ UNCHANGED <<icon, at, win, clients, winmap, shown, docks, drag>>
      /\ queue' = Tail(queue)
  BY DEF DragEvent, iconvars
<1>2. queue \in Seq(Events) /\ drag \in {"none", "over"}
  BY DEF TypeOK
<1>3. t \notin {"dock"} \cup IconEvents
  BY DEF DragEvents, IconEvents
<1>4. \A w : AlikeFor(queue, queue', w)
  BY <1>1, <1>2, <1>3, TailElse DEF Concerns
<1>5. /\ t = "enter" => dnd' = "any" /\ entered' = entered
      /\ t = "position" =>
           \E dest \in {c.win : c \in clients} \cup {Nil} :
             IF dest = dnd THEN dnd' = dnd /\ entered' = entered
             ELSE dnd' = dest /\ entered' = (entered \ {dnd}) \cup ({dest} \cap Windows)
      /\ t = "leave" => dnd' = dnd /\ entered' = entered \ {dnd}
      /\ t = "drop" =>
           /\ dnd' = dnd
           /\ entered' = IF \E c \in clients : c.win = dnd THEN entered \ {dnd} ELSE entered
      /\ t \in {"enter", "position", "leave", "drop"}
  <2>1. t = "enter" => dnd' = "any" /\ entered' = entered
    BY DEF DragEvent, DndEnter
  <2>2. ASSUME t = "position"
        PROVE  \E dest \in {c.win : c \in clients} \cup {Nil} :
                 IF dest = dnd THEN dnd' = dnd /\ entered' = entered
                 ELSE dnd' = dest /\ entered' = (entered \ {dnd}) \cup ({dest} \cap Windows)
    BY <2>2 DEF DragEvent, DndPosition, UpdateStatus
  <2>3. t = "leave" => dnd' = dnd /\ entered' = entered \ {dnd}
    BY DEF DragEvent, DndLeave
  <2>4. t = "drop" =>
           /\ dnd' = dnd
           /\ entered' = IF \E c \in clients : c.win = dnd THEN entered \ {dnd} ELSE entered
    BY DEF DragEvent, DndDrop
  <2> QED BY <2>1, <2>2, <2>3, <2>4 DEF DragEvents
<1>6. \A w \in Windows : w \in entered' => w \in entered \/ Docked(w)
  <2> SUFFICES ASSUME NEW w \in Windows, w \in entered', w \notin entered
               PROVE  \E c \in clients : c.win = w
    BY DEF Docked
  <2>1. Nil \notin Windows
    BY TrayAssumption
  <2>2. t = "position"
    BY <1>5
  <2>3. PICK dest \in {c.win : c \in clients} \cup {Nil} :
          IF dest = dnd THEN entered' = entered
          ELSE entered' = (entered \ {dnd}) \cup ({dest} \cap Windows)
    BY <1>5, <2>2
  <2>4. w = dest
    BY <2>3
  <2> QED BY <2>1, <2>3, <2>4
<1>7. ASSUME NEW w \in Windows PROVE WinInv(w)'
  <2>1. SameFor(w)
    BY <1>1, <1>4, <1>6 DEF SameFor, Swallows
  <2>2. WinInv(w) /\ (Swallows(w) => w \notin entered')
    BY DEF IconInv, Swallows
  <2> QED BY <2>1, <2>2, SameWin
<1>8. ListInv' /\ ShownInv'
  BY <1>1, <1>4, SameList, SameShown DEF IconInv, AlikeFor
<1>9. DragInv'
  <2>1. Drags(queue, drag = "over")
    BY DEF IconInv, DragInv
  <2>2. /\ Drags(queue', drag' = "over")
        /\ t \in OverEvents => GoesOn(queue') /\ (Holds(queue', DragEvents) \/ drag = "over")
    BY <2>1, <1>1, <1>2, TailDrags
  <2>3. ASSUME NEW c \in clients, c.win \in entered
        PROVE  c.win = dnd /\ t # "enter"
    <3>1. c.win = dnd /\ GoesOn(queue)
      BY <2>3 DEF IconInv, DragInv
    <3>2. t # "enter"
      BY <3>1, <1>2, TailGoesOn
    <3> QED BY <3>1, <3>2
  <2>4. ASSUME NEW c \in clients, c.win \in entered' PROVE c.win = dnd' /\ t = "position"
    <3>1. CASE t = "enter"
      BY <3>1, <2>3, <2>4, <1>5
    <3>2. CASE t = "position"
      BY <3>2, <2>3, <2>4, <1>5
    <3>3. CASE t = "leave"
      BY <3>3, <2>3, <2>4, <1>5
    <3>4. CASE t = "drop"
      BY <3>4, <2>3, <2>4, <1>5
    <3> QED BY <3>1, <3>2, <3>3, <3>4, <1>5
  <2>5. t = "position" => t \in OverEvents
    BY DEF OverEvents
  <2> HIDE DEF t
  <2> QED BY <2>2, <2>4, <2>5, <1>1 DEF DragInv
<1> QED BY <1>7, <1>8, <1>9 DEF IconInv

(* The client of a window, and its address.                                *)
LEMMA HandledOne ==
  ASSUME TypeOK, IconInv, NEW w \in Windows
  PROVE  /\ Handled(w) = {c \in clients : c.win = w}
         /\ winmap[w] # Nil <=> Docked(w)
         /\ \A c, d \in clients : c.win = w /\ d.win = w => c = d
<1>1. \A c \in clients : c.addr # Nil /\ c.win \in Windows
  BY ClientChanges, TrayAssumption DEF TypeOK
<1>2. /\ \A c, d \in clients : c.addr = d.addr \/ c.win = d.win => c = d
      /\ \A c \in clients : winmap[c.win] = c.addr
  BY DEF IconInv, ListInv
<1>3. winmap[w] # Nil => \E c \in clients : c.win = w
  BY DEF IconInv, WinInv, MapInv, Docked
<1>4. \A c \in clients : c.addr = winmap[w] <=> c.win = w
  BY <1>1, <1>2, <1>3
<1> QED BY <1>1, <1>2, <1>3, <1>4 DEF Handled, Docked

(* A window is docked.                                                     *)
LEMMA DockStep ==
  ASSUME TypeOK, IconInv, at = "loop", queue # <<>>, NEW w \in Windows,
         Head(queue).type = "dock", Head(queue).win = w, Dock(w, Tail(queue))
  PROVE  IconInv'
<1> DEFINE rest == Tail(queue)
<1>1. queue \in Seq(Events) /\ rest \in Seq(Events)
  BY TailIndex DEF TypeOK
<1>2. \A v \in Windows \ {w} : AlikeFor(queue, rest, v)
  BY <1>1, TailElse DEF Concerns
<1>3. DragsAlike(queue, rest)
  BY <1>1, TailNoDrag DEF DragEvents
<1>4. Fresh(w) /\ ~DocksTwice(queue, w) /\ About(queue, w, {"dock"})
  <2>1. About(queue, w, {"dock"})
    BY <1>1, TailAbout
  <2> QED BY <2>1, <1>1 DEF IconInv, WinInv, DockInv
<1>5. ~About(rest, w, {"dock"})
  BY <1>1, <1>4, TailDocks
<1>6. \A S : "dock" \notin S => (About(rest, w, S) <=> About(queue, w, S))
  BY <1>1, TailAbout
<1>7. UNCHANGED <<clients, winmap, shown, docks, dragvars>>
  BY DEF Dock
<1>8. \A S \in {IconEvents, MapEvents, GoneEvents} : ~About(rest, w, S)
  <2>1. "dock" \notin IconEvents /\ MapEvents \subseteq IconEvents /\ GoneEvents \subseteq IconEvents
    BY DEF IconEvents, MapEvents, GoneEvents
  <2>2. ~About(rest, w, IconEvents)
    BY <2>1, <1>4, <1>6 DEF Fresh
  <2> QED BY <2>1, <2>2, AboutMore
<1>9. docks[w] # 0
  BY <1>1, <1>4 DEF IconInv, WinInv, DockInv
<1>10. (\E v \in Windows : winmap[v] # Nil /\ About(queue, v, MapEvents \cup GoneEvents))
       => \E v \in Windows : winmap[v] # Nil /\ About(rest, v, MapEvents \cup GoneEvents)
  <2> SUFFICES ASSUME NEW v \in Windows, winmap[v] # Nil,
                      About(queue, v, MapEvents \cup GoneEvents)
               PROVE  About(rest, v, MapEvents \cup GoneEvents)
    OBVIOUS
  <2>1. v # w
    BY <1>4 DEF Fresh
  <2>2. AlikeFor(queue, rest, v)
    BY <2>1, <1>2
  <2> QED BY <2>2 DEF AlikeFor
<1>11. ~Docked(w) /\ winmap[w] = Nil /\ w \notin entered
  BY <1>4 DEF Fresh
<1>12. win \in [Windows -> WinType] /\ win[w] \in WinType
  BY <1>1 DEF TypeOK
<1> HIDE DEF rest
<1>20. CASE selection # "managing"
  <2>1. queue' = rest /\ UNCHANGED <<at, icon, win>>
    BY <1>20 DEF Dock, rest
  <2>2. ASSUME NEW v \in Windows \ {w} PROVE WinInv(v)'
    <3>1. SameFor(v)
      BY <2>1, <1>2, <1>7 DEF SameFor, Swallows, dragvars
    <3> QED BY <3>1, SameWin DEF IconInv, Swallows
  <2>3. WinInv(w)'
    <3>1. Fresh(w)'
      BY <2>1, <1>4, <1>7, <1>8 DEF Fresh, Docked, Swallows, dragvars
    <3> QED BY <3>1, <2>1, <1>5, <1>7, <1>8, <1>9, <1>11
            DEF WinInv, DockInv, MapInv, GoneInv, FlagInv, Fresh, InTray, Docked, Swallows
  <2>4. ListInv' /\ DragInv'
    BY <2>1, <1>3, <1>7, SameList, SameDrag DEF IconInv, TypeOK, dragvars
  <2>5. ShownInv'
    <3> DEFINE A == shown <=> \E c \in clients : c.mapped
    <3> DEFINE B(q) == \E v \in Windows : winmap[v] # Nil /\ About(q, v, MapEvents \cup GoneEvents)
    <3>1. A \/ B(queue)
      BY DEF IconInv, ShownInv
    <3>2. B(queue) => B(rest)
      BY <1>10
    <3>3. A => ShownInv'
      BY <2>1, <1>7 DEF ShownInv
    <3>4. B(rest) => ShownInv'
      BY <2>1, <1>7 DEF ShownInv
    <3> HIDE DEF A, B
    <3> QED BY <3>1, <3>2, <3>3, <3>4
  <2> QED BY <2>2, <2>3, <2>4, <2>5 DEF IconInv
<1>21. CASE selection = "managing"
  <2>1. Swallow(w, rest)
    BY <1>21 DEF Dock, rest
  <2>2. at' = "swallow" /\ icon'.win = w
    BY <2>1 DEF Swallow
  <2>3. /\ win'[w].live = win[w].live /\ win'[w].mapped = win[w].mapped
        /\ win[w].live => win'[w].home = "tray"
        /\ ~win[w].live => win' = win
        /\ \A v \in Windows \ {w} : win'[v] = win[v]
    <3>1. CASE win[w].live
      <4>1. win' = [win EXCEPT ![w].home = "tray"]
        BY <2>1, <3>1 DEF Swallow
      <4>2. win'[w] = [win[w] EXCEPT !.home = "tray"]
        BY <4>1, <1>1, <1>12
      <4> QED BY <4>1, <4>2, <3>1, <1>1, <1>12 DEF WinType
    <3>2. CASE ~win[w].live
      BY <2>1, <3>2 DEF Swallow
    <3> QED BY <3>1, <3>2
  <2> DEFINE u == [type |-> "unmap", win |-> w]
  <2> DEFINE m == [type |-> "map", win |-> w]
  <2>4. queue' = IF win[w].live /\ win[w].mapped THEN Append(Append(rest, u), m) ELSE rest
    <3>1. CASE win[w].live /\ win[w].mapped
      <4>1. queue' = rest \o <<u, m>>
        BY <2>1, <3>1 DEF Swallow
      <4> QED BY <4>1, <3>1, <1>1
    <3>2. CASE ~(win[w].live /\ win[w].mapped)
      <4>1. queue' = rest \/ queue' = rest \o <<>>
        BY <2>1, <3>2 DEF Swallow
      <4> QED BY <4>1, <3>2, <1>1
    <3> QED BY <3>1, <3>2
  <2>5. /\ u \in Events /\ u.type = "unmap" /\ u.win = w
        /\ m \in Events /\ m.type = "map" /\ m.win = w
    BY <1>1, NewEvents DEF IconEvents
  <2> HIDE DEF u, m
  <2>6. Append(rest, u) \in Seq(Events)
    BY <1>1, <2>5
  <2>7. ASSUME NEW v \in Windows \ {w} PROVE AlikeFor(queue, queue', v)
    <3>1. AlikeFor(rest, Append(rest, u), v) /\ AlikeFor(Append(rest, u), Append(Append(rest, u), m), v)
      BY <1>1, <2>5, <2>6, AppendElse DEF Concerns
    <3>2. AlikeFor(queue, rest, v)
      BY <1>2
    <3> QED BY <3>1, <3>2, <2>4, AlikeChain
  <2>8. DragsAlike(queue, queue')
    <3>1. DragsAlike(rest, Append(rest, u)) /\ DragsAlike(Append(rest, u), Append(Append(rest, u), m))
      BY <1>1, <2>5, <2>6, AppendNoDrag DEF DragEvents
    <3> QED BY <3>1, <1>3, <2>4, AlikeChain
  <2>9. /\ ~About(queue', w, {"dock"}) /\ ~About(queue', w, GoneEvents)
        /\ win[w].live => Tells(queue', w, win[w].mapped)
        /\ win[w].live /\ win[w].mapped => About(queue', w, MapEvents)
    <3>1. /\ "map" \notin GoneEvents /\ "unmap" \notin GoneEvents
          /\ "map" \in MapEvents
      BY DEF MapEvents, GoneEvents
    <3>2. CASE win[w].live /\ win[w].mapped
      <4>1. queue' = Append(Append(rest, u), m) /\ win[w].mapped = TRUE
        BY <3>2, <2>4, <1>12 DEF WinType
      <4>2. \A S : About(queue', w, S) <=> About(rest, w, S) \/ "unmap" \in S \/ "map" \in S
        <5>1. \A S : About(queue', w, S) <=> About(Append(rest, u), w, S) \/ "map" \in S
          BY <4>1, <2>5, <2>6, AppendAbout
        <5>2. \A S : About(Append(rest, u), w, S) <=> About(rest, w, S) \/ "unmap" \in S
          BY <1>1, <2>5, AppendAbout
        <5> QED BY <5>1, <5>2
      <4>3. Tells(queue', w, TRUE)
        BY <4>1, <1>1, <2>5, <2>6, <3>1, AppendTells
      <4> QED BY <4>1, <4>2, <4>3, <3>1, <1>5, <1>8
    <3>3. CASE ~(win[w].live /\ win[w].mapped)
      BY <3>3, <2>4, <1>1, <1>5, <1>8, NoneTells
    <3> QED BY <3>2, <3>3
  <2>10. ASSUME NEW v \in Windows \ {w} PROVE WinInv(v)'
    <3>1. SameFor(v)
      BY <2>2, <2>3, <2>7, <1>7 DEF SameFor, Swallows, dragvars
    <3> QED BY <3>1, SameWin DEF IconInv, Swallows
  <2>11. WinInv(w)'
    <3>1. ~Docked(w)' /\ winmap'[w] = Nil /\ w \notin entered' /\ Swallows(w)' /\ docks'[w] # 0
      BY <1>7, <1>9, <1>11, <2>2 DEF Docked, Swallows, dragvars
    <3>2. DockInv(w)'
      BY <3>1, <2>9 DEF DockInv
    <3>3. MapInv(w)'
      BY <3>1, <2>2 DEF MapInv
    <3>4. GoneInv(w)'
      BY <3>1, <2>3, <2>9 DEF GoneInv
    <3>5. FlagInv(w)'
      BY <3>1, <2>3, <2>9 DEF FlagInv, InTray, Docked
    <3> QED BY <3>2, <3>3, <3>4, <3>5 DEF WinInv
  <2>12. ListInv' /\ DragInv'
    BY <2>8, <1>7, SameList, SameDrag DEF IconInv, TypeOK, dragvars
  <2>13. ShownInv'
    <3>1. \A v \in Windows : winmap[v] # Nil => v # w
      BY <1>11
    <3> QED BY <3>1, <2>7, <1>7 DEF IconInv, ShownInv, AlikeFor
  <2> QED BY <2>10, <2>11, <2>12, <2>13 DEF IconInv
<1> QED BY <1>20, <1>21

(* What setting the flag of a client does to the list.                     *)
LEMMA SetOne ==
  ASSUME TypeOK, IconInv, NEW w \in Windows, NEW flag \in BOOLEAN, SetMapped(w, flag)
  PROVE  /\ \A c \in clients : c.win # w => c \in clients'
         /\ \A c \in clients' : c.win # w => c \in clients
         /\ \A c \in clients' : c.win = w => c.mapped = flag
         /\ \A c \in clients : c.win = w => \E d \in clients' : d.win = w /\ d.addr = c.addr
         /\ \A c \in clients' : \E d \in clients : d.win = c.win /\ d.addr = c.addr
         /\ \A c, d \in clients' : c.addr = d.addr \/ c.win = d.win => c = d
<1>1. /\ Handled(w) = {c \in clients : c.win = w}
      /\ \A c, d \in clients : c.win = w /\ d.win = w => c = d
  BY HandledOne
<1>2. ASSUME NEW c \in clients
      PROVE  LET d == [c EXCEPT !.mapped = flag]
             IN  d.win = c.win /\ d.addr = c.addr /\ d.mapped = flag
  <2>1. c \in ClientType
    BY DEF TypeOK
  <2> QED BY <2>1 DEF ClientType
<1>3. \A c \in clients : c.win # w => c \in clients'
  BY <1>1 DEF SetMapped
<1>4. \A c \in clients' : \/ c \in clients /\ c.win # w
                          \/ \E d \in clients : d.win = w /\ c = [d EXCEPT !.mapped = flag]
  BY <1>1 DEF SetMapped
<1>5. \A c \in clients : c.win = w => [c EXCEPT !.mapped = flag] \in clients'
  BY <1>1 DEF SetMapped
<1>6. \A c, d \in clients : c.addr = d.addr \/ c.win = d.win => c = d
  BY DEF IconInv, ListInv
<1>7. \A c \in clients' : \E d \in clients : d.win = c.win /\ d.addr = c.addr
  BY <1>2, <1>4
<1>8. \A c \in clients' : c.win # w => c \in clients
  BY <1>2, <1>4
<1>9. \A c \in clients' : c.win = w => c.mapped = flag
  BY <1>2, <1>4
<1>10. \A c \in clients : c.win = w => \E d \in clients' : d.win = w /\ d.addr = c.addr
  BY <1>2, <1>5
<1>11. ASSUME NEW c \in clients', NEW d \in clients', c.addr = d.addr \/ c.win = d.win
       PROVE  c = d
  <2>1. PICK x \in clients : x.win = c.win /\ x.addr = c.addr
    BY <1>7
  <2>2. PICK y \in clients : y.win = d.win /\ y.addr = d.addr
    BY <1>7
  <2>3. x = y
    BY <2>1, <2>2, <1>6, <1>11
  <2>4. c.win = d.win
    BY <2>1, <2>2, <2>3
  <2>5. CASE c.win # w
    BY <2>4, <2>5, <1>6, <1>8
  <2>6. CASE c.win = w
    <3>1. PICK a \in clients : a.win = w /\ c = [a EXCEPT !.mapped = flag]
      BY <2>6, <1>4
    <3>2. PICK b \in clients : b.win = w /\ d = [b EXCEPT !.mapped = flag]
      BY <2>4, <2>6, <1>4
    <3>3. a = b
      BY <3>1, <3>2, <1>1
    <3> QED BY <3>1, <3>2, <3>3
  <2> QED BY <2>5, <2>6
<1> QED BY <1>3, <1>7, <1>8, <1>9, <1>10, <1>11

(* An event of a docked window.                                            *)
LEMMA IconEventStep ==
  ASSUME TypeOK, IconInv, at = "loop", queue # <<>>, NEW e \in Events, NEW w \in Windows,
         Head(queue) = e, e.win = w, e.type \in IconEvents, IconEvent(e, Tail(queue))
  PROVE  IconInv'
<1> DEFINE rest == Tail(queue)
<1>1. queue \in Seq(Events) /\ rest \in Seq(Events)
  BY TailIndex DEF TypeOK
<1>2. \A v \in Windows \ {w} : AlikeFor(queue, rest, v)
  BY <1>1, TailElse DEF Concerns
<1>3. DragsAlike(queue, rest)
  BY <1>1, TailNoDrag DEF DragEvents, IconEvents
<1>4. UNCHANGED <<win, docks, dragvars>> /\ queue' = rest
  BY DEF IconEvent
<1>5. About(queue, w, IconEvents)
  BY <1>1, TailAbout
<1>6. ~About(queue, w, {"dock"}) /\ docks[w] # 0
  BY <1>5 DEF IconInv, WinInv, DockInv, Fresh
<1>7. /\ About(rest, w, {"dock"}) => About(queue, w, {"dock"})
      /\ About(rest, w, GoneEvents) => About(queue, w, GoneEvents)
      /\ e.type \notin GoneEvents => (About(rest, w, GoneEvents) <=> About(queue, w, GoneEvents))
      /\ e.type \notin MapEvents => (About(rest, w, MapEvents) <=> About(queue, w, MapEvents))
      /\ e.type \notin MapEvents \cup GoneEvents =>
           (About(rest, w, MapEvents \cup GoneEvents) <=> About(queue, w, MapEvents \cup GoneEvents))
  BY <1>1, TailAbout
<1>8. /\ \A v \in BOOLEAN : Tells(queue, w, v) => Tells(rest, w, v)
      /\ \A v \in BOOLEAN :
           Tells(queue, w, v) /\ e.type \in MapEvents /\ ~About(rest, w, MapEvents)
             => (e.type = "map") = v
  BY <1>1, TailTells
<1>9. at' # "ended" /\ at' # "swallow" /\ \A v : ~Swallows(v) /\ ~Swallows(v)'
  BY DEF IconEvent, Swallows
<1>10. WinInv(w) /\ ListInv
  BY DEF IconInv
<1>11. win[w].mapped \in BOOLEAN
  BY WinChanges DEF TypeOK
<1>12. /\ Handled(w) = {c \in clients : c.win = w}
       /\ winmap[w] # Nil <=> Docked(w)
       /\ \A c, d \in clients : c.win = w /\ d.win = w => c = d
  BY HandledOne
<1>13. InTray(w)' = InTray(w) /\ \A v \in Windows : win'[v] = win[v]
  BY <1>4 DEF InTray
<1> HIDE DEF rest
<1>14. ~About(queue', w, {"dock"})
  <2>1. ~About(rest, w, {"dock"})
    BY <1>6, <1>7
  <2> QED BY <2>1, <1>4
<1>15. DockInv(w)'
  BY <1>4, <1>6, <1>9, <1>14 DEF DockInv
<1>20. CASE winmap[w] = Nil
  <2>1. UNCHANGED <<at, icon, clients, winmap, shown>>
    BY <1>20 DEF IconEvent
  <2>2. ~Docked(w) /\ ~Docked(w)' /\ ~InTray(w)
    BY <1>9, <1>10, <1>12, <1>20, <2>1 DEF Docked, WinInv, MapInv
  <2>3. WinInv(w)'
    BY <2>1, <2>2, <1>9, <1>13, <1>15, <1>20 DEF WinInv, MapInv, GoneInv, FlagInv
  <2>4. ASSUME NEW v \in Windows \ {w} PROVE WinInv(v)'
    <3>1. SameFor(v)
      BY <2>1, <1>2, <1>4, <1>9 DEF SameFor, dragvars
    <3> QED BY <3>1, <1>9, SameWin DEF IconInv
  <2>5. ListInv' /\ DragInv'
    BY <2>1, <1>3, <1>4, SameList, SameDrag DEF IconInv, TypeOK, dragvars
  <2>6. ShownInv'
    <3>1. \A v \in Windows : winmap[v] # Nil => AlikeFor(queue, queue', v)
      BY <1>2, <1>4, <1>20
    <3> QED BY <3>1, <2>1 DEF IconInv, ShownInv, AlikeFor
  <2> QED BY <2>3, <2>4, <2>5, <2>6 DEF IconInv
<1>21. CASE winmap[w] # Nil /\ e.type \in MapEvents
  <2> DEFINE flag == e.type = "map"
  <2>1. SetMapped(w, flag) /\ TrayUpdate /\ UNCHANGED <<at, icon, winmap>>
    BY <1>21 DEF IconEvent, Update, MapEvents
  <2>2. /\ \A c \in clients : c.win # w => c \in clients'
        /\ \A c \in clients' : c.win # w => c \in clients
        /\ \A c \in clients' : c.win = w => c.mapped = flag
        /\ \A c \in clients : c.win = w => \E d \in clients' : d.win = w /\ d.addr = c.addr
        /\ \A c \in clients' : \E d \in clients : d.win = c.win /\ d.addr = c.addr
        /\ \A c, d \in clients' : c.addr = d.addr \/ c.win = d.win => c = d
    BY <2>1, SetOne
  <2>3. Docked(w)' /\ Docked(w)
    BY <1>12, <1>21, <2>2 DEF Docked
  <2>4. WinInv(w)'
    <3>1. MapInv(w)'
      BY <2>3 DEF MapInv
    <3>2. e.type \notin GoneEvents
      BY <1>21 DEF MapEvents, GoneEvents
    <3>3. GoneInv(w)'
      <4>1. About(queue', w, GoneEvents) <=> About(queue, w, GoneEvents)
        BY <3>2, <1>4, <1>7
      <4> QED BY <4>1, <2>3, <1>9, <1>10, <1>13 DEF WinInv, GoneInv
    <3>4. FlagInv(w)'
      <4> SUFFICES ASSUME InTray(w) PROVE FlagInv(w)'
        BY <1>13 DEF FlagInv
      <4>1. Tells(queue, w, win[w].mapped)
        BY <1>10 DEF WinInv, FlagInv
      <4>2. Tells(rest, w, win[w].mapped)
        BY <4>1, <1>8, <1>11
      <4>3. About(rest, w, MapEvents) \/ flag = win[w].mapped
        BY <4>1, <1>8, <1>11, <1>21
      <4> HIDE DEF flag
      <4> QED BY <4>2, <4>3, <2>2, <1>4, <1>9, <1>13 DEF FlagInv
    <3> QED BY <3>1, <3>3, <3>4, <1>15 DEF WinInv
  <2>5. ASSUME NEW v \in Windows \ {w} PROVE WinInv(v)'
    <3>1. SameFor(v)
      BY <2>1, <2>2, <1>2, <1>4, <1>9 DEF SameFor, dragvars
    <3> QED BY <3>1, <1>9, SameWin DEF IconInv
  <2>6. DragInv'
    BY <2>2, <1>3, <1>4, SameDrag DEF IconInv, TypeOK, dragvars
  <2>7. ListInv'
    BY <2>1, <2>2, <1>10 DEF ListInv
  <2>8. ShownInv'
    BY <2>1 DEF ShownInv, TrayUpdate
  <2> QED BY <2>4, <2>5, <2>6, <2>7, <2>8 DEF IconInv
<1>22. CASE winmap[w] # Nil /\ e.type \in GoneEvents
  <2>1. Cleanup(w) /\ UNCHANGED <<at, icon>>
    BY <1>22 DEF IconEvent, GoneEvents
  <2>2. /\ clients' = {c \in clients : c.win # w}
        /\ winmap' = [winmap EXCEPT ![w] = Nil] /\ TrayUpdate
    BY <2>1, <1>12 DEF Cleanup
  <2>3. ~Docked(w)' /\ winmap'[w] = Nil
    BY <2>2 DEF Docked, TypeOK
  <2>4. ~InTray(w)
    <3>1. About(queue, w, GoneEvents)
      BY <1>1, <1>22, TailAbout
    <3> QED BY <3>1, <1>10 DEF WinInv, GoneInv
  <2>5. WinInv(w)'
    BY <2>1, <2>3, <2>4, <1>9, <1>13, <1>15 DEF WinInv, MapInv, GoneInv, FlagInv
  <2>6. ASSUME NEW v \in Windows \ {w} PROVE WinInv(v)'
    <3>1. winmap'[v] = winmap[v]
      BY <2>2 DEF TypeOK
    <3>2. SameFor(v)
      BY <3>1, <2>1, <2>2, <1>2, <1>4, <1>9 DEF SameFor, dragvars
    <3> QED BY <3>2, <1>9, SameWin DEF IconInv
  <2>7. DragInv'
    BY <2>2, <1>3, <1>4, SameDrag DEF IconInv, TypeOK, dragvars
  <2>8. ListInv'
    <3>1. \A c \in clients' : winmap'[c.win] = winmap[c.win]
      BY <2>2, ClientChanges DEF TypeOK
    <3> QED BY <3>1, <2>2, <1>10 DEF ListInv
  <2>9. ShownInv'
    BY <2>2 DEF ShownInv, TrayUpdate
  <2> QED BY <2>5, <2>6, <2>7, <2>8, <2>9 DEF IconInv
<1>23. CASE winmap[w] # Nil /\ e.type = "info"
  <2>1. at' = "update" /\ icon'.win = w /\ UNCHANGED <<clients, winmap, shown>>
    BY <1>23 DEF IconEvent
  <2>2. Docked(w) /\ Docked(w)'
    BY <2>1, <1>12, <1>23 DEF Docked
  <2>3. e.type \notin MapEvents /\ e.type \notin GoneEvents
    BY <1>23 DEF MapEvents, GoneEvents
  <2>4. WinInv(w)'
    <3>1. MapInv(w)'
      BY <2>2 DEF MapInv
    <3>2. GoneInv(w)'
      <4>1. About(queue', w, GoneEvents) <=> About(queue, w, GoneEvents)
        BY <2>3, <1>4, <1>7
      <4> QED BY <4>1, <2>2, <1>9, <1>10, <1>13 DEF WinInv, GoneInv
    <3>3. FlagInv(w)'
      BY <2>1, <2>3, <1>4, <1>7, <1>8, <1>9, <1>10, <1>11, <1>13 DEF WinInv, FlagInv
    <3> QED BY <3>1, <3>2, <3>3, <1>15 DEF WinInv
  <2>5. ASSUME NEW v \in Windows \ {w} PROVE WinInv(v)'
    <3>1. SameFor(v)
      BY <2>1, <1>2, <1>4, <1>9 DEF SameFor, dragvars
    <3> QED BY <3>1, <1>9, SameWin DEF IconInv
  <2>6. ListInv' /\ DragInv'
    BY <2>1, <1>3, <1>4, SameList, SameDrag DEF IconInv, TypeOK, dragvars
  <2>7. ShownInv'
    <3>1. ASSUME NEW v \in Windows, About(queue, v, MapEvents \cup GoneEvents)
          PROVE  About(queue', v, MapEvents \cup GoneEvents)
      <4>1. CASE v = w
        BY <4>1, <3>1, <2>3, <1>4, <1>7
      <4>2. CASE v # w
        BY <4>2, <3>1, <1>2, <1>4 DEF AlikeFor
      <4> QED BY <4>1, <4>2
    <3> QED BY <3>1, <2>1, SameShown DEF IconInv
  <2> QED BY <2>4, <2>5, <2>6, <2>7 DEF IconInv
<1> QED BY <1>20, <1>21, <1>22, <1>23 DEF IconEvents, MapEvents, GoneEvents

(* What a request to map or unmap w leaves.                                *)
LEMMA MappingEffect ==
  ASSUME TypeOK, NEW w \in Windows, NEW flag \in BOOLEAN, Mapping(w, flag)
  PROVE  /\ \A v \in Windows \ {w} : win'[v] = win[v] /\ AlikeFor(queue, queue', v)
         /\ DragsAlike(queue, queue')
         /\ win'[w].live = win[w].live /\ win'[w].home = win[w].home
         /\ win[w].live => win'[w].mapped = flag
         /\ About(queue', w, {"dock"}) <=> About(queue, w, {"dock"})
         /\ About(queue', w, GoneEvents) <=> About(queue, w, GoneEvents)
         /\ About(queue, w, MapEvents) => About(queue', w, MapEvents)
         /\ About(queue, w, MapEvents \cup GoneEvents) => About(queue', w, MapEvents \cup GoneEvents)
         /\ win[w].live /\ win[w].mapped # flag =>
              About(queue', w, MapEvents) /\ About(queue', w, MapEvents \cup GoneEvents)
         /\ win[w].live => \/ win[w].mapped # flag /\ Tells(queue', w, flag)
                           \/ win[w].mapped = flag /\ queue' = queue
<1>1. win \in [Windows -> WinType] /\ win[w] \in WinType /\ queue \in Seq(Events)
  BY DEF TypeOK
<1>2. CASE win[w].live /\ win[w].mapped # flag
  <2> DEFINE e == [type |-> IF flag THEN "map" ELSE "unmap", win |-> w]
  <2>1. queue' = Append(queue, e) /\ win' = [win EXCEPT ![w].mapped = flag]
    BY <1>2 DEF Mapping
  <2>2. /\ e \in Events /\ e.win = w /\ e.type \in MapEvents /\ e.type \in IconEvents
        /\ (e.type = "map") = flag
    BY NewEvents DEF IconEvents, MapEvents
  <2> HIDE DEF e
  <2>3. e.type \notin DragEvents /\ e.type \notin GoneEvents /\ e.type # "dock"
    BY <2>2 DEF MapEvents, DragEvents, GoneEvents
  <2>4. win'[w] = [win[w] EXCEPT !.mapped = flag] /\ \A v \in Windows \ {w} : win'[v] = win[v]
    BY <1>1, <2>1
  <2>5. win'[w].live = win[w].live /\ win'[w].home = win[w].home /\ win'[w].mapped = flag
    BY <1>1, <2>4 DEF WinType
  <2>6. \A v \in Windows \ {w} : AlikeFor(queue, queue', v)
    BY <1>1, <2>1, <2>2, AppendElse DEF Concerns
  <2>7. DragsAlike(queue, queue')
    BY <1>1, <2>1, <2>2, <2>3, AppendNoDrag
  <2>8. /\ About(queue', w, {"dock"}) <=> About(queue, w, {"dock"})
        /\ About(queue', w, GoneEvents) <=> About(queue, w, GoneEvents)
        /\ About(queue', w, MapEvents) /\ About(queue', w, MapEvents \cup GoneEvents)
    BY <1>1, <2>1, <2>2, <2>3, AppendAbout
  <2>9. Tells(queue', w, flag)
    BY <1>1, <2>1, <2>2, AppendTells
  <2> QED BY <1>2, <2>4, <2>5, <2>6, <2>7, <2>8, <2>9
<1>3. CASE ~(win[w].live /\ win[w].mapped # flag)
  <2>1. win' = win /\ queue' = queue
    BY <1>3 DEF Mapping
  <2> QED BY <1>3, <2>1, NoEvent
<1> QED BY <1>2, <1>3

(* The window that was to be docked is in the list, or it has died.        *)
LEMMA SwallowedStep ==
  ASSUME TypeOK, IconInv, NEW w \in Windows, icon.win = w, Swallowed
  PROVE  IconInv'
<1>1. /\ at = "swallow" /\ at' = "loop" /\ Swallows(w)
      /\ \A v \in Windows \ {w} : ~Swallows(v)
      /\ \A v : ~Swallows(v)'
      /\ UNCHANGED <<trayvars, dragvars, docks>> /\ TrayUpdate
  BY DEF Swallowed, Swallows
<1>2. icon.wants \in BOOLEAN /\ win[w].live \in BOOLEAN /\ win[w].mapped \in BOOLEAN
  BY <1>1, WinChanges DEF TypeOK
<1>3. ~Docked(w) /\ winmap[w] = Nil /\ w \notin entered /\ WinInv(w) /\ ~Fresh(w)
  BY <1>1 DEF IconInv, WinInv, DockInv, Fresh
<1>4. ~About(queue, w, {"dock"}) /\ docks[w] # 0
  BY <1>3 DEF WinInv, DockInv
<1>5. ShownInv'
  BY <1>1 DEF ShownInv, TrayUpdate
<1>6. winmap \in [Windows -> Addrs \cup {Nil}] /\ \A c \in clients : c.win \in Windows
  BY ClientChanges DEF TypeOK
<1>7. \A c \in clients : c.win # w
  BY <1>3 DEF Docked
<1>20. CASE win[w].live
  <2>1. PICK a \in Addrs :
          /\ \A c \in clients : c.addr # a
          /\ clients' = clients \cup {Client(a, w, icon.wants)}
          /\ winmap' = [winmap EXCEPT ![w] = a]
          /\ IF icon.wants THEN Mapping(w, TRUE) ELSE UNCHANGED <<win, queue>>
    BY <1>20 DEF Swallowed
  <2> DEFINE new == Client(a, w, icon.wants)
  <2>2. new.addr = a /\ new.win = w /\ new.mapped = icon.wants /\ clients' = clients \cup {new}
    BY <2>1 DEF Client
  <2> HIDE DEF new
  <2>3. /\ \A v \in Windows \ {w} : win'[v] = win[v] /\ AlikeFor(queue, queue', v)
        /\ DragsAlike(queue, queue')
        /\ win'[w].live = win[w].live /\ win'[w].home = win[w].home
        /\ About(queue', w, {"dock"}) <=> About(queue, w, {"dock"})
        /\ About(queue', w, GoneEvents) <=> About(queue, w, GoneEvents)
        /\ About(queue, w, MapEvents) => About(queue', w, MapEvents)
    BY <2>1, MappingEffect, NoEvent
  <2>4. Docked(w)' /\ winmap'[w] = a /\ \A v \in Windows \ {w} : winmap'[v] = winmap[v]
    BY <2>1, <2>2, <1>6 DEF Docked
  <2>5. ASSUME NEW v \in Windows \ {w} PROVE WinInv(v)'
    <3>1. SameFor(v)
      BY <1>1, <2>2, <2>3, <2>4 DEF SameFor, dragvars
    <3> QED BY <3>1, <1>1, SameWin DEF IconInv
  <2>6. InTray(w)' <=> InTray(w)
    BY <2>3 DEF InTray
  <2>7. WinInv(w)'
    <3>1. DockInv(w)'
      BY <1>1, <1>4, <2>3 DEF DockInv
    <3>2. MapInv(w)'
      BY <2>4 DEF MapInv
    <3>3. GoneInv(w)'
      <4>1. InTray(w) \/ About(queue, w, GoneEvents)
        BY <1>1, <1>3, <1>20, WinChanges DEF WinInv, GoneInv, InTray, TypeOK
      <4>2. About(queue, w, GoneEvents) => ~InTray(w)
        BY <1>3 DEF WinInv, GoneInv
      <4> QED BY <4>1, <4>2, <1>1, <2>3, <2>6 DEF GoneInv
    <3>4. FlagInv(w)'
      <4> SUFFICES ASSUME InTray(w) PROVE FlagInv(w)'
        BY <2>6 DEF FlagInv
      <4>1. /\ Tells(queue, w, win[w].mapped)
            /\ About(queue, w, MapEvents) \/ ~win[w].mapped
        BY <1>1, <1>3 DEF WinInv, FlagInv
      <4>2. \A c \in clients' : c.win = w => c.mapped = icon.wants
        BY <1>7, <2>2
      <4>3. CASE icon.wants
        <5>1. /\ win'[w].mapped = TRUE
              /\ win[w].mapped # TRUE => About(queue', w, MapEvents)
              /\ \/ win[w].mapped # TRUE /\ Tells(queue', w, TRUE)
                 \/ win[w].mapped = TRUE /\ queue' = queue
          BY <4>3, <1>20, <2>1, MappingEffect
        <5>2. About(queue', w, MapEvents)
          BY <5>1, <4>1, <2>3, <1>2
        <5>3. Tells(queue', w, TRUE)
          BY <5>1, <4>1, <1>2
        <5> QED BY <5>1, <5>2, <5>3 DEF FlagInv
      <4>4. CASE ~icon.wants
        <5>1. win' = win /\ queue' = queue
          BY <4>4, <2>1
        <5> QED BY <5>1, <4>1, <4>2, <4>4, <1>1, <1>2 DEF FlagInv
      <4> QED BY <4>3, <4>4, <1>2
    <3> QED BY <3>1, <3>2, <3>3, <3>4 DEF WinInv
  <2>8. ListInv'
    <3>1. \A c, d \in clients : c.addr = d.addr \/ c.win = d.win => c = d
      BY DEF IconInv, ListInv
    <3>2. \A c \in clients : winmap[c.win] = c.addr
      BY DEF IconInv, ListInv
    <3>3. \A c, d \in clients' : c.addr = d.addr \/ c.win = d.win => c = d
      BY <3>1, <2>1, <2>2, <1>7
    <3>4. \A c \in clients' : winmap'[c.win] = c.addr
      BY <3>2, <2>2, <2>4, <1>6, <1>7
    <3> QED BY <3>3, <3>4 DEF ListInv
  <2>9. DragInv'
    BY <1>1, <1>3, <2>2, <2>3, SameDrag DEF IconInv, TypeOK, dragvars
  <2> QED BY <2>5, <2>7, <2>8, <2>9, <1>5 DEF IconInv
<1>21. CASE ~win[w].live
  <2>1. winmap' = [winmap EXCEPT ![w] = Nil] /\ UNCHANGED <<clients, win, queue>>
    BY <1>21 DEF Swallowed
  <2>2. winmap' = winmap
    BY <2>1, <1>3, <1>6
  <2>3. ASSUME NEW v \in Windows \ {w} PROVE WinInv(v)'
    <3>1. SameFor(v)
      BY <1>1, <2>1, <2>2, NoEvent DEF SameFor, dragvars
    <3> QED BY <3>1, <1>1, SameWin DEF IconInv
  <2>4. ~Docked(w)' /\ ~InTray(w) /\ ~InTray(w)' /\ winmap'[w] = Nil
    BY <2>1, <2>2, <1>3, <1>21 DEF Docked, InTray
  <2>5. WinInv(w)'
    BY <2>1, <2>4, <1>1, <1>4 DEF WinInv, DockInv, MapInv, GoneInv, FlagInv
  <2>6. ListInv' /\ DragInv'
    BY <1>1, <2>1, <2>2, NoEvent, SameList, SameDrag DEF IconInv, TypeOK, dragvars
  <2> QED BY <2>3, <2>5, <2>6, <1>5 DEF IconInv
<1> QED BY <1>20, <1>21

(* The flag of a docked window has been read again.                        *)
LEMMA UpdateInfoStep ==
  ASSUME TypeOK, IconInv, NEW w \in Windows, icon.win = w, UpdateInfo
  PROVE  IconInv'
<1>1. /\ at = "update" /\ at' = "loop" /\ UNCHANGED <<winmap, shown, dragvars, docks>>
      /\ \A v : ~Swallows(v) /\ ~Swallows(v)'
  BY DEF UpdateInfo, Swallows
<1>2. icon.wants \in BOOLEAN /\ win[w].live \in BOOLEAN /\ win[w].mapped \in BOOLEAN
  BY <1>1, WinChanges DEF TypeOK
<1>3. Docked(w) /\ WinInv(w) /\ winmap[w] # Nil
  BY <1>1, HandledOne DEF IconInv, WinInv, MapInv
<1>4. ~About(queue, w, {"dock"}) /\ docks[w] # 0
  BY <1>3 DEF WinInv, DockInv, Fresh
<1>5. /\ Handled(w) = {c \in clients : c.win = w}
      /\ \A c, d \in clients : c.win = w /\ d.win = w => c = d
  BY HandledOne
<1>20. CASE {c.mapped : c \in Handled(w)} = {icon.wants}
  <2>1. UNCHANGED <<clients, win, queue>>
    BY <1>20 DEF UpdateInfo
  <2>2. ASSUME NEW v \in Windows PROVE WinInv(v)'
    <3>1. SameFor(v)
      BY <1>1, <2>1, NoEvent DEF SameFor, dragvars
    <3> QED BY <3>1, <1>1, SameWin DEF IconInv
  <2>3. ListInv' /\ DragInv' /\ ShownInv'
    BY <1>1, <2>1, NoEvent, SameList, SameDrag, SameShown DEF IconInv, TypeOK, dragvars
  <2> QED BY <2>2, <2>3 DEF IconInv
<1>21. CASE {c.mapped : c \in Handled(w)} # {icon.wants}
  <2>1. SetMapped(w, icon.wants) /\ Mapping(w, icon.wants)
    BY <1>21 DEF UpdateInfo
  <2>2. /\ \A c \in clients : c.win # w => c \in clients'
        /\ \A c \in clients' : c.win # w => c \in clients
        /\ \A c \in clients' : c.win = w => c.mapped = icon.wants
        /\ \A c \in clients : c.win = w => \E d \in clients' : d.win = w /\ d.addr = c.addr
        /\ \A c \in clients' : \E d \in clients : d.win = c.win /\ d.addr = c.addr
        /\ \A c, d \in clients' : c.addr = d.addr \/ c.win = d.win => c = d
    BY <2>1, <1>2, SetOne
  <2>3. /\ \A v \in Windows \ {w} : win'[v] = win[v] /\ AlikeFor(queue, queue', v)
        /\ DragsAlike(queue, queue')
        /\ win'[w].live = win[w].live /\ win'[w].home = win[w].home
        /\ win[w].live => win'[w].mapped = icon.wants
        /\ About(queue', w, {"dock"}) <=> About(queue, w, {"dock"})
        /\ About(queue', w, GoneEvents) <=> About(queue, w, GoneEvents)
        /\ About(queue, w, MapEvents) => About(queue', w, MapEvents)
        /\ About(queue, w, MapEvents \cup GoneEvents) => About(queue', w, MapEvents \cup GoneEvents)
        /\ win[w].live /\ win[w].mapped # icon.wants =>
              About(queue', w, MapEvents) /\ About(queue', w, MapEvents \cup GoneEvents)
        /\ win[w].live => \/ win[w].mapped # icon.wants /\ Tells(queue', w, icon.wants)
                          \/ win[w].mapped = icon.wants /\ queue' = queue
    BY <2>1, <1>2, MappingEffect
  <2>4. Docked(w)'
    BY <2>2, <1>3 DEF Docked
  <2>5. ASSUME NEW v \in Windows \ {w} PROVE WinInv(v)'
    <3>1. SameFor(v)
      BY <1>1, <2>2, <2>3 DEF SameFor, dragvars
    <3> QED BY <3>1, <1>1, SameWin DEF IconInv
  <2>6. InTray(w)' <=> InTray(w)
    BY <2>3 DEF InTray
  <2>7. WinInv(w)'
    <3>1. DockInv(w)'
      BY <1>1, <1>4, <2>3 DEF DockInv
    <3>2. MapInv(w)'
      BY <2>4 DEF MapInv
    <3>3. GoneInv(w)'
      BY <1>1, <1>3, <2>3, <2>6 DEF WinInv, GoneInv
    <3>4. FlagInv(w)'
      <4> SUFFICES ASSUME InTray(w) PROVE FlagInv(w)'
        BY <2>6 DEF FlagInv
      <4>1. win[w].live /\ win'[w].mapped = icon.wants
        BY <2>3 DEF InTray
      <4>2. Tells(queue, w, win[w].mapped)
        BY <1>3 DEF WinInv, FlagInv
      <4>3. Tells(queue', w, icon.wants)
        BY <4>1, <4>2, <2>3
      <4> QED BY <4>1, <4>3, <2>2, <1>1 DEF FlagInv
    <3> QED BY <3>1, <3>2, <3>3, <3>4 DEF WinInv
  <2>8. ListInv'
    BY <2>2, <1>1 DEF IconInv, ListInv
  <2>9. DragInv'
    BY <1>1, <2>2, <2>3, SameDrag DEF IconInv, TypeOK, dragvars
  <2>10. ShownInv'
    <3> SUFFICES About(queue', w, MapEvents \cup GoneEvents)
      BY <1>1, <1>3 DEF ShownInv
    <3>1. CASE ~InTray(w)
      <4>1. About(queue, w, GoneEvents)
        BY <3>1, <1>3 DEF WinInv, GoneInv
      <4>2. About(queue, w, MapEvents \cup GoneEvents)
        BY <4>1, AboutMore
      <4> QED BY <4>2, <2>3
    <3>2. CASE InTray(w) /\ win[w].mapped # icon.wants
      BY <3>2, <2>3 DEF InTray
    <3>3. CASE InTray(w) /\ win[w].mapped = icon.wants
      <4>1. PICK c \in clients : c.win = w /\ c.mapped # icon.wants
        BY <1>3, <1>5, <1>21 DEF Docked
      <4>2. About(queue, w, MapEvents)
        BY <4>1, <3>3, <1>3 DEF WinInv, FlagInv
      <4>3. About(queue, w, MapEvents \cup GoneEvents)
        BY <4>2, AboutMore
      <4> QED BY <4>3, <2>3
    <3> QED BY <3>1, <3>2, <3>3
  <2> QED BY <2>5, <2>7, <2>8, <2>9, <2>10 DEF IconInv
<1> QED BY <1>20, <1>21

(* The program ends, and gives its icons back.                             *)
LEMMA DisownStep ==
  ASSUME TypeOK, IconInv, at = "loop", DisownAll, Terminate,
         UNCHANGED <<icon, docks, dragvars>>, DragsAlike(queue, queue'),
         \A w \in Windows : AlikeFor(queue, queue', w)
  PROVE  IconInv'
<1>1. /\ clients' = {} /\ winmap' = [w \in Windows |-> Nil] /\ shown' = FALSE
      /\ \A v : ~Swallows(v) /\ ~Swallows(v)'
      /\ \A v : ~Docked(v)'
  BY DEF DisownAll, Terminate, Swallows, Docked
<1>2. ASSUME NEW w \in Windows
      PROVE  /\ ~Docked(w) => win'[w] = win[w]
             /\ Docked(w) => win'[w].home = "root"
  <2> DEFINE b == TRUE \notin {c.mapped : c \in Handled(w)}
  <2>1. win'[w] = IF Docked(w) THEN [win[w] EXCEPT !.home = "root", !.mapped = @ /\ b]
                  ELSE win[w]
    BY DEF DisownAll, Docked
  <2>2. win[w] \in WinType
    BY DEF TypeOK
  <2> HIDE DEF b
  <2> QED BY <2>1, <2>2 DEF WinType
<1>3. ASSUME NEW w \in Windows PROVE WinInv(w)'
  <2>1. InTray(w)' => ~Docked(w) /\ InTray(w)
    BY <1>2 DEF InTray
  <2>2. /\ WinInv(w) /\ AlikeFor(queue, queue', w)
        /\ About(queue', w, IconEvents) <=> About(queue, w, IconEvents)
        /\ About(queue', w, GoneEvents) <=> About(queue, w, GoneEvents)
        /\ About(queue', w, {"dock"}) <=> About(queue, w, {"dock"})
        /\ DocksTwice(queue', w) => DocksTwice(queue, w)
    BY DEF IconInv, AlikeFor
  <2>3. Fresh(w) => Fresh(w)'
    BY <1>1, <1>2, <2>2 DEF Fresh, dragvars
  <2>4. DockInv(w)'
    BY <1>1, <2>2, <2>3 DEF WinInv, DockInv
  <2>5. MapInv(w)'
    BY <1>1 DEF MapInv, Terminate
  <2>6. GoneInv(w)'
    BY <1>1, <2>1, <2>2 DEF WinInv, GoneInv
  <2>7. FlagInv(w)'
    <3> SUFFICES ASSUME InTray(w)' PROVE FALSE
      BY DEF FlagInv
    <3>1. ~Docked(w) /\ InTray(w)
      BY <2>1
    <3> QED BY <3>1, <1>1, <2>2 DEF WinInv, MapInv
  <2> QED BY <2>4, <2>5, <2>6, <2>7 DEF WinInv
<1>4. ListInv' /\ ShownInv'
  BY <1>1 DEF ListInv, ShownInv
<1>5. DragInv'
  BY <1>1, SameDrag DEF IconInv, TypeOK, dragvars
<1> QED BY <1>3, <1>4, <1>5 DEF IconInv
-----------------------------------------------------------------------------
(* The invariant.                                                          *)

LEMMA IconInit == Init => IconInv
<1> SUFFICES ASSUME Init PROVE IconInv
  OBVIOUS
<1>1. ASSUME NEW w \in Windows PROVE WinInv(w)
  <2>1. /\ ~Docked(w) /\ ~Swallows(w) /\ winmap[w] = Nil /\ w \notin entered
        /\ win[w].home = "root" /\ at = "get" /\ \A S : ~About(queue, w, S)
    <3>1. win[w] \in [live : {TRUE}, home : {"root"}, mapped : BOOLEAN, wants : BOOLEAN]
      BY DEF Init
    <3> QED BY <3>1, EmptyQueue DEF Init, Docked, Swallows
  <2>2. Fresh(w)
    BY <2>1 DEF Fresh
  <2> QED BY <2>1, <2>2 DEF WinInv, DockInv, MapInv, GoneInv, FlagInv, InTray
<1>2. ListInv /\ ShownInv
  BY DEF Init, ListInv, ShownInv
<1>3. DragInv
  BY EmptyQueue DEF Init, DragInv
<1> QED BY <1>1, <1>2, <1>3 DEF IconInv

LEMMA IconNext ==
  ASSUME TypeOK, IconInv, Once', [Next]_vars
  PROVE  IconInv'
<1>1. CASE GetOwner \/ Create \/ WaitForOld \/ Created
  BY <1>1, SelectionSteps
<1>2. CASE Swallowed
  <2>1. icon.win \in Windows
    BY <1>2 DEF Swallowed, TypeOK
  <2> QED BY <1>2, <2>1, SwallowedStep
<1>3. CASE UpdateInfo
  <2>1. icon.win \in Windows
    BY <1>3 DEF UpdateInfo, TypeOK
  <2> QED BY <1>3, <2>1, UpdateInfoStep
<1>4. CASE Handle
  <2> DEFINE e == Head(queue)
  <2>1. at = "loop" /\ queue # <<>> /\ queue \in Seq(Events) /\ e \in Events
    BY <1>4, TailIndex DEF Handle, TypeOK
  <2>2. CASE e.type = "olddied" /\ OldDied(Tail(queue))
    BY <2>1, <2>2, OldDiedStep
  <2>3. CASE e.type = "clear" /\ SelectionClear(Tail(queue))
    <3>1. /\ DisownAll /\ Terminate /\ UNCHANGED <<icon, docks, dragvars>>
          /\ queue' = Tail(queue)
      BY <2>3 DEF SelectionClear
    <3>2. DragsAlike(queue, queue')
      BY <2>1, <2>3, <3>1, TailNoDrag DEF DragEvents
    <3>3. \A w \in Windows : AlikeFor(queue, queue', w)
      BY <2>1, <2>3, <3>1, TailElse DEF Concerns, IconEvents
    <3> QED BY <2>1, <3>1, <3>2, <3>3, DisownStep
  <2>4. CASE e.type = "dock" /\ Dock(e.win, Tail(queue))
    <3>1. e.win \in Windows
      BY <2>1, <2>4, EventTypes
    <3> QED BY <2>1, <2>4, <3>1, DockStep
  <2>5. CASE e.type \in IconEvents /\ IconEvent(e, Tail(queue))
    <3>1. e.win \in Windows
      BY <2>1, <2>5, EventTypes
    <3> QED BY <2>1, <2>5, <3>1, IconEventStep
  <2>6. CASE e.type \in DragEvents /\ DragEvent(e, Tail(queue))
    BY <2>1, <2>6, DragEventStep
  <2> QED BY <1>4, <2>2, <2>3, <2>4, <2>5, <2>6 DEF Handle, IconEvents, DragEvents
<1>5. CASE Timeout \/ \E o \in Others : OtherTakes(o) \/ OtherDies(o)
  BY <1>5, OthersStep
<1>6. ASSUME NEW w \in Windows, Ask(w) PROVE IconInv'
  BY <1>6, AskStep
<1>7. ASSUME NEW w \in Windows, Destroyed(w) \/ Leaves(w) \/ Hides(w) \/ Wants(w)
      PROVE  IconInv'
  BY <1>7, IconStep
<1>8. ASSUME NEW t \in DragEvents, Drag(t) PROVE IconInv'
  BY <1>8, DragStep
<1>9. CASE Signal
  <2>1. /\ at = "loop" /\ DisownAll /\ Terminate /\ UNCHANGED <<icon, docks, dragvars, queue>>
    BY <1>9 DEF Signal
  <2>2. DragsAlike(queue, queue') /\ \A w \in Windows : AlikeFor(queue, queue', w)
    BY <2>1, NoEvent
  <2> QED BY <2>1, <2>2, DisownStep
<1>10. CASE UNCHANGED vars
  <2>1. UNCHANGED <<iconvars, dragvars, queue, at, icon>>
    BY <1>10 DEF vars
  <2>2. \A w : Swallows(w) <=> Swallows(w)'
    BY <2>1 DEF Swallows
  <2>3. DragsAlike(queue, queue') /\ \A w \in Windows : AlikeFor(queue, queue', w)
    BY <2>1, NoEvent
  <2> QED BY <2>1, <2>2, <2>3, Elsewhere
<1> QED BY <1>1, <1>2, <1>3, <1>4, <1>5, <1>6, <1>7, <1>8, <1>9, <1>10
        DEF Next, Program, Environment, DragEvents

(* Nobody asks less often than before.                                     *)
LEMMA OnceBefore ==
  ASSUME TypeOK, [Next]_vars, Once'
  PROVE  Once
<1>1. docks \in [Windows -> Nat]
  BY DEF TypeOK
<1>2. CASE \E w \in Windows : Ask(w)
  <2>1. PICK w \in Windows : docks' = [docks EXCEPT ![w] = @ + 1]
    BY <1>2 DEF Ask
  <2> QED BY <1>1, <2>1 DEF Once
<1>3. CASE ~\E w \in Windows : Ask(w)
  <2>1. docks' = docks
    <3>1. CASE Program
      BY <3>1 DEF Program, GetOwner, Create, WaitForOld, Created, Swallowed, UpdateInfo, Handle,
                  OldDied, SelectionClear, Dock, IconEvent, DragEvent, iconvars
    <3>2. CASE Timeout
      BY <3>2 DEF Timeout, iconvars
    <3>3. CASE Environment
      BY <1>3, <3>3 DEF Environment, OtherTakes, OtherDies, Destroyed, Leaves, Hides, Wants, Icon,
                  Drag, Signal, iconvars
    <3>4. CASE UNCHANGED vars
      BY <3>4 DEF vars, iconvars
    <3> QED BY <3>1, <3>2, <3>3, <3>4 DEF Next
  <2> QED BY <2>1 DEF Once
<1> QED BY <1>2, <1>3

LEMMA OwnerNext ==
  ASSUME TypeOK, OwnerInv, [Next]_vars
  PROVE  OwnerInv'
<1> USE TrayAssumption
<1>1. queue \in Seq(Events)
  BY DEF TypeOK
<1>2. CASE GetOwner
  BY <1>2 DEF GetOwner, OwnerInv
<1>3. CASE Create
  BY <1>3 DEF Create, SetOwner, OwnerInv
<1>4. CASE WaitForOld
  BY <1>4 DEF WaitForOld, OwnerInv
<1>5. CASE Created
  BY <1>5 DEF Created, Manages, OwnerInv
<1>6. CASE Swallowed
  <2>1. icon.win \in Windows
    BY <1>6 DEF Swallowed, TypeOK
  <2>2. queue' = queue \/ \E e \in Events : queue' = Append(queue, e)
    BY <1>6, <2>1, NewEvents DEF Swallowed, Mapping, IconEvents
  <2>3. Holds(queue, {"clear"}) => Holds(queue', {"clear"})
    BY <1>1, <2>2, AppendHolds
  <2> QED BY <1>6, <2>3 DEF Swallowed, OwnerInv, trayvars
<1>7. CASE UpdateInfo
  <2>1. icon.win \in Windows
    BY <1>7 DEF UpdateInfo, TypeOK
  <2>2. queue' = queue \/ \E e \in Events : queue' = Append(queue, e)
    BY <1>7, <2>1, NewEvents DEF UpdateInfo, Mapping, IconEvents
  <2>3. Holds(queue, {"clear"}) => Holds(queue', {"clear"})
    BY <1>1, <2>2, AppendHolds
  <2> QED BY <1>7, <2>3 DEF UpdateInfo, OwnerInv, trayvars
<1>8. CASE Handle
  <2> DEFINE e == Head(queue)
  <2> DEFINE rest == Tail(queue)
  <2>1. queue # <<>> /\ e \in Events /\ rest \in Seq(Events)
    BY <1>1, <1>8, TailIndex DEF Handle
  <2>2. e.type # "clear" /\ Holds(queue, {"clear"}) => Holds(rest, {"clear"})
    BY <1>1, <2>1, TailHolds
  <2>3. CASE e.type = "olddied" /\ OldDied(rest)
    BY <2>2, <2>3 DEF OldDied, SetOwner, OwnerInv
  <2>4. CASE e.type = "clear" /\ SelectionClear(rest)
    BY <2>4 DEF SelectionClear, DisownAll, OwnerInv
  <2>5. CASE e.type = "dock" /\ Dock(e.win, rest)
    <3>1. e.win \in Windows
      BY <2>1, <2>5, EventTypes
    <3> DEFINE u == [type |-> "unmap", win |-> e.win]
    <3> DEFINE m == [type |-> "map", win |-> e.win]
    <3>2. u \in Events /\ m \in Events
      BY <3>1, NewEvents DEF IconEvents
    <3>3. queue' \in {rest, rest \o <<>>, rest \o <<u, m>>}
      BY <2>5 DEF Dock, Swallow
    <3> HIDE DEF u, m
    <3>4. rest \o <<u, m>> = Append(Append(rest, u), m) /\ rest \o <<>> = rest
      BY <2>1, <3>2
    <3>5. Holds(rest, {"clear"}) => Holds(Append(rest, u), {"clear"})
      BY <2>1, <3>2, AppendHolds
    <3>6. Append(rest, u) \in Seq(Events)
      BY <2>1, <3>2
    <3>7. Holds(rest, {"clear"}) => Holds(Append(Append(rest, u), m), {"clear"})
      BY <3>2, <3>5, <3>6, AppendHolds
    <3> QED BY <2>2, <2>5, <3>3, <3>4, <3>7 DEF Dock, OwnerInv, trayvars
  <2>6. CASE e.type \in IconEvents /\ IconEvent(e, rest)
    BY <2>2, <2>6 DEF IconEvent, IconEvents, OwnerInv, trayvars
  <2>7. CASE e.type \in DragEvents /\ DragEvent(e, rest)
    BY <2>2, <2>7 DEF DragEvent, DragEvents, OwnerInv, trayvars
  <2> QED BY <1>8, <2>3, <2>4, <2>5, <2>6, <2>7 DEF Handle, IconEvents, DragEvents
<1>9. CASE Timeout
  <2> DEFINE e == [type |-> "olddied"]
  <2>1. e \in Events
    BY NewEvents
  <2>2. queue' = queue \/ queue' = Append(queue, e)
    BY <1>9 DEF Timeout
  <2> HIDE DEF e
  <2>3. Holds(queue, {"clear"}) => Holds(queue', {"clear"})
    <3>1. Holds(queue, {"clear"}) => Holds(Append(queue, e), {"clear"})
      BY <1>1, <2>1, AppendHolds
    <3> QED BY <2>2, <3>1
  <2>4. selection' = selection /\ (owner = "self" => owner' = "self")
    BY <1>9 DEF Timeout, Living
  <2> QED BY <2>3, <2>4 DEF OwnerInv
<1>10. ASSUME NEW o \in Others, OtherTakes(o) PROVE OwnerInv'
  <2> DEFINE e == [type |-> "clear"]
  <2>1. e \in Events /\ e.type = "clear"
    BY NewEvents
  <2>2. selection' = selection /\ queue' = IF owner = "self" THEN Append(queue, e) ELSE queue
    BY <1>10 DEF OtherTakes
  <2> HIDE DEF e
  <2>3. Holds(Append(queue, e), {"clear"})
    BY <1>1, <2>1, AppendHolds
  <2> QED BY <2>2, <2>3 DEF OwnerInv
<1>11. ASSUME NEW o \in Others, OtherDies(o) PROVE OwnerInv'
  <2> DEFINE e == [type |-> "olddied"]
  <2>1. e \in Events
    BY NewEvents
  <2>2. queue' = queue \/ queue' = Append(queue, e)
    BY <1>11 DEF OtherDies
  <2> HIDE DEF e
  <2>3. Holds(queue, {"clear"}) => Holds(queue', {"clear"})
    <3>1. Holds(queue, {"clear"}) => Holds(Append(queue, e), {"clear"})
      BY <1>1, <2>1, AppendHolds
    <3> QED BY <2>2, <3>1
  <2>4. selection' = selection /\ (owner = "self" => owner' = "self")
    BY <1>11 DEF OtherDies, Living
  <2> QED BY <2>3, <2>4 DEF OwnerInv
<1>12. ASSUME \/ \E w \in Windows : Ask(w) \/ Destroyed(w) \/ Leaves(w) \/ Hides(w) \/ Wants(w)
              \/ \E t \in DragEvents : Drag(t)
       PROVE  OwnerInv'
  <2>1. /\ selection' = selection /\ owner' = owner
        /\ queue' = queue \/ \E e \in Events : queue' = Append(queue, e)
    <3>1. ASSUME NEW w \in Windows, Ask(w)
          PROVE  /\ selection' = selection /\ owner' = owner
                 /\ queue' = queue \/ \E e \in Events : queue' = Append(queue, e)
      BY <3>1, NewEvents DEF Ask, trayvars
    <3>2. ASSUME NEW w \in Windows, NEW new, NEW t \in IconEvents, Icon(w, new, t)
          PROVE  /\ selection' = selection /\ owner' = owner
                 /\ queue' = queue \/ \E e \in Events : queue' = Append(queue, e)
      BY <3>2, NewEvents DEF Icon, trayvars
    <3>3. ASSUME NEW t \in DragEvents, Drag(t)
          PROVE  /\ selection' = selection /\ owner' = owner
                 /\ queue' = queue \/ \E e \in Events : queue' = Append(queue, e)
      BY <3>3, NewEvents DEF Drag, trayvars
    <3> QED BY <1>12, <3>1, <3>2, <3>3 DEF Destroyed, Leaves, Hides, Wants, IconEvents
  <2>2. Holds(queue, {"clear"}) => Holds(queue', {"clear"})
    BY <1>1, <2>1, AppendHolds
  <2> QED BY <2>1, <2>2 DEF OwnerInv
<1>13. CASE Signal
  BY <1>13 DEF Signal, DisownAll, OwnerInv
<1>14. CASE UNCHANGED vars
  BY <1>14 DEF vars, trayvars, OwnerInv
<1> QED BY <1>2, <1>3, <1>4, <1>5, <1>6, <1>7, <1>8, <1>9, <1>10, <1>11, <1>12, <1>13, <1>14
        DEF Next, Program, Environment, DragEvents

(* The invariant holds in every state: the three facts of an induction.    *)
THEOREM Invariance == Spec => []IInv
<1>1. Init => IInv
  BY TypeInit, IconInit DEF IInv, OwnerInv, Init
<1>2. IInv /\ [Next]_vars => IInv'
  BY TypeNext, OwnerNext, OnceBefore, IconNext DEF IInv
<1> QED BY <1>1, <1>2, PTL DEF Spec

(* There are never two trays: once the events have been read, a witray     *)
(* that has announced itself owns the selection, whatever the other trays  *)
(* and the timer have done.                                                *)
THEOREM SoleTrayAlways == Spec => []SoleTray
<1>1. IInv => SoleTray
  BY EmptyQueue DEF IInv, OwnerInv, SoleTray, Quiet
<1> QED BY <1>1, Invariance, PTL

(* The tray is on the screen just when an icon's window is, for every      *)
(* number of windows and events, as long as none asks twice.               *)
THEOREM VisibleOnceAlways == Spec => []VisibleOnce
<1>1. IInv => VisibleOnce
  <2> SUFFICES ASSUME IInv, Once, Quiet
               PROVE  shown <=> \E w \in Windows : InTray(w) /\ win[w].mapped
    BY DEF VisibleOnce, Visible, Once, InTray
  <2>1. at = "loop" /\ \A w, S : ~About(queue, w, S)
    BY EmptyQueue DEF Quiet
  <2>2. TypeOK /\ IconInv /\ (\A w \in Windows : WinInv(w) /\ ~Swallows(w))
    BY <2>1 DEF IInv, IconInv, Swallows
  <2>3. shown <=> \E c \in clients : c.mapped
    BY <2>1, <2>2 DEF IconInv, ShownInv
  <2>4. ASSUME NEW c \in clients PROVE InTray(c.win) /\ c.mapped = win[c.win].mapped /\ c.win \in Windows
    <3>1. c.win \in Windows
      BY <2>2, ClientChanges DEF TypeOK
    <3>2. InTray(c.win)
      BY <3>1, <2>1, <2>2 DEF WinInv, GoneInv, Docked
    <3> QED BY <3>1, <3>2, <2>1, <2>2 DEF WinInv, FlagInv
  <2>5. ASSUME NEW w \in Windows, InTray(w) PROVE \E c \in clients : c.win = w
    BY <2>1, <2>2, <2>5 DEF WinInv, MapInv, Docked
  <2> QED BY <2>3, <2>4, <2>5
<1> QED BY <1>1, Invariance, PTL

(* An icon that has been told of a drag is still the one the drag is over, *)
(* and hears of its end, as long as none asks twice.                       *)
THEOREM DragsEndAlways == Spec => []DragsEnd
<1>1. IInv => DragsEnd
  BY DEF IInv, IconInv, DragInv, DragsEnd, Once
<1> QED BY <1>1, Invariance, PTL
=============================================================================
