-------------------------------- MODULE Tray --------------------------------
(***************************************************************************)
(* witray (cmd/tray): how it becomes the system tray of the display, by    *)
(* waiting for the tray before it to die (selection.c, main.c), how it     *)
(* swallows the windows that ask to be docked (client.c, xembed.c), when   *)
(* it is on the screen, and how it passes a drag on to its icons (tray.c). *)
(*                                                                         *)
(* Other programs act between any two round trips to the X server, and     *)
(* between two events.  A drag ends with a leave or a drop.                *)
(***************************************************************************)
EXTENDS Naturals, Sequences

CONSTANTS Others,     \* other tray programs
          Windows,    \* what may be docked
          Addrs,      \* where clients may live
          MaxDocks,   \* bound: how often a window asks
          MaxQueue,   \* bound: programs do nothing more while so many events wait
          Steal,      \* the program was not started with -n
          Nil

ASSUME TrayAssumption ==
  /\ Nil \notin Windows \cup Others \cup Addrs
  /\ {"self", "any"} \cap (Windows \cup Others \cup {Nil}) = {}
  /\ MaxDocks \in Nat /\ MaxQueue \in Nat /\ Steal \in BOOLEAN

VARIABLES
  at,         \* the next round trip, "loop" between events, "ended"
  icon,       \* the window that the round trip is about, and its flag as read
  selection,  \* tray.selection: "none", "waiting", "managing"
  old,        \* oldowner
  timer,      \* its timer is set
  watched,    \* the server reports when oldowner dies
  owner,      \* the server: the owner of the selection, "self" or another or Nil
  late,       \* the server: it last changed after time_start
  other,      \* other trays: "new", "living", "dead"
  win,        \* the server: each window, and the flag XEmbedMapped
  queue,      \* events on their way
  clients,    \* tray.clients, the Client of each as a record; their order is left out
  winmap,     \* windowmap: where the client of a window lives
  shown,      \* the tray's window is mapped
  dnd,        \* dnd.dest: a window, Nil, or "any" for ~0
  drag,       \* somebody drags over the tray
  entered,    \* ghost: windows that know of a drag over them
  docks       \* how often each window has asked

trayvars == <<selection, old, timer, watched, owner, late, other>>
iconvars == <<win, clients, winmap, shown, docks>>
dragvars == <<dnd, drag, entered>>
vars == <<at, icon, trayvars, queue, iconvars, dragvars>>

Living == {o \in Others : other[o] = "living"}

Init ==
  /\ at = "get" /\ icon = Nil /\ selection = "none"
  /\ old = Nil /\ timer = FALSE /\ watched = FALSE
  /\ other \in [Others -> {"new", "living"}]
  /\ owner \in Living \cup {Nil}
  /\ late = FALSE
  /\ win \in [Windows -> [live : {TRUE}, home : {"root"}, mapped : BOOLEAN, wants : BOOLEAN]]
  /\ queue = <<>> /\ clients = {}
  /\ winmap = [w \in Windows |-> Nil]
  /\ shown = FALSE
  /\ dnd = Nil /\ drag = "none" /\ entered = {}
  /\ docks = [w \in Windows |-> 0]
-----------------------------------------------------------------------------
(* selection.c                                                             *)

(* XSetSelectionOwner with the time at which witray started: it is ignored *)
(* if somebody has set the owner later.                                    *)
SetOwner(o) == owner' = IF late THEN owner ELSE o

Terminate == at' = "ended"

(* selection_manage: the first round trip.                                 *)
GetOwner ==
  /\ at = "get"
  /\ at' = IF owner = Nil THEN "create" ELSE IF Steal THEN "select" ELSE "ended"
  /\ old' = owner
  /\ UNCHANGED <<icon, selection, timer, watched, owner, late, other, queue, iconvars, dragvars>>

(* Nobody owns it: selection_create, up to the question who owns it now.   *)
Create ==
  /\ at = "create"
  /\ SetOwner("self") /\ at' = "created"
  /\ UNCHANGED <<icon, selection, old, timer, watched, late, other, queue, iconvars, dragvars>>

NoTimer ==   \* a mutant: only the death of the old tray is waited for
  /\ at = "select"
  /\ watched' = (old \in Living)
  /\ SetOwner(Nil)
  /\ selection' = "waiting" /\ timer' = FALSE /\ at' = "loop"
  /\ UNCHANGED <<icon, old, late, other, queue, iconvars, dragvars>>

(* selectinput has no effect on a window that has died: BadWindow is an    *)
(* error that is ignored.                                                  *)
WaitForOld ==
  /\ at = "select"
  /\ watched' = (old \in Living)
  /\ SetOwner(Nil)
  /\ selection' = "waiting" /\ timer' = TRUE /\ at' = "loop"
  /\ UNCHANGED <<icon, old, late, other, queue, iconvars, dragvars>>

ManagesUnasked == selection' = "managing" /\ at' = "loop"   \* a mutant: nobody asks who owns it

(* _selection_manage after its round trip: without the selection it is     *)
(* released, and the program ends; with it, MANAGER is sent.               *)
Manages ==
  IF owner = "self"
    THEN selection' = "managing" /\ at' = "loop"
    ELSE selection' = "none" /\ at' = "ended"

Created ==
  /\ at \in {"created", "grabbed"}
  /\ Manages
  /\ UNCHANGED <<icon, old, timer, watched, owner, late, other, queue, iconvars, dragvars>>

(* timeout: XKillClient of a window that has died is BadValue, which is    *)
(* not ignored, and the end.                                               *)
Timeout ==
  /\ at = "loop" /\ timer
  /\ timer' = FALSE
  /\ IF old \in Living
       THEN /\ other' = [other EXCEPT ![old] = "dead"]
            /\ queue' = IF watched THEN Append(queue, [type |-> "olddied"]) ELSE queue
            /\ owner' = IF owner = old THEN Nil ELSE owner
            /\ at' = at
       ELSE Terminate /\ UNCHANGED <<other, queue, owner>>
  /\ UNCHANGED <<icon, selection, old, watched, late, iconvars, dragvars>>
-----------------------------------------------------------------------------
(* client.c and xembed.c                                                   *)

Client(a, w, mapped) == [addr |-> a, win |-> w, mapped |-> mapped]

(* The client that events of w reach.                                      *)
Handled(w) == {c \in clients : c.addr = winmap[w]}

(* tray_update: the tray is on the screen while some client is mapped.     *)
TrayUpdate == shown' = \E c \in clients' : c.mapped

SetMapped(w, flag) ==
  clients' = (clients \ Handled(w)) \cup {[c EXCEPT !.mapped = flag] : c \in Handled(w)}

(* What the server does with a request of witray to map or unmap w, and    *)
(* the event that comes of it.                                             *)
Mapping(w, flag) ==
  IF win[w].live /\ win[w].mapped # flag
    THEN /\ win' = [win EXCEPT ![w].mapped = flag]
         /\ queue' = Append(queue, [type |-> IF flag THEN "map" ELSE "unmap", win |-> w])
    ELSE UNCHANGED <<win, queue>>

(* client_manage, and xembed_swallow up to its round trip for the flag.  A *)
(* mapped window is unmapped and mapped again when it is reparented.       *)
Swallow(w, rest) ==
  LET news == IF win[w].mapped
                THEN <<[type |-> "unmap", win |-> w], [type |-> "map", win |-> w]>>
                ELSE <<>>
  IN  IF win[w].live
        THEN /\ win' = [win EXCEPT ![w].home = "tray"]
             /\ queue' = rest \o news
             /\ at' = "swallow" /\ icon' = [win |-> w, wants |-> win[w].wants]
        ELSE /\ queue' = rest
             /\ at' = "swallow" /\ icon' = [win |-> w, wants |-> TRUE]
             /\ UNCHANGED win

(* The rest of client_manage: with the errors that were trapped, the       *)
(* client is disowned before it is in the list.                            *)
Swallowed ==
  /\ at = "swallow"
  /\ \E a \in Addrs :
       LET w == icon.win
       IN  /\ \A c \in clients : c.addr # a
           /\ IF win[w].live
                THEN /\ clients' = clients \cup {Client(a, w, icon.wants)}
                     /\ winmap' = [winmap EXCEPT ![w] = a]
                     /\ IF icon.wants THEN Mapping(w, TRUE) ELSE UNCHANGED <<win, queue>>
                ELSE /\ winmap' = [winmap EXCEPT ![w] = Nil]
                     /\ UNCHANGED <<clients, win, queue>>
  /\ TrayUpdate
  /\ at' = "loop" /\ icon' = Nil
  /\ UNCHANGED <<trayvars, dragvars, docks>>

(* xembed_disown of a window that is dead or gone, and client_cleanup.     *)
Cleanup(w) ==
  /\ clients' = clients \ Handled(w)
  /\ winmap' = [winmap EXCEPT ![w] = Nil]
  /\ TrayUpdate

UpdateForgets(w, flag) ==   \* a mutant: tray_update is not called
  SetMapped(w, flag) /\ UNCHANGED shown

(* map_event and unmap_event.                                              *)
Update(w, flag) == SetMapped(w, flag) /\ TrayUpdate

(* xembed_updateinfo, after the flag has been read.                        *)
UpdateInfo ==
  /\ at = "update"
  /\ at' = "loop" /\ icon' = Nil
  /\ LET w == icon.win
         known == {c.mapped : c \in Handled(w)}
     IN  IF known = {icon.wants}
           THEN UNCHANGED <<clients, win, queue>>
           ELSE SetMapped(w, icon.wants) /\ Mapping(w, icon.wants)
  /\ UNCHANGED <<trayvars, winmap, shown, dragvars, docks>>

(* cleanup: every client is disowned, its window goes back to the root.    *)
DisownAll ==
  /\ win' = [w \in Windows |->
               IF \E c \in clients : c.win = w
                 THEN [win[w] EXCEPT !.home = "root",
                                     !.mapped = @ /\ TRUE \notin {c.mapped : c \in Handled(w)}]
                 ELSE win[w]]
  /\ clients' = {} /\ winmap' = [w \in Windows |-> Nil]
  /\ shown' = FALSE
  /\ selection' = "none"
-----------------------------------------------------------------------------
(* Drag and drop (tray.c).                                                 *)

DropsLeave(dest) ==   \* a mutant: the icon that was left is not told
  IF dest = dnd THEN UNCHANGED <<dnd, entered>>
  ELSE dnd' = dest /\ entered' = entered \cup ({dest} \cap Windows)

(* dnd_updatestatus                                                        *)
UpdateStatus(dest) ==
  IF dest = dnd THEN UNCHANGED <<dnd, entered>>
  ELSE dnd' = dest /\ entered' = (entered \ {dnd}) \cup ({dest} \cap Windows)

DndEnter == dnd' = "any" /\ UNCHANGED entered

DndPosition ==
  \/ \E c \in clients : UpdateStatus(c.win)
  \/ UpdateStatus(Nil)

DndLeave == entered' = entered \ {dnd} /\ UNCHANGED dnd

(* A drop is passed on to an icon that is still there.                     *)
DndDrop ==
  /\ entered' = IF \E c \in clients : c.win = dnd THEN entered \ {dnd} ELSE entered
  /\ UNCHANGED dnd
-----------------------------------------------------------------------------
(* The events.                                                             *)

OldDied(rest) ==
  /\ queue' = rest
  /\ timer' = FALSE
  /\ SetOwner("self") /\ at' = "grabbed"
  /\ UNCHANGED <<icon, selection, old, watched, late, other, iconvars, dragvars>>

(* selectionclear_event: the program ends after the events that wait.      *)
SelectionClear(rest) ==
  /\ queue' = rest
  /\ DisownAll /\ Terminate
  /\ UNCHANGED <<icon, old, timer, watched, owner, late, other, docks, dragvars>>

Dock(w, rest) ==
  /\ IF selection = "managing"
       THEN Swallow(w, rest)
       ELSE queue' = rest /\ UNCHANGED <<at, icon, win>>
  /\ UNCHANGED <<trayvars, clients, winmap, shown, docks, dragvars>>

(* The events of a window that is docked: none finds a handler after it.   *)
IconEvent(e, rest) ==
  /\ queue' = rest
  /\ IF winmap[e.win] = Nil
       THEN UNCHANGED <<at, icon, clients, winmap, shown>>
       ELSE \/ /\ e.type \in {"map", "unmap"}
               /\ Update(e.win, e.type = "map")
               /\ UNCHANGED <<at, icon, winmap>>
            \/ /\ e.type \in {"destroy", "left"}
               /\ Cleanup(e.win)
               /\ UNCHANGED <<at, icon>>
            \/ /\ e.type = "info"
               /\ at' = "update" /\ icon' = [win |-> e.win, wants |-> win[e.win].wants]
               /\ UNCHANGED <<clients, winmap, shown>>
  /\ UNCHANGED <<trayvars, win, docks, dragvars>>

DragEvent(e, rest) ==
  /\ queue' = rest
  /\ CASE e.type = "enter" -> DndEnter
       [] e.type = "position" -> DndPosition
       [] e.type = "leave" -> DndLeave
       [] e.type = "drop" -> DndDrop
  /\ UNCHANGED <<icon, at, trayvars, iconvars, drag>>

Handle ==
  /\ at = "loop" /\ queue # <<>>
  /\ LET e == Head(queue)
     IN  \/ e.type = "olddied" /\ OldDied(Tail(queue))
         \/ e.type = "clear" /\ SelectionClear(Tail(queue))
         \/ e.type = "dock" /\ Dock(e.win, Tail(queue))
         \/ e.type \in {"map", "unmap", "destroy", "left", "info"} /\ IconEvent(e, Tail(queue))
         \/ e.type \in {"enter", "position", "leave", "drop"} /\ DragEvent(e, Tail(queue))

(* cleanup_handler, while the program waits for events.                    *)
Signal ==
  /\ at = "loop"
  /\ SetOwner(Nil) /\ DisownAll /\ Terminate
  /\ UNCHANGED <<icon, old, timer, watched, late, other, queue, docks, dragvars>>
-----------------------------------------------------------------------------
(* Other programs.                                                         *)

Free == Len(queue) < MaxQueue /\ at # "ended"

(* Another tray takes the selection, at a later time than ours.            *)
OtherTakes(o) ==
  /\ Free /\ owner # o /\ other[o] # "dead"
  /\ owner' = o /\ late' = TRUE /\ other' = [other EXCEPT ![o] = "living"]
  /\ queue' = IF owner = "self" THEN Append(queue, [type |-> "clear"]) ELSE queue
  /\ UNCHANGED <<icon, at, selection, old, timer, watched, iconvars, dragvars>>

OtherDies(o) ==
  /\ Free /\ o \in Living
  /\ other' = [other EXCEPT ![o] = "dead"]
  /\ owner' = IF owner = o THEN Nil ELSE owner
  /\ queue' = IF o = old /\ watched THEN Append(queue, [type |-> "olddied"]) ELSE queue
  /\ UNCHANGED <<icon, at, selection, old, timer, watched, late, iconvars, dragvars>>

(* A program asks for its window to be docked: when it starts and finds an *)
(* owner, or when it hears of a new one.                                   *)
Ask(w) ==
  /\ Free /\ owner = "self" /\ win[w].live /\ docks[w] < MaxDocks
  /\ docks' = [docks EXCEPT ![w] = @ + 1]
  /\ queue' = Append(queue, [type |-> "dock", win |-> w])
  /\ UNCHANGED <<icon, at, trayvars, win, clients, winmap, shown, dragvars>>

(* Bound: only a window that has asked changes.                            *)
Icon(w, new, type) ==
  /\ Free /\ win[w].live /\ docks[w] > 0
  /\ win' = [win EXCEPT ![w] = new]
  /\ queue' = IF win[w].home = "tray" THEN Append(queue, [type |-> type, win |-> w]) ELSE queue
  /\ UNCHANGED <<icon, at, trayvars, clients, winmap, shown, docks, dragvars>>

Destroyed(w) == Icon(w, [win[w] EXCEPT !.live = FALSE, !.mapped = FALSE], "destroy")
Leaves(w)    == win[w].home = "tray" /\ Icon(w, [win[w] EXCEPT !.home = "root"], "left")
Hides(w)     == win[w].mapped /\ Icon(w, [win[w] EXCEPT !.mapped = FALSE], "unmap")
Wants(w)     == Icon(w, [win[w] EXCEPT !.wants = ~@], "info")

Drag(type) ==
  /\ Free /\ shown /\ clients # {}
  /\ drag' = CASE drag = "none" /\ type = "enter" -> "over"
               [] drag = "over" /\ type = "position" -> "over"
               [] drag = "over" /\ type \in {"leave", "drop"} -> "none"
               [] OTHER -> "no"
  /\ drag' # "no"
  /\ queue' = Append(queue, [type |-> type])
  /\ UNCHANGED <<icon, at, trayvars, iconvars, dnd, entered>>

Program == GetOwner \/ Create \/ WaitForOld \/ Created \/ Swallowed \/ UpdateInfo \/ Handle

Environment ==
  \/ \E o \in Others : OtherTakes(o) \/ OtherDies(o)
  \/ \E w \in Windows : Ask(w) \/ Destroyed(w) \/ Leaves(w) \/ Hides(w) \/ Wants(w)
  \/ \E t \in {"enter", "position", "leave", "drop"} : Drag(t)
  \/ Signal

Next == Program \/ Timeout \/ Environment

(* The program goes on, and its timer fires.                               *)
Spec == Init /\ [][Next]_vars /\ WF_vars(Program) /\ WF_vars(Timeout)
-----------------------------------------------------------------------------
(* Properties                                                              *)

Quiet == at = "loop" /\ queue = <<>>

(* Once the events have been read, a witray that has announced itself is   *)
(* the owner of the selection: there are no two trays, however many        *)
(* programs want to follow the same old one.  (_selection_manage,          *)
(* selectionclear_event)                                                   *)
SoleTray == Quiet /\ selection = "managing" => owner = "self"

(* A witray does not wait forever for the old tray: it takes over or ends, *)
(* whatever the old one does and whenever it dies.  (selection_manage,     *)
(* timeout, destroy_event)                                                 *)
Decided == (at = "get") ~> (selection = "managing" \/ at = "ended")

(* The manual: "The tray is only visible when applications require it."    *)
(* Once the events have been read, it is on the screen just when the       *)
(* window of an icon is.                                                   *)
Visible ==
  Quiet => (shown <=> \E w \in Windows : win[w].live /\ win[w].home = "tray" /\ win[w].mapped)

(* The same, but for a window that has asked twice.  (tray_update and the  *)
(* handlers that call it)                                                  *)
VisibleOnce == (\A w \in Windows : docks[w] < 2) => Visible

(* An icon over which a drag has gone, and which is still docked, is told  *)
(* when it goes on or ends.  (message_event, dnd_updatestatus)             *)
DragsEnd ==
  (\A w \in Windows : docks[w] < 2) =>
    \A c \in clients : c.win \in entered => c.win = dnd
=============================================================================
