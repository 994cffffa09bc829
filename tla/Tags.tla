-------------------------------- MODULE Tags --------------------------------
(***************************************************************************)
(* The views of wmii and the frames each client has in them: tags, tag     *)
(* expressions, and how views come and go.  client_applytags and           *)
(* client_setviews of client.c call view_create, view_attach and           *)
(* view_detach of view.c, and these call client_applytags again for other  *)
(* clients and for the same one.  A handler is therefore an operator from  *)
(* the whole state to the whole state, each function it calls an operator  *)
(* named after the function, and the lists that the calls share are kept   *)
(* as the linked lists they are.                                           *)
(*                                                                         *)
(* A name is a number, in strcmp's order.  A frame is named by its client, *)
(* its view and a number that tells apart two frames for the same view.    *)
(* A tag expression is the set of names it matches, {} is no expression.   *)
(*                                                                         *)
(*   views     the list of views, which is sorted                          *)
(*   dead      views that view_destroy is in the middle of destroying      *)
(*   sel       selview                                                     *)
(*   clients   the list of clients                                         *)
(*   toks, re, vre, retags   c->tags, c->tagre, c->tagvre, c->retags       *)
(*   head, next   c->frame and f->cnext                                    *)
(*   csel      c->sel                                                      *)
(*   in        the frames of each view, in foreach_frame order             *)
(*   life      whether a frame is free memory, allocated, or was freed by  *)
(*             the handler that is running                                 *)
(*   gone      allocated frames whose view has been freed                  *)
(*   fault     why the program stopped, or "none"                          *)
(*                                                                         *)
(* Areas are module View's matter: here a view is one list of frames, to   *)
(* which a new one is appended.  No client is in a group.  A handler has   *)
(* three frames of memory for a client and a view.  One that runs out of   *)
(* them, or makes a view while another of the same name is being           *)
(* destroyed, ends with a fault, so none goes unnoticed.                   *)
(***************************************************************************)
EXTENDS Integers, SequencesExt

CONSTANTS
  Clients,
  Names,            \* names of views, in strcmp's order
  Orphans,          \* the name "orphans"
  First,            \* the view selected at start-up
  nil,
  Writes,           \* what may be written to a tags file
  Careful           \* does the user keep expressions out of harm's way?

ASSUME TagsAssumption ==
  /\ Names \subseteq Nat
  /\ {Orphans, First} \subseteq Names
  /\ Careful \in BOOLEAN

VARIABLE wm

Frames == Clients \X Names \X (1 .. 3)
Client(f) == f[1]
View(f) == f[2]

Init ==
  wm = [views |-> {First}, dead |-> {}, sel |-> First, clients |-> <<>>,
        toks |-> [c \in Clients |-> {}], re |-> [c \in Clients |-> {}],
        vre |-> [c \in Clients |-> {}], retags |-> [c \in Clients |-> {}],
        head |-> [c \in Clients |-> nil], next |-> [f \in Frames |-> nil],
        csel |-> [c \in Clients |-> nil], in |-> [n \in Names |-> <<>>],
        life |-> [f \in Frames |-> "free"], gone |-> {}, fault |-> "none"]

Ok(s) == s.fault = "none"
Stop(s, why) == [s EXCEPT !.fault = why]
Allocated(s, f) == s.life[f] = "live"

Sorted(S) == SetToSortSeq(S, LAMBDA m, n : m < n)
FirstOf(q) == IF q = <<>> THEN nil ELSE q[1]
Following(q, e) ==
  LET I == {i \in DOMAIN q : i > 1 /\ q[i - 1] = e}
  IN  IF I = {} THEN nil ELSE q[CHOOSE i \in I : TRUE]

-----------------------------------------------------------------------------
(* view.c                                                                  *)

\* empty_p: the frames that are in the view by an expression do not count.
EmptyP(s, n) == \A f \in ToSet(s.in[n]) : n \in s.retags[Client(f)]

\* MUTANT: a client that has a current frame keeps it.
FramesUpdateSelOnce(s, n) ==
  [s EXCEPT !.csel = [c \in Clients |->
     LET i == SelectLastInSeq(s.in[n], LAMBDA f : Client(f) = c)
     IN  IF i = 0 \/ @[c] # nil THEN @[c] ELSE s.in[n][i]]]

\* frames_update_sel
FramesUpdateSel(s, n) ==
  [s EXCEPT !.csel = [c \in Clients |->
     LET i == SelectLastInSeq(s.in[n], LAMBDA f : Client(f) = c)
     IN  IF i = 0 THEN @[c] ELSE s.in[n][i]]]

\* view_update reads the c->sel of every client, if the view is on screen.
ReadsSel(s) ==
  IF \E c \in ToSet(s.clients) : s.csel[c] # nil /\ ~Allocated(s, s.csel[c])
  THEN Stop(s, "freed") ELSE s

ViewUpdate(s, n) ==
  IF n # s.sel \/ ~Ok(s) THEN s ELSE ReadsSel(FramesUpdateSel(s, n))

\* view_attach, with the frame already made.
ViewAttach(s, f) ==
  ViewUpdate([s EXCEPT !.in[View(f)] = Append(@, f),
                       !.csel[Client(f)] = IF @ = nil THEN f ELSE @], View(f))

RECURSIVE SetViews(_, _, _, _), ViewDestroy(_, _)

\* The end of client_applytags: an expression puts the client in the views
\* that it matches, and a client left without any view becomes an orphan.
Matched(s, c) == (s.re[c] \cap s.views) \ s.vre[c]
Wanted(s, c) ==
  IF Matched(s, c) \cup s.toks[c] = {} THEN {Orphans}
  ELSE Matched(s, c) \cup s.toks[c]

Reapply(s, c) ==
  IF ~Ok(s) THEN s
  ELSE SetViews([s EXCEPT !.retags[c] = Matched(s, c) \ s.toks[c]], c,
                Sorted(Wanted(s, c)), nil)

\* MUTANT: a new view is not offered to the expressions of the clients.
ViewCreateUnoffered(s, n) ==
  IF n \in s.views THEN s
  ELSE [s EXCEPT !.views = @ \cup {n}, !.in[n] = <<>>]

\* view_create applies every client's tags again.  It spares the client
\* named by kludge, but whenever it is called kludge is nil.
ViewCreate(s, n) ==
  IF n \in s.views THEN s
  ELSE IF n \in s.dead THEN Stop(s, "two views of one name")
  ELSE FoldLeft(Reapply,
                [s EXCEPT !.views = @ \cup {n}, !.in[n] = <<>>], s.clients)

\* view_detach.  A frame that is in no area any more has a null area.
DestroyUnused(s, n) ==
  IF Ok(s) /\ n # s.sel /\ EmptyP(s, n) THEN ViewDestroy(s, n) ELSE s

ViewDetach(s, f) ==
  LET c == Client(f)
      n == View(f)
  IN  IF f \notin ToSet(s.in[n]) THEN Stop(s, "nil")
      ELSE DestroyUnused(
             ViewUpdate([s EXCEPT !.in[n] = SelectSeq(@, LAMBDA g : g # f),
                                  !.csel[c] = IF @ = f THEN s.next[f] ELSE @],
                        n), n)

\* view_destroy.  Its loop over the frames that are left has noted the frame
\* after f before it applies the tags of f's client again.
RECURSIVE DetachHeld(_, _, _)
DetachHeld(s, n, f) ==
  LET after == Following(s.in[n], f)
      t == Reapply(s, Client(f))
  IN  IF f = nil \/ ~Ok(s) THEN s
      ELSE IF after # nil /\ Ok(t) /\ ~Allocated(t, after)
      THEN Stop(t, "freed")
      ELSE DetachHeld(t, n, after)

\* The areas are destroyed, and must be empty; then the view is freed.
FreeView(s, n) ==
  IF ~Ok(s) THEN s
  ELSE IF s.in[n] # <<>> THEN Stop(s, "die")
  ELSE [s EXCEPT !.dead = @ \ {n},
                 !.gone = @ \cup {f \in Frames : Allocated(s, f) /\ View(f) = n}]

\* MUTANT: the frames held by expressions stay in the view.
ViewDestroyHolding(s, n) ==
  IF n \in s.dead THEN s
  ELSE FreeView([s EXCEPT !.views = @ \ {n}, !.dead = @ \cup {n}], n)

ViewDestroy(s, n) ==
  IF n \in s.dead THEN s
  ELSE FreeView(DetachHeld([s EXCEPT !.views = @ \ {n}, !.dead = @ \cup {n}],
                           n, FirstOf(s.in[n])), n)

-----------------------------------------------------------------------------
(* client.c: client_setviews walks the frames and the tags of c together.  *)
(* p is the frame whose cnext the code's fp points at, or nil for c->frame.*)

Pointed(s, c, p) == IF p = nil THEN s.head[c] ELSE s.next[p]

Link(s, c, p, f) ==
  IF p = nil THEN [s EXCEPT !.head[c] = f] ELSE [s EXCEPT !.next[p] = f]

\* frame_create, for a view that view_create has found or made.
Fresh(s, c, n) ==
  <<c, n, CHOOSE k \in 1 .. 3 :
            \/ s.life[<<c, n, k>>] = "free"
            \/ k = 3 /\ \A j \in 1 .. 2 : s.life[<<c, n, j>>] # "free">>

FrameCreate(s, f, selects) ==
  IF ~Ok(s) THEN s
  ELSE IF View(f) \notin s.views \/ s.life[f] # "free" THEN Stop(s, "freed")
  ELSE [s EXCEPT !.life[f] = "live",
                 !.csel[Client(f)] = IF @ = nil \/ selects THEN f ELSE @]

\* MUTANT: the frames after the new one are forgotten.
LinkedLast(s, c, p, f) ==
  IF ~Ok(s) THEN s
  ELSE IF p # nil /\ ~Allocated(s, p) THEN Stop(s, "freed")
  ELSE Link([s EXCEPT !.next[f] = nil], c, p, f)

\* A new frame is attached before it is linked to the others.
Linked(s, c, p, f) ==
  IF ~Ok(s) THEN s
  ELSE IF p # nil /\ ~Allocated(s, p) THEN Stop(s, "freed")
  ELSE Link([s EXCEPT !.next[f] = Pointed(s, c, p)], c, p, f)

AddFrame(s, c, p, f) ==
  Linked(ViewAttach(FrameCreate(s, f, View(f) = s.sel), f), c, p, f)

\* A frame is detached before it is taken out of the list and freed.
FreeFrame(s, c, p, f) ==
  IF ~Ok(s) THEN s
  ELSE IF ~Allocated(s, f) \/ (p # nil /\ ~Allocated(s, p))
  THEN Stop(s, "freed")
  ELSE Link([s EXCEPT !.life[f] = "freed", !.gone = @ \ {f},
                      !.csel[c] = IF @ = f THEN s.next[f] ELSE @],
            c, p, s.next[f])

\* MUTANT: a frame for a view that c is to be in is made anew.
LeftoverOrSame(f, tags) == f # nil /\ (tags = <<>> \/ View(f) <= Head(tags))

\* A frame for a view that c is no longer to be in.
Leftover(f, tags) == f # nil /\ (tags = <<>> \/ View(f) < Head(tags))

Dangling(s, f) == f # nil /\ (~Allocated(s, f) \/ f \in s.gone)

SetViews(s, c, tags, p) ==
  LET cur == Pointed(s, c, p)
      made == ViewCreate(s, Head(tags))
      new == Fresh(made, c, Head(tags))
  IN  IF ~Ok(s) THEN s
      ELSE IF (p # nil /\ ~Allocated(s, p)) \/ Dangling(s, cur)
      THEN Stop(s, "freed")
      ELSE IF cur = nil /\ tags = <<>>
      THEN [s EXCEPT !.csel[c] = IF @ = nil THEN s.head[c] ELSE @]
      ELSE IF Leftover(cur, tags)
      THEN SetViews(FreeFrame(ViewDetach(s, cur), c, p, cur), c, tags, p)
      ELSE IF cur # nil /\ View(cur) = Head(tags)
      THEN SetViews(s, c, Tail(tags), cur)
      ELSE SetViews(AddFrame(made, c, p, new), c, Tail(tags), new)

-----------------------------------------------------------------------------
(* The rest of the code the handlers are made of.                          *)

\* view_update_all destroys the views that are empty, but not the one that
\* is selected.  The view after n is noted before n is destroyed.
RECURSIVE Sweep(_, _)
Sweep(s, n) ==
  LET later == {m \in s.views : m > n}
      after == CHOOSE m \in later : \A k \in later : m <= k
      t == DestroyUnused(s, n)
  IN  IF ~Ok(t) \/ later = {} THEN t
      ELSE IF after \notin t.views THEN Stop(t, "freed")
      ELSE Sweep(t, after)

ViewUpdateAll(s) ==
  IF ~Ok(s) THEN s
  ELSE ViewUpdate(Sweep(FoldLeft(FramesUpdateSel, s, Sorted(s.views)),
                        Sorted(s.views)[1]), s.sel)

\* view_select
ViewSelect(s, n) ==
  LET t == ViewCreate(s, n)
  IN  IF Ok(t) THEN ViewUpdateAll([t EXCEPT !.sel = n]) ELSE t

\* bsearch of the C library, on a list that need not be sorted.
RECURSIVE Bsearch(_, _, _, _)
Bsearch(q, n, l, u) ==
  LET i == (l + u) \div 2
  IN  IF l >= u THEN FALSE
      ELSE IF q[i + 1] = n THEN TRUE
      ELSE IF n < q[i + 1] THEN Bsearch(q, n, l, i) ELSE Bsearch(q, n, i + 1, u)

\* The loop of client_applytags over what is written.  An item is an
\* operation on one name, or on an expression.
Item(acc, it) ==
  IF it.re # {}
  THEN CASE it.op = "+" -> [acc EXCEPT !.re = it.re]
         [] it.op = "-" -> [acc EXCEPT !.vre = it.re]
         [] OTHER -> acc
  ELSE IF it.op = "+" \/ (it.op = "^" /\ ~Bsearch(acc.q, it.tag, 0, Len(acc.q)))
  THEN [acc EXCEPT !.q = Append(@, it.tag)]
  ELSE [acc EXCEPT !.q = SelectSeq(@, LAMBDA m : m # it.tag)]

\* What is written either follows the old tags or replaces them.
Parse(s, c, w) ==
  FoldLeft(Item, IF w.append
                 THEN [q |-> Sorted(s.toks[c]), re |-> s.re[c], vre |-> s.vre[c]]
                 ELSE [q |-> <<>>, re |-> {}, vre |-> {}], w.items)

ApplyTags(s, c, w) ==
  LET acc == Parse(s, c, w)
  IN  Reapply([s EXCEPT !.toks[c] = ToSet(acc.q), !.re[c] = acc.re,
                        !.vre[c] = acc.vre], c)

\* The frames in a client's list.
RECURSIVE ListFrom(_, _, _)
ListFrom(s, f, k) ==
  IF f = nil \/ k = 0 THEN <<>> ELSE <<f>> \o ListFrom(s, s.next[f], k - 1)
FramesOf(s, c) == ListFrom(s, s.head[c], Cardinality(Frames))

\* Between two handlers no view is half destroyed, every pointer names an allocated frame in a view that
\* exists, every allocated frame is in the list of its client and in that of
\* its view, once, and a client has no two frames in one view.
Sound(s) ==
  /\ s.dead = {} /\ s.gone = {}
  /\ \A c \in Clients :
       LET q == FramesOf(s, c)
           F == {f \in Frames : Allocated(s, f) /\ Client(f) = c}
       IN  /\ IsInjective([i \in DOMAIN q |-> View(q[i])])
           /\ ToSet(q) = F
           /\ s.csel[c] \in F \/ (F = {} /\ s.csel[c] = nil)
           /\ c \in ToSet(s.clients) <=> F # {}
  /\ \A n \in Names :
       /\ IsInjective(s.in[n])
       /\ ToSet(s.in[n]) = {f \in Frames : Allocated(s, f) /\ View(f) = n}
       /\ n \in s.views \/ s.in[n] = <<>>

\* The number that told two frames apart is needed no longer.
Only(f) == <<Client(f), View(f), 1>>
Name(f) == IF f = nil THEN nil ELSE Only(f)

Settled(s) ==
  IF ~Ok(s) \/ ~Sound(s) THEN s
  ELSE LET At(f) == {g \in Frames : Allocated(s, g) /\ Only(g) = f}
       IN [s EXCEPT
             !.head = [c \in Clients |-> Name(@[c])],
             !.csel = [c \in Clients |-> Name(@[c])],
             !.in = [n \in Names |-> [i \in DOMAIN @[n] |-> Name(@[n][i])]],
             !.next = [f \in Frames |->
                         IF At(f) = {} THEN nil
                         ELSE Name(@[CHOOSE g \in At(f) : TRUE])],
             !.life = [f \in Frames |->
                         IF At(f) = {} THEN "free" ELSE "live"]]

-----------------------------------------------------------------------------
(* Actions.                                                                *)

Running == Ok(wm)
Listed == ToSet(wm.clients)

\* client_manage: a window is mapped, with the tags its rules or its leader
\* give it.
Manage(c, w) ==
  /\ Running
  /\ c \notin Listed
  /\ ~w.append
  /\ wm' = Settled(ViewUpdateAll(
             ApplyTags([wm EXCEPT !.clients = Append(@, c)], c, w)))

\* A careful user gives a client an expression only beside a plain tag, and
\* only if it has not changed places with another.
Safe(c, w) ==
  LET acc == Parse(wm, c, w)
      q == FramesOf(wm, c)
  IN  acc.re # {} => /\ acc.q # <<>>
                     /\ \A i \in 2 .. Len(q) : View(q[i - 1]) < View(q[i])

\* The tags of c are written: to its tags file, or by its ctl file.  Nothing
\* but a sign, or an empty string, applies the tags as they are.
WriteTags(c, w) ==
  /\ Running
  /\ c \in Listed
  /\ Careful => Safe(c, w)
  /\ wm' = Settled(ApplyTags(wm, c, w))

\* view: of the root ctl file, and _NET_CURRENT_DESKTOP.
SelectView(n) ==
  /\ Running
  /\ wm' = Settled(ViewSelect(wm, n))

\* focus() of a client that is not in the view on screen: view_focus.
FocusClient(c) ==
  /\ Running
  /\ c \in Listed
  /\ View(wm.csel[c]) # wm.sel
  /\ wm' = Settled(ViewUpdate([wm EXCEPT !.sel = View(wm.csel[c])],
                              View(wm.csel[c])))

\* client_destroy
Destroy(c) ==
  LET t == SetViews([wm EXCEPT !.clients = SelectSeq(@, LAMBDA d : d # c)],
                    c, <<>>, nil)
  IN  /\ Running
      /\ c \in Listed
      /\ wm' = Settled([t EXCEPT !.toks[c] = {}, !.re[c] = {}, !.vre[c] = {},
                                 !.retags[c] = {}])

\* frame_swap, and the view_update_all of sendarea: c and d change places in
\* view n, and each one's frame comes to the head of its list.
ToFront(s, f) ==
  LET c == Client(f)
      q == <<f>> \o SelectSeq(FramesOf(s, c), LAMBDA g : g # f)
  IN  [s EXCEPT !.head[c] = f,
                !.next = [g \in Frames |-> IF Client(g) = c
                                           THEN Following(q, g) ELSE @[g]]]

Swap(c, d, n) ==
  LET f == <<c, n, 1>>
      g == <<d, n, 1>>
      swapped == [i \in DOMAIN wm.in[n] |->
                    CASE wm.in[n][i] = f -> g [] wm.in[n][i] = g -> f
                      [] OTHER -> wm.in[n][i]]
  IN  /\ Running
      /\ c # d
      /\ Careful => wm.re[c] = {} /\ wm.re[d] = {}
      /\ {f, g} \subseteq ToSet(wm.in[n])
      /\ wm' = Settled(ViewUpdateAll(
                 ToFront(ToFront([wm EXCEPT !.in[n] = swapped], g), f)))

Next ==
  \/ \E n \in Names :
       \/ SelectView(n)
       \/ \E c, d \in Clients : Swap(c, d, n)
  \/ \E c \in Clients :
       \/ \E w \in Writes : Manage(c, w) \/ WriteTags(c, w)
       \/ FocusClient(c) \/ Destroy(c)

Spec == Init /\ [][Next]_wm

-----------------------------------------------------------------------------
(* Properties.                                                             *)

\* The lists of views, clients and frames agree between two handlers.
ListsAgree == Running => Sound(wm)

\* No handler reads a frame or a view it has freed, uses the area of a frame
\* that is in none, or destroys an area with frames in it.
NeverCrashes == Running

\* A client is in exactly the views that its tags and its expression name.
InTaggedViews ==
  Running => \A c \in Listed :
               {View(f) : f \in ToSet(FramesOf(wm, c))} = Wanted(wm, c)

\* c->sel is the frame in the view on screen, if there is one there.
SelOnScreen ==
  Running => \A f \in ToSet(wm.in[wm.sel]) : wm.csel[Client(f)] = f

\* A window that stays in a view keeps its place there among those that stay,
\* whoever's tags are applied and whichever views come and go, as long as its
\* frames are in the order of their views: client_setviews takes a frame that
\* frame_swap has put out of order for one to be made again.
InOrder(c) ==
  LET q == FramesOf(wm, c)
  IN  \A i \in 2 .. Len(q) : View(q[i - 1]) < View(q[i])

Stays(f) ==
  /\ InOrder(Client(f))
  /\ \A v \in {wm, wm'} : f \in ToSet(v.in[View(f)])

PlacesKept ==
  [][\/ ~Ok(wm')
     \/ \A n \in Names :
          SelectSeq(wm.in[n], Stays) = SelectSeq(wm'.in[n], Stays)
     \/ \E c, d \in Clients, n \in Names : Swap(c, d, n)]_wm

\* A toggle that ends what is written to a tags file removes a tag that is there, and adds
\* one that is not.
Toggles ==
  Running => \A c \in Listed, w \in {x \in Writes : x.items # <<>>} :
    LET it == Last(w.items)
        before == Parse(wm, c, [w EXCEPT !.items = Front(@)])
    IN  it.op = "^" /\ it.re = {} =>
          (it.tag \in ToSet(Parse(wm, c, w).q) <=> it.tag \notin ToSet(before.q))

=============================================================================
