---------------------------- MODULE View_proofs ----------------------------
(***************************************************************************)
(* The invariant of module View and its proof.  First what the operations  *)
(* of module Area do to the lists of a view, for lists of any length.      *)
(* IInv says of the whole view what Good says of a view that exists; each  *)
(* handler takes a Good view to a Good one, to an empty one that has been  *)
(* destroyed, or to a program that has stopped.                            *)
(*                                                                         *)
(* The theorems hold when a fullscreen client is not changed behind a view *)
(* that is off screen (~HiddenFullscreen).  Without that, area_detach does *)
(* read a freed area: the README says how.                                 *)
(***************************************************************************)
EXTENDS View, SequenceTheorems, WellFoundedInduction, TLAPS

\* A set of naturals has a least element, a bounded one a greatest.
LEMMA NatMin ==
  ASSUME NEW T, T \subseteq Nat, T # {}
  PROVE  \E x \in T : \A y \in T : x <= y
<1> DEFINE R == OpToRel(<, Nat)
<1>1. PICK x \in T : \A y \in T : ~(<<y, x>> \in R)
  <2>1. IsWellFoundedOn(R, Nat)
    BY NatLessThanWellFounded
  <2> HIDE DEF R
  <2> QED
    BY <2>1, WFMin
<1>2. \A y \in T : ~(y < x)
  BY <1>1 DEF OpToRel
<1> QED
  BY <1>2

LEMMA NatMax ==
  ASSUME NEW n \in Nat, NEW T, T \subseteq 1 .. n, T # {}
  PROVE  \E x \in T : \A y \in T : y <= x
<1> DEFINE U == {n - i : i \in T}
<1>0. \A i \in T : n - i \in Nat
  OBVIOUS
<1>1. U \subseteq Nat /\ U # {}
  BY <1>0
<1>2. PICK m \in U : \A k \in U : m <= k
  BY <1>1, NatMin
<1>3. PICK x \in T : m = n - x
  OBVIOUS
<1>4. \A y \in T : y <= x
  <2> TAKE y \in T
  <2>1. n - x <= n - y
    BY <1>2, <1>3
  <2> QED
    BY <2>1
<1> QED
  BY <1>4
\* IndexIn finds the position of an element of a list.
LEMMA IndexInPos ==
  ASSUME NEW S, NEW q \in Seq(S), NEW e \in ToSet(q)
  PROVE  IndexIn(q, e) \in 1 .. Len(q) /\ q[IndexIn(q, e)] = e
<1>1. PICK i \in DOMAIN q : q[i] = e
  BY DEF ToSet
<1>2. IndexIn(q, e) \in DOMAIN q /\ q[IndexIn(q, e)] = e
  BY <1>1 DEF IndexIn
<1> QED
  BY <1>2, LenProperties

LEMMA ToSetSubset ==
  ASSUME NEW S, NEW q \in Seq(S)
  PROVE  ToSet(q) \subseteq S
BY LenProperties DEF ToSet

LEMMA EmptyToSet ==
  ASSUME NEW S, NEW q \in Seq(S)
  PROVE  q = <<>> <=> ToSet(q) = {}
<1>1. ASSUME q = <<>> PROVE ToSet(q) = {}
  BY <1>1, EmptySeq, LenProperties DEF ToSet
<1>2. ASSUME q # <<>> PROVE q[1] \in ToSet(q)
  BY <1>2, EmptySeq, LenProperties DEF ToSet
<1> QED
  BY <1>1, <1>2

\* RemoveAt drops one element and keeps the rest in order.
LEMMA RemoveAtProps ==
  ASSUME NEW S, NEW q \in Seq(S), NEW i \in 1 .. Len(q)
  PROVE  /\ RemoveAt(q, i) \in Seq(S)
         /\ Len(RemoveAt(q, i)) = Len(q) - 1
         /\ \A j \in 1 .. Len(q) - 1 :
              RemoveAt(q, i)[j] = IF j < i THEN q[j] ELSE q[j + 1]
<1> DEFINE l == SubSeq(q, 1, i - 1)
           r == SubSeq(q, i + 1, Len(q))
<1>1. Len(q) \in Nat /\ \A j \in 1 .. Len(q) : q[j] \in S
  BY LenProperties
<1>2. /\ l \in Seq(S)
      /\ Len(l) = i - 1
      /\ \A j \in 1 .. i - 1 : l[j] = q[j]
  BY <1>1, SubSeqProperties, Z3
<1>3. /\ r \in Seq(S)
      /\ Len(r) = Len(q) - i
      /\ \A j \in 1 .. Len(q) - i : r[j] = q[i + j]
  BY <1>1, SubSeqProperties, Z3
<1> HIDE DEF l, r
<1>4. /\ l \o r \in Seq(S)
      /\ Len(l \o r) = Len(q) - 1
      /\ \A j \in 1 .. Len(q) - 1 :
           (l \o r)[j] = IF j <= i - 1 THEN l[j] ELSE r[j - (i - 1)]
  BY <1>1, <1>2, <1>3, ConcatProperties
<1>5. RemoveAt(q, i) = l \o r
  BY DEF RemoveAt, l, r
<1>6. ASSUME NEW j \in 1 .. Len(q) - 1
      PROVE  (l \o r)[j] = IF j < i THEN q[j] ELSE q[j + 1]
  <2>1. CASE j < i
    <3>1. (l \o r)[j] = l[j]
      BY <1>1, <1>4, <2>1
    <3> QED
      BY <1>1, <1>2, <2>1, <3>1
  <2>2. CASE ~(j < i)
    <3>1. (l \o r)[j] = r[j - (i - 1)] /\ j - (i - 1) \in 1 .. Len(q) - i
      BY <1>1, <1>4, <2>2
    <3>2. i + (j - (i - 1)) = j + 1
      BY <1>1
    <3> QED
      BY <1>3, <2>2, <3>1, <3>2
  <2> QED
    BY <2>1, <2>2
<1> QED
  BY <1>4, <1>5, <1>6

\* InsertAt puts one element in and keeps the rest in order.
LEMMA InsertAtProps ==
  ASSUME NEW S, NEW q \in Seq(S), NEW i \in 1 .. Len(q) + 1, NEW e \in S
  PROVE  /\ InsertAt(q, i, e) \in Seq(S)
         /\ Len(InsertAt(q, i, e)) = Len(q) + 1
         /\ \A j \in 1 .. Len(q) + 1 :
              InsertAt(q, i, e)[j] = IF j < i THEN q[j]
                                     ELSE IF j = i THEN e ELSE q[j - 1]
<1> DEFINE l == SubSeq(q, 1, i - 1)
           r == SubSeq(q, i, Len(q))
           le == l \o <<e>>
<1>1. Len(q) \in Nat /\ \A j \in 1 .. Len(q) : q[j] \in S
  BY LenProperties
<1>2. /\ l \in Seq(S)
      /\ Len(l) = i - 1
      /\ \A j \in 1 .. i - 1 : l[j] = q[j]
  BY <1>1, SubSeqProperties, Z3
<1>3. /\ r \in Seq(S)
      /\ Len(r) = Len(q) - i + 1
      /\ \A j \in 1 .. Len(q) - i + 1 : r[j] = q[i + j - 1]
  BY <1>1, SubSeqProperties, Z3
<1>4. <<e>> \in Seq(S) /\ Len(<<e>>) = 1 /\ <<e>>[1] = e
  OBVIOUS
<1> HIDE DEF l, r
<1>5. /\ le \in Seq(S)
      /\ Len(le) = i
      /\ \A j \in 1 .. i : le[j] = IF j <= i - 1 THEN l[j] ELSE e
  BY <1>1, <1>2, <1>4, ConcatProperties
<1> HIDE DEF le
<1>6. /\ le \o r \in Seq(S)
      /\ Len(le \o r) = Len(q) + 1
      /\ \A j \in 1 .. Len(q) + 1 :
           (le \o r)[j] = IF j <= i THEN le[j] ELSE r[j - i]
  <2>1. /\ le \o r \in Seq(S)
        /\ Len(le \o r) = Len(le) + Len(r)
        /\ \A j \in 1 .. Len(le) + Len(r) :
             (le \o r)[j] = IF j <= Len(le) THEN le[j] ELSE r[j - Len(le)]
    BY <1>3, <1>5, ConcatProperties, Zenon
  <2>2. Len(le) = i /\ Len(le) + Len(r) = Len(q) + 1
    BY <1>1, <1>3, <1>5
  <2> QED
    BY <2>1, <2>2
<1>7. InsertAt(q, i, e) = le \o r
  BY DEF InsertAt, le, l, r
<1>8. ASSUME NEW j \in 1 .. Len(q) + 1
      PROVE  (le \o r)[j] = IF j < i THEN q[j] ELSE IF j = i THEN e ELSE q[j - 1]
  <2>1. CASE j <= i
    <3>1. (le \o r)[j] = le[j] /\ j \in 1 .. i
      BY <1>1, <1>6, <2>1
    <3>2. le[j] = IF j <= i - 1 THEN l[j] ELSE e
      BY <1>5, <3>1
    <3> QED
      BY <1>1, <1>2, <2>1, <3>1, <3>2
  <2>2. CASE ~(j <= i)
    <3>1. (le \o r)[j] = r[j - i] /\ j - i \in 1 .. Len(q) - i + 1
      BY <1>1, <1>6, <2>2
    <3>2. i + (j - i) - 1 = j - 1
      BY <1>1
    <3> QED
      BY <1>1, <1>3, <2>2, <3>1, <3>2, SMTT(30)
  <2> QED
    BY <2>1, <2>2
<1> QED
  BY <1>6, <1>7, <1>8

\* An index of a list that lost its i-th element stands for one of the
\* list's other indices.
LEMMA RemoveAtSet ==
  ASSUME NEW S, NEW q \in Seq(S), NEW i \in 1 .. Len(q), IsInjective(q)
  PROVE  /\ RemoveAt(q, i) \in Seq(S)
         /\ IsInjective(RemoveAt(q, i))
         /\ ToSet(RemoveAt(q, i)) = ToSet(q) \ {q[i]}
         /\ Len(RemoveAt(q, i)) = Len(q) - 1
<1> DEFINE r == RemoveAt(q, i)
           At(j) == IF j < i THEN j ELSE j + 1
<1>1. Len(q) \in Nat /\ DOMAIN q = 1 .. Len(q)
  BY LenProperties
<1>2. /\ r \in Seq(S)
      /\ Len(r) = Len(q) - 1
      /\ \A j \in 1 .. Len(q) - 1 : r[j] = IF j < i THEN q[j] ELSE q[j + 1]
  BY RemoveAtProps
<1>3. DOMAIN r = 1 .. Len(q) - 1
  BY <1>2, LenProperties
<1> HIDE DEF r
<1>4. \A j \in DOMAIN r : r[j] = q[At(j)] /\ At(j) \in DOMAIN q /\ At(j) # i
  BY <1>1, <1>2, <1>3
<1>5. \A j, k \in DOMAIN r : At(j) = At(k) => j = k
  BY <1>1, <1>3
<1>6. \A j \in DOMAIN q : j # i => \E k \in DOMAIN r : At(k) = j
  <2> TAKE j \in DOMAIN q
  <2> HAVE j # i
  <2>1. CASE j < i
    <3>1. j \in DOMAIN r /\ At(j) = j
      BY <1>1, <1>3, <2>1
    <3> QED BY <3>1
  <2>2. CASE j > i
    <3>1. j - 1 \in DOMAIN r /\ At(j - 1) = j
      BY <1>1, <1>3, <2>2
    <3> QED BY <3>1
  <2> QED
    BY <1>1, <2>1, <2>2
<1> HIDE DEF At
<1>7. IsInjective(r)
  BY <1>4, <1>5 DEF IsInjective
<1>8. ToSet(r) \subseteq ToSet(q) \ {q[i]}
  BY <1>1, <1>4 DEF ToSet, IsInjective
<1>9. ToSet(q) \ {q[i]} \subseteq ToSet(r)
  <2> SUFFICES ASSUME NEW x \in ToSet(q), x # q[i] PROVE x \in ToSet(r)
    OBVIOUS
  <2>1. PICK j \in DOMAIN q : q[j] = x
    BY DEF ToSet
  <2>2. PICK k \in DOMAIN r : At(k) = j
    BY <1>6, <2>1
  <2> QED
    BY <1>4, <2>1, <2>2 DEF ToSet
<1> QED
  BY <1>2, <1>7, <1>8, <1>9 DEF r

\* frame_remove: the list loses the frame and nothing else.
LEMMA FrameRemoveProps ==
  ASSUME NEW S, NEW q \in Seq(S), IsInjective(q), NEW e \in ToSet(q)
  PROVE  /\ FrameRemove(q, e) \in Seq(S)
         /\ IsInjective(FrameRemove(q, e))
         /\ ToSet(FrameRemove(q, e)) = ToSet(q) \ {e}
         /\ Len(FrameRemove(q, e)) = Len(q) - 1
BY IndexInPos, RemoveAtSet DEF FrameRemove

LEMMA InsertAtSet ==
  ASSUME NEW S, NEW q \in Seq(S), NEW i \in 1 .. Len(q) + 1, IsInjective(q),
         NEW e \in S \ ToSet(q)
  PROVE  /\ InsertAt(q, i, e) \in Seq(S)
         /\ IsInjective(InsertAt(q, i, e))
         /\ ToSet(InsertAt(q, i, e)) = ToSet(q) \cup {e}
<1>1. Len(q) \in Nat /\ DOMAIN q = 1 .. Len(q)
  BY LenProperties
<1>0. e \in S
  OBVIOUS
<1> DEFINE r == InsertAt(q, i, e)
           At(j) == IF j < i THEN j ELSE j - 1
<1>2. /\ r \in Seq(S)
      /\ Len(r) = Len(q) + 1
      /\ \A j \in 1 .. Len(q) + 1 :
           r[j] = IF j < i THEN q[j] ELSE IF j = i THEN e ELSE q[j - 1]
  BY <1>0, InsertAtProps, SMTT(60)
<1>3. DOMAIN r = 1 .. Len(q) + 1
  BY <1>2, LenProperties
<1> HIDE DEF r
<1>4. i \in DOMAIN r /\ r[i] = e
  BY <1>1, <1>2, <1>3
<1>5. \A j \in DOMAIN r : j # i => r[j] = q[At(j)] /\ At(j) \in DOMAIN q
  BY <1>1, <1>2, <1>3
<1>6. \A j, k \in DOMAIN r : j # i /\ k # i /\ At(j) = At(k) => j = k
  BY <1>1, <1>3
<1>7. \A j \in DOMAIN q : \E k \in DOMAIN r : k # i /\ At(k) = j
  <2> TAKE j \in DOMAIN q
  <2>1. CASE j < i
    <3>1. j \in DOMAIN r /\ j # i /\ At(j) = j
      BY <1>1, <1>3, <2>1
    <3> QED BY <3>1
  <2>2. CASE j >= i
    <3>1. j + 1 \in DOMAIN r /\ j + 1 # i /\ At(j + 1) = j
      BY <1>1, <1>3, <2>2
    <3> QED BY <3>1
  <2> QED
    BY <1>1, <2>1, <2>2
<1> HIDE DEF At
<1>8. \A j \in DOMAIN q : q[j] # e
  BY DEF ToSet
<1>9. IsInjective(r)
  BY <1>4, <1>5, <1>6, <1>8 DEF IsInjective
<1>10. ToSet(r) \subseteq ToSet(q) \cup {e}
  BY <1>4, <1>5 DEF ToSet
<1>11. ToSet(q) \cup {e} \subseteq ToSet(r)
  <2> SUFFICES ASSUME NEW x \in ToSet(q) PROVE x \in ToSet(r)
    BY <1>4 DEF ToSet
  <2>1. PICK j \in DOMAIN q : q[j] = x
    BY DEF ToSet
  <2>2. PICK k \in DOMAIN r : k # i /\ At(k) = j
    BY <1>7, <2>1
  <2> QED
    BY <1>5, <2>1, <2>2 DEF ToSet
<1> QED
  BY <1>2, <1>9, <1>10, <1>11 DEF r

\* frame_insert: the list gains the frame and nothing else.
LEMMA FrameInsertProps ==
  ASSUME NEW S, NEW q \in Seq(S), IsInjective(q), NEW e \in S \ ToSet(q),
         NEW pos \in ToSet(q) \cup {nil}
  PROVE  /\ FrameInsert(q, pos, e) \in Seq(S)
         /\ IsInjective(FrameInsert(q, pos, e))
         /\ ToSet(FrameInsert(q, pos, e)) = ToSet(q) \cup {e}
<1>1. Len(q) \in Nat
  BY LenProperties
<1>2. CASE pos = nil
  BY <1>1, <1>2, InsertAtSet DEF FrameInsert
<1>3. CASE pos # nil
  <2>1. IndexIn(q, pos) \in 1 .. Len(q)
    BY <1>3, IndexInPos
  <2>2. IndexIn(q, pos) + 1 \in 1 .. Len(q) + 1
    BY <1>1, <2>1
  <2> QED
    BY <1>3, <2>2, InsertAtSet DEF FrameInsert
<1> QED
  BY <1>2, <1>3

\* What Before, After, HeadOf and LastOf return is in the list or nil.
LEMMA NeighbourProps ==
  ASSUME NEW S, NEW q \in Seq(S)
  PROVE  /\ HeadOf(q) \in ToSet(q) \cup {nil}
         /\ LastOf(q) \in ToSet(q) \cup {nil}
         /\ q # <<>> => HeadOf(q) \in ToSet(q) /\ LastOf(q) \in ToSet(q)
         /\ \A e \in ToSet(q) :
              /\ Before(q, e) \in ToSet(q) \cup {nil}
              /\ After(q, e) \in ToSet(q) \cup {nil}
              /\ IsInjective(q) /\ e # nil => Before(q, e) # e /\ After(q, e) # e
<1>0. Len(q) \in Nat
  BY LenProperties
<1>1. DOMAIN q = 1 .. Len(q)
  BY LenProperties
<1>2. q # <<>> => Len(q) \in Nat \ {0}
  BY EmptySeq
<1>3. \A i \in 1 .. Len(q) : q[i] \in ToSet(q)
  BY <1>1 DEF ToSet
<1>4. /\ HeadOf(q) \in ToSet(q) \cup {nil}
      /\ LastOf(q) \in ToSet(q) \cup {nil}
      /\ q # <<>> => HeadOf(q) \in ToSet(q) /\ LastOf(q) \in ToSet(q)
  BY <1>1, <1>2, <1>3 DEF HeadOf, LastOf
<1>5. ASSUME NEW e \in ToSet(q)
      PROVE  /\ Before(q, e) \in ToSet(q) \cup {nil}
             /\ After(q, e) \in ToSet(q) \cup {nil}
             /\ IsInjective(q) /\ e # nil => Before(q, e) # e /\ After(q, e) # e
  <2> DEFINE i == IndexIn(q, e)
  <2>1. i \in 1 .. Len(q) /\ q[i] = e
    BY IndexInPos
  <2>2. Before(q, e) = (IF i = 1 THEN nil ELSE q[i - 1])
    BY DEF Before
  <2>3. After(q, e) = (IF i = Len(q) THEN nil ELSE q[i + 1])
    BY DEF After
  <2> HIDE DEF i
  <2>4. i # 1 => i - 1 \in 1 .. Len(q)
    BY <1>0, <2>1
  <2>5. i # Len(q) => i + 1 \in 1 .. Len(q)
    BY <1>0, <2>1
  <2>6. i - 1 # i /\ i + 1 # i
    BY <1>0, <2>1
  <2> QED
    BY <1>1, <1>3, <2>1, <2>2, <2>3, <2>4, <2>5, <2>6 DEF IsInjective
<1> QED
  BY <1>4, <1>5

-----------------------------------------------------------------------------
(* A view in the middle of a handler.                                      *)

\* What every function keeps: lists, areas and pointers are in order.  An
\* area with frames may be left without a selected frame for a moment.
Sound(v) ==
  /\ v \in ViewRecord
  /\ v.fault = "none"
  /\ ListsOK(v)
  /\ AreasOK(v)
  /\ \A a \in Areas : v.asel[a] \in ToSet(v.frames[a]) \cup {nil}

Chosen(v) == \A a \in Areas : v.frames[a] # <<>> => v.asel[a] # nil

FullFloat(v) == FullscreenP(v) => v.sel = Float

\* No function but view_select's touches these.
Keep(v, w) ==
  w.selected = v.selected /\ w.full = v.full /\ w.alive = v.alive

\* Only the selection differs.
SameFrames(v, w) ==
  /\ Keep(v, w)
  /\ w.cols = v.cols
  /\ w.frames = v.frames
  /\ w.f = v.f
  /\ w.floating = v.floating

\* The types of the parts of a view record.
LEMMA ViewTypes ==
  ASSUME NEW v \in ViewRecord
  PROVE  /\ v.cols \in Seq(ColIds)
         /\ v.frames \in [Areas -> Seq(Clients)]
         /\ v.asel \in [Areas -> Clients \cup {nil}]
         /\ v.f \in [Clients -> FrameFields]
         /\ v.floating \in [Clients -> Floating]
         /\ v.full \subseteq Clients
         /\ v.selected \in BOOLEAN /\ v.alive \in BOOLEAN
         /\ v.sel \in Areas \cup {nil} /\ v.selcol \in Int
         /\ v.oldsel \in Areas \cup {nil} /\ v.revert \in Areas \cup {nil}
         /\ v.focus \in Clients \cup {nil}
         /\ LiveAreas(v) \subseteq Areas
         /\ Float \in LiveAreas(v) /\ Float \in Areas
         /\ nil \notin Areas /\ nil \notin Clients
<1>1. ToSet(v.cols) \subseteq ColIds
  BY ToSetSubset DEF ViewRecord
<1> QED
  BY <1>1, AreaAssumption DEF ViewRecord, LiveAreas, Areas

\* Two views with the same columns have the same areas and numbering.
LEMMA AreaIdxType ==
  ASSUME NEW v \in ViewRecord, NEW a \in LiveAreas(v)
  PROVE  /\ AreaIdx(v, a) \in Int
         /\ a # Float => AreaIdx(v, a) \in 1 .. Len(v.cols)
<1>1. Len(v.cols) \in Nat
  BY ViewTypes, LenProperties
<1>2. CASE a = Float
  BY <1>2 DEF AreaIdx
<1>3. CASE a # Float
  <2>1. a \in ToSet(v.cols)
    BY <1>3 DEF LiveAreas
  <2>2. IndexIn(v.cols, a) \in 1 .. Len(v.cols)
    BY <2>1, ViewTypes, IndexInPos
  <2> QED
    BY <1>1, <1>3, <2>2 DEF AreaIdx
<1> QED
  BY <1>2, <1>3

\* area_focus moves the selection, and only a column is ever refused it.
LEMMA AreaFocusProps ==
  ASSUME NEW v, Sound(v), NEW a \in LiveAreas(v)
  PROVE  LET w == AreaFocus(v, a)
         IN  /\ Sound(w)
             /\ SameFrames(v, w)
             /\ w.asel = v.asel
             /\ w.sel = v.sel \/ w.sel = a
             /\ a = Float \/ ~FullscreenP(v) => w.sel = a
             /\ FullFloat(v) => FullFloat(w)
<1> DEFINE w == AreaFocus(v, a)
<1>0. v \in ViewRecord
  BY DEF Sound
<1>1. CASE a # Float /\ FullscreenP(v)
  <2>1. w = v
    BY <1>1 DEF AreaFocus
  <2> QED
    BY <1>1, <2>1 DEF SameFrames, Keep
<1>2. CASE ~(a # Float /\ FullscreenP(v))
  <2>1. AreaIdx(v, a) \in Int /\ a \in Areas
    BY <1>0, AreaIdxType, ViewTypes
  <2>2. w \in ViewRecord
    <3> DEFINE col == IF a = Float THEN v.selcol ELSE AreaIdx(v, a)
               olds == IF a = v.sel THEN v.oldsel ELSE nil
               rev == IF v.sel # nil /\ (a = Float) # (v.sel = Float)
                      THEN v.sel ELSE v.revert
               foc == IF v.selected THEN v.asel[a] ELSE v.focus
    <3>1. w = [v EXCEPT !.sel = a, !.selcol = col, !.oldsel = olds,
                        !.revert = rev, !.focus = foc]
      BY <1>2 DEF AreaFocus
    <3>2. col \in Int
      BY <1>0, <2>1 DEF ViewRecord
    <3>3. olds \in Areas \cup {nil} /\ rev \in Areas \cup {nil}
      BY <1>0 DEF ViewRecord
    <3>4. foc \in Clients \cup {nil}
      BY <1>0, <2>1 DEF ViewRecord
    <3> HIDE DEF w, col, olds, rev, foc
    <3> QED
      BY ONLY <1>0, <2>1, <3>1, <3>2, <3>3, <3>4 DEF ViewRecord
  <2>3. SameFrames(v, w) /\ w.asel = v.asel /\ w.fault = v.fault /\ w.sel = a
    BY <1>0, <1>2 DEF AreaFocus, ViewRecord, SameFrames, Keep
  <2>4. w.oldsel \in {v.oldsel, nil} /\ w.revert \in {v.revert, v.sel}
    BY <1>0, <1>2 DEF AreaFocus, ViewRecord
  <2> HIDE DEF w
  <2>5. LiveAreas(w) = LiveAreas(v)
    BY <2>3 DEF SameFrames, LiveAreas
  <2>6. AreasOK(w)
    BY <2>3, <2>4, <2>5 DEF AreasOK, Sound, SameFrames
  <2>7. ListsOK(w)
    BY <2>3, <2>5 DEF ListsOK, Sound, SameFrames
  <2>8. Sound(w)
    BY <2>2, <2>3, <2>6, <2>7 DEF Sound, SameFrames
  <2>9. FullscreenP(w) = FullscreenP(v)
    BY <2>3 DEF FullscreenP, SameFrames, Keep
  <2> QED
    BY <1>2, <2>3, <2>8, <2>9 DEF FullFloat, w
<1> QED
  BY <1>1, <1>2

\* SameFrames composes, and keeps what depends on the frames alone.
LEMMA SameFramesTrans ==
  ASSUME NEW u, NEW v, NEW w, SameFrames(u, v), SameFrames(v, w)
  PROVE  SameFrames(u, w)
BY DEF SameFrames, Keep

LEMMA SameFramesKeeps ==
  ASSUME NEW v, NEW w, SameFrames(v, w)
  PROVE  /\ Keep(v, w)
         /\ LiveAreas(w) = LiveAreas(v)
         /\ FullscreenP(w) = FullscreenP(v)
         /\ Pending(w) = Pending(v)
         /\ ListsOK(v) => ListsOK(w)
         /\ \A c \in Clients : InView(w, c) = InView(v, c)
         /\ Empty(w) = Empty(v)
BY DEF SameFrames, Keep, LiveAreas, FullscreenP, Pending, ListsOK, InView, Empty

\* Where a frame of a sound view is.
LEMMA InViewProps ==
  ASSUME NEW v, Sound(v), NEW c \in Clients, InView(v, c)
  PROVE  /\ v.f[c].area \in LiveAreas(v)
         /\ c \in ToSet(v.frames[v.f[c].area])
<1>1. v.f[c].area \in Areas
  BY ViewTypes DEF Sound, InView, FrameFields
<1>2. c \in ToSet(v.frames[v.f[c].area])
  BY <1>1 DEF Sound, ListsOK
<1>3. v.frames[v.f[c].area] # <<>>
  BY <1>1, <1>2, EmptyToSet, ViewTypes DEF Sound
<1> QED
  BY <1>1, <1>2, <1>3 DEF Sound, ListsOK

\* Giving an area another selected frame of its own, or none.
LEMMA ChooseFrame ==
  ASSUME NEW v, Sound(v), NEW a \in Areas,
         NEW c \in ToSet(v.frames[a]) \cup {nil}
  PROVE  LET w == [v EXCEPT !.asel[a] = c]
         IN  /\ Sound(w)
             /\ SameFrames(v, w)
             /\ w.asel = [v.asel EXCEPT ![a] = c]
             /\ w.sel = v.sel /\ w.oldsel = v.oldsel /\ w.revert = v.revert
             /\ w.selcol = v.selcol /\ w.focus = v.focus
<1> DEFINE w == [v EXCEPT !.asel[a] = c]
<1>0. v \in ViewRecord
  BY DEF Sound
<1>1. c \in Clients \cup {nil}
  BY <1>0, ViewTypes, ToSetSubset
<1>2. w \in ViewRecord
  BY <1>0, <1>1 DEF ViewRecord
<1>3. /\ SameFrames(v, w)
      /\ w.asel = [v.asel EXCEPT ![a] = c]
      /\ w.sel = v.sel /\ w.oldsel = v.oldsel /\ w.revert = v.revert
      /\ w.selcol = v.selcol /\ w.focus = v.focus /\ w.fault = v.fault
  BY <1>0 DEF ViewRecord, SameFrames, Keep
<1> HIDE DEF w
<1>4. AreasOK(w)
  BY <1>3 DEF AreasOK, Sound, SameFrames, LiveAreas
<1>5. ListsOK(w)
  BY <1>3, SameFramesKeeps DEF Sound
<1>6. \A b \in Areas : w.asel[b] \in ToSet(w.frames[b]) \cup {nil}
  BY <1>0, <1>3, ViewTypes DEF Sound, SameFrames
<1>7. Sound(w)
  BY <1>2, <1>3, <1>4, <1>5, <1>6 DEF Sound
<1> QED
  BY <1>3, <1>7 DEF w

\* frame_focus selects the frame in its area, and the area unless it is a
\* column that is refused.
LEMMA FrameFocusCoreProps ==
  ASSUME NEW v, Sound(v), NEW c \in Clients, InView(v, c)
  PROVE  LET w == FrameFocusCore(v, c)
         IN  /\ Sound(w)
             /\ SameFrames(v, w)
             /\ w.asel = [v.asel EXCEPT ![v.f[c].area] = c]
             /\ w.sel = v.sel \/ w.sel = v.f[c].area
             /\ v.f[c].area = Float => w.sel = Float
             /\ FullFloat(v) => FullFloat(w)
<1> DEFINE a == v.f[c].area
           chosen == [v EXCEPT !.asel[a] = c]
           u == IF a = v.sel THEN chosen ELSE AreaFocus(chosen, a)
           w == FrameFocusCore(v, c)
<1>1. a \in LiveAreas(v) /\ c \in ToSet(v.frames[a])
  BY InViewProps
<1>2. a \in Areas
  BY <1>1, ViewTypes DEF Sound
<1>3. /\ Sound(chosen)
      /\ SameFrames(v, chosen)
      /\ chosen.asel = [v.asel EXCEPT ![a] = c]
      /\ chosen.sel = v.sel
  BY <1>1, <1>2, ChooseFrame
<1>4. a \in LiveAreas(chosen)
  BY <1>1, <1>3, SameFramesKeeps
<1>5. FullFloat(v) => FullFloat(chosen)
  BY <1>3, SameFramesKeeps DEF FullFloat
<1> HIDE DEF chosen
<1>6. /\ Sound(u)
      /\ SameFrames(v, u)
      /\ u.asel = [v.asel EXCEPT ![a] = c]
      /\ u.sel = v.sel \/ u.sel = a
      /\ a = Float => u.sel = Float
      /\ FullFloat(v) => FullFloat(u)
  <2>1. CASE a = v.sel
    BY <1>3, <1>5, <2>1
  <2>2. CASE a # v.sel
    <3> DEFINE x == AreaFocus(chosen, a)
    <3>1. /\ Sound(x)
          /\ SameFrames(chosen, x)
          /\ x.asel = chosen.asel
          /\ x.sel = chosen.sel \/ x.sel = a
          /\ a = Float => x.sel = a
          /\ FullFloat(chosen) => FullFloat(x)
      BY <1>3, <1>4, AreaFocusProps
    <3>2. SameFrames(v, x)
      BY <1>3, <3>1, SameFramesTrans
    <3>3. u = x
      BY <2>2
    <3> QED
      BY <1>3, <1>5, <3>1, <3>2, <3>3
  <2> QED
    BY <2>1, <2>2
<1>7. w = [u EXCEPT !.oldsel = IF v.sel # u.oldsel /\ c # v.asel[v.sel]
                               THEN nil ELSE @,
                    !.focus = IF v.selected /\ u.sel = a THEN c ELSE @]
  BY DEF FrameFocusCore, ClientFocus, chosen
<1> HIDE DEF u, w, a
<1>8. u \in ViewRecord
  BY <1>6 DEF Sound
<1>9. w \in ViewRecord
  BY <1>7, <1>8 DEF ViewRecord
<1>10. /\ SameFrames(u, w)
       /\ w.asel = u.asel
       /\ w.sel = u.sel /\ w.revert = u.revert
       /\ w.fault = u.fault
       /\ w.oldsel \in {u.oldsel, nil}
  BY <1>7, <1>8 DEF ViewRecord, SameFrames, Keep
<1>11. AreasOK(w)
  BY <1>6, <1>10 DEF AreasOK, Sound, SameFrames, LiveAreas
<1>12. ListsOK(w)
  BY <1>6, <1>10, SameFramesKeeps DEF Sound
<1>13. Sound(w)
  BY <1>6, <1>9, <1>10, <1>11, <1>12 DEF Sound, SameFrames
<1>14. SameFrames(v, w)
  BY <1>6, <1>10, SameFramesTrans
<1>15. FullFloat(v) => FullFloat(w)
  BY <1>6, <1>10, SameFramesKeeps DEF FullFloat
<1> QED
  BY <1>6, <1>10, <1>13, <1>14, <1>15 DEF w, a

\* area_setsel: c becomes the selected frame of its area a, or a has none.
LEMMA AreaSetselCoreProps ==
  ASSUME NEW v, Sound(v), NEW a \in Areas,
         NEW c \in ToSet(v.frames[a]) \cup {nil}
  PROVE  LET w == AreaSetselCore(v, a, c)
         IN  /\ Sound(w)
             /\ SameFrames(v, w)
             /\ w.asel = [v.asel EXCEPT ![a] = c]
             /\ w.sel = v.sel
             /\ FullFloat(v) => FullFloat(w)
<1> DEFINE w == AreaSetselCore(v, a, c)
<1>1. CASE a = v.sel /\ c # nil
  <2>1. c \in Clients /\ v.f[c].area = a
    BY <1>1, ToSetSubset, ViewTypes DEF Sound, ListsOK
  <2>2. InView(v, c)
    BY <2>1, ViewTypes DEF InView, Sound
  <2>3. w = FrameFocusCore(v, c)
    BY <1>1 DEF AreaSetselCore
  <2> QED
    BY <1>1, <2>1, <2>2, <2>3, FrameFocusCoreProps
<1>2. CASE ~(a = v.sel /\ c # nil)
  <2>1. w = [v EXCEPT !.asel[a] = c]
    BY <1>2 DEF AreaSetselCore
  <2>2. Sound(w) /\ SameFrames(v, w) /\ w.asel = [v.asel EXCEPT ![a] = c]
        /\ w.sel = v.sel
    BY <2>1, ChooseFrame
  <2>3. FullFloat(v) => FullFloat(w)
    BY <2>2, SameFramesKeeps DEF FullFloat
  <2> QED
    BY <2>2, <2>3
<1> QED
  BY <1>1, <1>2

-----------------------------------------------------------------------------
(* view_update of a view in which every fullscreen client floats already.  *)

\* The selection and the frames' own fields differ, and no frame has moved.
SameAreas(v, w) ==
  /\ Keep(v, w)
  /\ w.cols = v.cols
  /\ w.frames = v.frames
  /\ \A c \in Clients : w.f[c].area = v.f[c].area
  /\ w.floating = v.floating

LEMMA SameAreasTrans ==
  ASSUME NEW u, NEW v, NEW w, SameAreas(u, v), SameAreas(v, w)
  PROVE  SameAreas(u, w)
BY DEF SameAreas, Keep

LEMMA SameFramesAreas ==
  ASSUME NEW v, NEW w, SameFrames(v, w)
  PROVE  SameAreas(v, w)
BY DEF SameAreas, SameFrames

LEMMA SameAreasKeeps ==
  ASSUME NEW v, NEW w, SameAreas(v, w)
  PROVE  /\ Keep(v, w)
         /\ LiveAreas(w) = LiveAreas(v)
         /\ FullscreenP(w) = FullscreenP(v)
         /\ v.full \subseteq Clients => Pending(w) = Pending(v)
         /\ ListsOK(v) => ListsOK(w)
         /\ \A c \in Clients : InView(w, c) = InView(v, c)
         /\ Empty(w) = Empty(v)
<1>1. Keep(v, w) /\ LiveAreas(w) = LiveAreas(v) /\ FullscreenP(w) = FullscreenP(v)
  BY DEF SameAreas, Keep, LiveAreas, FullscreenP
<1>2. v.full \subseteq Clients => Pending(w) = Pending(v)
  BY DEF SameAreas, Keep, Pending
<1>3. ListsOK(v) => ListsOK(w)
  BY <1>1 DEF SameAreas, ListsOK
<1>4. \A c \in Clients : InView(w, c) = InView(v, c)
  BY DEF SameAreas, InView
<1>5. Empty(w) = Empty(v)
  BY <1>4 DEF Empty
<1> QED
  BY <1>1, <1>2, <1>3, <1>4, <1>5

\* A change of frames' own fields alone keeps a view sound.
LEMMA SameAreasSound ==
  ASSUME NEW v, Sound(v), NEW w \in ViewRecord, SameAreas(v, w),
         w.fault = v.fault, w.asel = v.asel, w.sel = v.sel,
         w.oldsel = v.oldsel, w.revert = v.revert
  PROVE  Sound(w) /\ (FullFloat(v) => FullFloat(w))
<1>1. ListsOK(w) /\ LiveAreas(w) = LiveAreas(v) /\ FullscreenP(w) = FullscreenP(v)
  BY SameAreasKeeps DEF Sound
<1>2. AreasOK(w)
  BY <1>1 DEF Sound, AreasOK, SameAreas
<1> QED
  BY <1>1, <1>2 DEF Sound, SameAreas, FullFloat

LEMMA MarkFullscreenProps ==
  ASSUME NEW v, Sound(v)
  PROVE  LET w == MarkFullscreen(v)
         IN  /\ Sound(w)
             /\ SameAreas(v, w)
             /\ w.asel = v.asel /\ w.sel = v.sel
             /\ FullFloat(v) => FullFloat(w)
<1> DEFINE w == MarkFullscreen(v)
<1>0. v \in ViewRecord
  BY DEF Sound
<1> DEFINE mark(c) == IF c \in v.full /\ v.f[c].area = Float /\ v.f[c].oldarea = -1
                      THEN [v.f[c] EXCEPT !.oldarea = 0] ELSE v.f[c]
           g == [c \in Clients |-> mark(c)]
<1>a. \A c \in Clients : v.f[c] \in FrameFields
  BY <1>0, ViewTypes
<1>b. \A c \in Clients : mark(c) \in FrameFields /\ mark(c).area = v.f[c].area
  BY <1>a DEF FrameFields
<1>c. w = [v EXCEPT !.f = g]
  BY DEF MarkFullscreen
<1> HIDE DEF mark, w
<1>d. g \in [Clients -> FrameFields] /\ \A c \in Clients : g[c].area = v.f[c].area
  BY <1>b
<1> HIDE DEF g
<1>2. w = [v EXCEPT !.f = w.f] /\ w.f = g
  BY <1>0, <1>c DEF ViewRecord
<1>1. w.f \in [Clients -> FrameFields]
      /\ \A c \in Clients : w.f[c].area = v.f[c].area
  BY <1>2, <1>d
<1>3. w \in ViewRecord
  BY <1>0, <1>1, <1>2 DEF ViewRecord
<1>4. SameAreas(v, w)
  BY <1>0, <1>1, <1>2 DEF ViewRecord, SameAreas, Keep
<1>5. w.fault = v.fault /\ w.asel = v.asel /\ w.sel = v.sel
      /\ w.oldsel = v.oldsel /\ w.revert = v.revert
  BY <1>0, <1>2 DEF ViewRecord
<1> QED
  BY <1>3, <1>4, <1>5, SameAreasSound DEF w

LEMMA ViewUpdateProps ==
  ASSUME NEW v, Sound(v), Pending(v) = {}
  PROVE  LET w == ViewUpdate(v)
         IN  /\ Sound(w)
             /\ SameAreas(v, w)
             /\ w.asel = v.asel
             /\ w.sel = v.sel \/ w.sel = Float
             /\ FullFloat(v) \/ v.selected => FullFloat(w)
<1> DEFINE u == MarkFullscreen(v)
           a == IF FullscreenP(u) THEN Float ELSE u.sel
           w == AreaFocus(u, a)
<1>1. CASE ~v.selected
  <2>1. ViewUpdate(v) = v
    BY <1>1 DEF ViewUpdate, RefreshFocus
  <2> QED
    BY <1>1, <2>1 DEF SameAreas, Keep
<1>2. CASE v.selected
  <2>1. MovePending(v) = v
    BY DEF MovePending
  <2>2. /\ Sound(u)
        /\ SameAreas(v, u)
        /\ u.asel = v.asel /\ u.sel = v.sel
    BY MarkFullscreenProps
  <2>3. ViewUpdate(v) = w
    BY <1>2, <2>1, <2>2 DEF ViewUpdate, RefreshFocus, Sound
  <2> HIDE DEF u
  <2>4. a \in LiveAreas(u)
    BY <2>2, ViewTypes DEF Sound, AreasOK
  <2> HIDE DEF a
  <2>5. /\ Sound(w)
        /\ SameFrames(u, w)
        /\ w.asel = u.asel
        /\ w.sel = u.sel \/ w.sel = a
        /\ a = Float \/ ~FullscreenP(u) => w.sel = a
    BY <2>2, <2>4, AreaFocusProps
  <2>6. SameAreas(v, w)
    BY <2>2, <2>5, SameFramesAreas, SameAreasTrans
  <2>7. FullscreenP(w) = FullscreenP(u)
    BY <2>5, SameFramesKeeps
  <2>8. FullFloat(w)
    BY <2>5, <2>7 DEF FullFloat, a
  <2>9. w.sel = v.sel \/ w.sel = Float
    BY <2>2, <2>5 DEF a
  <2> QED
    BY <2>2, <2>3, <2>5, <2>6, <2>8, <2>9
<1>3. v.selected \in BOOLEAN
  BY ViewTypes DEF Sound
<1> QED
  BY <1>1, <1>2, <1>3

\* frame_focus, with the view_update of float_arrange.
LEMMA FrameFocusProps ==
  ASSUME NEW v, Sound(v), Pending(v) = {},
         NEW c \in Clients, InView(v, c)
  PROVE  LET w == FrameFocus(v, c)
         IN  /\ Sound(w)
             /\ SameAreas(v, w)
             /\ w.asel = [v.asel EXCEPT ![v.f[c].area] = c]
             /\ w.sel \in {v.sel, v.f[c].area, Float}
             /\ v.f[c].area = Float => w.sel = Float
             /\ FullFloat(v) => FullFloat(w)
<1> DEFINE u == FrameFocusCore(v, c)
           x == ViewUpdate(u)
           w == FrameFocus(v, c)
<1>1. /\ Sound(u)
      /\ SameFrames(v, u)
      /\ u.asel = [v.asel EXCEPT ![v.f[c].area] = c]
      /\ u.sel = v.sel \/ u.sel = v.f[c].area
      /\ v.f[c].area = Float => u.sel = Float
      /\ FullFloat(v) => FullFloat(u)
  BY FrameFocusCoreProps
<1>2. CASE v.selected /\ v.f[c].area = Float /\ u.sel = Float
  <2>1. w = [x EXCEPT !.focus = c]
    BY <1>2 DEF FrameFocus
  <2> HIDE DEF u
  <2>2. Pending(u) = {}
    BY <1>1, SameFramesKeeps
  <2>3. /\ Sound(x)
        /\ SameAreas(u, x)
        /\ x.asel = u.asel
        /\ x.sel = u.sel \/ x.sel = Float
        /\ FullFloat(u) => FullFloat(x)
    BY <1>1, <2>2, ViewUpdateProps
  <2> HIDE DEF x, w
  <2>4. x \in ViewRecord
    BY <2>3 DEF Sound
  <2>5. w \in ViewRecord
    BY <2>1, <2>4 DEF ViewRecord
  <2>6. /\ SameAreas(x, w) /\ w.fault = x.fault /\ w.asel = x.asel
        /\ w.sel = x.sel /\ w.oldsel = x.oldsel /\ w.revert = x.revert
    BY <2>1, <2>4 DEF ViewRecord, SameAreas, Keep
  <2>7. Sound(w) /\ (FullFloat(x) => FullFloat(w))
    BY <2>3, <2>5, <2>6, SameAreasSound
  <2>8. SameAreas(v, w)
    BY <1>1, <2>3, <2>6, SameFramesAreas, SameAreasTrans
  <2> QED
    BY <1>1, <1>2, <2>3, <2>6, <2>7, <2>8 DEF w
<1>3. CASE ~(v.selected /\ v.f[c].area = Float /\ u.sel = Float)
  <2>1. w = u
    BY <1>3 DEF FrameFocus
  <2> QED
    BY <1>1, <2>1, SameFramesAreas
<1> QED
  BY <1>2, <1>3

LEMMA AreaSetselProps ==
  ASSUME NEW v, Sound(v), Pending(v) = {}, NEW a \in Areas,
         NEW c \in ToSet(v.frames[a]) \cup {nil}
  PROVE  LET w == AreaSetsel(v, a, c)
         IN  /\ Sound(w)
             /\ SameAreas(v, w)
             /\ w.asel = [v.asel EXCEPT ![a] = c]
             /\ w.sel \in {v.sel, Float}
             /\ FullFloat(v) => FullFloat(w)
<1> DEFINE w == AreaSetsel(v, a, c)
<1>1. CASE a = v.sel /\ c # nil
  <2>1. c \in Clients /\ v.f[c].area = a
    BY <1>1, ToSetSubset, ViewTypes DEF Sound, ListsOK
  <2>2. InView(v, c)
    BY <2>1, ViewTypes DEF InView, Sound
  <2>3. w = FrameFocus(v, c)
    BY <1>1 DEF AreaSetsel
  <2> QED
    BY <1>1, <2>1, <2>2, <2>3, FrameFocusProps
<1>2. CASE ~(a = v.sel /\ c # nil)
  <2>1. w = [v EXCEPT !.asel[a] = c]
    BY <1>2 DEF AreaSetsel
  <2>2. Sound(w) /\ SameFrames(v, w) /\ w.asel = [v.asel EXCEPT ![a] = c]
        /\ w.sel = v.sel
    BY <2>1, ChooseFrame
  <2>3. FullFloat(v) => FullFloat(w)
    BY <2>2, SameFramesKeeps DEF FullFloat
  <2> QED
    BY <2>2, <2>3, SameFramesAreas
<1> QED
  BY <1>1, <1>2

-----------------------------------------------------------------------------
(* A frame leaves a column.                                                *)

\* view_fullscreen_p in terms of where the clients are.
LEMMA FullscreenPArea ==
  ASSUME NEW v, Sound(v)
  PROVE  FullscreenP(v) <=> \E c \in v.full : v.f[c].area = Float
<1>1. v.full \subseteq Clients
  BY ViewTypes DEF Sound
<1>2. ToSet(v.frames[Float]) = {c \in Clients : v.f[c].area = Float}
  BY ViewTypes DEF Sound, ListsOK
<1> QED
  BY <1>1, <1>2 DEF FullscreenP

\* c has left its area, and no other frame has moved.
Left(v, w, c) ==
  /\ Keep(v, w)
  /\ w.floating = v.floating
  /\ w.frames = [v.frames EXCEPT ![v.f[c].area] = FrameRemove(@, c)]
  /\ w.f[c].area = nil
  /\ \A d \in Clients \ {c} : w.f[d].area = v.f[d].area

\* No area but the one c was in has been freed.
AreasStay(v, w, c) ==
  LiveAreas(v) \ ({v.f[c].area} \cap ColIds) \subseteq LiveAreas(w)

LEMMA LeftThenSame ==
  ASSUME NEW u, NEW v, NEW w, NEW c \in Clients,
         Left(u, v, c), SameAreas(v, w)
  PROVE  Left(u, w, c)
BY DEF Left, SameAreas, Keep

\* With c gone no client becomes fullscreen that was not.
LEMMA LeftFullscreenP ==
  ASSUME NEW v, Sound(v), NEW w, Sound(w), NEW c \in Clients, Left(v, w, c)
  PROVE  /\ FullscreenP(w) => FullscreenP(v)
         /\ Pending(w) \subseteq Pending(v)
         /\ c \notin Pending(w)
<1>1. nil \notin ColIds /\ nil # Float
  BY AreaAssumption
<1>2. w.full = v.full /\ v.full \subseteq Clients
  BY ViewTypes DEF Left, Keep, Sound
<1> QED
  BY <1>1, <1>2, FullscreenPArea DEF Left, Pending

\* Unlinking c's frame, and deselecting it if it was selected.
TakeOut(v, c) ==
  [v EXCEPT !.frames[v.f[c].area] = FrameRemove(@, c),
            !.f[c].area = nil,
            !.asel[v.f[c].area] = IF @ = c THEN nil ELSE @]

LEMMA TakeOutProps ==
  ASSUME NEW v, Sound(v), NEW c \in Clients, InView(v, c)
  PROVE  LET u == TakeOut(v, c)
         IN  /\ Sound(u)
             /\ Left(v, u, c)
             /\ u.cols = v.cols
             /\ u.asel = [v.asel EXCEPT ![v.f[c].area] = IF @ = c THEN nil ELSE @]
             /\ u.sel = v.sel /\ u.oldsel = v.oldsel
             /\ FullFloat(v) => FullFloat(u)
<1> DEFINE u == TakeOut(v, c)
<1>a. PICK a : a = v.f[c].area
  OBVIOUS
<1>u. u = [v EXCEPT !.frames[a] = FrameRemove(@, c), !.f[c].area = nil,
                    !.asel[a] = IF @ = c THEN nil ELSE @]
  BY <1>a DEF TakeOut
<1> HIDE DEF u
<1>0. v \in ViewRecord
  BY DEF Sound
<1>1. a \in LiveAreas(v) /\ c \in ToSet(v.frames[a]) /\ a \in Areas
  BY <1>0, <1>a, InViewProps, ViewTypes
<1> DEFINE rest == FrameRemove(v.frames[a], c)
<1>2. v.frames[a] \in Seq(Clients) /\ IsInjective(v.frames[a])
  BY <1>0, <1>1, ViewTypes DEF Sound, ListsOK
<1>3. /\ rest \in Seq(Clients)
      /\ IsInjective(rest)
      /\ ToSet(rest) = ToSet(v.frames[a]) \ {c}
  BY <1>1, <1>2, FrameRemoveProps
<1> HIDE DEF rest
<1>4. /\ u.frames = [v.frames EXCEPT ![a] = rest]
      /\ u.asel = [v.asel EXCEPT ![a] = IF @ = c THEN nil ELSE @]
      /\ u.f = [v.f EXCEPT ![c] = [@ EXCEPT !.area = nil]]
  BY <1>0, <1>u DEF ViewRecord, rest
<1>5. /\ u.cols = v.cols /\ u.sel = v.sel /\ u.oldsel = v.oldsel
      /\ u.revert = v.revert /\ u.fault = v.fault
      /\ u.floating = v.floating /\ Keep(v, u)
  BY <1>0, <1>u DEF ViewRecord, Keep
<1>6. u.f \in [Clients -> FrameFields]
      /\ u.f[c].area = nil
      /\ \A d \in Clients \ {c} : u.f[d].area = v.f[d].area
  <2>1. v.f[c] \in FrameFields
    BY <1>0, ViewTypes
  <2>2. [v.f[c] EXCEPT !.area = nil] \in FrameFields
        /\ [v.f[c] EXCEPT !.area = nil].area = nil
    BY <2>1 DEF FrameFields
  <2> QED
    BY <1>0, <1>4, <2>2, ViewTypes
<1>7. u.frames \in [Areas -> Seq(Clients)] /\ u.asel \in [Areas -> Clients \cup {nil}]
  BY <1>0, <1>1, <1>3, <1>4, ViewTypes
<1>8. u \in ViewRecord
  BY <1>0, <1>6, <1>7, <1>u DEF ViewRecord
<1>9. Left(v, u, c)
  BY <1>1, <1>4, <1>5, <1>6, <1>a DEF Left, rest
<1>10. AreasOK(u)
  BY <1>5 DEF Sound, AreasOK, LiveAreas
<1>11. ListsOK(u)
  <2> SUFFICES ASSUME NEW b \in Areas
               PROVE  /\ IsInjective(u.frames[b])
                      /\ ToSet(u.frames[b]) = {d \in Clients : u.f[d].area = b}
                      /\ u.frames[b] # <<>> => b \in LiveAreas(u)
    BY DEF ListsOK
  <2>1. /\ IsInjective(v.frames[b])
        /\ ToSet(v.frames[b]) = {d \in Clients : v.f[d].area = b}
        /\ v.frames[b] # <<>> => b \in LiveAreas(u)
    BY <1>5 DEF Sound, ListsOK, LiveAreas
  <2>2. CASE b = a
    <3>1. u.frames[b] = rest /\ b \in LiveAreas(u)
      BY <1>0, <1>1, <1>4, <1>5, <2>2, ViewTypes DEF LiveAreas
    <3>2. \A d \in Clients : u.f[d].area = b <=> v.f[d].area = b /\ d # c
      BY <1>0, <1>6, <1>a, <2>2, ViewTypes
    <3> QED
      BY <1>3, <2>1, <2>2, <3>1, <3>2
  <2>3. CASE b # a
    <3>1. u.frames[b] = v.frames[b]
      BY <1>0, <1>4, <2>3, ViewTypes
    <3>2. \A d \in Clients : u.f[d].area = b <=> v.f[d].area = b
      BY <1>0, <1>6, <1>a, <2>3, ViewTypes
    <3> QED
      BY <2>1, <3>1, <3>2
  <2> QED
    BY <2>2, <2>3
<1>12. \A b \in Areas : u.asel[b] \in ToSet(u.frames[b]) \cup {nil}
  <2> TAKE b \in Areas
  <2>1. CASE b = a
    BY <1>0, <1>3, <1>4, <2>1, ViewTypes DEF Sound
  <2>2. CASE b # a
    BY <1>0, <1>4, <2>2, ViewTypes DEF Sound
  <2> QED
    BY <2>1, <2>2
<1>13. Sound(u)
  BY <1>5, <1>8, <1>10, <1>11, <1>12 DEF Sound
<1>14. FullFloat(v) => FullFloat(u)
  BY <1>5, <1>9, <1>13, LeftFullscreenP DEF FullFloat
<1> QED
  BY <1>4, <1>5, <1>9, <1>13, <1>14, <1>a DEF u

LEMMA ColumnRemoveProps ==
  ASSUME NEW v, Sound(v), NEW c \in Clients, v.f[c].area \in ColIds
  PROVE  LET w == ColumnRemove(v, c)
         IN  /\ Sound(w)
             /\ Left(v, w, c)
             /\ w.cols = v.cols
             /\ w.sel = v.sel
             /\ FullFloat(v) => FullFloat(w)
             /\ Chosen(v) => Chosen(w)
<1> DEFINE a == v.f[c].area
           rest == FrameRemove(v.frames[a], c)
           pr == Before(v.frames[a], c)
           next == IF pr = nil THEN HeadOf(rest) ELSE pr
           out == [v EXCEPT !.frames[a] = rest, !.f[c].area = nil]
           u == TakeOut(v, c)
           w == ColumnRemove(v, c)
<1>0. v \in ViewRecord /\ a \in Areas /\ InView(v, c)
  BY AreaAssumption DEF Sound, Areas, InView
<1>1. c \in ToSet(v.frames[a]) /\ v.frames[a] \in Seq(Clients)
      /\ IsInjective(v.frames[a])
  BY <1>0, InViewProps, ViewTypes DEF Sound, ListsOK
<1>2. /\ Sound(u)
      /\ Left(v, u, c)
      /\ u.cols = v.cols
      /\ u.asel = [v.asel EXCEPT ![a] = IF @ = c THEN nil ELSE @]
      /\ u.sel = v.sel
      /\ FullFloat(v) => FullFloat(u)
  BY <1>0, TakeOutProps
<1>3. /\ rest \in Seq(Clients)
      /\ ToSet(rest) = ToSet(v.frames[a]) \ {c}
  BY <1>1, FrameRemoveProps
<1>4. u.frames = [v.frames EXCEPT ![a] = rest] /\ u.frames[a] = rest
  BY <1>0, <1>2, ViewTypes DEF Left
<1>5. next \in ToSet(rest) \cup {nil} /\ (rest # <<>> => next # nil)
  <2>1. pr \in ToSet(v.frames[a]) \cup {nil} /\ pr # c
    BY <1>0, <1>1, NeighbourProps, ViewTypes
  <2>2. HeadOf(rest) \in ToSet(rest) \cup {nil}
        /\ (rest # <<>> => HeadOf(rest) \in ToSet(rest))
    BY <1>3, NeighbourProps
  <2>3. nil \notin ToSet(rest)
    BY <1>0, <1>3, ToSetSubset, ViewTypes
  <2> QED
    BY <1>3, <2>1, <2>2, <2>3
<1>6. \A b \in Areas \ {a} : u.asel[b] = v.asel[b] /\ u.frames[b] = v.frames[b]
  BY <1>0, <1>2, <1>4, ViewTypes
<1>7. CASE v.asel[a] = c
  <2>1. u = [out EXCEPT !.asel[a] = nil]
    BY <1>0, <1>7 DEF ViewRecord, TakeOut
  <2>2. w = AreaSetselCore(u, a, next)
    BY <1>7, <2>1 DEF ColumnRemove
  <2> HIDE DEF u, next, rest, w
  <2>3. /\ Sound(w)
        /\ SameFrames(u, w)
        /\ w.asel = [u.asel EXCEPT ![a] = next]
        /\ w.sel = u.sel
        /\ FullFloat(u) => FullFloat(w)
    <3>1. Sound(u) /\ a \in Areas /\ next \in ToSet(u.frames[a]) \cup {nil}
      BY <1>0, <1>2, <1>4, <1>5
    <3> HIDE DEF a
    <3> QED
      BY <2>2, <3>1, AreaSetselCoreProps
  <2>4. Left(v, w, c)
    BY <1>2, <2>3, SameFramesAreas, LeftThenSame
  <2>5. w.cols = v.cols /\ w.frames = u.frames
    BY <1>2, <2>3, SMTT(30) DEF SameFrames
  <2>6. Chosen(v) => Chosen(w)
    BY <1>0, <1>2, <1>4, <1>5, <1>6, <2>3, <2>5, ViewTypes DEF Chosen, Sound
  <2> QED
    BY <1>2, <2>3, <2>4, <2>5, <2>6 DEF w
<1>8. CASE v.asel[a] # c
  <2>1. u = out
    BY <1>0, <1>8 DEF ViewRecord, TakeOut
  <2>2. w = u
    BY <1>8, <2>1 DEF ColumnRemove
  <2>3. u.asel[a] = v.asel[a]
    BY <1>0, <1>2, <1>8, ViewTypes
  <2>4. Chosen(v) => Chosen(u)
    <3>1. v.frames[a] # <<>>
      BY <1>1, EmptyToSet
    <3> QED
      BY <1>6, <2>3, <3>1 DEF Chosen
  <2> QED
    BY <1>2, <2>2, <2>4
<1> QED
  BY <1>7, <1>8

LEMMA ColumnsUpdateProps ==
  ASSUME NEW v, Sound(v)
  PROVE  LET w == ColumnsUpdate(v)
         IN  /\ Sound(w)
             /\ SameAreas(v, w)
             /\ w.asel = v.asel /\ w.sel = v.sel
             /\ FullFloat(v) => FullFloat(w)
<1> DEFINE up(c) == IF ~InView(v, c) THEN v.f[c]
                    ELSE [v.f[c] EXCEPT
                            !.screen = IF v.f[c].area = Float THEN NScreens ELSE 0,
                            !.column = AreaIdx(v, v.f[c].area)]
           g == [c \in Clients |-> up(c)]
           w == ColumnsUpdate(v)
<1>0. v \in ViewRecord
  BY DEF Sound
<1>1. \A c \in Clients : up(c) \in FrameFields /\ up(c).area = v.f[c].area
  <2> TAKE c \in Clients
  <2>1. v.f[c] \in FrameFields
    BY <1>0, ViewTypes
  <2>2. CASE InView(v, c)
    <3>1. AreaIdx(v, v.f[c].area) \in Int
      BY <1>0, <2>2, InViewProps, AreaIdxType
    <3>2. PICK k \in Int : k = AreaIdx(v, v.f[c].area)
      BY <3>1
    <3>3. PICK n \in -1 .. NScreens :
            n = IF v.f[c].area = Float THEN NScreens ELSE 0
      BY DEF NScreens
    <3>4. up(c) = [v.f[c] EXCEPT !.screen = n, !.column = k]
      BY <2>2, <3>2, <3>3
    <3> HIDE DEF up
    <3> QED
      BY <2>1, <3>4 DEF FrameFields
  <2>3. CASE ~InView(v, c)
    BY <2>1, <2>3
  <2> QED
    BY <2>2, <2>3
<1>2. w = [v EXCEPT !.f = g]
  BY DEF ColumnsUpdate
<1> HIDE DEF up, w
<1>3. g \in [Clients -> FrameFields] /\ \A c \in Clients : g[c].area = v.f[c].area
  BY <1>1
<1> HIDE DEF g
<1>4. w \in ViewRecord
  BY <1>0, <1>2, <1>3 DEF ViewRecord
<1>5. SameAreas(v, w)
  BY <1>0, <1>2, <1>3 DEF ViewRecord, SameAreas, Keep
<1>6. w.fault = v.fault /\ w.asel = v.asel /\ w.sel = v.sel
      /\ w.oldsel = v.oldsel /\ w.revert = v.revert
  BY <1>0, <1>2 DEF ViewRecord
<1> QED
  BY <1>4, <1>5, <1>6, SameAreasSound DEF w

\* area_destroy of an empty column that is not the last: the selection moves
\* off it, because no fullscreen client holds it there.
LEMMA AreaDestroyProps ==
  ASSUME NEW v, Sound(v), FullFloat(v), NEW a \in ToSet(v.cols),
         v.frames[a] = <<>>, Len(v.cols) > 1
  PROVE  LET w == AreaDestroy(v, a)
         IN  /\ Sound(w)
             /\ FullFloat(w)
             /\ Keep(v, w)
             /\ w.frames = v.frames /\ w.f = v.f /\ w.floating = v.floating
             /\ w.asel = v.asel
             /\ LiveAreas(w) = LiveAreas(v) \ {a}
<1> DEFINE i == IndexIn(v.cols, a)
           newfocus == IF i > 1 THEN v.cols[i - 1] ELSE After(v.cols, a)
           u == [v EXCEPT !.cols = RemoveAt(@, i),
                          !.revert = IF @ = a THEN nil ELSE @,
                          !.oldsel = IF @ = a THEN nil ELSE @]
           w == AreaDestroy(v, a)
<1>0. v \in ViewRecord /\ v.cols \in Seq(ColIds) /\ IsInjective(v.cols)
  BY ViewTypes DEF Sound, AreasOK
<1>1. i \in 1 .. Len(v.cols) /\ v.cols[i] = a
  BY <1>0, IndexInPos
<1>2. Len(v.cols) \in Nat
  BY <1>0, LenProperties
<1>3. DOMAIN v.cols = 1 .. Len(v.cols)
  BY <1>0, LenProperties
<1>4. newfocus \in ToSet(v.cols) \ {a}
  <2>1. CASE i > 1
    <3>1. i - 1 \in 1 .. Len(v.cols) /\ i - 1 # i
      BY <1>1, <1>2, <2>1
    <3> HIDE DEF i
    <3> QED
      BY <1>0, <1>1, <1>3, <2>1, <3>1 DEF ToSet, IsInjective
  <2>2. CASE ~(i > 1)
    <3>1. i = 1 /\ i # Len(v.cols) /\ i + 1 \in 1 .. Len(v.cols) /\ i + 1 # i
      BY <1>1, <1>2, <2>2
    <3>2. newfocus = v.cols[i + 1]
      BY <2>2, <3>1 DEF After
    <3> HIDE DEF i, newfocus
    <3> QED
      BY <1>0, <1>1, <1>3, <3>1, <3>2 DEF ToSet, IsInjective
  <2> QED
    BY <2>1, <2>2
<1> DEFINE cols == RemoveAt(v.cols, i)
<1>5. /\ cols \in Seq(ColIds)
      /\ IsInjective(cols)
      /\ ToSet(cols) = ToSet(v.cols) \ {a}
  <2> HIDE DEF i
  <2> QED BY <1>0, <1>1, RemoveAtSet
<1>6. ToSet(v.cols) \subseteq ColIds /\ newfocus # nil /\ Float \notin ColIds
      /\ a \in Areas /\ a # nil /\ newfocus \in Areas /\ nil \notin Areas
  BY <1>0, <1>4, ToSetSubset, AreaAssumption DEF Areas
<1>7. w = IF v.sel = a THEN AreaFocus(u, newfocus) ELSE u
  BY <1>6 DEF AreaDestroy
<1> HIDE DEF i, newfocus, w
<1>8. /\ u.cols = cols /\ u.frames = v.frames /\ u.f = v.f
      /\ u.floating = v.floating /\ u.asel = v.asel /\ u.sel = v.sel
      /\ u.fault = v.fault /\ Keep(v, u)
      /\ u.revert = IF v.revert = a THEN nil ELSE v.revert
      /\ u.oldsel = IF v.oldsel = a THEN nil ELSE v.oldsel
  BY <1>0 DEF ViewRecord, Keep
<1>9. u \in ViewRecord
  BY <1>0, <1>5 DEF ViewRecord
<1>10. cols # <<>> /\ newfocus \in ToSet(cols)
  BY <1>4, <1>5, EmptyToSet
<1>11. FullscreenP(u) = FullscreenP(v)
  BY <1>8 DEF FullscreenP, Keep
<1> HIDE DEF cols, u
<1>12. LiveAreas(u) = LiveAreas(v) \ {a}
  BY <1>0, <1>5, <1>6, <1>8, ToSetSubset DEF LiveAreas
<1>13. /\ w \in ViewRecord
       /\ w.sel = IF v.sel = a THEN newfocus ELSE v.sel
       /\ w.cols = cols /\ w.frames = v.frames /\ w.f = v.f
       /\ w.floating = v.floating /\ w.asel = v.asel
       /\ w.fault = v.fault /\ Keep(v, w)
       /\ w.revert = u.revert
       /\ w.oldsel \in {u.oldsel, nil}
  <2>1. CASE v.sel = a
    <3>1. ~(newfocus # Float /\ FullscreenP(u))
      BY <1>6, <1>11, <2>1, ToSetSubset DEF FullFloat
    <3>2. newfocus \in LiveAreas(u)
      BY <1>8, <1>10 DEF LiveAreas
    <3>3. AreaIdx(u, newfocus) \in Int
      BY <1>9, <3>2, AreaIdxType
    <3>4. newfocus # Float /\ u.sel # Float
      BY <1>4, <1>6, <1>8, <2>1
    <3>5. w = [u EXCEPT !.sel = newfocus,
                        !.selcol = AreaIdx(u, newfocus),
                        !.oldsel = IF newfocus = u.sel THEN @ ELSE nil,
                        !.revert = @,
                        !.focus = IF u.selected THEN u.asel[newfocus] ELSE @]
      BY <1>7, <2>1, <3>1, <3>4 DEF AreaFocus
    <3>6. w \in ViewRecord
      BY <1>6, <1>9, <3>3, <3>5 DEF ViewRecord
    <3>7. /\ w.sel = newfocus
          /\ w.cols = u.cols /\ w.frames = u.frames /\ w.f = u.f
          /\ w.floating = u.floating /\ w.asel = u.asel
          /\ w.fault = u.fault /\ Keep(u, w)
          /\ w.revert = u.revert
          /\ w.oldsel \in {u.oldsel, nil}
      BY <1>9, <3>5 DEF ViewRecord, Keep
    <3> QED
      BY <1>8, <2>1, <3>6, <3>7 DEF Keep
  <2>2. CASE v.sel # a
    <3>1. w = u
      BY <1>7, <2>2
    <3> QED
      BY <1>8, <1>9, <2>2, <3>1
  <2> QED
    BY <2>1, <2>2
<1>14. LiveAreas(w) = LiveAreas(v) \ {a}
  BY <1>8, <1>12, <1>13 DEF LiveAreas
<1>15. AreasOK(w)
  BY <1>5, <1>8, <1>10, <1>13, <1>14 DEF AreasOK, Sound, LiveAreas
<1>16. ListsOK(w)
  BY <1>13, <1>14 DEF ListsOK, Sound
<1>17. Sound(w)
  BY <1>13, <1>15, <1>16 DEF Sound
<1>18. FullFloat(w)
  BY <1>6, <1>13, ToSetSubset DEF FullFloat, FullscreenP, Keep
<1> QED
  BY <1>13, <1>14, <1>17, <1>18 DEF w

LEMMA ColumnDetachProps ==
  ASSUME NEW v, Sound(v), FullFloat(v),
         NEW c \in Clients, v.f[c].area \in ColIds
  PROVE  LET w == ColumnDetach(v, c)
         IN  /\ Sound(w)
             /\ FullFloat(w)
             /\ Left(v, w, c)
             /\ AreasStay(v, w, c)
             /\ Chosen(v) => Chosen(w)
<1> DEFINE a == v.f[c].area
           u == ColumnRemove(v, c)
           x == AreaDestroy(u, a)
           y == ColumnsUpdate(x)
           w == ColumnDetach(v, c)
<1>1. /\ Sound(u)
      /\ Left(v, u, c)
      /\ u.cols = v.cols
      /\ FullFloat(u)
      /\ Chosen(v) => Chosen(u)
  BY ColumnRemoveProps
<1>2. InView(v, c)
  BY AreaAssumption DEF InView
<1>3. a \in ToSet(u.cols)
  BY <1>1, <1>2, InViewProps, AreaAssumption DEF LiveAreas
<1>4. w = IF u.frames[a] = <<>> /\ Len(u.cols) > 1 THEN y ELSE u
  BY DEF ColumnDetach, DestroyEmpty, ColumnDestroy
<1> HIDE DEF u, w
<1>5. CASE u.frames[a] = <<>> /\ Len(u.cols) > 1
  <2>1. /\ Sound(x)
        /\ FullFloat(x)
        /\ Keep(u, x)
        /\ x.frames = u.frames /\ x.f = u.f /\ x.floating = u.floating
        /\ x.asel = u.asel
        /\ LiveAreas(x) = LiveAreas(u) \ {a}
    <3> HIDE DEF a
    <3> QED BY <1>1, <1>3, <1>5, AreaDestroyProps
  <2> HIDE DEF x
  <2>2. /\ Sound(y)
        /\ SameAreas(x, y)
        /\ y.asel = x.asel
        /\ FullFloat(y)
    BY <2>1, ColumnsUpdateProps
  <2> HIDE DEF y
  <2>3. w = y
    BY <1>4, <1>5
  <2>4. Left(v, x, c)
    BY <1>1, <2>1 DEF Left, Keep
  <2>5. Left(v, y, c)
    BY <2>2, <2>4, LeftThenSame
  <2>6. LiveAreas(u) = LiveAreas(v) /\ LiveAreas(y) = LiveAreas(x)
    BY <1>1, <2>2, SameAreasKeeps DEF LiveAreas
  <2>7. AreasStay(v, y, c)
    BY <2>1, <2>6 DEF AreasStay
  <2>8. Chosen(v) => Chosen(y)
    BY <1>1, <2>1, <2>2 DEF Chosen, SameAreas
  <2> QED
    BY <2>2, <2>3, <2>5, <2>7, <2>8 DEF w
<1>6. CASE ~(u.frames[a] = <<>> /\ Len(u.cols) > 1)
  <2>1. w = u
    BY <1>4, <1>6
  <2>2. AreasStay(v, u, c)
    BY <1>1 DEF AreasStay, LiveAreas
  <2> QED
    BY <1>1, <2>1, <2>2 DEF w
<1> QED
  BY <1>5, <1>6

\* The end of area_detach finds v->sel alive.
LEMMA AfterDetachProps ==
  ASSUME NEW v, Sound(v)
  PROVE  LET w == AfterDetach(v)
         IN  /\ Sound(w)
             /\ SameFrames(v, w)
             /\ w.asel = v.asel
             /\ w.sel \in {v.sel, Float}
             /\ FullFloat(v) => FullFloat(w)
<1> DEFINE w == AfterDetach(v)
<1>0. v \in ViewRecord /\ v.sel \in LiveAreas(v)
  BY DEF Sound, AreasOK
<1>1. w = v \/ w = [v EXCEPT !.sel = Float]
  BY <1>0 DEF AfterDetach
<1>2. CASE w = v
  BY <1>2 DEF SameFrames, Keep
<1>3. CASE w = [v EXCEPT !.sel = Float]
  <2> HIDE DEF w
  <2>1. w \in ViewRecord
    BY <1>0, <1>3, ViewTypes DEF ViewRecord
  <2>2. /\ SameFrames(v, w) /\ w.asel = v.asel /\ w.sel = Float
        /\ w.oldsel = v.oldsel /\ w.revert = v.revert /\ w.fault = v.fault
    BY <1>0, <1>3 DEF ViewRecord, SameFrames, Keep
  <2>3. AreasOK(w)
    BY <2>2 DEF AreasOK, Sound, SameFrames, LiveAreas
  <2>4. ListsOK(w)
    BY <2>2, SameFramesKeeps DEF Sound
  <2>5. Sound(w)
    BY <2>1, <2>2, <2>3, <2>4 DEF Sound, SameFrames
  <2> QED
    BY <2>2, <2>5 DEF w, FullFloat
<1> QED
  BY <1>1, <1>2, <1>3

-----------------------------------------------------------------------------
(* A frame comes to an area.                                               *)

\* c has come to area a, and no other frame has moved.
Came(v, w, c, a) ==
  /\ Keep(v, w)
  /\ w.cols = v.cols
  /\ w.f[c].area = a
  /\ \A d \in Clients \ {c} :
       w.f[d].area = v.f[d].area /\ w.floating[d] = v.floating[d]

LEMMA CameThenSame ==
  ASSUME NEW u, NEW v, NEW w, NEW c \in Clients, NEW a,
         Came(u, v, c, a), SameAreas(v, w)
  PROVE  Came(u, w, c, a)
BY DEF Came, SameAreas, Keep

\* Only c can have become a fullscreen frame of the floating area, or one
\* of a column.
LEMMA CameFullscreenP ==
  ASSUME NEW v, Sound(v), NEW w, Sound(w), NEW c \in Clients, NEW a,
         Came(v, w, c, a)
  PROVE  /\ FullscreenP(w) => FullscreenP(v) \/ (c \in v.full /\ a = Float)
         /\ Pending(w) \subseteq Pending(v) \cup {c}
         /\ c \in Pending(w) => c \in v.full /\ a \in ColIds
<1>1. w.full = v.full /\ v.full \subseteq Clients
  BY ViewTypes DEF Came, Keep, Sound
<1>2. ASSUME FullscreenP(w)
      PROVE  FullscreenP(v) \/ (c \in v.full /\ a = Float)
  <2>1. PICK d \in w.full : w.f[d].area = Float
    BY <1>2, FullscreenPArea
  <2> QED
    BY <1>1, <2>1, FullscreenPArea DEF Came
<1>3. Pending(w) \subseteq Pending(v) \cup {c}
  BY <1>1 DEF Came, Pending
<1>4. c \in Pending(w) => c \in v.full /\ a \in ColIds
  BY <1>1 DEF Came, Pending
<1> QED
  BY <1>2, <1>3, <1>4

\* Linking the frame fr of c into area a after the frame pos.
PutIn(v, a, c, pos, fr, val) ==
  [v EXCEPT !.f[c] = fr,
            !.floating[c] = val,
            !.frames[a] = FrameInsert(@, pos, c)]

LEMMA PutInProps ==
  ASSUME NEW v, Sound(v), NEW c \in Clients, ~InView(v, c),
         NEW a \in LiveAreas(v), NEW pos \in ToSet(v.frames[a]) \cup {nil},
         NEW fr \in FrameFields, fr.area = a, NEW val \in Floating
  PROVE  LET w == PutIn(v, a, c, pos, fr, val)
         IN  /\ Sound(w)
             /\ Came(v, w, c, a)
             /\ w.asel = v.asel /\ w.sel = v.sel
             /\ c \in ToSet(w.frames[a])
             /\ \A b \in Areas \ {a} : w.frames[b] = v.frames[b]
             /\ c \notin v.full \/ a # Float => (FullFloat(v) => FullFloat(w))
<1> DEFINE q == FrameInsert(v.frames[a], pos, c)
           w == PutIn(v, a, c, pos, fr, val)
<1>0. v \in ViewRecord /\ a \in Areas
  BY ViewTypes DEF Sound
<1>1. /\ v.frames[a] \in Seq(Clients) /\ IsInjective(v.frames[a])
      /\ ToSet(v.frames[a]) = {d \in Clients : v.f[d].area = a}
  BY <1>0, ViewTypes DEF Sound, ListsOK
<1>2. c \notin ToSet(v.frames[a])
  BY <1>0, <1>1, ViewTypes DEF InView
<1>3. /\ q \in Seq(Clients)
      /\ IsInjective(q)
      /\ ToSet(q) = ToSet(v.frames[a]) \cup {c}
  BY <1>1, <1>2, FrameInsertProps
<1> HIDE DEF q
<1>4. /\ w.frames = [v.frames EXCEPT ![a] = q]
      /\ w.f = [v.f EXCEPT ![c] = fr]
      /\ w.floating = [v.floating EXCEPT ![c] = val]
  BY <1>0 DEF ViewRecord, PutIn, q
<1>5. /\ w.cols = v.cols /\ w.sel = v.sel /\ w.oldsel = v.oldsel
      /\ w.revert = v.revert /\ w.fault = v.fault /\ w.asel = v.asel
      /\ Keep(v, w)
  BY <1>0 DEF ViewRecord, PutIn, Keep
<1>6. w \in ViewRecord
  BY <1>0, <1>3 DEF ViewRecord, PutIn, q
<1> HIDE DEF w
<1>7. /\ w.f[c].area = a
      /\ \A d \in Clients \ {c} :
           w.f[d].area = v.f[d].area /\ w.floating[d] = v.floating[d]
  BY <1>0, <1>4, ViewTypes
<1>8. Came(v, w, c, a)
  BY <1>5, <1>7 DEF Came
<1>9. AreasOK(w)
  BY <1>5 DEF Sound, AreasOK, LiveAreas
<1>10. w.frames[a] = q /\ \A b \in Areas \ {a} : w.frames[b] = v.frames[b]
  BY <1>0, <1>4, ViewTypes
<1>11. ListsOK(w)
  <2> SUFFICES ASSUME NEW b \in Areas
               PROVE  /\ IsInjective(w.frames[b])
                      /\ ToSet(w.frames[b]) = {d \in Clients : w.f[d].area = b}
                      /\ w.frames[b] # <<>> => b \in LiveAreas(w)
    BY DEF ListsOK
  <2>1. /\ IsInjective(v.frames[b])
        /\ ToSet(v.frames[b]) = {d \in Clients : v.f[d].area = b}
        /\ v.frames[b] # <<>> => b \in LiveAreas(w)
    BY <1>5 DEF Sound, ListsOK, LiveAreas
  <2>2. CASE b = a
    <3>1. b \in LiveAreas(w)
      BY <1>5, <2>2 DEF LiveAreas
    <3>2. \A d \in Clients : w.f[d].area = b <=> v.f[d].area = b \/ d = c
      BY <1>7, <2>2
    <3> QED
      BY <1>3, <1>10, <2>1, <2>2, <3>1, <3>2
  <2>3. CASE b # a
    <3>1. \A d \in Clients : w.f[d].area = b <=> v.f[d].area = b
      BY <1>0, <1>7, <2>3, ViewTypes DEF InView
    <3> QED
      BY <1>10, <2>1, <2>3, <3>1
  <2> QED
    BY <2>2, <2>3
<1>12. \A b \in Areas : w.asel[b] \in ToSet(w.frames[b]) \cup {nil}
  BY <1>3, <1>5, <1>10 DEF Sound
<1>13. Sound(w)
  BY <1>5, <1>6, <1>9, <1>11, <1>12 DEF Sound
<1>14. c \notin v.full \/ a # Float => (FullFloat(v) => FullFloat(w))
  BY <1>5, <1>8, <1>13, CameFullscreenP DEF FullFloat
<1> QED
  BY <1>3, <1>5, <1>8, <1>10, <1>13, <1>14 DEF w

LEMMA ColumnInsertProps ==
  ASSUME NEW v, Sound(v), NEW c \in Clients, ~InView(v, c),
         NEW a \in LiveAreas(v), a # Float,
         NEW pos \in ToSet(v.frames[a]) \cup {nil}
  PROVE  LET w == ColumnInsert(v, a, c, pos)
         IN  /\ Sound(w)
             /\ Came(v, w, c, a)
             /\ w.sel = v.sel
             /\ FullFloat(v) => FullFloat(w)
             /\ Chosen(v) => Chosen(w)
<1>0. v \in ViewRecord /\ a \in Areas
  BY ViewTypes DEF Sound
<1>1. PICK k \in Int : k = AreaIdx(v, a)
  BY <1>0, AreaIdxType
<1> DEFINE fr == [v.f[c] EXCEPT !.area = a, !.screen = 0, !.column = k, !.colr = TRUE]
           val == IF v.floating[c] = "on" THEN "off" ELSE v.floating[c]
           u == PutIn(v, a, c, pos, fr, val)
           w == ColumnInsert(v, a, c, pos)
<1>2. fr \in FrameFields /\ fr.area = a
  <2>1. v.f[c] \in FrameFields /\ a \in Areas \cup {nil} /\ 0 \in -1 .. NScreens
    BY <1>0, ViewTypes DEF NScreens
  <2> QED
    BY <2>1 DEF FrameFields
<1>3. val \in Floating
  BY <1>0, ViewTypes DEF Floating
<1>4. w = IF v.asel[a] = nil THEN AreaSetselCore(u, a, c) ELSE u
  <2>1. u = [v EXCEPT !.f[c] = [@ EXCEPT !.area = a, !.screen = 0,
                                         !.column = AreaIdx(v, a), !.colr = TRUE],
                      !.floating[c] = IF @ = "on" THEN "off" ELSE @,
                      !.frames[a] = FrameInsert(@, pos, c)]
    BY <1>0, <1>1 DEF PutIn
  <2> HIDE DEF u
  <2> QED
    BY <2>1 DEF ColumnInsert
<1> HIDE DEF fr, val, w
<1>5. /\ Sound(u)
      /\ Came(v, u, c, a)
      /\ u.asel = v.asel /\ u.sel = v.sel
      /\ c \in ToSet(u.frames[a])
      /\ \A b \in Areas \ {a} : u.frames[b] = v.frames[b]
      /\ FullFloat(v) => FullFloat(u)
  BY <1>2, <1>3, PutInProps
<1> HIDE DEF u
<1>6. CASE v.asel[a] = nil
  <2>1. /\ Sound(w)
        /\ SameFrames(u, w)
        /\ w.asel = [u.asel EXCEPT ![a] = c]
        /\ w.sel = u.sel
        /\ FullFloat(u) => FullFloat(w)
    BY <1>0, <1>4, <1>5, <1>6, AreaSetselCoreProps
  <2>2. Came(v, w, c, a)
    BY <1>5, <2>1, SameFramesAreas, CameThenSame
  <2>3. Chosen(v) => Chosen(w)
    BY <1>0, <1>5, <2>1, ViewTypes DEF Chosen, SameFrames
  <2> QED
    BY <1>5, <2>1, <2>2, <2>3 DEF w
<1>7. CASE v.asel[a] # nil
  <2>1. Chosen(v) => Chosen(u)
    BY <1>5, <1>7 DEF Chosen
  <2> QED
    BY <1>4, <1>5, <1>7, <2>1 DEF w
<1> QED
  BY <1>6, <1>7

\* The common part of the two forms of float_attach.
LEMMA FloatPutProps ==
  ASSUME NEW v, Sound(v), NEW c \in Clients, ~InView(v, c)
  PROVE  LET u == [v EXCEPT !.f[c].area = Float,
                            !.floating[c] = IF @ = "off" THEN "on" ELSE @,
                            !.frames[Float] = FrameInsert(@, v.asel[Float], c)]
         IN  /\ Sound(u)
             /\ Came(v, u, c, Float)
             /\ u.asel = v.asel /\ u.sel = v.sel
             /\ c \in ToSet(u.frames[Float])
             /\ \A b \in Areas \ {Float} : u.frames[b] = v.frames[b]
             /\ c \notin v.full => (FullFloat(v) => FullFloat(u))
<1>0. v \in ViewRecord /\ Float \in Areas /\ Float \in LiveAreas(v)
  BY ViewTypes DEF Sound
<1> DEFINE fr == [v.f[c] EXCEPT !.area = Float]
           val == IF v.floating[c] = "off" THEN "on" ELSE v.floating[c]
           pos == v.asel[Float]
           u == [v EXCEPT !.f[c].area = Float,
                          !.floating[c] = IF @ = "off" THEN "on" ELSE @,
                          !.frames[Float] = FrameInsert(@, v.asel[Float], c)]
<1>1. fr \in FrameFields /\ fr.area = Float
  <2>1. v.f[c] \in FrameFields
    BY <1>0, ViewTypes
  <2> QED
    BY <1>0, <2>1 DEF FrameFields
<1>2. val \in Floating
  BY <1>0, ViewTypes DEF Floating
<1>3. pos \in ToSet(v.frames[Float]) \cup {nil}
  BY <1>0 DEF Sound
<1>4. u = PutIn(v, Float, c, pos, fr, val)
  BY <1>0 DEF PutIn, ViewRecord, FrameFields
<1> HIDE DEF fr, val, pos, u
<1>5. /\ Sound(u)
      /\ Came(v, u, c, Float)
      /\ u.asel = v.asel /\ u.sel = v.sel
      /\ c \in ToSet(u.frames[Float])
      /\ \A b \in Areas \ {Float} : u.frames[b] = v.frames[b]
      /\ c \notin v.full => (FullFloat(v) => FullFloat(u))
  BY <1>0, <1>1, <1>2, <1>3, <1>4, PutInProps
<1> QED
  BY <1>5 DEF u

LEMMA FloatAttachCoreProps ==
  ASSUME NEW v, Sound(v), NEW c \in Clients, ~InView(v, c)
  PROVE  LET w == FloatAttachCore(v, c)
         IN  /\ Sound(w)
             /\ Came(v, w, c, Float)
             /\ w.sel = v.sel
             /\ Chosen(v) => Chosen(w)
<1> DEFINE u == [v EXCEPT !.f[c].area = Float,
                          !.floating[c] = IF @ = "off" THEN "on" ELSE @,
                          !.frames[Float] = FrameInsert(@, v.asel[Float], c)]
           w == FloatAttachCore(v, c)
<1>0. v \in ViewRecord /\ Float \in Areas
  BY ViewTypes DEF Sound
<1>1. /\ Sound(u)
      /\ Came(v, u, c, Float)
      /\ u.asel = v.asel /\ u.sel = v.sel
      /\ c \in ToSet(u.frames[Float])
      /\ \A b \in Areas \ {Float} : u.frames[b] = v.frames[b]
  BY FloatPutProps
<1>2. w = IF v.asel[Float] = nil THEN AreaSetselCore(u, Float, c) ELSE u
  BY DEF FloatAttachCore
<1> HIDE DEF u, w
<1>3. CASE v.asel[Float] = nil
  <2>1. /\ Sound(w)
        /\ SameFrames(u, w)
        /\ w.asel = [u.asel EXCEPT ![Float] = c]
        /\ w.sel = u.sel
    BY <1>0, <1>1, <1>2, <1>3, AreaSetselCoreProps
  <2>2. Came(v, w, c, Float)
    BY <1>1, <2>1, SameFramesAreas, CameThenSame
  <2>3. Chosen(v) => Chosen(w)
    BY <1>0, <1>1, <2>1, ViewTypes DEF Chosen, SameFrames
  <2> QED
    BY <1>1, <2>1, <2>2, <2>3 DEF w
<1>4. CASE v.asel[Float] # nil
  <2>1. Chosen(v) => Chosen(u)
    BY <1>1, <1>4 DEF Chosen
  <2> QED
    BY <1>1, <1>2, <1>4, <2>1 DEF w
<1> QED
  BY <1>3, <1>4

LEMMA FloatAttachProps ==
  ASSUME NEW v, Sound(v), Pending(v) = {}, NEW c \in Clients, ~InView(v, c)
  PROVE  LET w == FloatAttach(v, c)
         IN  /\ Sound(w)
             /\ Came(v, w, c, Float)
             /\ c \notin v.full => (FullFloat(v) => FullFloat(w))
             /\ Chosen(v) => Chosen(w)
<1> DEFINE u == [v EXCEPT !.f[c].area = Float,
                          !.floating[c] = IF @ = "off" THEN "on" ELSE @,
                          !.frames[Float] = FrameInsert(@, v.asel[Float], c)]
           w == FloatAttach(v, c)
<1>0. v \in ViewRecord /\ Float \in Areas
  BY ViewTypes DEF Sound
<1>1. /\ Sound(u)
      /\ Came(v, u, c, Float)
      /\ u.asel = v.asel /\ u.sel = v.sel
      /\ c \in ToSet(u.frames[Float])
      /\ \A b \in Areas \ {Float} : u.frames[b] = v.frames[b]
      /\ c \notin v.full => (FullFloat(v) => FullFloat(u))
  BY FloatPutProps
<1>2. w = IF v.asel[Float] = nil THEN AreaSetsel(u, Float, c) ELSE u
  BY DEF FloatAttach
<1> HIDE DEF u, w
<1>3. CASE v.asel[Float] = nil
  <2>0. Pending(u) = {}
    BY <1>1, CameFullscreenP, AreaAssumption
  <2>1. /\ Sound(w)
        /\ SameAreas(u, w)
        /\ w.asel = [u.asel EXCEPT ![Float] = c]
        /\ FullFloat(u) => FullFloat(w)
    BY <1>0, <1>1, <1>2, <1>3, <2>0, AreaSetselProps
  <2>2. Came(v, w, c, Float)
    BY <1>1, <2>1, CameThenSame
  <2>3. Chosen(v) => Chosen(w)
    BY <1>0, <1>1, <2>1, ViewTypes DEF Chosen, SameAreas
  <2> QED
    BY <1>1, <2>1, <2>2, <2>3 DEF w
<1>4. CASE v.asel[Float] # nil
  <2>1. Chosen(v) => Chosen(u)
    BY <1>1, <1>4 DEF Chosen
  <2> QED
    BY <1>1, <1>2, <1>4, <2>1 DEF w
<1> QED
  BY <1>3, <1>4

-----------------------------------------------------------------------------
(* A frame leaves the floating area, and moves.                            *)

LEMMA FindAreaProps ==
  ASSUME NEW v \in ViewRecord, v.cols # <<>>, NEW idx \in Int
  PROVE  FindArea(v, idx) \in ToSet(v.cols) \cup {nil}
<1>1. Len(v.cols) \in Nat \ {0} /\ DOMAIN v.cols = 1 .. Len(v.cols)
  BY ViewTypes, EmptySeq, LenProperties
<1>2. CASE idx > Len(v.cols)
  BY <1>2 DEF FindArea
<1>3. CASE ~(idx > Len(v.cols))
  <2> DEFINE i == IF idx < 1 THEN 1 ELSE idx
  <2>1. i \in DOMAIN v.cols
    BY <1>1, <1>3
  <2>2. FindArea(v, idx) = v.cols[i]
    BY <1>3 DEF FindArea
  <2> HIDE DEF i
  <2> QED
    BY <2>1, <2>2 DEF ToSet
<1> QED
  BY <1>2, <1>3

\* The frame float_detach selects in c's place is another frame of the area.
LEMMA FocusableBeforeProps ==
  ASSUME NEW q \in Seq(Clients), IsInjective(q), NEW c \in ToSet(q)
  PROVE  FocusableBefore(q, c) \in (ToSet(q) \ {c}) \cup {nil}
<1> DEFINE k == IndexIn(q, c)
           I == {i \in 1 .. (k - 1) : q[i] \notin NoFocus}
           m == CHOOSE i \in I : \A j \in I : j <= i
<1>1. k \in 1 .. Len(q) /\ q[k] = c
  BY IndexInPos
<1>2. Len(q) \in Nat
  BY LenProperties
<1>3. DOMAIN q = 1 .. Len(q)
  BY LenProperties
<1>4. FocusableBefore(q, c) = IF I = {} THEN nil ELSE q[m]
  BY DEF FocusableBefore
<1> HIDE DEF k
<1>5. CASE I = {}
  BY <1>4, <1>5
<1>6. CASE I # {}
  <2>1. I \subseteq 1 .. k /\ k \in Nat
    BY <1>1, <1>2
  <2>2. \E i \in I : \A j \in I : j <= i
    <3> HIDE DEF I
    <3> QED BY <1>6, <2>1, NatMax
  <2>3. m \in I
    <3> HIDE DEF I
    <3> QED BY <2>2
  <2> HIDE DEF m
  <2>4. m \in 1 .. Len(q) /\ m # k
    BY <1>1, <1>2, <2>3
  <2>5. q[m] \in ToSet(q) /\ q[m] # c
    BY <1>1, <1>3, <2>4 DEF ToSet, IsInjective
  <2> QED
    BY <1>4, <1>6, <2>5
<1> QED
  BY <1>5, <1>6

LEMMA FirstFocusableProps ==
  ASSUME NEW q \in Seq(Clients)
  PROVE  /\ FirstFocusable(q) \in ToSet(q) \cup {nil}
         /\ q # <<>> => FirstFocusable(q) \in ToSet(q)
<1> DEFINE I == {i \in DOMAIN q : q[i] \notin NoFocus}
           m == CHOOSE i \in I : \A j \in I : i <= j
<1>1. DOMAIN q \subseteq Nat
  BY LenProperties
<1>2. FirstFocusable(q) = IF I = {} THEN LastOf(q) ELSE q[m]
  BY DEF FirstFocusable
<1>3. CASE I = {}
  BY <1>2, <1>3, NeighbourProps
<1>4. CASE I # {}
  <2>1. I \subseteq Nat
    BY <1>1
  <2>2. \E i \in I : \A j \in I : i <= j
    <3> HIDE DEF I
    <3> QED BY <1>4, <2>1, NatMin
  <2>3. m \in I
    <3> HIDE DEF I
    <3> QED BY <2>2
  <2> HIDE DEF m
  <2>4. q[m] \in ToSet(q)
    BY <2>3 DEF ToSet
  <2> QED
    BY <1>2, <1>4, <2>4
<1> QED
  BY <1>3, <1>4

LEMMA FloatDetachProps ==
  ASSUME NEW v, Sound(v), FullFloat(v), Pending(v) = {},
         NEW c \in Clients, v.f[c].area = Float
  PROVE  LET w == FloatDetach(v, c)
         IN  /\ Sound(w)
             /\ FullFloat(w)
             /\ Left(v, w, c)
             /\ AreasStay(v, w, c)
             /\ Chosen(v) => Chosen(w)
<1> DEFINE sel == FindArea(v, v.selcol)
           q == v.frames[Float]
           rest == FrameRemove(q, c)
           back == FocusableBefore(q, c)
           next == IF back # nil THEN back ELSE FirstFocusable(rest)
           pr == IF v.asel[Float] = c THEN next ELSE Before(q, c)
           out == [v EXCEPT !.frames[Float] = rest, !.f[c].area = nil]
           u == TakeOut(v, c)
           x == IF v.asel[Float] = c THEN AreaSetsel(u, Float, next) ELSE u
           w == FloatDetach(v, c)
<1>0. v \in ViewRecord /\ Float \in Areas /\ InView(v, c) /\ Float \in LiveAreas(v)
  BY ViewTypes, AreaAssumption DEF Sound, InView
<1>1. c \in ToSet(q) /\ q \in Seq(Clients) /\ IsInjective(q)
  BY <1>0, InViewProps, ViewTypes DEF Sound, ListsOK
<1>2. /\ Sound(u)
      /\ Left(v, u, c)
      /\ u.cols = v.cols
      /\ u.asel = [v.asel EXCEPT ![Float] = IF @ = c THEN nil ELSE @]
      /\ u.sel = v.sel /\ u.oldsel = v.oldsel
      /\ FullFloat(u)
  BY <1>0, TakeOutProps
<1>3. Pending(u) = {}
  BY <1>2, LeftFullscreenP
<1>4. rest \in Seq(Clients) /\ ToSet(rest) = ToSet(q) \ {c}
  BY <1>1, FrameRemoveProps
<1>5. u.frames = [v.frames EXCEPT ![Float] = rest] /\ u.frames[Float] = rest
  BY <1>0, <1>2, ViewTypes DEF Left
<1>6. next \in ToSet(rest) \cup {nil} /\ (rest # <<>> => next # nil)
  <2>1. back \in (ToSet(q) \ {c}) \cup {nil}
    BY <1>1, FocusableBeforeProps
  <2>2. FirstFocusable(rest) \in ToSet(rest) \cup {nil}
        /\ (rest # <<>> => FirstFocusable(rest) \in ToSet(rest))
    BY <1>4, FirstFocusableProps
  <2>3. nil \notin ToSet(rest)
    BY <1>0, <1>4, ToSetSubset, ViewTypes
  <2> QED
    BY <1>4, <2>1, <2>2, <2>3
<1>7. sel \in ToSet(v.cols) \cup {nil}
  BY <1>0, FindAreaProps, ViewTypes DEF Sound, AreasOK
<1>8. w = IF v.oldsel # nil THEN AreaFocus(x, v.oldsel)
          ELSE IF /\ x.frames[Float] = <<>> \/ pr \in NoFocus
                  /\ sel # nil
                  /\ x.frames[sel] # <<>>
               THEN AreaFocus(x, sel)
               ELSE x
  <2>1. v.asel[Float] = c => u = [out EXCEPT !.asel[Float] = nil]
    BY <1>0 DEF ViewRecord, TakeOut
  <2>2. v.asel[Float] # c => u = out
    BY <1>0 DEF ViewRecord, TakeOut
  <2> DEFINE y == IF v.asel[Float] = c
                  THEN AreaSetsel([out EXCEPT !.asel[Float] = nil], Float, next)
                  ELSE out
  <2>3. w = IF v.oldsel # nil THEN AreaFocus(y, v.oldsel)
            ELSE IF /\ y.frames[Float] = <<>> \/ pr \in NoFocus
                    /\ sel # nil
                    /\ y.frames[sel] # <<>>
                 THEN AreaFocus(y, sel)
                 ELSE y
    BY Zenon DEF FloatDetach, FloatYield
  <2> HIDE DEF u, out, next, w, sel, pr
  <2>4. x = y
    BY <2>1, <2>2
  <2> HIDE DEF x, y
  <2> QED
    BY <2>3, <2>4
<1> HIDE DEF u, next, rest, w, sel, pr
<1>9. /\ Sound(x)
      /\ SameAreas(u, x)
      /\ FullFloat(x)
      /\ Chosen(v) => Chosen(x)
  <2>0. \A b \in Areas \ {Float} : u.asel[b] = v.asel[b] /\ u.frames[b] = v.frames[b]
    BY <1>0, <1>2, <1>5, ViewTypes
  <2>1. CASE v.asel[Float] = c
    <3>1. /\ Sound(x)
          /\ SameAreas(u, x)
          /\ x.asel = [u.asel EXCEPT ![Float] = next]
          /\ FullFloat(u) => FullFloat(x)
      <4>1. next \in ToSet(u.frames[Float]) \cup {nil}
        BY <1>5, <1>6
      <4>2. x = AreaSetsel(u, Float, next)
        BY <2>1
      <4> HIDE DEF x
      <4> QED
        BY <1>0, <1>2, <1>3, <4>1, <4>2, AreaSetselProps
    <3>2. Chosen(v) => Chosen(x)
      BY <1>0, <1>2, <1>5, <1>6, <2>0, <3>1, ViewTypes DEF Chosen, SameAreas, Sound
    <3> QED
      BY <1>2, <3>1, <3>2
  <2>2. CASE v.asel[Float] # c
    <3>1. x = u
      BY <2>2
    <3>2. u.asel[Float] = v.asel[Float] /\ q # <<>>
      BY <1>0, <1>1, <1>2, <2>2, EmptyToSet, ViewTypes
    <3>3. Chosen(v) => Chosen(u)
      BY <2>0, <3>2 DEF Chosen
    <3>4. SameAreas(u, u)
      BY DEF SameAreas, Keep
    <3> QED
      BY <1>2, <3>1, <3>3, <3>4
  <2> QED
    BY <2>1, <2>2
<1> HIDE DEF x
<1>10. w = x \/ \E a \in LiveAreas(x) : w = AreaFocus(x, a)
  <2>1. LiveAreas(x) = LiveAreas(v)
    BY <1>2, <1>9, SameAreasKeeps DEF LiveAreas
  <2>2. v.oldsel # nil => v.oldsel \in LiveAreas(x)
    BY <2>1 DEF Sound, AreasOK
  <2>3. sel # nil => sel \in LiveAreas(x)
    BY <1>7, <2>1 DEF LiveAreas
  <2> QED
    BY <1>8, <2>2, <2>3
<1>11. /\ Sound(w)
       /\ SameAreas(x, w)
       /\ FullFloat(w)
       /\ w.asel = x.asel
  <2>1. CASE w = x
    BY <1>9, <2>1 DEF SameAreas, Keep
  <2>2. ASSUME NEW a \in LiveAreas(x), w = AreaFocus(x, a)
        PROVE  /\ Sound(w)
               /\ SameAreas(x, w)
               /\ FullFloat(w)
               /\ w.asel = x.asel
    BY <1>9, <2>2, AreaFocusProps, SameFramesAreas
  <2> QED
    BY <1>10, <2>1, <2>2
<1>12. Left(v, w, c)
  BY <1>2, <1>9, <1>11, LeftThenSame, SameAreasTrans
<1>13. AreasStay(v, w, c)
  BY <1>2, <1>9, <1>11 DEF AreasStay, LiveAreas, SameAreas
<1>14. Chosen(v) => Chosen(w)
  BY <1>9, <1>11 DEF Chosen, SameAreas
<1> QED
  BY <1>11, <1>12, <1>13, <1>14 DEF w

-----------------------------------------------------------------------------
(* What the handlers of module View call.                                  *)

\* A view between two steps of a handler: every fullscreen client floats in
\* the selected area, and no area with frames lacks a selected one.
Good(v) == Sound(v) /\ FullOK(v) /\ Chosen(v)

\* The same clients have a frame in the view.
Moved(v, w) ==
  Keep(v, w) /\ \A c \in Clients : InView(w, c) <=> InView(v, c)

LEMMA MovedTrans ==
  ASSUME NEW u, NEW v, NEW w, Moved(u, v), Moved(v, w)
  PROVE  Moved(u, w)
BY DEF Moved, Keep

LEMMA SameAreasMoved ==
  ASSUME NEW v, NEW w, SameAreas(v, w)
  PROVE  Moved(v, w)
BY SameAreasKeeps DEF Moved

\* A good view that only changes its selection properly stays good.
LEMMA SameAreasGood ==
  ASSUME NEW v, Good(v), NEW w, Sound(w), SameAreas(v, w), FullFloat(w),
         Chosen(w)
  PROVE  Good(w)
<1>1. v.full \subseteq Clients
  BY ViewTypes DEF Good, Sound
<1>2. Pending(w) = {}
  BY <1>1, SameAreasKeeps DEF Good, FullOK
<1> QED
  BY <1>2 DEF Good, FullOK, FullFloat

\* Choosing a frame for an area leaves no area without.
LEMMA ChosenExcept ==
  ASSUME NEW v, Sound(v), Chosen(v), NEW w, w.frames = v.frames,
         NEW a \in Areas, NEW c \in Clients,
         w.asel = [v.asel EXCEPT ![a] = c]
  PROVE  Chosen(w)
BY ViewTypes DEF Chosen, Sound

LEMMA AreaFocusGood ==
  ASSUME NEW v, Good(v), NEW a \in LiveAreas(v)
  PROVE  Good(AreaFocus(v, a)) /\ Moved(v, AreaFocus(v, a))
         /\ SameFrames(v, AreaFocus(v, a))
<1> DEFINE w == AreaFocus(v, a)
<1>1. Sound(v) /\ FullFloat(v)
  BY DEF Good, FullOK, FullFloat
<1>2. Sound(w) /\ SameFrames(v, w) /\ w.asel = v.asel /\ FullFloat(w)
  BY <1>1, AreaFocusProps
<1> HIDE DEF w
<1>3. SameAreas(v, w)
  BY <1>2, SameFramesAreas
<1>4. Chosen(w)
  BY <1>2 DEF Good, Chosen, SameFrames
<1> QED
  BY <1>2, <1>3, <1>4, SameAreasGood, SameAreasMoved DEF w

LEMMA FrameFocusGood ==
  ASSUME NEW v, Good(v), NEW c \in Clients, InView(v, c)
  PROVE  Good(FrameFocus(v, c)) /\ Moved(v, FrameFocus(v, c))
<1> DEFINE w == FrameFocus(v, c)
<1>1. Sound(v) /\ FullFloat(v) /\ Pending(v) = {} /\ Chosen(v)
  BY DEF Good, FullOK, FullFloat
<1>2. /\ Sound(w) /\ SameAreas(v, w) /\ FullFloat(w)
      /\ w.asel = [v.asel EXCEPT ![v.f[c].area] = c]
  BY <1>1, FrameFocusProps
<1> HIDE DEF w
<1>3. v.f[c].area \in Areas
  BY <1>1, InViewProps, ViewTypes DEF Sound
<1>4. Chosen(w)
  BY <1>1, <1>2, <1>3, ChosenExcept DEF SameAreas
<1> QED
  BY <1>2, <1>4, SameAreasGood, SameAreasMoved DEF w

LEMMA AreaAttachProps ==
  ASSUME NEW v, Sound(v), Pending(v) = {}, NEW c \in Clients, ~InView(v, c),
         NEW a \in LiveAreas(v)
  PROVE  LET w == AreaAttach(v, a, c)
         IN  /\ Sound(w)
             /\ Came(v, w, c, a)
             /\ c \notin v.full \/ a # Float => (FullFloat(v) => FullFloat(w))
             /\ Chosen(v) => Chosen(w)
<1>1. CASE a = Float
  BY <1>1, FloatAttachProps DEF AreaAttach
<1>2. CASE a # Float
  <2>1. v.asel[a] \in ToSet(v.frames[a]) \cup {nil}
    BY ViewTypes DEF Sound
  <2>2. AreaAttach(v, a, c) = ColumnInsert(v, a, c, v.asel[a])
    BY <1>2 DEF AreaAttach, ColumnAttach
  <2> QED
    BY <1>2, <2>1, <2>2, ColumnInsertProps
<1> QED
  BY <1>1, <1>2

LEMMA ColumnAttachRectProps ==
  ASSUME NEW v, Sound(v), NEW c \in Clients, ~InView(v, c),
         NEW a \in LiveAreas(v), a # Float
  PROVE  LET w == ColumnAttachRect(v, a, c)
         IN  /\ Sound(w)
             /\ Came(v, w, c, a)
             /\ FullFloat(v) => FullFloat(w)
             /\ Chosen(v) => Chosen(w)
<1>1. LastOf(v.frames[a]) \in ToSet(v.frames[a]) \cup {nil}
  BY NeighbourProps, ViewTypes DEF Sound
<1> QED
  BY <1>1, ColumnInsertProps DEF ColumnAttachRect

LEMMA AreaDetachProps ==
  ASSUME NEW v, Good(v), NEW c \in Clients, InView(v, c)
  PROVE  LET w == AreaDetach(v, c)
         IN  /\ Good(w)
             /\ Keep(v, w)
             /\ w.f[c].area = nil
             /\ \A d \in Clients \ {c} : w.f[d].area = v.f[d].area
             /\ AreasStay(v, w, c)
<1> DEFINE u == IF v.f[c].area = Float THEN FloatDetach(v, c)
                ELSE ColumnDetach(v, c)
           w == AreaDetach(v, c)
<1>1. Sound(v) /\ FullFloat(v) /\ Pending(v) = {} /\ Chosen(v)
  BY DEF Good, FullOK, FullFloat
<1>2. v.f[c].area \in Areas
  BY <1>1, InViewProps, ViewTypes DEF Sound
<1>3. Sound(u) /\ FullFloat(u) /\ Left(v, u, c) /\ AreasStay(v, u, c) /\ Chosen(u)
  <2>1. CASE v.f[c].area = Float
    BY <1>1, <2>1, FloatDetachProps
  <2>2. CASE v.f[c].area # Float
    BY <1>1, <1>2, <2>2, ColumnDetachProps DEF Areas
  <2> QED
    BY <2>1, <2>2
<1>4. w = AfterDetach(u)
  BY DEF AreaDetach
<1> HIDE DEF u, w
<1>5. Sound(w) /\ SameFrames(u, w) /\ w.asel = u.asel /\ FullFloat(w)
  BY <1>3, <1>4, AfterDetachProps
<1>6. Pending(u) = {}
  BY <1>1, <1>3, LeftFullscreenP
<1>7. Pending(w) = {}
  BY <1>5, <1>6, SameFramesKeeps
<1>8. Chosen(w)
  BY <1>3, <1>5 DEF Chosen, SameFrames
<1>9. Left(v, w, c)
  BY <1>3, <1>5, SameFramesAreas, LeftThenSame
<1>10. AreasStay(v, w, c)
  BY <1>3, <1>5, SameFramesKeeps DEF AreasStay
<1> QED
  BY <1>5, <1>7, <1>8, <1>9, <1>10 DEF w, Left, Good, FullOK, FullFloat

LEMMA AreaMovetoProps ==
  ASSUME NEW v, Good(v), NEW c \in Clients, InView(v, c),
         NEW to \in LiveAreas(v), NEW junk \in BOOLEAN
  PROVE  /\ Good(AreaMoveto(v, to, c, junk))
         /\ Moved(v, AreaMoveto(v, to, c, junk))
<1> DEFINE from == v.f[c].area
           u == AreaDetach(v, c)
           w == AreaMoveto(v, to, c, junk)
<1>1. CASE from = to \/ (c \in v.full /\ to # Float)
  <2>1. w = v
    BY <1>1 DEF AreaMoveto, Reattach
  <2> QED
    BY <2>1 DEF Moved, Keep
<1>2. CASE ~(from = to \/ (c \in v.full /\ to # Float))
  <2>1. /\ Good(u)
        /\ Keep(v, u)
        /\ u.f[c].area = nil
        /\ \A d \in Clients \ {c} : u.f[d].area = v.f[d].area
        /\ AreasStay(v, u, c)
    BY AreaDetachProps
  <2>2. u.fault = "none" /\ Sound(u) /\ FullFloat(u) /\ Pending(u) = {} /\ Chosen(u)
    BY <2>1 DEF Good, Sound, FullOK, FullFloat
  <2>3. w = IF to # Float /\ FromFloats(u, from, junk) /\ v.f[c].colr
            THEN ColumnAttachRect(u, to, c) ELSE AreaAttach(u, to, c)
    BY <1>2, <2>2 DEF AreaMoveto, Reattach
  <2> HIDE DEF u, w
  <2>4. to \in LiveAreas(u) /\ to \in Areas /\ nil \notin Areas
    BY <1>2, <2>1, ViewTypes DEF AreasStay, Good, Sound
  <2>5. ~InView(u, c)
    BY <2>1 DEF InView
  <2>6. c \notin v.full /\ u.full = v.full
    <3>1. from \in Areas
      BY InViewProps, ViewTypes DEF Good, Sound
    <3>2. c \notin Pending(v)
      BY DEF Good, FullOK
    <3> QED
      BY <1>2, <2>1, <3>1, <3>2 DEF Pending, Areas, Keep
  <2>7. /\ Sound(w)
        /\ Came(u, w, c, to)
        /\ FullFloat(w)
        /\ Chosen(w)
    <3>1. CASE to # Float /\ FromFloats(u, from, junk) /\ v.f[c].colr
      BY <2>2, <2>3, <2>4, <2>5, <3>1, ColumnAttachRectProps
    <3>2. CASE ~(to # Float /\ FromFloats(u, from, junk) /\ v.f[c].colr)
      BY <2>2, <2>3, <2>4, <2>5, <2>6, <3>2, AreaAttachProps
    <3> QED
      BY <3>1, <3>2
  <2>8. Pending(w) = {}
    BY <2>2, <2>6, <2>7, CameFullscreenP
  <2>9. Good(w)
    BY <2>7, <2>8 DEF Good, FullOK, FullFloat
  <2>10. Moved(v, w)
    BY <2>1, <2>4, <2>7 DEF Moved, Came, Keep, InView
  <2> QED
    BY <2>9, <2>10 DEF w
<1> QED
  BY <1>1, <1>2

\* One fullscreen frame in a column: view_update takes it out.
LEMMA MovePendingProps ==
  ASSUME NEW v, Sound(v), FullFloat(v), Chosen(v),
         NEW c \in Clients, Pending(v) = {c}
  PROVE  LET w == MovePending(v)
         IN  /\ Sound(w)
             /\ Pending(w) = {}
             /\ Chosen(w)
             /\ Moved(v, w)
<1> DEFINE marked == [v EXCEPT !.f[c].oldarea = AreaIdx(v, v.f[c].area)]
           u == ColumnDetach(marked, c)
           x == AfterDetach(u)
           y == FloatAttachCore(x, c)
           w == MovePending(v)
<1>0. v \in ViewRecord /\ c \in v.full /\ v.f[c].area \in ColIds
  BY DEF Sound, Pending
<1>1. FirstPending(v) = c
  <2>1. AreaIdx(v, v.f[c].area) \in Int
    BY <1>0, InViewProps, AreaIdxType, AreaAssumption DEF InView
  <2>2. IndexIn(v.frames[v.f[c].area], c) \in Int
    BY <1>0, InViewProps, IndexInPos, ViewTypes, AreaAssumption DEF InView, Areas
  <2> QED
    BY <2>1, <2>2 DEF FirstPending
<1>2. w = AreaSetselCore(y, Float, c)
  BY <1>1 DEF MovePending
<1>3. Sound(marked) /\ SameAreas(v, marked) /\ FullFloat(marked) /\ marked.asel = v.asel
  <2>1. PICK k \in Int : k = AreaIdx(v, v.f[c].area)
    BY <1>0, InViewProps, AreaIdxType, AreaAssumption DEF InView
  <2>2. v.f[c] \in FrameFields
    BY <1>0, ViewTypes
  <2> DEFINE fr == [v.f[c] EXCEPT !.oldarea = k]
  <2>3. fr \in FrameFields /\ fr.area = v.f[c].area
    BY <2>2 DEF FrameFields
  <2>4. marked = [v EXCEPT !.f[c] = fr]
    BY <2>1
  <2> HIDE DEF marked, fr
  <2>5. marked \in ViewRecord
    BY <1>0, <2>3, <2>4 DEF ViewRecord
  <2>6. /\ marked.f = [v.f EXCEPT ![c] = fr] /\ Keep(v, marked)
        /\ marked.cols = v.cols /\ marked.frames = v.frames
        /\ marked.floating = v.floating
    BY <1>0, <2>4 DEF ViewRecord, Keep
  <2>7. SameAreas(v, marked)
    BY <1>0, <2>3, <2>6, ViewTypes DEF SameAreas
  <2>8. marked.fault = v.fault /\ marked.asel = v.asel /\ marked.sel = v.sel
        /\ marked.oldsel = v.oldsel /\ marked.revert = v.revert
    BY <1>0, <2>4 DEF ViewRecord
  <2> QED
    BY <2>5, <2>7, <2>8, SameAreasSound
<1>4. Chosen(marked) /\ marked.f[c].area \in ColIds
  BY <1>0, <1>3 DEF Chosen, SameAreas
<1> HIDE DEF marked
<1>5. Sound(u) /\ FullFloat(u) /\ Left(marked, u, c) /\ Chosen(u)
  BY <1>3, <1>4, ColumnDetachProps
<1> HIDE DEF u
<1>6. Sound(x) /\ SameFrames(u, x) /\ x.asel = u.asel
  BY <1>5, AfterDetachProps
<1>7. Chosen(x)
  BY <1>5, <1>6 DEF Chosen, SameFrames
<1>8. ~InView(x, c)
  BY <1>5, <1>6 DEF Left, SameFrames, InView
<1> HIDE DEF x
<1>9. Sound(y) /\ Came(x, y, c, Float) /\ Chosen(y)
  BY <1>6, <1>7, <1>8, FloatAttachCoreProps
<1> HIDE DEF y, w
<1>10. Float \in Areas /\ c \in ToSet(y.frames[Float])
  BY <1>9, ViewTypes DEF Sound, ListsOK, Came
<1>11. Sound(w) /\ SameFrames(y, w) /\ w.asel = [y.asel EXCEPT ![Float] = c]
  BY <1>2, <1>9, <1>10, AreaSetselCoreProps
<1>12. Chosen(w)
  BY <1>9, <1>10, <1>11, ChosenExcept DEF SameFrames
<1>13. /\ w.full = v.full
       /\ w.f[c].area = Float
       /\ \A d \in Clients \ {c} : w.f[d].area = v.f[d].area
       /\ Keep(v, w)
  BY <1>3, <1>5, <1>6, <1>9, <1>11 DEF SameAreas, SameFrames, Left, Came, Keep
<1>14. Pending(w) = {}
  BY <1>0, <1>13, ViewTypes, AreaAssumption DEF Pending
<1>15. Moved(v, w)
  BY <1>0, <1>13, ViewTypes, AreaAssumption DEF Moved, InView
<1> QED
  BY <1>11, <1>12, <1>14, <1>15 DEF w

-----------------------------------------------------------------------------
(* The client that has the focus.                                          *)

\* In a view on screen it is the selected client.
Follows(v) == v.selected => v.focus = SelClient(v)

\* area_focus gives the focus to the area's client, when it is not refused.
LEMMA AreaFocusFollows ==
  ASSUME NEW v, v \in ViewRecord, NEW a \in Areas,
         Follows(v) \/ a = Float \/ ~FullscreenP(v)
  PROVE  Follows(AreaFocus(v, a))
<1> DEFINE w == AreaFocus(v, a)
<1>1. CASE a # Float /\ FullscreenP(v)
  BY <1>1 DEF AreaFocus
<1>2. CASE ~(a # Float /\ FullscreenP(v))
  <2>1. /\ w.selected = v.selected /\ w.asel = v.asel /\ w.sel = a
        /\ w.focus = IF v.selected THEN v.asel[a] ELSE v.focus
    BY <1>2 DEF AreaFocus, ViewRecord
  <2> HIDE DEF w
  <2>2. a # nil
    BY ViewTypes
  <2> QED
    BY <2>1, <2>2 DEF Follows, SelClient, w
<1> QED
  BY <1>1, <1>2

\* view_update ends in an area_focus that is never refused.
LEMMA UpdateFollows ==
  ASSUME NEW v, Sound(v), Chosen(v), NEW c, Pending(v) \subseteq {c},
         Pending(v) # {} => v.selected /\ FullFloat(v)
  PROVE  Follows(ViewUpdate(v))
<1> DEFINE x == MovePending(v)
           y == MovePending(x)
           u == MarkFullscreen(y)
           a == IF FullscreenP(u) THEN Float ELSE u.sel
<1>1. CASE ~v.selected
  BY <1>1 DEF ViewUpdate, Follows
<1>2. CASE v.selected
  <2>1. Sound(y)
    <3>1. CASE Pending(v) = {}
      BY <3>1 DEF MovePending
    <3>2. CASE Pending(v) # {}
      <4>1. Pending(v) = {c} /\ c \in Clients
        BY <3>2, ViewTypes DEF Sound, Pending
      <4>2. Sound(x) /\ Pending(x) = {}
        BY <3>2, <4>1, MovePendingProps
      <4> HIDE DEF x
      <4> QED
        BY <4>2 DEF MovePending
    <3> QED
      BY <3>1, <3>2
  <2> HIDE DEF y
  <2>2. Sound(u)
    BY <2>1, MarkFullscreenProps
  <2>3. ViewUpdate(v) = AreaFocus(u, a)
    BY <1>2, <2>2 DEF ViewUpdate, RefreshFocus, Sound, y
  <2> HIDE DEF u
  <2>4. u \in ViewRecord /\ a \in Areas
    BY <2>2, ViewTypes DEF Sound, AreasOK
  <2>5. a = Float \/ ~FullscreenP(u)
    OBVIOUS
  <2> QED
    BY <2>3, <2>4, <2>5, AreaFocusFollows
<1> QED
  BY <1>1, <1>2

\* frame_focus
LEMMA FrameFocusFollows ==
  ASSUME NEW v, Good(v), Follows(v), NEW c \in Clients, InView(v, c)
  PROVE  Follows(FrameFocus(v, c))
<1> DEFINE b == v.f[c].area
           chosen == [v EXCEPT !.asel[b] = c]
           x == IF b = v.sel THEN chosen ELSE AreaFocus(chosen, b)
           u == FrameFocusCore(v, c)
<1>1. Sound(v) /\ v \in ViewRecord /\ Pending(v) = {} /\ Chosen(v)
  BY DEF Good, Sound, FullOK
<1>2. b \in LiveAreas(v) /\ b \in Areas /\ c \in ToSet(v.frames[b])
  BY <1>1, InViewProps, ViewTypes DEF Sound
<1>3. v.sel \in Areas /\ nil \notin Areas
  BY <1>1, ViewTypes DEF Sound, AreasOK
<1>4. /\ Sound(chosen) /\ SameFrames(v, chosen) /\ chosen.sel = v.sel
      /\ chosen.asel = [v.asel EXCEPT ![b] = c] /\ chosen.focus = v.focus
  <2>1. c \in ToSet(v.frames[b]) \cup {nil}
    BY <1>2
  <2> HIDE DEF b
  <2> QED
    BY <1>1, <1>2, <2>1, ChooseFrame
<1>5. chosen.selected = v.selected
  BY <1>4 DEF SameFrames, Keep
<1>6. v.asel \in [Areas -> Clients \cup {nil}]
  BY <1>1, ViewTypes
<1> HIDE DEF b, chosen
<1>7. b \in LiveAreas(chosen)
  BY <1>2, <1>4, SameFramesKeeps
<1>8. /\ Sound(x) /\ SameFrames(chosen, x) /\ x.asel = chosen.asel
      /\ x.sel = v.sel \/ x.sel = b
      /\ b = v.sel => x.sel = b
      /\ x.sel # b => x.focus = v.focus
  <2>1. CASE b = v.sel
    BY <1>4, <2>1 DEF SameFrames, Keep
  <2>2. CASE b # v.sel
    <3>1. /\ Sound(AreaFocus(chosen, b)) /\ SameFrames(chosen, AreaFocus(chosen, b))
          /\ AreaFocus(chosen, b).asel = chosen.asel
          /\ AreaFocus(chosen, b).sel = chosen.sel \/ AreaFocus(chosen, b).sel = b
          /\ b = Float \/ ~FullscreenP(chosen) => AreaFocus(chosen, b).sel = b
      BY <1>4, <1>7, AreaFocusProps
    <3>2. b # Float /\ FullscreenP(chosen) => AreaFocus(chosen, b) = chosen
      BY DEF AreaFocus
    <3> QED
      BY <1>4, <1>5, <2>2, <3>1, <3>2
  <2> QED
    BY <2>1, <2>2
<1>9. u = ClientFocus(v, x, c)
  BY DEF FrameFocusCore, x, chosen, b
<1> HIDE DEF x
<1>10. /\ u.selected = v.selected /\ u.asel = chosen.asel /\ u.sel = x.sel
       /\ u.focus = IF v.selected /\ x.sel = b THEN c ELSE x.focus
  <2>1. x \in ViewRecord /\ x.selected = v.selected
    BY <1>5, <1>8 DEF Sound, SameFrames, Keep
  <2> QED
    BY <1>8, <1>9, <2>1 DEF ClientFocus, ViewRecord, b
<1> HIDE DEF u
<1>11. Follows(u)
  <2>1. CASE x.sel = b
    BY <1>2, <1>3, <1>4, <1>6, <1>10, <2>1 DEF Follows, SelClient
  <2>2. CASE x.sel # b
    BY <1>2, <1>3, <1>4, <1>6, <1>8, <1>10, <2>2 DEF Follows, SelClient
  <2> QED
    BY <2>1, <2>2
<1>12. CASE ~(v.selected /\ v.f[c].area = Float /\ u.sel = Float)
  BY <1>11, <1>12 DEF FrameFocus, u
<1>13. CASE v.selected /\ v.f[c].area = Float /\ u.sel = Float
  <2> DEFINE y == ViewUpdate(u)
  <2>1. Sound(u) /\ SameFrames(v, u)
    BY <1>1, FrameFocusCoreProps DEF u
  <2>2. Pending(u) = {}
    BY <1>1, <2>1, SameFramesKeeps
  <2>3. /\ Sound(y) /\ y.asel = u.asel
        /\ y.sel = u.sel \/ y.sel = Float
    BY <2>1, <2>2, ViewUpdateProps
  <2>4. FrameFocus(v, c) = [y EXCEPT !.focus = c]
    BY <1>13 DEF FrameFocus, u
  <2> HIDE DEF y
  <2>5. y \in ViewRecord /\ y.sel = b /\ b = Float
    BY <1>13, <2>3 DEF Sound, b
  <2>6. y.asel[b] = c
    BY <1>2, <1>4, <1>6, <1>10, <2>3
  <2> QED
    BY <1>2, <1>3, <2>4, <2>5, <2>6 DEF Follows, SelClient, ViewRecord
<1> QED
  BY <1>12, <1>13

\* view_update restores a view in which at most one fullscreen client is in
\* a column, or the floating area with a fullscreen client is not selected.
LEMMA ViewUpdateGood ==
  ASSUME NEW v, Sound(v), Chosen(v), NEW c, Pending(v) \subseteq {c},
         Pending(v) # {} => v.selected /\ FullFloat(v),
         v.selected \/ FullFloat(v)
  PROVE  /\ Good(ViewUpdate(v)) /\ Moved(v, ViewUpdate(v))
         /\ Follows(ViewUpdate(v))
<1> DEFINE x == MovePending(v)
           w == ViewUpdate(v)
<1>0. Follows(w)
  BY UpdateFollows
<1>1. CASE Pending(v) = {}
  <2>1. /\ Sound(w)
        /\ SameAreas(v, w)
        /\ w.asel = v.asel
        /\ FullFloat(w)
    BY <1>1, ViewUpdateProps
  <2> HIDE DEF w
  <2>2. v.full \subseteq Clients
    BY ViewTypes DEF Sound
  <2>3. Pending(w) = {} /\ Chosen(w)
    BY <1>1, <2>1, <2>2, SameAreasKeeps DEF Chosen, SameAreas
  <2> QED
    BY <1>0, <2>1, <2>3, SameAreasMoved DEF w, Good, FullOK, FullFloat
<1>2. CASE Pending(v) # {}
  <2>1. Pending(v) = {c} /\ c \in Clients
    BY <1>2, ViewTypes DEF Sound, Pending
  <2>2. Sound(x) /\ Pending(x) = {} /\ Chosen(x) /\ Moved(v, x)
    BY <1>2, <2>1, MovePendingProps
  <2>3. v.selected /\ x.selected
    BY <1>2, <2>2 DEF Moved, Keep
  <2>4. w = ViewUpdate(x)
    <3> HIDE DEF x
    <3>1. MovePending(x) = x
      BY <2>2 DEF MovePending
    <3> QED
      BY <2>3, <3>1 DEF ViewUpdate, RefreshFocus, x
  <2> HIDE DEF x
  <2>5. /\ Sound(w)
        /\ SameAreas(x, w)
        /\ w.asel = x.asel
        /\ FullFloat(w)
    BY <2>2, <2>3, <2>4, ViewUpdateProps
  <2> HIDE DEF w
  <2>6. x.full \subseteq Clients
    BY <2>2, ViewTypes DEF Sound
  <2>7. Pending(w) = {} /\ Chosen(w)
    BY <2>2, <2>5, <2>6, SameAreasKeeps DEF Chosen, SameAreas
  <2>8. Moved(v, w)
    BY <2>2, <2>5, SameAreasMoved, MovedTrans
  <2> QED
    BY <1>0, <2>5, <2>7, <2>8 DEF w, Good, FullOK, FullFloat
<1> QED
  BY <1>1, <1>2
-----------------------------------------------------------------------------
(* Consistent and Good.                                                    *)

LEMMA GoodConsistent ==
  ASSUME NEW v, Good(v), v.alive
  PROVE  Consistent(v)
<1>1. Sound(v) /\ FullOK(v) /\ Chosen(v)
  BY DEF Good
<1>2. v \in ViewRecord /\ v.fault = "none" /\ ListsOK(v) /\ AreasOK(v)
  BY <1>1 DEF Sound
<1>3. AselOK(v)
  <2> SUFFICES ASSUME NEW a \in Areas
               PROVE  IF v.frames[a] = <<>> THEN v.asel[a] = nil
                      ELSE v.asel[a] \in ToSet(v.frames[a])
    BY DEF AselOK
  <2>1. v.frames[a] \in Seq(Clients)
    BY <1>2, ViewTypes
  <2>2. v.asel[a] \in ToSet(v.frames[a]) \cup {nil}
    BY <1>1 DEF Sound
  <2>3. v.frames[a] # <<>> => v.asel[a] # nil
    BY <1>1 DEF Chosen
  <2>4. v.frames[a] = <<>> => ToSet(v.frames[a]) = {}
    BY <2>1, EmptyToSet
  <2> QED
    BY <2>2, <2>3, <2>4
<1> QED
  BY <1>1, <1>2, <1>3 DEF Consistent

LEMMA ConsistentGood ==
  ASSUME NEW v, Consistent(v), v.alive, v.fault = "none"
  PROVE  Good(v)
<1>1. v \in ViewRecord /\ ListsOK(v) /\ AreasOK(v) /\ FullOK(v) /\ AselOK(v)
  BY DEF Consistent
<1>2. \A a \in Areas : v.asel[a] \in ToSet(v.frames[a]) \cup {nil}
  BY <1>1 DEF AselOK
<1>3. Chosen(v)
  <2> SUFFICES ASSUME NEW a \in Areas, v.frames[a] # <<>>
               PROVE  v.asel[a] # nil
    BY DEF Chosen
  <2>1. v.asel[a] \in ToSet(v.frames[a])
    BY <1>1 DEF AselOK
  <2>2. v.frames[a] \in Seq(Clients)
    BY <1>1, ViewTypes
  <2>3. v.asel[a] \in Clients
    BY <2>1, <2>2, ToSetSubset
  <2> QED
    BY <2>3, AreaAssumption
<1> QED
  BY <1>1, <1>2, <1>3 DEF Good, Sound

\* A view whose lists, areas and pointers agree with a sound one's is sound.
LEMMA SoundLike ==
  ASSUME NEW v, Sound(v), NEW w \in ViewRecord, w.fault = "none",
         w.cols = v.cols, w.frames = v.frames, w.asel = v.asel,
         w.sel = v.sel, \A c \in Clients : w.f[c].area = v.f[c].area,
         {w.oldsel, w.revert} \subseteq LiveAreas(v) \cup {nil}
  PROVE  Sound(w) /\ LiveAreas(w) = LiveAreas(v) /\ (Chosen(v) => Chosen(w))
<1>1. LiveAreas(w) = LiveAreas(v)
  BY DEF LiveAreas
<1>2. ListsOK(w)
  BY <1>1 DEF Sound, ListsOK
<1>3. AreasOK(w)
  BY <1>1 DEF Sound, AreasOK
<1> QED
  BY <1>1, <1>2, <1>3 DEF Sound, Chosen

-----------------------------------------------------------------------------
(* Creating and destroying the view.                                       *)

LEMMA DestroyedConsistent ==
  ASSUME NEW v \in ViewRecord, v.fault = "none", Empty(v)
  PROVE  Consistent(Destroyed(v))
<1> DEFINE w == Destroyed(v)
<1>1. /\ w.cols = <<>> /\ w.frames = [a \in Areas |-> <<>>]
      /\ w.asel = [a \in Areas |-> nil]
      /\ w.sel = nil /\ w.oldsel = nil /\ w.revert = nil /\ w.focus = nil
      /\ w.selected = FALSE /\ w.alive = FALSE /\ w.f = v.f
      /\ w.fault = v.fault
  BY DEF Destroyed, ViewRecord
<1>2. w \in ViewRecord
  <2>1. <<>> \in Seq(ColIds) /\ <<>> \in Seq(Clients)
    BY EmptySeq
  <2>2. /\ [a \in Areas |-> <<>>] \in [Areas -> Seq(Clients)]
        /\ [a \in Areas |-> nil] \in [Areas -> Clients \cup {nil}]
        /\ 0 \in Int
    BY <2>1
  <2>3. ASSUME NEW q \in Seq(ColIds), NEW fr \in [Areas -> Seq(Clients)],
               NEW as \in [Areas -> Clients \cup {nil}], NEW i \in Int
        PROVE  [v EXCEPT !.cols = q, !.frames = fr, !.asel = as, !.sel = nil,
                         !.oldsel = nil, !.revert = nil, !.selcol = i,
                         !.selected = FALSE, !.focus = nil, !.alive = FALSE]
                 \in ViewRecord
    <3> HIDE DEF w
    <3> QED
      BY DEF ViewRecord
  <2> QED
    BY <2>1, <2>2, <2>3, Zenon DEF Destroyed
<1> HIDE DEF w
<1>3. ToSet(<<>>) = {} /\ IsInjective(<<>>)
  BY DEF ToSet, IsInjective
<1>4. \A c \in Clients : w.f[c].area = nil
  BY <1>1 DEF Empty, InView
<1>5. ListsOK(w)
  BY <1>1, <1>3, <1>4, AreaAssumption DEF ListsOK, Areas
<1>6. AselOK(w) /\ Dead(w)
  BY <1>1 DEF AselOK, Dead
<1> QED
  BY <1>1, <1>2, <1>5, <1>6 DEF Consistent, w

\* view_create makes a good view.
LEMMA CreatedGood ==
  ASSUME NEW v, Consistent(v), ~v.alive, v.fault = "none"
  PROVE  /\ Good(Created(v))
         /\ Created(v).alive /\ ~Created(v).selected
         /\ Created(v).full = v.full /\ Created(v).floating = v.floating
         /\ \A c \in Clients : ~InView(v, c) /\ ~InView(Created(v), c)
<1> DEFINE w == Created(v)
<1>1. v \in ViewRecord /\ ListsOK(v) /\ Dead(v)
  BY DEF Consistent
<1>2. FirstCol \in ColIds
  BY AreaAssumption DEF FirstCol
<1>3. /\ w.cols = <<FirstCol>> /\ w.sel = FirstCol /\ w.alive = TRUE
      /\ w.frames = v.frames /\ w.asel = v.asel /\ w.f = v.f
      /\ w.oldsel = nil /\ w.revert = nil /\ w.selected = FALSE
      /\ w.fault = v.fault /\ w.full = v.full /\ w.floating = v.floating
  BY <1>1 DEF Created, ViewRecord, Dead
<1>4. w \in ViewRecord
  <2>1. <<FirstCol>> \in Seq(ColIds) /\ FirstCol \in Areas /\ 1 \in Int
    BY <1>2 DEF Areas
  <2>2. ASSUME NEW q \in Seq(ColIds), NEW a \in Areas, NEW i \in Int
        PROVE  [v EXCEPT !.cols = q, !.sel = a, !.selcol = i, !.alive = TRUE]
                 \in ViewRecord
    <3> HIDE DEF w
    <3> QED
      BY <1>1 DEF ViewRecord
  <2> QED
    BY <2>1, <2>2, Zenon DEF Created
<1> HIDE DEF w
<1>5. \A c \in Clients : v.f[c].area = nil
  <2> SUFFICES ASSUME NEW c \in Clients, v.f[c].area # nil
               PROVE  FALSE
    OBVIOUS
  <2>1. v.f[c].area \in Areas
    BY <1>1, ViewTypes DEF FrameFields
  <2>2. c \in ToSet(v.frames[v.f[c].area]) /\ v.frames[v.f[c].area] = <<>>
    BY <1>1, <2>1 DEF ListsOK, Dead
  <2> QED
    BY <2>2 DEF ToSet
<1>6. ToSet(<<>>) = {} /\ IsInjective(<<>>)
  BY DEF ToSet, IsInjective
<1>7. \A a \in Areas : w.frames[a] = <<>> /\ w.asel[a] = nil
  BY <1>1, <1>3 DEF Dead
<1>8. ListsOK(w)
  BY <1>3, <1>5, <1>6, <1>7, AreaAssumption DEF ListsOK, Areas
<1>9. AreasOK(w)
  <2>1. w.cols # <<>> /\ IsInjective(w.cols) /\ FirstCol \in ToSet(w.cols)
    BY <1>3 DEF IsInjective, ToSet
  <2> QED
    BY <1>3, <2>1 DEF AreasOK, LiveAreas
<1>10. FullOK(w)
  <2>1. ~FullscreenP(w)
    BY <1>6, <1>7 DEF FullscreenP, Areas
  <2>2. Pending(w) = {}
    BY <1>1, <1>3, <1>5, AreaAssumption, ViewTypes DEF Pending
  <2> QED
    BY <2>1, <2>2 DEF FullOK
<1>11. Good(w)
  BY <1>3, <1>4, <1>7, <1>8, <1>9, <1>10 DEF Good, Sound, Chosen
<1> QED
  BY <1>3, <1>5, <1>11 DEF w, InView

LEMMA DestroyedFollows ==
  ASSUME NEW v \in ViewRecord
  PROVE  Follows(Destroyed(v))
BY DEF Destroyed, Follows, ViewRecord

\* view_update_all and view_detach destroy only an empty view.
LEMMA ViewUpdateAllConsistent ==
  ASSUME NEW v, Good(v), v.alive
  PROVE  Consistent(ViewUpdateAll(v)) /\ Follows(ViewUpdateAll(v))
<1>1. Sound(v) /\ FullFloat(v) /\ Pending(v) = {} /\ Chosen(v)
  BY DEF Good, FullOK, FullFloat
<1>2. CASE v.selected
  <2>1. Good(ViewUpdate(v)) /\ Moved(v, ViewUpdate(v)) /\ Follows(ViewUpdate(v))
    BY <1>1, ViewUpdateGood
  <2> QED
    BY <1>2, <2>1, GoodConsistent DEF ViewUpdateAll, Moved, Keep
<1>3. CASE ~v.selected /\ Empty(v)
  BY <1>1, <1>3, DestroyedConsistent, DestroyedFollows DEF ViewUpdateAll, Sound
<1>4. CASE ~v.selected /\ ~Empty(v)
  BY <1>4, GoodConsistent DEF ViewUpdateAll, Follows
<1> QED
  BY <1>2, <1>3, <1>4

\* The program has stopped.
LEMMA StoppedConsistent ==
  ASSUME NEW v \in ViewRecord, NEW x \in {"assert", "nil"}
  PROVE  Consistent([v EXCEPT !.fault = x])
<1> DEFINE w == [v EXCEPT !.fault = x]
<1>1. x \in Faults
  BY DEF Faults
<1>2. w \in ViewRecord /\ w.fault = x
  BY <1>1 DEF ViewRecord
<1> HIDE DEF w
<1> QED
  BY <1>2 DEF Consistent, w

-----------------------------------------------------------------------------
(* A client comes and goes.                                                *)

\* The area view_attach chooses.  A fullscreen client is put in a column only
\* if it never floats, and a floating one only if nothing is fullscreen.
LEMMA AttachAreaProps ==
  ASSUME NEW v, Good(v), NEW c \in Clients, NEW tiled
  PROVE  LET a == AttachArea(v, c, tiled)
         IN  /\ a # nil => a \in LiveAreas(v)
             /\ a \in ColIds /\ c \in v.full => v.floating[c] = "never"
<1> DEFINE a == AttachArea(v, c, tiled)
<1>1. v \in ViewRecord /\ AreasOK(v)
  BY DEF Good, Sound
<1>2. v.selcol \in Int /\ 0 \in Int
  BY <1>1, ViewTypes
<1>3. \A idx \in Int : FindArea(v, idx) \in ToSet(v.cols) \cup {nil}
  BY <1>1, FindAreaProps DEF AreasOK
<1>4. /\ FindArea(v, v.selcol) \in LiveAreas(v) \cup {nil}
      /\ FindArea(v, 0) \in LiveAreas(v) \cup {nil}
      /\ v.sel \in LiveAreas(v) /\ v.oldsel \in LiveAreas(v) \cup {nil}
      /\ Float \in LiveAreas(v)
  BY <1>1, <1>2, <1>3 DEF LiveAreas, AreasOK
<1>5. a \in LiveAreas(v) \cup {nil}
  BY <1>4, Zenon DEF AttachArea
<1>6. c \in v.full /\ v.floating[c] # "never" => a = Float
  BY AreaAssumption DEF AttachArea, FloatsP
<1> QED
  BY <1>5, <1>6, AreaAssumption

\* The frame is attached and, unless it is a splash window, focused.
LEMMA AttachFocusProps ==
  ASSUME NEW v, Good(v), NEW c \in Clients, ~InView(v, c),
         NEW a \in LiveAreas(v),
         a \in ColIds /\ c \in v.full => v.floating[c] = "never",
         v.selected \/ c \notin v.full
           \/ (v.floating[c] # "never" /\ c \notin Splash)
  PROVE  LET x == AreaAttach(v, a, c)
             y == IF c \in Splash THEN x ELSE FrameFocus(x, c)
         IN  /\ Sound(y) /\ Chosen(y)
             /\ Keep(v, y) /\ y.cols = v.cols
             /\ Pending(y) \subseteq {c}
             /\ Pending(y) # {} => y.selected /\ FullFloat(y)
             /\ y.selected \/ FullFloat(y)
             /\ \A d \in Clients : InView(y, d) <=> InView(v, d) \/ d = c
<1> DEFINE x == AreaAttach(v, a, c)
           y == IF c \in Splash THEN x ELSE FrameFocus(x, c)
<1>1. Sound(v) /\ FullFloat(v) /\ Pending(v) = {} /\ Chosen(v) /\ v.full \subseteq Clients
  BY ViewTypes DEF Good, FullOK, FullFloat, Sound
<1>2. a \in Areas /\ (a # Float => a \in ColIds) /\ nil \notin Areas
  BY <1>1, ViewTypes DEF Sound, Areas
<1>3. /\ Sound(x) /\ Came(v, x, c, a) /\ Chosen(x)
      /\ c \notin v.full \/ a # Float => FullFloat(x)
  BY <1>1, AreaAttachProps
<1> HIDE DEF x
<1>4. Keep(v, x) /\ x.cols = v.cols /\ x.f[c].area = a /\ InView(x, c)
      /\ x.full = v.full /\ x.selected = v.selected
  BY <1>2, <1>3 DEF Came, Keep, InView
<1>5. Pending(x) \subseteq {c} /\ (Pending(x) # {} => c \in v.full /\ a \in ColIds)
  BY <1>1, <1>3, CameFullscreenP
<1>6. Pending(x) # {} => v.selected
  BY <1>5
<1>7. \A d \in Clients : InView(x, d) <=> InView(v, d) \/ d = c
  BY <1>2, <1>3, <1>4 DEF Came, InView
<1>8. CASE c \in Splash
  <2>1. y = x
    BY <1>8
  <2>2. x.selected \/ FullFloat(x)
    BY <1>3, <1>4, <1>8
  <2>3. Pending(x) # {} => x.selected /\ FullFloat(x)
    BY <1>2, <1>3, <1>4, <1>5, <1>6, AreaAssumption
  <2> QED
    BY <1>3, <1>4, <1>5, <1>7, <2>1, <2>2, <2>3 DEF x
<1>9. CASE c \notin Splash /\ a = Float
  <2>1. y = FrameFocus(x, c)
    BY <1>9
  <2>2. Pending(x) = {}
    BY <1>2, <1>5, <1>9, AreaAssumption
  <2>3. /\ Sound(y) /\ SameAreas(x, y) /\ y.sel = Float
        /\ y.asel = [x.asel EXCEPT ![x.f[c].area] = c]
    BY <1>3, <1>4, <1>9, <2>1, <2>2, FrameFocusProps
  <2> HIDE DEF y
  <2>4. Chosen(y)
    BY <1>2, <1>3, <1>4, <2>3, ChosenExcept DEF SameAreas
  <2>5. Pending(y) = {} /\ \A d \in Clients : InView(y, d) = InView(x, d)
    BY <1>1, <1>4, <2>2, <2>3, SameAreasKeeps
  <2>6. Keep(v, y) /\ y.cols = v.cols
    BY <1>4, <2>3 DEF SameAreas, Keep
  <2> QED
    BY <1>7, <2>3, <2>4, <2>5, <2>6 DEF FullFloat, x, y
<1>10. CASE c \notin Splash /\ a # Float
  <2>1. y = FrameFocusCore(x, c)
    BY <1>4, <1>10 DEF FrameFocus
  <2>2. FullFloat(x)
    BY <1>3, <1>10
  <2>3. /\ Sound(y) /\ SameFrames(x, y) /\ FullFloat(y)
        /\ y.asel = [x.asel EXCEPT ![x.f[c].area] = c]
    BY <1>3, <1>4, <2>1, <2>2, FrameFocusCoreProps
  <2> HIDE DEF y
  <2>4. Chosen(y)
    BY <1>2, <1>3, <1>4, <2>3, ChosenExcept DEF SameFrames
  <2>5. Pending(y) = Pending(x) /\ \A d \in Clients : InView(y, d) = InView(x, d)
    BY <2>3, SameFramesKeeps
  <2>6. Keep(v, y) /\ y.cols = v.cols
    BY <1>4, <2>3 DEF SameFrames, Keep
  <2>7. Pending(y) # {} => y.selected
    BY <1>6, <2>5, <2>6 DEF Keep
  <2> QED
    BY <1>5, <1>7, <2>3, <2>4, <2>5, <2>6, <2>7 DEF x, y
<1> QED
  BY <1>8, <1>9, <1>10

\* view_attach
LEMMA ViewAttachConsistent ==
  ASSUME NEW v, Good(v), v.alive, NEW c \in Clients, ~InView(v, c),
         NEW tiled,
         v.selected \/ c \notin v.full
           \/ (v.floating[c] # "never" /\ c \notin Splash)
  PROVE  LET w == ViewAttach(v, c, tiled)
         IN  Consistent(w) /\ (w.fault = "none" => Follows(w))
<1> DEFINE a == AttachArea(v, c, tiled)
           old == IF FloatsP(v, c) /\ v.sel # Float /\ c \notin v.full
                  THEN v.sel ELSE v.oldsel
           x == AreaAttach(v, a, c)
           y == IF c \in Splash THEN x ELSE FrameFocus(x, c)
           z == IF old = nil THEN y ELSE [y EXCEPT !.oldsel = old]
<1>1. ViewAttach(v, c, tiled)
        = IF a = nil THEN [v EXCEPT !.fault = "nil"] ELSE ViewUpdate(z)
  BY DEF ViewAttach, FocusNew, NoteOldsel
<1>2. /\ a # nil => a \in LiveAreas(v)
      /\ a \in ColIds /\ c \in v.full => v.floating[c] = "never"
  BY AttachAreaProps
<1>3. v \in ViewRecord /\ AreasOK(v)
  BY DEF Good, Sound
<1>4. old \in LiveAreas(v) \cup {nil}
  BY <1>3 DEF AreasOK
<1> HIDE DEF a, old
<1>5. CASE a = nil
  <2>1. [v EXCEPT !.fault = "nil"].fault = "nil"
    BY <1>3 DEF ViewRecord
  <2> QED
    BY <1>1, <1>3, <1>5, <2>1, StoppedConsistent
<1>6. CASE a # nil
  <2>1. /\ Sound(y) /\ Chosen(y)
        /\ Keep(v, y) /\ y.cols = v.cols
        /\ Pending(y) \subseteq {c}
        /\ Pending(y) # {} => y.selected /\ FullFloat(y)
        /\ y.selected \/ FullFloat(y)
    BY <1>2, <1>6, AttachFocusProps
  <2> HIDE DEF y
  <2>2. y \in ViewRecord /\ y.fault = "none" /\ AreasOK(y) /\ LiveAreas(y) = LiveAreas(v)
    BY <2>1 DEF Sound, LiveAreas
  <2>3. z \in ViewRecord /\ z.fault = "none" /\ z.cols = y.cols
        /\ z.frames = y.frames /\ z.asel = y.asel /\ z.sel = y.sel
        /\ z.f = y.f /\ z.revert = y.revert /\ Keep(y, z)
        /\ z.oldsel \in {y.oldsel, old}
    <3>1. CASE old = nil
      BY <2>2, <3>1 DEF Keep
    <3>2. CASE old # nil
      <4>1. old \in Areas
        BY <1>3, <1>4, <3>2, ViewTypes
      <4>2. z = [y EXCEPT !.oldsel = old]
        BY <3>2
      <4> HIDE DEF z
      <4> QED
        BY <2>2, <4>1, <4>2 DEF ViewRecord, Keep
    <3> QED
      BY <3>1, <3>2
  <2> HIDE DEF z
  <2>4. {z.oldsel, z.revert} \subseteq LiveAreas(y) \cup {nil}
    BY <1>4, <2>2, <2>3 DEF AreasOK
  <2>5. Sound(z) /\ Chosen(z)
    BY <2>1, <2>3, <2>4, SoundLike
  <2>6. /\ FullscreenP(z) = FullscreenP(y) /\ Pending(z) = Pending(y)
        /\ z.selected = v.selected /\ z.alive = v.alive /\ y.selected = v.selected
    BY <2>1, <2>3 DEF FullscreenP, Pending, Keep
  <2>7. /\ Pending(z) \subseteq {c}
        /\ Pending(z) # {} => z.selected /\ FullFloat(z)
        /\ z.selected \/ FullFloat(z)
    BY <2>1, <2>3, <2>6 DEF FullFloat
  <2>8. Good(ViewUpdate(z)) /\ Moved(z, ViewUpdate(z)) /\ Follows(ViewUpdate(z))
    BY <2>5, <2>7, ViewUpdateGood
  <2> QED
    BY <1>1, <1>6, <2>6, <2>8, GoodConsistent DEF Moved, Keep
<1> QED
  BY <1>5, <1>6

-----------------------------------------------------------------------------
(* Steps that move no frame.                                               *)

\* A good view stays good when only its other fields change, as long as no
\* client that has a frame becomes fullscreen.
LEMMA GoodLike ==
  ASSUME NEW v, Good(v), NEW w \in ViewRecord, w.fault = "none",
         w.cols = v.cols, w.frames = v.frames, w.asel = v.asel,
         w.sel = v.sel, w.oldsel = v.oldsel, w.revert = v.revert,
         \A c \in Clients : w.f[c].area = v.f[c].area,
         \A c \in w.full : c \in v.full \/ ~InView(v, c)
  PROVE  Good(w)
<1>1. Sound(v) /\ AreasOK(v) /\ v \in ViewRecord /\ Chosen(v) /\ FullOK(v)
  BY DEF Good, Sound
<1>2. {w.oldsel, w.revert} \subseteq LiveAreas(v) \cup {nil}
  BY <1>1 DEF AreasOK
<1>3. Sound(w) /\ Chosen(w)
  BY <1>1, <1>2, SoundLike
<1>4. w.full \subseteq Clients /\ nil \notin ColIds /\ Float # nil
  BY ViewTypes, AreaAssumption
<1>5. Pending(w) = {}
  BY <1>1, <1>4 DEF FullOK, Pending, InView
<1>6. FullscreenP(w) => FullscreenP(v)
  BY <1>1, <1>3, <1>4, FullscreenPArea DEF InView
<1> QED
  BY <1>1, <1>3, <1>5, <1>6 DEF Good, FullOK

LEMMA ConsistentLike ==
  ASSUME NEW v, Consistent(v), v.fault = "none",
         NEW w \in ViewRecord, w.fault = "none", w.alive = v.alive,
         w.cols = v.cols, w.frames = v.frames, w.asel = v.asel,
         w.sel = v.sel, w.oldsel = v.oldsel, w.revert = v.revert,
         w.selected = v.selected, w.focus = v.focus,
         \A c \in Clients : w.f[c].area = v.f[c].area,
         \A c \in w.full : c \in v.full \/ ~InView(v, c)
  PROVE  Consistent(w)
<1>1. CASE v.alive
  <2>1. Good(w)
    BY <1>1, ConsistentGood, GoodLike
  <2> QED
    BY <1>1, <2>1, GoodConsistent
<1>2. CASE ~v.alive
  <2>1. ListsOK(v) /\ AselOK(v) /\ Dead(v)
    BY <1>2 DEF Consistent
  <2>2. ListsOK(w)
    BY <2>1 DEF ListsOK, LiveAreas
  <2>3. AselOK(w)
    BY <2>1 DEF AselOK
  <2>4. Dead(w)
    BY <2>1 DEF Dead
  <2> QED
    BY <1>2, <2>2, <2>3, <2>4 DEF Consistent
<1> QED
  BY <1>1, <1>2

\* view_detach
LEMMA ViewDetachConsistent ==
  ASSUME NEW v, Good(v), v.alive, NEW c \in Clients, InView(v, c)
  PROVE  Consistent(ViewDetach(v, c)) /\ Follows(ViewDetach(v, c))
<1> DEFINE x == AreaDetach(v, c)
           w == ViewUpdate(x)
           u == [w EXCEPT !.f[c] = NewFrame]
<1>1. Good(x) /\ Keep(v, x) /\ x.f[c].area = nil
  BY AreaDetachProps
<1> HIDE DEF x
<1>2. Good(w) /\ Moved(x, w) /\ Follows(w)
  <2>1. Sound(x) /\ Chosen(x) /\ Pending(x) = {} /\ FullFloat(x)
    BY <1>1 DEF Good, FullOK, FullFloat
  <2> QED
    BY <2>1, ViewUpdateGood
<1> HIDE DEF w
<1>3. w.alive /\ w.f[c].area = nil /\ w \in ViewRecord /\ w.fault = "none"
  <2>1. ~InView(x, c)
    BY <1>1 DEF InView
  <2> QED
    BY <1>1, <1>2, <2>1 DEF Moved, Keep, InView, Good, Sound
<1>4. NewFrame \in FrameFields /\ NewFrame.area = nil
  BY DEF NewFrame, FrameFields, NScreens
<1>5. u \in ViewRecord
  <2>1. [w.f EXCEPT ![c] = NewFrame] \in [Clients -> FrameFields]
    BY <1>3, <1>4, ViewTypes
  <2>2. \A g \in [Clients -> FrameFields] : [w EXCEPT !.f = g] \in ViewRecord
    BY <1>3 DEF ViewRecord
  <2>3. u = [w EXCEPT !.f = [w.f EXCEPT ![c] = NewFrame]]
    BY <1>3 DEF ViewRecord
  <2> HIDE DEF u
  <2> QED
    BY <2>1, <2>2, <2>3
<1>6. /\ u.cols = w.cols /\ u.frames = w.frames /\ u.asel = w.asel
      /\ u.sel = w.sel /\ u.oldsel = w.oldsel /\ u.revert = w.revert
      /\ u.full = w.full /\ u.fault = w.fault /\ u.alive = w.alive
      /\ u.f = [w.f EXCEPT ![c] = NewFrame]
      /\ u.selected = w.selected /\ u.focus = w.focus
  BY <1>3 DEF ViewRecord
<1> HIDE DEF u
<1>7. \A d \in Clients : u.f[d].area = w.f[d].area
  BY <1>3, <1>4, <1>6, ViewTypes
<1>8. Good(u) /\ u.alive
  <2>1. Good(w) /\ u.fault = "none" /\ u.alive
    BY <1>2, <1>3, <1>6
  <2>2. \A d \in u.full : d \in w.full \/ ~InView(w, d)
    BY <1>6
  <2>3. /\ u.cols = w.cols /\ u.frames = w.frames /\ u.asel = w.asel
        /\ u.sel = w.sel /\ u.oldsel = w.oldsel /\ u.revert = w.revert
    BY <1>6
  <2> QED
    BY <1>5, <1>7, <2>1, <2>2, <2>3, GoodLike
<1>9. ViewDetach(v, c) = IF ~u.selected /\ Empty(u) THEN Destroyed(u) ELSE u
  BY DEF ViewDetach, DestroyUnused, u, w, x
<1>10. u.fault = "none"
  BY <1>3, <1>6
<1>11. Follows(u)
  BY <1>2, <1>6 DEF Follows, SelClient
<1> QED
  BY <1>5, <1>8, <1>9, <1>10, <1>11, DestroyedConsistent, DestroyedFollows,
     GoodConsistent

-----------------------------------------------------------------------------
(* Two frames change places.                                               *)

\* A list in which two elements have changed places.
LEMMA SwapList ==
  ASSUME NEW S, NEW q \in Seq(S), IsInjective(q), NEW c \in S, NEW d \in S
  PROVE  LET r == [i \in DOMAIN q |-> Other(q[i], c, d)]
         IN  /\ r \in Seq(S)
             /\ IsInjective(r)
             /\ \A e \in S : e \in ToSet(r) <=> Other(e, c, d) \in ToSet(q)
             /\ r = <<>> <=> q = <<>>
<1> DEFINE r == [i \in DOMAIN q |-> Other(q[i], c, d)]
<1>1. Len(q) \in Nat /\ DOMAIN q = 1 .. Len(q) /\ \A i \in DOMAIN q : q[i] \in S
  BY LenProperties, ElementOfSeq
<1>2. \A e \in S : Other(e, c, d) \in S
  BY DEF Other
<1>3. r \in [1 .. Len(q) -> S]
  BY <1>1, <1>2
<1>4. r \in Seq(S) /\ Len(r) = Len(q)
  BY <1>1, <1>3, SeqDef, LenProperties
<1>5. IsInjective(r)
  BY <1>1 DEF IsInjective, Other
<1>6. \A e \in S : e \in ToSet(r) <=> Other(e, c, d) \in ToSet(q)
  BY <1>1 DEF ToSet, Other
<1>7. r = <<>> <=> q = <<>>
  BY <1>4, EmptySeq
<1> QED
  BY <1>4, <1>5, <1>6, <1>7

\* The two frames may be anywhere: in a view that is on screen, or with
\* clients that are not fullscreen, or in one area.
LEMMA FrameSwapGood ==
  ASSUME NEW v, Good(v), NEW c \in Clients, NEW d \in Clients,
         InView(v, c), InView(v, d),
         v.selected \/ (c \notin v.full /\ d \notin v.full)
           \/ v.f[c].area = v.f[d].area
  PROVE  Good(FrameSwap(v, c, d)) /\ Moved(v, FrameSwap(v, c, d))
<1> DEFINE w == Swapped(v, c, d)
<1>1. /\ Sound(v) /\ FullFloat(v) /\ Pending(v) = {} /\ Chosen(v)
      /\ v \in ViewRecord /\ ListsOK(v) /\ AreasOK(v)
  BY DEF Good, FullOK, FullFloat, Sound
<1>2. /\ v.frames \in [Areas -> Seq(Clients)]
      /\ v.asel \in [Areas -> Clients \cup {nil}]
      /\ v.f \in [Clients -> FrameFields]
      /\ v.full \subseteq Clients
  BY <1>1, ViewTypes
<1>3. /\ \A e \in Clients : Other(e, c, d) \in Clients
      /\ \A e \in Clients \cup {nil} : Other(e, c, d) \in Clients \cup {nil}
      /\ Other(nil, c, d) = nil /\ Other(c, c, d) = d /\ Other(d, c, d) = c
      /\ \A e : Other(Other(e, c, d), c, d) = e
      /\ \A e : e \notin {c, d} => Other(e, c, d) = e
  BY AreaAssumption DEF Other
<1> DEFINE fr == [a \in Areas |-> [i \in DOMAIN v.frames[a] |-> Other(v.frames[a][i], c, d)]]
           as == [a \in Areas |-> Other(v.asel[a], c, d)]
           g == [e \in Clients |-> v.f[Other(e, c, d)]]
<1>4. w = [v EXCEPT !.frames = fr, !.asel = as, !.f = g]
  BY DEF Swapped
<1>5. \A a \in Areas :
        /\ fr[a] \in Seq(Clients)
        /\ IsInjective(fr[a])
        /\ \A e \in Clients : e \in ToSet(fr[a]) <=> Other(e, c, d) \in ToSet(v.frames[a])
        /\ fr[a] = <<>> <=> v.frames[a] = <<>>
  <2> SUFFICES ASSUME NEW a \in Areas
               PROVE  /\ fr[a] \in Seq(Clients)
                      /\ IsInjective(fr[a])
                      /\ \A e \in Clients :
                           e \in ToSet(fr[a]) <=> Other(e, c, d) \in ToSet(v.frames[a])
                      /\ fr[a] = <<>> <=> v.frames[a] = <<>>
    OBVIOUS
  <2>1. v.frames[a] \in Seq(Clients) /\ IsInjective(v.frames[a])
    BY <1>1, <1>2 DEF ListsOK
  <2>2. fr[a] = [i \in DOMAIN v.frames[a] |-> Other(v.frames[a][i], c, d)]
    OBVIOUS
  <2> HIDE DEF fr
  <2> QED
    BY <2>1, <2>2, SwapList
<1>6. fr \in [Areas -> Seq(Clients)] /\ as \in [Areas -> Clients \cup {nil}]
      /\ g \in [Clients -> FrameFields]
      /\ \A a \in Areas : as[a] = Other(v.asel[a], c, d)
  BY <1>2, <1>3, <1>5
<1>b. \A e \in Clients : g[e].area = v.f[Other(e, c, d)].area
  OBVIOUS
<1> HIDE DEF fr, as, g, w
<1>7. w \in ViewRecord
  BY <1>1, <1>4, <1>6 DEF ViewRecord
<1>8. /\ w.cols = v.cols /\ w.frames = fr /\ w.asel = as /\ w.f = g
      /\ w.sel = v.sel /\ w.oldsel = v.oldsel /\ w.revert = v.revert
      /\ w.fault = v.fault /\ w.full = v.full
      /\ w.selected = v.selected /\ w.alive = v.alive
  BY <1>1, <1>4 DEF ViewRecord
<1>a. /\ w.f[c].area = v.f[d].area /\ w.f[d].area = v.f[c].area
      /\ \A e \in Clients \ {c, d} : w.f[e].area = v.f[e].area
  <2>1. \A e \in Clients \ {c, d} : Other(e, c, d) = e
    BY <1>3
  <2>2. \A e \in Clients : g[e].area = v.f[Other(e, c, d)].area
    BY <1>b
  <2>3. Other(c, c, d) = d /\ Other(d, c, d) = c
    BY <1>3
  <2>4. \A e \in Clients \ {c, d} : g[e].area = v.f[e].area
    BY <2>1, <2>2
  <2>5. g[c].area = v.f[d].area /\ g[d].area = v.f[c].area
    BY <2>2, <2>3
  <2>6. w.f = g
    BY <1>8
  <2> QED
    BY <2>4, <2>5, <2>6
<1>9. LiveAreas(w) = LiveAreas(v)
  BY <1>8 DEF LiveAreas
<1>10. ListsOK(w)
  <2> SUFFICES ASSUME NEW a \in Areas
               PROVE  /\ IsInjective(fr[a])
                      /\ ToSet(fr[a]) = {e \in Clients : g[e].area = a}
                      /\ fr[a] # <<>> => a \in LiveAreas(v)
    BY <1>8, <1>9 DEF ListsOK
  <2>1. ToSet(v.frames[a]) = {e \in Clients : v.f[e].area = a}
    BY <1>1 DEF ListsOK
  <2>2. ToSet(fr[a]) \subseteq Clients
    BY <1>5, ToSetSubset
  <2>3. \A e \in Clients : e \in ToSet(fr[a]) <=> g[e].area = a
    BY <1>3, <1>5, <1>b, <2>1
  <2>4. fr[a] # <<>> => a \in LiveAreas(v)
    BY <1>1, <1>5 DEF ListsOK
  <2> QED
    BY <1>5, <2>2, <2>3, <2>4
<1>11. AreasOK(w)
  BY <1>1, <1>8, <1>9 DEF AreasOK
<1>12. \A a \in Areas : w.asel[a] \in ToSet(w.frames[a]) \cup {nil}
  <2> SUFFICES ASSUME NEW a \in Areas
               PROVE  as[a] \in ToSet(fr[a]) \cup {nil}
    BY <1>8
  <2>1. v.asel[a] \in ToSet(v.frames[a]) \cup {nil} /\ v.asel[a] \in Clients \cup {nil}
    BY <1>1, <1>2 DEF Sound
  <2>2. CASE v.asel[a] = nil
    BY <1>3, <1>6, <2>2
  <2>3. CASE v.asel[a] # nil
    <3>1. as[a] \in Clients /\ Other(as[a], c, d) = v.asel[a]
      BY <1>3, <1>6, <2>1, <2>3
    <3> QED
      BY <1>5, <2>1, <2>3, <3>1
  <2> QED
    BY <2>2, <2>3
<1>13. Chosen(w)
  <2> SUFFICES ASSUME NEW a \in Areas, fr[a] # <<>>
               PROVE  as[a] # nil
    BY <1>8 DEF Chosen
  <2>1. v.asel[a] # nil
    BY <1>1, <1>5 DEF Chosen
  <2> QED
    BY <1>3, <1>6, <2>1
<1>14. Sound(w)
  BY <1>1, <1>7, <1>8, <1>10, <1>11, <1>12 DEF Sound
<1>15. \A e \in v.full : w.f[e].area # nil => v.f[e].area = Float
  <2> SUFFICES ASSUME NEW e \in v.full, w.f[e].area # nil
               PROVE  v.f[e].area = Float
    OBVIOUS
  <2>1. e \in Clients /\ v.f[e].area # nil
    BY <1>2, <1>a DEF InView
  <2>2. v.f[e].area \in Areas
    BY <1>1, <2>1, InViewProps, ViewTypes DEF InView
  <2> QED
    BY <1>1, <2>2 DEF Pending, Areas
<1>16. FullFloat(w)
  <2>1. FullscreenP(w) => FullscreenP(v)
    BY <1>1, <1>8, <1>14, <1>15, FullscreenPArea, AreaAssumption
  <2> QED
    BY <1>1, <1>8, <2>1 DEF FullFloat
<1>17. Pending(w) \subseteq {c} \/ Pending(w) \subseteq {d}
  <2>1. \A e \in Pending(w) : e \in {c, d}
    BY <1>1, <1>2, <1>8, <1>a DEF Pending
  <2>2. c \in Pending(w) => v.f[c].area = Float /\ v.f[d].area \in ColIds
    BY <1>8, <1>15, <1>a, AreaAssumption DEF Pending
  <2>3. d \in Pending(w) => v.f[d].area = Float
    BY <1>8, <1>15, AreaAssumption DEF Pending
  <2> QED
    BY <2>1, <2>2, <2>3, AreaAssumption
<1>18. Pending(w) # {} => v.selected
  <2>1. ASSUME v.f[c].area = v.f[d].area
        PROVE  Pending(w) = {}
    <3>1. \A e \in Clients : w.f[e].area = v.f[e].area
      BY <1>a, <2>1
    <3> QED
      BY <1>1, <1>2, <1>8, <3>1 DEF Pending
  <2>2. ASSUME c \notin v.full, d \notin v.full
        PROVE  Pending(w) = {}
    BY <1>1, <1>2, <1>8, <1>a, <2>2 DEF Pending
  <2> QED
    BY <2>1, <2>2
<1>19. Good(ViewUpdate(w)) /\ Moved(w, ViewUpdate(w))
  <2>1. Pending(w) # {} => w.selected /\ FullFloat(w)
    BY <1>8, <1>16, <1>18
  <2> QED
    BY <1>13, <1>14, <1>16, <1>17, <2>1, ViewUpdateGood
<1>20. Moved(v, w)
  <2>1. \A e \in Clients : InView(w, e) <=> InView(v, e)
    BY <1>a DEF InView
  <2> QED
    BY <1>8, <2>1 DEF Moved, Keep
<1> QED
  BY <1>19, <1>20, MovedTrans DEF FrameSwap, w

-----------------------------------------------------------------------------
(* A new column, and the messages that move a frame.                       *)

LEMMA AreaCreateGood ==
  ASSUME NEW v, Good(v), NEW pos \in ToSet(v.cols) \cup {nil}
  PROVE  LET w == AreaCreate(v, pos)
         IN  /\ Good(w) /\ Moved(v, w)
             /\ LiveAreas(w) = LiveAreas(v) \cup ({NewCol(v)} \ {nil})
             /\ w.frames = v.frames /\ w.asel = v.asel /\ w.f = v.f
<1> DEFINE new == NewCol(v)
           w == AreaCreate(v, pos)
<1>1. /\ Sound(v) /\ FullFloat(v) /\ Pending(v) = {} /\ Chosen(v)
      /\ v \in ViewRecord /\ ListsOK(v) /\ AreasOK(v) /\ FullOK(v)
  BY DEF Good, FullOK, FullFloat, Sound
<1>2. CASE FreeCols(v) = {}
  BY <1>2 DEF AreaCreate, NewCol, Moved, Keep
<1>3. CASE FreeCols(v) # {}
  <2>1. new \in ColIds \ ToSet(v.cols)
    BY <1>3 DEF NewCol, FreeCols
  <2>2. new \in Areas /\ new # Float /\ new # nil
    BY <2>1, AreaAssumption DEF Areas
  <2>3. v.frames[new] = <<>>
    BY <1>1, <2>1, <2>2 DEF ListsOK, LiveAreas
  <2>4. v.asel[new] = nil
    <3>1. v.asel[new] \in ToSet(v.frames[new]) \cup {nil}
      BY <1>1, <2>2 DEF Sound
    <3> QED
      BY <2>3, <3>1 DEF ToSet
  <2>5. w = [v EXCEPT !.cols = FrameInsert(@, pos, new),
                      !.frames[new] = <<>>, !.asel[new] = nil]
    BY <1>3 DEF AreaCreate
  <2> DEFINE cs == FrameInsert(v.cols, pos, new)
  <2>6. /\ cs \in Seq(ColIds) /\ IsInjective(cs)
        /\ ToSet(cs) = ToSet(v.cols) \cup {new}
    <3>1. v.cols \in Seq(ColIds) /\ IsInjective(v.cols)
      BY <1>1, ViewTypes DEF AreasOK
    <3> HIDE DEF new
    <3> QED
      BY <2>1, <3>1, FrameInsertProps
  <2> HIDE DEF cs, new, w
  <2>7. w = [v EXCEPT !.cols = cs]
    <3>1. v.frames = [v.frames EXCEPT ![new] = <<>>]
          /\ v.asel = [v.asel EXCEPT ![new] = nil]
      BY <1>1, <2>2, <2>3, <2>4, ViewTypes
    <3>2. v = [v EXCEPT !.frames = v.frames, !.asel = v.asel]
      BY <1>1 DEF ViewRecord
    <3>3. w = [v EXCEPT !.cols = cs, !.frames = [v.frames EXCEPT ![new] = <<>>],
                        !.asel = [v.asel EXCEPT ![new] = nil]]
      BY <1>1, <2>5 DEF ViewRecord, cs
    <3>4. w = [v EXCEPT !.cols = cs, !.frames = v.frames, !.asel = v.asel]
      BY <3>1, <3>3
    <3> QED
      BY <1>1, <3>4 DEF ViewRecord
  <2>8. w \in ViewRecord
    BY <1>1, <2>6, <2>7 DEF ViewRecord
  <2>9. /\ w.cols = cs /\ w.frames = v.frames /\ w.asel = v.asel /\ w.f = v.f
        /\ w.sel = v.sel /\ w.oldsel = v.oldsel /\ w.revert = v.revert
        /\ w.fault = v.fault /\ w.full = v.full
        /\ w.selected = v.selected /\ w.alive = v.alive
    BY <1>1, <2>7 DEF ViewRecord
  <2>10. LiveAreas(w) = LiveAreas(v) \cup {new}
    BY <2>6, <2>9 DEF LiveAreas
  <2>11. ListsOK(w)
    BY <1>1, <2>9, <2>10 DEF ListsOK
  <2>12. AreasOK(w)
    <3>1. cs # <<>>
      BY <2>6 DEF ToSet
    <3> QED
      BY <1>1, <2>6, <2>9, <2>10, <3>1 DEF AreasOK
  <2>13. Sound(w) /\ Chosen(w)
    BY <1>1, <2>8, <2>9, <2>11, <2>12 DEF Sound, Chosen
  <2>14. FullOK(w)
    BY <1>1, <2>9 DEF FullOK, Pending, FullscreenP
  <2>15. Moved(v, w)
    BY <2>9 DEF Moved, Keep, InView
  <2> QED
    BY <2>2, <2>9, <2>10, <2>13, <2>14, <2>15 DEF Good, w, new
<1> QED
  BY <1>2, <1>3

\* view_findarea with create, and the area it returns.
LEMMA FindAreaCreateGood ==
  ASSUME NEW v, Good(v), NEW idx \in Int
  PROVE  LET w == FindAreaCreate(v, idx)
         IN  /\ Good(w) /\ Moved(v, w)
             /\ FoundArea(v, idx) # nil => FoundArea(v, idx) \in LiveAreas(w)
             /\ w.asel = v.asel /\ w.f = v.f
<1>1. v \in ViewRecord /\ v.cols # <<>> /\ v.cols \in Seq(ColIds)
  BY ViewTypes DEF Good, Sound, AreasOK
<1>2. CASE idx > Len(v.cols)
  <2>1. LastOf(v.cols) \in ToSet(v.cols) \cup {nil}
    BY <1>1, NeighbourProps
  <2> DEFINE w == AreaCreate(v, LastOf(v.cols))
  <2>2. /\ Good(w) /\ Moved(v, w)
        /\ LiveAreas(w) = LiveAreas(v) \cup ({NewCol(v)} \ {nil})
        /\ w.asel = v.asel /\ w.f = v.f
    BY <2>1, AreaCreateGood
  <2>3. FindAreaCreate(v, idx) = w /\ FoundArea(v, idx) = NewCol(v)
    BY <1>2 DEF FindAreaCreate, FoundArea
  <2> HIDE DEF w
  <2> QED
    BY <2>2, <2>3
<1>3. CASE ~(idx > Len(v.cols))
  <2>1. FindAreaCreate(v, idx) = v /\ FoundArea(v, idx) = FindArea(v, idx)
    BY <1>3 DEF FindAreaCreate, FoundArea
  <2>2. FindArea(v, idx) \in ToSet(v.cols) \cup {nil}
    BY <1>1, FindAreaProps
  <2> QED
    BY <2>1, <2>2 DEF LiveAreas, Moved, Keep
<1> QED
  BY <1>2, <1>3

\* Focus c and update all views: the end of sendarea and msg_sendframe.
LEMMA FocusUpdateConsistent ==
  ASSUME NEW v, Good(v), v.alive, NEW c \in Clients, InView(v, c)
  PROVE  /\ Consistent(ViewUpdateAll(FrameFocus(v, c)))
         /\ Follows(ViewUpdateAll(FrameFocus(v, c)))
<1>1. Good(FrameFocus(v, c)) /\ FrameFocus(v, c).alive
  BY FrameFocusGood DEF Moved, Keep
<1> QED
  BY <1>1, ViewUpdateAllConsistent

LEMMA SendAreaConsistent ==
  ASSUME NEW v, Good(v), v.alive, NEW c \in Clients, InView(v, c),
         NEW to \in LiveAreas(v), NEW swap \in BOOLEAN, NEW junk \in BOOLEAN,
         swap => /\ v.asel[to] # nil
                 /\ v.selected \/ (c \notin v.full /\ v.asel[to] \notin v.full)
  PROVE  /\ Consistent(SendArea(v, c, to, swap, junk))
         /\ Follows(SendArea(v, c, to, swap, junk))
<1> DEFINE d == v.asel[to]
           w == IF swap THEN IF d = c THEN v ELSE FrameSwap(v, c, d)
                ELSE AreaMoveto(v, to, c, junk)
<1>1. Good(w) /\ Moved(v, w)
  <2>1. CASE swap
    <3>1. d \in Clients /\ InView(v, d)
      <4>1. v \in ViewRecord /\ ListsOK(v) /\ to \in Areas /\ nil \notin Areas
            /\ d \in ToSet(v.frames[to])
        BY <2>1, ViewTypes DEF Good, Sound
      <4> QED
        BY <4>1 DEF ListsOK, InView
    <3>2. Moved(v, v)
      BY DEF Moved, Keep
    <3> HIDE DEF d
    <3>3. Good(FrameSwap(v, c, d)) /\ Moved(v, FrameSwap(v, c, d))
      BY <2>1, <3>1, FrameSwapGood DEF d
    <3> QED
      BY <2>1, <3>2, <3>3
  <2>2. CASE ~swap
    BY <2>2, AreaMovetoProps
  <2> QED
    BY <2>1, <2>2
<1>2. SendArea(v, c, to, swap, junk)
        = IF w.fault # "none" THEN w ELSE ViewUpdateAll(FrameFocus(w, c))
  BY DEF SendArea, Settle
<1> HIDE DEF w
<1>3. w.fault = "none" /\ w.alive /\ InView(w, c)
  BY <1>1 DEF Good, Sound, Moved, Keep
<1> QED
  BY <1>1, <1>2, <1>3, FocusUpdateConsistent

\* The frame before the one before c is not c.
LEMMA BeforeTwice ==
  ASSUME NEW q \in Seq(Clients), IsInjective(q), NEW c \in ToSet(q),
         Before(q, c) # nil
  PROVE  Before(q, Before(q, c)) \in (ToSet(q) \ {c}) \cup {nil}
<1> DEFINE i == IndexIn(q, c)
           b == Before(q, c)
           j == IndexIn(q, b)
<1>1. i \in 1 .. Len(q) /\ q[i] = c
  BY IndexInPos
<1>2. i # 1 /\ b = q[i - 1]
  BY DEF Before
<1>3. b \in ToSet(q) /\ b \in ToSet(q) \cup {nil}
  BY NeighbourProps
<1>4. j \in 1 .. Len(q) /\ q[j] = b
  BY <1>3, IndexInPos
<1>5. Len(q) \in Nat /\ DOMAIN q = 1 .. Len(q)
  BY LenProperties
<1> HIDE DEF i, b, j
<1>6. j = i - 1
  BY <1>1, <1>2, <1>4, <1>5 DEF IsInjective
<1>7. Before(q, b) = IF j = 1 THEN nil ELSE q[j - 1]
  BY DEF Before, j
<1>8. CASE j = 1
  BY <1>7, <1>8 DEF b
<1>9. CASE j # 1
  <2>1. j - 1 \in DOMAIN q /\ i \in DOMAIN q /\ j - 1 # i
    BY <1>1, <1>4, <1>5, <1>6, <1>9
  <2>2. q[j - 1] # c /\ q[j - 1] \in ToSet(q)
    BY <1>1, <2>1 DEF IsInjective, ToSet
  <2> QED
    BY <1>7, <1>9, <2>2 DEF b
<1> QED
  BY <1>8, <1>9

\* send up and down: a list in another order.
LEMMA ReorderGood ==
  ASSUME NEW v, Good(v), NEW a \in Areas, NEW q,
         q \in Seq(Clients), IsInjective(q), ToSet(q) = ToSet(v.frames[a])
  PROVE  LET w == [v EXCEPT !.frames[a] = q]
         IN  Good(w) /\ Moved(v, w)
<1> DEFINE w == [v EXCEPT !.frames[a] = q]
<1>1. /\ Sound(v) /\ FullOK(v) /\ Chosen(v)
      /\ v \in ViewRecord /\ ListsOK(v) /\ AreasOK(v)
      /\ v.frames \in [Areas -> Seq(Clients)]
  BY ViewTypes DEF Good, Sound
<1> DEFINE fr == [v.frames EXCEPT ![a] = q]
<1>2. /\ fr \in [Areas -> Seq(Clients)] /\ fr[a] = q
      /\ \A b \in Areas \ {a} : fr[b] = v.frames[b]
  BY <1>1
<1>3. w = [v EXCEPT !.frames = fr]
  BY <1>1 DEF ViewRecord
<1> HIDE DEF fr, w
<1>4. /\ w \in ViewRecord
      /\ w.cols = v.cols /\ w.frames = fr /\ w.asel = v.asel /\ w.f = v.f
      /\ w.sel = v.sel /\ w.oldsel = v.oldsel /\ w.revert = v.revert
      /\ w.fault = v.fault /\ w.full = v.full
      /\ w.selected = v.selected /\ w.alive = v.alive
  BY <1>1, <1>2, <1>3 DEF ViewRecord
<1>5. LiveAreas(w) = LiveAreas(v)
  BY <1>4 DEF LiveAreas
<1>6. \A b \in Areas : /\ ToSet(fr[b]) = ToSet(v.frames[b])
                       /\ fr[b] = <<>> <=> v.frames[b] = <<>>
  <2>1. v.frames[a] \in Seq(Clients)
    BY <1>1
  <2>2. q = <<>> <=> v.frames[a] = <<>>
    BY <2>1, EmptyToSet
  <2> QED
    BY <1>2, <2>2
<1>7. ListsOK(w)
  <2> SUFFICES ASSUME NEW b \in Areas
               PROVE  /\ IsInjective(fr[b])
                      /\ ToSet(fr[b]) = {c \in Clients : v.f[c].area = b}
                      /\ fr[b] # <<>> => b \in LiveAreas(v)
    BY <1>4, <1>5 DEF ListsOK
  <2>1. /\ IsInjective(v.frames[b])
        /\ ToSet(v.frames[b]) = {c \in Clients : v.f[c].area = b}
        /\ v.frames[b] # <<>> => b \in LiveAreas(v)
    BY <1>1 DEF ListsOK
  <2>2. IsInjective(fr[b])
    BY <1>2, <2>1
  <2> QED
    BY <1>6, <2>1, <2>2
<1>8. AreasOK(w)
  BY <1>1, <1>4, <1>5 DEF AreasOK
<1>9. \A b \in Areas : w.asel[b] \in ToSet(w.frames[b]) \cup {nil}
  BY <1>1, <1>4, <1>6 DEF Sound
<1>10. Sound(w)
  BY <1>1, <1>4, <1>7, <1>8, <1>9 DEF Sound
<1>11. Chosen(w)
  BY <1>1, <1>4, <1>6 DEF Chosen
<1>12. FullOK(w)
  <2>1. Float \in Areas
    BY DEF Areas
  <2>2. FullscreenP(w) = FullscreenP(v) /\ Pending(w) = Pending(v)
    BY <1>4, <1>6, <2>1 DEF FullscreenP, Pending
  <2> QED
    BY <1>1, <1>4, <2>2 DEF FullOK
<1>13. Moved(v, w)
  BY <1>4 DEF Moved, Keep, InView
<1> QED
  BY <1>10, <1>11, <1>12, <1>13 DEF Good, w

-----------------------------------------------------------------------------
(* One lemma per kind of action: what it makes of a consistent view.       *)

LEMMA LiveGood ==
  ASSUME IInv, Live
  PROVE  /\ Good(view) /\ view.alive /\ view \in ViewRecord
         /\ view.fault = "none" /\ Consistent(view)
BY ConsistentGood DEF IInv, Live, Running, Consistent

\* view, or the view that view_create makes in its place.
LEMMA OrCreated ==
  ASSUME IInv, Running
  PROVE  LET v == IF view.alive THEN view ELSE Created(view)
         IN  /\ Good(v) /\ v.alive
             /\ v.full = view.full /\ v.floating = view.floating
             /\ v.selected => view.selected
             /\ view.alive => v.selected = view.selected
             /\ \A c \in Clients : InView(v, c) <=> InView(view, c)
<1>1. CASE view.alive
  BY <1>1, ConsistentGood DEF IInv, Running
<1>2. CASE ~view.alive
  BY <1>2, CreatedGood DEF IInv, Running
<1> QED
  BY <1>1, <1>2

LEMMA AttachStep ==
  ASSUME IInv, ~HiddenFullscreen, NEW c \in Clients, NEW tiled \in BOOLEAN,
         Attach(c, tiled)
  PROVE  IInv' /\ FocusFollowsSel'
<1> DEFINE v == IF view.alive THEN view ELSE Created(view)
<1>1. Running /\ ~InView(view, c) /\ view' = ViewAttach(v, c, tiled)
      /\ \/ view.selected \/ c \notin view.full
         \/ view.floating[c] # "never" /\ c \notin Splash
  BY DEF Attach, MayDisturb
<1>2. /\ Good(v) /\ v.alive /\ v.full = view.full
      /\ v.floating = view.floating /\ (view.alive => v.selected = view.selected)
      /\ ~InView(v, c)
  BY <1>1, OrCreated
<1>3. ~view.alive => ~view.selected
  BY DEF IInv, Consistent, Dead, Running, Attach
<1> HIDE DEF v
<1>4. \/ v.selected \/ c \notin v.full
      \/ v.floating[c] # "never" /\ c \notin Splash
  BY <1>1, <1>2, <1>3
<1>5. /\ Consistent(ViewAttach(v, c, tiled))
      /\ ViewAttach(v, c, tiled).fault = "none" => Follows(ViewAttach(v, c, tiled))
  BY <1>2, <1>4, ViewAttachConsistent
<1> QED
  BY <1>1, <1>5 DEF IInv, FocusFollowsSel, Follows, Running

LEMMA DetachStep ==
  ASSUME IInv, NEW c \in Clients, Detach(c)
  PROVE  IInv' /\ FocusFollowsSel'
<1>1. Live /\ InView(view, c) /\ view' = ViewDetach(view, c)
  BY DEF Detach
<1>2. Consistent(ViewDetach(view, c)) /\ Follows(ViewDetach(view, c))
  BY <1>1, LiveGood, ViewDetachConsistent
<1> QED
  BY <1>1, <1>2 DEF IInv, FocusFollowsSel, Follows, Running

\* view_select and view_focus of this view and of another one.
LEMMA SelectedGood ==
  ASSUME NEW v, Good(v), NEW t \in BOOLEAN, NEW x \in Clients \cup {nil}
  PROVE  LET w == [v EXCEPT !.selected = t, !.focus = x]
             u == [v EXCEPT !.selected = t]
         IN  /\ Good(w) /\ w.alive = v.alive
             /\ Good(u) /\ u.alive = v.alive
<1> DEFINE w == [v EXCEPT !.selected = t, !.focus = x]
           u == [v EXCEPT !.selected = t]
<1>1. v \in ViewRecord /\ v.fault = "none"
  BY DEF Good, Sound
<1>2. w \in ViewRecord /\ u \in ViewRecord
  BY <1>1 DEF ViewRecord
<1>3. /\ w.cols = v.cols /\ w.frames = v.frames /\ w.asel = v.asel
      /\ w.sel = v.sel /\ w.oldsel = v.oldsel /\ w.revert = v.revert
      /\ w.f = v.f /\ w.full = v.full /\ w.fault = v.fault
      /\ w.alive = v.alive
  BY <1>1 DEF ViewRecord
<1>4. /\ u.cols = v.cols /\ u.frames = v.frames /\ u.asel = v.asel
      /\ u.sel = v.sel /\ u.oldsel = v.oldsel /\ u.revert = v.revert
      /\ u.f = v.f /\ u.full = v.full /\ u.fault = v.fault
      /\ u.alive = v.alive
  BY <1>1 DEF ViewRecord
<1> HIDE DEF u, w
<1>5. Good(w)
  BY <1>1, <1>2, <1>3, GoodLike
<1>6. Good(u)
  BY <1>1, <1>2, <1>4, GoodLike
<1> QED
  BY <1>3, <1>4, <1>5, <1>6 DEF u, w

LEMMA SelectViewStep ==
  ASSUME IInv, SelectView
  PROVE  IInv' /\ FocusFollowsSel'
<1> DEFINE v == IF view.alive THEN view ELSE Created(view)
           u == [v EXCEPT !.selected = TRUE]
<1>1. Running /\ view' = ViewUpdate(u)
  BY DEF SelectView
<1>2. Good(v) /\ v.alive
  BY <1>1, OrCreated
<1>3. nil \in Clients \cup {nil} /\ TRUE \in BOOLEAN
  OBVIOUS
<1> HIDE DEF v
<1>4. Good(u) /\ u.alive
  BY <1>2, <1>3, SelectedGood
<1> HIDE DEF u
<1>5. Sound(u) /\ Chosen(u) /\ Pending(u) = {} /\ FullFloat(u)
  BY <1>4 DEF Good, FullOK, FullFloat
<1>6. Good(ViewUpdate(u)) /\ Moved(u, ViewUpdate(u)) /\ Follows(ViewUpdate(u))
  BY <1>5, ViewUpdateGood
<1> QED
  BY <1>1, <1>4, <1>6, GoodConsistent
     DEF IInv, Moved, Keep, FocusFollowsSel, Follows

LEMMA LeaveViewStep ==
  ASSUME IInv, LeaveView \/ LeaveViewByFocus \/ UpdateAll
  PROVE  IInv' /\ FocusFollowsSel'
<1> DEFINE w == [view EXCEPT !.selected = FALSE, !.focus = nil]
<1>1. Live
  BY DEF LeaveView, LeaveViewByFocus, UpdateAll
<1>2. Good(view) /\ view.alive
  BY <1>1, LiveGood
<1>3. Good(w) /\ w.alive
  BY <1>2, SelectedGood
<1>7. Follows(w)
  BY <1>2 DEF Follows, Good, Sound, ViewRecord
<1> HIDE DEF w
<1>4. Consistent(w) /\ Consistent(ViewUpdateAll(w)) /\ Follows(ViewUpdateAll(w))
  BY <1>3, GoodConsistent, ViewUpdateAllConsistent
<1>5. Consistent(ViewUpdateAll(view)) /\ Follows(ViewUpdateAll(view))
  BY <1>2, ViewUpdateAllConsistent
<1>6. view' \in {w, ViewUpdateAll(w), ViewUpdateAll(view)}
  BY DEF w, LeaveView, LeaveViewByFocus, UpdateAll
<1> QED
  BY <1>4, <1>5, <1>6, <1>7 DEF IInv, FocusFollowsSel, Follows

\* Every select message ends in area_focus, then perhaps in frame_focus.
LEMMA SelectStep ==
  ASSUME IInv, Live, NEW a \in LiveAreas(view)
  PROVE  /\ Consistent(AreaFocus(view, a))
         /\ Follows(view) => Follows(AreaFocus(view, a))
         /\ \A c \in Clients : InView(view, c) =>
              /\ Consistent(FrameFocus(view, c))
              /\ Consistent(FrameFocus(AreaFocus(view, a), c))
              /\ Follows(view) => /\ Follows(FrameFocus(view, c))
                                 /\ Follows(FrameFocus(AreaFocus(view, a), c))
<1> DEFINE w == AreaFocus(view, a)
<1>1. Good(view) /\ view.alive
  BY LiveGood
<1>2. Good(w) /\ Moved(view, w)
  BY <1>1, AreaFocusGood
<1>3. Follows(view) => Follows(w)
  <2>1. view \in ViewRecord /\ a \in Areas
    BY <1>1, ViewTypes DEF Good, Sound
  <2> QED
    BY <2>1, AreaFocusFollows
<1> HIDE DEF w
<1>4. Consistent(w) /\ w.alive
  BY <1>1, <1>2, GoodConsistent DEF Moved, Keep
<1>5. ASSUME NEW c \in Clients, InView(view, c)
      PROVE  /\ Consistent(FrameFocus(view, c)) /\ Consistent(FrameFocus(w, c))
             /\ Follows(view) => Follows(FrameFocus(view, c)) /\ Follows(FrameFocus(w, c))
  <2>1. Good(FrameFocus(view, c)) /\ Moved(view, FrameFocus(view, c))
    BY <1>1, <1>5, FrameFocusGood
  <2>2. InView(w, c)
    BY <1>2, <1>5 DEF Moved
  <2>3. Good(FrameFocus(w, c)) /\ Moved(w, FrameFocus(w, c))
    BY <1>2, <2>2, FrameFocusGood
  <2>4. Follows(view) => Follows(FrameFocus(view, c)) /\ Follows(FrameFocus(w, c))
    BY <1>1, <1>2, <1>3, <1>5, <2>2, FrameFocusFollows
  <2> QED
    BY <1>1, <1>4, <2>1, <2>3, <2>4, GoodConsistent DEF Moved, Keep
<1> QED
  BY <1>3, <1>4, <1>5 DEF w

LEMMA SelectAreaStep ==
  ASSUME IInv, NEW a \in Areas, SelectToggle \/ SelectArea(a) \/ SelectBeside(a)
  PROVE  IInv' /\ (FocusFollowsSel => FocusFollowsSel')
<1>1. Live
  BY DEF SelectToggle, SelectArea, SelectBeside
<1>2. /\ view \in ViewRecord /\ AreasOK(view) /\ Float \in LiveAreas(view)
      /\ ListsOK(view) /\ Good(view)
      /\ \A b \in Areas : view.asel[b] \in ToSet(view.frames[b]) \cup {nil}
  BY <1>1, LiveGood, ViewTypes DEF Good, Sound
<1>3. /\ view.cols \in Seq(ColIds) /\ view.cols # <<>>
      /\ Len(view.cols) \in Nat /\ Len(view.cols) # 0
      /\ DOMAIN view.cols = 1 .. Len(view.cols)
  BY <1>2, ViewTypes, EmptySeq, LenProperties DEF AreasOK
<1>4. \A i \in 1 .. Len(view.cols) : view.cols[i] \in ToSet(view.cols)
  BY <1>3 DEF ToSet
<1>5. CASE SelectToggle
  <2> DEFINE b == IF view.sel # Float THEN Float
                  ELSE IF view.revert \notin {nil, view.sel} THEN view.revert
                  ELSE view.cols[1]
  <2>1. view' = AreaFocus(view, b)
    BY <1>5 DEF SelectToggle
  <2>2. view.cols[1] \in LiveAreas(view)
    BY <1>3, <1>4 DEF LiveAreas
  <2>3. b \in LiveAreas(view)
    BY <1>2, <2>2 DEF AreasOK
  <2> HIDE DEF b
  <2> QED
    BY <1>1, <2>1, <2>3, SelectStep DEF IInv, FocusFollowsSel, Follows, Live
<1>6. CASE SelectArea(a)
  BY <1>1, <1>6, SelectStep DEF SelectArea, IInv, FocusFollowsSel, Follows, Live
<1>7. CASE SelectBeside(a)
  <2> DEFINE v == AreaFocus(view, a)
  <2>1. a \in Beside(view.sel)
        /\ view' = IF v.asel[a] = nil THEN v ELSE FrameFocus(v, v.asel[a])
    BY <1>7 DEF SelectBeside
  <2>2. a \in ToSet(view.cols)
    <3>1. CASE view.sel = Float
      BY <2>1, <3>1 DEF Beside
    <3>2. CASE view.sel # Float
      <4>1. view.sel \in LiveAreas(view) /\ view.sel \in ToSet(view.cols)
        BY <1>2, <3>2 DEF AreasOK, LiveAreas
      <4>2. AreaIdx(view, view.sel) \in 1 .. Len(view.cols)
        BY <1>2, <3>2, <4>1, AreaIdxType
      <4> DEFINE i == AreaIdx(view, view.sel)
                 n == Len(view.cols)
                 l == IF i = 1 THEN n ELSE i - 1
                 r == IF i = n THEN 1 ELSE i + 1
      <4>3. a \in {view.cols[l], view.cols[r]}
        BY <2>1, <3>2 DEF Beside
      <4>4. l \in 1 .. n /\ r \in 1 .. n
        BY <1>3, <4>2
      <4> HIDE DEF l, r
      <4> QED
        BY <1>4, <4>3, <4>4
    <3> QED
      BY <3>1, <3>2
  <2>3. a \in LiveAreas(view)
    BY <2>2 DEF LiveAreas
  <2>4. v.asel = view.asel
    BY <1>2, <2>3, AreaFocusProps DEF Good
  <2>5. ASSUME view.asel[a] # nil
        PROVE  view.asel[a] \in Clients /\ InView(view, view.asel[a])
    <3>1. view.asel[a] \in ToSet(view.frames[a]) /\ nil \notin Areas
      BY <1>2, <2>5, ViewTypes
    <3> QED
      BY <1>2, <3>1 DEF ListsOK, InView
  <2>6. /\ Consistent(v)
        /\ Follows(view) => Follows(v)
        /\ \A c \in Clients : InView(view, c) =>
             Consistent(FrameFocus(v, c)) /\ (Follows(view) => Follows(FrameFocus(v, c)))
    BY <1>1, <2>3, SelectStep
  <2> HIDE DEF v
  <2> QED
    BY <1>1, <2>1, <2>4, <2>5, <2>6 DEF IInv, FocusFollowsSel, Follows, Live
<1> QED
  BY <1>5, <1>6, <1>7

LEMMA SelectClientStep ==
  ASSUME IInv, NEW c \in Clients,
         SelectFrame(c) \/ SelectClient(c) \/ FocusClient(c)
  PROVE  IInv' /\ (FocusFollowsSel => FocusFollowsSel')
<1>1. Live /\ InView(view, c)
      /\ view' \in {FrameFocus(view, c), FrameFocus(AreaFocus(view, view.sel), c)}
  BY AreaAssumption DEF SelectFrame, SelectClient, FocusClient, InView
<1>2. view.sel \in LiveAreas(view)
  BY <1>1, LiveGood DEF Good, Sound, AreasOK
<1>3. /\ Consistent(FrameFocus(view, c))
      /\ Consistent(FrameFocus(AreaFocus(view, view.sel), c))
      /\ Follows(view) => /\ Follows(FrameFocus(view, c))
                         /\ Follows(FrameFocus(AreaFocus(view, view.sel), c))
  BY <1>1, <1>2, SelectStep
<1> QED
  BY <1>1, <1>3 DEF IInv, FocusFollowsSel, Follows, Live

LEMMA SendStep ==
  ASSUME IInv, ~HiddenFullscreen, NEW c \in Clients, NEW to \in Areas,
         NEW swap \in BOOLEAN, NEW junk \in BOOLEAN, Send(c, to, swap, junk)
  PROVE  IInv' /\ FocusFollowsSel'
<1>1. /\ Live /\ InView(view, c) /\ to \in LiveAreas(view)
      /\ swap => /\ view.asel[to] # nil
                 /\ view.selected
                      \/ (c \notin view.full /\ view.asel[to] \notin view.full)
      /\ view' = SendArea(view, c, to, swap, junk)
  BY DEF Send, MayDisturb
<1>2. /\ Consistent(SendArea(view, c, to, swap, junk))
      /\ Follows(SendArea(view, c, to, swap, junk))
  BY <1>1, LiveGood, SendAreaConsistent
<1> QED
  BY <1>1, <1>2 DEF IInv, FocusFollowsSel, Follows

LEMMA SendNewColumnStep ==
  ASSUME IInv, NEW c \in Clients, NEW pos \in Areas \cup {nil},
         SendNewColumn(c, pos)
  PROVE  IInv' /\ FocusFollowsSel'
<1> DEFINE w == AreaCreate(view, pos)
<1>1. /\ Live /\ view.f[c].area \in ColIds
      /\ pos \in {nil, LastOf(view.cols)}
      /\ FreeCols(view) # {}
      /\ view' = SendArea(w, c, NewCol(view), FALSE, FALSE)
  BY DEF SendNewColumn
<1>2. Good(view) /\ view.alive /\ view.cols \in Seq(ColIds)
  BY <1>1, LiveGood, ViewTypes
<1>3. pos \in ToSet(view.cols) \cup {nil} /\ InView(view, c)
  BY <1>1, <1>2, NeighbourProps, AreaAssumption DEF InView
<1>4. /\ Good(w) /\ Moved(view, w)
      /\ LiveAreas(w) = LiveAreas(view) \cup ({NewCol(view)} \ {nil})
  BY <1>2, <1>3, AreaCreateGood
<1>5. NewCol(view) # nil
  BY <1>1, AreaAssumption DEF NewCol, FreeCols
<1> HIDE DEF w
<1>6. w.alive /\ InView(w, c) /\ NewCol(view) \in LiveAreas(w)
  BY <1>2, <1>3, <1>4, <1>5 DEF Moved, Keep
<1>7. /\ Consistent(SendArea(w, c, NewCol(view), FALSE, FALSE))
      /\ Follows(SendArea(w, c, NewCol(view), FALSE, FALSE))
  BY <1>4, <1>6, SendAreaConsistent
<1> QED
  BY <1>1, <1>7 DEF IInv, FocusFollowsSel, Follows

\* A column that is made leaves the selected client and its focus alone.
LEMMA FindAreaCreateFollows ==
  ASSUME NEW v, Good(v), NEW idx \in Int, Follows(v)
  PROVE  Follows(FindAreaCreate(v, idx))
<1> DEFINE pos == LastOf(v.cols)
           a == NewCol(v)
           w == AreaCreate(v, pos)
<1>1. CASE FindAreaCreate(v, idx) = v
  BY <1>1
<1>2. CASE FindAreaCreate(v, idx) = w /\ FreeCols(v) # {}
  <2>1. a \in FreeCols(v) /\ a \in ColIds /\ a \notin ToSet(v.cols)
    BY <1>2 DEF NewCol, FreeCols
  <2>2. v \in ViewRecord /\ v.sel \in LiveAreas(v)
    BY DEF Good, Sound, AreasOK
  <2>3. v.sel # a
    BY <2>1, <2>2, AreaAssumption DEF LiveAreas
  <2> HIDE DEF a
  <2>4. w = [v EXCEPT !.cols = FrameInsert(@, pos, a), !.frames[a] = <<>>,
                      !.asel[a] = nil]
    BY <1>2 DEF AreaCreate, a
  <2>5. /\ w.sel = v.sel /\ w.focus = v.focus /\ w.selected = v.selected
        /\ w.fault = v.fault /\ w.asel[v.sel] = v.asel[v.sel]
    BY <2>2, <2>3, <2>4 DEF ViewRecord
  <2> HIDE DEF w
  <2> QED
    BY <1>2, <2>5 DEF Follows, SelClient
<1> QED
  BY <1>1, <1>2 DEF FindAreaCreate, AreaCreate

LEMMA SendToggleStep ==
  ASSUME IInv, ~HiddenFullscreen, NEW c \in Clients, NEW swap \in BOOLEAN,
         SendToggle(c, swap)
  PROVE  IInv' /\ (FocusFollowsSel => FocusFollowsSel')
<1> DEFINE fr == view.f[c]
           idx == IF fr.column # 0 THEN fr.column ELSE view.selcol
           w == FindAreaCreate(view, idx)
           to == FoundArea(view, idx)
<1>1. /\ Live /\ fr.area = Float
      /\ swap /\ to # nil => MayDisturb(c) /\ MayDisturb(w.asel[to])
      /\ \/ view' = [view EXCEPT !.fault = "assert"]
         \/ /\ to # nil
            /\ view' = IF swap /\ w.asel[to] = nil THEN w
                       ELSE SendArea(w, c, to, swap, FALSE)
  BY DEF SendToggle
<1>2. Good(view) /\ view.alive /\ view \in ViewRecord
  BY <1>1, LiveGood
<1>3. idx \in Int
  BY <1>2, ViewTypes DEF FrameFields
<1>4. InView(view, c)
  BY <1>1, AreaAssumption DEF InView
<1> HIDE DEF idx
<1>5. Good(w) /\ Moved(view, w) /\ (to # nil => to \in LiveAreas(w))
  BY <1>2, <1>3, FindAreaCreateGood
<1>10. Follows(view) => Follows(w)
  BY <1>2, <1>3, FindAreaCreateFollows
<1> HIDE DEF w, to
<1>6. /\ w.alive /\ InView(w, c)
      /\ w.full = view.full /\ w.selected = view.selected
  BY <1>2, <1>4, <1>5 DEF Moved, Keep
<1>7. ASSUME to # nil, ~(swap /\ w.asel[to] = nil)
      PROVE  /\ Consistent(SendArea(w, c, to, swap, FALSE))
             /\ Follows(SendArea(w, c, to, swap, FALSE))
  <2>1. swap => \/ w.selected
                \/ c \notin w.full /\ w.asel[to] \notin w.full
    BY <1>1, <1>6, <1>7 DEF MayDisturb
  <2>2. swap => w.asel[to] # nil
    BY <1>7
  <2> QED
    BY <1>5, <1>6, <1>7, <2>1, <2>2, SendAreaConsistent
<1>8. Consistent([view EXCEPT !.fault = "assert"])
  BY <1>2, StoppedConsistent
<1>9. [view EXCEPT !.fault = "assert"].fault # "none"
  BY <1>2 DEF ViewRecord
<1>11. Consistent(w)
  BY <1>5, <1>6, GoodConsistent
<1>12. CASE view' = [view EXCEPT !.fault = "assert"]
  BY <1>8, <1>9, <1>12 DEF IInv, FocusFollowsSel, Running
<1>13. CASE view' = w
  BY <1>1, <1>10, <1>11, <1>13 DEF IInv, FocusFollowsSel, Follows, Running, Live
<1>14. CASE /\ to # nil /\ ~(swap /\ w.asel[to] = nil)
            /\ view' = SendArea(w, c, to, swap, FALSE)
  BY <1>7, <1>14 DEF IInv, FocusFollowsSel, Follows
<1> QED
  BY <1>1, <1>12, <1>13, <1>14

LEMMA SendByStep ==
  ASSUME IInv, NEW c \in Clients, NEW pos \in Clients \cup {nil},
         SendBy(c, pos)
  PROVE  IInv' /\ FocusFollowsSel'
<1> DEFINE a == view.f[c].area
           q == view.frames[a]
           r == FrameInsert(FrameRemove(q, c), pos, c)
           w == [view EXCEPT !.frames[a] = r]
<1>1. /\ Live /\ InView(view, c)
      /\ \/ Before(q, c) # nil /\ pos = Before(q, Before(q, c))
         \/ After(q, c) # nil /\ pos = After(q, c)
      /\ view' = ViewUpdateAll(FrameFocus(w, c))
  BY DEF SendBy
<1>2. Good(view) /\ view.alive /\ view \in ViewRecord
  BY <1>1, LiveGood
<1>3. a \in Areas /\ c \in ToSet(q)
  BY <1>1, <1>2, InViewProps, ViewTypes DEF Good, Sound
<1>4. q \in Seq(Clients) /\ IsInjective(q)
  BY <1>2, <1>3, ViewTypes DEF Good, Sound, ListsOK
<1>5. /\ FrameRemove(q, c) \in Seq(Clients)
      /\ IsInjective(FrameRemove(q, c))
      /\ ToSet(FrameRemove(q, c)) = ToSet(q) \ {c}
  BY <1>3, <1>4, FrameRemoveProps
<1>6. pos \in ToSet(FrameRemove(q, c)) \cup {nil}
  <2> HIDE DEF q
  <2>1. CASE Before(q, c) # nil /\ pos = Before(q, Before(q, c))
    BY <1>3, <1>4, <1>5, <2>1, BeforeTwice
  <2>2. CASE After(q, c) # nil /\ pos = After(q, c)
    <3>1. After(q, c) \in ToSet(q) \cup {nil} /\ After(q, c) # c
      BY <1>3, <1>4, NeighbourProps, AreaAssumption, SMTT(30)
    <3> QED
      BY <1>5, <2>2, <3>1
  <2> QED
    BY <1>1, <2>1, <2>2
<1>7. r \in Seq(Clients) /\ IsInjective(r) /\ ToSet(r) = ToSet(q)
  <2>1. c \in Clients \ ToSet(FrameRemove(q, c))
    BY <1>5
  <2>2. /\ r \in Seq(Clients) /\ IsInjective(r)
        /\ ToSet(r) = ToSet(FrameRemove(q, c)) \cup {c}
    BY <1>5, <1>6, <2>1, FrameInsertProps
  <2> QED
    BY <1>3, <1>5, <2>2
<1> HIDE DEF r
<1>8. Good(w) /\ Moved(view, w)
  BY <1>2, <1>3, <1>7, ReorderGood
<1> HIDE DEF w
<1>9. w.alive /\ InView(w, c)
  BY <1>1, <1>2, <1>8 DEF Moved, Keep
<1>10. /\ Consistent(ViewUpdateAll(FrameFocus(w, c)))
       /\ Follows(ViewUpdateAll(FrameFocus(w, c)))
  BY <1>8, <1>9, FocusUpdateConsistent
<1> QED
  BY <1>1, <1>10 DEF IInv, FocusFollowsSel, Follows

LEMMA SwapByStep ==
  ASSUME IInv, NEW c \in Clients, NEW d \in Clients, SwapBy(c, d)
  PROVE  IInv' /\ FocusFollowsSel'
<1> DEFINE q == view.frames[view.f[c].area]
           w == FrameSwap(view, c, d)
<1>1. /\ Live /\ InView(view, c)
      /\ d \in {Before(q, c), After(q, c)} \ {nil}
      /\ view' = ViewUpdateAll(FrameFocus(w, c))
  BY DEF SwapBy
<1>2. Good(view) /\ view.alive /\ view \in ViewRecord /\ ListsOK(view)
  BY <1>1, LiveGood DEF Good, Sound
<1>3. view.f[c].area \in Areas /\ c \in ToSet(q) /\ nil \notin Areas
  BY <1>1, <1>2, InViewProps, ViewTypes DEF Good, Sound
<1>4. q \in Seq(Clients) /\ ToSet(q) = {e \in Clients : view.f[e].area = view.f[c].area}
  BY <1>2, <1>3, ViewTypes DEF ListsOK
<1>5. d \in ToSet(q)
  <2>1. Before(q, c) \in ToSet(q) \cup {nil} /\ After(q, c) \in ToSet(q) \cup {nil}
    BY <1>3, <1>4, NeighbourProps
  <2> QED
    BY <1>1, <2>1
<1>6. view.f[d].area = view.f[c].area /\ InView(view, d)
  BY <1>3, <1>4, <1>5 DEF InView
<1> HIDE DEF q
<1>7. Good(w) /\ Moved(view, w)
  BY <1>1, <1>2, <1>6, FrameSwapGood
<1> HIDE DEF w
<1>8. w.alive /\ InView(w, c)
  BY <1>1, <1>2, <1>7 DEF Moved, Keep
<1>9. /\ Consistent(ViewUpdateAll(FrameFocus(w, c)))
      /\ Follows(ViewUpdateAll(FrameFocus(w, c)))
  BY <1>7, <1>8, FocusUpdateConsistent
<1> QED
  BY <1>1, <1>9 DEF IInv, FocusFollowsSel, Follows

\* fullscreen on: a frame in a column of the view on screen is taken out.
LEMMA FullscreenOnStep ==
  ASSUME IInv, ~HiddenFullscreen, NEW c \in Clients, FullscreenOn(c)
  PROVE  IInv' /\ (FocusFollowsSel => FocusFollowsSel')
<1> DEFINE v == [view EXCEPT !.full = @ \cup {c}, !.f[c].oldarea = -1]
<1>1. /\ Running /\ (view.selected \/ ~InView(view, c))
      /\ view' = IF InView(view, c) THEN ViewUpdate(v) ELSE v
  BY DEF FullscreenOn
<1>2. Consistent(view) /\ view \in ViewRecord /\ view.fault = "none"
      /\ view.f \in [Clients -> FrameFields] /\ view.full \subseteq Clients
  BY <1>1, ViewTypes DEF IInv, Running, Consistent
<1> DEFINE g == [view.f EXCEPT ![c].oldarea = -1]
<1>3. g \in [Clients -> FrameFields] /\ \A e \in Clients : g[e].area = view.f[e].area
  <2>1. \A x \in FrameFields : /\ [x EXCEPT !.oldarea = -1] \in FrameFields
                               /\ [x EXCEPT !.oldarea = -1].area = x.area
    BY DEF FrameFields
  <2>2. g = [view.f EXCEPT ![c] = [view.f[c] EXCEPT !.oldarea = -1]]
    BY <1>2
  <2>3. view.f[c] \in FrameFields
    BY <1>2
  <2> QED
    BY <1>2, <2>1, <2>2, <2>3
<1>4. v = [view EXCEPT !.full = view.full \cup {c}, !.f = g]
  BY <1>2 DEF ViewRecord
<1> HIDE DEF g, v
<1>5. v \in ViewRecord
  BY <1>2, <1>3, <1>4 DEF ViewRecord
<1>6. /\ v.cols = view.cols /\ v.frames = view.frames /\ v.asel = view.asel
      /\ v.sel = view.sel /\ v.oldsel = view.oldsel /\ v.revert = view.revert
      /\ v.f = g /\ v.full = view.full \cup {c} /\ v.fault = "none"
      /\ v.alive = view.alive /\ v.selected = view.selected
      /\ v.focus = view.focus
  BY <1>2, <1>4 DEF ViewRecord
<1>7. \A e \in Clients : v.f[e].area = view.f[e].area
  BY <1>3, <1>6
<1>8. CASE ~InView(view, c)
  <2>1. \A e \in v.full : e \in view.full \/ ~InView(view, e)
    BY <1>6, <1>8
  <2>2. Consistent(v)
    BY <1>2, <1>5, <1>6, <1>7, <2>1, ConsistentLike
  <2> QED
    BY <1>1, <1>6, <1>8, <2>2 DEF IInv, FocusFollowsSel, SelClient
<1>9. CASE InView(view, c)
  <2>1. view.alive
    <3> SUFFICES ASSUME ~view.alive
                 PROVE  FALSE
      OBVIOUS
    <3>1. \A e \in Clients : ~InView(view, e)
      BY <1>2, CreatedGood
    <3> QED
      BY <1>9, <3>1
  <2>2. Good(view) /\ Sound(view) /\ Chosen(view) /\ AreasOK(view)
        /\ FullFloat(view) /\ Pending(view) = {}
    BY <1>2, <2>1, ConsistentGood DEF Good, Sound, FullOK, FullFloat
  <2>3. {v.oldsel, v.revert} \subseteq LiveAreas(view) \cup {nil}
    BY <1>6, <2>2 DEF AreasOK
  <2>4. Sound(v) /\ Chosen(v)
    BY <1>5, <1>6, <1>7, <2>2, <2>3, SoundLike
  <2>5. Pending(v) \subseteq {c} /\ v.selected
    BY <1>1, <1>2, <1>6, <1>7, <1>9, <2>2 DEF Pending
  <2>6. Pending(v) # {} => FullFloat(v)
    <3>1. Pending(v) # {} => v.f[c].area \in ColIds
      BY <2>5 DEF Pending
    <3>2. Pending(v) # {} => (FullscreenP(v) => FullscreenP(view))
      BY <1>2, <1>6, <1>7, <2>2, <2>4, <3>1, FullscreenPArea, AreaAssumption
    <3> QED
      BY <1>6, <2>2, <3>2 DEF FullFloat
  <2>7. Good(ViewUpdate(v)) /\ Moved(v, ViewUpdate(v)) /\ Follows(ViewUpdate(v))
    BY <2>4, <2>5, <2>6, ViewUpdateGood
  <2> QED
    BY <1>1, <1>6, <1>9, <2>1, <2>7, GoodConsistent
       DEF IInv, Moved, Keep, FocusFollowsSel, Follows
<1> QED
  BY <1>8, <1>9

\* fullscreen off
LEMMA FullscreenOffStep ==
  ASSUME IInv, NEW c \in Clients, NEW junk \in BOOLEAN, FullscreenOff(c, junk)
  PROVE  IInv' /\ ~(view.full \subseteq view'.full)
<1> DEFINE v == [view EXCEPT !.full = @ \ {c}]
           old == view.f[c].oldarea
           w == FindAreaCreate(v, old)
           to == FoundArea(v, old)
           moved == AreaMoveto(w, to, c, junk)
<1>1. /\ Running
      /\ view' = IF ~InView(view, c) \/ old <= 0 THEN v
                 ELSE IF to = nil THEN [v EXCEPT !.fault = "nil"]
                 ELSE IF view.asel[view.f[c].area] = c /\ moved.fault = "none"
                 THEN FrameFocus(moved, c)
                 ELSE moved
  BY DEF FullscreenOff, Refocus
<1>2. Consistent(view) /\ view \in ViewRecord /\ view.fault = "none"
      /\ view.f \in [Clients -> FrameFields] /\ view.full \subseteq Clients
  BY <1>1, ViewTypes DEF IInv, Running, Consistent
<1>3. old \in Int
  BY <1>2 DEF FrameFields
<1>4. v \in ViewRecord
  BY <1>2 DEF ViewRecord
<1>5. /\ v.cols = view.cols /\ v.frames = view.frames /\ v.asel = view.asel
      /\ v.sel = view.sel /\ v.oldsel = view.oldsel /\ v.revert = view.revert
      /\ v.f = view.f /\ v.full = view.full \ {c} /\ v.fault = "none"
      /\ v.alive = view.alive /\ v.selected = view.selected
      /\ v.focus = view.focus
  BY <1>2 DEF ViewRecord
<1> HIDE DEF v
<1>6. Consistent(v)
  <2>1. \A e \in v.full : e \in view.full \/ ~InView(view, e)
    BY <1>5
  <2>2. \A e \in Clients : v.f[e].area = view.f[e].area
    BY <1>5
  <2> QED
    BY <1>2, <1>4, <1>5, <2>1, <2>2, ConsistentLike
<1>10. c \in view.full /\ c \notin v.full
  BY <1>5 DEF FullscreenOff
<1>7. CASE ~InView(view, c) \/ old <= 0
  BY <1>1, <1>6, <1>7, <1>10 DEF IInv
<1>8. CASE ~(~InView(view, c) \/ old <= 0) /\ to = nil
  <2>1. Consistent([v EXCEPT !.fault = "nil"])
    BY <1>4, StoppedConsistent
  <2>2. [v EXCEPT !.fault = "nil"].full = v.full
    BY <1>4 DEF ViewRecord
  <2> QED
    BY <1>1, <1>8, <1>10, <2>1, <2>2 DEF IInv
<1>9. CASE ~(~InView(view, c) \/ old <= 0) /\ to # nil
  <2>1. view.alive
    <3> SUFFICES ASSUME ~view.alive
                 PROVE  FALSE
      OBVIOUS
    <3>1. \A e \in Clients : ~InView(view, e)
      BY <1>2, CreatedGood
    <3> QED
      BY <1>9, <3>1
  <2>2. Good(v) /\ v.alive /\ InView(v, c)
    BY <1>5, <1>6, <1>9, <2>1, ConsistentGood DEF InView
  <2> HIDE DEF old
  <2>3. Good(w) /\ Moved(v, w) /\ to \in LiveAreas(w)
    BY <1>3, <1>9, <2>2, FindAreaCreateGood
  <2> HIDE DEF w, to
  <2>4. InView(w, c) /\ w.alive
    BY <2>2, <2>3 DEF Moved, Keep
  <2>5. Good(moved) /\ Moved(w, moved)
    BY <2>3, <2>4, AreaMovetoProps
  <2> HIDE DEF moved
  <2>6. InView(moved, c) /\ moved.alive
    BY <2>4, <2>5 DEF Moved, Keep
  <2>7. Good(FrameFocus(moved, c)) /\ Moved(moved, FrameFocus(moved, c))
    BY <2>5, <2>6, FrameFocusGood
  <2>8. Consistent(moved) /\ Consistent(FrameFocus(moved, c))
    BY <2>5, <2>6, <2>7, GoodConsistent DEF Moved, Keep
  <2>9. moved.full = v.full /\ FrameFocus(moved, c).full = v.full
    BY <2>3, <2>5, <2>7 DEF Moved, Keep
  <2> QED
    BY <1>1, <1>9, <1>10, <2>8, <2>9 DEF IInv
<1> QED
  BY <1>7, <1>8, <1>9

LEMMA SetFloatingStep ==
  ASSUME IInv, NEW c \in Clients, NEW val \in FloatingValues,
         SetFloating(c, val)
  PROVE  IInv' /\ (FocusFollowsSel => FocusFollowsSel')
<1> DEFINE w == [view EXCEPT !.floating[c] = val]
<1>1. Running /\ view' = w /\ val \in Floating
  BY ViewAssumption DEF SetFloating
<1>2. Consistent(view) /\ view \in ViewRecord /\ view.fault = "none"
      /\ view.floating \in [Clients -> Floating]
  BY <1>1, ViewTypes DEF IInv, Running, Consistent
<1>3. w \in ViewRecord
  BY <1>1, <1>2 DEF ViewRecord
<1>4. /\ w.cols = view.cols /\ w.frames = view.frames /\ w.asel = view.asel
      /\ w.sel = view.sel /\ w.oldsel = view.oldsel /\ w.revert = view.revert
      /\ w.f = view.f /\ w.full = view.full /\ w.fault = "none"
      /\ w.alive = view.alive /\ w.selected = view.selected
      /\ w.focus = view.focus
  BY <1>2 DEF ViewRecord
<1> HIDE DEF w
<1>5. Consistent(w)
  BY <1>2, <1>3, <1>4, ConsistentLike
<1> QED
  BY <1>1, <1>4, <1>5 DEF IInv, FocusFollowsSel, SelClient

-----------------------------------------------------------------------------
(* The theorems.                                                           *)

\* Before the view exists there is nothing in it (main, view_create).
THEOREM InitIInv == Init => IInv
<1> SUFFICES ASSUME Init
             PROVE  Consistent(view)
  BY DEF IInv
<1> DEFINE fl == [c \in Clients |-> "off"]
           ff == [c \in Clients |-> NewFrame]
           fr == [a \in Areas |-> <<>>]
           as == [a \in Areas |-> nil]
<1>1. view = [cols |-> <<>>, frames |-> fr, asel |-> as, sel |-> nil,
              oldsel |-> nil, revert |-> nil, selcol |-> 0,
              selected |-> FALSE, focus |-> nil, floating |-> fl,
              full |-> {}, f |-> ff, alive |-> FALSE, fault |-> "none"]
  BY DEF Init
<1>2. <<>> \in Seq(ColIds) /\ <<>> \in Seq(Clients)
  BY EmptySeq
<1>3. NewFrame \in FrameFields /\ NewFrame.area = nil
  BY DEF NewFrame, FrameFields, NScreens
<1>4. /\ fl \in [Clients -> Floating] /\ ff \in [Clients -> FrameFields]
      /\ fr \in [Areas -> Seq(Clients)] /\ as \in [Areas -> Clients \cup {nil}]
      /\ \A c \in Clients : ff[c].area = nil
      /\ \A a \in Areas : fr[a] = <<>> /\ as[a] = nil
  BY <1>2, <1>3 DEF Floating
<1> HIDE DEF fl, ff, fr, as
<1>5. view \in ViewRecord
  <2>1. "none" \in Faults /\ {} \in SUBSET Clients
    BY DEF Faults
  <2>2. view.cols \in Seq(ColIds) /\ view.frames \in [Areas -> Seq(Clients)]
        /\ view.asel \in [Areas -> Clients \cup {nil}]
        /\ view.sel \in Areas \cup {nil} /\ view.oldsel \in Areas \cup {nil}
        /\ view.revert \in Areas \cup {nil} /\ view.selcol \in Int
        /\ view.selected \in BOOLEAN /\ view.focus \in Clients \cup {nil}
        /\ view.floating \in [Clients -> Floating]
        /\ view.full \in SUBSET Clients
        /\ view.f \in [Clients -> FrameFields]
        /\ view.alive \in BOOLEAN /\ view.fault \in Faults
    <3>1. /\ view.cols = <<>> /\ view.frames = fr /\ view.asel = as
          /\ view.sel = nil /\ view.oldsel = nil /\ view.revert = nil
          /\ view.selcol = 0 /\ view.selected = FALSE /\ view.focus = nil
          /\ view.floating = fl /\ view.full = {} /\ view.f = ff
          /\ view.alive = FALSE /\ view.fault = "none"
      BY <1>1
    <3>2. 0 \in Int
      OBVIOUS
    <3> QED
      BY <1>2, <1>4, <2>1, <3>1, <3>2
  <2>3. view = [cols |-> view.cols, frames |-> view.frames,
                asel |-> view.asel, sel |-> view.sel,
                oldsel |-> view.oldsel, revert |-> view.revert,
                selcol |-> view.selcol, selected |-> view.selected,
                focus |-> view.focus, floating |-> view.floating,
                full |-> view.full, f |-> view.f, alive |-> view.alive,
                fault |-> view.fault]
    BY <1>1
  <2> QED
    BY <2>2, <2>3 DEF ViewRecord
<1>6. /\ view.cols = <<>> /\ view.frames = fr /\ view.asel = as
      /\ view.sel = nil /\ view.oldsel = nil /\ view.revert = nil
      /\ view.focus = nil /\ ~view.selected /\ view.f = ff
      /\ ~view.alive /\ view.fault = "none"
  BY <1>1
<1>7. ToSet(<<>>) = {} /\ IsInjective(<<>>)
  BY DEF ToSet, IsInjective
<1>8. ListsOK(view)
  BY <1>4, <1>6, <1>7, AreaAssumption DEF ListsOK, Areas
<1>9. AselOK(view) /\ Dead(view)
  BY <1>4, <1>6 DEF AselOK, Dead
<1> QED
  BY <1>5, <1>6, <1>8, <1>9 DEF Consistent

\* Every handler keeps the invariant, as long as no client's fullscreen mode
\* is changed behind a view that is off screen.
THEOREM NextIInv ==
  ASSUME ~HiddenFullscreen
  PROVE  IInv /\ [Next]_view => IInv'
<1> SUFFICES ASSUME IInv, [Next]_view
             PROVE  IInv'
  OBVIOUS
<1>1. CASE SelectView
  BY <1>1, SelectViewStep
<1>2. CASE LeaveView \/ LeaveViewByFocus \/ UpdateAll
  BY <1>2, LeaveViewStep
<1>3. CASE SelectToggle
  <2>1. Float \in Areas
    BY DEF Areas
  <2> QED
    BY <1>3, <2>1, SelectAreaStep
<1>4. ASSUME NEW a \in Areas, SelectArea(a) \/ SelectBeside(a)
      PROVE  IInv'
  BY <1>4, SelectAreaStep
<1>5. ASSUME NEW c \in Clients, NEW tiled \in BOOLEAN, Attach(c, tiled)
      PROVE  IInv'
  BY <1>5, AttachStep
<1>6. ASSUME NEW c \in Clients, Detach(c)
      PROVE  IInv'
  BY <1>6, DetachStep
<1>7. ASSUME NEW c \in Clients,
             SelectFrame(c) \/ SelectClient(c) \/ FocusClient(c)
      PROVE  IInv'
  BY <1>7, SelectClientStep
<1>8. ASSUME NEW c \in Clients, NEW to \in Areas, NEW swap \in BOOLEAN,
             NEW junk \in BOOLEAN, Send(c, to, swap, junk)
      PROVE  IInv'
  BY <1>8, SendStep
<1>9. ASSUME NEW c \in Clients, NEW pos \in Areas \cup {nil},
             SendNewColumn(c, pos)
      PROVE  IInv'
  BY <1>9, SendNewColumnStep
<1>10. ASSUME NEW c \in Clients, NEW pos \in Clients \cup {nil},
              SendBy(c, pos)
       PROVE  IInv'
  BY <1>10, SendByStep
<1>11. ASSUME NEW c \in Clients, NEW d \in Clients, SwapBy(c, d)
       PROVE  IInv'
  BY <1>11, SwapByStep
<1>12. ASSUME NEW c \in Clients, NEW swap \in BOOLEAN, SendToggle(c, swap)
       PROVE  IInv'
  BY <1>12, SendToggleStep
<1>13. ASSUME NEW c \in Clients, FullscreenOn(c)
       PROVE  IInv'
  BY <1>13, FullscreenOnStep
<1>14. ASSUME NEW c \in Clients, NEW junk \in BOOLEAN, FullscreenOff(c, junk)
       PROVE  IInv'
  BY <1>14, FullscreenOffStep
<1>15. ASSUME NEW c \in Clients, NEW val \in FloatingValues,
              SetFloating(c, val)
       PROVE  IInv'
  BY <1>15, SetFloatingStep
<1>16. CASE UNCHANGED view
  BY <1>16 DEF IInv
<1> QED
  BY <1>1, <1>2, <1>3, <1>4, <1>5, <1>6, <1>7, <1>8, <1>9, <1>10, <1>11,
     <1>12, <1>13, <1>14, <1>15, <1>16 DEF Next

\* The invariant of every reachable view.
THEOREM ViewInvariant ==
  ASSUME ~HiddenFullscreen
  PROVE  Spec => []IInv
<1>1. Init => IInv
  BY InitIInv
<1>2. IInv /\ [Next]_view => IInv'
  BY NextIInv
<1> QED
  BY <1>1, <1>2, PTL DEF Spec

\* Every field of the view keeps to its type, so no index leaves its array.
THEOREM ViewTypeOK ==
  ASSUME ~HiddenFullscreen
  PROVE  Spec => []TypeOK
<1>1. IInv => TypeOK
  BY DEF IInv, Consistent, TypeOK
<1> QED
  BY <1>1, ViewInvariant, PTL

\* A frame is in one list, its area's, once, and a freed area holds none.
THEOREM ViewFrameLists ==
  ASSUME ~HiddenFullscreen
  PROVE  Spec => []FrameLists
<1>1. IInv => FrameLists
  BY DEF IInv, Consistent, FrameLists, Running
<1> QED
  BY <1>1, ViewInvariant, PTL

\* A non-empty area has a selected frame, one of its own: the assertion of
\* area_attach never fails, and an empty area points at no frame.
THEOREM ViewAreaSel ==
  ASSUME ~HiddenFullscreen
  PROVE  Spec => []AreaSel
<1>1. IInv => AreaSel
  BY DEF IInv, Consistent, AreaSel, Running
<1> QED
  BY <1>1, ViewInvariant, PTL

\* sel, oldsel and revert never name a freed column.
THEOREM ViewSelInvariant ==
  ASSUME ~HiddenFullscreen
  PROVE  Spec => []ViewSelLive
<1>1. IInv => ViewSelLive
  BY DEF IInv, Consistent, ViewSelLive, Live, Running
<1> QED
  BY <1>1, ViewInvariant, PTL

\* Nor does area_detach read sel->sel in a column that it has freed, in the
\* middle of any handler (area_moveto does read from->floating there).
THEOREM ViewDetachReadsLive ==
  ASSUME ~HiddenFullscreen
  PROVE  Spec => []DetachReadsLive
<1>1. IInv => DetachReadsLive
  BY DEF IInv, Consistent, DetachReadsLive
<1> QED
  BY <1>1, ViewInvariant, PTL

\* A fullscreen client of a view floats there, and is what is selected.
THEOREM ViewFullscreenShown ==
  ASSUME ~HiddenFullscreen
  PROVE  Spec => []FullscreenShown
<1>1. IInv => FullscreenShown
  BY DEF IInv, Consistent, FullscreenShown, Live, Running
<1> QED
  BY <1>1, ViewInvariant, PTL

\* The client with the focus stays the selected one of the view on screen,
\* whatever a handler does but end fullscreen mode: frame_focus and area_focus
\* hand the focus on, and view_update ends in an area_focus that is not refused.
THEOREM ViewFocusKept ==
  ASSUME ~HiddenFullscreen
  PROVE  Spec => FocusKept
<1>1. ASSUME IInv, [Next]_view, FocusFollowsSel, view.full \subseteq view'.full
      PROVE  FocusFollowsSel'
  <2>1. CASE SelectView
    BY <1>1, <2>1, SelectViewStep
  <2>2. CASE LeaveView \/ LeaveViewByFocus \/ UpdateAll
    BY <1>1, <2>2, LeaveViewStep
  <2>3. CASE SelectToggle
    <3>1. Float \in Areas
      BY DEF Areas
    <3> QED
      BY <1>1, <2>3, <3>1, SelectAreaStep
  <2>4. ASSUME NEW a \in Areas, SelectArea(a) \/ SelectBeside(a)
        PROVE  FocusFollowsSel'
    BY <1>1, <2>4, SelectAreaStep
  <2>5. ASSUME NEW c \in Clients, NEW tiled \in BOOLEAN, Attach(c, tiled)
        PROVE  FocusFollowsSel'
    BY <1>1, <2>5, AttachStep
  <2>6. ASSUME NEW c \in Clients, NEW swap \in BOOLEAN,
               Detach(c) \/ SendToggle(c, swap)
        PROVE  FocusFollowsSel'
    BY <1>1, <2>6, DetachStep, SendToggleStep
  <2>7. ASSUME NEW c \in Clients,
               SelectFrame(c) \/ SelectClient(c) \/ FocusClient(c)
        PROVE  FocusFollowsSel'
    BY <1>1, <2>7, SelectClientStep
  <2>8. ASSUME NEW c \in Clients, NEW to \in Areas, NEW swap \in BOOLEAN,
               NEW junk \in BOOLEAN, Send(c, to, swap, junk)
        PROVE  FocusFollowsSel'
    BY <1>1, <2>8, SendStep
  <2>9. ASSUME NEW c \in Clients, NEW pos \in Areas \cup {nil},
               SendNewColumn(c, pos)
        PROVE  FocusFollowsSel'
    BY <1>1, <2>9, SendNewColumnStep
  <2>10. ASSUME NEW c \in Clients, NEW pos \in Clients \cup {nil},
                SendBy(c, pos)
         PROVE  FocusFollowsSel'
    BY <1>1, <2>10, SendByStep
  <2>11. ASSUME NEW c \in Clients, NEW d \in Clients, SwapBy(c, d)
         PROVE  FocusFollowsSel'
    BY <1>1, <2>11, SwapByStep
  <2>12. ASSUME NEW c \in Clients, NEW junk \in BOOLEAN,
                FullscreenOn(c) \/ FullscreenOff(c, junk)
         PROVE  FocusFollowsSel'
    BY <1>1, <2>12, FullscreenOnStep, FullscreenOffStep
  <2>13. ASSUME NEW c \in Clients, NEW val \in FloatingValues,
                SetFloating(c, val)
         PROVE  FocusFollowsSel'
    BY <1>1, <2>13, SetFloatingStep
  <2>14. CASE UNCHANGED view
    BY <1>1, <2>14 DEF FocusFollowsSel, Running
  <2> QED
    BY <1>1, <2>1, <2>2, <2>3, <2>4, <2>5, <2>6, <2>7, <2>8, <2>9, <2>10,
       <2>11, <2>12, <2>13, <2>14 DEF Next
<1>2. IInv /\ [Next]_view
        => [FocusFollowsSel /\ view.full \subseteq view'.full => FocusFollowsSel']_view
  BY <1>1
<1> QED
  BY <1>2, ViewInvariant, PTL DEF Spec, FocusKept

-----------------------------------------------------------------------------
(* Only the end of fullscreen mode ends fullscreen mode: no other handler  *)
(* takes a client out of full.                                             *)

Fulls(v, S) == "full" \in DOMAIN v /\ v.full = S

LEMMA FullFocus ==
  ASSUME NEW v, NEW S, Fulls(v, S), NEW a, NEW c
  PROVE  /\ Fulls(AreaFocus(v, a), S) /\ Fulls(FrameFocusCore(v, c), S)
         /\ Fulls(AreaSetselCore(v, a, c), S)
<1>1. \A b : Fulls(AreaFocus(v, b), S)
  BY DEF Fulls, AreaFocus
<1>2. \A d : Fulls(FrameFocusCore(v, d), S)
  <2> TAKE d
  <2> DEFINE b == v.f[d].area
             u == [v EXCEPT !.asel[b] = d]
             w == IF b = v.sel THEN u ELSE AreaFocus(u, b)
  <2>1. Fulls(u, S)
    BY DEF Fulls
  <2> HIDE DEF u, b
  <2>2. Fulls(w, S)
    BY <2>1 DEF Fulls, AreaFocus
  <2> HIDE DEF w
  <2>3. Fulls(ClientFocus(v, w, d), S)
    BY <2>2 DEF Fulls, ClientFocus
  <2> QED
    BY <2>3 DEF FrameFocusCore, w, u, b
<1>3. Fulls(AreaSetselCore(v, a, c), S)
  BY <1>2 DEF AreaSetselCore, Fulls
<1> QED
  BY <1>1, <1>2, <1>3

LEMMA FullUpdates ==
  ASSUME NEW v, NEW S, Fulls(v, S)
  PROVE  /\ Fulls(ColumnsUpdate(v), S) /\ Fulls(MarkFullscreen(v), S)
         /\ Fulls(AfterDetach(v), S) /\ Fulls(Created(v), S) /\ Fulls(Destroyed(v), S)
         /\ \A a : Fulls(AreaCreate(v, a), S)
<1>1. Fulls(ColumnsUpdate(v), S) /\ Fulls(MarkFullscreen(v), S)
  BY DEF Fulls, ColumnsUpdate, MarkFullscreen
<1>2. Fulls(AfterDetach(v), S)
  BY DEF Fulls, AfterDetach
<1>3. Fulls(Created(v), S)
  <2> DEFINE x == [v EXCEPT !.cols = <<FirstCol>>, !.sel = FirstCol]
  <2>1. Fulls(x, S)
    BY DEF Fulls
  <2> HIDE DEF x
  <2>2. Fulls([x EXCEPT !.selcol = 1, !.alive = TRUE], S)
    BY <2>1 DEF Fulls
  <2> QED
    BY <2>2 DEF Created, x
<1>4. Fulls(Destroyed(v), S)
  <2> DEFINE x == [v EXCEPT !.cols = <<>>, !.frames = [a \in Areas |-> <<>>]]
             y == [x EXCEPT !.asel = [a \in Areas |-> nil], !.sel = nil]
             z == [y EXCEPT !.oldsel = nil, !.revert = nil]
             u == [z EXCEPT !.selcol = 0, !.selected = FALSE]
  <2>1. Fulls(x, S)
    BY DEF Fulls
  <2> HIDE DEF x
  <2>2. Fulls(y, S)
    BY <2>1 DEF Fulls
  <2> HIDE DEF y
  <2>3. Fulls(z, S)
    BY <2>2 DEF Fulls
  <2> HIDE DEF z
  <2>4. Fulls(u, S)
    BY <2>3 DEF Fulls
  <2> HIDE DEF u
  <2>5. Fulls([u EXCEPT !.focus = nil, !.alive = FALSE], S)
    BY <2>4 DEF Fulls
  <2> QED
    BY <2>5 DEF Destroyed, x, y, z, u
<1>5. \A a : Fulls(AreaCreate(v, a), S)
  BY DEF Fulls, AreaCreate
<1> QED
  BY <1>1, <1>2, <1>3, <1>4, <1>5

LEMMA FullColumns ==
  ASSUME NEW v, NEW S, Fulls(v, S), NEW a, NEW c
  PROVE  /\ \A pos : Fulls(ColumnInsert(v, a, c, pos), S)
         /\ Fulls(ColumnDetach(v, c), S)
         /\ Fulls(FloatAttachCore(v, c), S)
<1>1. ASSUME NEW u, Fulls(u, S), NEW b
      PROVE  Fulls(ColumnDestroy(u, b), S) /\ Fulls(DestroyEmpty(u, b), S)
  <2> DEFINE x == [u EXCEPT !.cols = RemoveAt(@, IndexIn(u.cols, b)),
                            !.revert = IF @ = b THEN nil ELSE @,
                            !.oldsel = IF @ = b THEN nil ELSE @]
  <2>1. Fulls(x, S)
    BY <1>1 DEF Fulls
  <2> HIDE DEF x
  <2>2. Fulls(AreaDestroy(u, b), S)
    BY <2>1, FullFocus DEF AreaDestroy, x
  <2>3. Fulls(ColumnDestroy(u, b), S)
    BY <2>2, FullUpdates DEF ColumnDestroy
  <2> QED
    BY <1>1, <2>3 DEF DestroyEmpty
<1>2. ASSUME NEW pos
      PROVE  Fulls(ColumnInsert(v, a, c, pos), S)
  <2> DEFINE x == [v EXCEPT !.f[c] = [@ EXCEPT !.area = a,
                                               !.screen = 0,
                                               !.column = AreaIdx(v, a),
                                               !.colr = TRUE],
                            !.floating[c] = IF @ = "on" THEN "off" ELSE @,
                            !.frames[a] = FrameInsert(@, pos, c)]
  <2>1. Fulls(x, S)
    BY DEF Fulls
  <2> HIDE DEF x
  <2> QED
    BY <2>1, FullFocus DEF ColumnInsert, x
<1>3. Fulls(ColumnDetach(v, c), S)
  <2> DEFINE b == v.f[c].area
             rest == FrameRemove(v.frames[b], c)
             x == [v EXCEPT !.frames[b] = rest, !.f[c].area = nil]
             y == [x EXCEPT !.asel[b] = nil]
  <2>1. Fulls(x, S)
    BY DEF Fulls
  <2>2. Fulls(y, S)
    <3> HIDE DEF x
    <3> QED
      BY <2>1 DEF Fulls
  <2> HIDE DEF y
  <2>3. \A d : Fulls(AreaSetselCore(y, b, d), S)
    BY <2>2, FullFocus
  <2> HIDE DEF x
  <2>4. Fulls(ColumnRemove(v, c), S)
    BY <2>1, <2>3 DEF ColumnRemove, x, y
  <2> QED
    BY <1>1, <2>4 DEF ColumnDetach
<1>4. Fulls(FloatAttachCore(v, c), S)
  <2> DEFINE x == [v EXCEPT !.f[c].area = Float,
                            !.floating[c] = IF @ = "off" THEN "on" ELSE @,
                            !.frames[Float] = FrameInsert(@, v.asel[Float], c)]
  <2>1. Fulls(x, S)
    BY DEF Fulls
  <2> HIDE DEF x
  <2> QED
    BY <2>1, FullFocus DEF FloatAttachCore, x
<1> QED
  BY <1>2, <1>3, <1>4

LEMMA FullViewUpdate ==
  ASSUME NEW v, NEW S, Fulls(v, S)
  PROVE  Fulls(ViewUpdate(v), S)
<1>1. ASSUME NEW u, Fulls(u, S)
      PROVE  Fulls(MovePending(u), S)
  <2> DEFINE c == FirstPending(u)
             marked == [u EXCEPT !.f[c].oldarea = AreaIdx(u, u.f[c].area)]
             moved == FloatAttachCore(AfterDetach(ColumnDetach(marked, c)), c)
  <2>1. Fulls(marked, S)
    BY <1>1 DEF Fulls
  <2> HIDE DEF c, marked
  <2>2. Fulls(moved, S)
    BY <2>1, FullColumns, FullUpdates
  <2> HIDE DEF moved
  <2>3. Fulls(AreaSetselCore(moved, Float, c), S)
    BY <2>2, FullFocus
  <2> QED
    BY <1>1, <2>3 DEF MovePending, moved, marked, c
<1>2. \A u : Fulls(u, S) => Fulls(RefreshFocus(u), S)
  BY FullFocus DEF RefreshFocus
<1> QED
  BY <1>1, <1>2, FullUpdates DEF ViewUpdate

LEMMA FullMoves ==
  ASSUME NEW v, NEW S, Fulls(v, S), NEW a, NEW c
  PROVE  /\ Fulls(FrameFocus(v, c), S) /\ Fulls(AreaAttach(v, a, c), S)
         /\ Fulls(AreaDetach(v, c), S)
         /\ \A junk : Fulls(AreaMoveto(v, a, c, junk), S)
<1>1. ASSUME NEW u, Fulls(u, S), NEW d, NEW b
      PROVE  Fulls(FrameFocus(u, d), S) /\ Fulls(AreaSetsel(u, b, d), S)
  <2>1. Fulls(FrameFocusCore(u, d), S)
    BY <1>1, FullFocus
  <2>2. Fulls(ViewUpdate(FrameFocusCore(u, d)), S)
    BY <2>1, FullViewUpdate
  <2>3. Fulls([ViewUpdate(FrameFocusCore(u, d)) EXCEPT !.focus = d], S)
    BY <2>2 DEF Fulls
  <2>4. Fulls(FrameFocus(u, d), S)
    BY <2>1, <2>3 DEF FrameFocus
  <2> QED
    BY <1>1, <2>4 DEF AreaSetsel, Fulls
<1>2. ASSUME NEW u, Fulls(u, S), NEW b, NEW d
      PROVE  Fulls(AreaAttach(u, b, d), S) /\ Fulls(ColumnAttachRect(u, b, d), S)
  <2> DEFINE x == [u EXCEPT !.f[d].area = Float,
                            !.floating[d] = IF @ = "off" THEN "on" ELSE @,
                            !.frames[Float] = FrameInsert(@, u.asel[Float], d)]
  <2>1. Fulls(x, S)
    BY <1>2 DEF Fulls
  <2> HIDE DEF x
  <2>2. Fulls(FloatAttach(u, d), S)
    BY <1>1, <2>1 DEF FloatAttach, x
  <2>3. Fulls(ColumnAttach(u, b, d), S) /\ Fulls(ColumnAttachRect(u, b, d), S)
    BY <1>2, FullColumns DEF ColumnAttach, ColumnAttachRect
  <2> QED
    BY <2>2, <2>3 DEF AreaAttach
<1>3. Fulls(AreaDetach(v, c), S)
  <2> DEFINE x == [v EXCEPT !.frames[Float] = FrameRemove(v.frames[Float], c),
                            !.f[c].area = nil]
             y == [x EXCEPT !.asel[Float] = nil]
  <2>1. Fulls(x, S)
    BY DEF Fulls
  <2>2. Fulls(y, S)
    <3> HIDE DEF x
    <3> QED
      BY <2>1 DEF Fulls
  <2> HIDE DEF y
  <2>3. \A d : Fulls(AreaSetsel(y, Float, d), S)
    BY <1>1, <2>2
  <2> HIDE DEF x
  <2>4. \A w, s, p : Fulls(w, S) => Fulls(FloatYield(v, w, s, p), S)
    BY FullFocus DEF FloatYield
  <2>5. Fulls(FloatDetach(v, c), S)
    BY <2>1, <2>3, <2>4 DEF FloatDetach, x, y
  <2> QED
    BY <2>5, FullColumns, FullUpdates DEF AreaDetach
<1>4. \A junk : Fulls(AreaMoveto(v, a, c, junk), S)
  BY <1>2, <1>3 DEF AreaMoveto, Reattach
<1> QED
  BY <1>1, <1>2, <1>3, <1>4

LEMMA FullHandlers ==
  ASSUME NEW v, NEW S, Fulls(v, S), NEW a, NEW c
  PROVE  /\ \A tiled : Fulls(ViewAttach(v, c, tiled), S)
         /\ Fulls(ViewDetach(v, c), S) /\ Fulls(ViewUpdateAll(v), S)
         /\ Fulls(FindAreaCreate(v, a), S)
         /\ \A swap, junk : Fulls(SendArea(v, c, a, swap, junk), S)
         /\ \A d : Fulls(FrameSwap(v, c, d), S)
<1>1. ASSUME NEW tiled
      PROVE  Fulls(ViewAttach(v, c, tiled), S)
  <2>1. \A b : Fulls(AreaAttach(v, b, c), S)
    BY FullMoves
  <2>2. \A b : Fulls(FocusNew(AreaAttach(v, b, c), c), S)
    BY <2>1, FullMoves DEF FocusNew
  <2>3. \A w, b : Fulls(w, S) => Fulls(NoteOldsel(w, b), S)
    BY DEF NoteOldsel, Fulls
  <2>4. \A b, o : Fulls(ViewUpdate(NoteOldsel(FocusNew(AreaAttach(v, b, c), c), o)), S)
    BY <2>2, <2>3, FullViewUpdate
  <2>5. Fulls([v EXCEPT !.fault = "nil"], S)
    BY DEF Fulls
  <2> QED
    BY <2>4, <2>5 DEF ViewAttach
<1>2. Fulls(ViewDetach(v, c), S)
  <2> DEFINE w == ViewUpdate(AreaDetach(v, c))
  <2>1. Fulls(w, S)
    BY FullMoves, FullViewUpdate
  <2> HIDE DEF w
  <2>2. Fulls([w EXCEPT !.f[c] = NewFrame], S)
    BY <2>1 DEF Fulls
  <2> QED
    BY <2>2, FullUpdates DEF ViewDetach, DestroyUnused, w
<1>3. \A w : Fulls(w, S) => Fulls(ViewUpdateAll(w), S)
  BY FullViewUpdate, FullUpdates DEF ViewUpdateAll
<1>4. Fulls(FindAreaCreate(v, a), S)
  BY FullUpdates DEF FindAreaCreate
<1>5. \A d : Fulls(FrameSwap(v, c, d), S)
  <2> TAKE d
  <2>1. Fulls(Swapped(v, c, d), S)
    BY DEF Swapped, Fulls
  <2> QED
    BY <2>1, FullViewUpdate DEF FrameSwap
<1>6. \A swap, junk : Fulls(SendArea(v, c, a, swap, junk), S)
  <2>1. \A w : Fulls(w, S) => Fulls(Settle(w, c), S)
    BY <1>3, FullMoves DEF Settle
  <2>2. \A junk : Fulls(AreaMoveto(v, a, c, junk), S)
    BY FullMoves
  <2> QED
    BY <1>5, <2>1, <2>2 DEF SendArea
<1> QED
  BY <1>1, <1>2, <1>3, <1>4, <1>5, <1>6

LEMMA FullKept ==
  ASSUME IInv, [Next]_view,
         \A c \in Clients, junk \in BOOLEAN : ~FullscreenOff(c, junk)
  PROVE  view.full \subseteq view'.full
<1> DEFINE S == view.full
<1>1. Fulls(view, S)
  BY DEF IInv, Consistent, ViewRecord, Fulls
<1>2. \A w : Fulls(w, S) => w.full = S
  BY DEF Fulls
<1> HIDE DEF S
<1>3. Fulls(IF view.alive THEN view ELSE Created(view), S)
  BY <1>1, FullUpdates
<1>4. Fulls([view EXCEPT !.selected = FALSE, !.focus = nil], S)
  BY <1>1 DEF Fulls
<1>5. CASE SelectView
  <2> DEFINE v == IF view.alive THEN view ELSE Created(view)
  <2>1. view' = ViewUpdate([v EXCEPT !.selected = TRUE])
    BY <1>5 DEF SelectView
  <2> HIDE DEF v
  <2>2. Fulls([v EXCEPT !.selected = TRUE], S)
    BY <1>3 DEF Fulls, v
  <2>3. Fulls(view', S)
    BY <2>1, <2>2, FullViewUpdate
  <2> QED
    BY <1>2, <2>3 DEF S
<1>6. CASE LeaveView \/ LeaveViewByFocus \/ UpdateAll
  <2>1. Fulls(view', S)
    BY <1>1, <1>4, <1>6, FullHandlers DEF LeaveView, LeaveViewByFocus, UpdateAll
  <2> QED
    BY <1>2, <2>1 DEF S
<1>7. CASE SelectToggle \/ \E a \in Areas : SelectArea(a) \/ SelectBeside(a)
  <2>1. \A a, c : Fulls(AreaFocus(view, a), S) /\ Fulls(FrameFocus(AreaFocus(view, a), c), S)
    BY <1>1, FullFocus, FullMoves
  <2>2. Fulls(view', S)
    BY <1>7, <2>1 DEF SelectToggle, SelectArea, SelectBeside
  <2> QED
    BY <1>2, <2>2 DEF S
<1>8. ASSUME NEW c \in Clients, NEW tiled \in BOOLEAN, Attach(c, tiled)
      PROVE  view.full \subseteq view'.full
  <2>1. Fulls(view', S)
    BY <1>3, <1>8, FullHandlers DEF Attach
  <2> QED
    BY <1>2, <2>1 DEF S
<1>9. ASSUME NEW c \in Clients, Detach(c)
      PROVE  view.full \subseteq view'.full
  <2>1. Fulls(view', S)
    BY <1>1, <1>9, FullHandlers DEF Detach
  <2> QED
    BY <1>2, <2>1 DEF S
<1>10. ASSUME NEW c \in Clients, SelectFrame(c) \/ SelectClient(c) \/ FocusClient(c)
       PROVE  view.full \subseteq view'.full
  <2>1. \A a : Fulls(AreaFocus(view, a), S)
    BY <1>1, FullFocus
  <2>2. Fulls(FrameFocus(view, c), S) /\ \A a : Fulls(FrameFocus(AreaFocus(view, a), c), S)
    BY <1>1, <2>1, FullMoves
  <2>3. Fulls(view', S)
    BY <1>10, <2>2 DEF SelectFrame, SelectClient, FocusClient
  <2> QED
    BY <1>2, <2>3 DEF S
<1>11. ASSUME NEW c \in Clients, NEW to \in Areas, NEW swap \in BOOLEAN,
              NEW junk \in BOOLEAN, Send(c, to, swap, junk)
       PROVE  view.full \subseteq view'.full
  <2>1. Fulls(view', S)
    BY <1>1, <1>11, FullHandlers DEF Send
  <2> QED
    BY <1>2, <2>1 DEF S
<1>12. ASSUME NEW c \in Clients, NEW pos \in Areas \cup {nil}, SendNewColumn(c, pos)
       PROVE  view.full \subseteq view'.full
  <2>1. Fulls(AreaCreate(view, pos), S)
    BY <1>1, FullUpdates
  <2>2. \A to : Fulls(SendArea(AreaCreate(view, pos), c, to, FALSE, FALSE), S)
    BY <2>1, FullHandlers
  <2>3. Fulls(view', S)
    BY <1>12, <2>2 DEF SendNewColumn
  <2> QED
    BY <1>2, <2>3 DEF S
<1>13. ASSUME NEW c \in Clients, NEW pos \in Clients \cup {nil}, SendBy(c, pos)
       PROVE  view.full \subseteq view'.full
  <2> DEFINE a == view.f[c].area
             v == [view EXCEPT !.frames[a] = FrameInsert(FrameRemove(view.frames[a], c), pos, c)]
  <2>1. view' = ViewUpdateAll(FrameFocus(v, c))
    BY <1>13 DEF SendBy
  <2>2. Fulls(v, S)
    BY <1>1 DEF Fulls
  <2> HIDE DEF v
  <2>3. Fulls(FrameFocus(v, c), S)
    BY <2>2, FullMoves
  <2>4. Fulls(view', S)
    BY <2>1, <2>3, FullHandlers
  <2> QED
    BY <1>2, <2>4 DEF S
<1>14. ASSUME NEW c \in Clients, NEW d \in Clients, SwapBy(c, d)
       PROVE  view.full \subseteq view'.full
  <2>1. Fulls(FrameFocus(FrameSwap(view, c, d), c), S)
    BY <1>1, FullHandlers, FullMoves
  <2>2. Fulls(view', S)
    BY <1>14, <2>1, FullHandlers DEF SwapBy
  <2> QED
    BY <1>2, <2>2 DEF S
<1>15. ASSUME NEW c \in Clients, NEW swap \in BOOLEAN, SendToggle(c, swap)
       PROVE  view.full \subseteq view'.full
  <2>1. Fulls([view EXCEPT !.fault = "assert"], S)
    BY <1>1 DEF Fulls
  <2>2. \A idx, to :
          /\ Fulls(FindAreaCreate(view, idx), S)
          /\ Fulls(SendArea(FindAreaCreate(view, idx), c, to, swap, FALSE), S)
    BY <1>1, FullHandlers
  <2>3. Fulls(view', S)
    BY <1>15, <2>1, <2>2 DEF SendToggle
  <2> QED
    BY <1>2, <2>3 DEF S
<1>16. ASSUME NEW c \in Clients, FullscreenOn(c)
       PROVE  view.full \subseteq view'.full
  <2> DEFINE v == [view EXCEPT !.full = @ \cup {c}, !.f[c].oldarea = -1]
  <2>1. view' = IF InView(view, c) THEN ViewUpdate(v) ELSE v
    BY <1>16 DEF FullscreenOn
  <2>2. Fulls(v, S \cup {c})
    BY <1>1 DEF Fulls
  <2> HIDE DEF v
  <2>3. Fulls(view', S \cup {c})
    BY <2>1, <2>2, FullViewUpdate
  <2> QED
    BY <2>3 DEF S, Fulls
<1>17. ASSUME NEW c \in Clients, NEW val \in FloatingValues, SetFloating(c, val)
       PROVE  view.full \subseteq view'.full
  <2>1. Fulls(view', S)
    BY <1>1, <1>17 DEF SetFloating, Fulls
  <2> QED
    BY <1>2, <2>1 DEF S
<1> QED
  BY <1>5, <1>6, <1>7, <1>8, <1>9, <1>10, <1>11, <1>12, <1>13, <1>14, <1>15, <1>16, <1>17
     DEF Next

\* A client that is not fullscreen goes where area_moveto is told to put it.
LEMMA MovetoPlace ==
  ASSUME NEW v, Good(v), NEW c \in Clients, InView(v, c), c \notin v.full,
         NEW to \in LiveAreas(v), NEW junk \in BOOLEAN
  PROVE  AreaMoveto(v, to, c, junk).f[c].area = to
<1> DEFINE from == v.f[c].area
           u == AreaDetach(v, c)
           w == AreaMoveto(v, to, c, junk)
<1>1. CASE from = to
  BY <1>1 DEF AreaMoveto
<1>2. CASE from # to
  <2>1. /\ Good(u)
        /\ Keep(v, u)
        /\ u.f[c].area = nil
        /\ AreasStay(v, u, c)
    BY AreaDetachProps
  <2>2. u.fault = "none" /\ Sound(u) /\ FullFloat(u) /\ Pending(u) = {} /\ Chosen(u)
    BY <2>1 DEF Good, Sound, FullOK, FullFloat
  <2>3. w = IF to # Float /\ FromFloats(u, from, junk) /\ v.f[c].colr
            THEN ColumnAttachRect(u, to, c) ELSE AreaAttach(u, to, c)
    BY <1>2, <2>2 DEF AreaMoveto, Reattach
  <2> HIDE DEF u, w
  <2>4. to \in LiveAreas(u) /\ to \in Areas
    BY <1>2, <2>1, ViewTypes DEF AreasStay, Good, Sound
  <2>5. ~InView(u, c)
    BY <2>1 DEF InView
  <2>6. c \notin u.full
    BY <2>1 DEF Keep
  <2>7. Came(u, w, c, to)
    <3>1. CASE to # Float /\ FromFloats(u, from, junk) /\ v.f[c].colr
      BY <2>2, <2>3, <2>4, <2>5, <3>1, ColumnAttachRectProps
    <3>2. CASE ~(to # Float /\ FromFloats(u, from, junk) /\ v.f[c].colr)
      BY <2>2, <2>3, <2>4, <2>5, <2>6, <3>2, AreaAttachProps
    <3> QED
      BY <3>1, <3>2
  <2> QED
    BY <2>7 DEF Came, w
<1> QED
  BY <1>1, <1>2

LEMMA FoundColumn ==
  ASSUME NEW v, Good(v), NEW idx \in Int, FoundArea(v, idx) # nil
  PROVE  FoundArea(v, idx) \in ColIds
<1>1. v.cols \in Seq(ColIds) /\ v.cols # <<>> /\ Len(v.cols) \in Nat \ {0}
  BY ViewTypes, LenProperties, EmptySeq DEF Good, Sound, AreasOK
<1>2. CASE idx > Len(v.cols)
  BY <1>2 DEF FoundArea, NewCol, FreeCols
<1>3. CASE ~(idx > Len(v.cols))
  <2>1. (IF idx < 1 THEN 1 ELSE idx) \in 1 .. Len(v.cols)
    BY <1>1, <1>3
  <2>2. v.cols[IF idx < 1 THEN 1 ELSE idx] \in ColIds
    BY <1>1, <2>1, ElementOfSeq
  <2> QED
    BY <1>3, <2>2 DEF FoundArea, FindArea
<1> QED
  BY <1>2, <1>3

LEMMA FullscreenEnds ==
  ASSUME IInv, IInv', NEW c \in Clients, NEW junk \in BOOLEAN,
         FullscreenOff(c, junk), Running',
         InView(view, c), view.f[c].oldarea > 0
  PROVE  view'.f[c].area \in ColIds
<1> DEFINE v == [view EXCEPT !.full = @ \ {c}]
           old == view.f[c].oldarea
           w == FindAreaCreate(v, old)
           to == FoundArea(v, old)
           moved == AreaMoveto(w, to, c, junk)
<1>1. /\ Running
      /\ view' = IF ~InView(view, c) \/ old <= 0 THEN v
                 ELSE IF to = nil THEN [v EXCEPT !.fault = "nil"]
                 ELSE Refocus(moved, c, view.asel[view.f[c].area] = c)
  BY SMTT(30) DEF FullscreenOff
<1>2. Consistent(view) /\ view \in ViewRecord /\ view.fault = "none"
      /\ view.f \in [Clients -> FrameFields] /\ view.full \subseteq Clients
  BY <1>1, ViewTypes DEF IInv, Running, Consistent
<1>3. old \in Int
  BY <1>2 DEF FrameFields
<1>4. v \in ViewRecord
  BY <1>2 DEF ViewRecord
<1>5. /\ v.cols = view.cols /\ v.frames = view.frames /\ v.asel = view.asel
      /\ v.sel = view.sel /\ v.oldsel = view.oldsel /\ v.revert = view.revert
      /\ v.f = view.f /\ v.full = view.full \ {c} /\ v.fault = "none"
      /\ v.alive = view.alive /\ v.selected = view.selected
      /\ v.focus = view.focus
  BY <1>2 DEF ViewRecord
<1> HIDE DEF moved
<1>17. view' = IF to = nil THEN [v EXCEPT !.fault = "nil"]
              ELSE Refocus(moved, c, view.asel[view.f[c].area] = c)
  <2> HIDE DEF v, to
  <2>1. ~(old <= 0)
    BY <1>3
  <2> QED
    BY <1>1, <2>1
<1>6. to # nil
  <2> HIDE DEF to
  <2>1. [v EXCEPT !.fault = "nil"].fault = "nil"
    BY <1>4 DEF ViewRecord
  <2> QED
    BY <1>17, <2>1 DEF Running
<1> HIDE DEF v, old
<1>7. Consistent(v)
  <2>1. \A e \in v.full : e \in view.full \/ ~InView(view, e)
    BY <1>5
  <2>2. \A e \in Clients : v.f[e].area = view.f[e].area
    BY <1>5
  <2> QED
    BY <1>2, <1>4, <1>5, <2>1, <2>2, ConsistentLike
<1>8. view.alive
  BY <1>2, CreatedGood
<1>9. Good(v) /\ InView(v, c) /\ c \notin v.full
  BY <1>5, <1>7, <1>8, ConsistentGood DEF InView
<1>10. Good(w) /\ Moved(v, w) /\ to \in LiveAreas(w) /\ w.f = v.f
  BY <1>3, <1>6, <1>9, FindAreaCreateGood
<1>11. to \in ColIds
  BY <1>3, <1>6, <1>9, FoundColumn
<1> HIDE DEF w, to
<1>12. InView(w, c) /\ c \notin w.full
  BY <1>9, <1>10 DEF Moved, Keep, InView
<1>13. Good(moved) /\ moved.f[c].area = to
  BY <1>10, <1>12, AreaMovetoProps, MovetoPlace DEF moved
<1>14. InView(moved, c)
  BY <1>11, <1>13, AreaAssumption DEF InView
<1>15. FrameFocus(moved, c).f[c].area = to
  <2>1. Sound(moved) /\ Pending(moved) = {}
    BY <1>13 DEF Good, FullOK
  <2>2. SameAreas(moved, FrameFocus(moved, c))
    BY <1>14, <2>1, FrameFocusProps
  <2> QED
    BY <1>13, <2>2 DEF SameAreas
<1>16. view' = moved \/ view' = FrameFocus(moved, c)
  BY <1>6, <1>17 DEF Refocus
<1> QED
  BY <1>11, <1>13, <1>15, <1>16

\* A client that view_update took out of a column is put in one again when
\* its fullscreen mode ends: however many columns have come and gone, it
\* goes neither to a freed one nor to the floating layer (fullscreen).
THEOREM ViewRestoresColumn ==
  ASSUME ~HiddenFullscreen
  PROVE  Spec => RestoresColumn
<1> DEFINE Restored(c) == Running' /\ InView(view, c) /\ view.f[c].oldarea > 0
                            => view'.f[c].area \in ColIds
           A == \A c \in view.full \ view'.full : Restored(c)
<1>1. IInv /\ [Next]_view => [A]_view
  <2> SUFFICES ASSUME IInv, [Next]_view, NEW c \in view.full, c \notin view'.full
               PROVE  Restored(c)
    OBVIOUS
  <2>1. IInv'
    BY NextIInv
  <2>2. PICK d \in Clients, junk \in BOOLEAN : FullscreenOff(d, junk)
    BY FullKept
  <2>3. c = d
    <3> DEFINE v == [view EXCEPT !.full = @ \ {d}]
    <3>1. Fulls(v, view.full \ {d})
      BY DEF IInv, Consistent, ViewRecord, Fulls
    <3>2. Fulls([v EXCEPT !.fault = "nil"], view.full \ {d})
      BY <3>1 DEF Fulls
    <3>3. \A idx, to : Fulls(AreaMoveto(FindAreaCreate(v, idx), to, d, junk),
                             view.full \ {d})
      <4> HIDE DEF v
      <4> QED
        BY <3>1, FullHandlers, FullMoves
    <3>4. \A w, b : Fulls(w, view.full \ {d}) => Fulls(Refocus(w, d, b), view.full \ {d})
      BY FullMoves DEF Refocus
    <3>5. Fulls(view', view.full \ {d})
      BY <2>2, <3>1, <3>2, <3>3, <3>4 DEF FullscreenOff
    <3> QED
      BY <3>5 DEF Fulls
  <2> QED
    BY <2>1, <2>2, <2>3, FullscreenEnds
<1> QED
  BY <1>1, ViewInvariant, PTL DEF Spec, RestoresColumn
=============================================================================
