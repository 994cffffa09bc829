---------------------------- MODULE Keys_proofs -----------------------------
(***************************************************************************)
(* Proofs about the key bindings: the theorems are at the end.             *)
(*                                                                         *)
(* The argument for Outcome.  The list that match_keys leaves is walked by *)
(* the next keystroke; while nothing else has run match_keys since, it     *)
(* holds each binding that the strokes so far begin, once, at the last of  *)
(* these strokes (Lists).  That a list which is built by pushing each hit  *)
(* on its front holds just the hits is LinkedList; the rest is that a walk *)
(* one keystroke on drops the bindings that the keystroke does not fit.    *)
(***************************************************************************)
EXTENDS Keys, SequenceTheorems, WellFoundedInduction, TLAPS

AllStrokes == Strokes \cup {BadStroke}

NodesOf(keys) == UNION {{i} \X (1 .. Len(keys[i])) : i \in DOMAIN keys}

Activation == [done : Nat \X Nat, at : {"flush", "read"}, strokes : Seq(AllStrokes),
               disturbed : BOOLEAN]

Message == [type : {"press"}, stroke : Strokes, locks : SUBSET {"num"}] \cup [type : {"focusout"}]

TypeOK ==
  /\ key \in Seq(Seq(AllStrokes)) /\ \A i \in DOMAIN key : key[i] # <<>>
  /\ tnext \in [NodesOf(key) -> NodesOf(key) \cup {Nil}]
  /\ numlock \in BOOLEAN /\ lockmap \in BOOLEAN /\ crashed \in BOOLEAN
  /\ stack \in Seq(Activation) /\ \A i \in DOMAIN stack : stack[i].done \in NodesOf(key)
  /\ keyboard \in {"free", "key", "wmii"}
  /\ queue \in Seq(Message)

(* The bindings that the strokes begin, each at the last of them.          *)
Candidates(keys, strokes) ==
  {<<i, Len(strokes)>> : i \in {i \in DOMAIN keys : Begins(strokes, keys[i])}}

(* The places of a list, up to its Nils, hold the members of nodes, each   *)
(* once.                                                                   *)
Lists(at, nodes) ==
  /\ {at[i] : i \in DOMAIN at} \ {Nil} = nodes
  /\ \A i, j \in DOMAIN at : at[i] = at[j] /\ at[i] # Nil => i = j

ListOf(size, t, n) ==
  LET at[i \in 1 .. size] ==
        IF i = 1 THEN n ELSE IF at[i - 1] = Nil THEN Nil ELSE t[at[i - 1]]
  IN  at

Reading(keys, t, act) ==
  /\ act.strokes # <<>> /\ act.done \in Candidates(keys, act.strokes)
  /\ Lists(ListOf(Len(keys) + 1, t, act.done), Candidates(keys, act.strokes))

(* Only the innermost kpress can be undisturbed.                           *)
ReadingInv ==
  /\ \A i \in DOMAIN stack : i < Len(stack) => stack[i].disturbed = TRUE
  /\ stack # <<>> /\ stack[Len(stack)].disturbed = FALSE => Reading(key, tnext, stack[Len(stack)])

IInv == TypeOK /\ TableGrabbed /\ KeyboardReleased /\ ReadingInv
-----------------------------------------------------------------------------
LEMMA NatMin ==
  ASSUME NEW S, S \subseteq Nat, S # {}
  PROVE  \E m \in S : \A k \in S : m <= k
<1> DEFINE R == OpToRel(<, Nat)
<1>1. PICK m \in S : \A k \in S : <<k, m>> \notin R
  <2>1. IsWellFoundedOn(R, Nat)
    BY NatLessThanWellFounded
  <2> HIDE DEF R
  <2> QED BY <2>1, WFMin
<1>2. \A k \in S : ~(k < m)
  BY <1>1 DEF OpToRel
<1> QED BY <1>2

LEMMA NatMax ==
  ASSUME NEW n \in Nat, NEW S, S \subseteq 1 .. n, S # {}
  PROVE  \E m \in S : \A k \in S : k <= m
<1> DEFINE T == {n - i : i \in S}
<1>0. \A i \in S : n - i \in Nat
  OBVIOUS
<1>1. T \subseteq Nat /\ T # {}
  BY <1>0
<1> HIDE DEF T
<1>2. PICK x \in T : \A y \in T : x <= y
  BY <1>1, NatMin
<1>3. PICK m \in S : x = n - m
  BY DEF T
<1>4. \A k \in S : n - m <= n - k
  BY <1>2, <1>3 DEF T
<1> QED BY <1>4

(* The order of the places of a list.                                      *)
Size == Len(key) + 1

IsList(t, n, at) ==
  at = [i \in 1 .. Size |-> IF i = 1 THEN n ELSE IF at[i - 1] = Nil THEN Nil ELSE t[at[i - 1]]]

LEMMA ListExists ==
  ASSUME NEW t, NEW n, Size \in Nat
  PROVE  IsList(t, n, List(t, n))
<1> DEFINE Is(m, at) ==
             at = [i \in 1 .. m |-> IF i = 1 THEN n ELSE IF at[i - 1] = Nil THEN Nil ELSE t[at[i - 1]]]
           bad == {m \in Nat : ~ \E at : Is(m, at)}
<1>1. ASSUME bad # {} PROVE FALSE
  <2>1. PICK m \in bad : \A k \in bad : m <= k
    <3>1. bad \subseteq Nat
      OBVIOUS
    <3> HIDE DEF bad
    <3> QED BY <1>1, <3>1, NatMin
  <2>2. m \in Nat /\ ~ \E at : Is(m, at)
    OBVIOUS
  <2>3. m # 0
    <3> DEFINE g == [i \in 1 .. 0 |-> n]
    <3>1. Is(0, g)
      OBVIOUS
    <3> QED BY <3>1, <2>2
  <2>4. m - 1 \in Nat /\ m - 1 \notin bad
    <3>1. m - 1 \in Nat /\ ~(m <= m - 1)
      BY <2>2, <2>3
    <3> HIDE DEF bad
    <3> QED BY <2>1, <3>1
  <2>5. PICK at : Is(m - 1, at)
    BY <2>4
  <2> DEFINE last == IF m = 1 THEN n ELSE IF at[m - 1] = Nil THEN Nil ELSE t[at[m - 1]]
             new == [i \in 1 .. m |-> IF i = m THEN last ELSE at[i]]
  <2>6. \A i \in 1 .. m : new[i] = IF i = 1 THEN n
                                   ELSE IF new[i - 1] = Nil THEN Nil ELSE t[new[i - 1]]
    <3> TAKE i \in 1 .. m
    <3>1. CASE i = m /\ i = 1
      BY <2>2, <2>3, <3>1
    <3>2. CASE i = m /\ i # 1
      <4>1. i - 1 \in 1 .. m /\ i - 1 # m
        BY <2>2, <3>2
      <4>2. new[i] = last /\ new[i - 1] = at[m - 1]
        BY <3>2, <4>1
      <4> HIDE DEF new
      <4> QED BY <4>2, <3>2
    <3>3. CASE i # m
      <4>1. i \in 1 .. m - 1 /\ new[i] = at[i]
        BY <2>2, <3>3
      <4>2. i # 1 => new[i - 1] = at[i - 1]
        BY <2>2, <3>3
      <4> HIDE DEF new
      <4>3. at[i] = IF i = 1 THEN n ELSE IF at[i - 1] = Nil THEN Nil ELSE t[at[i - 1]]
        BY <2>5, <4>1
      <4> QED BY <4>1, <4>2, <4>3
    <3> QED BY <3>1, <3>2, <3>3
  <2>7. new = [i \in 1 .. m |-> new[i]]
    OBVIOUS
  <2> HIDE DEF new
  <2>8. Is(m, new)
    BY <2>6, <2>7
  <2> QED BY <2>2, <2>8
<1>2. \E at : Is(Size, at)
  <2>1. Size \notin bad
    BY <1>1
  <2> HIDE DEF Size
  <2> QED BY <2>1
<1>3. List(t, n) = CHOOSE at : Is(Size, at)
  BY DEF List, Size
<1> HIDE DEF bad
<1> QED BY <1>2, <1>3 DEF IsList

(* The list, place by place, when the links stay among its nodes.          *)
LEMMA ListIs ==
  ASSUME key \in Seq(Seq(AllStrokes)), NEW D, NEW t \in [D -> D \cup {Nil}], NEW n \in D \cup {Nil}
  PROVE  /\ Size \in Nat \ {0}
         /\ List(t, n) \in [1 .. Size -> D \cup {Nil}]
         /\ List(t, n)[1] = n
         /\ \A i \in 2 .. Size :
              List(t, n)[i] = IF List(t, n)[i - 1] = Nil THEN Nil ELSE t[List(t, n)[i - 1]]
<1> DEFINE at == List(t, n)
<1>0. Size \in Nat \ {0}
  BY DEF Size
<1>1. IsList(t, n, at)
  BY <1>0, ListExists
<1> HIDE DEF at
<1>2. /\ at[1] = n
      /\ \A i \in 2 .. Size : at[i] = IF at[i - 1] = Nil THEN Nil ELSE t[at[i - 1]]
      /\ at = [i \in 1 .. Size |-> at[i]]
  BY <1>0, <1>1 DEF IsList
<1> DEFINE bad == {i \in 1 .. Size : at[i] \notin D \cup {Nil}}
<1>3. ASSUME bad # {} PROVE FALSE
  <2>1. PICK i \in bad : \A k \in bad : i <= k
    <3>1. bad \subseteq Nat
      BY <1>0
    <3> HIDE DEF bad
    <3> QED BY <1>3, <3>1, NatMin
  <2>2. i \in 1 .. Size /\ at[i] \notin D \cup {Nil}
    OBVIOUS
  <2>3. i # 1
    BY <2>2, <1>2
  <2>4. i - 1 \in 1 .. Size /\ i \in 2 .. Size /\ ~(i <= i - 1)
    BY <2>2, <2>3, <1>0
  <2>5. at[i - 1] \in D \cup {Nil}
    BY <2>1, <2>4
  <2>6. at[i] = IF at[i - 1] = Nil THEN Nil ELSE t[at[i - 1]]
    BY <2>4, <1>2
  <2> QED BY <2>2, <2>5, <2>6
<1>4. \A i \in 1 .. Size : at[i] \in D \cup {Nil}
  BY <1>3
<1>5. at \in [1 .. Size -> D \cup {Nil}]
  BY <1>2, <1>4
<1> QED BY <1>0, <1>2, <1>5 DEF at

LEMMA BeforeIs ==
  ASSUME NEW n \in Nat, NEW D, Nil \notin D, NEW hits \in [1 .. n -> D \cup {Nil}], NEW i \in Nat
  PROVE  \/ /\ Before(hits, i) = Nil
            /\ \A q \in Places(hits) : ~(q < i)
         \/ \E p \in Places(hits) : /\ p \in 1 .. n /\ p < i
                                    /\ Before(hits, i) = hits[p] /\ hits[p] \in D
                                    /\ \A q \in Places(hits) : q < i => q <= p
<1> DEFINE earlier == {j \in Places(hits) : j < i}
           p == CHOOSE j \in earlier : \A k \in earlier : k <= j
<1>1. CASE earlier = {}
  BY <1>1 DEF Before
<1>2. CASE earlier # {}
  <2>1. earlier \subseteq 1 .. n
    BY DEF Places
  <2>2. \E j \in earlier : \A k \in earlier : k <= j
    <3> HIDE DEF earlier
    <3> QED BY <1>2, <2>1, NatMax
  <2>3. p \in earlier /\ \A k \in earlier : k <= p
    BY <2>2
  <2>4. Before(hits, i) = hits[p]
    BY <1>2 DEF Before
  <2> HIDE DEF p
  <2>5. p \in Places(hits) /\ p \in 1 .. n /\ p < i /\ hits[p] \in D
    BY <2>1, <2>3 DEF Places
  <2>6. \A q \in Places(hits) : q < i => q <= p
    BY <2>3
  <2> QED BY <2>4, <2>5, <2>6
<1> QED BY <1>1, <1>2

HitNodes(hits) == {hits[i] : i \in 1 .. Size} \ {Nil}

(* The list that match_keys returns holds the hits, each once: walking it  *)
(* goes through their places from the last to the first.                   *)
LEMMA LinkedList ==
  ASSUME key \in Seq(Seq(AllStrokes)), NEW D, Nil \notin D, NEW t \in [D -> D \cup {Nil}],
         NEW hits \in [1 .. Size -> D \cup {Nil}],
         \A i, j \in 1 .. Size : hits[i] = hits[j] /\ hits[i] # Nil => i = j
  PROVE  /\ Linked(t, hits) \in [D -> D \cup {Nil}] /\ Found(hits) \in D \cup {Nil}
         /\ Found(hits) = Nil => \A i \in 1 .. Size : hits[i] = Nil
         /\ Found(hits) # Nil => \E i \in 1 .. Size : Found(hits) = hits[i]
         /\ Lists(List(Linked(t, hits), Found(hits)), HitNodes(hits))
<1> DEFINE N == Size
           l == Linked(t, hits)
           at == List(l, Found(hits))
<1>1. N \in Nat /\ N > 0 /\ Len(key) + 2 = N + 1
  BY DEF Size
<1> HIDE DEF N
<1>2. /\ \A q \in Places(hits) : q \in 1 .. N /\ hits[q] \in D /\ hits[q] # Nil
      /\ \A q \in 1 .. N : hits[q] # Nil => q \in Places(hits)
  BY DEF Places, N
<1>3. \A p, q \in 1 .. N : hits[p] = hits[q] /\ hits[p] # Nil => p = q
  BY DEF N
<1>4. \A i \in Nat :
        \/ /\ Before(hits, i) = Nil
           /\ \A q \in Places(hits) : ~(q < i)
        \/ \E p \in Places(hits) : /\ p \in 1 .. N /\ p < i
                                   /\ Before(hits, i) = hits[p] /\ hits[p] \in D
                                   /\ \A q \in Places(hits) : q < i => q <= p
  <2>1. hits \in [1 .. N -> D \cup {Nil}]
    BY DEF N
  <2> HIDE DEF N
  <2> QED BY <1>1, <2>1, BeforeIs
<1>5. Found(hits) = Before(hits, N + 1)
  BY <1>1 DEF Found
<1>6. \A i \in Nat : Before(hits, i) \in D \cup {Nil}
  BY <1>4
<1>7. l \in [D -> D \cup {Nil}] /\ \A p \in Places(hits) : l[hits[p]] = Before(hits, p)
  <2>1. DOMAIN t = D /\ DOMAIN hits = 1 .. N
    BY DEF N
  <2>2. ASSUME NEW m \in D, NEW p \in Places(hits), hits[p] = m
        PROVE  l[m] = Before(hits, p)
    <3> DEFINE places == {i \in DOMAIN hits : hits[i] = m}
    <3>1. places = {p}
      BY <2>1, <2>2, <1>2, <1>3
    <3>2. (CHOOSE i \in places : TRUE) = p
      BY <3>1
    <3>3. l[m] = IF places = {} THEN t[m] ELSE Before(hits, CHOOSE i \in places : TRUE)
      BY <2>1 DEF Linked
    <3> HIDE DEF places
    <3> QED BY <3>1, <3>2, <3>3
  <2>3. ASSUME NEW m \in D, \A p \in Places(hits) : hits[p] # m
        PROVE  l[m] = t[m]
    <3> DEFINE places == {i \in DOMAIN hits : hits[i] = m}
    <3>1. places = {}
      BY <2>1, <2>3, <1>2
    <3>3. l[m] = IF places = {} THEN t[m] ELSE Before(hits, CHOOSE i \in places : TRUE)
      BY <2>1 DEF Linked
    <3> HIDE DEF places
    <3> QED BY <3>1, <3>3
  <2>4. \A m \in D : l[m] \in D \cup {Nil}
    BY <2>2, <2>3, <1>1, <1>2, <1>6
  <2>5. l = [m \in D |-> l[m]]
    BY <2>1 DEF Linked
  <2> HIDE DEF l
  <2> QED BY <2>2, <2>4, <2>5, <1>2
<1> HIDE DEF l
<1>8. Found(hits) \in D \cup {Nil}
  BY <1>1, <1>5, <1>6
<1>9. /\ at \in [1 .. N -> D \cup {Nil}]
      /\ at[1] = Found(hits)
      /\ \A i \in 2 .. N : at[i] = IF at[i - 1] = Nil THEN Nil ELSE l[at[i - 1]]
  BY <1>7, <1>8, ListIs DEF N
<1> HIDE DEF at
<1> DEFINE Done(i) == \A q \in Places(hits) : \E j \in 1 .. i - 1 : at[j] = hits[q]
           At(i, p) == /\ p \in Places(hits) /\ at[i] = hits[p] /\ p <= N + 1 - i
                       /\ \A q \in Places(hits) : q > p => \E j \in 1 .. i - 1 : at[j] = hits[q]
                       /\ \A j \in 1 .. i - 1 : \E q \in Places(hits) : q > p /\ at[j] = hits[q]
           Good(i) == IF at[i] = Nil THEN Done(i) ELSE \E p \in Places(hits) : At(i, p)
           bad == {i \in 1 .. N : ~Good(i)}
<1>10. Good(1)
  <2>1. CASE Found(hits) = Nil
    <3>1. \A q \in Places(hits) : FALSE
      BY <2>1, <1>1, <1>2, <1>4, <1>5
    <3> QED BY <3>1, <2>1, <1>9
  <2>2. CASE Found(hits) # Nil
    <3>1. PICK p \in Places(hits) :
             p \in 1 .. N /\ Found(hits) = hits[p] /\ \A q \in Places(hits) : q < N + 1 => q <= p
      BY <2>2, <1>1, <1>4, <1>5
    <3>2. \A q \in Places(hits) : ~(q > p)
      BY <3>1, <1>1, <1>2
    <3>3. p <= N + 1 - 1
      BY <3>1, <1>1
    <3>4. At(1, p)
      BY <3>1, <3>2, <3>3, <1>9
    <3> QED BY <3>4, <2>2, <1>9
  <2> QED BY <2>1, <2>2
<1>11. ASSUME NEW i \in 2 .. N, Good(i - 1)
       PROVE  Good(i)
  <2>0. i - 1 \in 1 .. N /\ at[i] = IF at[i - 1] = Nil THEN Nil ELSE l[at[i - 1]]
    <3>1. i - 1 \in 1 .. N
      BY <1>1
    <3> QED BY <3>1, <1>9
  <2>1. CASE at[i - 1] = Nil
    <3>1. at[i] = Nil /\ Done(i - 1)
      BY <2>0, <2>1, <1>11
    <3>2. \A j \in 1 .. (i - 1) - 1 : j \in 1 .. i - 1
      BY <1>1
    <3> QED BY <3>1, <3>2
  <2>2. CASE at[i - 1] # Nil
    <3>1. PICK p \in Places(hits) : At(i - 1, p)
      BY <2>2, <1>11
    <3>2. at[i] = Before(hits, p) /\ p \in 1 .. N
      BY <3>1, <2>0, <2>2, <1>2, <1>7
    <3>3. \A j \in 1 .. (i - 1) - 1 : j \in 1 .. i - 1
      BY <1>1
    <3>4. \A q \in Places(hits) : q >= p => \E j \in 1 .. i - 1 : at[j] = hits[q]
      <4> TAKE q \in Places(hits)
      <4>1. CASE q = p
        BY <4>1, <3>1, <2>0
      <4>2. CASE q > p
        BY <4>2, <3>1, <3>3
      <4> QED BY <4>1, <4>2, <3>2, <1>2
    <3>5. CASE at[i] = Nil
      <4>0. p \in Nat /\ Before(hits, p) = Nil
        BY <3>2, <3>5
      <4>1. \A q \in Places(hits) : ~(q < p)
        BY <4>0, <1>4
      <4>2. \A q \in Places(hits) : q >= p
        BY <4>1, <3>2, <1>2
      <4> QED BY <3>4, <3>5, <4>2
    <3>6. CASE at[i] # Nil
      <4>1. PICK r \in Places(hits) : r \in 1 .. N /\ r < p /\ Before(hits, p) = hits[r]
                                      /\ \A q \in Places(hits) : q < p => q <= r
        BY <3>2, <3>6, <1>4
      <4>2. at[i] = hits[r]
        BY <3>2, <4>1
      <4>3. r <= N + 1 - i
        <5>1. p <= N + 1 - (i - 1)
          BY <3>1
        <5> QED BY <5>1, <4>1, <3>2, <1>1
      <4>4. \A q \in Places(hits) : q > r => q >= p
        BY <4>1, <3>2, <1>2
      <4>5. \A q \in Places(hits) : q > r => \E j \in 1 .. i - 1 : at[j] = hits[q]
        BY <4>4, <3>4
      <4>6. \A j \in 1 .. i - 1 : \E q \in Places(hits) : q > r /\ at[j] = hits[q]
        <5> TAKE j \in 1 .. i - 1
        <5>1. CASE j = i - 1
          BY <5>1, <4>1, <3>1
        <5>2. CASE j # i - 1
          <6>1. j \in 1 .. (i - 1) - 1
            BY <5>2, <1>1
          <6>2. PICK q \in Places(hits) : q > p /\ at[j] = hits[q]
            BY <6>1, <3>1
          <6>3. q > r
            BY <6>2, <4>1, <1>2
          <6> QED BY <6>2, <6>3
        <5> QED BY <5>1, <5>2
      <4>7. At(i, r)
        BY <4>2, <4>3, <4>5, <4>6
      <4> QED BY <4>7, <3>6
    <3> QED BY <3>5, <3>6
  <2> QED BY <2>1, <2>2
<1>12. ASSUME bad # {} PROVE FALSE
  <2>1. PICK i \in bad : \A k \in bad : i <= k
    <3>1. bad \subseteq Nat
      BY <1>1
    <3> HIDE DEF bad
    <3> QED BY <1>12, <3>1, NatMin
  <2> HIDE DEF Good
  <2>2. i \in 1 .. N /\ ~Good(i)
    OBVIOUS
  <2>3. i # 1
    BY <2>2, <1>10
  <2>4. i \in 2 .. N /\ i - 1 \in 1 .. N /\ ~(i <= i - 1)
    BY <2>2, <2>3, <1>1
  <2>5. Good(i - 1)
    BY <2>1, <2>4
  <2> QED BY <2>2, <2>4, <2>5, <1>11
<1> HIDE DEF Good
<1>13. \A i \in 1 .. N : Good(i)
  BY <1>12
<1> USE DEF Good
<1>14. \A q \in Places(hits) : \E j \in 1 .. N : at[j] = hits[q]
  <2> TAKE q \in Places(hits)
  <2>0. N \in 1 .. N /\ Good(N)
    <3>1. N \in 1 .. N
      BY <1>1
    <3> HIDE DEF Good
    <3> QED BY <3>1, <1>13
  <2>1. CASE at[N] = Nil
    BY <2>0, <2>1, <1>1
  <2>2. CASE at[N] # Nil
    <3>1. PICK p \in Places(hits) : At(N, p)
      BY <2>0, <2>2
    <3>2. p = 1
      BY <3>1, <1>1, <1>2
    <3>3. q = 1 \/ q > 1
      BY <1>2
    <3>4. CASE q > 1
      <4>1. \E j \in 1 .. N - 1 : at[j] = hits[q]
        BY <3>1, <3>2, <3>4
      <4> QED BY <4>1, <1>1
    <3>5. CASE q = 1
      BY <3>1, <3>2, <3>5, <2>0
    <3> QED BY <3>3, <3>4, <3>5
  <2> QED BY <2>1, <2>2
<1>15. \A i \in 1 .. N : at[i] # Nil => \E p \in Places(hits) : at[i] = hits[p]
  BY <1>13
<1>16. ASSUME NEW i \in 1 .. N, NEW j \in 1 .. N, i < j, at[j] # Nil, at[i] = at[j]
       PROVE  FALSE
  <2>1. PICK p \in Places(hits) : At(j, p)
    BY <1>13, <1>16
  <2>2. i \in 1 .. j - 1
    BY <1>16, <1>1
  <2>3. PICK q \in Places(hits) : q > p /\ at[i] = hits[q]
    BY <2>1, <2>2
  <2>4. hits[q] = hits[p]
    BY <2>1, <2>3, <1>16
  <2>5. q = p
    BY <2>4, <1>2, <1>3
  <2> QED BY <2>3, <2>5, <1>2
<1> HIDE DEF Good
<1>17. Lists(at, {hits[i] : i \in 1 .. N} \ {Nil})
  <2>1. {at[i] : i \in 1 .. N} \ {Nil} = {hits[i] : i \in 1 .. N} \ {Nil}
    <3>1. ASSUME NEW i \in 1 .. N, at[i] # Nil
          PROVE  \E p \in 1 .. N : at[i] = hits[p]
      BY <3>1, <1>2, <1>15
    <3>2. ASSUME NEW q \in 1 .. N, hits[q] # Nil
          PROVE  \E j \in 1 .. N : at[j] = hits[q]
      BY <3>2, <1>2, <1>14
    <3>3. {at[i] : i \in 1 .. N} \ {Nil} \subseteq {hits[i] : i \in 1 .. N} \ {Nil}
      BY <3>1
    <3>4. {hits[i] : i \in 1 .. N} \ {Nil} \subseteq {at[i] : i \in 1 .. N} \ {Nil}
      <4>1. \A q \in 1 .. N : hits[q] # Nil => hits[q] \in {at[i] : i \in 1 .. N}
        <5> TAKE q \in 1 .. N
        <5> HAVE hits[q] # Nil
        <5>1. PICK j \in 1 .. N : at[j] = hits[q]
          BY <3>2
        <5> QED BY <5>1
      <4> QED BY <4>1
    <3> QED BY <3>3, <3>4
  <2>2. ASSUME NEW i \in 1 .. N, NEW j \in 1 .. N, at[i] = at[j], at[i] # Nil
        PROVE  i = j
    <3>1. i < j \/ j < i \/ i = j
      BY <1>1
    <3> QED BY <3>1, <2>2, <1>16
  <2>3. DOMAIN at = 1 .. N
    BY <1>9
  <2> QED BY <2>1, <2>2, <2>3 DEF Lists
<1>18. Found(hits) = Nil => \A i \in 1 .. N : hits[i] = Nil
  <2>1. ASSUME Found(hits) = Nil, NEW i \in 1 .. N, hits[i] # Nil
        PROVE  FALSE
    <3>1. N + 1 \in Nat /\ Before(hits, N + 1) = Nil
      BY <2>1, <1>1, <1>5
    <3>2. \A q \in Places(hits) : ~(q < N + 1)
      BY <3>1, <1>4
    <3>3. i \in Places(hits) /\ i < N + 1
      BY <2>1, <1>1, <1>2
    <3> QED BY <3>2, <3>3
  <2> QED BY <2>1
<1>19. Found(hits) # Nil => \E i \in 1 .. N : Found(hits) = hits[i]
  BY <1>1, <1>4, <1>5
<1> QED BY <1>7, <1>8, <1>17, <1>18, <1>19 DEF at, l, N, HitNodes
-----------------------------------------------------------------------------
(* Chords and what begins them.                                            *)

LEMMA NameIs ==
  ASSUME NEW name \in Seq(AllStrokes), name # <<>>
  PROVE  Len(name) \in Nat \ {0}
BY EmptySeq

LEMMA PrefixIs ==
  ASSUME NEW S, NEW s \in Seq(S), NEW t \in Seq(S)
  PROVE  IsPrefix(s, t) <=> Len(s) <= Len(t) /\ \A k \in 1 .. Len(s) : s[k] = t[k]
<1>1. Len(s) \in Nat /\ Len(t) \in Nat
  OBVIOUS
<1>2. CASE Len(s) <= Len(t)
  <2>1. /\ SubSeq(t, 1, Len(s)) \in Seq(S) /\ Len(SubSeq(t, 1, Len(s))) = Len(s)
        /\ \A k \in 1 .. Len(s) : SubSeq(t, 1, Len(s))[k] = t[k]
    BY <1>1, <1>2
  <2>2. SubSeq(s, 1, Len(s)) = s
    BY <1>1
  <2> DEFINE u == SubSeq(t, 1, Len(s))
  <2>3. IsPrefix(s, t) <=> s = u
    BY <1>2, <2>2 DEF IsPrefix
  <2> HIDE DEF u
  <2>4. s = u <=> \A k \in 1 .. Len(s) : s[k] = u[k]
    BY <2>1, SeqEqual DEF u
  <2> QED BY <1>2, <2>1, <2>3, <2>4 DEF u
<1>3. CASE ~(Len(s) <= Len(t))
  BY <1>3 DEF IsPrefix
<1> QED BY <1>2, <1>3

(* One keystroke more.                                                     *)
LEMMA BeginsMore ==
  ASSUME NEW strokes \in Seq(AllStrokes), NEW v \in AllStrokes,
         NEW name \in Seq(AllStrokes), name # <<>>
  PROVE  Begins(Append(strokes, v), name) <=>
           /\ Begins(strokes, name)
           /\ Len(strokes) + 1 <= Len(name)
           /\ name[Len(strokes) + 1] = v
<1> DEFINE c == name
           k == Len(strokes)
           more == Append(strokes, v)
<1>1. c \in Seq(AllStrokes) /\ Len(c) \in Nat /\ \A i \in 1 .. Len(c) : c[i] = name[i]
  BY NameIs
<1> HIDE DEF c
<1>2. k \in Nat /\ more \in Seq(AllStrokes) /\ Len(more) = k + 1 /\ more[k + 1] = v
      /\ \A i \in 1 .. k : more[i] = strokes[i]
  OBVIOUS
<1> HIDE DEF more
<1>3. IsPrefix(more, c) <=> Len(more) <= Len(c) /\ \A i \in 1 .. Len(more) : more[i] = c[i]
  <2>1. more \in Seq(AllStrokes) /\ c \in Seq(AllStrokes)
    BY <1>1, <1>2
  <2> QED BY ONLY <2>1, PrefixIs
<1>4. IsPrefix(strokes, c) <=> k <= Len(c) /\ \A i \in 1 .. k : strokes[i] = c[i]
  BY <1>1, PrefixIs
<1> HIDE DEF k
<1>5. ASSUME IsPrefix(more, c)
      PROVE  IsPrefix(strokes, c) /\ k + 1 <= Len(c) /\ name[k + 1] = v
  <2>1. k + 1 <= Len(c) /\ \A i \in 1 .. k + 1 : more[i] = c[i]
    BY <1>2, <1>3, <1>5
  <2>2. k + 1 \in 1 .. Len(c) /\ k + 1 \in 1 .. k + 1 /\ \A i \in 1 .. k : i \in 1 .. k + 1
    BY <1>1, <1>2, <2>1
  <2>3. name[k + 1] = v
    BY <1>1, <1>2, <2>1, <2>2
  <2>4. k <= Len(c) /\ \A i \in 1 .. k : strokes[i] = c[i]
    BY <1>1, <1>2, <2>1, <2>2
  <2> QED BY <1>4, <2>1, <2>3, <2>4
<1>6. ASSUME IsPrefix(strokes, c), k + 1 <= Len(c), name[k + 1] = v
      PROVE  IsPrefix(more, c)
  <2>1. k + 1 \in 1 .. Len(c) /\ \A i \in 1 .. k : strokes[i] = c[i]
    BY <1>1, <1>2, <1>4, <1>6
  <2>2. \A i \in 1 .. k + 1 : more[i] = c[i]
    <3> TAKE i \in 1 .. k + 1
    <3>1. i = k + 1 \/ i \in 1 .. k
      BY <1>2
    <3> QED BY <3>1, <2>1, <1>1, <1>2, <1>6
  <2> QED BY <2>2, <1>2, <1>3, <1>6
<1> QED BY <1>5, <1>6 DEF Begins, c, k, more

LEMMA NodeIs ==
  ASSUME NEW n
  PROVE  n \in NodesOf(key) <=>
           \E i \in DOMAIN key : \E k \in 1 .. Len(key[i]) : n = <<i, k>>
BY DEF NodesOf

LEMMA NodeIn ==
  ASSUME NEW i, NEW k
  PROVE  <<i, k>> \in NodesOf(key) <=> i \in DOMAIN key /\ k \in 1 .. Len(key[i])
BY NodeIs

LEMMA NilNoNode == ASSUME TypeOK PROVE Nil \notin NodesOf(key)
<1>1. SUFFICES ASSUME Nil \in NodesOf(key) PROVE FALSE
  OBVIOUS
<1>2. PICK i \in DOMAIN key : \E k \in 1 .. Len(key[i]) : Nil = <<i, k>>
  BY <1>1, NodeIs
<1>3. PICK k \in 1 .. Len(key[i]) : Nil = <<i, k>>
  BY <1>2
<1>4. i \in Nat /\ k \in Nat
  BY DEF TypeOK
<1>5. Nil \in Nat \X Nat
  BY <1>3, <1>4
<1> QED BY <1>5, KeysAssumption

(* The hits are the bindings that the strokes begin, each once.            *)
Exact(hits, strokes) ==
  /\ hits \in [1 .. Size -> NodesOf(key) \cup {Nil}]
  /\ HitNodes(hits) = Candidates(key, strokes)
  /\ \A i, j \in 1 .. Size : hits[i] = hits[j] /\ hits[i] # Nil => i = j

(* match_keys in a chord: from a list of the bindings that strokes begin   *)
(* it makes the list of those that one stroke more begins.                 *)
LEMMA HitsMore ==
  ASSUME TypeOK, NEW strokes \in Seq(AllStrokes), NEW press, Valid(press) \in AllStrokes,
         NEW nodes \in [1 .. Size -> NodesOf(key) \cup {Nil}],
         Lists(nodes, Candidates(key, strokes))
  PROVE  Exact(Hits(nodes, press, TRUE), Append(strokes, Valid(press)))
<1> DEFINE hits == Hits(nodes, press, TRUE)
           D == NodesOf(key)
           k == Len(strokes)
           v == Valid(press)
           more == Append(strokes, v)
<1>0. Nil \notin D /\ k \in Nat /\ Len(more) = k + 1 /\ DOMAIN tnext = D /\ DOMAIN nodes = 1 .. Size
  BY NilNoNode DEF TypeOK
<1>1. \A c \in DOMAIN key : key[c] \in Seq(AllStrokes) /\ key[c] # <<>>
  BY DEF TypeOK
<1>2. ASSUME NEW i \in 1 .. Size, nodes[i] # Nil
      PROVE  \E c \in DOMAIN key : nodes[i] = <<c, k>> /\ Begins(strokes, key[c])
  <2>1. nodes[i] \in Candidates(key, strokes)
    BY <1>0, <1>2 DEF Lists
  <2> QED BY <2>1 DEF Candidates
<1>3. ASSUME NEW c \in DOMAIN key, Begins(strokes, key[c])
      PROVE  \E i \in 1 .. Size : nodes[i] = <<c, k>>
  <2>1. <<c, k>> \in Candidates(key, strokes)
    BY <1>3 DEF Candidates
  <2> QED BY <2>1, <1>0 DEF Lists
<1>4. ASSUME NEW i \in 1 .. Size, NEW c \in DOMAIN key, nodes[i] = <<c, k>>, nodes[i] # Nil
      PROVE  hits[i] = IF k + 1 \in 1 .. Len(key[c]) /\ key[c][k + 1] = v
                       THEN <<c, k + 1>> ELSE Nil
  <2>1. NextOf(nodes[i]) = IF <<c, k + 1>> \in D THEN <<c, k + 1>> ELSE Nil
    BY <1>0, <1>4 DEF NextOf
  <2>2. <<c, k + 1>> \in D <=> k + 1 \in 1 .. Len(key[c])
    BY NodeIn
  <2>3. hits[i] = IF Fits(NextOf(nodes[i]), press) THEN NextOf(nodes[i]) ELSE Nil
    BY <1>0, <1>4 DEF Hits
  <2> HIDE DEF D, hits, k, v
  <2>4. CASE <<c, k + 1>> \in D
    <3>1. <<c, k + 1>> # Nil
      BY <2>4, <1>0
    <3>2. NextOf(nodes[i]) = <<c, k + 1>>
      BY <2>1, <2>4
    <3>3. Fits(<<c, k + 1>>, press) <=> key[c][k + 1] = v
      BY <3>1 DEF Fits, v
    <3> QED BY <2>2, <2>3, <2>4, <3>2, <3>3
  <2>5. CASE <<c, k + 1>> \notin D
    <3>1. NextOf(nodes[i]) = Nil
      BY <2>1, <2>5
    <3>2. ~Fits(Nil, press)
      BY DEF Fits
    <3> QED BY <2>2, <2>3, <2>5, <3>1, <3>2
  <2> QED BY <2>4, <2>5
<1>5. ASSUME NEW i \in 1 .. Size, nodes[i] = Nil
      PROVE  hits[i] = Nil
  BY <1>0, <1>5 DEF Hits, Fits
<1>6. hits = [i \in 1 .. Size |-> hits[i]]
  BY <1>0 DEF Hits
<1> HIDE DEF hits
<1>7. ASSUME NEW i \in 1 .. Size, hits[i] # Nil
      PROVE  \E c \in DOMAIN key : /\ nodes[i] = <<c, k>> /\ hits[i] = <<c, k + 1>>
                                   /\ hits[i] \in D /\ Begins(more, key[c])
  <2>1. nodes[i] # Nil
    BY <1>5, <1>7
  <2>2. PICK c \in DOMAIN key : nodes[i] = <<c, k>> /\ Begins(strokes, key[c])
    BY <2>1, <1>2
  <2>3. k + 1 \in 1 .. Len(key[c]) /\ key[c][k + 1] = v /\ hits[i] = <<c, k + 1>>
    BY <2>1, <2>2, <1>4, <1>7
  <2>4. <<c, k + 1>> \in D
    BY <2>3, NodeIn
  <2>5. k + 1 <= Len(key[c])
    BY <2>3
  <2>6. Begins(more, key[c])
    BY <1>1, <2>2, <2>3, <2>5, BeginsMore
  <2> QED BY <2>2, <2>3, <2>4, <2>6
<1>8. ASSUME NEW c \in DOMAIN key, Begins(more, key[c])
      PROVE  \E i \in 1 .. Size : hits[i] = <<c, k + 1>> /\ hits[i] # Nil
  <2>1. Begins(strokes, key[c]) /\ k + 1 <= Len(key[c]) /\ key[c][k + 1] = v
    BY <1>1, <1>8, BeginsMore
  <2>2. k + 1 \in 1 .. Len(key[c])
    <3>1. Len(key[c]) \in Nat
      BY <1>1, NameIs
    <3> QED BY <3>1, <2>1, <1>0
  <2>3. PICK i \in 1 .. Size : nodes[i] = <<c, k>>
    BY <2>1, <1>3
  <2>4. nodes[i] # Nil
    <3>1. c \in Nat /\ k \in Nat
      BY <1>0 DEF TypeOK
    <3>2. <<c, k>> \in Nat \X Nat
      BY <3>1
    <3> QED BY <3>2, <2>3, KeysAssumption
  <2>5. hits[i] = <<c, k + 1>>
    BY <2>1, <2>2, <2>3, <2>4, <1>4
  <2>6. <<c, k + 1>> \in D
    BY <2>2, NodeIn
  <2> QED BY <2>5, <2>6, <1>0
<1>9. hits \in [1 .. Size -> D \cup {Nil}]
  BY <1>6, <1>7
<1>10. HitNodes(hits) = Candidates(key, more)
  <2>1. ASSUME NEW x, x \in HitNodes(hits)
        PROVE  x \in Candidates(key, more)
    BY <2>1, <1>0, <1>7 DEF Candidates, HitNodes
  <2>2. ASSUME NEW x, x \in Candidates(key, more)
        PROVE  x \in HitNodes(hits)
    BY <2>2, <1>0, <1>8 DEF Candidates, HitNodes
  <2> QED BY <2>1, <2>2
<1>11. ASSUME NEW i \in 1 .. Size, NEW j \in 1 .. Size, hits[i] = hits[j], hits[i] # Nil
       PROVE  i = j
  <2>1. PICK c \in DOMAIN key : nodes[i] = <<c, k>> /\ hits[i] = <<c, k + 1>>
    BY <1>7, <1>11
  <2>2. PICK d \in DOMAIN key : nodes[j] = <<d, k>> /\ hits[j] = <<d, k + 1>>
    BY <1>7, <1>11
  <2>3. nodes[i] = nodes[j]
    <3>1. <<c, k + 1>> = <<d, k + 1>>
      BY <2>1, <2>2, <1>11
    <3>2. c = d
      BY <3>1
    <3> QED BY <2>1, <2>2, <3>2
  <2>4. nodes[i] # Nil
    BY <1>5, <1>11
  <2> QED BY <2>3, <2>4, <1>0 DEF Lists
<1> QED BY <1>9, <1>10, <1>11 DEF Exact, hits
-----------------------------------------------------------------------------
(* What a call of match_keys leaves, and comes to.                         *)

(* Whatever state the list is in, its links and hits stay nodes.           *)
LEMMA LinkedType ==
  ASSUME key \in Seq(Seq(AllStrokes)), NEW D, Nil \notin D, NEW t \in [D -> D \cup {Nil}],
         NEW hits \in [1 .. Size -> D \cup {Nil}]
  PROVE  Linked(t, hits) \in [D -> D \cup {Nil}] /\ Found(hits) \in D \cup {Nil}
<1> DEFINE N == Size
<1>1. N \in Nat /\ Len(key) + 2 \in Nat /\ hits \in [1 .. N -> D \cup {Nil}] /\ DOMAIN hits = 1 .. N
  BY DEF Size
<1> HIDE DEF N
<1>2. \A i \in Nat : Before(hits, i) \in D \cup {Nil}
  BY <1>1, BeforeIs
<1>3. ASSUME NEW m \in D
      PROVE  Linked(t, hits)[m] \in D \cup {Nil}
  <2> DEFINE places == {i \in DOMAIN hits : hits[i] = m}
             p == CHOOSE i \in places : TRUE
  <2>1. Linked(t, hits)[m] = IF places = {} THEN t[m] ELSE Before(hits, p)
    BY DEF Linked
  <2>2. places # {} => p \in Nat
    <3>1. places # {} => p \in places
      OBVIOUS
    <3> QED BY <3>1, <1>1
  <2> HIDE DEF places, p
  <2> QED BY <2>1, <2>2, <1>2
<1>4. Linked(t, hits) = [m \in D |-> Linked(t, hits)[m]]
  BY DEF Linked
<1> QED BY <1>1, <1>2, <1>3, <1>4 DEF Found

LEMMA HitsType ==
  ASSUME TypeOK, NEW press, NEW seq \in BOOLEAN,
         NEW nodes \in [1 .. Size -> NodesOf(key) \cup {Nil}]
  PROVE  Hits(nodes, press, seq) \in [1 .. Size -> NodesOf(key) \cup {Nil}]
<1> DEFINE D == NodesOf(key)
<1>1. DOMAIN tnext = D /\ DOMAIN nodes = 1 .. Size
  BY DEF TypeOK
<1> HIDE DEF D
<1>2. \A n : NextOf(n) \in D \cup {Nil}
  BY <1>1 DEF NextOf
<1>3. \A i \in 1 .. Size : nodes[i] \in D \cup {Nil}
  BY DEF D
<1> QED BY <1>1, <1>2, <1>3 DEF Hits, D

LEMMA Matched ==
  ASSUME TypeOK, NEW more \in Seq(AllStrokes), more # <<>>,
         NEW t \in [NodesOf(key) -> NodesOf(key) \cup {Nil}],
         NEW hits \in [1 .. Size -> NodesOf(key) \cup {Nil}],
         HitNodes(hits) = Candidates(key, more),
         \A i, j \in 1 .. Size : hits[i] = hits[j] /\ hits[i] # Nil => i = j
  PROVE  /\ Found(hits) = Nil => \A i \in DOMAIN key : ~Begins(more, key[i])
         /\ Found(hits) # Nil => /\ Found(hits) \in NodesOf(key) /\ Found(hits) \in Candidates(key, more)
                                 /\ Lists(List(Linked(t, hits), Found(hits)), Candidates(key, more))
         /\ Complete(hits) => /\ more = key[Found(hits)[1]]
                              /\ \A i, j \in DOMAIN key :
                                   Begins(more, key[i]) /\ Begins(more, key[j]) => i = j
<1> DEFINE D == NodesOf(key)
           k == Len(more)
           found == Found(hits)
<1>1. /\ Nil \notin D /\ key \in Seq(Seq(AllStrokes)) /\ DOMAIN tnext = D /\ k \in Nat
      /\ t \in [D -> D \cup {Nil}] /\ hits \in [1 .. Size -> D \cup {Nil}]
  BY NilNoNode DEF TypeOK
<1> HIDE DEF D
<1>2. /\ found \in D \cup {Nil}
      /\ found = Nil => \A i \in 1 .. Size : hits[i] = Nil
      /\ found # Nil => \E i \in 1 .. Size : found = hits[i]
      /\ Lists(List(Linked(t, hits), found), HitNodes(hits))
  <2>1. \A i, j \in 1 .. Size : hits[i] = hits[j] /\ hits[i] # Nil => i = j
    OBVIOUS
  <2> QED BY ONLY <1>1, <2>1, LinkedList
<1> HIDE DEF found
<1>3. ASSUME NEW i \in DOMAIN key, Begins(more, key[i])
      PROVE  \E p \in 1 .. Size : hits[p] = <<i, k>> /\ hits[p] # Nil
  <2>1. <<i, k>> \in Candidates(key, more)
    BY <1>3 DEF Candidates
  <2> QED BY <2>1 DEF HitNodes
<1>4. ASSUME found # Nil
      PROVE  found \in D /\ found \in Candidates(key, more)
  BY <1>2, <1>4 DEF HitNodes
<1>5. ASSUME found = Nil, NEW i \in DOMAIN key
      PROVE  ~Begins(more, key[i])
  BY <1>2, <1>3, <1>5
<1>6. ASSUME Complete(hits)
      PROVE  /\ more = key[found[1]]
             /\ \A i, j \in DOMAIN key : Begins(more, key[i]) /\ Begins(more, key[j]) => i = j
  <2>1. found # Nil /\ NextOf(found) = Nil /\ \A p, q \in Places(hits) : p = q
    BY <1>6 DEF Complete, found
  <2>2. PICK c \in DOMAIN key : found = <<c, k>> /\ Begins(more, key[c])
    BY <2>1, <1>4 DEF Candidates
  <2>3. <<c, k + 1>> \notin D
    <3>1. SUFFICES ASSUME <<c, k + 1>> \in D PROVE FALSE
      OBVIOUS
    <3>2. NextOf(found) = <<c, k + 1>>
      BY <3>1, <2>2, <1>1 DEF NextOf
    <3> QED BY <3>1, <3>2, <2>1, <1>1
  <2>4. key[c] \in Seq(AllStrokes) /\ key[c] # <<>>
    BY DEF TypeOK
  <2> DEFINE chord == key[c]
  <2>5. chord \in Seq(AllStrokes) /\ Len(chord) \in Nat
    BY <2>4, NameIs
  <2>6. k + 1 \notin 1 .. Len(chord)
    BY <2>3, NodeIn DEF D
  <2> HIDE DEF chord
  <2>7. k <= Len(chord) /\ \A i \in 1 .. k : more[i] = chord[i]
    BY <2>2, <2>5, PrefixIs DEF Begins, chord
  <2>8. Len(chord) = k
    BY <2>5, <2>6, <2>7, <1>1
  <2>9. more = chord
    BY <2>5, <2>7, <2>8, SeqEqual
  <2>10. found[1] = c
    BY <2>2
  <2>11. ASSUME NEW i \in DOMAIN key, NEW j \in DOMAIN key, Begins(more, key[i]), Begins(more, key[j])
         PROVE  i = j
    <3>1. PICK p \in 1 .. Size : hits[p] = <<i, k>> /\ hits[p] # Nil
      BY <2>11, <1>3
    <3>2. PICK q \in 1 .. Size : hits[q] = <<j, k>> /\ hits[q] # Nil
      BY <2>11, <1>3
    <3>3. p \in Places(hits) /\ q \in Places(hits)
      BY <3>1, <3>2 DEF Places
    <3>4. <<i, k>> = <<j, k>>
      BY <2>1, <3>1, <3>2, <3>3
    <3> QED BY <3>4
  <2> QED BY <2>9, <2>10, <2>11 DEF chord
<1> QED BY <1>2, <1>4, <1>5, <1>6 DEF found, D

LEMMA FreshList ==
  ASSUME TypeOK, key # <<>>
  PROVE  /\ Fresh \in [NodesOf(key) -> NodesOf(key) \cup {Nil}]
         /\ List(Fresh, <<1, 1>>) \in [1 .. Size -> NodesOf(key) \cup {Nil}]
         /\ \A i \in 1 .. Size :
              List(Fresh, <<1, 1>>)[i] = IF i \in DOMAIN key THEN <<i, 1>> ELSE Nil
<1> DEFINE D == NodesOf(key)
           at == List(Fresh, <<1, 1>>)
<1>0. /\ DOMAIN tnext = D /\ Nil \notin D /\ key \in Seq(Seq(AllStrokes))
      /\ Len(key) \in Nat \ {0} /\ DOMAIN key = 1 .. Len(key)
  BY NilNoNode, EmptySeq DEF TypeOK
<1>1. \A i \in DOMAIN key : <<i, 1>> \in D
  <2> TAKE i \in DOMAIN key
  <2>1. 1 \in 1 .. Len(key[i])
    BY NameIs DEF TypeOK
  <2> QED BY <2>1, NodeIn
<1>2. Fresh \in [D -> D \cup {Nil}]
  <2>1. ASSUME NEW n \in D
        PROVE  (IF n[2] > 1 THEN tnext[n] ELSE IF n[1] < Len(key) THEN <<n[1] + 1, 1>> ELSE Nil)
                 \in D \cup {Nil}
    <3>1. tnext[n] \in D \cup {Nil}
      BY DEF TypeOK
    <3>2. PICK i \in DOMAIN key : \E k \in 1 .. Len(key[i]) : n = <<i, k>>
      BY NodeIs
    <3>3. n[1] = i
      BY <3>2
    <3>4. n[1] < Len(key) => <<n[1] + 1, 1>> \in D
      <4>1. i < Len(key) => i + 1 \in DOMAIN key
        BY <1>0
      <4> QED BY <4>1, <3>3, <1>1
    <3> QED BY <3>1, <3>4
  <2> HIDE DEF D
  <2> QED BY <2>1, <1>0 DEF Fresh
<1>3. <<1, 1>> \in D
  <2>1. 1 \in DOMAIN key
    BY <1>0
  <2> HIDE DEF D
  <2> QED BY <2>1, <1>1
<1>4. /\ Size \in Nat \ {0} /\ at \in [1 .. Size -> D \cup {Nil}] /\ at[1] = <<1, 1>>
      /\ \A i \in 2 .. Size : at[i] = IF at[i - 1] = Nil THEN Nil ELSE Fresh[at[i - 1]]
  <2> DEFINE F == Fresh
             n == <<1, 1>>
  <2>1. F \in [D -> D \cup {Nil}] /\ n \in D \cup {Nil} /\ at = List(F, n)
    BY <1>2, <1>3
  <2> HIDE DEF D, F, n, at
  <2>2. /\ Size \in Nat \ {0} /\ at \in [1 .. Size -> D \cup {Nil}] /\ at[1] = n
        /\ \A i \in 2 .. Size : at[i] = IF at[i - 1] = Nil THEN Nil ELSE F[at[i - 1]]
    BY <2>1, <1>0, ListIs
  <2> QED BY <2>2 DEF F, n
<1> HIDE DEF at
<1> DEFINE Good(i) == at[i] = IF i \in DOMAIN key THEN <<i, 1>> ELSE Nil
           bad == {i \in 1 .. Size : ~Good(i)}
<1>5. ASSUME bad # {} PROVE FALSE
  <2>1. PICK i \in bad : \A k \in bad : i <= k
    <3>1. bad \subseteq Nat
      BY <1>4
    <3> HIDE DEF bad
    <3> QED BY <1>5, <3>1, NatMin
  <2>2. i \in 1 .. Size /\ ~Good(i)
    OBVIOUS
  <2>3. i # 1
    <3>1. 1 \in DOMAIN key /\ at[1] = <<1, 1>>
      BY <1>0, <1>4
    <3> QED BY <2>2, <3>1
  <2>4. i - 1 \in 1 .. Size /\ i \in 2 .. Size /\ ~(i <= i - 1)
    BY <2>2, <2>3, <1>4
  <2>5. i - 1 \in DOMAIN key
    BY <2>4, <1>0 DEF Size
  <2>6. at[i - 1] = <<i - 1, 1>>
    <3>1. i - 1 \notin bad
      BY <2>1, <2>4
    <3> QED BY <3>1, <2>4, <2>5
  <2>7. <<i - 1, 1>> \in D /\ <<i - 1, 1>> # Nil
    BY <2>5, <1>0, <1>1
  <2>8. at[i] = Fresh[<<i - 1, 1>>]
    BY <2>4, <2>6, <2>7, <1>4
  <2>9. Fresh[<<i - 1, 1>>] = IF i - 1 < Len(key) THEN <<(i - 1) + 1, 1>> ELSE Nil
    <3> DEFINE n == <<i - 1, 1>>
    <3>1. n \in D /\ n[1] = i - 1 /\ n[2] = 1
      BY <2>7
    <3>2. n \in DOMAIN tnext /\ ~(n[2] > 1)
      BY <3>1, <1>0
    <3> HIDE DEF n
    <3>3. Fresh[n] = IF n[2] > 1 THEN tnext[n] ELSE IF n[1] < Len(key) THEN <<n[1] + 1, 1>> ELSE Nil
      BY <3>2 DEF Fresh
    <3>4. Fresh[n] = IF i - 1 < Len(key) THEN <<(i - 1) + 1, 1>> ELSE Nil
      BY <3>1, <3>2, <3>3
    <3> QED BY <3>4 DEF n
  <2>10. (i - 1) + 1 = i /\ (i - 1 < Len(key) <=> i \in DOMAIN key)
    BY <2>4, <1>0 DEF Size
  <2> QED BY <2>2, <2>8, <2>9, <2>10
<1> QED BY <1>2, <1>4, <1>5 DEF at

LEMMA HitsFirst ==
  ASSUME TypeOK, key # <<>>, NEW press, Valid(press) \in AllStrokes
  PROVE  Exact(Hits(List(Fresh, <<1, 1>>), press, FALSE), <<Valid(press)>>)
<1> DEFINE nodes == List(Fresh, <<1, 1>>)
           hits == Hits(nodes, press, FALSE)
           v == Valid(press)
<1>1. /\ nodes \in [1 .. Size -> NodesOf(key) \cup {Nil}]
      /\ \A i \in 1 .. Size : nodes[i] = IF i \in DOMAIN key THEN <<i, 1>> ELSE Nil
  BY FreshList
<1> HIDE DEF nodes
<1>2. hits \in [1 .. Size -> NodesOf(key) \cup {Nil}]
  BY <1>1, HitsType
<1>3. Nil \notin Nat \X Nat /\ \A i \in DOMAIN key : i \in Nat /\ <<i, 1>> # Nil
  <2>1. \A i \in DOMAIN key : i \in Nat
    BY DEF TypeOK
  <2>2. \A i \in DOMAIN key : <<i, 1>> \in Nat \X Nat
    BY <2>1
  <2> QED BY <2>1, <2>2, KeysAssumption
<1>4. \A i \in 1 .. Size : hits[i] = IF i \in DOMAIN key /\ key[i][1] = v THEN <<i, 1>> ELSE Nil
  <2> TAKE i \in 1 .. Size
  <2>0. DOMAIN nodes = 1 .. Size
    BY <1>1
  <2>1. hits[i] = IF Fits(nodes[i], press) THEN nodes[i] ELSE Nil
    BY <2>0 DEF Hits, Fits
  <2> HIDE DEF hits, v
  <2>2. CASE i \in DOMAIN key
    <3>1. nodes[i] = <<i, 1>> /\ <<i, 1>> # Nil
      BY <2>2, <1>1, <1>3
    <3>2. Fits(<<i, 1>>, press) <=> key[i][1] = v
      BY <3>1 DEF Fits, v
    <3> QED BY <2>1, <2>2, <3>1, <3>2
  <2>3. CASE i \notin DOMAIN key
    <3>1. nodes[i] = Nil /\ ~Fits(Nil, press)
      BY <2>3, <1>1 DEF Fits
    <3> QED BY <2>1, <2>3, <3>1
  <2> QED BY <2>2, <2>3
<1> HIDE DEF hits
<1>5. Len(<<v>>) = 1 /\ \A i \in DOMAIN key : Begins(<<v>>, key[i]) <=> key[i][1] = v
  <2>0. PICK e \in Seq(AllStrokes) : e = <<>>
    BY EmptySeq
  <2>1. Len(e) = 0 /\ Append(e, v) = <<v>> /\ Len(<<v>>) = 1
    BY <2>0
  <2>3. v \in AllStrokes
    OBVIOUS
  <2> HIDE DEF v
  <2>2. ASSUME NEW i \in DOMAIN key
        PROVE  Begins(<<v>>, key[i]) <=> key[i][1] = v
    <3>1. key[i] \in Seq(AllStrokes) /\ key[i] # <<>>
      BY DEF TypeOK
    <3>2. key[i] \in Seq(AllStrokes) /\ Len(key[i]) \in Nat \ {0}
      BY <3>1, NameIs
    <3>3. Begins(e, key[i])
      <4> DEFINE c == key[i]
      <4>1. 0 <= Len(c) /\ \A k \in 1 .. 0 : e[k] = c[k]
        BY <3>2
      <4> HIDE DEF c
      <4>2. c \in Seq(AllStrokes)
        BY <3>2 DEF c
      <4>3. IsPrefix(e, c)
        BY <4>1, <4>2, <2>0, <2>1, PrefixIs
      <4> QED BY <4>3 DEF Begins, c
    <3>5. Begins(Append(e, v), key[i]) <=>
            /\ Begins(e, key[i])
            /\ Len(e) + 1 <= Len(key[i])
            /\ key[i][Len(e) + 1] = v
      BY <2>0, <2>3, <3>1, BeginsMore
    <3>6. Len(e) + 1 = 1 /\ 1 <= Len(key[i])
      BY <2>1, <3>2
    <3> QED BY <2>1, <3>3, <3>5, <3>6
  <2> QED BY <2>1, <2>2
<1>6. \A i \in DOMAIN key : i \in 1 .. Size
  BY DEF TypeOK, Size
<1>7. HitNodes(hits) = Candidates(key, <<v>>)
  <2>1. ASSUME NEW i \in 1 .. Size, hits[i] # Nil
        PROVE  hits[i] \in Candidates(key, <<v>>)
    <3>1. i \in DOMAIN key /\ key[i][1] = v /\ hits[i] = <<i, 1>>
      BY <2>1, <1>4
    <3> QED BY <3>1, <1>5 DEF Candidates
  <2>2. ASSUME NEW x \in Candidates(key, <<v>>)
        PROVE  x \in HitNodes(hits)
    <3>1. PICK i \in DOMAIN key : x = <<i, 1>> /\ Begins(<<v>>, key[i])
      BY <1>5 DEF Candidates
    <3>2. i \in 1 .. Size /\ hits[i] = x /\ x # Nil
      BY <3>1, <1>3, <1>4, <1>5, <1>6
    <3> QED BY <3>2 DEF HitNodes
  <2> QED BY <2>1, <2>2 DEF HitNodes
<1>8. ASSUME NEW i \in 1 .. Size, NEW j \in 1 .. Size, hits[i] = hits[j], hits[i] # Nil
      PROVE  i = j
  <2>1. hits[i] = <<i, 1>> /\ hits[j] = <<j, 1>>
    BY <1>4, <1>8
  <2> QED BY <2>1, <1>8
<1> QED BY <1>2, <1>7, <1>8 DEF hits, nodes, v, Exact
-----------------------------------------------------------------------------
(* The queue and the activations.                                          *)

(* s with the element at i gone.                                           *)
LEMMA Removed ==
  ASSUME NEW S, NEW s \in Seq(S), NEW i \in 1 .. Len(s)
  PROVE  /\ RemoveAt(s, i) \in Seq(S)
         /\ Len(RemoveAt(s, i)) = Len(s) - 1
         /\ \A j \in 1 .. Len(s) - 1 : RemoveAt(s, i)[j] = s[IF j < i THEN j ELSE j + 1]
<1> DEFINE l == SubSeq(s, 1, i - 1)
           r == SubSeq(s, i + 1, Len(s))
<1>0. Len(s) \in Nat /\ i \in Nat
  OBVIOUS
<1>1. l \in Seq(S) /\ Len(l) = i - 1 /\ \A j \in 1 .. i - 1 : l[j] = s[j]
  BY <1>0
<1>2. r \in Seq(S) /\ Len(r) = Len(s) - i /\ \A j \in 1 .. Len(s) - i : r[j] = s[i + j]
  BY <1>0
<1>3. RemoveAt(s, i) = l \o r
  BY DEF RemoveAt
<1> HIDE DEF l, r
<1>4. l \o r \in Seq(S) /\ Len(l \o r) = Len(s) - 1
  <2>1. l \o r \in Seq(S) /\ Len(l \o r) = Len(l) + Len(r)
    BY <1>1, <1>2, ConcatProperties
  <2>2. (i - 1) + (Len(s) - i) = Len(s) - 1
    BY <1>0
  <2> QED BY <2>1, <2>2, <1>1, <1>2
<1>5. ASSUME NEW j \in 1 .. Len(s) - 1
      PROVE  (l \o r)[j] = s[IF j < i THEN j ELSE j + 1]
  <2>1. CASE j < i
    <3>1. (l \o r)[j] = l[j]
      BY <1>0, <1>1, <1>2, <2>1
    <3> QED BY <3>1, <1>0, <1>1, <2>1
  <2>2. CASE ~(j < i)
    <3>1. (l \o r)[j] = r[j - (i - 1)] /\ j - (i - 1) \in 1 .. Len(s) - i
      BY <1>0, <1>1, <1>2, <2>2
    <3>2. i + (j - (i - 1)) = j + 1
      BY <1>0
    <3>3. r[j - (i - 1)] = s[j + 1]
      BY <3>1, <3>2, <1>2
    <3> QED BY <3>1, <3>3, <2>2
  <2> QED BY <2>1, <2>2
<1> QED BY <1>3, <1>4, <1>5

LEMMA FirstPressIs ==
  ASSUME TypeOK, Presses # {}
  PROVE  /\ FirstPress \in 1 .. Len(queue) /\ queue[FirstPress].type = "press"
         /\ queue[FirstPress] \in Message
<1>1. Presses \subseteq Nat /\ Presses \subseteq 1 .. Len(queue)
  BY DEF Presses, TypeOK
<1>2. \E i \in Presses : \A j \in Presses : i <= j
  BY <1>1, NatMin
<1>3. FirstPress \in Presses
  BY <1>2 DEF FirstPress
<1>4. queue \in Seq(Message)
  BY DEF TypeOK
<1> QED BY <1>1, <1>3, <1>4 DEF Presses

LEMMA ValidIs ==
  ASSUME NEW press \in Message, press.type = "press"
  PROVE  Valid(press) \in AllStrokes
<1>1. press \in [type : {"press"}, stroke : Strokes, locks : SUBSET {"num"}]
  BY DEF Message
<1> QED BY <1>1 DEF Valid, AllStrokes

LEMMA NodeNat == ASSUME TypeOK PROVE NodesOf(key) \subseteq Nat \X Nat
<1>1. ASSUME NEW n \in NodesOf(key)
      PROVE  n \in Nat \X Nat
  <2>1. PICK i \in DOMAIN key : \E k \in 1 .. Len(key[i]) : n = <<i, k>>
    BY NodeIs
  <2>2. i \in Nat /\ \A k \in 1 .. Len(key[i]) : k \in Nat
    BY DEF TypeOK
  <2> QED BY <2>1, <2>2
<1> QED BY <1>1

LEMMA DisturbedIs ==
  ASSUME TypeOK
  PROVE  /\ Disturbed(stack) \in Seq(Activation) /\ Len(Disturbed(stack)) = Len(stack)
         /\ DOMAIN Disturbed(stack) = DOMAIN stack
         /\ \A i \in DOMAIN stack : /\ Disturbed(stack)[i].done = stack[i].done
                                    /\ Disturbed(stack)[i].disturbed = TRUE
<1>1. stack \in Seq(Activation) /\ DOMAIN stack = 1 .. Len(stack) /\ Len(stack) \in Nat
  BY DEF TypeOK
<1>2. \A i \in DOMAIN stack : /\ [stack[i] EXCEPT !.disturbed = TRUE] \in Activation
                              /\ [stack[i] EXCEPT !.disturbed = TRUE].done = stack[i].done
                              /\ [stack[i] EXCEPT !.disturbed = TRUE].disturbed = TRUE
  <2>1. ASSUME NEW act \in Activation
        PROVE  /\ [act EXCEPT !.disturbed = TRUE] \in Activation
               /\ [act EXCEPT !.disturbed = TRUE].done = act.done
               /\ [act EXCEPT !.disturbed = TRUE].disturbed = TRUE
    BY DEF Activation
  <2>2. \A i \in DOMAIN stack : stack[i] \in Activation
    BY <1>1
  <2> QED BY <2>1, <2>2
<1> DEFINE d == Disturbed(stack)
<1>3. d = [i \in 1 .. Len(stack) |-> d[i]] /\ \A i \in 1 .. Len(stack) : d[i] = [stack[i] EXCEPT !.disturbed = TRUE]
  BY <1>1 DEF Disturbed
<1> HIDE DEF d
<1>4. d \in [1 .. Len(stack) -> Activation]
  BY <1>1, <1>2, <1>3
<1>5. d \in Seq(Activation) /\ Len(d) = Len(stack) /\ DOMAIN d = 1 .. Len(stack)
  BY <1>1, <1>4
<1> QED BY <1>1, <1>2, <1>3, <1>5 DEF d

(* What TypeOK and ReadingInv say of a state with this stack and links.    *)
StackOK(st, t) ==
  /\ st \in Seq(Activation) /\ \A i \in DOMAIN st : st[i].done \in NodesOf(key)
  /\ \A i \in DOMAIN st : i < Len(st) => st[i].disturbed = TRUE
  /\ st # <<>> /\ st[Len(st)].disturbed = FALSE => Reading(key, t, st[Len(st)])

LEMMA StackNow == TypeOK /\ ReadingInv <=> TypeOK /\ StackOK(stack, tnext)
BY DEF TypeOK, ReadingInv, StackOK

LEMMA Together ==
  ASSUME IInv, UNCHANGED <<key, numlock, lockmap, grabs>>, crashed' \in BOOLEAN,
         tnext' \in [NodesOf(key) -> NodesOf(key) \cup {Nil}],
         StackOK(stack', tnext'), keyboard' \in {"free", "key", "wmii"}, queue' \in Seq(Message),
         keyboard' = "wmii" => stack' # <<>>
  PROVE  IInv'
<1>1. TypeOK'
  BY DEF IInv, TypeOK, StackOK
<1>2. TableGrabbed'
  BY DEF IInv, TableGrabbed, Variants
<1>3. ReadingInv'
  BY DEF StackOK, ReadingInv
<1>4. KeyboardReleased'
  BY DEF KeyboardReleased
<1> QED BY <1>1, <1>2, <1>3, <1>4 DEF IInv

LEMMA AllDisturbed ==
  ASSUME TypeOK, NEW t
  PROVE  StackOK(Disturbed(stack), t)
<1> DEFINE d == Disturbed(stack)
<1>1. /\ d \in Seq(Activation) /\ Len(d) = Len(stack) /\ DOMAIN d = DOMAIN stack
      /\ \A i \in DOMAIN stack : d[i].done = stack[i].done /\ d[i].disturbed = TRUE
  BY DisturbedIs
<1> HIDE DEF d
<1>2. \A i \in DOMAIN d : d[i].done \in NodesOf(key) /\ d[i].disturbed = TRUE
  BY <1>1 DEF TypeOK
<1>3. d # <<>> => Len(d) \in DOMAIN d
  BY <1>1, EmptySeq
<1>4. d # <<>> => d[Len(d)].disturbed # FALSE
  BY <1>2, <1>3
<1> QED BY <1>1, <1>2, <1>4 DEF StackOK, d

LEMMA SetLast ==
  ASSUME NEW S, NEW st \in Seq(S), st # <<>>, NEW e \in S
  PROVE  /\ [st EXCEPT ![Len(st)] = e] \in Seq(S)
         /\ Len([st EXCEPT ![Len(st)] = e]) = Len(st)
         /\ [st EXCEPT ![Len(st)] = e][Len(st)] = e
         /\ \A i \in 1 .. Len(st) - 1 : [st EXCEPT ![Len(st)] = e][i] = st[i]
<1> DEFINE n == Len(st)
           new == [st EXCEPT ![n] = e]
<1>1. n \in 1 .. n /\ n \in Nat /\ n = Len(st)
  BY EmptySeq
<1>2. /\ new \in Seq(S) /\ Len(new) = n
      /\ \A j \in 1 .. n : new[j] = IF j = n THEN e ELSE st[j]
  <2> HIDE DEF n
  <2> QED BY <1>1, ExceptSeq
<1> HIDE DEF new
<1>3. \A i \in 1 .. n - 1 : i \in 1 .. n /\ i # n
  BY <1>1
<1> QED BY <1>1, <1>2, <1>3 DEF new

(* A stack whose last activation is changed or added.                      *)
LEMMA LastOK ==
  ASSUME NEW t, NEW st \in Seq(Activation), NEW n \in Nat, n = Len(st), NEW act \in Activation,
         act.done \in NodesOf(key), act.disturbed = FALSE => Reading(key, t, act),
         \A i \in 1 .. n : st[i].done \in NodesOf(key),
         NEW m \in {n, n + 1}, NEW new, new \in Seq(Activation), Len(new) = m, m # 0, new[m] = act,
         \A i \in 1 .. m - 1 : new[i] = st[i] /\ st[i].disturbed = TRUE
  PROVE  StackOK(new, t)
<1>1. ASSUME NEW i \in DOMAIN new
      PROVE  new[i].done \in NodesOf(key) /\ (i < m => new[i].disturbed = TRUE)
  <2>1. i \in 1 .. m
    OBVIOUS
  <2>2. CASE i = m
    BY <2>2
  <2>3. CASE i # m
    <3>1. i \in 1 .. m - 1 /\ i \in 1 .. n
      BY <2>1, <2>3
    <3> QED BY <3>1
  <2> QED BY <2>2, <2>3
<1> QED BY <1>1 DEF StackOK
-----------------------------------------------------------------------------
(* What a keystroke does.                                                  *)

Tells == said' # said /\ ~said'.disturbed => OutcomeOf(said')

LEMMA TellsEvent ==
  ASSUME NEW strokes, NEW name, NEW d, Says("event", name, strokes, d),
         d = FALSE => /\ strokes = name
                      /\ \A i, j \in DOMAIN key :
                           Begins(strokes, key[i]) /\ Begins(strokes, key[j]) => i = j
  PROVE  Tells
BY DEF Tells, OutcomeOf, Says

LEMMA TellsBell ==
  ASSUME NEW strokes, NEW name, NEW d, Says("bell", name, strokes, d),
         d = FALSE => \A i \in DOMAIN key : ~Begins(strokes, key[i])
  PROVE  Tells
BY DEF Tells, OutcomeOf, Says

LEMMA TellsFake ==
  ASSUME NEW strokes, NEW name, NEW d, Says("fake", name, strokes, d),
         d = FALSE => strokes[Len(strokes)] = strokes[Len(strokes) - 1]
  PROVE  Tells
BY DEF Tells, OutcomeOf, Says

LEMMA KPressOK ==
  ASSUME IInv, crashed = FALSE, NEW press \in Message, press.type = "press", NEW q \in Seq(Message),
         KPress(press, q), UNCHANGED <<key, numlock, lockmap, grabs>>
  PROVE  IInv' /\ Tells
<1> DEFINE D == NodesOf(key)
           v == Valid(press)
           hits == Hits(List(Fresh, <<1, 1>>), press, FALSE)
           found == Found(hits)
           act == [done |-> found, at |-> "flush", strokes |-> <<v>>, disturbed |-> FALSE]
<1>0. /\ TypeOK /\ v \in AllStrokes /\ Nil \notin D /\ key \in Seq(Seq(AllStrokes))
      /\ tnext \in [D -> D \cup {Nil}] /\ StackOK(stack, tnext) /\ keyboard \in {"free", "key", "wmii"}
      /\ stack \in Seq(Activation) /\ Len(stack) \in Nat
      /\ keyboard = "wmii" => stack # <<>>
  BY ValidIs, NilNoNode, StackNow DEF IInv, TypeOK, KeyboardReleased
<1> HIDE DEF D, v
<1>1. CASE key = <<>>
  <2>1. crashed' = TRUE /\ queue' = q /\ UNCHANGED <<tnext, stack, said, keyboard>>
    BY <1>1 DEF KPress
  <2>2. IInv'
    BY <2>1, <1>0, Together DEF D
  <2> QED BY <2>1, <2>2 DEF Tells
<1>2. CASE key # <<>>
  <2>1. /\ tnext' = Linked(Fresh, hits) /\ crashed' = crashed
        /\ IF found = Nil \/ Complete(hits)
             THEN /\ stack' = Disturbed(stack)
                  /\ queue' = q /\ UNCHANGED keyboard
                  /\ IF found = Nil THEN Says("bell", Nil, <<v>>, FALSE)
                     ELSE Says("event", key[found[1]], <<v>>, FALSE)
             ELSE stack' = Append(Disturbed(stack), act) /\ GrabKeyboard(q) /\ UNCHANGED said
    BY <1>2 DEF KPress, v
  <2>2. Fresh \in [D -> D \cup {Nil}]
    BY <1>0, <1>2, FreshList DEF D
  <2>3. /\ hits \in [1 .. Size -> D \cup {Nil}]
        /\ HitNodes(hits) = Candidates(key, <<v>>)
        /\ \A i, j \in 1 .. Size : hits[i] = hits[j] /\ hits[i] # Nil => i = j
    <3>1. Exact(hits, <<v>>)
      BY <1>0, <1>2, HitsFirst DEF v
    <3> QED BY <3>1 DEF Exact, D
  <2> HIDE DEF hits, act
  <2>4. tnext' \in [D -> D \cup {Nil}]
    BY <1>0, <2>1, <2>2, <2>3, LinkedType
  <2>5. PICK more \in Seq(AllStrokes) : more = <<v>> /\ more # <<>>
    <3>1. PICK e \in Seq(AllStrokes) : e = <<>>
      BY EmptySeq
    <3>2. Append(e, v) \in Seq(AllStrokes) /\ Len(Append(e, v)) = 1
      BY <3>1, <1>0
    <3>3. Append(e, v) = <<v>>
      BY <3>1
    <3> QED BY <3>2, <3>3, EmptySeq
  <2>6. /\ found = Nil => \A i \in DOMAIN key : ~Begins(more, key[i])
        /\ found # Nil => /\ found \in D /\ found \in Candidates(key, more)
                          /\ Lists(List(tnext', found), Candidates(key, more))
        /\ Complete(hits) => /\ more = key[found[1]]
                             /\ \A i, j \in DOMAIN key :
                                  Begins(more, key[i]) /\ Begins(more, key[j]) => i = j
    BY <1>0, <2>1, <2>2, <2>3, <2>5, Matched DEF D
  <2> HIDE DEF found
  <2>7. CASE found = Nil \/ Complete(hits)
    <3>1. StackOK(stack', tnext')
      BY <1>0, <2>1, <2>7, AllDisturbed
    <3>2. stack # <<>> => stack' # <<>>
      <4>1. Len(stack') = Len(stack) /\ stack' \in Seq(Activation)
        BY <1>0, <2>1, <2>7, DisturbedIs
      <4> QED BY <4>1, <1>0, EmptySeq
    <3>3. IInv'
      <4>1. keyboard' = keyboard /\ queue' = q /\ crashed' \in BOOLEAN
        BY <2>1, <2>7
      <4>2. keyboard' = "wmii" => stack' # <<>>
        BY <4>1, <3>2, <1>0
      <4> QED BY <4>1, <4>2, <3>1, <2>4, <1>0, Together DEF D
    <3>4. CASE found = Nil
      <4>1. Says("bell", Nil, more, FALSE)
        BY <2>1, <2>5, <2>7, <3>4
      <4>2. \A i \in DOMAIN key : ~Begins(more, key[i])
        BY <2>6, <3>4
      <4> QED BY <4>1, <4>2, <3>3, TellsBell
    <3>5. CASE found # Nil
      <4> DEFINE name == key[found[1]]
      <4>1. Says("event", name, more, FALSE)
        BY <2>1, <2>5, <2>7, <3>5
      <4>2. /\ more = name
            /\ \A i, j \in DOMAIN key : Begins(more, key[i]) /\ Begins(more, key[j]) => i = j
        BY <2>6, <2>7, <3>5
      <4> HIDE DEF name
      <4> QED BY <4>1, <4>2, <3>3, TellsEvent
    <3> QED BY <3>4, <3>5
  <2>8. CASE ~(found = Nil \/ Complete(hits))
    <3> DEFINE d == Disturbed(stack)
               n == Len(stack)
               m == n + 1
    <3>1. stack' = Append(d, act) /\ GrabKeyboard(q) /\ said' = said
      BY <2>1, <2>8
    <3>2. /\ d \in Seq(Activation) /\ Len(d) = n /\ DOMAIN d = DOMAIN stack
          /\ \A i \in DOMAIN stack : d[i].done = stack[i].done /\ d[i].disturbed = TRUE
      BY <1>0, DisturbedIs
    <3>3. found \in D /\ found \in Nat \X Nat
      BY <2>6, <2>8, <1>0, NodeNat DEF D
    <3>4. /\ act \in Activation /\ act.done = found /\ act.strokes = more /\ act.disturbed = FALSE
      BY <3>3, <2>5 DEF act, Activation
    <3>5. Reading(key, tnext', act)
      <4>1. List(tnext', found) = ListOf(Len(key) + 1, tnext', found)
        BY DEF List, ListOf
      <4> QED BY <4>1, <3>4, <2>5, <2>6, <2>8 DEF Reading
    <3> HIDE DEF d
    <3>6. /\ Len(stack') = m /\ stack'[m] = act /\ stack' \in Seq(Activation)
          /\ \A i \in 1 .. n : stack'[i] = d[i]
      BY <3>1, <3>2, <3>4, <1>0
    <3>7. \A i \in 1 .. n : d[i].done \in NodesOf(key) /\ d[i].disturbed = TRUE
      <4>1. \A i \in 1 .. n : i \in DOMAIN stack
        BY <1>0
      <4> QED BY <4>1, <3>2, <1>0 DEF TypeOK
    <3>8. n \in Nat /\ m \in {n, n + 1} /\ m # 0 /\ \A i \in 1 .. m - 1 : i \in 1 .. n
      BY <1>0
    <3> HIDE DEF n, m
    <3>9. StackOK(stack', tnext')
      <4>1. \A i \in 1 .. m - 1 : stack'[i] = d[i] /\ d[i].disturbed = TRUE
        BY <3>6, <3>7, <3>8
      <4>2. act.done \in NodesOf(key)
        BY <3>3, <3>4 DEF D
      <4> QED BY <4>1, <4>2, <3>2, <3>4, <3>5, <3>6, <3>7, <3>8, LastOK
    <3>10. stack' # <<>>
      BY <3>6, <3>8, EmptySeq
    <3>11. keyboard' = "wmii" /\ queue' \in Seq(Message)
      <4>1. [type |-> "focusout"] \in Message
        BY DEF Message
      <4> DEFINE e == [type |-> "focusout"]
      <4>2. keyboard' = "wmii" /\ (queue' = q \/ queue' = Append(q, e))
        BY <3>1 DEF GrabKeyboard
      <4> HIDE DEF e
      <4>3. Append(q, e) \in Seq(Message)
        BY <4>1 DEF e
      <4> QED BY <4>2, <4>3
    <3>12. crashed' \in BOOLEAN
      BY <2>1
    <3>13. IInv'
      BY <3>9, <3>10, <3>11, <3>12, <2>4, Together DEF D
    <3> QED BY <3>1, <3>13 DEF Tells
  <2> QED BY <2>7, <2>8
<1> QED BY <1>1, <1>2

LEMMA Unmoved ==
  ASSUME IInv, crashed' \in BOOLEAN, UNCHANGED <<key, numlock, lockmap, grabs, tnext, stack, keyboard>>,
         queue' \in Seq(Message)
  PROVE  IInv'
<1>1. /\ tnext \in [NodesOf(key) -> NodesOf(key) \cup {Nil}]
      /\ StackOK(stack, tnext) /\ keyboard \in {"free", "key", "wmii"}
      /\ keyboard = "wmii" => stack # <<>>
  BY StackNow DEF IInv, TypeOK, KeyboardReleased
<1>2. StackOK(stack', tnext')
  BY <1>1
<1> QED BY <1>1, <1>2, Together

LEMMA FocusOutOK ==
  ASSUME IInv, crashed = FALSE, NEW i \in DOMAIN queue, FocusOut(i),
         UNCHANGED <<key, numlock, lockmap, grabs>>
  PROVE  IInv' /\ Tells
<1>0. /\ TypeOK /\ queue \in Seq(Message) /\ i \in 1 .. Len(queue) /\ Len(queue) \in Nat
      /\ queue[i].type = "focusout"
  BY DEF IInv, TypeOK, FocusOut
<1>1. CASE Presses = {}
  <2>1. queue' = Without(queue, i) /\ UNCHANGED <<tnext, stack, said, keyboard, crashed>>
    BY <1>1 DEF FocusOut
  <2>2. queue' \in Seq(Message)
    BY <2>1, <1>0, Removed DEF Without
  <2>3. crashed' \in BOOLEAN
    BY <2>1
  <2> QED BY <2>1, <2>2, <2>3, Unmoved DEF Tells
<1>2. CASE Presses # {}
  <2> DEFINE p == FirstPress
             q == IF i < p THEN Without(Without(queue, p), i) ELSE Without(Without(queue, i), p)
  <2>1. p \in 1 .. Len(queue) /\ queue[p].type = "press" /\ queue[p] \in Message
    BY <1>0, <1>2, FirstPressIs
  <2>2. KPress(queue[p], q) /\ queue[i].type = "focusout"
    BY <1>2 DEF FocusOut
  <2> HIDE DEF p
  <2>3. q \in Seq(Message)
    <3>1. CASE i < p
      <4>1. Without(queue, p) \in Seq(Message) /\ Len(Without(queue, p)) = Len(queue) - 1
        BY <1>0, <2>1, Removed DEF Without
      <4>2. i \in 1 .. Len(Without(queue, p))
        BY <4>1, <3>1, <1>0, <2>1
      <4>3. Without(Without(queue, p), i) \in Seq(Message)
        BY <4>1, <4>2, Removed DEF Without
      <4> QED BY <4>3, <3>1
    <3>2. CASE ~(i < p)
      <4>1. Without(queue, i) \in Seq(Message) /\ Len(Without(queue, i)) = Len(queue) - 1
        BY <1>0, Removed DEF Without
      <4>2. p # i
        BY <2>1, <2>2
      <4>3. p \in 1 .. Len(Without(queue, i))
        BY <4>1, <4>2, <3>2, <1>0, <2>1
      <4>4. Without(Without(queue, i), p) \in Seq(Message)
        BY <4>1, <4>3, Removed DEF Without
      <4> QED BY <4>4, <3>2
    <3> QED BY <3>1, <3>2
  <2> HIDE DEF q
  <2> QED BY <2>1, <2>2, <2>3, KPressOK
<1> QED BY <1>1, <1>2

LEMMA DispatchOK ==
  ASSUME IInv, Dispatch
  PROVE  IInv' /\ Tells
<1>1. /\ TypeOK /\ crashed = FALSE /\ queue \in Seq(Message) /\ queue # <<>>
      /\ UNCHANGED <<key, numlock, lockmap, grabs>>
  BY DEF IInv, TypeOK, Dispatch
<1>2. 1 \in DOMAIN queue /\ queue[1] \in Message /\ Tail(queue) \in Seq(Message)
  BY <1>1, EmptySeq
<1>3. CASE FocusOut(1)
  BY <1>1, <1>2, <1>3, FocusOutOK
<1>4. CASE queue[1].type = "press" /\ KPress(queue[1], Tail(queue))
  BY <1>1, <1>2, <1>4, KPressOK
<1> QED BY <1>3, <1>4 DEF Dispatch

LEMMA FlushOK ==
  ASSUME IInv, Flush
  PROVE  IInv' /\ Tells
<1> DEFINE outs == {i \in DOMAIN queue : queue[i].type = "focusout"}
           n == Len(stack)
           last == stack[n]
<1>0. /\ TypeOK /\ crashed = FALSE /\ queue \in Seq(Message) /\ stack \in Seq(Activation)
      /\ stack # <<>> /\ n \in 1 .. n /\ n \in Nat /\ last \in Activation /\ DOMAIN stack = 1 .. n
      /\ UNCHANGED <<key, numlock, lockmap, grabs>>
      /\ StackOK(stack, tnext)
  <2>1. TypeOK /\ crashed = FALSE /\ queue \in Seq(Message) /\ stack \in Seq(Activation)
        /\ stack # <<>> /\ UNCHANGED <<key, numlock, lockmap, grabs>> /\ StackOK(stack, tnext)
    BY StackNow DEF IInv, TypeOK, Flush
  <2>2. n \in Nat /\ n # 0
    BY <2>1, EmptySeq
  <2> QED BY <2>1, <2>2
<1>1. CASE outs = {}
  <2> DEFINE act == [last EXCEPT !.at = "read"]
             new == [stack EXCEPT ![n] = act]
  <2>1. stack' = new /\ UNCHANGED <<tnext, said, keyboard, queue, crashed>>
    BY <1>1 DEF Flush
  <2>2. /\ act \in Activation /\ act.done = last.done /\ act.strokes = last.strokes
        /\ act.disturbed = last.disturbed
    BY <1>0 DEF Activation
  <2> HIDE DEF act
  <2>3. new \in Seq(Activation) /\ Len(new) = n /\ new[n] = act
        /\ \A i \in 1 .. n - 1 : new[i] = stack[i]
    <3>1. stack \in Seq(Activation) /\ stack # <<>> /\ act \in Activation
      BY <1>0, <2>2
    <3> QED BY ONLY <3>1, SetLast
  <2> HIDE DEF new
  <2>4. \A i \in 1 .. n : stack[i].done \in NodesOf(key)
    BY <1>0 DEF TypeOK
  <2>5. \A i \in 1 .. n - 1 : new[i] = stack[i] /\ stack[i].disturbed = TRUE
    <3>1. \A i \in 1 .. n - 1 : i \in DOMAIN stack /\ i < Len(stack)
      BY <1>0
    <3> QED BY <3>1, <2>3, <1>0 DEF StackOK
  <2>6. act.disturbed = FALSE => Reading(key, tnext, act)
    BY <2>2, <1>0 DEF StackOK, Reading
  <2>7. act.done \in NodesOf(key) /\ n # 0
    BY <2>2, <2>4, <1>0
  <2> HIDE DEF last
  <2>8. StackOK(new, tnext)
    <3> DEFINE k == n
    <3>1. k \in Nat /\ k = Len(stack) /\ n \in {k, k + 1}
      BY <1>0
    <3> HIDE DEF n
    <3> QED BY <3>1, <1>0, <2>2, <2>3, <2>4, <2>5, <2>6, <2>7, LastOK
  <2>9. stack' # <<>>
    BY <2>1, <2>3, <1>0, EmptySeq
  <2>10. /\ tnext' \in [NodesOf(key) -> NodesOf(key) \cup {Nil}] /\ keyboard' \in {"free", "key", "wmii"}
         /\ queue' \in Seq(Message) /\ crashed' \in BOOLEAN
    BY <2>1, <1>0 DEF TypeOK
  <2>11. StackOK(stack', tnext')
    BY <2>1, <2>8
  <2> QED BY <2>1, <2>9, <2>10, <2>11, <1>0, Together DEF Tells
<1>2. CASE outs # {}
  <2> DEFINE i == CHOOSE i \in outs : \A j \in outs : i <= j
  <2>1. \E m \in outs : \A j \in outs : m <= j
    <3>1. outs \subseteq Nat
      BY <1>0
    <3> HIDE DEF outs
    <3> QED BY <3>1, <1>2, NatMin
  <2>2. i \in outs
    BY <2>1
  <2>3. FocusOut(i)
    BY <1>2 DEF Flush
  <2> HIDE DEF i
  <2>4. i \in DOMAIN queue
    BY <2>2
  <2> QED BY <2>3, <2>4, <1>0, FocusOutOK
<1> QED BY <1>1, <1>2

LEMMA PoppedOK ==
  ASSUME NEW st \in Seq(Activation), st # <<>>, NEW t, NEW u, StackOK(st, t)
  PROVE  StackOK(Front(st), u)
<1> DEFINE n == Len(st)
           f == Front(st)
<1>1. n \in Nat /\ n # 0 /\ DOMAIN st = 1 .. n
  BY EmptySeq
<1>2. f \in Seq(Activation) /\ Len(f) = n - 1 /\ \A i \in 1 .. n - 1 : f[i] = st[i]
  BY <1>1 DEF Front
<1> HIDE DEF f
<1>3. ASSUME NEW i \in DOMAIN f
      PROVE  f[i].done \in NodesOf(key) /\ f[i].disturbed = TRUE
  <2>1. i \in 1 .. n - 1 /\ i \in DOMAIN st /\ i < Len(st)
    BY <1>1, <1>2
  <2> QED BY <2>1, <1>2 DEF StackOK
<1>4. f # <<>> => Len(f) \in DOMAIN f
  BY <1>2, EmptySeq
<1> QED BY <1>2, <1>3, <1>4 DEF StackOK, f

LEMMA KPressSeqOK ==
  ASSUME IInv, KPressSeq
  PROVE  IInv' /\ Tells
<1> DEFINE D == NodesOf(key)
           n == Len(stack)
           last == stack[n]
           press == queue[FirstPress]
           v == Valid(press)
           more == Append(last.strokes, v)
           act == [last EXCEPT !.strokes = Append(@, v)]
           nodes == List(tnext, act.done)
           hits == Hits(nodes, press, TRUE)
           found == Found(hits)
           next == [act EXCEPT !.done = found]
<1>1. /\ TypeOK /\ Presses # {} /\ queue \in Seq(Message) /\ stack \in Seq(Activation)
      /\ stack # <<>> /\ StackOK(stack, tnext) /\ Nil \notin D /\ key \in Seq(Seq(AllStrokes))
      /\ tnext \in [D -> D \cup {Nil}] /\ keyboard \in {"free", "key", "wmii"}
      /\ UNCHANGED <<key, numlock, lockmap, grabs, crashed>> /\ crashed' \in BOOLEAN
  BY NilNoNode, StackNow DEF IInv, TypeOK, KPressSeq
<1>2. n \in Nat /\ n # 0 /\ DOMAIN stack = 1 .. n /\ n \in 1 .. n /\ last \in Activation
  BY <1>1, EmptySeq
<1>3. /\ tnext' = Linked(tnext, hits)
      /\ IF Fits(act.done, press)
           THEN Return(act, "fake", Nil)
           ELSE IF found = Nil
             THEN Return(act, "bell", Nil)
             ELSE IF Complete(hits)
               THEN Return(act, "event", key[found[1]])
               ELSE stack' = [stack EXCEPT ![n] = next] /\ UNCHANGED <<said, keyboard>>
      /\ queue' = Without(queue, FirstPress)
  BY DEF KPressSeq, Last
<1>4. FirstPress \in 1 .. Len(queue) /\ press \in Message /\ press.type = "press"
  BY <1>1, FirstPressIs
<1>5. queue' \in Seq(Message)
  BY <1>1, <1>3, <1>4, Removed DEF Without
<1>6. v \in AllStrokes
  BY <1>4, ValidIs
<1> HIDE DEF v, press, last, D
<1>7. last.done \in D /\ last.strokes \in Seq(AllStrokes) /\ more \in Seq(AllStrokes) /\ more # <<>>
  <2>1. last.done \in D
    BY <1>1, <1>2 DEF StackOK, last, D
  <2>2. last.strokes \in Seq(AllStrokes)
    BY <1>2 DEF Activation
  <2>3. more \in Seq(AllStrokes) /\ Len(more) = Len(last.strokes) + 1 /\ Len(last.strokes) \in Nat
    BY <2>2, <1>6
  <2> QED BY <2>1, <2>2, <2>3, EmptySeq
<1>8. /\ act \in Activation /\ act.done = last.done /\ act.strokes = more
      /\ act.disturbed = last.disturbed
  BY <1>2, <1>7 DEF Activation
<1> HIDE DEF act, n
<1>9. nodes \in [1 .. Size -> D \cup {Nil}]
  BY <1>1, <1>7, <1>8, ListIs
<1>10. nodes = ListOf(Len(key) + 1, tnext, act.done)
  BY DEF List, ListOf
<1> HIDE DEF nodes
<1>11. hits \in [1 .. Size -> D \cup {Nil}]
  BY <1>1, <1>9, HitsType DEF D
<1>12. tnext' \in [D -> D \cup {Nil}] /\ found \in D \cup {Nil}
  <2> HIDE DEF hits
  <2> QED BY <1>1, <1>3, <1>11, LinkedType
<1>13. ASSUME last.disturbed = FALSE
       PROVE  /\ last.strokes # <<>> /\ last.done \in Candidates(key, last.strokes)
              /\ Lists(nodes, Candidates(key, last.strokes))
  <2>1. Reading(key, tnext, last)
    BY <1>1, <1>13 DEF StackOK, last, n
  <2> QED BY <2>1, <1>8, <1>10 DEF Reading
<1>14. ASSUME last.disturbed = FALSE
       PROVE  /\ found = Nil => \A i \in DOMAIN key : ~Begins(more, key[i])
              /\ found # Nil => /\ found \in D /\ found \in Candidates(key, more)
                                /\ Lists(List(tnext', found), Candidates(key, more))
              /\ Complete(hits) => /\ more = key[found[1]]
                                   /\ \A i, j \in DOMAIN key :
                                        Begins(more, key[i]) /\ Begins(more, key[j]) => i = j
  <2>1. /\ HitNodes(hits) = Candidates(key, more)
        /\ \A i, j \in 1 .. Size : hits[i] = hits[j] /\ hits[i] # Nil => i = j
    <3> DEFINE strokes == last.strokes
    <3>1. /\ TypeOK /\ strokes \in Seq(AllStrokes) /\ Valid(press) \in AllStrokes
          /\ nodes \in [1 .. Size -> NodesOf(key) \cup {Nil}]
          /\ Lists(nodes, Candidates(key, strokes))
      BY <1>1, <1>6, <1>7, <1>9, <1>13, <1>14 DEF D, v
    <3> HIDE DEF strokes
    <3>2. Exact(Hits(nodes, press, TRUE), Append(strokes, Valid(press)))
      BY ONLY <3>1, HitsMore
    <3> QED BY <3>2 DEF Exact, strokes, v
  <2> HIDE DEF hits, more
  <2> QED BY <2>1, <1>1, <1>3, <1>7, <1>11, Matched DEF D
<1> HIDE DEF hits, found, more
<1>15. ASSUME NEW what, NEW name, Return(act, what, name)
       PROVE  IInv' /\ Says(what, name, more, last.disturbed)
  <2>1. stack' = Front(stack) /\ keyboard' = "free" /\ Says(what, name, more, last.disturbed)
    BY <1>8, <1>15 DEF Return
  <2>2. StackOK(stack', tnext')
    BY <2>1, <1>1, PoppedOK
  <2> QED BY <2>1, <2>2, <1>1, <1>5, <1>12, Together DEF D
<1>16. CASE Fits(act.done, press)
  <2>1. last.disturbed = FALSE => more[Len(more)] = more[Len(more) - 1]
    <3>1. SUFFICES ASSUME last.disturbed = FALSE
                   PROVE  more[Len(more)] = more[Len(more) - 1]
      OBVIOUS
    <3> DEFINE strokes == last.strokes
               k == Len(strokes)
    <3>2. strokes \in Seq(AllStrokes) /\ k \in Nat /\ k # 0
      BY <3>1, <1>7, <1>13, EmptySeq
    <3>3. PICK c \in DOMAIN key : last.done = <<c, k>> /\ Begins(strokes, key[c])
      BY <3>1, <1>13 DEF Candidates
    <3>4. key[c][k] = v
      BY <1>8, <1>16, <3>3 DEF Fits, v
    <3>5. key[c] \in Seq(AllStrokes) /\ key[c] # <<>>
      BY <1>1 DEF TypeOK
    <3> DEFINE chord == key[c]
    <3>6. chord \in Seq(AllStrokes) /\ \A i \in 1 .. Len(chord) : chord[i] = key[c][i]
      BY <3>5, NameIs
    <3> HIDE DEF chord
    <3>7. k <= Len(chord) /\ \A i \in 1 .. k : strokes[i] = chord[i]
      BY <3>2, <3>3, <3>6, PrefixIs DEF Begins, chord
    <3>8. k \in 1 .. k /\ k \in 1 .. Len(chord)
      BY <3>2, <3>6, <3>7
    <3>9. strokes[k] = v
      BY <3>4, <3>6, <3>7, <3>8
    <3> HIDE DEF strokes
    <3>10. Len(more) = k + 1 /\ more[k + 1] = v /\ more[k] = strokes[k]
      BY <3>2, <3>8, <1>6 DEF more, strokes
    <3>11. (k + 1) - 1 = k
      BY <3>2
    <3> QED BY <3>9, <3>10, <3>11
  <2>2. Return(act, "fake", Nil)
    BY <1>3, <1>16
  <2> QED BY <2>1, <2>2, <1>15, TellsFake
<1>17. CASE ~Fits(act.done, press) /\ found = Nil
  <2>1. Return(act, "bell", Nil)
    BY <1>3, <1>17
  <2> QED BY <2>1, <1>14, <1>15, <1>17, TellsBell
<1>18. CASE ~Fits(act.done, press) /\ found # Nil /\ Complete(hits)
  <2> DEFINE name == key[found[1]]
  <2>1. Return(act, "event", name)
    BY <1>3, <1>18
  <2>2. last.disturbed = FALSE =>
          /\ more = name
          /\ \A i, j \in DOMAIN key : Begins(more, key[i]) /\ Begins(more, key[j]) => i = j
    BY <1>14, <1>18
  <2> HIDE DEF name
  <2> QED BY <2>1, <2>2, <1>15, TellsEvent
<1>19. CASE ~Fits(act.done, press) /\ found # Nil /\ ~Complete(hits)
  <2>1. stack' = [stack EXCEPT ![n] = next] /\ said' = said /\ keyboard' = keyboard
    BY <1>3, <1>19
  <2>2. found \in D /\ found \in Nat \X Nat
    BY <1>1, <1>12, <1>19, NodeNat DEF D
  <2>3. /\ next \in Activation /\ next.done = found /\ next.strokes = more
        /\ next.disturbed = last.disturbed
    BY <2>2, <1>8 DEF Activation
  <2> HIDE DEF next
  <2>4. next.disturbed = FALSE => Reading(key, tnext', next)
    <3>1. List(tnext', found) = ListOf(Len(key) + 1, tnext', found)
      BY DEF List, ListOf
    <3> QED BY <3>1, <2>3, <1>7, <1>14, <1>19 DEF Reading
  <2>5. /\ stack' \in Seq(Activation) /\ Len(stack') = n /\ stack'[n] = next
        /\ \A i \in 1 .. n - 1 : stack'[i] = stack[i]
    BY <2>1, <2>3, <1>1, SetLast DEF n
  <2>6. \A i \in 1 .. n - 1 : stack'[i] = stack[i] /\ stack[i].disturbed = TRUE
    <3>1. \A i \in 1 .. n - 1 : i \in DOMAIN stack /\ i < Len(stack)
      BY <1>2 DEF n
    <3> QED BY <3>1, <2>5, <1>1 DEF StackOK
  <2>7. (\A i \in 1 .. n : stack[i].done \in NodesOf(key)) /\ next.done \in NodesOf(key)
    BY <2>2, <2>3, <1>1, <1>2 DEF StackOK, D
  <2>8. StackOK(stack', tnext')
    <3> DEFINE k == n
    <3>1. k \in Nat /\ k = Len(stack) /\ n \in {k, k + 1}
      BY <1>2 DEF n
    <3> HIDE DEF k
    <3>2. n = k
      BY DEF k
    <3> QED BY <3>1, <3>2, <1>1, <1>2, <2>3, <2>4, <2>5, <2>6, <2>7, LastOK
  <2>9. stack' # <<>>
    BY <2>5, <1>2, EmptySeq
  <2>10. IInv'
    BY <2>1, <2>8, <2>9, <1>1, <1>5, <1>12, Together DEF D
  <2> QED BY <2>1, <2>10 DEF Tells
<1> QED BY <1>16, <1>17, <1>18, <1>19
-----------------------------------------------------------------------------
(* The table.                                                              *)

(* What TypeOK and TableGrabbed say of a table that is being read.         *)
Good(st) ==
  /\ st.key \in Seq(Seq(AllStrokes)) /\ \A i \in DOMAIN st.key : st.key[i] # <<>>
  /\ \A i \in DOMAIN st.key : Variants(st.key[i][1], lockmap) \subseteq st.grabs

LEMMA AddKeyGood ==
  ASSUME NEW st, Good(st), NEW name \in Seq(AllStrokes)
  PROVE  Good(AddKey(st, name))
<1>1. CASE (\E i \in DOMAIN st.key : st.key[i] = name) \/ ~Bindable(name)
  <2>1. AddKey(st, name) = st
    BY <1>1 DEF AddKey
  <2> QED BY <2>1
<1>2. CASE ~(\E i \in DOMAIN st.key : st.key[i] = name) /\ Bindable(name)
  <2> DEFINE keys == <<name>> \o st.key
             all == st.grabs \cup Variants(name[1], lockmap)
             new == [key |-> keys, grabs |-> all]
             n == Len(st.key)
  <2>1. AddKey(st, name) = new /\ name # <<>>
    BY <1>2 DEF AddKey, Bindable
  <2>2. st.key \in Seq(Seq(AllStrokes)) /\ n \in Nat /\ DOMAIN st.key = 1 .. n
    BY DEF Good
  <2>3. /\ keys \in Seq(Seq(AllStrokes)) /\ Len(keys) = n + 1 /\ keys[1] = name
        /\ \A i \in 1 .. n : keys[i + 1] = st.key[i]
    <3>1. PICK e \in Seq(Seq(AllStrokes)) : e = <<name>> /\ Len(e) = 1 /\ e[1] = name
      <4>1. PICK z \in Seq(Seq(AllStrokes)) : z = <<>>
        BY EmptySeq
      <4>2. Len(z) = 0 /\ Append(z, name) = <<name>>
        BY <4>1
      <4>3. /\ Append(z, name) \in Seq(Seq(AllStrokes)) /\ Len(Append(z, name)) = Len(z) + 1
            /\ Append(z, name)[Len(z) + 1] = name
        OBVIOUS
      <4> QED BY <4>2, <4>3
    <3> DEFINE r == st.key
               c == e \o r
    <3>2. r \in Seq(Seq(AllStrokes)) /\ n = Len(r) /\ keys = c
      BY <2>2, <3>1
    <3> HIDE DEF r, keys, n
    <3>3. /\ c \in Seq(Seq(AllStrokes)) /\ Len(c) = 1 + n /\ c[1] = name
          /\ \A i \in 1 .. n : c[1 + i] = r[i]
      BY <3>1, <3>2
    <3> QED BY <3>2, <3>3, <2>2 DEF r
  <2>4. new.key = keys /\ new.grabs = all
    OBVIOUS
  <2> HIDE DEF keys, new, n
  <2>5. ASSUME NEW i \in DOMAIN keys
        PROVE  keys[i] # <<>> /\ Variants(keys[i][1], lockmap) \subseteq all
    <3>1. i \in 1 .. n + 1
      BY <2>3
    <3>2. CASE i = 1
      BY <2>1, <2>3, <3>2
    <3>3. CASE i # 1
      <4>1. i - 1 \in 1 .. n /\ (i - 1) + 1 = i
        BY <2>2, <3>1, <3>3
      <4>2. keys[i] = st.key[i - 1]
        BY <2>3, <4>1
      <4>3. st.key[i - 1] # <<>> /\ Variants(st.key[i - 1][1], lockmap) \subseteq st.grabs
        BY <2>2, <4>1 DEF Good
      <4> QED BY <4>2, <4>3
    <3> QED BY <3>2, <3>3
  <2> QED BY <2>1, <2>3, <2>4, <2>5 DEF Good
<1> QED BY <1>1, <1>2

TableOf(text, n, at) ==
  at = [i \in 0 .. n |-> IF i = 0 THEN [key |-> <<>>, grabs |-> Ungrabbed]
                         ELSE AddKey(at[i - 1], text[i])]

LEMMA TableExists ==
  ASSUME NEW text, NEW n \in Nat
  PROVE  \E at : TableOf(text, n, at)
<1> DEFINE none == [key |-> <<>>, grabs |-> Ungrabbed]
           Is(m, at) == at = [i \in 0 .. m |-> IF i = 0 THEN none ELSE AddKey(at[i - 1], text[i])]
           bad == {m \in Nat : ~ \E at : Is(m, at)}
<1>0. \A at : TableOf(text, n, at) <=> Is(n, at)
  BY DEF TableOf
<1> HIDE DEF none
<1>1. ASSUME bad # {} PROVE FALSE
  <2>1. PICK m \in bad : \A k \in bad : m <= k
    <3>1. bad \subseteq Nat
      OBVIOUS
    <3> HIDE DEF bad
    <3> QED BY <1>1, <3>1, NatMin
  <2>2. m \in Nat /\ ~ \E at : Is(m, at)
    OBVIOUS
  <2>3. m # 0
    <3> DEFINE g == [i \in 0 .. 0 |-> none]
    <3>1. Is(0, g)
      OBVIOUS
    <3> QED BY <3>1, <2>2
  <2>4. m - 1 \in Nat /\ m - 1 \notin bad
    <3>1. m - 1 \in Nat /\ ~(m <= m - 1)
      BY <2>2, <2>3
    <3> HIDE DEF bad
    <3> QED BY <2>1, <3>1
  <2>5. PICK at : Is(m - 1, at)
    BY <2>4
  <2> DEFINE new == [i \in 0 .. m |-> IF i = m THEN AddKey(at[m - 1], text[m]) ELSE at[i]]
  <2>6. \A i \in 0 .. m : new[i] = IF i = 0 THEN none ELSE AddKey(new[i - 1], text[i])
    <3> TAKE i \in 0 .. m
    <3>1. CASE i = m
      <4>1. new[i] = AddKey(at[m - 1], text[m]) /\ new[i - 1] = at[m - 1]
        BY <2>2, <2>3, <3>1
      <4> HIDE DEF new
      <4> QED BY <4>1, <2>3, <3>1
    <3>2. CASE i = 0
      <4>1. new[i] = at[0] /\ 0 \in 0 .. m - 1
        BY <2>2, <2>3, <2>4, <3>2
      <4> HIDE DEF new
      <4>2. at[0] = none
        BY <2>5, <4>1
      <4> QED BY <4>1, <4>2, <3>2
    <3>3. CASE i # 0 /\ i # m
      <4>1. new[i] = at[i] /\ new[i - 1] = at[i - 1] /\ i \in 0 .. m - 1
        BY <2>2, <3>3
      <4> HIDE DEF new
      <4>2. at[i] = AddKey(at[i - 1], text[i])
        BY <2>5, <4>1, <3>3
      <4> QED BY <4>1, <4>2, <3>3
    <3> QED BY <3>1, <3>2, <3>3
  <2>7. new = [i \in 0 .. m |-> new[i]]
    OBVIOUS
  <2> HIDE DEF new
  <2>8. Is(m, new)
    BY <2>6, <2>7
  <2> QED BY <2>2, <2>8
<1>2. \E at : Is(n, at)
  <2>1. n \notin bad
    BY <1>1
  <2> QED BY <2>1
<1> HIDE DEF Is
<1> QED BY <1>0, <1>2

(* However many lines are read.                                            *)
LEMMA TableGood ==
  ASSUME NEW text \in Seq(Seq(AllStrokes))
  PROVE  Good(Table(text))
<1> DEFINE n == Len(text)
           at == CHOOSE at : TableOf(text, n, at)
           none == [key |-> <<>>, grabs |-> Ungrabbed]
<1>1. n \in Nat /\ \A i \in 1 .. n : text[i] \in Seq(AllStrokes)
  OBVIOUS
<1>2. Table(text) = at[n]
  BY DEF Table, TableOf
<1>3. TableOf(text, n, at)
  <2> HIDE DEF n
  <2> QED BY <1>1, TableExists
<1> HIDE DEF at, n
<1>4. \A i \in 0 .. n : at[i] = IF i = 0 THEN none ELSE AddKey(at[i - 1], text[i])
  <2> HIDE DEF none
  <2> QED BY <1>3 DEF TableOf, none
<1>5. Good(none)
  <2>1. none.key = <<>> /\ <<>> \in Seq(Seq(AllStrokes)) /\ DOMAIN <<>> = {}
    BY EmptySeq
  <2> HIDE DEF none
  <2> QED BY <2>1 DEF Good
<1> HIDE DEF none
<1> DEFINE bad == {i \in 0 .. n : ~Good(at[i])}
<1>6. ASSUME bad # {} PROVE FALSE
  <2>1. PICK m \in bad : \A k \in bad : m <= k
    <3>1. bad \subseteq Nat
      BY <1>1
    <3> HIDE DEF bad
    <3> QED BY <1>6, <3>1, NatMin
  <2>2. m \in 0 .. n /\ ~Good(at[m])
    OBVIOUS
  <2>3. m # 0
    BY <2>2, <1>1, <1>4, <1>5
  <2>4. m - 1 \in 0 .. n /\ m \in 1 .. n /\ ~(m <= m - 1)
    BY <1>1, <2>2, <2>3
  <2>5. Good(at[m - 1])
    BY <2>1, <2>4
  <2>6. at[m] = AddKey(at[m - 1], text[m])
    BY <1>4, <2>2, <2>3
  <2> QED BY <2>2, <2>4, <2>5, <2>6, <1>1, AddKeyGood
<1>7. n \notin bad /\ n \in 0 .. n
  BY <1>1, <1>6
<1> QED BY <1>2, <1>7

LEMMA UpdateKeysOK ==
  ASSUME IInv, NEW text \in Texts, UpdateKeys(text)
  PROVE  IInv' /\ Tells
<1>1. text \in Seq(Seq(AllStrokes))
  BY KeysAssumption DEF AllStrokes
<1> DEFINE new == Table(text)
<1>2. /\ key' = new.key /\ grabs' = new.grabs /\ tnext' = NoneLinked(new.key)
      /\ numlock' = lockmap /\ stack = <<>>
      /\ UNCHANGED <<stack, said, crashed, lockmap, keyboard, queue>>
  BY DEF UpdateKeys
<1>3. Good(new)
  BY <1>1, TableGood
<1> HIDE DEF new
<1>4. /\ key' \in Seq(Seq(AllStrokes)) /\ \A i \in DOMAIN key' : key'[i] # <<>>
      /\ \A i \in DOMAIN key' : Variants(key'[i][1], numlock') \subseteq grabs'
  BY <1>2, <1>3 DEF Good
<1>5. tnext' \in [NodesOf(key') -> NodesOf(key') \cup {Nil}]
  BY <1>2 DEF NoneLinked, NodesOf
<1>6. DOMAIN stack' = {}
  BY <1>2, EmptySeq
<1>7. TypeOK'
  <2>1. numlock' \in BOOLEAN /\ lockmap' \in BOOLEAN /\ crashed' \in BOOLEAN
        /\ stack' \in Seq(Activation) /\ keyboard' \in {"free", "key", "wmii"} /\ queue' \in Seq(Message)
    BY <1>2 DEF IInv, TypeOK
  <2> QED BY <2>1, <1>4, <1>5, <1>6 DEF TypeOK
<1>8. TableGrabbed'
  BY <1>4 DEF TableGrabbed, Variants
<1>9. ReadingInv' /\ KeyboardReleased'
  BY <1>2, <1>6 DEF IInv, ReadingInv, KeyboardReleased
<1> QED BY <1>2, <1>7, <1>8, <1>9 DEF IInv, Tells
-----------------------------------------------------------------------------
(* The server and the user.                                                *)

LEMMA PressOK ==
  ASSUME IInv, NEW stroke \in Strokes, NEW locks \in {{}, {"num"}}, Press(stroke, locks)
  PROVE  IInv' /\ Tells
<1> DEFINE press == [type |-> "press", stroke |-> stroke, locks |-> locks]
           out == [type |-> "focusout"]
<1>1. press \in Message /\ out \in Message
  BY DEF Message
<1>2. /\ queue' = Append(queue, press) \/ queue' = Append(Append(queue, out), press)
      /\ keyboard' = keyboard \/ keyboard' = "key"
      /\ UNCHANGED <<key, tnext, numlock, stack, said, crashed, lockmap, grabs>>
  BY DEF Press
<1> HIDE DEF press, out
<1>3. /\ TypeOK /\ queue \in Seq(Message) /\ StackOK(stack, tnext) /\ crashed \in BOOLEAN
      /\ tnext \in [NodesOf(key) -> NodesOf(key) \cup {Nil}]
      /\ keyboard \in {"free", "key", "wmii"}
      /\ keyboard = "wmii" => stack # <<>>
  BY StackNow DEF IInv, TypeOK, KeyboardReleased
<1>4. queue' \in Seq(Message)
  <2>1. Append(queue, press) \in Seq(Message)
    BY <1>1, <1>3
  <2>2. Append(Append(queue, out), press) \in Seq(Message)
    BY <1>1, <1>3
  <2> QED BY <1>2, <2>1, <2>2
<1>5. StackOK(stack', tnext') /\ tnext' \in [NodesOf(key) -> NodesOf(key) \cup {Nil}]
  BY <1>2, <1>3
<1>6. IInv'
  <2>1. crashed' \in BOOLEAN /\ stack' = stack
    BY <1>2, <1>3
  <2>2. keyboard' \in {"free", "key", "wmii"} /\ (keyboard' = "wmii" => stack' # <<>>)
    <3>1. CASE keyboard' = keyboard
      BY <3>1, <2>1, <1>3
    <3>2. CASE keyboard' = "key"
      BY <3>2
    <3> QED BY <3>1, <3>2, <1>2
  <2> QED BY <2>1, <2>2, <1>2, <1>4, <1>5, Together
<1> QED BY <1>2, <1>6 DEF Tells

LEMMA ReleaseOK ==
  ASSUME IInv, Release
  PROVE  IInv' /\ Tells
<1>1. /\ TypeOK /\ queue \in Seq(Message) /\ StackOK(stack, tnext) /\ crashed \in BOOLEAN
      /\ tnext \in [NodesOf(key) -> NodesOf(key) \cup {Nil}]
  BY StackNow DEF IInv, TypeOK
<1>2. keyboard' = "free"
      /\ UNCHANGED <<key, tnext, numlock, stack, said, crashed, lockmap, grabs, queue>>
  BY DEF Release
<1>3. StackOK(stack', tnext') /\ tnext' \in [NodesOf(key) -> NodesOf(key) \cup {Nil}]
  BY <1>1, <1>2
<1>4. IInv'
  BY <1>1, <1>2, <1>3, Together
<1> QED BY <1>2, <1>4 DEF Tells

LEMMA RemapOK ==
  ASSUME IInv, Remap
  PROVE  IInv' /\ Tells
<1>1. lockmap' = ~lockmap
      /\ UNCHANGED <<key, tnext, numlock, stack, said, crashed, grabs, keyboard, queue>>
  BY DEF Remap
<1>2. lockmap' \in BOOLEAN
  BY <1>1
<1>3. TypeOK'
  BY <1>1, <1>2 DEF IInv, TypeOK
<1>4. TableGrabbed'
  BY <1>1 DEF IInv, TableGrabbed, Variants
<1>5. ReadingInv' /\ KeyboardReleased'
  BY <1>1 DEF IInv, ReadingInv, KeyboardReleased
<1> QED BY <1>1, <1>3, <1>4, <1>5 DEF IInv, Tells

LEMMA InitOK == Init => IInv
<1> SUFFICES ASSUME Init PROVE IInv
  OBVIOUS
<1>1. key = <<>> /\ tnext = <<>> /\ stack = <<>> /\ queue = <<>> /\ DOMAIN key = {} /\ DOMAIN stack = {}
  BY EmptySeq DEF Init
<1>2. NodesOf(key) = {}
  BY <1>1 DEF NodesOf
<1>3. tnext \in [NodesOf(key) -> NodesOf(key) \cup {Nil}]
  <2>1. <<>> = [x \in {} |-> Nil]
    OBVIOUS
  <2> QED BY <2>1, <1>1, <1>2
<1>4. TypeOK
  BY <1>1, <1>3, EmptySeq DEF TypeOK, Init
<1> QED BY <1>1, <1>4 DEF IInv, Init, TableGrabbed, KeyboardReleased, ReadingInv

LEMMA NextOK ==
  ASSUME IInv, Next
  PROVE  IInv' /\ Tells
<1>1. ASSUME NEW text \in Texts, UpdateKeys(text) PROVE IInv' /\ Tells
  BY <1>1, UpdateKeysOK
<1>2. CASE Dispatch
  BY <1>2, DispatchOK
<1>3. CASE Flush
  BY <1>3, FlushOK
<1>4. CASE KPressSeq
  BY <1>4, KPressSeqOK
<1>5. ASSUME NEW stroke \in Strokes, NEW locks \in {{}, {"num"}}, Press(stroke, locks)
      PROVE  IInv' /\ Tells
  BY <1>5, PressOK
<1>6. CASE Release
  BY <1>6, ReleaseOK
<1>7. CASE Remap
  BY <1>7, RemapOK
<1> QED BY <1>1, <1>2, <1>3, <1>4, <1>5, <1>6, <1>7 DEF Next

LEMMA StutterOK ==
  ASSUME IInv, UNCHANGED vars
  PROVE  IInv' /\ Tells
<1>1. UNCHANGED <<key, tnext, numlock, stack, said, crashed, lockmap, grabs, keyboard, queue>>
  BY DEF vars, server
<1>2. TypeOK'
  BY <1>1 DEF IInv, TypeOK
<1>3. TableGrabbed'
  BY <1>1 DEF IInv, TableGrabbed, Variants
<1>4. ReadingInv' /\ KeyboardReleased'
  BY <1>1 DEF IInv, ReadingInv, KeyboardReleased
<1> QED BY <1>1, <1>2, <1>3, <1>4 DEF IInv, Tells
-----------------------------------------------------------------------------
(* The theorems.                                                           *)

(* The inductive invariant: the types, the grabs, and the list that an     *)
(* undisturbed kpress reads along (key.c).                                 *)
THEOREM Invariance == Spec => []IInv
<1>1. IInv /\ [Next]_vars => IInv'
  BY NextOK, StutterOK
<1> QED BY InitOK, <1>1, PTL DEF Spec

(* However the table is rewritten and the modifiers are remapped, the      *)
(* first keystroke of every binding stays grabbed with every combination   *)
(* of the locks that wmii knows (getkey, grabkey, ungrabkey).              *)
THEOREM TableGrabbedAlways == Spec => []TableGrabbed
<1>1. IInv => TableGrabbed
  BY DEF IInv
<1> QED BY <1>1, Invariance, PTL

(* No kpress that has returned has left the keyboard to wmii (kpress).     *)
THEOREM KeyboardReleasedAlways == Spec => []KeyboardReleased
<1>1. IInv => KeyboardReleased
  BY DEF IInv
<1> QED BY <1>1, Invariance, PTL

(* What an undisturbed kpress comes to is what its keystrokes say, for     *)
(* tables, chords and presses of any number (match_keys, kpress,           *)
(* kpress_seq).                                                            *)
THEOREM OutcomeAlways == Spec => Outcome
<1>1. IInv /\ [Next]_vars => [said' # said /\ ~said'.disturbed => OutcomeOf(said')]_vars
  BY NextOK DEF Tells
<1> QED BY <1>1, Invariance, PTL DEF Spec, Outcome
=============================================================================
