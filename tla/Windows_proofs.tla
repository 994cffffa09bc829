--------------------------- MODULE Windows_proofs ---------------------------
(***************************************************************************)
(* Proofs about client windows between programs, server and wmii.          *)
(*                                                                         *)
(* What counts of the queue is which events are in it (In) and which come  *)
(* before which (Before), and only those of the types in Watched: what the *)
(* server and wmii do about the focus adds and takes others, and leaves    *)
(* everything else alone (Aside).  Adds says which events a handler adds.  *)
(***************************************************************************)
EXTENDS Windows, SequenceTheorems, WellFoundedInduction, TLAPS

In(q, a) == \E i \in 1 .. Len(q) : q[i] = a
Before(q, a, b) == \E i, j \in 1 .. Len(q) : i < j /\ q[i] = a /\ q[j] = b
After(q, a, b) == \E i \in 1 .. Len(q) : q[i] = a /\ \A j \in i + 1 .. Len(q) : q[j] # b

Watched == [type : {"MapRequest", "Unmap", "UnmapFrame", "SentUnmap", "Destroy", "Enter"},
            win : Windows]
Others  == [type : {"Map"}, win : Windows]
           \cup [type : {"FocusIn", "FocusOut"}, win : Windows \cup {"bar", "none"}]
Events  == Watched \cup Others
-----------------------------------------------------------------------------
(* Sequences.                                                              *)

LEMMA NatMin ==
  ASSUME NEW S, S \subseteq Nat, S # {}
  PROVE  \E m \in S : \A k \in S : m <= k
<1> DEFINE R == OpToRel(<, Nat)
<1>1. PICK m \in S : \A k \in S : <<k, m>> \notin R
  <2>1. IsWellFoundedOn(R, Nat)
    BY NatLessThanWellFounded, Zenon
  <2> HIDE DEF R
  <2> QED BY <2>1, WFMin
<1>2. \A k \in S : ~(k < m)
  BY <1>1 DEF OpToRel
<1> QED BY <1>2

(* A set of numbers that has 0, and with each number below n the next one, *)
(* has all of them.                                                        *)
LEMMA UpTo ==
  ASSUME NEW n \in Nat, NEW G, 0 \in G,
         \A m \in 0 .. n - 1 : m \in G => m + 1 \in G
  PROVE  n \in G
<1> DEFINE bad == {m \in 0 .. n : m \notin G}
<1>1. ASSUME bad # {} PROVE FALSE
  <2>1. PICK m \in bad : \A k \in bad : m <= k
    <3>1. bad \subseteq Nat
      OBVIOUS
    <3> HIDE DEF bad
    <3> QED BY <1>1, <3>1, NatMin
  <2>2. m \in 0 .. n /\ m \notin G /\ m # 0
    OBVIOUS
  <2>3. m - 1 \in 0 .. n - 1 /\ (m - 1) + 1 = m /\ ~(m <= m - 1)
    BY <2>2
  <2>4. m - 1 \in G
    BY <2>1, <2>3
  <2> QED BY <2>2, <2>3, <2>4
<1>2. n \in 0 .. n /\ n \notin bad
  BY <1>1
<1> QED BY <1>2

LEMMA StaysIn ==
  ASSUME NEW n \in Nat, NEW S, NEW k, k[0] \in S,
         \A i \in 1 .. n : k[i - 1] \in S => k[i] \in S
  PROVE  k[n] \in S
<1> DEFINE G == {m \in 0 .. n : k[m] \in S}
<1>1. 0 \in G
  OBVIOUS
<1>2. \A m \in 0 .. n - 1 : m \in G => m + 1 \in G
  <2> TAKE m \in 0 .. n - 1
  <2>1. m + 1 \in 1 .. n /\ (m + 1) - 1 = m /\ m + 1 \in 0 .. n
    OBVIOUS
  <2>2. k[m] \in S => k[m + 1] \in S
    BY <2>1
  <2> QED BY <2>1, <2>2
<1> HIDE DEF G
<1>3. n \in G
  BY <1>1, <1>2, UpTo
<1> QED BY <1>3 DEF G

(* A function whose value at each place is made from the one before.       *)
Iterated(n, S, first, step) ==
  \E f \in [0 .. n -> S] :
    f[0] = first /\ \A i \in 1 .. n : f[i] = step[<<f[i - 1], i>>]

LEMMA Iterates ==
  ASSUME NEW n \in Nat, NEW S, NEW first \in S,
         NEW step \in [S \X (1 .. n) -> S]
  PROVE  Iterated(n, S, first, step)
<1> DEFINE Is(m, f) == /\ f \in [0 .. m -> S] /\ f[0] = first
                       /\ \A i \in 1 .. m : f[i] = step[<<f[i - 1], i>>]
           G == {m \in 0 .. n : \E f : Is(m, f)}
<1>1. 0 \in G
  <2> DEFINE f == [i \in 0 .. 0 |-> first]
  <2>1. f \in [0 .. 0 -> S] /\ f[0] = first
    OBVIOUS
  <2>2. Is(0, f)
    BY <2>1
  <2>3. 0 \in 0 .. n
    OBVIOUS
  <2> HIDE DEF f, Is
  <2> QED BY <2>2, <2>3
<1>2. ASSUME NEW m \in 0 .. n - 1, m \in G PROVE m + 1 \in G
  <2>1. PICK f : Is(m, f)
    BY <1>2
  <2> DEFINE g == [i \in 0 .. m + 1 |-> IF i = m + 1 THEN step[<<f[m], m + 1>>] ELSE f[i]]
  <2>2. m \in Nat /\ m + 1 \in 1 .. n /\ m + 1 \in 0 .. n
    OBVIOUS
  <2>3. f[m] \in S /\ step[<<f[m], m + 1>>] \in S
    BY <2>1, <2>2
  <2>4. \A i \in 0 .. m : g[i] = f[i] /\ f[i] \in S
    BY <2>1, <2>2
  <2>5. g[m + 1] = step[<<f[m], m + 1>>]
    BY <2>2
  <2>6. g \in [0 .. m + 1 -> S]
    BY <2>1, <2>3
  <2> HIDE DEF g
  <2>7. g[0] = first
    BY <2>1, <2>2, <2>4
  <2>8. \A i \in 1 .. m + 1 : g[i] = step[<<g[i - 1], i>>]
    <3> TAKE i \in 1 .. m + 1
    <3>1. CASE i = m + 1
      <4>1. i - 1 = m /\ m \in 0 .. m
        BY <2>2, <3>1
      <4> QED BY <2>4, <2>5, <3>1, <4>1
    <3>2. CASE i # m + 1
      <4>1. i \in 1 .. m /\ i \in 0 .. m /\ i - 1 \in 0 .. m
        BY <2>2, <3>2
      <4> QED BY <2>1, <2>4, <4>1
    <3> QED BY <3>1, <3>2
  <2>9. Is(m + 1, g)
    BY <2>6, <2>7, <2>8
  <2> HIDE DEF Is
  <2> QED BY <2>2, <2>9
<1> HIDE DEF G
<1>3. n \in G
  BY <1>1, <1>2, UpTo
<1> QED BY <1>3 DEF G, Iterated

LEMMA InAppend ==
  ASSUME NEW S, NEW q \in Seq(S), NEW e \in S
  PROVE  /\ Append(q, e) \in Seq(S)
         /\ \A a : In(Append(q, e), a) <=> In(q, a) \/ a = e
         /\ \A a, b : Before(Append(q, e), a, b) <=> Before(q, a, b) \/ (In(q, a) /\ b = e)
<1> DEFINE r == Append(q, e)
           n == Len(q)
<1>1. r \in Seq(S) /\ n \in Nat /\ Len(r) = n + 1 /\ r[n + 1] = e
      /\ \A i \in 1 .. n : r[i] = q[i]
  OBVIOUS
<1> HIDE DEF r
<1>2. \A a : In(r, a) <=> In(q, a) \/ a = e
  BY <1>1 DEF In
<1>3. \A a, b : Before(r, a, b) <=> Before(q, a, b) \/ (In(q, a) /\ b = e)
  <2> TAKE a, b
  <2>1. ASSUME Before(r, a, b) PROVE Before(q, a, b) \/ (In(q, a) /\ b = e)
    <3>1. PICK i, j \in 1 .. n + 1 : i < j /\ r[i] = a /\ r[j] = b
      BY <2>1, <1>1 DEF Before
    <3>2. i \in 1 .. n /\ q[i] = a
      BY <3>1, <1>1
    <3>3. CASE j = n + 1
      BY <3>1, <3>2, <3>3, <1>1 DEF In
    <3>4. CASE j # n + 1
      <4>1. j \in 1 .. n /\ q[j] = b
        BY <3>1, <3>4, <1>1
      <4> QED BY <3>1, <3>2, <4>1 DEF Before
    <3> QED BY <3>3, <3>4
  <2>2. ASSUME Before(q, a, b) PROVE Before(r, a, b)
    <3>1. PICK i, j \in 1 .. n : i < j /\ q[i] = a /\ q[j] = b
      BY <2>2 DEF Before
    <3>2. i \in 1 .. n + 1 /\ j \in 1 .. n + 1 /\ r[i] = a /\ r[j] = b
      BY <3>1, <1>1
    <3> QED BY <3>1, <3>2, <1>1 DEF Before
  <2>3. ASSUME In(q, a), b = e PROVE Before(r, a, b)
    <3>1. PICK i \in 1 .. n : q[i] = a
      BY <2>3 DEF In
    <3>2. i \in 1 .. n + 1 /\ n + 1 \in 1 .. n + 1 /\ i < n + 1 /\ r[i] = a /\ r[n + 1] = b
      BY <3>1, <2>3, <1>1
    <3> QED BY <3>2, <1>1 DEF Before
  <2> QED BY <2>1, <2>2, <2>3
<1> QED BY <1>1, <1>2, <1>3 DEF r

LEMMA InTail ==
  ASSUME NEW S, NEW q \in Seq(S), q # <<>>
  PROVE  /\ Tail(q) \in Seq(S) /\ Head(q) \in S
         /\ \A a : In(q, a) <=> a = Head(q) \/ In(Tail(q), a)
         /\ \A a, b : Before(Tail(q), a, b) => Before(q, a, b)
         /\ \A b : In(Tail(q), b) => Before(q, Head(q), b)
<1> DEFINE r == Tail(q)
           n == Len(q)
           h == Head(q)
<1>1. /\ r \in Seq(S) /\ h \in S /\ n \in Nat \ {0} /\ Len(r) = n - 1 /\ q[1] = h
      /\ \A i \in 1 .. n - 1 : r[i] = q[i + 1]
  <2>1. n \in Nat \ {0} /\ q[1] = h /\ h \in S
    OBVIOUS
  <2>2. r \in Seq(S) /\ Len(r) = n - 1
    OBVIOUS
  <2>3. \A i \in 1 .. n - 1 : r[i] = q[i + 1]
    OBVIOUS
  <2> QED BY <2>1, <2>2, <2>3
<1> HIDE DEF r, h
<1>2. \A i \in 2 .. n : i - 1 \in 1 .. n - 1 /\ r[i - 1] = q[i]
  BY <1>1
<1>3. \A a : In(q, a) <=> a = h \/ In(r, a)
  <2> TAKE a
  <2>1. ASSUME In(q, a) PROVE a = h \/ In(r, a)
    <3>1. PICK i \in 1 .. n : q[i] = a
      BY <2>1 DEF In
    <3>2. CASE i = 1
      BY <3>1, <3>2, <1>1
    <3>3. CASE i # 1
      BY <3>1, <3>3, <1>1, <1>2 DEF In
    <3> QED BY <3>2, <3>3
  <2>2. ASSUME a = h PROVE In(q, a)
    BY <2>2, <1>1 DEF In
  <2>3. ASSUME In(r, a) PROVE In(q, a)
    <3>1. PICK i \in 1 .. n - 1 : r[i] = a
      BY <2>3, <1>1 DEF In
    <3>2. i + 1 \in 1 .. n /\ q[i + 1] = a
      BY <3>1, <1>1
    <3> QED BY <3>2 DEF In
  <2> QED BY <2>1, <2>2, <2>3
<1>4. \A a, b : Before(r, a, b) => Before(q, a, b)
  <2> SUFFICES ASSUME NEW a, NEW b, Before(r, a, b) PROVE Before(q, a, b)
    OBVIOUS
  <2>1. PICK i, j \in 1 .. n - 1 : i < j /\ r[i] = a /\ r[j] = b
    BY <1>1 DEF Before
  <2>2. i + 1 \in 1 .. n /\ j + 1 \in 1 .. n /\ i + 1 < j + 1 /\ q[i + 1] = a /\ q[j + 1] = b
    BY <2>1, <1>1
  <2> QED BY <2>2 DEF Before
<1>5. \A b : In(r, b) => Before(q, h, b)
  <2> SUFFICES ASSUME NEW b, In(r, b) PROVE Before(q, h, b)
    OBVIOUS
  <2>1. PICK j \in 1 .. n - 1 : r[j] = b
    BY <1>1 DEF In
  <2>2. 1 \in 1 .. n /\ j + 1 \in 1 .. n /\ 1 < j + 1 /\ q[1] = h /\ q[j + 1] = b
    BY <2>1, <1>1
  <2> QED BY <2>2 DEF Before
<1> QED BY <1>1, <1>3, <1>4, <1>5 DEF r, h

LEMMA AfterAppend ==
  ASSUME NEW S, NEW q \in Seq(S), NEW e \in S, NEW a, NEW b
  PROVE  (After(q, a, b) /\ e # b) \/ e = a => After(Append(q, e), a, b)
<1> DEFINE r == Append(q, e)
           n == Len(q)
<1>1. n \in Nat /\ Len(r) = n + 1 /\ r[n + 1] = e /\ \A i \in 1 .. n : r[i] = q[i]
  OBVIOUS
<1> HIDE DEF r, n
<1>2. ASSUME After(q, a, b), e # b PROVE After(r, a, b)
  <2>1. PICK i \in 1 .. n : q[i] = a /\ \A j \in i + 1 .. n : q[j] # b
    BY <1>2 DEF After, n
  <2>2. i \in 1 .. n + 1 /\ r[i] = a
    BY <2>1, <1>1
  <2>3. \A j \in i + 1 .. n + 1 : r[j] # b
    <3> TAKE j \in i + 1 .. n + 1
    <3>1. CASE j = n + 1
      BY <3>1, <1>1, <1>2
    <3>2. CASE j # n + 1
      <4>1. j \in i + 1 .. n /\ j \in 1 .. n
        BY <3>2, <1>1, <2>1
      <4> QED BY <4>1, <1>1, <2>1
    <3> QED BY <3>1, <3>2
  <2> QED BY <1>1, <2>2, <2>3 DEF After
<1>3. ASSUME e = a PROVE After(r, a, b)
  <2>1. n + 1 \in 1 .. n + 1 /\ \A j \in n + 2 .. n + 1 : FALSE
    BY <1>1
  <2>2. (n + 1) + 1 = n + 2
    BY <1>1
  <2> QED BY <1>1, <1>3, <2>1, <2>2 DEF After
<1> QED BY <1>2, <1>3 DEF r

LEMMA AfterTail ==
  ASSUME NEW S, NEW q \in Seq(S), q # <<>>, NEW a, NEW b, After(q, a, b)
  PROVE  After(Tail(q), a, b) \/ (Head(q) = a /\ ~In(Tail(q), b))
<1> DEFINE r == Tail(q)
           n == Len(q)
<1>1. /\ n \in Nat \ {0} /\ Len(r) = n - 1 /\ q[1] = Head(q)
      /\ \A i \in 1 .. n - 1 : r[i] = q[i + 1]
  <2>1. n \in Nat \ {0} /\ q[1] = Head(q)
    OBVIOUS
  <2>2. r \in Seq(S) /\ Len(r) = n - 1
    OBVIOUS
  <2>3. \A i \in 1 .. n - 1 : r[i] = q[i + 1]
    OBVIOUS
  <2> QED BY <2>1, <2>2, <2>3
<1> HIDE DEF r
<1>2. PICK i \in 1 .. n : q[i] = a /\ \A j \in i + 1 .. n : q[j] # b
  BY DEF After
<1> HIDE DEF n
<1>3. \A j \in i .. n - 1 : j \in 1 .. n - 1 /\ r[j] # b
  <2> TAKE j \in i .. n - 1
  <2>1. j \in 1 .. n - 1 /\ j + 1 \in i + 1 .. n
    BY <1>1, <1>2
  <2> QED BY <2>1, <1>1, <1>2
<1>4. CASE i = 1
  <2>1. ~In(r, b)
    BY <1>1, <1>3, <1>4 DEF In
  <2> QED BY <1>1, <1>2, <1>4, <2>1 DEF r
<1>5. CASE i # 1
  <2>1. i - 1 \in 1 .. n - 1 /\ (i - 1) + 1 = i
    BY <1>1, <1>5
  <2>2. r[i - 1] = a /\ \A j \in (i - 1) + 1 .. n - 1 : r[j] # b
    BY <1>1, <1>2, <1>3, <2>1
  <2> QED BY <1>1, <2>1, <2>2 DEF After, r
<1> QED BY <1>4, <1>5

LEMMA WithoutProps ==
  ASSUME NEW S, NEW q \in Seq(S), NEW T
  PROVE  /\ Without(q, T) \in Seq(S)
         /\ \A a : In(Without(q, T), a) <=> In(q, a) /\ a \notin T
         /\ \A a, b : Before(Without(q, T), a, b) => Before(q, a, b)
         /\ \A a, b : After(q, a, b) /\ a \notin T => After(Without(q, T), a, b)
<1> DEFINE n == Len(q)
           Is(f) == f = [i \in 0 .. n |->
                           IF i = 0 THEN <<>>
                           ELSE IF q[i] \in T THEN f[i - 1] ELSE Append(f[i - 1], q[i])]
           kept == CHOOSE f : Is(f)
           step == [x \in Seq(S) \X (1 .. n) |->
                      IF q[x[2]] \in T THEN x[1] ELSE Append(x[1], q[x[2]])]
<1>1. n \in Nat /\ \A i \in 1 .. n : q[i] \in S
  OBVIOUS
<1>2. step \in [Seq(S) \X (1 .. n) -> Seq(S)]
  BY <1>1
<1>3. <<>> \in Seq(S)
  OBVIOUS
<1>4. \A k \in Seq(S), i \in 1 .. n :
        step[<<k, i>>] = IF q[i] \in T THEN k ELSE Append(k, q[i])
  OBVIOUS
<1> HIDE DEF step
<1>5. PICK f \in [0 .. n -> Seq(S)] :
         f[0] = <<>> /\ \A i \in 1 .. n : f[i] = step[<<f[i - 1], i>>]
  <2> DEFINE SS == Seq(S)
             nil == <<>>
  <2>1. n \in Nat /\ nil \in SS /\ step \in [SS \X (1 .. n) -> SS]
    BY <1>1, <1>2, <1>3
  <2> HIDE DEF SS, n, nil
  <2>2. Iterated(n, SS, nil, step)
    BY ONLY <2>1, Iterates
  <2> QED BY <2>2 DEF SS, nil, Iterated
<1>6. \A i \in 0 .. n : f[i] = IF i = 0 THEN <<>>
                               ELSE IF q[i] \in T THEN f[i - 1] ELSE Append(f[i - 1], q[i])
  <2> TAKE i \in 0 .. n
  <2>1. CASE i = 0
    BY <2>1, <1>5
  <2>2. CASE i # 0
    <3>1. i \in 1 .. n /\ i - 1 \in 0 .. n
      BY <2>2, <1>1
    <3>2. f[i - 1] \in Seq(S)
      BY <3>1, <1>5
    <3>3. f[i] = step[<<f[i - 1], i>>]
      BY <3>1, <1>5
    <3>4. step[<<f[i - 1], i>>] = IF q[i] \in T THEN f[i - 1] ELSE Append(f[i - 1], q[i])
      BY <3>1, <3>2, <1>4
    <3> QED BY <2>2, <3>3, <3>4
  <2> QED BY <2>1, <2>2
<1>7. Is(f)
  <2>1. f = [i \in 0 .. n |-> f[i]]
    BY <1>5
  <2>2. [i \in 0 .. n |-> f[i]]
        = [i \in 0 .. n |-> IF i = 0 THEN <<>>
                           ELSE IF q[i] \in T THEN f[i - 1] ELSE Append(f[i - 1], q[i])]
    BY <1>6
  <2> QED BY <2>1, <2>2
<1>8. Is(kept)
  BY <1>7
<1> HIDE DEF kept
<1>81. \A i \in 0 .. n : kept[i] = IF i = 0 THEN <<>>
                                  ELSE IF q[i] \in T THEN kept[i - 1]
                                  ELSE Append(kept[i - 1], q[i])
  <2> DEFINE g == [i \in 0 .. n |-> IF i = 0 THEN <<>>
                                  ELSE IF q[i] \in T THEN kept[i - 1]
                                  ELSE Append(kept[i - 1], q[i])]
  <2>1. \A i \in 0 .. n : g[i] = IF i = 0 THEN <<>>
                                  ELSE IF q[i] \in T THEN kept[i - 1]
                                  ELSE Append(kept[i - 1], q[i])
    OBVIOUS
  <2>2. kept = g
    BY <1>8
  <2> HIDE DEF g
  <2> QED BY <2>1, <2>2
<1> DEFINE At(m, a) == \E i \in 1 .. m : q[i] = a
           Both(m, a, b) == \E i, j \in 1 .. m : i < j /\ q[i] = a /\ q[j] = b
           Latest(m, a, b) == \E i \in 1 .. m : q[i] = a /\ \A j \in i + 1 .. m : q[j] # b
           Ok(m) == /\ kept[m] \in Seq(S)
                    /\ \A a : In(kept[m], a) <=> At(m, a) /\ a \notin T
                    /\ \A a, b : Before(kept[m], a, b) => Both(m, a, b)
                    /\ \A a, b : Latest(m, a, b) /\ a \notin T => After(kept[m], a, b)
           G == {m \in 0 .. n : Ok(m)}
<1>9. kept[0] = <<>>
  BY <1>1, <1>81
<1>10. \A m \in 0 .. n - 1 : kept[m + 1] = IF q[m + 1] \in T THEN kept[m]
                                           ELSE Append(kept[m], q[m + 1])
  <2> TAKE m \in 0 .. n - 1
  <2>1. m + 1 \in 0 .. n /\ m + 1 # 0 /\ (m + 1) - 1 = m
    BY <1>1
  <2> QED BY <2>1, <1>81
<1>11. Ok(0)
  <2>1. \A a : ~In(<<>>, a)
    BY DEF In
  <2>2. \A a, b : ~Before(<<>>, a, b)
    BY DEF Before
  <2>3. \A a, b : ~Latest(0, a, b)
    OBVIOUS
  <2> QED BY <2>1, <2>2, <2>3, <1>9
<1>12. ASSUME NEW m \in 0 .. n - 1, Ok(m) PROVE Ok(m + 1)
  <2> DEFINE e == q[m + 1]
  <2>1. m + 1 \in 1 .. n /\ e \in S
    BY <1>1
  <2>2. \A a : At(m + 1, a) <=> At(m, a) \/ a = e
    OBVIOUS
  <2>3. \A a, b : Both(m, a, b) => Both(m + 1, a, b)
    OBVIOUS
  <2>4. \A a : At(m, a) => Both(m + 1, a, e)
    OBVIOUS
  <2>41. \A a, b : Latest(m + 1, a, b) => a = e \/ (Latest(m, a, b) /\ e # b)
    <3> SUFFICES ASSUME NEW a, NEW b, Latest(m + 1, a, b), a # e
                 PROVE  Latest(m, a, b) /\ e # b
      OBVIOUS
    <3>1. PICK i \in 1 .. m + 1 : q[i] = a /\ \A j \in i + 1 .. m + 1 : q[j] # b
      OBVIOUS
    <3>2. i \in 1 .. m /\ m + 1 \in i + 1 .. m + 1 /\ \A j \in i + 1 .. m : j \in i + 1 .. m + 1
      BY <3>1
    <3> QED BY <3>1, <3>2
  <2> HIDE DEF At, Both, Latest
  <2>5. CASE e \in T
    <3>1. kept[m + 1] = kept[m]
      BY <2>5, <1>10
    <3> QED BY <3>1, <2>2, <2>3, <2>41, <2>5, <1>12
  <2>6. CASE e \notin T
    <3>1. kept[m + 1] = Append(kept[m], e)
      BY <2>6, <1>10
    <3>2. kept[m] \in Seq(S)
      BY <1>12
    <3> HIDE DEF e
    <3>3. /\ kept[m + 1] \in Seq(S)
          /\ \A a : In(kept[m + 1], a) <=> In(kept[m], a) \/ a = e
          /\ \A a, b : Before(kept[m + 1], a, b)
                         <=> Before(kept[m], a, b) \/ (In(kept[m], a) /\ b = e)
      BY <3>1, <3>2, <2>1, InAppend
    <3>4. \A a, b : (After(kept[m], a, b) /\ e # b) \/ e = a => After(kept[m + 1], a, b)
      BY <3>1, <3>2, <2>1, AfterAppend
    <3> QED BY <3>3, <3>4, <2>2, <2>3, <2>4, <2>41, <2>6, <1>12
  <2> QED BY <2>5, <2>6
<1> HIDE DEF Ok
<1>13. 0 \in G /\ \A m \in 0 .. n - 1 : m \in G => m + 1 \in G
  BY <1>1, <1>11, <1>12
<1> HIDE DEF G
<1>14. n \in G
  BY <1>1, <1>13, UpTo
<1>15. Ok(n)
  BY <1>14 DEF G
<1>16. Without(q, T) = kept[n]
  BY DEF Without, kept
<1>17. \A a : At(n, a) <=> In(q, a)
  BY DEF In
<1>18. \A a, b : Both(n, a, b) <=> Before(q, a, b)
  BY DEF Before
<1>19. \A a, b : After(q, a, b) => Latest(n, a, b)
  BY DEF After
<1> HIDE DEF At, Both, Latest
<1> QED BY <1>15, <1>16, <1>17, <1>18, <1>19 DEF Ok
-----------------------------------------------------------------------------
(* The record sys, and what is done about the focus.                       *)

Ends == Windows \cup {"bar", "root", "none"}

Sys ==
  [exists : [Windows -> BOOLEAN], up : [Windows -> BOOLEAN],
   frame : [Windows -> BOOLEAN], focus : Ends, onFrame : BOOLEAN,
   asked : SUBSET TakeFocus, queue : Seq(Events), client : Seq(Windows),
   mapped : [Windows -> BOOLEAN], fmapped : [Windows -> BOOLEAN],
   view : [Windows -> Views], sel : [Views -> Windows \cup {"nil"}],
   selview : Views, dfocus : Windows \cup {"nil", "magic", "freed"},
   gclient : Windows \cup {"nil"}]

Adds(q, r, P) ==
  /\ \A a \in Watched : In(q, a) => In(r, a)
  /\ \A a \in Watched : In(r, a) => In(q, a) \/ a \in P
  /\ \A a, b \in Watched : Before(r, a, b) => Before(q, a, b) \/ b \in P

(* The step from s to t is about the focus only.                           *)
SameShow(s, t) ==
  /\ t.exists = s.exists /\ t.client = s.client
  /\ t.view = s.view /\ t.selview = s.selview
  /\ t.up = s.up /\ t.frame = s.frame
  /\ t.mapped = s.mapped /\ t.fmapped = s.fmapped

Aside(s, t) == t \in Sys /\ SameShow(s, t) /\ Adds(s.queue, t.queue, {})

LEMMA AddsNone == \A q, P : Adds(q, q, P)
  BY DEF Adds

LEMMA AddsTrans ==
  ASSUME NEW q, NEW r, NEW u, NEW P, NEW Q, Adds(q, r, P), Adds(r, u, Q)
  PROVE  Adds(q, u, P \cup Q)
  BY DEF Adds

LEMMA AsideRefl == \A s \in Sys : Aside(s, s)
  BY AddsNone DEF Aside, SameShow

LEMMA AsideTrans ==
  ASSUME NEW s, NEW t, NEW u, Aside(s, t), Aside(t, u)
  PROVE  Aside(s, u)
<1>1. Adds(s.queue, u.queue, {} \cup {})
  BY AddsTrans DEF Aside
<1>2. {} \cup {} = {}
  OBVIOUS
<1> QED BY <1>1, <1>2 DEF Aside, SameShow

LEMMA OthersApart == Watched \cap Others = {}
  BY DEF Watched, Others

LEMMA AddsOther ==
  ASSUME NEW q \in Seq(Events), NEW e \in Others
  PROVE  Append(q, e) \in Seq(Events) /\ Adds(q, Append(q, e), {})
<1>1. e \in Events
  BY DEF Events
<1>2. /\ Append(q, e) \in Seq(Events)
      /\ \A a : In(Append(q, e), a) <=> In(q, a) \/ a = e
      /\ \A a, b : Before(Append(q, e), a, b) <=> Before(q, a, b) \/ (In(q, a) /\ b = e)
  BY <1>1, InAppend
<1>3. e \notin Watched
  BY OthersApart
<1> QED BY <1>2, <1>3 DEF Adds

LEMMA FocusEvents ==
  /\ \A w \in Windows : Event("Map", w) \in Others
  /\ \A w \in Windows \cup {"bar", "none"} :
       Event("FocusIn", w) \in Others /\ Event("FocusOut", w) \in Others
  BY DEF Event, Others

(* What an operator that sets fields of sys has to show.                   *)
Refocus(s, f, o, a, q, d, g) ==
  [s EXCEPT !.focus = f, !.onFrame = o, !.asked = a, !.queue = q, !.dfocus = d,
            !.gclient = g]

LEMMA AsideSet ==
  ASSUME NEW s \in Sys, NEW f \in Ends, NEW o \in BOOLEAN, NEW a \in SUBSET TakeFocus,
         NEW q \in Seq(Events), NEW d \in Windows \cup {"nil", "magic", "freed"},
         NEW g \in Windows \cup {"nil"}, Adds(s.queue, q, {})
  PROVE  Aside(s, Refocus(s, f, o, a, q, d, g))
<1> DEFINE t == Refocus(s, f, o, a, q, d, g)
<1>1. t \in Sys
  BY DEF Sys, Refocus
<1>2. SameShow(s, t)
  BY DEF Sys, SameShow, Refocus
<1>3. t.queue = q
  BY DEF Sys, Refocus
<1> QED BY <1>1, <1>2, <1>3 DEF Aside

LEMMA FieldsOf ==
  ASSUME NEW s \in Sys
  PROVE  /\ s.exists \in [Windows -> BOOLEAN] /\ s.up \in [Windows -> BOOLEAN]
         /\ s.frame \in [Windows -> BOOLEAN] /\ s.mapped \in [Windows -> BOOLEAN]
         /\ s.fmapped \in [Windows -> BOOLEAN]
         /\ s.focus \in Ends /\ s.onFrame \in BOOLEAN /\ s.asked \in SUBSET TakeFocus
         /\ s.queue \in Seq(Events) /\ s.client \in Seq(Windows)
         /\ s.view \in [Windows -> Views] /\ s.sel \in [Views -> Windows \cup {"nil"}]
         /\ s.selview \in Views /\ s.dfocus \in Windows \cup {"nil", "magic", "freed"}
         /\ s.gclient \in Windows \cup {"nil"}
  BY DEF Sys

LEMMA CatOne == \A S : \A q \in Seq(S), e \in S : q \o <<>> = q /\ q \o <<e>> = Append(q, e)
  OBVIOUS

LEMMA FocusToAside ==
  ASSUME NEW s \in Sys, NEW t \in Ends
  PROVE  Aside(s, FocusTo(s, t))
<1> DEFINE out == IF s.focus \in Windows /\ ~s.onFrame
                  THEN <<Event("FocusOut", s.focus)>> ELSE <<>>
           in == IF t = "root" THEN <<>> ELSE <<Event("FocusIn", t)>>
           q == s.queue \o out
           r == q \o in
<1>1. q \in Seq(Events) /\ Adds(s.queue, q, {})
  <2>0. s.queue \in Seq(Events)
    BY FieldsOf
  <2>1. CASE s.focus \in Windows /\ ~s.onFrame
    <3> DEFINE e == Event("FocusOut", s.focus)
    <3>1. e \in Others /\ e \in Events
      BY <2>1, FocusEvents DEF Events
    <3>2. q = Append(s.queue, e)
      BY <2>0, <2>1, <3>1, CatOne
    <3> HIDE DEF q, e
    <3>3. Append(s.queue, e) \in Seq(Events) /\ Adds(s.queue, Append(s.queue, e), {})
      BY <2>0, <3>1, AddsOther
    <3> QED BY <3>2, <3>3
  <2>2. CASE ~(s.focus \in Windows /\ ~s.onFrame)
    <3>0. out = <<>>
      BY <2>2
    <3> HIDE DEF out
    <3>1. q = s.queue
      BY <2>0, <3>0, CatOne
    <3> QED BY <2>0, <3>1, AddsNone
  <2> QED BY <2>1, <2>2
<1> HIDE DEF q
<1>2. r \in Seq(Events) /\ Adds(q, r, {})
  <2>1. CASE t # "root"
    <3>1. Event("FocusIn", t) \in Others /\ Event("FocusIn", t) \in Events
      BY <2>1, FocusEvents DEF Events, Ends
    <3>2. r = Append(q, Event("FocusIn", t))
      BY <1>1, <2>1, <3>1, CatOne
    <3> QED BY <1>1, <3>1, <3>2, AddsOther
  <2>2. CASE t = "root"
    <3>1. r = q
      BY <1>1, <2>2, CatOne
    <3> QED BY <1>1, <3>1, AddsNone
  <2> QED BY <2>1, <2>2
<1> HIDE DEF r
<1>3. Adds(s.queue, r, {})
  <2>1. Adds(s.queue, r, {} \cup {})
    BY <1>1, <1>2, AddsTrans
  <2> QED BY <2>1
<1>4. FocusTo(s, t) = [s EXCEPT !.focus = t, !.onFrame = FALSE, !.queue = r]
  <2>1. FocusTo(s, t) = [s EXCEPT !.focus = t, !.onFrame = FALSE, !.queue = s.queue \o out \o in]
    BY DEF FocusTo, Sys
  <2> QED BY <2>1 DEF r, q
<1> DEFINE o == FALSE
<1>41. o \in BOOLEAN
  OBVIOUS
<1>42. FocusTo(s, t) = [s EXCEPT !.focus = t, !.onFrame = o, !.queue = r]
  BY <1>4
<1> HIDE DEF o
<1>5. FocusTo(s, t) = Refocus(s, t, o, s.asked, r, s.dfocus, s.gclient)
  BY <1>42 DEF Sys, Refocus
<1>6. Aside(s, Refocus(s, t, o, s.asked, r, s.dfocus, s.gclient))
  <2>1. s.asked \in SUBSET TakeFocus /\ s.dfocus \in Windows \cup {"nil", "magic", "freed"}
        /\ s.gclient \in Windows \cup {"nil"}
    BY FieldsOf
  <2> QED BY <1>2, <1>3, <1>41, <2>1, AsideSet
<1> QED BY <1>5, <1>6

LEMMA RevertAside ==
  ASSUME NEW s \in Sys
  PROVE  Aside(s, Revert(s))
<1> DEFINE w == s.focus
           seen == w \notin Windows \/ (IF s.onFrame THEN s.frame[w] ELSE Viewable(s, w))
<1>1. CASE seen
  BY <1>1, AsideRefl DEF Revert
<1>2. CASE ~seen /\ s.onFrame
  <2>1. Revert(s) = FocusTo(s, "none")
    BY <1>2 DEF Revert
  <2> QED BY <2>1, FocusToAside DEF Ends
<1>3. CASE ~seen /\ ~s.onFrame /\ s.frame[w]
  <2> DEFINE r == Append(s.queue, Event("FocusOut", w))
  <2>1. Event("FocusOut", w) \in Others
    BY <1>3, FocusEvents
  <2>2. r \in Seq(Events) /\ Adds(s.queue, r, {})
    BY <2>1, AddsOther, FieldsOf
  <2>3. Revert(s) = [Push(s, "FocusOut", w) EXCEPT !.onFrame = TRUE]
    BY <1>3 DEF Revert
  <2> DEFINE o == TRUE
  <2>4. Revert(s) = Refocus(s, s.focus, o, s.asked, r, s.dfocus, s.gclient) /\ o \in BOOLEAN
    BY <2>3 DEF Sys, Push, Refocus
  <2> HIDE DEF r, o
  <2> QED BY <2>2, <2>4, AsideSet, FieldsOf
<1>4. CASE ~seen /\ ~s.onFrame /\ ~s.frame[w]
  <2>1. Revert(s) = FocusTo(s, "root")
    BY <1>4 DEF Revert
  <2> QED BY <2>1, FocusToAside DEF Ends
<1> QED BY <1>1, <1>2, <1>3, <1>4

LEMMA SetFocusAside ==
  ASSUME NEW s \in Sys, NEW t \in Ends
  PROVE  Aside(s, SetFocus(s, t))
<1> DEFINE u == IF s.focus = t /\ ~s.onFrame THEN s ELSE FocusTo(s, t)
<1>1. Aside(s, u)
  BY AsideRefl, FocusToAside
<1>2. u \in Sys
  BY <1>1 DEF Aside
<1> HIDE DEF u
<1>3. Aside(u, [u EXCEPT !.asked = {}])
  <2>1. [u EXCEPT !.asked = {}]
        = Refocus(u, u.focus, u.onFrame, {}, u.queue, u.dfocus, u.gclient)
    BY <1>2 DEF Sys, Refocus
  <2> QED BY <1>2, <2>1, AsideSet, AddsNone, FieldsOf
<1>4. Aside(s, [u EXCEPT !.asked = {}])
  BY <1>1, <1>3, AsideTrans
<1>5. SetFocus(s, t) = s \/ SetFocus(s, t) = [u EXCEPT !.asked = {}]
  BY DEF SetFocus, u
<1> QED BY <1>4, <1>5, AsideRefl

(* disp.focus, group->client and the answers awaited change by themselves. *)
LEMMA AsideNote ==
  ASSUME NEW s \in Sys, NEW a \in SUBSET TakeFocus,
         NEW d \in Windows \cup {"nil", "magic", "freed"}, NEW g \in Windows \cup {"nil"}
  PROVE  /\ Aside(s, [s EXCEPT !.asked = a]) /\ Aside(s, [s EXCEPT !.dfocus = d])
         /\ Aside(s, [s EXCEPT !.gclient = g])
<1>1. Aside(s, [s EXCEPT !.asked = a])
  <2>1. [s EXCEPT !.asked = a]
        = Refocus(s, s.focus, s.onFrame, a, s.queue, s.dfocus, s.gclient)
    BY DEF Sys, Refocus
  <2> QED BY <2>1, AsideSet, AddsNone, FieldsOf
<1>2. Aside(s, [s EXCEPT !.dfocus = d])
  <2>1. [s EXCEPT !.dfocus = d]
        = Refocus(s, s.focus, s.onFrame, s.asked, s.queue, d, s.gclient)
    BY DEF Sys, Refocus
  <2> QED BY <2>1, AsideSet, AddsNone, FieldsOf
<1>3. Aside(s, [s EXCEPT !.gclient = g])
  <2>1. [s EXCEPT !.gclient = g]
        = Refocus(s, s.focus, s.onFrame, s.asked, s.queue, s.dfocus, g)
    BY DEF Sys, Refocus
  <2> QED BY <2>1, AsideSet, AddsNone, FieldsOf
<1> QED BY <1>1, <1>2, <1>3

LEMMA FocusEventAside ==
  ASSUME NEW s \in Sys, NEW e \in Events, IsFocus(e)
  PROVE  Aside(s, FocusEvent(s, e))
<1>1. e.type \in {"FocusIn", "FocusOut"} /\ e.win \in Windows \cup {"bar", "none"}
  BY DEF Events, Watched, Others, IsFocus
<1>2. \A d \in Windows \cup {"nil", "magic", "freed"} : Aside(s, [s EXCEPT !.dfocus = d])
  BY AsideNote, FieldsOf
<1>3. Managed(s) \subseteq Windows
  BY FieldsOf DEF Managed, ToSet
<1>4. Aside(s, SetFocus([s EXCEPT !.dfocus = "magic"], "bar"))
  <2>1. Aside(s, [s EXCEPT !.dfocus = "magic"])
    BY <1>2
  <2>2. Aside([s EXCEPT !.dfocus = "magic"], SetFocus([s EXCEPT !.dfocus = "magic"], "bar"))
    BY <2>1, SetFocusAside DEF Aside, Ends
  <2> QED BY <2>1, <2>2, AsideTrans
<1>5. Aside(s, FocusIn(s, e.win))
  <2>1. \/ FocusIn(s, e.win) = SetFocus([s EXCEPT !.dfocus = "magic"], "bar")
        \/ FocusIn(s, e.win) = [s EXCEPT !.dfocus = "nil"]
        \/ e.win \in Managed(s) /\ FocusIn(s, e.win) = [s EXCEPT !.dfocus = e.win]
        \/ FocusIn(s, e.win) = s
    BY DEF FocusIn
  <2> QED BY <2>1, <1>2, <1>3, <1>4, AsideRefl
<1>6. Aside(s, FocusOut(s, e.win))
  <2>1. \/ FocusOut(s, e.win) = [s EXCEPT !.dfocus = "magic"]
        \/ FocusOut(s, e.win) = s
    BY DEF FocusOut
  <2> QED BY <2>1, <1>2, AsideRefl
<1> QED BY <1>5, <1>6 DEF FocusEvent

(* s without the events about the focus, and what reading these makes of   *)
(* it, one after the other.                                                *)
Swept(s) == [s EXCEPT !.queue = Without(@, {e \in ToSet(@) : IsFocus(e)})]

FlushRun(s, read) ==
  LET n == Len(s.queue)
  IN  /\ FlushFocus(s) = read[n] /\ read[0] = Swept(s)
      /\ \A i \in 0 .. n : Aside(s, read[i])
      /\ \A i \in 1 .. n : read[i] = IF IsFocus(s.queue[i])
                                    THEN FocusEvent(read[i - 1], s.queue[i])
                                    ELSE read[i - 1]

LEMMA FlushRuns ==
  ASSUME NEW s \in Sys
  PROVE  \E read : FlushRun(s, read)
<1> DEFINE n == Len(s.queue)
           e(i) == s.queue[i]
           F == {x \in ToSet(s.queue) : IsFocus(x)}
           q == Without(s.queue, F)
           first == [s EXCEPT !.queue = q]
           Is(f) == f = [i \in 0 .. n |->
                           IF i = 0 THEN first
                           ELSE IF IsFocus(e(i)) THEN FocusEvent(f[i - 1], e(i))
                           ELSE f[i - 1]]
           read == CHOOSE f : Is(f)
           S == {u \in Sys : Aside(s, u)}
           step == [x \in S \X (1 .. n) |->
                      IF IsFocus(e(x[2])) THEN FocusEvent(x[1], e(x[2])) ELSE x[1]]
<1>1. n \in Nat /\ \A i \in 1 .. n : e(i) \in Events
  BY FieldsOf
<1>0. first = Swept(s)
  BY DEF Swept
<1>2. q \in Seq(Events) /\ Adds(s.queue, q, {})
  <2>1. /\ q \in Seq(Events)
        /\ \A a : In(q, a) <=> In(s.queue, a) /\ a \notin F
        /\ \A a, b : Before(q, a, b) => Before(s.queue, a, b)
    <3> HIDE DEF F
    <3> QED BY FieldsOf, WithoutProps
  <2>2. \A a \in Watched : a \notin F
    BY DEF Watched, IsFocus
  <2> HIDE DEF F, q
  <2> QED BY <2>1, <2>2 DEF Adds
<1>3. first \in S
  <2> HIDE DEF q
  <2>1. first = Refocus(s, s.focus, s.onFrame, s.asked, q, s.dfocus, s.gclient)
    BY DEF Sys, Refocus
  <2> HIDE DEF first
  <2>2. Aside(s, first)
    BY <1>2, <2>1, AsideSet, FieldsOf
  <2> QED BY <2>2 DEF Aside
<1> HIDE DEF first
<1>4. \A u \in S, i \in 1 .. n :
        (IF IsFocus(e(i)) THEN FocusEvent(u, e(i)) ELSE u) \in S
  <2> TAKE u \in S, i \in 1 .. n
  <2>1. CASE IsFocus(e(i))
    <3>1. e(i) \in Events
      BY <1>1
    <3> HIDE DEF e
    <3>2. Aside(u, FocusEvent(u, e(i)))
      BY <2>1, <3>1, FocusEventAside
    <3>3. Aside(s, FocusEvent(u, e(i)))
      BY <3>2, AsideTrans
    <3> QED BY <2>1, <3>3 DEF Aside
  <2>2. CASE ~IsFocus(e(i))
    BY <2>2
  <2> QED BY <2>1, <2>2
<1> HIDE DEF n, e, S
<1>5. step \in [S \X (1 .. n) -> S]
  BY <1>4
<1>6. \A u \in S, i \in 1 .. n :
        step[<<u, i>>] = IF IsFocus(e(i)) THEN FocusEvent(u, e(i)) ELSE u
  OBVIOUS
<1> HIDE DEF step
<1>7. PICK f \in [0 .. n -> S] :
         f[0] = first /\ \A i \in 1 .. n : f[i] = step[<<f[i - 1], i>>]
  <2>1. Iterated(n, S, first, step)
    BY <1>1, <1>3, <1>5, Iterates
  <2> QED BY <2>1 DEF Iterated
<1>8. \A i \in 0 .. n : f[i] = IF i = 0 THEN first
                               ELSE IF IsFocus(e(i)) THEN FocusEvent(f[i - 1], e(i))
                               ELSE f[i - 1]
  <2> TAKE i \in 0 .. n
  <2>1. CASE i = 0
    BY <2>1, <1>7
  <2>2. CASE i # 0
    <3>1. i \in 1 .. n /\ i - 1 \in 0 .. n
      BY <2>2, <1>1
    <3>2. f[i - 1] \in S /\ f[i] = step[<<f[i - 1], i>>]
      BY <3>1, <1>7
    <3>3. step[<<f[i - 1], i>>] = IF IsFocus(e(i)) THEN FocusEvent(f[i - 1], e(i))
                                  ELSE f[i - 1]
      BY <3>1, <3>2, <1>6
    <3> QED BY <2>2, <3>2, <3>3
  <2> QED BY <2>1, <2>2
<1>9. Is(f)
  <2>1. f = [i \in 0 .. n |-> f[i]]
    BY <1>7
  <2>2. [i \in 0 .. n |-> f[i]]
        = [i \in 0 .. n |-> IF i = 0 THEN first
                            ELSE IF IsFocus(e(i)) THEN FocusEvent(f[i - 1], e(i))
                            ELSE f[i - 1]]
    BY <1>8
  <2> QED BY <2>1, <2>2
<1>10. Is(read)
  BY <1>9
<1>11. FlushFocus(s) = read[n]
  BY DEF FlushFocus, first, n, e
<1> HIDE DEF read
<1>12. \A i \in 0 .. n : read[i] = IF i = 0 THEN first
                                   ELSE IF IsFocus(e(i)) THEN FocusEvent(read[i - 1], e(i))
                                   ELSE read[i - 1]
  <2> DEFINE g == [i \in 0 .. n |-> IF i = 0 THEN first
                                   ELSE IF IsFocus(e(i)) THEN FocusEvent(read[i - 1], e(i))
                                   ELSE read[i - 1]]
  <2>1. \A i \in 0 .. n : g[i] = IF i = 0 THEN first
                                 ELSE IF IsFocus(e(i)) THEN FocusEvent(read[i - 1], e(i))
                                 ELSE read[i - 1]
    OBVIOUS
  <2>2. read = g
    BY <1>10
  <2> HIDE DEF g
  <2> QED BY <2>1, <2>2
<1>13. read[0] = first /\ read[0] \in S
  BY <1>1, <1>3, <1>12
<1>14. \A i \in 1 .. n : read[i] = IF IsFocus(e(i)) THEN FocusEvent(read[i - 1], e(i))
                                  ELSE read[i - 1]
  BY <1>1, <1>12
<1>15. \A m \in 0 .. n : read[m] \in S
  <2> TAKE m \in 0 .. n
  <2>1. m \in Nat /\ \A i \in 1 .. m : i \in 1 .. n
    BY <1>1
  <2>2. \A i \in 1 .. m : read[i - 1] \in S => read[i] \in S
    BY <2>1, <1>4, <1>14
  <2> QED BY <2>1, <2>2, <1>13, StaysIn
<1>16. \A i \in 0 .. n : Aside(s, read[i])
  BY <1>15 DEF S
<1> QED BY <1>0, <1>11, <1>13, <1>14, <1>16 DEF FlushRun, n, e

LEMMA FlushFocusAside ==
  ASSUME NEW s \in Sys
  PROVE  Aside(s, FlushFocus(s))
<1>1. PICK read : FlushRun(s, read)
  BY FlushRuns
<1>2. Len(s.queue) \in 0 .. Len(s.queue)
  BY FieldsOf
<1> QED BY <1>1, <1>2 DEF FlushRun

LEMMA GiveFocusAside ==
  ASSUME NEW s \in Sys, NEW c \in Windows \cup {"nil"}
  PROVE  Aside(s, GiveFocus(s, c))
<1>1. CASE c = "nil"
  BY <1>1, SetFocusAside DEF GiveFocus, Ends
<1>2. CASE c # "nil" /\ c \notin NoInput
  BY <1>2, SetFocusAside DEF GiveFocus, Ends
<1>3. CASE c # "nil" /\ c \in NoInput /\ c \in TakeFocus
  <2>1. s.asked \cup {c} \in SUBSET TakeFocus
    BY <1>3, FieldsOf
  <2>2. Aside(s, [s EXCEPT !.asked = s.asked \cup {c}])
    BY <2>1, AsideNote, FieldsOf
  <2> QED BY <1>3, <2>2 DEF GiveFocus
<1>4. CASE c # "nil" /\ c \in NoInput /\ c \notin TakeFocus
  BY <1>4, AsideRefl DEF GiveFocus
<1> QED BY <1>1, <1>2, <1>3, <1>4

LEMMA ClientFocusAside ==
  ASSUME NEW s \in Sys, NEW c \in Windows \cup {"nil"}
  PROVE  Aside(s, ClientFocus(s, c))
<1> DEFINE h == [s EXCEPT !.gclient = IF c \in Grouped THEN c ELSE @]
           g == FlushFocus(h)
<1>1. Aside(s, h)
  <2> DEFINE x == IF c \in Grouped THEN c ELSE s.gclient
  <2>1. x \in Windows \cup {"nil"} /\ h = [s EXCEPT !.gclient = x]
    BY FieldsOf
  <2> HIDE DEF x
  <2> QED BY <2>1, AsideNote, FieldsOf
<1>2. h \in Sys
  BY <1>1 DEF Aside
<1> HIDE DEF h
<1>3. Aside(h, g)
  BY <1>2, FlushFocusAside
<1>4. Aside(s, g) /\ g \in Sys
  BY <1>1, <1>3, AsideTrans DEF Aside
<1>5. ClientFocus(s, c) = IF g.dfocus = c THEN g ELSE FlushFocus(GiveFocus(g, c))
  BY DEF ClientFocus, g, h
<1> HIDE DEF g
<1>6. Aside(g, GiveFocus(g, c))
  BY <1>4, GiveFocusAside
<1>7. GiveFocus(g, c) \in Sys
  BY <1>6 DEF Aside
<1>8. Aside(GiveFocus(g, c), FlushFocus(GiveFocus(g, c)))
  BY <1>7, FlushFocusAside
<1>9. Aside(s, FlushFocus(GiveFocus(g, c)))
  BY <1>4, <1>6, <1>8, AsideTrans
<1> QED BY <1>4, <1>5, <1>9
-----------------------------------------------------------------------------
(* Mapping and unmapping.                                                  *)

(* What mapping and unmapping leave alone, in all and at the window x.     *)
SameSet(s, t) ==
  /\ t.exists = s.exists /\ t.client = s.client
  /\ t.view = s.view /\ t.selview = s.selview

Stays(s, t, x) ==
  /\ t.up[x] = s.up[x] /\ t.frame[x] = s.frame[x]
  /\ t.mapped[x] = s.mapped[x] /\ t.fmapped[x] = s.fmapped[x]

Around(s, t, w) ==
  t \in Sys /\ SameSet(s, t) /\ \A x \in Windows : x # w => Stays(s, t, x)

LEMMA AsideAround ==
  ASSUME NEW s, NEW t, NEW w, Aside(s, t)
  PROVE  Around(s, t, w) /\ Stays(s, t, w)
  BY DEF Aside, SameShow, Around, SameSet, Stays

LEMMA AroundTrans ==
  ASSUME NEW s, NEW t, NEW u, NEW w, Around(s, t, w), Around(t, u, w)
  PROVE  Around(s, u, w)
  BY DEF Around, SameSet, Stays

(* q followed by e, and perhaps by events about the focus.                 *)
Pushed(q, r, e) ==
  /\ \A a \in Watched : In(r, a) <=> In(q, a) \/ a = e
  /\ \A a, b \in Watched : Before(r, a, b) => Before(q, a, b) \/ (In(q, a) /\ b = e)

LEMMA PushedAdds == \A q, r, e : Pushed(q, r, e) => Adds(q, r, {e})
  BY DEF Pushed, Adds

LEMMA PushedThen ==
  ASSUME NEW q, NEW r, NEW u, NEW e, Pushed(q, r, e), Adds(r, u, {})
  PROVE  Pushed(q, u, e)
  BY DEF Pushed, Adds

LEMMA PushDoes ==
  ASSUME NEW s \in Sys, NEW t, NEW w, Event(t, w) \in Events
  PROVE  /\ Push(s, t, w) \in Sys /\ SameShow(s, Push(s, t, w))
         /\ Pushed(s.queue, Push(s, t, w).queue, Event(t, w))
<1> DEFINE e == Event(t, w)
           r == Append(s.queue, e)
           u == [s EXCEPT !.queue = r]
<1> HIDE DEF e
<1>1. s.queue \in Seq(Events)
  BY FieldsOf
<1>2. /\ r \in Seq(Events)
      /\ \A a : In(r, a) <=> In(s.queue, a) \/ a = e
      /\ \A a, b : Before(r, a, b) <=> Before(s.queue, a, b) \/ (In(s.queue, a) /\ b = e)
  <2> e \in Events
    BY DEF e
  <2> QED BY <1>1, InAppend
<1> HIDE DEF r
<1>3. u \in Sys /\ SameShow(s, u) /\ u.queue = r
  BY <1>2 DEF Sys, SameShow
<1>4. Pushed(s.queue, r, e)
  BY <1>2 DEF Pushed
<1>5. Push(s, t, w) = u
  BY DEF Push, r, e
<1> QED BY <1>3, <1>4, <1>5 DEF e

LEMMA PushOther ==
  ASSUME NEW s \in Sys, NEW t, NEW w, Event(t, w) \in Others
  PROVE  Aside(s, Push(s, t, w))
<1>1. Event(t, w) \in Events /\ Event(t, w) \notin Watched
  BY OthersApart DEF Events
<1>2. /\ Push(s, t, w) \in Sys /\ SameShow(s, Push(s, t, w))
      /\ Pushed(s.queue, Push(s, t, w).queue, Event(t, w))
  BY <1>1, PushDoes
<1> QED BY <1>1, <1>2 DEF Aside, Pushed, Adds

LEMMA WatchedEvents ==
  \A t \in {"MapRequest", "Unmap", "UnmapFrame", "SentUnmap", "Destroy", "Enter"}, w \in Windows :
    /\ Event(t, w) \in Watched /\ Event(t, w) \in Events
    /\ Event(t, w).type = t /\ Event(t, w).win = w
  BY DEF Event, Watched, Events
-----------------------------------------------------------------------------
MapWinDoes(s, t, w) ==
  /\ Around(s, t, w) /\ Adds(s.queue, t.queue, {})
  /\ t.mapped[w] /\ t.fmapped[w] = s.fmapped[w] /\ t.frame[w] = s.frame[w]
  /\ t.up[w] <=> s.up[w] \/ (~s.mapped[w] /\ s.exists[w])

LEMMA MapWinOk ==
  ASSUME NEW s \in Sys, NEW w \in Windows
  PROVE  MapWinDoes(s, MapWin(s, w), w)
<1> DEFINE m == [s EXCEPT !.mapped[w] = TRUE]
           u == [m EXCEPT !.up[w] = TRUE]
<1>1. /\ Around(s, m, w) /\ m.queue = s.queue
      /\ m.mapped[w] /\ m.fmapped[w] = s.fmapped[w]
      /\ m.up[w] = s.up[w] /\ m.frame[w] = s.frame[w]
  BY DEF Sys, Around, SameSet, Stays
<1>2. m \in Sys /\ m.exists = s.exists
  BY <1>1 DEF Around, SameSet
<1> HIDE DEF m
<1>3. /\ Around(m, u, w) /\ u.queue = m.queue
      /\ u.mapped[w] = m.mapped[w] /\ u.fmapped[w] = m.fmapped[w]
      /\ u.up[w] /\ u.frame[w] = m.frame[w]
  BY <1>2 DEF Sys, Around, SameSet, Stays
<1> HIDE DEF u
<1>4. CASE s.mapped[w]
  <2>1. MapWin(s, w) = s
    BY <1>4 DEF MapWin
  <2> QED BY <2>1, <1>4, AddsNone DEF MapWinDoes, Around, SameSet, Stays
<1>5. CASE ~s.mapped[w] /\ (s.up[w] \/ ~s.exists[w])
  <2>1. MapWin(s, w) = m
    BY <1>5 DEF MapWin, m
  <2> QED BY <2>1, <1>1, <1>5, AddsNone DEF MapWinDoes
<1>6. CASE ~s.mapped[w] /\ ~s.up[w] /\ s.exists[w]
  <2>1. MapWin(s, w) = Push(u, "Map", w)
    BY <1>6 DEF MapWin, m, u
  <2>2. u \in Sys /\ Event("Map", w) \in Others
    BY <1>3, FocusEvents DEF Around
  <2>3. Aside(u, Push(u, "Map", w))
    BY <2>2, PushOther
  <2>4. Around(u, Push(u, "Map", w), w) /\ Stays(u, Push(u, "Map", w), w)
    BY <2>3, AsideAround
  <2>5. Around(s, Push(u, "Map", w), w)
    BY <1>1, <1>3, <2>4, AroundTrans
  <2>6. Adds(s.queue, Push(u, "Map", w).queue, {})
    BY <1>1, <1>3, <2>3 DEF Aside
  <2> QED BY <2>1, <2>4, <2>5, <2>6, <1>1, <1>3, <1>6 DEF MapWinDoes, Stays
<1> QED BY <1>4, <1>5, <1>6

MapFrameDoes(s, t, w) ==
  /\ Around(s, t, w) /\ t.queue = s.queue
  /\ t.fmapped[w] /\ t.mapped[w] = s.mapped[w] /\ t.up[w] = s.up[w]
  /\ t.frame[w] <=> s.frame[w] \/ ~s.fmapped[w]

LEMMA MapFrameOk ==
  ASSUME NEW s \in Sys, NEW w \in Windows
  PROVE  MapFrameDoes(s, MapFrame(s, w), w)
<1>1. CASE s.fmapped[w]
  BY <1>1 DEF MapFrame, MapFrameDoes, Around, SameSet, Stays
<1>2. CASE ~s.fmapped[w]
  <2> DEFINE m == [s EXCEPT !.fmapped[w] = TRUE]
             u == [m EXCEPT !.frame[w] = TRUE]
  <2>1. /\ Around(s, m, w) /\ m.queue = s.queue
        /\ m.fmapped[w] /\ m.mapped[w] = s.mapped[w]
        /\ m.up[w] = s.up[w] /\ m.frame[w] = s.frame[w]
    BY DEF Sys, Around, SameSet, Stays
  <2>2. m \in Sys
    BY <2>1 DEF Around
  <2>3. MapFrame(s, w) = u
    BY <1>2 DEF MapFrame
  <2> HIDE DEF m
  <2>4. /\ Around(m, u, w) /\ u.queue = m.queue
        /\ u.fmapped[w] = m.fmapped[w] /\ u.mapped[w] = m.mapped[w]
        /\ u.up[w] = m.up[w] /\ u.frame[w]
    BY <2>2 DEF Sys, Around, SameSet, Stays
  <2> HIDE DEF u
  <2>5. Around(s, u, w)
    BY <2>1, <2>4, AroundTrans
  <2> QED BY <2>1, <2>3, <2>4, <2>5, <1>2 DEF MapFrameDoes
<1> QED BY <1>1, <1>2

UnmapWinDoes(s, t, w) ==
  /\ Around(s, t, w) /\ Adds(s.queue, t.queue, {e \in {Event("Unmap", w)} : s.mapped[w]})
  /\ ~t.mapped[w] /\ t.fmapped[w] = s.fmapped[w] /\ t.frame[w] = s.frame[w]
  /\ t.up[w] <=> s.up[w] /\ ~s.mapped[w]

LEMMA UnmapWinOk ==
  ASSUME NEW s \in Sys, NEW w \in Windows
  PROVE  UnmapWinDoes(s, UnmapWin(s, w), w)
<1> DEFINE m == [s EXCEPT !.mapped[w] = FALSE]
           u == [m EXCEPT !.up[w] = FALSE]
           p == Push(u, "Unmap", w)
           r == Revert(p)
           e == Event("Unmap", w)
<1>1. /\ Around(s, m, w) /\ m.queue = s.queue
      /\ ~m.mapped[w] /\ m.fmapped[w] = s.fmapped[w]
      /\ m.up[w] = s.up[w] /\ m.frame[w] = s.frame[w]
  BY DEF Sys, Around, SameSet, Stays
<1>2. m \in Sys
  BY <1>1 DEF Around
<1>3. UnmapWin(s, w) = IF ~s.mapped[w] THEN s ELSE IF ~s.up[w] THEN m ELSE r
  <2>1. ~s.up[w] <=> ~m.up[w]
    BY <1>1
  <2> QED BY <2>1 DEF UnmapWin
<1> HIDE DEF m
<1>4. /\ Around(m, u, w) /\ u.queue = m.queue
      /\ u.mapped[w] = m.mapped[w] /\ u.fmapped[w] = m.fmapped[w]
      /\ ~u.up[w] /\ u.frame[w] = m.frame[w]
  BY <1>2 DEF Sys, Around, SameSet, Stays
<1> HIDE DEF u
<1>5. u \in Sys /\ Around(s, u, w)
  <2>1. u \in Sys
    BY <1>4 DEF Around
  <2> QED BY <1>1, <1>4, <2>1, AroundTrans
<1>6. p \in Sys /\ SameShow(u, p) /\ Pushed(u.queue, p.queue, e)
  BY <1>5, PushDoes, WatchedEvents
<1> HIDE DEF p
<1>7. Aside(p, r)
  BY <1>6, RevertAside
<1> HIDE DEF r
<1>8. Around(u, r, w) /\ Stays(u, r, w)
  BY <1>6, <1>7 DEF Aside, SameShow, Around, SameSet, Stays
<1>9. Adds(s.queue, r.queue, {e})
  BY <1>1, <1>4, <1>6, <1>7, PushedThen, PushedAdds DEF Aside
<1>10. CASE ~s.mapped[w]
  BY <1>3, <1>10, AddsNone DEF UnmapWinDoes, Around, SameSet, Stays
<1>11. CASE s.mapped[w] /\ ~s.up[w]
  BY <1>1, <1>3, <1>11, AddsNone DEF UnmapWinDoes
<1>12. CASE s.mapped[w] /\ s.up[w]
  <2>1. Around(s, r, w)
    BY <1>5, <1>8, AroundTrans
  <2>2. {x \in {e} : s.mapped[w]} = {e}
    BY <1>12
  <2> QED BY <2>1, <2>2, <1>1, <1>3, <1>4, <1>8, <1>9, <1>12 DEF UnmapWinDoes, Stays
<1> QED BY <1>10, <1>11, <1>12

UnmapFrameDoes(s, t, w) ==
  /\ Around(s, t, w)
  /\ Adds(s.queue, t.queue, {e \in {Event("UnmapFrame", w)} : s.fmapped[w]})
  /\ ~t.fmapped[w] /\ t.mapped[w] = s.mapped[w] /\ t.up[w] = s.up[w]
  /\ t.frame[w] <=> s.frame[w] /\ ~s.fmapped[w]

LEMMA UnmapFrameOk ==
  ASSUME NEW s \in Sys, NEW w \in Windows
  PROVE  UnmapFrameDoes(s, UnmapFrame(s, w), w)
<1> DEFINE m == [s EXCEPT !.fmapped[w] = FALSE]
           u == [m EXCEPT !.frame[w] = FALSE]
           p == Push(u, "UnmapFrame", w)
           r == Revert(p)
           e == Event("UnmapFrame", w)
<1>1. /\ Around(s, m, w) /\ m.queue = s.queue
      /\ ~m.fmapped[w] /\ m.mapped[w] = s.mapped[w]
      /\ m.up[w] = s.up[w] /\ m.frame[w] = s.frame[w]
  BY DEF Sys, Around, SameSet, Stays
<1>2. m \in Sys
  BY <1>1 DEF Around
<1>3. UnmapFrame(s, w) = IF ~s.fmapped[w] THEN s ELSE IF ~s.frame[w] THEN m ELSE r
  <2>1. ~s.frame[w] <=> ~m.frame[w]
    BY <1>1
  <2> QED BY <2>1 DEF UnmapFrame
<1> HIDE DEF m
<1>4. /\ Around(m, u, w) /\ u.queue = m.queue
      /\ u.mapped[w] = m.mapped[w] /\ u.fmapped[w] = m.fmapped[w]
      /\ ~u.frame[w] /\ u.up[w] = m.up[w]
  BY <1>2 DEF Sys, Around, SameSet, Stays
<1> HIDE DEF u
<1>5. u \in Sys /\ Around(s, u, w)
  <2>1. u \in Sys
    BY <1>4 DEF Around
  <2> QED BY <1>1, <1>4, <2>1, AroundTrans
<1>6. p \in Sys /\ SameShow(u, p) /\ Pushed(u.queue, p.queue, e)
  BY <1>5, PushDoes, WatchedEvents
<1> HIDE DEF p
<1>7. Aside(p, r)
  BY <1>6, RevertAside
<1> HIDE DEF r
<1>8. Around(u, r, w) /\ Stays(u, r, w)
  BY <1>6, <1>7 DEF Aside, SameShow, Around, SameSet, Stays
<1>9. Adds(s.queue, r.queue, {e})
  BY <1>1, <1>4, <1>6, <1>7, PushedThen, PushedAdds DEF Aside
<1>10. CASE ~s.fmapped[w]
  BY <1>3, <1>10, AddsNone DEF UnmapFrameDoes, Around, SameSet, Stays
<1>11. CASE s.fmapped[w] /\ ~s.frame[w]
  BY <1>1, <1>3, <1>11, AddsNone DEF UnmapFrameDoes
<1>12. CASE s.fmapped[w] /\ s.frame[w]
  <2>1. Around(s, r, w)
    BY <1>5, <1>8, AroundTrans
  <2>2. {x \in {e} : s.fmapped[w]} = {e}
    BY <1>12
  <2> QED BY <2>1, <2>2, <1>1, <1>3, <1>4, <1>8, <1>9, <1>12 DEF UnmapFrameDoes, Stays
<1> QED BY <1>10, <1>11, <1>12
-----------------------------------------------------------------------------
(* view_update.                                                            *)

Shows(s, w) == w \in Managed(s) /\ s.view[w] = s.selview
Hides(s, w) == w \in Managed(s) /\ s.view[w] # s.selview

(* What view_update makes of a client of the selected view, and of another.*)
ShownAt(s, t, w) ==
  /\ t.mapped[w] /\ t.fmapped[w]
  /\ t.up[w] <=> s.up[w] \/ (~s.mapped[w] /\ s.exists[w])
  /\ t.frame[w] <=> s.frame[w] \/ ~s.fmapped[w]

HiddenAt(s, t, w) ==
  /\ ~t.mapped[w] /\ ~t.fmapped[w]
  /\ t.up[w] <=> s.up[w] /\ ~s.mapped[w]
  /\ t.frame[w] <=> s.frame[w] /\ ~s.fmapped[w]

(* The events that may come of it.                                         *)
Unmaps(s) ==
  {e \in Watched : /\ Hides(s, e.win)
                   /\ \/ e.type = "Unmap" /\ s.mapped[e.win]
                      \/ e.type = "UnmapFrame" /\ s.fmapped[e.win]}

(* The clients in C have been placed.                                      *)
Arranged(s, t, C) ==
  /\ t \in Sys /\ SameSet(s, t) /\ Adds(s.queue, t.queue, Unmaps(s))
  /\ \A x \in Windows :
       /\ x \notin C => Stays(s, t, x)
       /\ x \in C /\ Shows(s, x) => ShownAt(s, t, x)
       /\ x \in C /\ Hides(s, x) => HiddenAt(s, t, x)

LEMMA AddsMore ==
  ASSUME NEW q, NEW r, NEW P, NEW Q, Adds(q, r, P), P \cap Watched \subseteq Q
  PROVE  Adds(q, r, Q)
  BY DEF Adds

LEMMA PlaceOk ==
  ASSUME NEW s \in Sys, NEW t, NEW C, Arranged(s, t, C), NEW w \in Managed(s)
  PROVE  Arranged(s, Place(s, t, w), C \cup {w})
<1>0. w \in Windows /\ t \in Sys
  BY FieldsOf DEF Managed, ToSet, Arranged
<1>1. CASE s.view[w] = s.selview
  <2> DEFINE m == MapWin(t, w)
             u == MapFrame(m, w)
  <2>1. Place(s, t, w) = u
    BY <1>1 DEF Place
  <2>2. MapWinDoes(t, m, w)
    BY <1>0, MapWinOk
  <2>3. m \in Sys
    BY <2>2 DEF MapWinDoes, Around
  <2> HIDE DEF m
  <2>4. MapFrameDoes(m, u, w)
    BY <1>0, <2>3, MapFrameOk
  <2> HIDE DEF u
  <2>5. Around(t, u, w) /\ Adds(t.queue, u.queue, {})
    BY <2>2, <2>4, AroundTrans DEF MapWinDoes, MapFrameDoes
  <2>6. /\ u.mapped[w] /\ u.fmapped[w]
        /\ u.up[w] <=> t.up[w] \/ (~t.mapped[w] /\ t.exists[w])
        /\ u.frame[w] <=> t.frame[w] \/ ~t.fmapped[w]
    BY <2>2, <2>4 DEF MapWinDoes, MapFrameDoes
  <2>7. Adds(s.queue, u.queue, Unmaps(s))
    <3>1. Adds(s.queue, u.queue, Unmaps(s) \cup {})
      BY <2>5, AddsTrans DEF Arranged
    <3>2. Unmaps(s) \cup {} = Unmaps(s)
      OBVIOUS
    <3> QED BY <3>1, <3>2
  <2>8. u \in Sys /\ SameSet(s, u)
    BY <2>5 DEF Around, Arranged, SameSet
  <2>9. ShownAt(s, u, w) /\ ~Hides(s, w)
    <3>1. CASE w \in C
      BY <1>0, <1>1, <2>6, <3>1 DEF Arranged, ShownAt, Shows, Hides
    <3>2. CASE w \notin C
      <4>1. Stays(s, t, w) /\ t.exists = s.exists
        BY <1>0, <3>2 DEF Arranged, SameSet
      <4> QED BY <1>1, <2>6, <4>1 DEF ShownAt, Stays, Hides
    <3> QED BY <3>1, <3>2
  <2>10. \A x \in Windows \ {w} : Stays(t, u, x)
    BY <2>5 DEF Around
  <2>11. \A x \in Windows \ {w} :
           /\ x \notin C => Stays(s, u, x)
           /\ x \in C /\ Shows(s, x) => ShownAt(s, u, x)
           /\ x \in C /\ Hides(s, x) => HiddenAt(s, u, x)
    BY <2>10 DEF Arranged, Stays, ShownAt, HiddenAt
  <2> QED BY <2>1, <2>7, <2>8, <2>9, <2>11 DEF Arranged
<1>2. CASE s.view[w] # s.selview
  <2> DEFINE m == UnmapFrame(t, w)
             u == UnmapWin(m, w)
             P == {e \in {Event("UnmapFrame", w)} : t.fmapped[w]}
             Q == {e \in {Event("Unmap", w)} : t.mapped[w]}
  <2>1. Place(s, t, w) = u
    BY <1>2 DEF Place
  <2>2. UnmapFrameDoes(t, m, w)
    BY <1>0, UnmapFrameOk
  <2>3. m \in Sys
    BY <2>2 DEF UnmapFrameDoes, Around
  <2> HIDE DEF m
  <2>4. UnmapWinDoes(m, u, w)
    BY <1>0, <2>3, UnmapWinOk
  <2> HIDE DEF u
  <2>5. Around(t, u, w)
    BY <2>2, <2>4, AroundTrans DEF UnmapWinDoes, UnmapFrameDoes
  <2>6. /\ ~u.mapped[w] /\ ~u.fmapped[w]
        /\ u.up[w] <=> t.up[w] /\ ~t.mapped[w]
        /\ u.frame[w] <=> t.frame[w] /\ ~t.fmapped[w]
    BY <2>2, <2>4 DEF UnmapWinDoes, UnmapFrameDoes
  <2>7. P \subseteq Unmaps(s) /\ Q \subseteq Unmaps(s)
    <3>1. Hides(s, w)
      BY <1>2 DEF Hides
    <3>2. (t.mapped[w] => s.mapped[w]) /\ (t.fmapped[w] => s.fmapped[w])
      BY <1>0, <3>1 DEF Arranged, HiddenAt, Stays
    <3> QED BY <1>0, <3>1, <3>2, WatchedEvents DEF Unmaps
  <2>8. Adds(s.queue, u.queue, Unmaps(s))
    <3>1. Adds(t.queue, m.queue, P)
      BY <2>2 DEF UnmapFrameDoes
    <3>2. Adds(m.queue, u.queue, Q)
      <4>1. m.mapped[w] = t.mapped[w]
        BY <2>2 DEF UnmapFrameDoes
      <4> QED BY <2>4, <4>1 DEF UnmapWinDoes
    <3>3. Adds(s.queue, t.queue, Unmaps(s))
      BY DEF Arranged
    <3> HIDE DEF P, Q
    <3>4. Adds(s.queue, u.queue, (Unmaps(s) \cup P) \cup Q)
      BY <3>1, <3>2, <3>3, AddsTrans
    <3>5. (Unmaps(s) \cup P) \cup Q = Unmaps(s)
      BY <2>7
    <3> QED BY <3>4, <3>5
  <2>9. u \in Sys /\ SameSet(s, u)
    BY <2>5 DEF Around, Arranged, SameSet
  <2>10. HiddenAt(s, u, w) /\ ~Shows(s, w)
    <3>1. CASE w \in C
      BY <1>0, <1>2, <2>6, <3>1 DEF Arranged, HiddenAt, Shows, Hides
    <3>2. CASE w \notin C
      <4>1. Stays(s, t, w)
        BY <1>0, <3>2 DEF Arranged
      <4> QED BY <1>2, <2>6, <4>1 DEF HiddenAt, Stays, Shows
    <3> QED BY <3>1, <3>2
  <2>11. \A x \in Windows \ {w} : Stays(t, u, x)
    BY <2>5 DEF Around
  <2>12. \A x \in Windows \ {w} :
           /\ x \notin C => Stays(s, u, x)
           /\ x \in C /\ Shows(s, x) => ShownAt(s, u, x)
           /\ x \in C /\ Hides(s, x) => HiddenAt(s, u, x)
    BY <2>11 DEF Arranged, Stays, ShownAt, HiddenAt
  <2> QED BY <2>1, <2>8, <2>9, <2>10, <2>12 DEF Arranged
<1> QED BY <1>1, <1>2

(* The clients are placed one after the other, then the focus is set.      *)
UpdateRun(s, placed) ==
  LET n == Len(s.client)
  IN  /\ ViewUpdate(s) = ClientFocus(placed[n], s.sel[s.selview]) /\ placed[0] = s
      /\ \A i \in 1 .. n : placed[i] = Place(s, placed[i - 1], s.client[i])
      /\ \A i \in 0 .. n : placed[i] \in Sys
      /\ Arranged(s, placed[n], Managed(s))

LEMMA UpdateRuns ==
  ASSUME NEW s \in Sys
  PROVE  \E placed : UpdateRun(s, placed)
<1> DEFINE n == Len(s.client)
           c(i) == s.client[i]
           Is(f) == f = [i \in 0 .. n |-> IF i = 0 THEN s ELSE Place(s, f[i - 1], c(i))]
           placed == CHOOSE f : Is(f)
           S == {t \in Sys : \E C \in SUBSET Windows : Arranged(s, t, C)}
           step == [x \in S \X (1 .. n) |-> Place(s, x[1], c(x[2]))]
           Done(m) == {c(i) : i \in 1 .. m}
<1>1. n \in Nat /\ \A i \in 1 .. n : c(i) \in Windows /\ c(i) \in Managed(s)
  BY FieldsOf DEF Managed, ToSet
<1>2. Arranged(s, s, {}) /\ Done(0) = {}
  <2>1. Adds(s.queue, s.queue, Unmaps(s))
    BY AddsNone
  <2> QED BY <2>1 DEF Arranged, SameSet, Stays
<1>3. Done(n) = Managed(s)
  BY FieldsOf DEF Managed, ToSet
<1>4. \A m \in 0 .. n - 1 : Done(m + 1) = Done(m) \cup {c(m + 1)}
  BY <1>1
<1> HIDE DEF n, c, Done
<1>5. s \in S
  BY <1>2
<1>6. \A t \in S, i \in 1 .. n : Place(s, t, c(i)) \in S
  <2> TAKE t \in S, i \in 1 .. n
  <2>1. PICK C \in SUBSET Windows : Arranged(s, t, C)
    OBVIOUS
  <2>2. Arranged(s, Place(s, t, c(i)), C \cup {c(i)})
    BY <1>1, <2>1, PlaceOk
  <2>3. C \cup {c(i)} \in SUBSET Windows
    BY <1>1
  <2>4. Place(s, t, c(i)) \in Sys
    BY <2>2 DEF Arranged
  <2> QED BY <2>2, <2>3, <2>4
<1> HIDE DEF S
<1>7. step \in [S \X (1 .. n) -> S]
  BY <1>6
<1>8. \A t \in S, i \in 1 .. n : step[<<t, i>>] = Place(s, t, c(i))
  OBVIOUS
<1> HIDE DEF step
<1>9. PICK f \in [0 .. n -> S] :
         f[0] = s /\ \A i \in 1 .. n : f[i] = step[<<f[i - 1], i>>]
  <2>1. Iterated(n, S, s, step)
    BY <1>1, <1>5, <1>7, Iterates
  <2> QED BY <2>1 DEF Iterated
<1>10. \A i \in 0 .. n : f[i] = IF i = 0 THEN s ELSE Place(s, f[i - 1], c(i))
  <2> TAKE i \in 0 .. n
  <2>1. CASE i = 0
    BY <2>1, <1>9
  <2>2. CASE i # 0
    <3>1. i \in 1 .. n /\ i - 1 \in 0 .. n
      BY <2>2, <1>1
    <3>2. f[i - 1] \in S /\ f[i] = step[<<f[i - 1], i>>]
      BY <3>1, <1>9
    <3> QED BY <2>2, <3>1, <3>2, <1>8
  <2> QED BY <2>1, <2>2
<1>11. Is(f)
  <2>1. f = [i \in 0 .. n |-> f[i]]
    BY <1>9
  <2>2. [i \in 0 .. n |-> f[i]]
        = [i \in 0 .. n |-> IF i = 0 THEN s ELSE Place(s, f[i - 1], c(i))]
    BY <1>10
  <2> QED BY <2>1, <2>2
<1>12. Is(placed)
  BY <1>11
<1>13. ViewUpdate(s) = ClientFocus(placed[n], s.sel[s.selview])
  BY DEF ViewUpdate, n, c
<1> HIDE DEF placed
<1>14. \A i \in 0 .. n : placed[i] = IF i = 0 THEN s ELSE Place(s, placed[i - 1], c(i))
  <2> DEFINE g == [i \in 0 .. n |-> IF i = 0 THEN s ELSE Place(s, placed[i - 1], c(i))]
  <2>1. \A i \in 0 .. n : g[i] = IF i = 0 THEN s ELSE Place(s, placed[i - 1], c(i))
    OBVIOUS
  <2>2. placed = g
    BY <1>12
  <2> HIDE DEF g
  <2> QED BY <2>1, <2>2
<1> DEFINE G == {m \in 0 .. n : Arranged(s, placed[m], Done(m))}
<1>15. 0 \in G
  <2>1. 0 \in 0 .. n /\ placed[0] = s
    BY <1>1, <1>14
  <2> QED BY <2>1, <1>2
<1>16. \A m \in 0 .. n - 1 : m \in G => m + 1 \in G
  <2> SUFFICES ASSUME NEW m \in 0 .. n - 1, m \in G PROVE m + 1 \in G
    OBVIOUS
  <2>1. m + 1 \in 1 .. n /\ m + 1 \in 0 .. n /\ (m + 1) - 1 = m /\ m + 1 # 0
    BY <1>1
  <2>2. placed[m + 1] = Place(s, placed[m], c(m + 1))
    BY <2>1, <1>14
  <2>3. Arranged(s, placed[m], Done(m)) /\ c(m + 1) \in Managed(s)
    BY <1>1, <2>1
  <2>4. Arranged(s, Place(s, placed[m], c(m + 1)), Done(m) \cup {c(m + 1)})
    BY <2>3, PlaceOk
  <2> QED BY <2>1, <2>2, <2>4, <1>4
<1>17. \A m \in 0 .. n : m \in G
  <2> TAKE m \in 0 .. n
  <2>1. m \in Nat /\ \A k \in 0 .. m - 1 : k \in 0 .. n - 1
    BY <1>1
  <2>2. 0 \in G /\ \A k \in 0 .. m - 1 : k \in G => k + 1 \in G
    BY <2>1, <1>15, <1>16
  <2> HIDE DEF G
  <2> QED BY <2>1, <2>2, UpTo
<1>18. Arranged(s, placed[n], Managed(s)) /\ \A m \in 0 .. n : placed[m] \in Sys
  BY <1>1, <1>3, <1>17 DEF Arranged
<1> HIDE DEF G
<1>19. placed[0] = s /\ \A i \in 1 .. n : placed[i] = Place(s, placed[i - 1], c(i))
  BY <1>1, <1>14
<1> QED BY <1>13, <1>18, <1>19 DEF UpdateRun, n, c

LEMMA ViewUpdateOk ==
  ASSUME NEW s \in Sys
  PROVE  Arranged(s, ViewUpdate(s), Managed(s))
<1> DEFINE n == Len(s.client)
<1>1. PICK placed : UpdateRun(s, placed)
  BY UpdateRuns
<1> HIDE DEF n
<1>2. Arranged(s, placed[n], Managed(s))
      /\ ViewUpdate(s) = ClientFocus(placed[n], s.sel[s.selview])
  BY <1>1 DEF UpdateRun, n
<1>3. placed[n] \in Sys /\ s.sel[s.selview] \in Windows \cup {"nil"}
  BY <1>2, FieldsOf DEF Arranged
<1>4. Aside(placed[n], ViewUpdate(s))
  BY <1>2, <1>3, ClientFocusAside
<1>5. Adds(s.queue, ViewUpdate(s).queue, Unmaps(s) \cup {})
  BY <1>2, <1>4, AddsTrans DEF Arranged, Aside
<1>6. Unmaps(s) \cup {} = Unmaps(s)
  OBVIOUS
<1> QED BY <1>2, <1>4, <1>5, <1>6 DEF Arranged, Aside, SameShow, SameSet, Stays, ShownAt, HiddenAt
-----------------------------------------------------------------------------
(* The inductive invariant.                                                *)

Types == {"MapRequest", "Unmap", "UnmapFrame", "SentUnmap", "Destroy"}

Has(s, t, w) == In(s.queue, Event(t, w))
Ahead(s, t, u, w) == Before(s.queue, Event(t, w), Event(u, w))

(* A notice of a window's end, or of its withdrawal, is true.              *)
Owed(s, ap, w) ==
  /\ Has(s, "Destroy", w) => ~s.exists[w]
  /\ Has(s, "SentUnmap", w) => ap[w] = "withdrawn"

(* What view_update does not touch.                                        *)
Lasting(s, ap, w) ==
  /\ ~s.exists[w] => ~s.up[w]
  /\ s.up[w] => s.mapped[w] /\ w \in Managed(s)
  /\ (w \in Managed(s) \/ Has(s, "MapRequest", w)) /\ s.exists[w] /\ ap[w] = "withdrawn"
       => Has(s, "SentUnmap", w)
  /\ ~Ahead(s, "SentUnmap", "MapRequest", w) /\ ~Ahead(s, "Destroy", "MapRequest", w)
  /\ w \notin Managed(s) =>
       ~Ahead(s, "MapRequest", "Unmap", w) /\ ~Has(s, "UnmapFrame", w)

(* The unmaps under way of a client of the selected view are its program's.*)
Heeded(s, ap, w) ==
  /\ ~Has(s, "UnmapFrame", w)
  /\ s.mapped[w] /\ ~s.up[w] => Has(s, "Unmap", w) \/ ~s.exists[w]
  /\ Has(s, "Unmap", w) => ap[w] # "mapped" /\ ~s.up[w] /\ s.mapped[w]
  /\ ~Ahead(s, "Unmap", "Unmap", w)

Good(s, ap, w) ==
  /\ Lasting(s, ap, w)
  /\ Hides(s, w) => ~s.mapped[w] /\ ~s.fmapped[w] /\ ~s.frame[w]
  /\ Shows(s, w) => /\ s.fmapped[w] /\ s.frame[w]
                    /\ ~s.mapped[w] => ap[w] # "mapped"
                    /\ Heeded(s, ap, w)

(* Enough for view_update to make it good.                                 *)
Ready(s, ap, w) ==
  /\ Lasting(s, ap, w)
  /\ Hides(s, w) => (s.frame[w] => s.fmapped[w])
  /\ Shows(s, w) => (s.fmapped[w] => s.frame[w]) /\ Heeded(s, ap, w)

Entering(s) == \E w \in Windows : Has(s, "Enter", w)
OneEnter(s) ==
  \A v, w \in Windows : ~Before(s.queue, Event("Enter", v), Event("Enter", w))
Clear(s) ==
  \A w \in Windows : Hides(s, w) => ~Has(s, "Unmap", w) /\ ~Has(s, "UnmapFrame", w)

(* While the user waits.                                                   *)
Waits(s, cm) ==
  /\ Entering(s) => ~cm
  /\ OneEnter(s)
  /\ cm \/ Entering(s) => Clear(s)

All(s, ap, cm) ==
  /\ s \in Sys /\ \A w \in Windows : Owed(s, ap, w)
  /\ Patient => (\A w \in Windows : Good(s, ap, w)) /\ Waits(s, cm)

Inv ==
  /\ app \in [Windows -> {"withdrawn", "mapped", "unmapping"}] /\ calm \in BOOLEAN
  /\ All(sys, app, calm)
-----------------------------------------------------------------------------
(* Nothing about the window w has changed.                                 *)
Unmoved(s, t, w) ==
  /\ t.exists[w] = s.exists[w] /\ Stays(s, t, w)
  /\ t.view[w] = s.view[w] /\ t.selview = s.selview
  /\ w \in Managed(t) <=> w \in Managed(s)
  /\ \A x \in Types : Has(t, x, w) <=> Has(s, x, w)
  /\ \A x, y \in Types : Ahead(t, x, y, w) => Ahead(s, x, y, w)

LEMMA UnmovedKeeps ==
  ASSUME NEW s, NEW t, NEW w, NEW ap, NEW bp, Unmoved(s, t, w), bp[w] = ap[w]
  PROVE  /\ Owed(s, ap, w) => Owed(t, bp, w)
         /\ Lasting(s, ap, w) => Lasting(t, bp, w)
         /\ Good(s, ap, w) => Good(t, bp, w)
         /\ Ready(s, ap, w) => Ready(t, bp, w)
<1>1. Owed(s, ap, w) => Owed(t, bp, w)
  BY DEF Unmoved, Owed, Types
<1>2. Lasting(s, ap, w) => Lasting(t, bp, w)
  BY DEF Unmoved, Lasting, Types, Stays
<1>3. Heeded(s, ap, w) => Heeded(t, bp, w)
  BY DEF Unmoved, Heeded, Types, Stays
<1>4. (Shows(t, w) <=> Shows(s, w)) /\ (Hides(t, w) <=> Hides(s, w))
  BY DEF Unmoved, Shows, Hides
<1>5. Good(s, ap, w) => Good(t, bp, w)
  BY <1>2, <1>3, <1>4 DEF Good, Unmoved, Stays
<1>6. Ready(s, ap, w) => Ready(t, bp, w)
  BY <1>2, <1>3, <1>4 DEF Ready, Unmoved, Stays
<1> QED BY <1>1, <1>2, <1>5, <1>6

LEMMA GoodReady == \A s, ap, w : Good(s, ap, w) => Ready(s, ap, w)
  BY DEF Good, Ready

LEMMA TypedEvents ==
  \A x \in Types, w \in Windows :
    /\ Event(x, w) \in Watched /\ Event(x, w) \in Events
    /\ Event(x, w).type = x /\ Event(x, w).win = w
  BY WatchedEvents DEF Types

LEMMA EventsDiffer ==
  \A x, y, v, w : Event(x, v) = Event(y, w) <=> x = y /\ v = w
  BY DEF Event

LEMMA AddsUnmoved ==
  ASSUME NEW s, NEW t, NEW w \in Windows, NEW P,
         SameSet(s, t), Stays(s, t, w), Adds(s.queue, t.queue, P),
         \A x \in Types : Event(x, w) \notin P
  PROVE  Unmoved(s, t, w)
<1>1. \A x \in Types : Has(t, x, w) <=> Has(s, x, w)
  BY TypedEvents DEF Adds, Has
<1>2. \A x, y \in Types : Ahead(t, x, y, w) => Ahead(s, x, y, w)
  BY TypedEvents DEF Adds, Ahead
<1> QED BY <1>1, <1>2 DEF Unmoved, SameSet, Managed

LEMMA AsideUnmoved ==
  ASSUME NEW s, NEW t, NEW w \in Windows, Aside(s, t)
  PROVE  Unmoved(s, t, w)
<1>1. SameSet(s, t) /\ Stays(s, t, w) /\ Adds(s.queue, t.queue, {})
  BY DEF Aside, SameShow, SameSet, Stays
<1> QED BY <1>1, AddsUnmoved

(* What is added about the pointer and about hidden clients: nothing.      *)
LEMMA AddsWaits ==
  ASSUME NEW s, NEW t, NEW P, Adds(s.queue, t.queue, P),
         \A w \in Windows : Event("Enter", w) \notin P
  PROVE  /\ Entering(t) <=> Entering(s)
         /\ OneEnter(s) => OneEnter(t)
  BY WatchedEvents DEF Adds, Entering, OneEnter, Has

LEMMA AsideWaits ==
  ASSUME NEW s, NEW t, NEW cm, Aside(s, t), Waits(s, cm)
  PROVE  Waits(t, cm)
<1>1. Adds(s.queue, t.queue, {})
  BY DEF Aside
<1>2. (Entering(t) <=> Entering(s)) /\ OneEnter(t)
  BY <1>1, AddsWaits DEF Waits
<1>3. Clear(s) => Clear(t)
  <2>1. \A w \in Windows : Unmoved(s, t, w)
    BY AsideUnmoved
  <2> QED BY <2>1 DEF Clear, Unmoved, Types, Hides
<1> QED BY <1>2, <1>3 DEF Waits
-----------------------------------------------------------------------------
(* view_update makes it good.                                              *)

LEMMA UnmapsTyped ==
  ASSUME NEW s, NEW w \in Windows
  PROVE  /\ \A x \in Types \ {"Unmap", "UnmapFrame"} : Event(x, w) \notin Unmaps(s)
         /\ Event("Enter", w) \notin Unmaps(s)
         /\ Event("Unmap", w) \in Unmaps(s) <=> Hides(s, w) /\ s.mapped[w]
         /\ Event("UnmapFrame", w) \in Unmaps(s) <=> Hides(s, w) /\ s.fmapped[w]
  BY WatchedEvents DEF Unmaps, Types

LEMMA UpdateGood ==
  ASSUME NEW s \in Sys, NEW w \in Windows, NEW ap, Ready(s, ap, w)
  PROVE  Good(ViewUpdate(s), ap, w)
<1> DEFINE r == ViewUpdate(s)
<1>1. Arranged(s, r, Managed(s))
  BY ViewUpdateOk
<1> HIDE DEF r
<1>2. /\ r.exists = s.exists /\ Managed(r) = Managed(s)
      /\ Shows(r, w) <=> Shows(s, w)
      /\ Hides(r, w) <=> Hides(s, w)
  BY <1>1 DEF Arranged, SameSet, Managed, Shows, Hides
<1>3. \A x \in Types \ {"Unmap", "UnmapFrame"} : Has(r, x, w) <=> Has(s, x, w)
  BY <1>1, TypedEvents, UnmapsTyped DEF Arranged, Adds, Has
<1>4. \A x \in Types, y \in Types \ {"Unmap", "UnmapFrame"} :
        Ahead(r, x, y, w) => Ahead(s, x, y, w)
  BY <1>1, TypedEvents, UnmapsTyped DEF Arranged, Adds, Ahead
<1>5. ~Hides(s, w) => /\ \A x \in Types : Has(r, x, w) <=> Has(s, x, w)
                      /\ \A x, y \in Types : Ahead(r, x, y, w) => Ahead(s, x, y, w)
  BY <1>1, TypedEvents, UnmapsTyped DEF Arranged, Adds, Ahead, Has
<1>6. CASE w \notin Managed(s)
  <2>1. Unmoved(s, r, w)
    <3>1. ~Hides(s, w) /\ Stays(s, r, w) /\ SameSet(s, r)
      BY <1>1, <1>6 DEF Hides, Arranged
    <3> QED BY <3>1, <1>2, <1>5 DEF Unmoved, SameSet
  <2>2. Lasting(r, ap, w)
    BY <2>1, UnmovedKeeps DEF Ready
  <2> QED BY <2>2, <1>2, <1>6 DEF Good, Shows, Hides, r
<1>7. CASE Shows(s, w)
  <2>1. ShownAt(s, r, w) /\ ~Hides(s, w) /\ w \in Managed(s)
    BY <1>1, <1>7 DEF Arranged, Shows, Hides
  <2>2. /\ \A x \in Types : Has(r, x, w) <=> Has(s, x, w)
        /\ \A x, y \in Types : Ahead(r, x, y, w) => Ahead(s, x, y, w)
    BY <1>5, <2>1
  <2>3. Lasting(s, ap, w) /\ Heeded(s, ap, w) /\ (s.fmapped[w] => s.frame[w])
    BY <1>7 DEF Ready
  <2>4. Lasting(r, ap, w)
    BY <1>2, <2>1, <2>2, <2>3 DEF Lasting, ShownAt, Types
  <2>5. Heeded(r, ap, w)
    BY <1>2, <2>1, <2>2, <2>3 DEF Heeded, ShownAt, Types
  <2> QED BY <1>2, <2>1, <2>3, <2>4, <2>5 DEF Good, ShownAt, r
<1>8. CASE Hides(s, w)
  <2>1. HiddenAt(s, r, w) /\ ~Shows(s, w) /\ w \in Managed(s)
    BY <1>1, <1>8 DEF Arranged, Shows, Hides
  <2>2. Lasting(s, ap, w) /\ (s.frame[w] => s.fmapped[w])
    BY <1>8 DEF Ready
  <2>3. Lasting(r, ap, w)
    BY <1>2, <1>3, <1>4, <2>1, <2>2 DEF Lasting, HiddenAt, Types
  <2> QED BY <1>2, <2>1, <2>2, <2>3 DEF Good, HiddenAt, r
<1> QED BY <1>6, <1>7, <1>8 DEF Shows, Hides

LEMMA UpdateOwed ==
  ASSUME NEW s \in Sys, NEW w \in Windows, NEW ap, Owed(s, ap, w)
  PROVE  Owed(ViewUpdate(s), ap, w)
<1> DEFINE r == ViewUpdate(s)
<1>1. Arranged(s, r, Managed(s))
  BY ViewUpdateOk
<1> HIDE DEF r
<1>2. \A x \in Types \ {"Unmap", "UnmapFrame"} : Has(r, x, w) <=> Has(s, x, w)
  BY <1>1, TypedEvents, UnmapsTyped DEF Arranged, Adds, Has
<1>3. Owed(r, ap, w)
  BY <1>1, <1>2 DEF Owed, Types, Arranged, SameSet
<1> QED BY <1>3 DEF r

LEMMA UpdateWaits ==
  ASSUME NEW s \in Sys
  PROVE  /\ Entering(ViewUpdate(s)) <=> Entering(s)
         /\ OneEnter(s) => OneEnter(ViewUpdate(s))
<1>1. Adds(s.queue, ViewUpdate(s).queue, Unmaps(s))
  BY ViewUpdateOk DEF Arranged
<1> QED BY <1>1, AddsWaits, UnmapsTyped

(* Clients that are hidden as they should be give no events.               *)
LEMMA UpdateClear ==
  ASSUME NEW s \in Sys, Clear(s),
         \A w \in Windows : Hides(s, w) => ~s.mapped[w] /\ ~s.fmapped[w]
  PROVE  Clear(ViewUpdate(s))
<1> DEFINE r == ViewUpdate(s)
<1>1. Arranged(s, r, Managed(s))
  BY ViewUpdateOk
<1> HIDE DEF r
<1>2. \A w \in Windows : Hides(r, w) <=> Hides(s, w)
  BY <1>1 DEF Arranged, SameSet, Managed, Hides
<1>3. \A w \in Windows, x \in {"Unmap", "UnmapFrame"} :
        Hides(s, w) /\ Has(r, x, w) => Has(s, x, w)
  BY <1>1, WatchedEvents, UnmapsTyped DEF Arranged, Adds, Has
<1>4. Clear(r)
  BY <1>2, <1>3 DEF Clear
<1> QED BY <1>4 DEF r
-----------------------------------------------------------------------------
(* Reading an event.                                                       *)

LEMMA AsideAll ==
  ASSUME NEW s, NEW t, NEW ap, NEW cm, Aside(s, t), All(s, ap, cm)
  PROVE  All(t, ap, cm)
<1>1. \A w \in Windows : Unmoved(s, t, w)
  BY AsideUnmoved
<1>2. \A w \in Windows : /\ Owed(s, ap, w) => Owed(t, ap, w)
                         /\ Good(s, ap, w) => Good(t, ap, w)
  BY <1>1, UnmovedKeeps
<1>3. Waits(s, cm) => Waits(t, cm)
  BY AsideWaits
<1> QED BY <1>2, <1>3 DEF All, Aside

LEMMA EmptyAll ==
  ASSUME NEW s, NEW ap, NEW cm \in BOOLEAN, NEW cn \in BOOLEAN,
         All(s, ap, cm), cn <=> cm \/ s.queue = <<>>
  PROVE  All(s, ap, cn)
<1>1. CASE s.queue = <<>>
  <2>1. \A a, b : ~In(s.queue, a) /\ ~Before(s.queue, a, b)
    BY <1>1 DEF In, Before
  <2>2. Waits(s, cn)
    BY <2>1 DEF Waits, Entering, OneEnter, Clear, Has
  <2> QED BY <2>2 DEF All
<1>2. CASE s.queue # <<>>
  <2>1. cn <=> cm
    BY <1>2
  <2> QED BY <2>1 DEF All, Waits
<1> QED BY <1>1, <1>2

Reads(s, t, h) ==
  /\ t \in Sys /\ SameShow(s, t) /\ h \in Events
  /\ \A a : In(s.queue, a) <=> a = h \/ In(t.queue, a)
  /\ \A a, b : Before(t.queue, a, b) => Before(s.queue, a, b)
  /\ \A b : In(t.queue, b) => Before(s.queue, h, b)

LEMMA HeadRead ==
  ASSUME NEW s \in Sys, s.queue # <<>>
  PROVE  Reads(s, [s EXCEPT !.queue = Tail(@)], Head(s.queue))
<1> DEFINE q == s.queue
           r == Tail(q)
           t == [s EXCEPT !.queue = r]
           h == Head(q)
<1>1. q \in Seq(Events) /\ q # <<>>
  BY FieldsOf
<1> HIDE DEF q
<1>2. /\ r \in Seq(Events) /\ h \in Events
      /\ \A a : In(q, a) <=> a = h \/ In(r, a)
      /\ \A a, b : Before(r, a, b) => Before(q, a, b)
      /\ \A b : In(r, b) => Before(q, h, b)
  BY <1>1, InTail
<1> HIDE DEF r, h
<1>3. t \in Sys /\ SameShow(s, t) /\ t.queue = r
  BY <1>2 DEF Sys, SameShow
<1> HIDE DEF t
<1>4. Reads(s, t, h)
  BY <1>2, <1>3 DEF Reads, q
<1>5. t = [s EXCEPT !.queue = Tail(@)]
  BY DEF t, r, q
<1> QED BY <1>4, <1>5 DEF h, q

LEMMA ReadUnmoved ==
  ASSUME NEW s, NEW t, NEW h, NEW w \in Windows, Reads(s, t, h),
         \A x \in Types : h # Event(x, w)
  PROVE  Unmoved(s, t, w)
  BY DEF Reads, Unmoved, SameShow, Stays, Managed, Has, Ahead

LEMMA ReadGood ==
  ASSUME NEW s, NEW t, NEW h, NEW w \in Windows, NEW ap, Reads(s, t, h), Good(s, ap, w),
         w \in Managed(s) => h # Event("Unmap", w) /\ h # Event("SentUnmap", w)
  PROVE  Good(t, ap, w)
<1>1. \A x : Has(t, x, w) => Has(s, x, w)
  BY DEF Reads, Has
<1>2. \A x : Has(s, x, w) => Has(t, x, w) \/ h = Event(x, w)
  BY DEF Reads, Has
<1>3. \A x, y : Ahead(t, x, y, w) => Ahead(s, x, y, w)
  BY DEF Reads, Ahead
<1>4. \A x, y : Has(t, y, w) /\ h = Event(x, w) => Ahead(s, x, y, w)
  BY DEF Reads, Ahead, Has
<1>5. /\ t.exists = s.exists /\ Managed(t) = Managed(s) /\ t.up = s.up
      /\ t.frame = s.frame /\ t.mapped = s.mapped /\ t.fmapped = s.fmapped
      /\ Shows(t, w) <=> Shows(s, w)
      /\ Hides(t, w) <=> Hides(s, w)
  BY DEF Reads, SameShow, Managed, Shows, Hides
<1>6. Lasting(t, ap, w)
  <2>1. Lasting(s, ap, w)
    BY DEF Good
  <2>2. ASSUME (w \in Managed(s) \/ Has(t, "MapRequest", w)), s.exists[w], ap[w] = "withdrawn"
        PROVE  Has(t, "SentUnmap", w)
    <3>1. Has(s, "SentUnmap", w) /\ ~Ahead(s, "SentUnmap", "MapRequest", w)
      BY <1>1, <2>1, <2>2 DEF Lasting
    <3>2. h # Event("SentUnmap", w)
      BY <1>4, <2>2, <3>1
    <3> QED BY <1>2, <3>1, <3>2
  <2> QED BY <1>1, <1>3, <1>5, <2>1, <2>2 DEF Lasting
<1>7. Shows(s, w) => Heeded(t, ap, w)
  <2> SUFFICES ASSUME Shows(s, w) PROVE Heeded(t, ap, w)
    OBVIOUS
  <2>1. Heeded(s, ap, w) /\ h # Event("Unmap", w)
    BY DEF Good, Shows
  <2>2. Has(s, "Unmap", w) => Has(t, "Unmap", w)
    BY <1>2, <2>1
  <2> QED BY <1>1, <1>3, <1>5, <2>1, <2>2 DEF Heeded
<1> QED BY <1>5, <1>6, <1>7 DEF Good

LEMMA ReadOwed ==
  ASSUME NEW s, NEW t, NEW h, NEW w \in Windows, NEW ap, Reads(s, t, h), Owed(s, ap, w)
  PROVE  Owed(t, ap, w)
  BY DEF Reads, Owed, Has, SameShow

LEMMA ReadWaits ==
  ASSUME NEW s, NEW t, NEW h, NEW cm, Reads(s, t, h), Waits(s, cm)
  PROVE  Waits(t, cm)
<1>1. (Entering(t) => Entering(s)) /\ (OneEnter(s) => OneEnter(t))
  BY DEF Reads, Entering, OneEnter, Has
<1>2. Clear(s) => Clear(t)
  BY DEF Reads, Clear, Has, Hides, SameShow, Managed
<1> QED BY <1>1, <1>2 DEF Waits

(* An event that is read and not acted on.                                 *)
LEMMA ReadAll ==
  ASSUME NEW s, NEW t, NEW h, NEW ap, NEW cm, Reads(s, t, h), All(s, ap, cm),
         \A w \in Managed(s) : h # Event("Unmap", w) /\ h # Event("SentUnmap", w)
  PROVE  All(t, ap, cm)
<1>1. t \in Sys
  BY DEF Reads
<1> QED BY <1>1, ReadGood, ReadOwed, ReadWaits DEF All

LEMMA AroundUnmoved ==
  ASSUME NEW s, NEW t, NEW w, NEW x \in Windows, x # w, Around(s, t, w),
         t.queue = s.queue
  PROVE  Unmoved(s, t, x)
<1>1. SameSet(s, t) /\ Stays(s, t, x) /\ Adds(s.queue, t.queue, {})
  BY AddsNone DEF Around
<1> QED BY <1>1, AddsUnmoved

(* The unmap of a client is noted; it was its program's, or wmii's own.    *)
LEMMA UnmapAll ==
  ASSUME NEW s \in Sys, NEW t, NEW w \in Managed(s), NEW ap, NEW cm,
         Reads(s, t, Event("Unmap", w)), All(s, ap, cm)
  PROVE  All([t EXCEPT !.mapped[w] = FALSE], ap, cm)
<1> DEFINE h == Event("Unmap", w)
           u == [t EXCEPT !.mapped[w] = FALSE]
<1>1. w \in Windows /\ t \in Sys
  BY FieldsOf DEF Managed, ToSet, Reads
<1>2. /\ Around(t, u, w) /\ u.queue = t.queue /\ ~u.mapped[w]
      /\ u.up[w] = t.up[w] /\ u.frame[w] = t.frame[w] /\ u.fmapped[w] = t.fmapped[w]
  BY <1>1 DEF Sys, Around, SameSet, Stays
<1> HIDE DEF u
<1>3. /\ u \in Sys /\ u.exists = s.exists /\ Managed(u) = Managed(s)
      /\ u.view = s.view /\ u.selview = s.selview
  BY <1>2 DEF Around, SameSet, Reads, SameShow, Managed
<1>4. \A x \in Windows : Owed(u, ap, x)
  <2>1. \A x \in Windows : Owed(t, ap, x)
    BY ReadOwed DEF All
  <2> QED BY <2>1, <1>2 DEF Owed, Has, Around, SameSet
<1>5. ASSUME Patient, NEW x \in Windows, x # w PROVE Good(u, ap, x)
  <2>1. Good(t, ap, x)
    <3>1. h # Event("Unmap", x) /\ h # Event("SentUnmap", x)
      BY <1>5, EventsDiffer
    <3>2. Good(s, ap, x)
      BY <1>5 DEF All
    <3> QED BY <3>1, <3>2, ReadGood
  <2>2. Unmoved(t, u, x)
    BY <1>2, <1>5, AroundUnmoved
  <2> QED BY <2>1, <2>2, UnmovedKeeps
<1>6. ASSUME Patient PROVE Good(u, ap, w)
  <2>1. Good(s, ap, w)
    BY <1>1, <1>6 DEF All
  <2>2. \A y : Has(u, y, w) => Has(s, y, w)
    BY <1>2 DEF Reads, Has
  <2>3. \A y : Has(s, y, w) /\ y # "Unmap" => Has(u, y, w)
    <3>1. \A y : y # "Unmap" => Event(y, w) # h
      BY EventsDiffer
    <3> QED BY <1>2, <3>1 DEF Reads, Has
  <2>4. \A y, z : Ahead(u, y, z, w) => Ahead(s, y, z, w)
    BY <1>2 DEF Reads, Ahead
  <2>5. Has(u, "Unmap", w) => Ahead(s, "Unmap", "Unmap", w)
    BY <1>2 DEF Reads, Ahead, Has
  <2>6. Has(s, "Unmap", w)
    BY DEF Reads, Has
  <2>7. /\ u.up[w] = s.up[w] /\ u.frame[w] = s.frame[w] /\ u.fmapped[w] = s.fmapped[w]
        /\ Shows(u, w) <=> Shows(s, w)
        /\ Hides(u, w) <=> Hides(s, w)
    BY <1>2, <1>3 DEF Reads, SameShow, Shows, Hides
  <2>8. ~s.up[w]
    <3>1. CASE Shows(s, w)
      BY <2>1, <2>6, <3>1 DEF Good, Heeded
    <3>2. CASE Hides(s, w)
      BY <2>1, <3>2 DEF Good, Lasting
    <3> QED BY <3>1, <3>2 DEF Shows, Hides
  <2>9. Lasting(u, ap, w)
    <3>1. Lasting(s, ap, w)
      BY <2>1 DEF Good
    <3> QED BY <3>1, <1>3, <2>2, <2>3, <2>4, <2>7, <2>8 DEF Lasting
  <2>10. Shows(s, w) => Heeded(u, ap, w) /\ ap[w] # "mapped"
    <3> SUFFICES ASSUME Shows(s, w) PROVE Heeded(u, ap, w) /\ ap[w] # "mapped"
      OBVIOUS
    <3>1. Heeded(s, ap, w)
      BY <2>1 DEF Good
    <3> QED BY <3>1, <1>2, <2>2, <2>4, <2>5, <2>6 DEF Heeded
  <2>11. Hides(s, w) => ~s.fmapped[w] /\ ~s.frame[w]
    BY <2>1 DEF Good
  <2>12. Shows(s, w) => s.fmapped[w] /\ s.frame[w]
    BY <2>1 DEF Good
  <2> QED BY <1>2, <2>7, <2>9, <2>10, <2>11, <2>12 DEF Good
<1>7. Waits(s, cm) => Waits(u, cm)
  <2> SUFFICES ASSUME Waits(s, cm) PROVE Waits(u, cm)
    OBVIOUS
  <2>1. Waits(t, cm)
    BY ReadWaits
  <2>2. /\ \A x : Hides(u, x) <=> Hides(t, x)
        /\ \A x, y : Has(u, y, x) <=> Has(t, y, x)
    BY <1>2 DEF Around, SameSet, Hides, Managed, Has
  <2> QED BY <2>1, <2>2, <1>2 DEF Waits, Entering, OneEnter, Clear
<1>8. Patient => (\A x \in Windows : Good(u, ap, x)) /\ Waits(u, cm)
  BY <1>5, <1>6, <1>7 DEF All
<1>9. All(u, ap, cm)
  BY <1>3, <1>4, <1>8 DEF All
<1> QED BY <1>9 DEF u

(* The frame window is unmapped already.                                   *)
LEMMA FrameUnmapAll ==
  ASSUME NEW s \in Sys, NEW t, NEW w \in Windows, NEW ap, NEW cm,
         Reads(s, t, Event("UnmapFrame", w)), All(s, ap, cm)
  PROVE  All([t EXCEPT !.fmapped[w] = FALSE], ap, cm)
<1> DEFINE h == Event("UnmapFrame", w)
           u == [t EXCEPT !.fmapped[w] = FALSE]
<1>1. t \in Sys
  BY DEF Reads
<1>2. /\ Around(t, u, w) /\ u.queue = t.queue /\ ~u.fmapped[w]
      /\ u.up[w] = t.up[w] /\ u.frame[w] = t.frame[w] /\ u.mapped[w] = t.mapped[w]
  BY <1>1 DEF Sys, Around, SameSet, Stays
<1> HIDE DEF u
<1>3. \A x \in Managed(s) : h # Event("Unmap", x) /\ h # Event("SentUnmap", x)
  BY EventsDiffer
<1>4. All(t, ap, cm)
  BY <1>3, ReadAll
<1>5. u \in Sys /\ \A x \in Windows : Owed(u, ap, x)
  BY <1>2, <1>4 DEF All, Owed, Has, Around, SameSet
<1>6. ASSUME Patient PROVE \A x \in Windows : Unmoved(t, u, x)
  <2>1. Good(s, ap, w)
    BY <1>6 DEF All
  <2>2. Has(s, "UnmapFrame", w)
    BY DEF Reads, Has
  <2>3. Hides(s, w)
    BY <2>1, <2>2 DEF Good, Lasting, Heeded, Shows, Hides
  <2>4. ~t.fmapped[w]
    BY <2>1, <2>3 DEF Good, Reads, SameShow
  <2>5. t.fmapped[w] = u.fmapped[w]
    <3>1. t.fmapped[w] \in BOOLEAN /\ u.fmapped[w] \in BOOLEAN
      BY <1>1, <1>5, FieldsOf
    <3> QED BY <3>1, <2>4, <1>2
  <2>6. Stays(t, u, w) /\ SameSet(t, u) /\ Adds(t.queue, u.queue, {})
    BY <1>2, <2>5, AddsNone DEF Stays, Around
  <2>7. Unmoved(t, u, w)
    BY <2>6, AddsUnmoved
  <2>8. \A x \in Windows : x # w => Unmoved(t, u, x)
    BY <1>2, AroundUnmoved
  <2> QED BY <2>7, <2>8
<1>7. ASSUME Patient PROVE (\A x \in Windows : Good(u, ap, x)) /\ Waits(u, cm)
  <2>1. \A x \in Windows : Good(u, ap, x)
    BY <1>4, <1>6, <1>7, UnmovedKeeps DEF All
  <2>2. /\ \A x : Hides(u, x) <=> Hides(t, x)
        /\ \A x, y : Has(u, y, x) <=> Has(t, y, x)
    BY <1>2 DEF Around, SameSet, Hides, Managed, Has
  <2>3. Waits(u, cm)
    BY <1>4, <1>7, <2>2, <1>2 DEF All, Waits, Entering, OneEnter, Clear
  <2> QED BY <2>1, <2>3
<1>8. All(u, ap, cm)
  BY <1>5, <1>7 DEF All
<1> QED BY <1>8 DEF u
-----------------------------------------------------------------------------
(* A new client.                                                           *)

LEMMA SameManaged ==
  \A s \in Sys : /\ \A t : Aside(s, t) \/ SameSet(s, t) => Managed(t) = Managed(s)
                /\ Managed(ViewUpdate(s)) = Managed(s)
  BY ViewUpdateOk DEF Aside, SameShow, SameSet, Managed, Arranged

LEMMA UpdateAll ==
  ASSUME NEW s \in Sys, NEW ap, NEW cm, \A w \in Windows : Owed(s, ap, w),
         Patient => /\ \A w \in Windows : Ready(s, ap, w)
                    /\ Waits(s, cm)
                    /\ \A w \in Windows : Hides(s, w) => ~s.mapped[w] /\ ~s.fmapped[w]
  PROVE  All(ViewUpdate(s), ap, cm)
<1> DEFINE r == ViewUpdate(s)
<1>1. r \in Sys
  BY ViewUpdateOk DEF Arranged
<1>2. \A w \in Windows : Owed(r, ap, w)
  BY UpdateOwed
<1>3. ASSUME Patient PROVE \A w \in Windows : Good(r, ap, w)
  BY <1>3, UpdateGood
<1>4. ASSUME Patient PROVE Waits(r, cm)
  <2>1. (Entering(r) <=> Entering(s)) /\ (OneEnter(s) => OneEnter(r))
    BY UpdateWaits
  <2>2. Clear(s) => Clear(r)
    BY <1>4, UpdateClear
  <2> HIDE DEF r
  <2> QED BY <1>4, <2>1, <2>2 DEF Waits
<1> HIDE DEF r
<1>5. All(r, ap, cm)
  BY <1>1, <1>2, <1>3, <1>4 DEF All
<1> QED BY <1>5 DEF r

LEMMA LeaderOk ==
  ASSUME NEW s \in Sys
  PROVE  GroupLeader(s) \in Windows \cup {"nil"}
<1> DEFINE members == {i \in DOMAIN s.client : s.client[i] \in Grouped}
           first == CHOOSE i \in members : \A j \in members : i <= j
<1>1. s.client \in Seq(Windows) /\ s.gclient \in Windows \cup {"nil"}
  BY FieldsOf
<1>2. members \subseteq Nat /\ \A i \in members : s.client[i] \in Windows
  BY <1>1
<1> HIDE DEF members
<1>3. members # {} => first \in members
  <2>1. members # {} => \E i \in members : \A j \in members : i <= j
    BY <1>2, NatMin
  <2> QED BY <2>1
<1>4. GroupLeader(s) = IF s.gclient # "nil" THEN s.gclient
                       ELSE IF members = {} THEN "nil" ELSE s.client[first]
  BY DEF GroupLeader, members
<1> HIDE DEF first
<1> QED BY <1>1, <1>2, <1>3, <1>4

LEMMA ToSetAppend ==
  ASSUME NEW S, NEW q \in Seq(S), NEW e \in S
  PROVE  Append(q, e) \in Seq(S) /\ ToSet(Append(q, e)) = ToSet(q) \cup {e}
<1>1. /\ Append(q, e) \in Seq(S) /\ Len(Append(q, e)) = Len(q) + 1
      /\ Append(q, e)[Len(q) + 1] = e /\ \A i \in 1 .. Len(q) : Append(q, e)[i] = q[i]
      /\ Len(q) \in Nat
  OBVIOUS
<1>2. \A x : x \in ToSet(Append(q, e)) <=> \E i \in 1 .. Len(q) + 1 : Append(q, e)[i] = x
  BY <1>1 DEF ToSet
<1>3. \A x : x \in ToSet(q) <=> \E i \in 1 .. Len(q) : q[i] = x
  BY DEF ToSet
<1> QED BY <1>1, <1>2, <1>3

(* The new client as it is before view_update.                             *)
Fresh(t, b, w) ==
  /\ b \in Sys /\ b.exists = t.exists /\ b.up = t.up /\ b.queue = t.queue
  /\ b.selview = t.selview /\ Managed(b) = Managed(t) \cup {w}
  /\ ~b.mapped[w] /\ ~b.fmapped[w] /\ ~b.frame[w]
  /\ \A x \in Windows \ {w} : Stays(t, b, x) /\ b.view[x] = t.view[x]

LEMMA FreshOk ==
  ASSUME NEW t \in Sys, NEW w \in Windows, NEW v \in Views,
         NEW d \in Windows \cup {"nil", "magic", "freed"}
  PROVE  Fresh(t, [t EXCEPT !.client = Append(@, w), !.mapped[w] = FALSE,
                            !.fmapped[w] = FALSE, !.frame[w] = FALSE, !.view[w] = v,
                            !.sel[v] = w, !.dfocus = d], w)
<1> DEFINE k == Append(t.client, w)
           b1 == [t EXCEPT !.client = k, !.mapped[w] = FALSE]
           b2 == [b1 EXCEPT !.fmapped[w] = FALSE, !.frame[w] = FALSE]
           b3 == [b2 EXCEPT !.view[w] = v, !.sel[v] = w, !.dfocus = d]
<1>1. k \in Seq(Windows) /\ ToSet(k) = Managed(t) \cup {w}
  BY FieldsOf, ToSetAppend DEF Managed
<1> HIDE DEF k
<1>2. /\ b1 \in Sys /\ b1.exists = t.exists /\ b1.up = t.up /\ b1.queue = t.queue
      /\ b1.selview = t.selview /\ b1.client = k /\ b1.view = t.view
      /\ ~b1.mapped[w]
      /\ \A x \in Windows \ {w} : Stays(t, b1, x)
  BY <1>1 DEF Sys, Stays
<1>3. b3 = [t EXCEPT !.client = Append(@, w), !.mapped[w] = FALSE,
                            !.fmapped[w] = FALSE, !.frame[w] = FALSE, !.view[w] = v,
                            !.sel[v] = w, !.dfocus = d]
  BY DEF k, b1, b2, b3
<1> HIDE DEF b1
<1>4. /\ b2 \in Sys /\ b2.exists = b1.exists /\ b2.up = b1.up /\ b2.queue = b1.queue
      /\ b2.selview = b1.selview /\ b2.client = b1.client /\ b2.view = b1.view
      /\ b2.mapped = b1.mapped /\ ~b2.fmapped[w] /\ ~b2.frame[w]
      /\ \A x \in Windows \ {w} : Stays(b1, b2, x)
  BY <1>2 DEF Sys, Stays
<1> HIDE DEF b2
<1>5. /\ b3 \in Sys /\ b3.exists = b2.exists /\ b3.up = b2.up /\ b3.queue = b2.queue
      /\ b3.selview = b2.selview /\ b3.client = b2.client
      /\ b3.mapped = b2.mapped /\ b3.fmapped = b2.fmapped /\ b3.frame = b2.frame
      /\ \A x \in Windows \ {w} : b3.view[x] = b2.view[x]
  BY <1>4 DEF Sys
<1> HIDE DEF b3
<1>6. Fresh(t, b3, w)
  BY <1>1, <1>2, <1>4, <1>5 DEF Fresh, Stays, Managed
<1> QED BY <1>3, <1>6

LEMMA FreshUnmoved ==
  ASSUME NEW t, NEW b, NEW w, NEW x \in Windows \ {w}, Fresh(t, b, w)
  PROVE  Unmoved(t, b, x)
  BY DEF Fresh, Unmoved, Has, Ahead

LEMMA CreateAll ==
  ASSUME NEW s \in Sys, NEW t, NEW w \in Windows, w \notin Managed(s), NEW ap, NEW cm,
         NEW again \in BOOLEAN,
         Reads(s, t, Event("MapRequest", w)), All(s, ap, cm)
  PROVE  All(ClientCreate(t, w, again), ap, cm)
         /\ Managed(s) \subseteq Managed(ClientCreate(t, w, again))
<1> DEFINE h == Event("MapRequest", w)
           leader == IF w \in Grouped THEN GroupLeader(t) ELSE "nil"
           v == IF leader = "nil" THEN t.selview ELSE t.view[leader]
           d == IF again /\ t.dfocus = "freed" THEN w ELSE t.dfocus
           b == [t EXCEPT !.client = Append(@, w), !.mapped[w] = FALSE,
                          !.fmapped[w] = FALSE, !.frame[w] = FALSE, !.view[w] = v,
                          !.sel[v] = w, !.dfocus = d]
           a == Revert(b)
<1>1. t \in Sys /\ Managed(t) = Managed(s) /\ SameShow(s, t)
  BY DEF Reads, SameShow, Managed
<1>2. v \in Views
  <2>1. leader \in Windows \cup {"nil"}
    BY <1>1, LeaderOk
  <2>2. t.selview \in Views /\ t.view \in [Windows -> Views]
    BY <1>1, FieldsOf
  <2> HIDE DEF leader
  <2> QED BY <2>1, <2>2
<1>3. d \in Windows \cup {"nil", "magic", "freed"}
  BY <1>1, FieldsOf
<1>4. ClientCreate(t, w, again) = ViewUpdate(a)
  BY DEF ClientCreate
<1> HIDE DEF v, d, leader
<1>5. Fresh(t, b, w)
  BY <1>1, <1>2, <1>3, FreshOk
<1> HIDE DEF b
<1>6. Aside(b, a)
  BY <1>5, RevertAside DEF Fresh
<1> HIDE DEF a
<1>7. a \in Sys
  BY <1>6 DEF Aside
<1>8. \A x \in Windows \ {w} : Unmoved(t, b, x) /\ Unmoved(b, a, x)
  BY <1>5, <1>6, FreshUnmoved, AsideUnmoved
<1>9. \A x \in Windows \ {w} : h # Event("Unmap", x) /\ h # Event("SentUnmap", x)
  BY EventsDiffer
<1>10. Unmoved(b, a, w)
  BY <1>6, AsideUnmoved
<1>11. \A x \in Windows : Owed(b, ap, x)
  <2>1. \A x \in Windows : Owed(t, ap, x)
    BY ReadOwed DEF All
  <2> QED BY <2>1, <1>5 DEF Owed, Has, Fresh
<1>12. \A x \in Windows : Owed(a, ap, x)
  BY <1>11, <1>6, AsideUnmoved, UnmovedKeeps
<1>13. ASSUME Patient, NEW x \in Windows \ {w} PROVE Good(b, ap, x)
  <2>1. Good(t, ap, x)
    BY <1>9, <1>13, ReadGood DEF All
  <2> QED BY <2>1, <1>8, UnmovedKeeps
<1>14. ASSUME Patient PROVE ~Has(b, "Unmap", w) /\ ~Has(b, "UnmapFrame", w)
  <2>1. Good(s, ap, w)
    BY <1>14 DEF All
  <2>2. ~Has(s, "UnmapFrame", w) /\ ~Ahead(s, "MapRequest", "Unmap", w)
    BY <2>1 DEF Good, Lasting
  <2>3. ~Has(t, "UnmapFrame", w) /\ ~Has(t, "Unmap", w)
    BY <2>2 DEF Reads, Has, Ahead
  <2> QED BY <2>3, <1>5 DEF Fresh, Has
<1>15. ASSUME Patient PROVE Ready(b, ap, w)
  <2>1. Lasting(s, ap, w)
    BY <1>15 DEF All, Good
  <2>2. w \in Managed(b) /\ b.exists = s.exists /\ b.up = s.up
    BY <1>1, <1>5 DEF Fresh, SameShow
  <2>3. ~s.up[w]
    BY <2>1 DEF Lasting
  <2>4. s.exists[w] /\ ap[w] = "withdrawn" => Has(b, "SentUnmap", w)
    <3>1. Has(s, "MapRequest", w) /\ Event("SentUnmap", w) # h
      BY EventsDiffer DEF Reads, Has
    <3>2. s.exists[w] /\ ap[w] = "withdrawn" => Has(s, "SentUnmap", w)
      BY <2>1, <3>1 DEF Lasting
    <3> QED BY <3>1, <3>2, <1>5 DEF Reads, Has, Fresh
  <2>5. \A x, y : Ahead(b, x, y, w) => Ahead(s, x, y, w)
    BY <1>5 DEF Fresh, Ahead, Reads
  <2>6. Lasting(b, ap, w)
    BY <2>1, <2>2, <2>3, <2>4, <2>5 DEF Lasting
  <2>7. ~Ahead(b, "Unmap", "Unmap", w)
    <3>1. ~Has(b, "Unmap", w)
      BY <1>14, <1>15
    <3> QED BY <3>1 DEF Has, Ahead, In, Before
  <2>8. Heeded(b, ap, w)
    BY <1>5, <1>14, <1>15, <2>7 DEF Heeded, Fresh
  <2> QED BY <2>6, <2>8, <1>5 DEF Ready, Fresh
<1>16. ASSUME Patient PROVE \A x \in Windows : Ready(a, ap, x)
  <2>1. \A x \in Windows \ {w} : Ready(b, ap, x)
    BY <1>13, <1>16, GoodReady
  <2>2. \A x \in Windows \ {w} : Ready(a, ap, x)
    BY <2>1, <1>8, UnmovedKeeps
  <2>3. Ready(a, ap, w)
    BY <1>10, <1>15, <1>16, UnmovedKeeps
  <2> QED BY <2>2, <2>3
<1>17. ASSUME Patient PROVE \A x \in Windows : Hides(a, x) => ~a.mapped[x] /\ ~a.fmapped[x]
  <2>1. \A x \in Windows : Hides(b, x) => ~b.mapped[x] /\ ~b.fmapped[x]
    BY <1>5, <1>13, <1>17 DEF Good, Fresh
  <2> QED BY <2>1, <1>6 DEF Aside, SameShow, Hides, Managed
<1>18. ASSUME Patient PROVE Waits(a, cm)
  <2>1. Waits(t, cm)
    BY <1>18, ReadWaits DEF All
  <2>2. (Entering(b) <=> Entering(t)) /\ (OneEnter(b) <=> OneEnter(t))
    BY <1>5 DEF Fresh, Entering, OneEnter, Has
  <2>3. Clear(t) => Clear(b)
    <3> SUFFICES ASSUME Clear(t), NEW x \in Windows, Hides(b, x)
                 PROVE  ~Has(b, "Unmap", x) /\ ~Has(b, "UnmapFrame", x)
      BY DEF Clear
    <3>1. CASE x = w
      BY <3>1, <1>14, <1>18
    <3>2. CASE x # w
      <4>1. Hides(t, x)
        BY <3>2, <1>5 DEF Fresh, Hides
      <4> QED BY <4>1, <1>5 DEF Clear, Fresh, Has
    <3> QED BY <3>1, <3>2
  <2>4. Waits(b, cm)
    BY <2>1, <2>2, <2>3 DEF Waits
  <2> QED BY <2>4, <1>6, AsideWaits
<1>19. All(ViewUpdate(a), ap, cm)
  <2>1. Patient => /\ \A x \in Windows : Ready(a, ap, x)
                   /\ Waits(a, cm)
                   /\ \A x \in Windows : Hides(a, x) => ~a.mapped[x] /\ ~a.fmapped[x]
    BY <1>16, <1>17, <1>18
  <2> QED BY <2>1, <1>7, <1>12, UpdateAll
<1>20. Managed(s) \subseteq Managed(ViewUpdate(a))
  <2>1. Managed(ViewUpdate(a)) = Managed(b)
    BY <1>5, <1>6, <1>7, SameManaged DEF Fresh
  <2> QED BY <2>1, <1>1, <1>5 DEF Fresh
<1> QED BY <1>4, <1>19, <1>20
-----------------------------------------------------------------------------
(* A client that goes.                                                     *)

LEMMA InSet ==
  ASSUME NEW S, NEW q \in Seq(S)
  PROVE  \A a : a \in ToSet(q) <=> In(q, a)
<1>1. DOMAIN q = 1 .. Len(q)
  OBVIOUS
<1> QED BY <1>1 DEF ToSet, In

LEMMA AheadHas ==
  ASSUME NEW s \in Sys, NEW x, NEW y, NEW w, Ahead(s, x, y, w)
  PROVE  Has(s, x, w) /\ Has(s, y, w)
  BY DEF Ahead, Has, In, Before

Leaving(s, w) ==
  /\ ~s.exists[w] => ~s.up[w]
  /\ s.up[w] => s.mapped[w]
  /\ ~Has(s, "MapRequest", w) /\ ~Has(s, "UnmapFrame", w)

(* All but w, which is no client any more but may still be mapped.         *)
Parting(s, ap, cm, w) ==
  /\ s \in Sys /\ w \in Windows \ Managed(s)
  /\ \A x \in Windows : Owed(s, ap, x)
  /\ Patient => /\ \A x \in Windows \ {w} : Good(s, ap, x)
                /\ Leaving(s, w) /\ Waits(s, cm)

LEMMA PartingUpdate ==
  ASSUME NEW s, NEW ap, NEW cm, NEW w, Parting(s, ap, cm, w)
  PROVE  Parting(ViewUpdate(s), ap, cm, w)
<1> DEFINE r == ViewUpdate(s)
<1>0. s \in Sys /\ w \in Windows /\ w \notin Managed(s)
  BY DEF Parting
<1>1. Arranged(s, r, Managed(s))
  BY <1>0, ViewUpdateOk
<1>2. \A x \in Windows : Owed(r, ap, x)
  BY <1>0, UpdateOwed DEF Parting
<1>3. ASSUME Patient PROVE \A x \in Windows \ {w} : Good(r, ap, x)
  BY <1>0, <1>3, UpdateGood, GoodReady DEF Parting
<1>4. ASSUME Patient PROVE Waits(r, cm)
  <2>1. (Entering(r) <=> Entering(s)) /\ (OneEnter(s) => OneEnter(r))
    BY <1>0, UpdateWaits
  <2>2. \A x \in Windows : Hides(s, x) => ~s.mapped[x] /\ ~s.fmapped[x]
    BY <1>0, <1>4 DEF Parting, Good, Hides
  <2>3. Clear(s) => Clear(r)
    BY <1>0, <2>2, UpdateClear
  <2> HIDE DEF r
  <2> QED BY <1>4, <2>1, <2>3 DEF Waits, Parting
<1> HIDE DEF r
<1>5. ASSUME Patient PROVE Leaving(r, w)
  <2>1. Stays(s, r, w) /\ r.exists = s.exists /\ ~Hides(s, w)
    BY <1>0, <1>1 DEF Arranged, SameSet, Hides
  <2>2. \A x \in Types : Has(r, x, w) => Has(s, x, w)
    BY <1>0, <1>1, <2>1, TypedEvents, UnmapsTyped DEF Arranged, Adds, Has
  <2> QED BY <1>5, <2>1, <2>2 DEF Parting, Leaving, Stays, Types
<1>6. r \in Sys /\ Managed(r) = Managed(s)
  BY <1>1 DEF Arranged, SameSet, Managed
<1>7. Parting(r, ap, cm, w)
  BY <1>0, <1>2, <1>3, <1>4, <1>5, <1>6 DEF Parting
<1> QED BY <1>7 DEF r

LEMMA PartingUnmap ==
  ASSUME NEW s, NEW ap, NEW cm, NEW w, Parting(s, ap, cm, w)
  PROVE  All(UnmapWin(s, w), ap, cm)
<1> DEFINE u == UnmapWin(s, w)
           e == Event("Unmap", w)
           P == {x \in {e} : s.mapped[w]}
<1>0. s \in Sys /\ w \in Windows /\ w \notin Managed(s)
  BY DEF Parting
<1>1. UnmapWinDoes(s, u, w)
  BY <1>0, UnmapWinOk
<1> HIDE DEF u
<1>2. /\ u \in Sys /\ SameSet(s, u) /\ \A x \in Windows \ {w} : Stays(s, u, x)
      /\ Adds(s.queue, u.queue, P)
      /\ u.up[w] <=> s.up[w] /\ ~s.mapped[w]
  BY <1>1 DEF UnmapWinDoes, Around
<1>3. /\ \A x \in Windows \ {w}, y \in Types : Event(y, x) \notin P
      /\ \A y \in Types \ {"Unmap"} : Event(y, w) \notin P
      /\ \A x \in Windows : Event("Enter", x) \notin P
  BY EventsDiffer
<1> HIDE DEF P
<1>4. \A x \in Windows \ {w} : Unmoved(s, u, x)
  BY <1>2, <1>3, AddsUnmoved
<1>5. \A y \in Types \ {"Unmap"} : Has(u, y, w) <=> Has(s, y, w)
  BY <1>0, <1>2, <1>3, TypedEvents DEF Adds, Has
<1>6. \A x \in Windows : Owed(u, ap, x)
  <2>1. \A x \in Windows \ {w} : Owed(u, ap, x)
    BY <1>4, UnmovedKeeps DEF Parting
  <2>2. Owed(u, ap, w)
    BY <1>0, <1>2, <1>5 DEF Parting, Owed, Types, SameSet
  <2> QED BY <2>1, <2>2
<1>7. ASSUME Patient PROVE \A x \in Windows : Good(u, ap, x)
  <2>1. \A x \in Windows \ {w} : Good(u, ap, x)
    BY <1>4, <1>7, UnmovedKeeps DEF Parting
  <2>2. Leaving(s, w)
    BY <1>7 DEF Parting
  <2>3. ~u.up[w]
    BY <1>2, <2>2 DEF Leaving
  <2>4. ~Has(u, "MapRequest", w) /\ ~Has(u, "UnmapFrame", w)
    BY <1>5, <2>2 DEF Leaving, Types
  <2>5. w \notin Managed(u)
    BY <1>0, <1>2 DEF SameSet, Managed
  <2>6. \A x, y : Ahead(u, x, y, w) => Has(u, x, w) /\ Has(u, y, w)
    BY <1>2, AheadHas
  <2>7. Lasting(u, ap, w)
    BY <2>3, <2>4, <2>5, <2>6 DEF Lasting
  <2>8. Good(u, ap, w)
    BY <2>5, <2>7 DEF Good, Shows, Hides
  <2> QED BY <2>1, <2>8
<1>8. ASSUME Patient PROVE Waits(u, cm)
  <2>1. (Entering(u) <=> Entering(s)) /\ (OneEnter(s) => OneEnter(u))
    BY <1>2, <1>3, AddsWaits
  <2>2. ASSUME Clear(s) PROVE Clear(u)
    <3>1. \A x \in Windows : Hides(u, x) => x # w /\ Hides(s, x)
      BY <1>0, <1>2 DEF Hides, SameSet, Managed
    <3> QED BY <2>2, <3>1, <1>4 DEF Clear, Unmoved, Types
  <2> QED BY <1>8, <2>1, <2>2 DEF Waits, Parting
<1>9. All(u, ap, cm)
  BY <1>2, <1>6, <1>7, <1>8 DEF All
<1> QED BY <1>9 DEF u

(* The client's frame window is hidden and gone, and it is not in the list.*)
Out(s, o, w) ==
  /\ o \in Sys /\ o.exists = s.exists /\ o.view = s.view /\ o.selview = s.selview
  /\ o.up = s.up /\ o.mapped = s.mapped /\ o.fmapped = s.fmapped
  /\ \A x \in Windows \ {w} : o.frame[x] = s.frame[x]
  /\ Managed(o) = Managed(s) \ {w}
  /\ \A a : In(o.queue, a) <=> In(s.queue, a) /\ a # Event("UnmapFrame", w)
  /\ \A a, b : Before(o.queue, a, b) => Before(s.queue, a, b)

LEMMA OutOk ==
  ASSUME NEW s \in Sys, NEW w \in Windows, NEW v \in Views, NEW next \in Windows \cup {"nil"}
  PROVE  Out(s, [s EXCEPT !.client = Without(@, {w}), !.frame[w] = FALSE, !.sel[v] = next,
                          !.queue = Without(@, {Event("UnmapFrame", w)})], w)
<1> DEFINE k == Without(s.client, {w})
           q == Without(s.queue, {Event("UnmapFrame", w)})
           o == [s EXCEPT !.client = k, !.frame[w] = FALSE, !.sel[v] = next, !.queue = q]
<1>1. k \in Seq(Windows) /\ ToSet(k) = Managed(s) \ {w}
  <2>1. s.client \in Seq(Windows)
    BY FieldsOf
  <2>2. /\ k \in Seq(Windows)
        /\ \A a : In(k, a) <=> In(s.client, a) /\ a \notin {w}
    BY <2>1, WithoutProps
  <2> HIDE DEF k
  <2>3. \A a : (a \in ToSet(k) <=> In(k, a)) /\ (a \in Managed(s) <=> In(s.client, a))
    BY <2>1, <2>2, InSet DEF Managed
  <2> QED BY <2>2, <2>3
<1>2. /\ q \in Seq(Events)
      /\ \A a : In(q, a) <=> In(s.queue, a) /\ a # Event("UnmapFrame", w)
      /\ \A a, b : Before(q, a, b) => Before(s.queue, a, b)
  <2>1. s.queue \in Seq(Events)
    BY FieldsOf
  <2>2. /\ q \in Seq(Events)
        /\ \A a : In(q, a) <=> In(s.queue, a) /\ a \notin {Event("UnmapFrame", w)}
        /\ \A a, b : Before(q, a, b) => Before(s.queue, a, b)
    BY <2>1, WithoutProps
  <2> HIDE DEF q
  <2> QED BY <2>2
<1>3. o = [s EXCEPT !.client = Without(@, {w}), !.frame[w] = FALSE, !.sel[v] = next,
                          !.queue = Without(@, {Event("UnmapFrame", w)})]
  BY DEF o, k, q
<1> HIDE DEF k, q
<1>4. /\ o \in Sys /\ o.exists = s.exists /\ o.view = s.view /\ o.selview = s.selview
      /\ o.up = s.up /\ o.mapped = s.mapped /\ o.fmapped = s.fmapped
      /\ \A x \in Windows \ {w} : o.frame[x] = s.frame[x]
      /\ o.client = k /\ o.queue = q
  BY <1>1, <1>2 DEF Sys
<1> HIDE DEF o
<1>5. Out(s, o, w)
  BY <1>1, <1>2, <1>4 DEF Out, Managed
<1> QED BY <1>3, <1>5

LEMMA OutUnmoved ==
  ASSUME NEW s, NEW o, NEW w, NEW x \in Windows \ {w}, Out(s, o, w)
  PROVE  Unmoved(s, o, x)
<1>1. \A y : Event(y, x) # Event("UnmapFrame", w)
  BY EventsDiffer
<1> QED BY <1>1 DEF Out, Unmoved, Has, Ahead, Stays

LetGo(t, w, v, next) ==
  Revert([UnmapFrame(t, w) EXCEPT
    !.client = Without(@, {w}), !.frame[w] = FALSE, !.sel[v] = next,
    !.queue = Without(@, {Event("UnmapFrame", w)})])

LEMMA PartingOut ==
  ASSUME NEW s \in Sys, NEW t, NEW h, NEW w \in Managed(s), NEW ap, NEW cm,
         NEW v \in Views, NEW next \in Windows \cup {"nil"},
         h \in {Event("SentUnmap", w), Event("Destroy", w)},
         Reads(s, t, h), All(s, ap, cm)
  PROVE  /\ Parting(LetGo(t, w, v, next), ap, cm, w)
         /\ Managed(LetGo(t, w, v, next)) = Managed(s) \ {w}
<1> DEFINE hid == UnmapFrame(t, w)
           o == [hid EXCEPT !.client = Without(@, {w}), !.frame[w] = FALSE, !.sel[v] = next,
                            !.queue = Without(@, {Event("UnmapFrame", w)})]
           a == Revert(o)
           e == Event("UnmapFrame", w)
           P == {x \in {e} : t.fmapped[w]}
<1>1. w \in Windows /\ t \in Sys /\ SameShow(s, t) /\ Managed(t) = Managed(s)
  BY FieldsOf DEF Managed, ToSet, Reads, SameShow
<1>2. UnmapFrameDoes(t, hid, w)
  BY <1>1, UnmapFrameOk
<1> HIDE DEF hid
<1>3. /\ hid \in Sys /\ SameSet(t, hid) /\ \A x \in Windows \ {w} : Stays(t, hid, x)
      /\ Adds(t.queue, hid.queue, P)
      /\ hid.up[w] = t.up[w] /\ hid.mapped[w] = t.mapped[w]
  BY <1>2 DEF UnmapFrameDoes, Around
<1>4. Out(hid, o, w)
  BY <1>1, <1>3, OutOk
<1> HIDE DEF o
<1>5. Aside(o, a)
  BY <1>4, RevertAside DEF Out
<1> HIDE DEF a
<1>6. /\ \A x \in Windows \ {w}, y \in Types : Event(y, x) \notin P
      /\ \A y \in Types \ {"UnmapFrame"} : Event(y, w) \notin P
      /\ \A x \in Windows : Event("Enter", x) \notin P
  BY EventsDiffer
<1> HIDE DEF P
<1>7. \A x \in Windows \ {w} : Unmoved(t, hid, x) /\ Unmoved(hid, o, x) /\ Unmoved(o, a, x)
  BY <1>3, <1>4, <1>5, <1>6, AddsUnmoved, OutUnmoved, AsideUnmoved
<1>8. \A x \in Windows \ {w} : h # Event("Unmap", x) /\ h # Event("SentUnmap", x)
  BY EventsDiffer
<1>9. \A x \in Windows : Owed(t, ap, x)
  BY ReadOwed DEF All
<1>10. Unmoved(o, a, w)
  BY <1>1, <1>5, AsideUnmoved
<1>11. /\ a.exists = s.exists /\ a.up[w] = s.up[w] /\ a.mapped[w] = s.mapped[w]
       /\ w \notin Managed(a) /\ a \in Sys
  BY <1>1, <1>3, <1>4, <1>5 DEF SameShow, SameSet, Out, Aside, Managed
<1>12. \A y \in Types : Has(a, y, w) => Has(t, y, w) /\ y # "UnmapFrame"
  <2>1. \A y \in Types : Has(a, y, w) => Has(o, y, w)
    BY <1>10 DEF Unmoved
  <2>2. \A y \in Types : Has(o, y, w) => Has(hid, y, w) /\ y # "UnmapFrame"
    BY <1>4 DEF Out, Has
  <2>3. \A y \in Types \ {"UnmapFrame"} : Has(hid, y, w) => Has(t, y, w)
    BY <1>1, <1>3, <1>6, TypedEvents DEF Adds, Has
  <2> QED BY <2>1, <2>2, <2>3
<1>13. \A x \in Windows : Owed(a, ap, x)
  <2>1. \A x \in Windows \ {w} : Owed(a, ap, x)
    BY <1>7, <1>9, UnmovedKeeps
  <2>2. Owed(a, ap, w)
    BY <1>1, <1>9, <1>11, <1>12 DEF Owed, Types, SameShow
  <2> QED BY <2>1, <2>2
<1>14. ASSUME Patient PROVE \A x \in Windows \ {w} : Good(a, ap, x)
  <2>1. \A x \in Windows \ {w} : Good(t, ap, x)
    BY <1>8, <1>14, ReadGood DEF All
  <2> QED BY <2>1, <1>7, UnmovedKeeps
<1>15. ASSUME Patient PROVE Leaving(a, w)
  <2>1. Lasting(s, ap, w)
    BY <1>1, <1>15 DEF All, Good
  <2>2. ~Has(t, "MapRequest", w)
    <3>1. ~Ahead(s, "SentUnmap", "MapRequest", w) /\ ~Ahead(s, "Destroy", "MapRequest", w)
      BY <2>1 DEF Lasting
    <3> QED BY <3>1 DEF Reads, Has, Ahead
  <2> QED BY <2>1, <2>2, <1>11, <1>12 DEF Leaving, Lasting, Types
<1>16. ASSUME Patient PROVE Waits(a, cm)
  <2>1. Waits(t, cm)
    BY <1>16, ReadWaits DEF All
  <2>2. (Entering(hid) <=> Entering(t)) /\ (OneEnter(t) => OneEnter(hid))
    BY <1>3, <1>6, AddsWaits
  <2>3. (Entering(o) <=> Entering(hid)) /\ (OneEnter(hid) => OneEnter(o))
    <3>1. \A x : Event("Enter", x) # e
      BY EventsDiffer
    <3> HIDE DEF e
    <3> QED BY <1>4, <3>1 DEF Out, Entering, OneEnter, Has, e
  <2>4. Clear(t) => Clear(o)
    <3> SUFFICES ASSUME Clear(t), NEW x \in Windows, Hides(o, x)
                 PROVE  ~Has(o, "Unmap", x) /\ ~Has(o, "UnmapFrame", x)
      BY DEF Clear
    <3>1. x # w
      BY <1>4 DEF Hides, Out
    <3>2. Unmoved(t, hid, x) /\ Unmoved(hid, o, x)
      BY <1>7, <3>1
    <3> QED BY <3>2 DEF Clear, Unmoved, Hides, Types
  <2>5. Waits(o, cm)
    BY <2>1, <2>2, <2>3, <2>4 DEF Waits
  <2> QED BY <2>5, <1>5, AsideWaits
<1>17. Parting(a, ap, cm, w)
  BY <1>1, <1>11, <1>13, <1>14, <1>15, <1>16 DEF Parting
<1>18. Managed(a) = Managed(s) \ {w}
  BY <1>1, <1>3, <1>4, <1>5, SameManaged DEF Out
<1> QED BY <1>17, <1>18 DEF a, o, hid, LetGo

LEMMA DestroyAll ==
  ASSUME NEW s \in Sys, NEW t, NEW h, NEW w \in Managed(s), NEW ap, NEW cm,
         NEW next \in Windows \cup {"nil"},
         h \in {Event("SentUnmap", w), Event("Destroy", w)},
         Reads(s, t, h), All(s, ap, cm)
  PROVE  All(ClientDestroy(t, w, next), ap, cm)
         /\ Managed(ClientDestroy(t, w, next)) = Managed(s) \ {w}
<1> DEFINE v == t.view[w]
           out == LetGo(t, w, v, next)
           left == IF v = t.selview THEN ViewUpdate(out) ELSE out
           f1 == UnmapWin(left, w)
           f2 == GroupRemove(f1, w)
           f3 == FlushFocus(f2)
           f4 == [f3 EXCEPT !.dfocus = IF @ = w THEN "freed" ELSE @]
<1>1. v \in Views
  BY FieldsOf DEF Reads, Managed, ToSet
<1>2. ClientDestroy(t, w, next) = f4
  BY DEF ClientDestroy, LetGo
<1> HIDE DEF v
<1>3. Parting(out, ap, cm, w) /\ Managed(out) = Managed(s) \ {w}
  BY <1>1, PartingOut
<1> HIDE DEF out
<1>4. Parting(left, ap, cm, w) /\ Managed(left) = Managed(s) \ {w}
  BY <1>3, PartingUpdate, SameManaged DEF Parting
<1> HIDE DEF left
<1>5. All(f1, ap, cm) /\ Managed(f1) = Managed(s) \ {w}
  <2>1. left \in Sys /\ w \in Windows
    BY <1>4 DEF Parting
  <2>2. SameSet(left, f1)
    BY <2>1, UnmapWinOk DEF UnmapWinDoes, Around
  <2> HIDE DEF f1
  <2>3. Managed(f1) = Managed(left)
    BY <2>1, <2>2, SameManaged
  <2>4. All(f1, ap, cm)
    BY <1>4, PartingUnmap DEF f1
  <2> QED BY <1>4, <2>3, <2>4
<1> HIDE DEF f1
<1>6. Aside(f1, f2)
  <2> DEFINE g == IF f1.gclient = w THEN "nil" ELSE f1.gclient
  <2>1. f1 \in Sys /\ g \in Windows \cup {"nil"}
    BY <1>5, FieldsOf DEF All
  <2>2. f2 = [f1 EXCEPT !.gclient = g]
    BY DEF GroupRemove
  <2> HIDE DEF g, f2
  <2> QED BY <2>1, <2>2, AsideNote, FieldsOf
<1> HIDE DEF f2
<1>7. Aside(f2, f3)
  BY <1>6, FlushFocusAside DEF Aside
<1> HIDE DEF f3
<1>8. Aside(f3, f4)
  <2> DEFINE d == IF f3.dfocus = w THEN "freed" ELSE f3.dfocus
  <2>1. f3 \in Sys /\ d \in Windows \cup {"nil", "magic", "freed"}
    BY <1>7, FieldsOf DEF Aside
  <2>2. f4 = [f3 EXCEPT !.dfocus = d]
    OBVIOUS
  <2> HIDE DEF d, f4
  <2> QED BY <2>1, <2>2, AsideNote, FieldsOf
<1> HIDE DEF f4
<1>9. All(f4, ap, cm)
  BY <1>5, <1>6, <1>7, <1>8, AsideAll
<1>10. Managed(f4) = Managed(s) \ {w}
  BY <1>5, <1>6, <1>7, <1>8, SameManaged DEF All, Aside
<1> QED BY <1>2, <1>9, <1>10
-----------------------------------------------------------------------------
(* Another view is selected.                                               *)

LEMMA SelectAll ==
  ASSUME NEW s, NEW ap, NEW cm, NEW v \in Views, All(s, ap, cm),
         Patient => Clear(s) /\ ~Entering(s)
  PROVE  All(ViewFocus(s, v), ap, FALSE)
<1> DEFINE b == [s EXCEPT !.selview = v]
           r == ViewUpdate(b)
<1>1. s \in Sys
  BY DEF All
<1>2. /\ b \in Sys /\ b.exists = s.exists /\ b.client = s.client /\ b.view = s.view
      /\ b.up = s.up /\ b.frame = s.frame /\ b.mapped = s.mapped
      /\ b.fmapped = s.fmapped /\ b.queue = s.queue
  BY <1>1 DEF Sys
<1>3. ViewFocus(s, v) = r
  BY DEF ViewFocus
<1> HIDE DEF b
<1>4. Managed(b) = Managed(s)
  BY <1>2 DEF Managed
<1>5. \A x \in Windows : Owed(b, ap, x)
  BY <1>2 DEF All, Owed, Has
<1>6. ASSUME Patient, NEW x \in Windows PROVE Ready(b, ap, x)
  <2>1. Good(s, ap, x)
    BY <1>6 DEF All
  <2>2. Lasting(b, ap, x)
    BY <2>1, <1>2, <1>4 DEF Good, Lasting, Has, Ahead
  <2>3. CASE Shows(s, x)
    BY <2>1, <2>2, <2>3, <1>2 DEF Good, Ready, Heeded, Has, Ahead
  <2>4. CASE Hides(s, x)
    <3>1. ~Has(s, "Unmap", x) /\ ~Has(s, "UnmapFrame", x)
      BY <1>6, <2>4 DEF Clear
    <3>2. ~Ahead(s, "Unmap", "Unmap", x)
      BY <1>1, <3>1, AheadHas
    <3>3. ~s.mapped[x] /\ ~s.fmapped[x] /\ ~s.frame[x]
      BY <2>1, <2>4 DEF Good
    <3> QED BY <2>2, <3>1, <3>2, <3>3, <1>2 DEF Ready, Heeded, Has, Ahead
  <2>5. CASE x \notin Managed(s)
    BY <2>2, <2>5, <1>4 DEF Ready, Shows, Hides
  <2> QED BY <2>3, <2>4, <2>5 DEF Shows, Hides
<1>7. r \in Sys
  BY <1>2, ViewUpdateOk DEF Arranged
<1>8. \A x \in Windows : Owed(r, ap, x)
  BY <1>2, <1>5, UpdateOwed
<1>9. ASSUME Patient PROVE \A x \in Windows : Good(r, ap, x)
  BY <1>2, <1>6, <1>9, UpdateGood
<1>10. ASSUME Patient PROVE Waits(r, FALSE)
  <2>1. (Entering(r) <=> Entering(b)) /\ (OneEnter(b) => OneEnter(r))
    BY <1>2, UpdateWaits
  <2>2. (Entering(b) <=> Entering(s)) /\ (OneEnter(b) <=> OneEnter(s))
    BY <1>2 DEF Entering, OneEnter, Has
  <2>3. ~Entering(s) /\ OneEnter(s)
    BY <1>10 DEF All, Waits
  <2> HIDE DEF r
  <2> QED BY <2>1, <2>2, <2>3 DEF Waits
<1> HIDE DEF r
<1>11. All(r, ap, FALSE)
  BY <1>7, <1>8, <1>9, <1>10 DEF All
<1> QED BY <1>3, <1>11

LEMMA CalmAll ==
  ASSUME NEW s, NEW ap, NEW cm, All(s, ap, FALSE), Patient => ~cm
  PROVE  All(s, ap, cm)
  BY DEF All, Waits

LEMMA SelAside ==
  ASSUME NEW s \in Sys, NEW v \in Views, NEW c \in Windows
  PROVE  Aside(s, [s EXCEPT !.sel[v] = c])
<1> DEFINE t == [s EXCEPT !.sel[v] = c]
<1>1. t \in Sys /\ SameShow(s, t) /\ t.queue = s.queue
  BY DEF Sys, SameShow
<1> QED BY <1>1, AddsNone DEF Aside

LEMMA FocusAll ==
  ASSUME NEW s, NEW ap, NEW cm, NEW c \in Managed(s), All(s, ap, cm),
         Patient => Clear(s) /\ ~Entering(s) /\ ~cm
  PROVE  All(Focus(s, c), ap, cm) /\ Managed(Focus(s, c)) = Managed(s)
<1> DEFINE v == s.view[c]
           t == IF v = s.selview THEN s ELSE ViewFocus(s, v)
           u == [t EXCEPT !.sel[v] = c]
<1>1. s \in Sys /\ c \in Windows /\ v \in Views
  BY FieldsOf DEF All, Managed, ToSet
<1>2. Focus(s, c) = ClientFocus(u, c)
  BY DEF Focus
<1> HIDE DEF v
<1>3. All(t, ap, cm)
  <2>1. All(ViewFocus(s, v), ap, FALSE)
    BY <1>1, SelectAll
  <2>2. All(ViewFocus(s, v), ap, cm)
    BY <2>1, CalmAll
  <2> QED BY <2>2
<1>31. Managed(t) = Managed(s)
  <2>1. ViewFocus(s, v) = ViewUpdate([s EXCEPT !.selview = v])
    BY DEF ViewFocus
  <2>2. [s EXCEPT !.selview = v] \in Sys
        /\ Managed([s EXCEPT !.selview = v]) = Managed(s)
    BY <1>1 DEF Sys, Managed
  <2>3. Managed(ViewFocus(s, v)) = Managed(s)
    BY <2>1, <2>2, SameManaged
  <2> QED BY <2>3
<1> HIDE DEF t
<1>4. Aside(t, u)
  BY <1>1, <1>3, SelAside DEF All
<1> HIDE DEF u
<1>5. Aside(u, ClientFocus(u, c))
  BY <1>1, <1>4, ClientFocusAside DEF Aside
<1>6. All(u, ap, cm)
  BY <1>3, <1>4, AsideAll
<1>7. All(ClientFocus(u, c), ap, cm)
  BY <1>5, <1>6, AsideAll
<1>8. Managed(ClientFocus(u, c)) = Managed(s)
  BY <1>31, <1>3, <1>4, <1>5, SameManaged DEF All, Aside
<1> QED BY <1>2, <1>7, <1>8

(* The pointer's way into a client, read.                                  *)
LEMMA EnterAll ==
  ASSUME NEW s, NEW t, NEW w \in Windows, NEW ap, NEW cm,
         Reads(s, t, Event("Enter", w)), All(s, ap, cm)
  PROVE  /\ All(t, ap, cm)
         /\ w \in Managed(t) =>
              All(Focus(t, w), ap, cm) /\ Managed(Focus(t, w)) = Managed(t)
<1>1. All(t, ap, cm)
  <2>1. \A x : Event("Enter", w) # Event("Unmap", x) /\ Event("Enter", w) # Event("SentUnmap", x)
    BY EventsDiffer
  <2> QED BY <2>1, ReadAll
<1>2. ASSUME Patient PROVE Clear(t) /\ ~Entering(t) /\ ~cm
  <2>1. Waits(s, cm)
    BY <1>2 DEF All
  <2>2. Entering(s)
    BY DEF Reads, Entering, Has
  <2>3. Clear(s) /\ ~cm
    BY <2>1, <2>2 DEF Waits
  <2>4. ~Entering(t)
    BY <2>1 DEF Waits, OneEnter, Reads, Entering, Has
  <2>5. Clear(t)
    BY <2>3 DEF Reads, Clear, Has, Hides, SameShow, Managed
  <2> QED BY <2>3, <2>4, <2>5
<1> QED BY <1>1, <1>2, FocusAll
-----------------------------------------------------------------------------
(* Programs.                                                               *)

(* Something is done about the window w.                                   *)
Acts(s, t, w) ==
  /\ t \in Sys /\ t.client = s.client /\ t.view = s.view /\ t.selview = s.selview
  /\ \A x \in Windows \ {w} : t.exists[x] = s.exists[x] /\ Stays(s, t, x)

LEMMA ActsUnmoved ==
  ASSUME NEW s, NEW t, NEW w, NEW x \in Windows \ {w}, NEW P,
         Acts(s, t, w), Adds(s.queue, t.queue, P),
         \A y \in Types : Event(y, x) \notin P
  PROVE  Unmoved(s, t, x)
<1>1. \A y \in Types : Has(t, y, x) <=> Has(s, y, x)
  BY TypedEvents DEF Adds, Has
<1>2. \A y, z \in Types : Ahead(t, y, z, x) => Ahead(s, y, z, x)
  BY TypedEvents DEF Adds, Ahead
<1> QED BY <1>1, <1>2 DEF Unmoved, Acts, Managed

(* It is enough to look at w.                                              *)
LEMMA ActsAll ==
  ASSUME NEW s, NEW t, NEW w \in Windows, NEW P, NEW ap, NEW bp, NEW cm,
         All(s, ap, cm), Acts(s, t, w), Adds(s.queue, t.queue, P),
         P \subseteq {Event(y, w) : y \in Types},
         \A x \in Windows \ {w} : bp[x] = ap[x],
         Owed(t, bp, w),
         Patient => Good(t, bp, w),
         Patient /\ Hides(s, w) => P \cap {Event("Unmap", w), Event("UnmapFrame", w)} = {}
  PROVE  All(t, bp, cm)
<1>1. /\ \A x \in Windows \ {w}, y \in Types : Event(y, x) \notin P
      /\ \A x \in Windows : Event("Enter", x) \notin P
  BY EventsDiffer DEF Types
<1>2. \A x \in Windows \ {w} : Unmoved(s, t, x)
  BY <1>1, ActsUnmoved
<1>3. \A x \in Windows : Owed(t, bp, x)
  BY <1>2, UnmovedKeeps DEF All
<1>4. ASSUME Patient PROVE \A x \in Windows : Good(t, bp, x)
  BY <1>2, <1>4, UnmovedKeeps DEF All
<1>5. ASSUME Patient PROVE Waits(t, cm)
  <2>1. (Entering(t) <=> Entering(s)) /\ (OneEnter(s) => OneEnter(t))
    BY <1>1, AddsWaits
  <2>2. ASSUME Clear(s) PROVE Clear(t)
    <3> SUFFICES ASSUME NEW x \in Windows, Hides(t, x)
                 PROVE  ~Has(t, "Unmap", x) /\ ~Has(t, "UnmapFrame", x)
      BY DEF Clear
    <3>1. Hides(s, x)
      BY DEF Hides, Acts, Managed
    <3>2. CASE x # w
      BY <2>2, <3>1, <3>2, <1>2 DEF Clear, Unmoved, Types
    <3>3. CASE x = w
      <4>1. Event("Unmap", x) \notin P /\ Event("UnmapFrame", x) \notin P
        BY <1>5, <3>1, <3>3
      <4>2. \A y \in {"Unmap", "UnmapFrame"} : Has(t, y, x) => Has(s, y, x)
        BY <4>1, WatchedEvents DEF Adds, Has
      <4> QED BY <2>2, <3>1, <4>2 DEF Clear
    <3> QED BY <3>2, <3>3
  <2> QED BY <1>5, <2>1, <2>2 DEF All, Waits
<1> QED BY <1>3, <1>4, <1>5 DEF All, Acts

(* What an event adds to those about its window.                           *)
LEMMA PushedHas ==
  ASSUME NEW s, NEW t, NEW w \in Windows, NEW y \in Types, Pushed(s.queue, t.queue, Event(y, w))
  PROVE  /\ \A x \in Types : Has(t, x, w) <=> Has(s, x, w) \/ x = y
         /\ \A x, z \in Types : Ahead(t, x, z, w) => Ahead(s, x, z, w) \/ (Has(s, x, w) /\ z = y)
<1>1. \A x \in Types : Event(x, w) \in Watched /\ (Event(x, w) = Event(y, w) <=> x = y)
  BY TypedEvents, EventsDiffer
<1> QED BY <1>1 DEF Pushed, Has, Ahead

LEMMA PushActs ==
  ASSUME NEW s \in Sys, NEW w \in Windows, NEW y \in Types
  PROVE  LET t == Push(s, y, w)
         IN  /\ Acts(s, t, w) /\ Adds(s.queue, t.queue, {Event(y, w)})
             /\ SameShow(s, t) /\ Pushed(s.queue, t.queue, Event(y, w))
<1>1. /\ Push(s, y, w) \in Sys /\ SameShow(s, Push(s, y, w))
      /\ Pushed(s.queue, Push(s, y, w).queue, Event(y, w))
  BY PushDoes, TypedEvents
<1> QED BY <1>1, PushedAdds DEF Acts, SameShow, Stays

LEMMA AppMapAll ==
  ASSUME NEW s, NEW w \in Windows \ Managed(s), NEW ap, NEW bp, NEW cm, All(s, ap, cm),
         s.exists[w], ~s.up[w], ~Has(s, "SentUnmap", w),
         bp[w] = "mapped", \A x \in Windows \ {w} : bp[x] = ap[x]
  PROVE  All(Push(s, "MapRequest", w), bp, cm)
<1> DEFINE t == Push(s, "MapRequest", w)
<1>1. s \in Sys /\ w \in Windows /\ w \notin Managed(s) /\ "MapRequest" \in Types
  BY DEF All, Types
<1>2. /\ Acts(s, t, w) /\ Adds(s.queue, t.queue, {Event("MapRequest", w)})
      /\ SameShow(s, t) /\ Pushed(s.queue, t.queue, Event("MapRequest", w))
  BY <1>1, PushActs
<1> HIDE DEF t
<1>3. /\ \A x \in Types : Has(t, x, w) <=> Has(s, x, w) \/ x = "MapRequest"
      /\ \A x, z \in Types : Ahead(t, x, z, w) =>
           Ahead(s, x, z, w) \/ (Has(s, x, w) /\ z = "MapRequest")
  BY <1>1, <1>2, PushedHas
<1>4. Owed(s, ap, w)
  BY <1>1 DEF All
<1>5. Owed(t, bp, w)
  BY <1>2, <1>3, <1>4 DEF Owed, Types, SameShow
<1>6. ASSUME Patient PROVE Good(t, bp, w)
  <2>1. Lasting(s, ap, w)
    BY <1>1, <1>6 DEF All, Good
  <2>2. t.exists = s.exists /\ t.up = s.up /\ Managed(t) = Managed(s)
    BY <1>2 DEF SameShow, Managed
  <2>3. Lasting(t, bp, w)
    BY <2>1, <2>2, <1>1, <1>3, <1>4 DEF Lasting, Types, Owed
  <2> QED BY <2>2, <2>3, <1>1 DEF Good, Shows, Hides
<1>7. ~Hides(s, w)
  BY <1>1 DEF Hides
<1>8. All(t, bp, cm)
  <2>1. {Event("MapRequest", w)} \subseteq {Event(y, w) : y \in Types}
    BY <1>1
  <2> QED BY <2>1, <1>1, <1>2, <1>5, <1>6, <1>7, ActsAll
<1> QED BY <1>8 DEF t

LEMMA AppWithdrawAll ==
  ASSUME NEW s, NEW w \in Windows, NEW ap, NEW bp, NEW cm, All(s, ap, cm),
         bp[w] = "withdrawn", \A x \in Windows \ {w} : bp[x] = ap[x]
  PROVE  All(Push(s, "SentUnmap", w), bp, cm)
<1> DEFINE t == Push(s, "SentUnmap", w)
<1>1. s \in Sys /\ "SentUnmap" \in Types
  BY DEF All, Types
<1>2. /\ Acts(s, t, w) /\ Adds(s.queue, t.queue, {Event("SentUnmap", w)})
      /\ SameShow(s, t) /\ Pushed(s.queue, t.queue, Event("SentUnmap", w))
  BY <1>1, PushActs
<1> HIDE DEF t
<1>3. /\ \A x \in Types : Has(t, x, w) <=> Has(s, x, w) \/ x = "SentUnmap"
      /\ \A x, z \in Types : Ahead(t, x, z, w) =>
           Ahead(s, x, z, w) \/ (Has(s, x, w) /\ z = "SentUnmap")
  BY <1>1, <1>2, PushedHas
<1>4. Owed(t, bp, w)
  BY <1>2, <1>3 DEF Owed, Types, SameShow, All
<1>5. ASSUME Patient PROVE Good(t, bp, w)
  <2>1. Good(s, ap, w)
    BY <1>5 DEF All
  <2>2. /\ t.exists = s.exists /\ t.up = s.up /\ t.mapped = s.mapped
        /\ t.fmapped = s.fmapped /\ t.frame = s.frame /\ Managed(t) = Managed(s)
        /\ Shows(t, w) <=> Shows(s, w)
        /\ Hides(t, w) <=> Hides(s, w)
    BY <1>2 DEF SameShow, Managed, Shows, Hides
  <2>3. Lasting(t, bp, w)
    BY <2>1, <2>2, <1>3 DEF Good, Lasting, Types
  <2>4. Heeded(s, ap, w) => Heeded(t, bp, w)
    BY <2>2, <1>3 DEF Heeded, Types
  <2> QED BY <2>1, <2>2, <2>3, <2>4 DEF Good
<1>6. {Event("SentUnmap", w)} \cap {Event("Unmap", w), Event("UnmapFrame", w)} = {}
  BY EventsDiffer
<1>7. All(t, bp, cm)
  <2>1. {Event("SentUnmap", w)} \subseteq {Event(y, w) : y \in Types}
    BY <1>1
  <2> QED BY <2>1, <1>1, <1>2, <1>4, <1>5, <1>6, ActsAll
<1> QED BY <1>7 DEF t

(* A program whose window is not on the screen changes its mind only.      *)
LEMMA AppUnmapDownAll ==
  ASSUME NEW s, NEW w \in Windows, NEW ap, NEW bp, NEW cm, All(s, ap, cm),
         ap[w] = "mapped", bp[w] = "unmapping", \A x \in Windows \ {w} : bp[x] = ap[x]
  PROVE  All(s, bp, cm)
<1> DEFINE P == {}
<1>1. s \in Sys /\ Acts(s, s, w) /\ Adds(s.queue, s.queue, P)
  BY AddsNone DEF All, Acts, Stays
<1>2. Owed(s, bp, w)
  BY DEF All, Owed
<1>3. Patient => Good(s, bp, w)
  BY DEF All, Good, Lasting, Heeded
<1>4. /\ P \subseteq {Event(y, w) : y \in Types}
      /\ P \cap {Event("Unmap", w), Event("UnmapFrame", w)} = {}
  OBVIOUS
<1> HIDE DEF P
<1> QED BY <1>1, <1>2, <1>3, <1>4, ActsAll

LEMMA AppUnmapUpAll ==
  ASSUME NEW s, NEW w \in Windows, NEW ap, NEW bp, NEW cm, All(s, ap, cm), s.up[w],
         ap[w] = "mapped", bp[w] = "unmapping", \A x \in Windows \ {w} : bp[x] = ap[x]
  PROVE  All(Revert(Push([s EXCEPT !.up[w] = FALSE], "Unmap", w)), bp, cm)
<1> DEFINE m == [s EXCEPT !.up[w] = FALSE]
           p == Push(m, "Unmap", w)
           t == Revert(p)
<1>1. s \in Sys /\ "Unmap" \in Types
  BY DEF All, Types
<1>2. /\ m \in Sys /\ SameSet(s, m) /\ \A x \in Windows \ {w} : Stays(s, m, x)
      /\ ~m.up[w] /\ m.frame = s.frame /\ m.mapped = s.mapped
      /\ m.fmapped = s.fmapped /\ m.queue = s.queue
  BY <1>1 DEF Sys, SameSet, Stays
<1> HIDE DEF m
<1>3. p \in Sys /\ SameShow(m, p) /\ Pushed(m.queue, p.queue, Event("Unmap", w))
  BY <1>1, <1>2, PushDoes, TypedEvents
<1> HIDE DEF p
<1>4. Aside(p, t)
  BY <1>3, RevertAside
<1> HIDE DEF t
<1>5. Pushed(s.queue, t.queue, Event("Unmap", w))
  BY <1>2, <1>3, <1>4, PushedThen DEF Aside
<1>6. /\ t.exists = s.exists /\ Managed(t) = Managed(s) /\ ~t.up[w] /\ t.mapped = s.mapped
      /\ t.fmapped = s.fmapped /\ t.frame = s.frame
      /\ Shows(t, w) <=> Shows(s, w)
      /\ Hides(t, w) <=> Hides(s, w)
  BY <1>2, <1>3, <1>4 DEF Aside, SameShow, SameSet, Managed, Shows, Hides
<1>7. Acts(s, t, w) /\ Adds(s.queue, t.queue, {Event("Unmap", w)})
  BY <1>2, <1>3, <1>4, <1>5, PushedAdds DEF Acts, Aside, SameShow, SameSet, Stays
<1>8. /\ \A x \in Types : Has(t, x, w) <=> Has(s, x, w) \/ x = "Unmap"
      /\ \A x, z \in Types : Ahead(t, x, z, w) =>
           Ahead(s, x, z, w) \/ (Has(s, x, w) /\ z = "Unmap")
  BY <1>1, <1>5, PushedHas
<1>9. Owed(t, bp, w)
  <2>1. Owed(s, ap, w)
    BY DEF All
  <2> QED BY <2>1, <1>6, <1>8 DEF Owed, Types
<1>10. ASSUME Patient PROVE Good(t, bp, w) /\ ~Hides(s, w)
  <2>1. Good(s, ap, w)
    BY <1>10 DEF All
  <2>2. w \in Managed(s) /\ s.mapped[w]
    BY <2>1 DEF Good, Lasting
  <2>3. ~Hides(s, w) /\ Shows(s, w)
    BY <2>1, <2>2 DEF Good, Shows, Hides
  <2>4. Lasting(t, bp, w)
    BY <2>1, <2>2, <1>6, <1>8 DEF Good, Lasting, Types
  <2>5. Heeded(s, ap, w)
    BY <2>1, <2>3 DEF Good
  <2>6. Heeded(t, bp, w)
    BY <2>2, <2>5, <1>6, <1>8 DEF Heeded, Types
  <2> QED BY <2>1, <2>3, <2>4, <2>6, <1>6 DEF Good
<1>11. All(t, bp, cm)
  <2> DEFINE P == {Event("Unmap", w)}
  <2>1. P \subseteq {Event(y, w) : y \in Types}
    BY <1>1
  <2>2. Adds(s.queue, t.queue, P)
    BY <1>7
  <2>3. Patient /\ Hides(s, w) => P \cap {Event("Unmap", w), Event("UnmapFrame", w)} = {}
    BY <1>10
  <2>4. Patient => Good(t, bp, w)
    BY <1>10
  <2> HIDE DEF P
  <2> QED BY <2>1, <2>2, <2>3, <2>4, <1>7, <1>9, ActsAll
<1> QED BY <1>11 DEF t, p, m

LEMMA AppDestroyAll ==
  ASSUME NEW s, NEW w \in Windows, NEW ap, NEW bp, NEW cm, All(s, ap, cm),
         bp[w] = "withdrawn", \A x \in Windows \ {w} : bp[x] = ap[x]
  PROVE  LET gone == [s EXCEPT !.exists[w] = FALSE, !.up[w] = FALSE]
         IN  All(Push(Revert(IF s.up[w] THEN Push(gone, "Unmap", w) ELSE gone),
                      "Destroy", w), bp, cm)
<1> DEFINE gone == [s EXCEPT !.exists[w] = FALSE, !.up[w] = FALSE]
           e == Event("Unmap", w)
           d == Event("Destroy", w)
           p == IF s.up[w] THEN Push(gone, "Unmap", w) ELSE gone
           r == Revert(p)
           t == Push(r, "Destroy", w)
           P == {x \in {e} : s.up[w]} \cup {d}
<1>1. s \in Sys /\ "Unmap" \in Types /\ "Destroy" \in Types
  BY DEF All, Types
<1>2. /\ gone \in Sys /\ gone.client = s.client /\ gone.view = s.view
      /\ gone.selview = s.selview /\ gone.frame = s.frame /\ gone.mapped = s.mapped
      /\ gone.fmapped = s.fmapped /\ gone.queue = s.queue
      /\ ~gone.up[w] /\ ~gone.exists[w]
      /\ \A x \in Windows \ {w} : gone.exists[x] = s.exists[x] /\ gone.up[x] = s.up[x]
  BY <1>1 DEF Sys
<1> HIDE DEF gone
<1>3. /\ p \in Sys /\ SameShow(gone, p)
      /\ s.up[w] => Pushed(s.queue, p.queue, e)
      /\ ~s.up[w] => p.queue = s.queue
  <2>1. /\ Push(gone, "Unmap", w) \in Sys /\ SameShow(gone, Push(gone, "Unmap", w))
        /\ Pushed(gone.queue, Push(gone, "Unmap", w).queue, e)
    BY <1>1, <1>2, PushDoes, TypedEvents
  <2> QED BY <2>1, <1>2 DEF SameShow
<1> HIDE DEF p
<1>4. Aside(p, r)
  BY <1>3, RevertAside
<1> HIDE DEF r
<1>5. /\ r \in Sys /\ SameShow(gone, r)
      /\ s.up[w] => Pushed(s.queue, r.queue, e)
      /\ ~s.up[w] => Adds(s.queue, r.queue, {})
  BY <1>3, <1>4, PushedThen DEF Aside, SameShow
<1>6. t \in Sys /\ SameShow(r, t) /\ Pushed(r.queue, t.queue, d)
  BY <1>1, <1>5, PushDoes, TypedEvents
<1> HIDE DEF t
<1>7. /\ t.client = s.client /\ t.view = s.view /\ t.selview = s.selview
      /\ t.frame = s.frame /\ t.mapped = s.mapped /\ t.fmapped = s.fmapped
      /\ ~t.up[w] /\ ~t.exists[w]
      /\ \A x \in Windows \ {w} : t.exists[x] = s.exists[x] /\ t.up[x] = s.up[x]
  BY <1>2, <1>5, <1>6 DEF SameShow
<1>8. Acts(s, t, w)
  BY <1>6, <1>7 DEF Acts, Stays
<1>9. Adds(s.queue, t.queue, P)
  <2>1. Adds(r.queue, t.queue, {d})
    BY <1>6, PushedAdds
  <2>2. Adds(s.queue, r.queue, {x \in {e} : s.up[w]})
    <3>1. CASE s.up[w]
      <4>1. Adds(s.queue, r.queue, {e}) /\ {x \in {e} : s.up[w]} = {e}
        BY <1>5, <3>1, PushedAdds
      <4> QED BY <4>1
    <3>2. CASE ~s.up[w]
      <4>1. {x \in {e} : s.up[w]} = {}
        BY <3>2
      <4> QED BY <4>1, <1>5, <3>2
    <3> QED BY <3>1, <3>2
  <2> QED BY <2>1, <2>2, AddsTrans
<1>10. /\ \A x \in Types : Has(r, x, w) <=> Has(s, x, w) \/ (s.up[w] /\ x = "Unmap")
       /\ \A x, z \in Types : Ahead(r, x, z, w) =>
            Ahead(s, x, z, w) \/ (s.up[w] /\ Has(s, x, w) /\ z = "Unmap")
  <2>1. CASE s.up[w]
    BY <2>1, <1>1, <1>5, PushedHas
  <2>2. CASE ~s.up[w]
    BY <2>2, <1>5, TypedEvents DEF Adds, Has, Ahead
  <2> QED BY <2>1, <2>2
<1>11. /\ \A x \in Types : Has(t, x, w) <=> Has(r, x, w) \/ x = "Destroy"
       /\ \A x, z \in Types : Ahead(t, x, z, w) =>
            Ahead(r, x, z, w) \/ (Has(r, x, w) /\ z = "Destroy")
  BY <1>1, <1>6, PushedHas
<1>12. Owed(t, bp, w)
  BY <1>7 DEF Owed
<1>13. ASSUME Patient PROVE Good(t, bp, w) /\ (Hides(s, w) => ~s.up[w])
  <2>1. Good(s, ap, w)
    BY <1>13 DEF All
  <2>2. /\ Managed(t) = Managed(s)
        /\ Shows(t, w) <=> Shows(s, w)
        /\ Hides(t, w) <=> Hides(s, w)
    BY <1>7 DEF Managed, Shows, Hides
  <2>3. /\ \A x \in Types : Has(t, x, w) =>
             Has(s, x, w) \/ (s.up[w] /\ x = "Unmap") \/ x = "Destroy"
        /\ \A x \in Types, z \in Types \ {"Destroy"} : Ahead(t, x, z, w) =>
             Ahead(s, x, z, w) \/ (s.up[w] /\ Has(s, x, w) /\ z = "Unmap")
    BY <1>10, <1>11
  <2>4. Lasting(s, ap, w)
    BY <2>1 DEF Good
  <2>5. Lasting(t, bp, w)
    BY <2>2, <2>3, <2>4, <1>7 DEF Lasting, Types
  <2>6. Shows(s, w) => Heeded(t, bp, w)
    <3> SUFFICES ASSUME Shows(s, w) PROVE Heeded(t, bp, w)
      OBVIOUS
    <3>1. Heeded(s, ap, w)
      BY <2>1 DEF Good
    <3> QED BY <3>1, <2>3, <2>4, <1>7 DEF Heeded, Types, Lasting
  <2>7. Hides(s, w) => ~s.up[w]
    BY <2>1, <2>4 DEF Good, Lasting
  <2> QED BY <2>1, <2>2, <2>5, <2>6, <2>7, <1>7 DEF Good
<1>14. P \subseteq {Event(y, w) : y \in Types}
  BY <1>1
<1>15. Patient /\ Hides(s, w) => P \cap {Event("Unmap", w), Event("UnmapFrame", w)} = {}
  <2>1. d # Event("Unmap", w) /\ d # Event("UnmapFrame", w)
    BY EventsDiffer
  <2> QED BY <2>1, <1>13
<1> HIDE DEF P
<1>16. All(t, bp, cm)
  BY <1>8, <1>9, <1>12, <1>13, <1>14, <1>15, ActsAll
<1> QED BY <1>16 DEF t, r, p, gone

(* A window that is gone when wmii would manage it.                        *)
LEMMA VanishAll ==
  ASSUME NEW s, NEW t, NEW w \in Windows \ Managed(s), NEW ap, NEW cm,
         Reads(s, t, Event("MapRequest", w)), All(s, ap, cm)
  PROVE  LET u == FlushFocus(Push([t EXCEPT !.exists[w] = FALSE], "Destroy", w))
         IN  All(u, ap, cm) /\ Managed(u) = Managed(s)
<1> DEFINE m == [t EXCEPT !.exists[w] = FALSE]
           p == Push(m, "Destroy", w)
           u == FlushFocus(p)
           P == {Event("Destroy", w)}
<1>1. w \in Windows /\ w \notin Managed(s) /\ "Destroy" \in Types
  BY DEF Types
<1>2. All(t, ap, cm)
  <2>1. \A x : Event("MapRequest", w) # Event("Unmap", x)
               /\ Event("MapRequest", w) # Event("SentUnmap", x)
    BY EventsDiffer
  <2> QED BY <2>1, ReadAll
<1>3. t \in Sys /\ Managed(t) = Managed(s)
  BY DEF Reads, SameShow, Managed
<1>4. /\ m \in Sys /\ m.client = t.client /\ m.view = t.view /\ m.selview = t.selview
      /\ m.up = t.up /\ m.frame = t.frame /\ m.mapped = t.mapped
      /\ m.fmapped = t.fmapped /\ m.queue = t.queue
      /\ ~m.exists[w] /\ \A x \in Windows \ {w} : m.exists[x] = t.exists[x]
  BY <1>1, <1>3 DEF Sys
<1> HIDE DEF m
<1>5. p \in Sys /\ SameShow(m, p) /\ Pushed(m.queue, p.queue, Event("Destroy", w))
  BY <1>1, <1>4, PushDoes, TypedEvents
<1> HIDE DEF p
<1>6. Acts(t, p, w) /\ Adds(t.queue, p.queue, P)
  BY <1>4, <1>5, PushedAdds DEF Acts, SameShow, Stays
<1>7. /\ \A x \in Types : Has(p, x, w) <=> Has(t, x, w) \/ x = "Destroy"
      /\ \A x, z \in Types : Ahead(p, x, z, w) =>
           Ahead(t, x, z, w) \/ (Has(t, x, w) /\ z = "Destroy")
  <2>1. Pushed(t.queue, p.queue, Event("Destroy", w))
    BY <1>4, <1>5
  <2> QED BY <1>1, <2>1, PushedHas
<1>8. ~p.exists[w] /\ p.up = t.up /\ p.mapped = t.mapped /\ Managed(p) = Managed(t)
  BY <1>4, <1>5 DEF SameShow, Managed
<1>9. Owed(p, ap, w)
  <2>1. Owed(t, ap, w)
    BY <1>1, <1>2 DEF All
  <2> QED BY <2>1, <1>7, <1>8 DEF Owed, Types
<1>10. ASSUME Patient PROVE Good(p, ap, w)
  <2>1. Lasting(t, ap, w)
    BY <1>1, <1>2, <1>10 DEF All, Good
  <2>2. Lasting(p, ap, w)
    BY <2>1, <1>1, <1>3, <1>7, <1>8 DEF Lasting, Types
  <2> QED BY <2>2, <1>1, <1>3, <1>8 DEF Good, Shows, Hides
<1>11. P \subseteq {Event(y, w) : y \in Types} /\ ~Hides(t, w)
  BY <1>1, <1>3 DEF Hides
<1> HIDE DEF P
<1>12. All(p, ap, cm)
  BY <1>1, <1>2, <1>6, <1>9, <1>10, <1>11, ActsAll
<1>13. Aside(p, u)
  BY <1>5, FlushFocusAside
<1> HIDE DEF u
<1>14. All(u, ap, cm) /\ Managed(u) = Managed(s)
  BY <1>3, <1>5, <1>8, <1>12, <1>13, AsideAll, SameManaged
<1> QED BY <1>14 DEF u, p, m

(* The pointer's way into a client, reported.                              *)
LEMMA PointerAll ==
  ASSUME NEW s, NEW w \in Windows, NEW ap, NEW cm, All(s, ap, cm), Patient => cm
  PROVE  All(Push(s, "Enter", w), ap, FALSE)
<1> DEFINE t == Push(s, "Enter", w)
           e == Event("Enter", w)
<1>1. s \in Sys
  BY DEF All
<1>2. t \in Sys /\ SameShow(s, t) /\ Pushed(s.queue, t.queue, e)
  BY <1>1, PushDoes, WatchedEvents
<1> HIDE DEF t
<1>3. \A x \in Windows : Unmoved(s, t, x)
  <2>1. \A x \in Windows, y \in Types : Event(y, x) \notin {e}
    BY EventsDiffer DEF Types
  <2>2. Adds(s.queue, t.queue, {e}) /\ SameSet(s, t) /\ \A x \in Windows : Stays(s, t, x)
    BY <1>2, PushedAdds DEF SameShow, SameSet, Stays
  <2> QED BY <2>1, <2>2, AddsUnmoved
<1>4. ASSUME Patient PROVE Waits(t, FALSE)
  <2>1. OneEnter(s) /\ ~Entering(s) /\ Clear(s)
    BY <1>4 DEF All, Waits
  <2>2. OneEnter(t)
    BY <1>2, <2>1, WatchedEvents DEF OneEnter, Entering, Has, Pushed
  <2>3. Clear(t)
    BY <2>1, <1>3 DEF Clear, Unmoved, Types, Hides
  <2> QED BY <2>2, <2>3 DEF Waits
<1>5. \A x \in Windows : Owed(t, ap, x)
  BY <1>3, UnmovedKeeps DEF All
<1>6. ASSUME Patient PROVE \A x \in Windows : Good(t, ap, x)
  BY <1>3, <1>6, UnmovedKeeps DEF All
<1>7. All(t, ap, FALSE)
  BY <1>2, <1>4, <1>5, <1>6 DEF All
<1> QED BY <1>7 DEF t
-----------------------------------------------------------------------------
(* The steps.                                                              *)

(* What a step from sys to t that leaves the programs alone has to keep.   *)
Keeps(t) ==
  /\ All(t, app, calm)
  /\ \A w \in Managed(sys) \ Managed(t) : Withdrawn(w)

LEMMA HeadEvent ==
  ASSUME NEW h \in Events
  PROVE  /\ h = Event(h.type, h.win)
         /\ h.type \notin {"FocusIn", "FocusOut"} => h.win \in Windows
  BY DEF Events, Watched, Others, Event

LEMMA NextSelOk ==
  ASSUME NEW s \in Sys, NEW w \in Managed(s), NEW next \in NextSel(s, w)
  PROVE  next \in Windows \cup {"nil"}
<1>1. Managed(s) \subseteq Windows /\ s.view[w] \in Views /\ s.sel \in [Views -> Windows \cup {"nil"}]
  BY FieldsOf DEF Managed, ToSet
<1> QED BY <1>1 DEF NextSel

LEMMA RestKeeps ==
  ASSUME Inv, sys.queue # <<>>
  PROVE  /\ Reads(sys, Rest, Head(sys.queue)) /\ Rest \in Sys /\ Managed(Rest) = Managed(sys)
         /\ (\A w \in Managed(sys) : Head(sys.queue) \notin {Event("Unmap", w), Event("SentUnmap", w)})
              => Keeps(Rest)
<1>1. sys \in Sys /\ All(sys, app, calm)
  BY DEF Inv, All
<1>2. Reads(sys, Rest, Head(sys.queue))
  BY <1>1, HeadRead DEF Rest
<1>3. Rest \in Sys /\ Managed(Rest) = Managed(sys)
  BY <1>2 DEF Reads, SameShow, Managed
<1> HIDE DEF Rest
<1>4. ASSUME \A w \in Managed(sys) : Head(sys.queue) \notin {Event("Unmap", w), Event("SentUnmap", w)}
      PROVE  Keeps(Rest)
  <2>1. All(Rest, app, calm)
    BY <1>1, <1>2, <1>4, ReadAll
  <2> QED BY <2>1, <1>3 DEF Keeps
<1> QED BY <1>2, <1>3, <1>4

LEMMA AsideKeeps ==
  ASSUME NEW s, NEW t, Keeps(s), Aside(s, t)
  PROVE  Keeps(t)
<1>1. All(t, app, calm)
  BY AsideAll DEF Keeps
<1>2. s \in Sys
  BY DEF Keeps, All
<1>3. Managed(t) = Managed(s)
  BY <1>2, SameManaged
<1> QED BY <1>1, <1>3 DEF Keeps

LEMMA MapRequestKeeps == Inv /\ MapRequest => Keeps(sys')
<1> SUFFICES ASSUME Inv, MapRequest PROVE Keeps(sys')
  OBVIOUS
<1> DEFINE h == Head(sys.queue)
<1>1. sys.queue # <<>> /\ h.type = "MapRequest"
  BY DEF MapRequest, Receive
<1>2. /\ Reads(sys, Rest, h) /\ Rest \in Sys /\ Managed(Rest) = Managed(sys)
      /\ (\A w \in Managed(sys) : h \notin {Event("Unmap", w), Event("SentUnmap", w)})
              => Keeps(Rest)
  BY <1>1, RestKeeps
<1>3. h = Event("MapRequest", Win) /\ Win \in Windows
  BY <1>1, <1>2, HeadEvent DEF Reads, Win
<1>4. sys \in Sys /\ All(sys, app, calm)
  BY DEF Inv, All
<1> HIDE DEF h
<1>5. CASE sys' = Rest
  <2>1. Keeps(Rest)
    BY <1>2, <1>3, EventsDiffer
  <2> QED BY <1>5, <2>1
<1>6. ASSUME Win \notin Managed(sys), NEW again \in {FALSE, Reuse},
             sys' = ClientCreate(Rest, Win, again)
      PROVE  Keeps(sys')
  <2>1. again \in BOOLEAN
    BY WindowsAssumption
  <2>2. /\ All(ClientCreate(Rest, Win, again), app, calm)
        /\ Managed(sys) \subseteq Managed(ClientCreate(Rest, Win, again))
    BY <1>2, <1>3, <1>4, <1>6, <2>1, CreateAll
  <2> QED BY <1>6, <2>2 DEF Keeps
<1>7. ASSUME Win \notin Managed(sys),
             sys' = FlushFocus(Push([Rest EXCEPT !.exists[Win] = FALSE], "Destroy", Win))
      PROVE  Keeps(sys')
  <2> DEFINE u == FlushFocus(Push([Rest EXCEPT !.exists[Win] = FALSE], "Destroy", Win))
  <2>1. All(u, app, calm) /\ Managed(u) = Managed(sys)
    BY <1>2, <1>3, <1>4, <1>7, VanishAll
  <2> QED BY <1>7, <2>1 DEF Keeps
<1> QED BY <1>5, <1>6, <1>7 DEF MapRequest

LEMMA DestroyKeeps ==
  ASSUME Inv, sys.queue # <<>>, NEW w \in Managed(sys), NEW next \in NextSel(sys, w),
         Head(sys.queue) \in {Event("SentUnmap", w), Event("Destroy", w)}
  PROVE  Keeps(ClientDestroy(Rest, w, next))
<1> DEFINE h == Head(sys.queue)
<1>1. Reads(sys, Rest, h)
  BY RestKeeps
<1>2. sys \in Sys /\ All(sys, app, calm) /\ w \in Windows
  BY FieldsOf DEF Inv, All, Managed, ToSet
<1>3. next \in Windows \cup {"nil"}
  BY <1>2, NextSelOk
<1>4. h \in {Event("SentUnmap", w), Event("Destroy", w)}
  OBVIOUS
<1> HIDE DEF h
<1>5. /\ All(ClientDestroy(Rest, w, next), app, calm)
      /\ Managed(ClientDestroy(Rest, w, next)) = Managed(sys) \ {w}
  BY <1>1, <1>2, <1>3, <1>4, DestroyAll
<1>6. Withdrawn(w)
  <2>1. Owed(sys, app, w) /\ (Has(sys, "SentUnmap", w) \/ Has(sys, "Destroy", w))
    BY <1>1, <1>2, <1>4 DEF All, Reads, Has
  <2> QED BY <2>1 DEF Owed, Withdrawn
<1> QED BY <1>5, <1>6 DEF Keeps

LEMMA ReadKeeps ==
  ASSUME Inv
  PROVE  /\ UnmapNotify => Keeps(sys')
         /\ FrameUnmapNotify => Keeps(sys')
         /\ SentUnmapNotify => Keeps(sys')
         /\ DestroyNotify => Keeps(sys')
         /\ MapNotify => Keeps(sys')
         /\ FocusNotify => Keeps(sys')
         /\ EnterNotify => Keeps(sys')
<1> DEFINE h == Head(sys.queue)
<1>1. sys \in Sys /\ All(sys, app, calm)
  BY DEF Inv, All
<1>2. ASSUME sys.queue # <<>>
      PROVE  /\ Reads(sys, Rest, h) /\ Rest \in Sys /\ Managed(Rest) = Managed(sys)
             /\ h = Event(h.type, Win)
             /\ h.type \notin {"FocusIn", "FocusOut"} => Win \in Windows
             /\ h.type \notin {"Unmap", "SentUnmap"} => Keeps(Rest)
             /\ Win \notin Managed(sys) => Keeps(Rest)
  <2>1. /\ Reads(sys, Rest, h) /\ Rest \in Sys /\ Managed(Rest) = Managed(sys)
        /\ (\A w \in Managed(sys) : h \notin {Event("Unmap", w), Event("SentUnmap", w)})
              => Keeps(Rest)
    BY <1>2, RestKeeps
  <2>2. /\ h = Event(h.type, Win)
        /\ h.type \notin {"FocusIn", "FocusOut"} => Win \in Windows
    BY <2>1, HeadEvent DEF Reads, Win
  <2> HIDE DEF h
  <2>3. h.type \notin {"Unmap", "SentUnmap"} \/ Win \notin Managed(sys) =>
          \A w \in Managed(sys) : h \notin {Event("Unmap", w), Event("SentUnmap", w)}
    BY <2>2, EventsDiffer
  <2> QED BY <2>1, <2>2, <2>3
<1>3. ASSUME UnmapNotify PROVE Keeps(sys')
  <2>1. sys.queue # <<>> /\ h.type = "Unmap"
    BY <1>3 DEF UnmapNotify, Receive
  <2> HIDE DEF h
  <2>2. CASE Win \notin Managed(sys)
    BY <1>2, <1>3, <2>1, <2>2 DEF UnmapNotify
  <2>3. CASE Win \in Managed(sys)
    <3> DEFINE u == [Rest EXCEPT !.mapped[Win] = FALSE]
    <3>1. Reads(sys, Rest, Event("Unmap", Win)) /\ Rest \in Sys /\ Managed(Rest) = Managed(sys)
      BY <1>2, <2>1
    <3>2. All(u, app, calm)
      BY <1>1, <2>3, <3>1, UnmapAll
    <3>3. Managed(u) = Managed(Rest)
      BY <3>1 DEF Sys, Managed
    <3>4. sys' = u
      BY <1>3, <2>3 DEF UnmapNotify
    <3> QED BY <3>1, <3>2, <3>3, <3>4 DEF Keeps
  <2> QED BY <2>2, <2>3
<1>4. ASSUME FrameUnmapNotify PROVE Keeps(sys')
  <2>1. sys.queue # <<>> /\ h.type = "UnmapFrame"
    BY <1>4 DEF FrameUnmapNotify, Receive
  <2> DEFINE u == [Rest EXCEPT !.fmapped[Win] = FALSE]
  <2> HIDE DEF h
  <2>2. /\ Reads(sys, Rest, Event("UnmapFrame", Win)) /\ Rest \in Sys
        /\ Managed(Rest) = Managed(sys) /\ Win \in Windows
    BY <1>2, <2>1
  <2>3. All(u, app, calm)
    BY <1>1, <2>2, FrameUnmapAll
  <2>4. Managed(u) = Managed(Rest)
    BY <2>2 DEF Sys, Managed
  <2>5. sys' = u
    BY <1>4 DEF FrameUnmapNotify
  <2> QED BY <2>2, <2>3, <2>4, <2>5 DEF Keeps
<1>5. ASSUME SentUnmapNotify \/ DestroyNotify PROVE Keeps(sys')
  <2>1. sys.queue # <<>> /\ h.type \in {"SentUnmap", "Destroy"}
    BY <1>5 DEF SentUnmapNotify, DestroyNotify, Receive
  <2>2. CASE Win \notin Managed(sys)
    <3>1. sys' = Rest
      BY <1>5, <2>2 DEF SentUnmapNotify, DestroyNotify
    <3> QED BY <1>2, <2>1, <2>2, <3>1
  <2>3. CASE Win \in Managed(sys)
    <3>1. PICK next \in NextSel(sys, Win) : sys' = ClientDestroy(Rest, Win, next)
      BY <1>5, <2>3 DEF SentUnmapNotify, DestroyNotify
    <3>2. Head(sys.queue) \in {Event("SentUnmap", Win), Event("Destroy", Win)}
      BY <1>2, <2>1
    <3>3. Keeps(ClientDestroy(Rest, Win, next))
      BY <2>1, <2>3, <3>2, DestroyKeeps
    <3> QED BY <3>1, <3>3
  <2> QED BY <2>2, <2>3
<1>6. ASSUME MapNotify PROVE Keeps(sys')
  <2>1. sys.queue # <<>> /\ h.type = "Map"
    BY <1>6 DEF MapNotify, Receive
  <2> HIDE DEF h
  <2>2. Keeps(Rest) /\ Rest \in Sys /\ Win \in Windows
    BY <1>2, <2>1
  <2>3. Aside(Rest, ClientFocus(Rest, Win))
    BY <2>2, ClientFocusAside
  <2>4. Keeps(ClientFocus(Rest, Win))
    BY <2>2, <2>3, AsideKeeps
  <2> QED BY <1>6, <2>2, <2>4 DEF MapNotify
<1>7. ASSUME FocusNotify PROVE Keeps(sys')
  <2>1. sys.queue # <<>> /\ IsFocus(h)
    BY <1>7 DEF FocusNotify
  <2>2. Keeps(Rest) /\ Rest \in Sys /\ h \in Events
    BY <1>2, <2>1 DEF IsFocus, Reads
  <2>3. Aside(Rest, FocusEvent(Rest, h))
    BY <2>1, <2>2, FocusEventAside
  <2>4. Keeps(FocusEvent(Rest, h))
    BY <2>2, <2>3, AsideKeeps
  <2> QED BY <1>7, <2>4 DEF FocusNotify
<1>8. ASSUME EnterNotify PROVE Keeps(sys')
  <2>1. sys.queue # <<>> /\ h.type = "Enter"
    BY <1>8 DEF EnterNotify, Receive
  <2> HIDE DEF h
  <2>2. /\ Keeps(Rest) /\ Reads(sys, Rest, Event("Enter", Win)) /\ Win \in Windows
        /\ Managed(Rest) = Managed(sys)
    BY <1>2, <2>1
  <2>3. Win \in Managed(Rest) =>
          All(Focus(Rest, Win), app, calm) /\ Managed(Focus(Rest, Win)) = Managed(Rest)
    BY <1>1, <2>2, EnterAll
  <2>4. Win \in Managed(sys) => Keeps(Focus(Rest, Win))
    BY <2>2, <2>3 DEF Keeps
  <2> QED BY <1>8, <2>2, <2>4 DEF EnterNotify
<1> QED BY <1>3, <1>4, <1>5, <1>6, <1>7, <1>8

LEMMA InitInv == Init => Inv
<1> SUFFICES ASSUME Init PROVE Inv
  OBVIOUS
<1> DEFINE no == [w \in Windows |-> FALSE]
<1>1. no \in [Windows -> BOOLEAN] /\ [w \in Windows |-> TRUE] \in [Windows -> BOOLEAN]
  OBVIOUS
<1>2. First \in Views
  BY WindowsAssumption
<1>3. sys \in Sys
  BY <1>1, <1>2 DEF Init, Sys, Ends
<1>4. /\ sys.queue = <<>> /\ sys.client = <<>> /\ sys.up = no
      /\ \A w \in Windows : sys.exists[w] = TRUE
  BY DEF Init
<1>5. Managed(sys) = {} /\ \A a, b : ~In(sys.queue, a) /\ ~Before(sys.queue, a, b)
  BY <1>4 DEF Managed, ToSet, In, Before
<1>6. \A w \in Windows : Owed(sys, app, w) /\ Good(sys, app, w)
  <2>1. \A w \in Windows : ~sys.up[w] /\ sys.exists[w]
    BY <1>4
  <2> QED BY <2>1, <1>5 DEF Owed, Good, Lasting, Shows, Hides, Has, Ahead
<1>7. Waits(sys, calm)
  BY <1>5 DEF Waits, Entering, OneEnter, Clear, Hides, Has
<1>8. app \in [Windows -> {"withdrawn", "mapped", "unmapping"}] /\ calm \in BOOLEAN
  BY DEF Init
<1> QED BY <1>3, <1>6, <1>7, <1>8 DEF Inv, All

(* What a step keeps: the invariant, and the clients nobody withdrew.      *)
Kept == \A w \in Managed(sys) \ Managed(sys') : Withdrawn(w)

LEMMA DispatchStep == Inv /\ Dispatch => Inv' /\ Kept
<1> SUFFICES ASSUME Inv, Dispatch PROVE Inv' /\ Kept
  OBVIOUS
<1>1. Keeps(sys')
  BY MapRequestKeeps, ReadKeeps DEF Dispatch
<1>2. app' = app /\ calm \in BOOLEAN
  BY DEF Dispatch, Inv
<1>3. calm' \in BOOLEAN /\ (calm' <=> calm \/ sys'.queue = <<>>)
  BY <1>2 DEF Dispatch
<1>4. All(sys', app, calm')
  BY <1>1, <1>2, <1>3, EmptyAll DEF Keeps
<1>5. Inv'
  BY <1>2, <1>3, <1>4 DEF Inv
<1> QED BY <1>1, <1>5 DEF Keeps, Kept

LEMMA UserStep ==
  ASSUME Inv
  PROVE  /\ \A v \in Views : ViewSelect(v) => Inv' /\ Kept
         /\ \A w \in Windows : Enter(w) => Inv' /\ Kept
<1>1. sys \in Sys /\ All(sys, app, calm) /\ calm \in BOOLEAN
  BY DEF Inv, All
<1>2. ASSUME NEW v \in Views, ViewSelect(v) PROVE Inv' /\ Kept
  <2>1. Patient => Clear(sys) /\ ~Entering(sys)
    BY <1>1, <1>2 DEF ViewSelect, All, Waits
  <2>2. All(ViewFocus(sys, v), app, FALSE)
    BY <1>1, <2>1, SelectAll
  <2>3. /\ app' = app /\ sys' = ViewFocus(sys, v) /\ calm' \in BOOLEAN
        /\ calm' <=> sys'.queue = <<>>
    BY <1>2 DEF ViewSelect
  <2> DEFINE no == FALSE
  <2>4. no \in BOOLEAN /\ (calm' <=> no \/ sys'.queue = <<>>) /\ All(sys', app, no)
    BY <2>2, <2>3
  <2> HIDE DEF no
  <2>5. All(sys', app, calm')
    BY <2>3, <2>4, EmptyAll
  <2>6. Managed(sys') = Managed(sys)
    <3> DEFINE b == [sys EXCEPT !.selview = v]
    <3>1. b \in Sys /\ Managed(b) = Managed(sys)
      BY <1>1 DEF Sys, Managed
    <3>2. sys' = ViewUpdate(b)
      BY <2>3 DEF ViewFocus
    <3> HIDE DEF b
    <3> QED BY <3>1, <3>2, SameManaged
  <2>7. Inv'
    BY <2>3, <2>5 DEF Inv
  <2> QED BY <2>6, <2>7 DEF Kept
<1>3. ASSUME NEW w \in Windows, Enter(w) PROVE Inv' /\ Kept
  <2>1. Patient => calm
    BY <1>3 DEF Enter
  <2>2. All(Push(sys, "Enter", w), app, FALSE)
    BY <1>1, <2>1, PointerAll
  <2>3. app' = app /\ sys' = Push(sys, "Enter", w) /\ calm' = FALSE
    BY <1>3 DEF Enter
  <2>4. Managed(sys') = Managed(sys)
    BY <1>1, <2>3 DEF Push, Sys, Managed
  <2>5. Inv'
    BY <2>2, <2>3 DEF Inv
  <2> QED BY <2>4, <2>5 DEF Kept
<1> QED BY <1>2, <1>3

LEMMA AppStep ==
  ASSUME Inv, NEW w \in Windows
  PROVE  /\ AppMap(w) => Inv' /\ Kept
         /\ AppUnmap(w) => Inv' /\ Kept
         /\ AppWithdraw(w) => Inv' /\ Kept
         /\ AppDestroy(w) => Inv' /\ Kept
         /\ AppTakeFocus(w) => Inv' /\ Kept
<1>1. /\ sys \in Sys /\ All(sys, app, calm) /\ calm \in BOOLEAN
      /\ app \in [Windows -> {"withdrawn", "mapped", "unmapping"}]
  BY DEF Inv, All
<1>2. \A x : Event(x, w) \in ToSet(sys.queue) <=> Has(sys, x, w)
  BY <1>1, FieldsOf, InSet DEF Has
<1>3. ASSUME NEW a \in {"withdrawn", "mapped", "unmapping"},
             app' = [app EXCEPT ![w] = a], calm' = calm,
             All(sys', app', calm), Managed(sys) \subseteq Managed(sys')
      PROVE  Inv' /\ Kept
  <2>1. app' \in [Windows -> {"withdrawn", "mapped", "unmapping"}]
    BY <1>1, <1>3
  <2> QED BY <1>1, <1>3, <2>1 DEF Inv, Kept
<1>4. ASSUME AppMap(w) PROVE Inv' /\ Kept
  <2>1. /\ w \in Windows \ Managed(sys) /\ sys.exists[w] /\ ~sys.up[w]
        /\ ~Has(sys, "SentUnmap", w)
        /\ app' = [app EXCEPT ![w] = "mapped"] /\ calm' = calm
        /\ sys' = Push(sys, "MapRequest", w)
    BY <1>2, <1>4 DEF AppMap
  <2>2. app'[w] = "mapped" /\ \A x \in Windows \ {w} : app'[x] = app[x]
    BY <1>1, <2>1
  <2>3. All(sys', app', calm)
    BY <1>1, <2>1, <2>2, AppMapAll
  <2>4. Managed(sys') = Managed(sys)
    BY <1>1, <2>1 DEF Push, Sys, Managed
  <2> QED BY <1>3, <2>1, <2>3, <2>4
<1>5. ASSUME AppUnmap(w) PROVE Inv' /\ Kept
  <2>1. /\ app[w] = "mapped" /\ app' = [app EXCEPT ![w] = "unmapping"] /\ calm' = calm
        /\ sys' = IF ~sys.up[w] THEN sys
                  ELSE Revert(Push([sys EXCEPT !.up[w] = FALSE], "Unmap", w))
    BY <1>5 DEF AppUnmap
  <2>2. app'[w] = "unmapping" /\ \A x \in Windows \ {w} : app'[x] = app[x]
    BY <1>1, <2>1
  <2>3. CASE ~sys.up[w]
    <3>1. sys' = sys
      BY <2>1, <2>3
    <3>2. All(sys, app', calm)
      BY <1>1, <2>1, <2>2, AppUnmapDownAll
    <3> QED BY <1>3, <2>1, <3>1, <3>2
  <2>4. CASE sys.up[w]
    <3> DEFINE m == [sys EXCEPT !.up[w] = FALSE]
               p == Push(m, "Unmap", w)
    <3>1. sys' = Revert(p)
      BY <2>1, <2>4
    <3>2. All(Revert(p), app', calm)
      BY <1>1, <2>1, <2>2, <2>4, AppUnmapUpAll
    <3>3. m \in Sys /\ Managed(m) = Managed(sys)
      BY <1>1 DEF Sys, Managed
    <3> HIDE DEF m
    <3>4. p \in Sys /\ SameShow(m, p)
      BY <3>3, PushDoes, WatchedEvents
    <3> HIDE DEF p
    <3>5. Managed(Revert(p)) = Managed(p)
      BY <3>4, RevertAside, SameManaged
    <3>6. Managed(sys') = Managed(sys)
      BY <3>1, <3>3, <3>4, <3>5 DEF SameShow, Managed
    <3> QED BY <1>3, <2>1, <3>1, <3>2, <3>6
  <2> QED BY <2>3, <2>4
<1>6. ASSUME AppWithdraw(w) PROVE Inv' /\ Kept
  <2>1. /\ app' = [app EXCEPT ![w] = "withdrawn"] /\ calm' = calm
        /\ sys' = Push(sys, "SentUnmap", w)
    BY <1>6 DEF AppWithdraw
  <2>2. app'[w] = "withdrawn" /\ \A x \in Windows \ {w} : app'[x] = app[x]
    BY <1>1, <2>1
  <2>3. All(sys', app', calm)
    BY <1>1, <2>1, <2>2, AppWithdrawAll
  <2>4. Managed(sys') = Managed(sys)
    BY <1>1, <2>1 DEF Push, Sys, Managed
  <2> QED BY <1>3, <2>1, <2>3, <2>4
<1>7. ASSUME AppDestroy(w) PROVE Inv' /\ Kept
  <2> DEFINE gone == [sys EXCEPT !.exists[w] = FALSE, !.up[w] = FALSE]
             p == IF sys.up[w] THEN Push(gone, "Unmap", w) ELSE gone
             r == Revert(p)
  <2>1. /\ app' = [app EXCEPT ![w] = "withdrawn"] /\ calm' = calm
        /\ sys' = Push(r, "Destroy", w)
    BY <1>7 DEF AppDestroy
  <2>2. app'[w] = "withdrawn" /\ \A x \in Windows \ {w} : app'[x] = app[x]
    BY <1>1, <2>1
  <2>3. All(Push(r, "Destroy", w), app', calm)
    BY <1>1, <2>2, AppDestroyAll
  <2>4. gone \in Sys /\ Managed(gone) = Managed(sys)
    BY <1>1 DEF Sys, Managed
  <2> HIDE DEF gone
  <2>5. p \in Sys /\ Managed(p) = Managed(gone)
    <3>1. Push(gone, "Unmap", w) \in Sys /\ SameShow(gone, Push(gone, "Unmap", w))
      BY <2>4, PushDoes, WatchedEvents
    <3> QED BY <2>4, <3>1 DEF SameShow, Managed
  <2> HIDE DEF p
  <2>6. r \in Sys /\ Managed(r) = Managed(p)
    BY <2>5, RevertAside, SameManaged DEF Aside
  <2> HIDE DEF r
  <2>7. Managed(sys') = Managed(r)
    BY <2>1, <2>6 DEF Push, Sys, Managed
  <2> QED BY <1>3, <2>1, <2>3, <2>4, <2>5, <2>6, <2>7
<1>8. ASSUME AppTakeFocus(w) PROVE Inv' /\ Kept
  <2> DEFINE a == sys.asked \ {w}
             m == [sys EXCEPT !.asked = a]
  <2>1. app' = app /\ calm' = calm /\ sys' = SetFocus(m, w)
    BY <1>8 DEF AppTakeFocus
  <2>2. a \in SUBSET TakeFocus
    BY <1>1, FieldsOf
  <2> HIDE DEF a
  <2>3. Aside(sys, m)
    BY <1>1, <2>2, AsideNote, FieldsOf
  <2> HIDE DEF m
  <2>4. Aside(m, SetFocus(m, w)) /\ m \in Sys
    BY <2>3, SetFocusAside DEF Aside, Ends
  <2>5. Aside(sys, SetFocus(m, w))
    BY <2>3, <2>4, AsideTrans
  <2>6. All(sys', app, calm) /\ Managed(sys') = Managed(sys)
    BY <1>1, <2>1, <2>5, AsideAll, SameManaged
  <2> QED BY <1>1, <2>1, <2>6 DEF Inv, Kept
<1> QED BY <1>4, <1>5, <1>6, <1>7, <1>8

LEMMA Step == Inv /\ [Next]_vars => Inv' /\ Kept
<1> SUFFICES ASSUME Inv, [Next]_vars PROVE Inv' /\ Kept
  OBVIOUS
<1>1. CASE UNCHANGED vars
  BY <1>1 DEF vars, Inv, Kept, Managed
<1>2. CASE Next
  BY <1>2, DispatchStep, UserStep, AppStep DEF Next
<1> QED BY <1>1, <1>2
-----------------------------------------------------------------------------
(* The record of the screen, the programs and the queue of events fit      *)
(* together at every moment: a client of another view is hidden, one of    *)
(* the selected view is mapped or an event that says why not is under way, *)
(* whatever the order in which programs, server and wmii get to act.       *)
THEOREM Invariance == Spec => []Inv
<1>1. Inv /\ [Next]_vars => Inv'
  BY Step
<1> QED BY InitInv, <1>1, PTL DEF Spec

(* A client is let go only when its program has withdrawn its window or    *)
(* the window is gone: the unmaps that view_update makes are not taken for *)
(* the program's own, in whatever order they are read.                     *)
THEOREM KeptUntilAsked == Spec => KeptUntilWithdrawn
<1>1. Inv /\ [Next]_vars => [\A w \in Managed(sys) \ Managed(sys)' : Withdrawn(w)]_vars
  <2>1. Inv /\ [Next]_vars => Kept
    BY Step
  <2> QED BY <2>1 DEF Kept, Managed
<1>2. Spec => []Inv
  BY Invariance
<1> QED BY <1>1, <1>2, PTL DEF Spec, KeptUntilWithdrawn

LEMMA InvShown == Patient /\ Inv => Shown
<1> SUFFICES ASSUME Patient, Inv, Quiet, NEW w \in Windows, sys.exists[w]
             PROVE  Viewable(sys, w) <=> w \in Managed(sys) /\ sys.view[w] = sys.selview
  BY DEF Shown
<1>1. Good(sys, app, w) /\ app[w] \in {"withdrawn", "mapped", "unmapping"}
  BY DEF Inv, All
<1>2. app[w] # "unmapping" /\ \A x : ~Has(sys, x, w)
  BY DEF Quiet, Has, In
<1>3. ASSUME Viewable(sys, w) PROVE Shows(sys, w)
  <2>1. sys.up[w] /\ w \in Managed(sys) /\ sys.frame[w]
    BY <1>1, <1>3 DEF Good, Lasting, Viewable
  <2> QED BY <2>1, <1>1 DEF Good, Shows, Hides
<1>4. ASSUME Shows(sys, w) PROVE Viewable(sys, w)
  <2>1. sys.frame[w] /\ Heeded(sys, app, w) /\ (~sys.mapped[w] => app[w] # "mapped")
    BY <1>1, <1>4 DEF Good
  <2>2. app[w] # "withdrawn"
    BY <1>1, <1>2, <1>4 DEF Good, Lasting, Shows
  <2>3. sys.mapped[w]
    BY <1>1, <1>2, <2>1, <2>2
  <2>4. sys.up[w]
    BY <1>2, <2>1, <2>3 DEF Heeded
  <2> QED BY <2>1, <2>4 DEF Viewable
<1> QED BY <1>3, <1>4 DEF Shows

(* When nothing is under way, the screen shows the clients of the selected *)
(* view and nothing else, if the user lets one change of view come to rest *)
(* before the next.                                                        *)
THEOREM ScreenShowsView == ASSUME Patient PROVE Spec => []Shown
<1>1. Inv => Shown
  BY InvShown
<1>2. Spec => []Inv
  BY Invariance
<1> QED BY <1>1, <1>2, PTL

-----------------------------------------------------------------------------
(* What wmii believes of the focus.                                        *)

Takers == Windows \ NoInput
HasFocus(s, c) == s.focus = c /\ ~s.onFrame
Came(x) == Event("FocusIn", x)
Went(x) == Event("FocusOut", x)

(* The last word of q is not that the bar has the focus.                   *)
Turned(q) == \E x \in Windows \cup {"none"} : After(q, Came(x), Came("bar"))

Sources == Windows \cup {"bar", "none"}
Pending(q) == \E x \in Sources : In(q, Came(x))

(* q is what is still to be read about the focus.  A client in the memory  *)
(* of another may be believed to have what no window has.                  *)
Knows(s, q, c) ==
  /\ In(q, Came(c)) => HasFocus(s, c)
  /\ s.dfocus = c => /\ c \in Managed(s)
                     /\ \/ HasFocus(s, c) \/ In(q, Went(c))
                        \/ Reuse /\ (s.focus \notin Windows \/ Pending(q))

(* The last word of q is that of the window with the focus, and what wmii  *)
(* believes of another window is over when no window has it.               *)
Tracks(s, q) ==
  /\ s.dfocus \in Windows \cup {"freed"} =>
       s.focus = s.dfocus \/ s.focus \notin Windows \/ Pending(q)
  /\ s.focus \in Windows /\ Pending(q) =>
       \A x \in Sources \ {s.focus} : After(q, Came(s.focus), Came(x))

Lively(s, q, X) ==
  /\ \A c \in Takers \ X : Knows(s, q, c)
  /\ In(q, Came("none")) => s.focus \notin Takers
  /\ s.focus = "bar" \/ (s.dfocus # "nil" /\ ~In(q, Came("bar"))) \/ Turned(q)
  /\ \A x \in Windows : In(q, Came(x)) => x \in Managed(s)
  /\ Tracks(s, q)

(* Between two handlers.  The clients in X are about to be forgotten.      *)
Believes(s, X) ==
  /\ Lively(s, s.queue, X)
  /\ \A c \in Takers : ~In(s.queue, Came(c))
  /\ \A w \in Windows, x \in {"SentUnmap", "Destroy"} : ~Before(s.queue, Event(x, w), Came(w))

(* When all of it has been read.                                           *)
Current(s, X) ==
  /\ Lively(s, <<>>, X)
  /\ \A x : In(s.queue, Came(x)) => x = "bar" /\ s.focus = "bar"
  /\ \A e : IsFocus(e) /\ In(s.queue, e) => s.dfocus \notin Takers \ X

LEMMA Apart ==
  /\ "bar" \notin Windows /\ "root" \notin Windows /\ "none" \notin Windows
  /\ "nil" \notin Windows /\ "magic" \notin Windows /\ "freed" \notin Windows
  /\ TakeFocus \subseteq NoInput /\ NoInput \subseteq Windows
  BY WindowsAssumption

LEMMA FocusTypes ==
  /\ \A x : Came(x).type = "FocusIn" /\ Came(x).win = x /\ IsFocus(Came(x))
  /\ \A x : Went(x).type = "FocusOut" /\ Went(x).win = x /\ IsFocus(Went(x))
  /\ \A x, y : Came(x) # Went(y) /\ (Came(x) = Came(y) <=> x = y) /\ (Went(x) = Went(y) <=> x = y)
  /\ \A e \in Events : IsFocus(e) => e = Came(e.win) \/ e = Went(e.win)
<1>1. \A e \in Events : IsFocus(e) => e = Came(e.win) \/ e = Went(e.win)
  BY DEF Events, Watched, Others, IsFocus, Came, Went, Event
<1> QED BY <1>1 DEF Came, Went, Event, IsFocus

LEMMA Nothing ==
  /\ \A a : ~In(<<>>, a)
  /\ \A a, b : ~Before(<<>>, a, b) /\ ~After(<<>>, a, b)
  /\ ~Pending(<<>>)
  BY DEF In, Before, After, Pending

LEMMA CurrentBelieves ==
  ASSUME NEW s, NEW X, Current(s, X)
  PROVE  Believes(s, X)
<1>1. \A x \in Windows \cup {"none"} : ~In(s.queue, Came(x))
  BY Apart DEF Current
<1>2. \A w \in Windows : \A x : ~Before(s.queue, x, Came(w))
  BY <1>1 DEF In, Before
<1>3. \A c \in Takers \ X : Knows(s, s.queue, c)
  BY <1>1, Nothing DEF Current, Lively, Knows, Takers
<1>4. s.focus = "bar" \/ (s.dfocus # "nil" /\ ~In(s.queue, Came("bar")))
  BY Nothing DEF Current, Lively, Turned
<1>5. Tracks(s, s.queue)
  <2>1. Pending(s.queue) => s.focus \notin Windows
    BY Apart DEF Pending, Current
  <2> QED BY <2>1, Nothing DEF Current, Lively, Tracks
<1> QED BY <1>1, <1>2, <1>3, <1>4, <1>5 DEF Believes, Lively, Takers

-----------------------------------------------------------------------------
(* One event about the focus, read.                                        *)

Minds(s, t, X) ==
  /\ t.client = s.client /\ t.sel = s.sel
  /\ \/ /\ t.focus = s.focus /\ t.onFrame = s.onFrame /\ t.queue = s.queue
        /\ t.dfocus \in Takers \ X => t.dfocus = s.dfocus \/ t.focus = t.dfocus
     \/ /\ t.focus = "bar" /\ s.focus \notin Takers /\ t.dfocus \notin Takers \ X
        /\ \A e : In(s.queue, e) => In(t.queue, e)
        /\ \A x : In(t.queue, Came(x)) => x = "bar" \/ In(s.queue, Came(x))
        /\ \A a, x : Before(t.queue, a, Came(x)) => x = "bar" \/ Before(s.queue, a, Came(x))

LEMMA MindsTrans ==
  ASSUME NEW s, NEW t, NEW u, NEW X, Minds(s, t, X), Minds(t, u, X)
  PROVE  Minds(s, u, X)
<1>1. "bar" \notin Takers
  BY Apart DEF Takers
<1>2. CASE t.focus = s.focus /\ t.onFrame = s.onFrame /\ t.queue = s.queue
           /\ (t.dfocus \in Takers \ X => t.dfocus = s.dfocus \/ t.focus = t.dfocus)
  BY <1>2 DEF Minds
<1>3. CASE ~(t.focus = s.focus /\ t.onFrame = s.onFrame /\ t.queue = s.queue
             /\ (t.dfocus \in Takers \ X => t.dfocus = s.dfocus \/ t.focus = t.dfocus))
  BY <1>1, <1>3 DEF Minds
<1> QED BY <1>2, <1>3

LEMMA FocusToDoes ==
  ASSUME NEW s \in Sys, NEW x \in Ends
  PROVE  LET t == FocusTo(s, x)
             old == s.focus \in Windows /\ ~s.onFrame
         IN  /\ t.client = s.client /\ t.sel = s.sel /\ t.dfocus = s.dfocus
             /\ t.focus = x /\ ~t.onFrame
             /\ \A e : In(t.queue, e) <=> \/ In(s.queue, e)
                                          \/ old /\ e = Went(s.focus)
                                          \/ x # "root" /\ e = Came(x)
             /\ \A a, y : Before(t.queue, a, Came(y))
                            => Before(s.queue, a, Came(y)) \/ (y = x /\ In(t.queue, a))
             /\ x # "bar" /\ Turned(s.queue) => Turned(t.queue)
             /\ x \in Windows \cup {"none"} => Turned(t.queue)
             /\ x # "root" => \A b : After(t.queue, Came(x), b)
<1> DEFINE t == FocusTo(s, x)
           old == s.focus \in Windows /\ ~s.onFrame
           out == IF old THEN <<Went(s.focus)>> ELSE <<>>
           in == IF x = "root" THEN <<>> ELSE <<Came(x)>>
           q == s.queue \o out
           r == q \o in
<1>1. s.queue \in Seq(Events)
  BY FieldsOf
<1>2. /\ q \in Seq(Events)
      /\ \A e : In(q, e) <=> In(s.queue, e) \/ (old /\ e = Went(s.focus))
      /\ \A a, y : Before(q, a, Came(y)) => Before(s.queue, a, Came(y))
      /\ \A a, y : After(s.queue, a, Came(y)) => After(q, a, Came(y))
  <2>1. CASE old
    <3>1. Went(s.focus) \in Events
      BY <2>1, FocusEvents DEF Went, Events
    <3>2. q = Append(s.queue, Went(s.focus))
      BY <2>1, <3>1, <1>1, CatOne
    <3> HIDE DEF q
    <3> DEFINE e == Went(s.focus)
    <3>3. \A y : Came(y) # e
      BY FocusTypes
    <3> HIDE DEF e
    <3>4. e \in Events /\ q = Append(s.queue, e)
      BY <3>1, <3>2 DEF e
    <3>5. /\ q \in Seq(Events)
          /\ \A a : In(q, a) <=> In(s.queue, a) \/ a = e
          /\ \A a, b : Before(q, a, b) <=> Before(s.queue, a, b) \/ (In(s.queue, a) /\ b = e)
      BY <1>1, <3>4, InAppend
    <3>6. \A a, b : After(s.queue, a, b) /\ e # b => After(q, a, b)
      BY <1>1, <3>4, AfterAppend
    <3> QED BY <2>1, <3>3, <3>5, <3>6 DEF e
  <2>2. CASE ~old
    <3>1. out = <<>>
      BY <2>2
    <3> HIDE DEF out
    <3>2. q = s.queue
      BY <3>1, <1>1, CatOne
    <3> HIDE DEF q
    <3> QED BY <1>1, <2>2, <3>2
  <2> QED BY <2>1, <2>2
<1> HIDE DEF q
<1>3. /\ \A e : In(r, e) <=> In(q, e) \/ (x # "root" /\ e = Came(x))
      /\ \A a, y : Before(r, a, Came(y)) => Before(q, a, Came(y)) \/ (y = x /\ In(q, a))
      /\ \A a, y : After(q, a, Came(y)) /\ y # x => After(r, a, Came(y))
      /\ x # "root" => \A b : After(r, Came(x), b)
  <2>1. CASE x # "root"
    <3> DEFINE e == Came(x)
    <3>1. e \in Events
      BY <2>1, FocusEvents DEF Events, Ends, Came
    <3>2. \A y : Came(y) = e <=> y = x
      BY FocusTypes
    <3>3. r = Append(q, e)
      BY <1>2, <2>1, <3>1, CatOne
    <3> HIDE DEF r, e
    <3>4. /\ \A a : In(r, a) <=> In(q, a) \/ a = e
          /\ \A a, b : Before(r, a, b) <=> Before(q, a, b) \/ (In(q, a) /\ b = e)
      BY <1>2, <3>1, <3>3, InAppend
    <3>5. \A a, b : (After(q, a, b) /\ e # b) \/ e = a => After(r, a, b)
      BY <1>2, <3>1, <3>3, AfterAppend
    <3>6. e = Came(x)
      BY DEF e
    <3> QED BY <2>1, <3>2, <3>4, <3>5, <3>6
  <2>2. CASE x = "root"
    <3>1. r = q
      BY <1>2, <2>2, CatOne
    <3> HIDE DEF r
    <3> QED BY <2>2, <3>1
  <2> QED BY <2>1, <2>2
<1> HIDE DEF r
<1>4. t = [s EXCEPT !.focus = x, !.onFrame = FALSE, !.queue = r]
  <2>1. t = [s EXCEPT !.focus = x, !.onFrame = FALSE, !.queue = s.queue \o out \o in]
    BY DEF FocusTo, Sys, Came, Went
  <2> QED BY <2>1 DEF r, q
<1>5. /\ t.client = s.client /\ t.sel = s.sel /\ t.dfocus = s.dfocus
      /\ t.focus = x /\ ~t.onFrame /\ t.queue = r
  BY <1>4 DEF Sys
<1> HIDE DEF t
<1>6. x # "bar" /\ Turned(s.queue) => Turned(t.queue)
  BY <1>2, <1>3, <1>5 DEF Turned
<1>7. x \in Windows \cup {"none"} => Turned(t.queue)
  BY <1>3, <1>5, Apart DEF Turned
<1>8. \A e : In(t.queue, e) <=> \/ In(s.queue, e)
                                \/ old /\ e = Went(s.focus)
                                \/ x # "root" /\ e = Came(x)
  BY <1>2, <1>3, <1>5
<1>9. \A a, y : Before(t.queue, a, Came(y))
                  => Before(s.queue, a, Came(y)) \/ (y = x /\ In(t.queue, a))
  BY <1>2, <1>3, <1>5
<1>10. x # "root" => \A b : After(t.queue, Came(x), b)
  BY <1>3, <1>5
<1> QED BY <1>5, <1>6, <1>7, <1>8, <1>9, <1>10 DEF t

LEMMA SetBar ==
  ASSUME NEW s \in Sys
  PROVE  LET t == SetFocus(s, "bar")
         IN  /\ t.client = s.client /\ t.sel = s.sel /\ t.dfocus = s.dfocus
             /\ t.focus = "bar" /\ ~t.onFrame
             /\ \A e : In(s.queue, e) => In(t.queue, e)
             /\ \A x : In(t.queue, Came(x)) => In(s.queue, Came(x)) \/ x = "bar"
             /\ \A a, x : Before(t.queue, a, Came(x)) => x = "bar" \/ Before(s.queue, a, Came(x))
             /\ \A c \in Windows : HasFocus(s, c) => In(t.queue, Went(c))
<1> DEFINE u == IF HasFocus(s, "bar") THEN s ELSE FocusTo(s, "bar")
           t == SetFocus(s, "bar")
<1>1. t = [u EXCEPT !.asked = {}]
  BY Apart DEF SetFocus, HasFocus
<1>2. /\ u.client = s.client /\ u.sel = s.sel /\ u.dfocus = s.dfocus
      /\ u.focus = "bar" /\ ~u.onFrame
      /\ \A e : In(s.queue, e) => In(u.queue, e)
      /\ \A x : In(u.queue, Came(x)) => In(s.queue, Came(x)) \/ x = "bar"
      /\ \A a, x : Before(u.queue, a, Came(x)) => x = "bar" \/ Before(s.queue, a, Came(x))
      /\ \A c \in Windows : HasFocus(s, c) => In(u.queue, Went(c))
  <2>1. CASE HasFocus(s, "bar")
    BY <2>1, Apart DEF HasFocus
  <2>2. CASE ~HasFocus(s, "bar")
    <3>1. u = FocusTo(s, "bar") /\ "bar" \in Ends
      BY <2>2 DEF Ends
    <3> HIDE DEF u
    <3>2. /\ u.client = s.client /\ u.sel = s.sel /\ u.dfocus = s.dfocus
          /\ u.focus = "bar" /\ ~u.onFrame
          /\ \A e : In(u.queue, e) <=> \/ In(s.queue, e)
                                       \/ (s.focus \in Windows /\ ~s.onFrame) /\ e = Went(s.focus)
                                       \/ e = Came("bar")
          /\ \A a, y : Before(u.queue, a, Came(y))
                         => Before(s.queue, a, Came(y)) \/ (y = "bar" /\ In(u.queue, a))
      BY <3>1, FocusToDoes
    <3>3. \A x : In(u.queue, Came(x)) => In(s.queue, Came(x)) \/ x = "bar"
      BY <3>2, FocusTypes
    <3>4. \A c \in Windows : HasFocus(s, c) => In(u.queue, Went(c))
      BY <3>2 DEF HasFocus
    <3> QED BY <3>2, <3>3, <3>4
  <2> QED BY <2>1, <2>2
<1>3. u \in Sys
  <2>1. Aside(s, FocusTo(s, "bar"))
    BY FocusToAside DEF Ends
  <2> QED BY <2>1 DEF Aside
<1> HIDE DEF u
<1>4. /\ t.client = u.client /\ t.sel = u.sel /\ t.dfocus = u.dfocus
      /\ t.focus = u.focus /\ t.onFrame = u.onFrame /\ t.queue = u.queue
  BY <1>1, <1>3 DEF Sys
<1> HIDE DEF t
<1> QED BY <1>2, <1>4 DEF t

(* The window with the focus keeps the last word of what is left of P.     *)
LEMMA TracksTail ==
  ASSUME NEW s, NEW P \in Seq(Events), P # <<>>, Tracks(s, P)
  PROVE  /\ s.focus \in Windows /\ Pending(Tail(P)) =>
              \A x \in Sources \ {s.focus} : After(Tail(P), Came(s.focus), Came(x))
         /\ \A y \in Sources : Head(P) = Came(y) /\ s.focus \in Windows /\ y # s.focus
                               => Pending(Tail(P))
         /\ (\A y : Came(y) # Head(P)) /\ Pending(P) => Pending(Tail(P))
<1> DEFINE r == Tail(P)
           e == Head(P)
           f == s.focus
<1>1. \A a : In(P, a) <=> a = e \/ In(r, a)
  BY InTail
<1>2. \A x : After(P, Came(f), Came(x)) =>
           After(r, Came(f), Came(x)) \/ (e = Came(f) /\ ~In(r, Came(x)))
  BY AfterTail
<1>3. Pending(P) /\ f \in Windows => \A x \in Sources \ {f} : After(P, Came(f), Came(x))
  BY DEF Tracks
<1>4. \A x : After(r, Came(f), Came(x)) => In(r, Came(f))
  BY DEF After, In
<1>5. \A x : In(r, Came(f)) /\ ~In(r, Came(x)) => After(r, Came(f), Came(x))
  <2> SUFFICES ASSUME NEW x, In(r, Came(f)), ~In(r, Came(x)) PROVE After(r, Came(f), Came(x))
    OBVIOUS
  <2>1. PICK i \in 1 .. Len(r) : r[i] = Came(f)
    BY DEF In
  <2>2. \A j \in 1 .. Len(r) : r[j] # Came(x)
    BY DEF In
  <2>3. Len(r) \in Nat
    BY InTail
  <2>4. \A j \in i + 1 .. Len(r) : j \in 1 .. Len(r)
    BY <2>3
  <2> QED BY <2>1, <2>2, <2>4 DEF After
<1> HIDE DEF r, e, f
<1>6. ASSUME f \in Windows, Pending(r), NEW x \in Sources \ {f} PROVE After(r, Came(f), Came(x))
  <2>1. Pending(P)
    BY <1>1, <1>6 DEF Pending
  <2>2. In(r, Came(f))
    BY <1>2, <1>3, <1>4, <1>6, <2>1 DEF Pending
  <2> QED BY <1>2, <1>3, <1>5, <1>6, <2>1, <2>2
<1>7. ASSUME NEW y \in Sources, e = Came(y), f \in Windows, y # f PROVE Pending(r)
  <2>1. Pending(P) /\ Came(y) # Came(f)
    BY <1>1, <1>7, FocusTypes DEF Pending
  <2>2. After(r, Came(f), Came(y))
    BY <1>2, <1>3, <1>7, <2>1
  <2> QED BY <1>4, <1>7, <2>2 DEF Pending, Sources
<1>8. (\A y : Came(y) # e) /\ Pending(P) => Pending(r)
  BY <1>1 DEF Pending
<1> QED BY <1>6, <1>7, <1>8 DEF r, e, f

LEMMA TailLively ==
  ASSUME NEW s \in Sys, NEW P \in Seq(Events), P # <<>>, NEW X,
         Lively(s, P, X), ~IsFocus(Head(P))
  PROVE  Lively(s, Tail(P), X)
<1>1. \A a : In(P, a) <=> a = Head(P) \/ In(Tail(P), a)
  BY InTail
<1>2. \A x : Came(x) # Head(P) /\ Went(x) # Head(P)
  BY FocusTypes
<1>3. Turned(P) => Turned(Tail(P))
  BY <1>2, AfterTail DEF Turned
<1>4. Pending(P) => Pending(Tail(P))
  BY <1>2, TracksTail DEF Lively
<1>5. Tracks(s, Tail(P))
  BY <1>4, TracksTail DEF Lively, Tracks
<1> QED BY <1>1, <1>2, <1>3, <1>4, <1>5 DEF Lively, Knows

LEMMA EventLively ==
  ASSUME NEW s \in Sys, NEW P \in Seq(Events), P # <<>>, NEW X,
         Lively(s, P, X), IsFocus(Head(P))
  PROVE  Lively(FocusEvent(s, Head(P)), Tail(P), X) /\ Minds(s, FocusEvent(s, Head(P)), X)
<1> DEFINE e == Head(P)
           r == Tail(P)
           t == FocusEvent(s, e)
<1>1. e \in Events /\ \A a : In(P, a) <=> a = e \/ In(r, a)
  BY InTail
<1>2. \A x : Came(x) # e /\ Turned(P) => \/ Turned(r)
                                         \/ \E y \in Windows \cup {"none"} : e = Came(y) /\ ~In(r, Came("bar"))
  BY AfterTail DEF Turned
<1>3. e = Came(e.win) \/ e = Went(e.win)
  BY <1>1, FocusTypes
<1>4. e.win \in Windows \cup {"bar", "none"}
  BY <1>1 DEF Events, Watched, Others, IsFocus
<1>5. Turned(P) => \/ Turned(r)
                   \/ \E y \in Windows \cup {"none"} : e = Came(y) /\ ~In(r, Came("bar"))
  BY AfterTail DEF Turned
<1>51. /\ s.focus \in Windows /\ Pending(r) =>
            \A x \in Sources \ {s.focus} : After(r, Came(s.focus), Came(x))
       /\ \A y \in Sources : e = Came(y) /\ s.focus \in Windows /\ y # s.focus => Pending(r)
       /\ (\A y : Came(y) # e) /\ Pending(P) => Pending(r)
  BY TracksTail DEF Lively
<1> HIDE DEF e, r
<1>6. \A d \in Windows \cup {"nil", "magic", "freed"} :
        LET u == [s EXCEPT !.dfocus = d]
        IN  /\ u \in Sys /\ Managed(u) = Managed(s) /\ u.dfocus = d
            /\ (d \in Takers \ X => d = s.focus) => Minds(s, u, X)
            /\ \A c : HasFocus(u, c) <=> HasFocus(s, c)
            /\ u.focus = s.focus /\ u.queue = s.queue
  BY DEF Sys, Managed, Minds, HasFocus
<1>7. CASE e = Came("none")
  <2> DEFINE u == [s EXCEPT !.dfocus = "magic"]
  <2>1. t = SetFocus(u, "bar")
    BY <1>7, FocusTypes DEF FocusEvent, FocusIn
  <2>2. /\ u \in Sys /\ u.dfocus = "magic" /\ Managed(u) = Managed(s)
        /\ u.client = s.client /\ u.sel = s.sel /\ u.focus = s.focus /\ u.queue = s.queue
    BY <1>6 DEF Sys
  <2> HIDE DEF u
  <2>3. /\ t.client = u.client /\ t.sel = u.sel /\ t.dfocus = "magic"
        /\ t.focus = "bar" /\ ~t.onFrame
        /\ \A b : In(u.queue, b) => In(t.queue, b)
        /\ \A x : In(t.queue, Came(x)) => In(u.queue, Came(x)) \/ x = "bar"
        /\ \A a, x : Before(t.queue, a, Came(x)) => x = "bar" \/ Before(u.queue, a, Came(x))
    BY <2>1, <2>2, SetBar
  <2> HIDE DEF t
  <2>4. s.focus \notin Takers
    BY <1>1, <1>7 DEF Lively
  <2>5. Minds(s, t, X)
    BY <2>2, <2>3, <2>4, Apart DEF Minds, Takers
  <2>6. Managed(t) = Managed(s)
    BY <2>5 DEF Minds, Managed
  <2>7. \A c \in Takers \ X : Knows(t, r, c)
    <3> SUFFICES ASSUME NEW c \in Takers \ X PROVE Knows(t, r, c)
      OBVIOUS
    <3>1. ~In(r, Came(c))
      BY <1>1, <2>4 DEF Lively, Knows, HasFocus
    <3>2. t.dfocus # c
      BY <2>3, Apart DEF Takers
    <3> QED BY <3>1, <3>2 DEF Knows
  <2>71. Tracks(t, r)
    BY <2>3, Apart DEF Tracks
  <2>8. Lively(t, r, X)
    BY <1>1, <2>3, <2>6, <2>7, <2>71, Apart DEF Lively, Takers
  <2> QED BY <2>5, <2>8 DEF t, e, r
<1>8. CASE e = Came("bar")
  <2> DEFINE u == [s EXCEPT !.dfocus = "nil"]
  <2>1. t = u
    BY <1>8, FocusTypes DEF FocusEvent, FocusIn
  <2>2. /\ Minds(s, u, X) /\ u.dfocus = "nil" /\ Managed(u) = Managed(s)
        /\ \A c : HasFocus(u, c) <=> HasFocus(s, c)
        /\ u.focus = s.focus
    BY <1>6, Apart DEF Takers
  <2> HIDE DEF u
  <2>3. \A c \in Takers \ X : Knows(u, r, c)
    BY <1>1, <2>2, Apart DEF Lively, Knows, Takers
  <2>4. Turned(P) => Turned(r)
    BY <1>5, <1>8, FocusTypes, Apart
  <2>41. Tracks(u, r)
    BY <1>51, <2>2, Apart DEF Tracks
  <2>5. Lively(u, r, X)
    BY <1>1, <1>8, <2>2, <2>3, <2>4, <2>41 DEF Lively
  <2> QED BY <2>1, <2>2, <2>5 DEF e, r
<1>9. CASE e = Came(e.win) /\ e.win \in Windows
  <2> DEFINE x == e.win
             u == [s EXCEPT !.dfocus = x]
  <2>1. x \in Managed(s)
    BY <1>1, <1>9 DEF Lively
  <2>2. t = u
    BY <1>9, <2>1, FocusTypes, Apart DEF FocusEvent, FocusIn
  <2>21. x \in Takers \ X => x = s.focus
    BY <1>1, <1>9 DEF Lively, Knows, HasFocus
  <2>3. /\ Minds(s, u, X) /\ u.dfocus = x /\ Managed(u) = Managed(s)
        /\ \A c : HasFocus(u, c) <=> HasFocus(s, c)
        /\ u.focus = s.focus
    BY <1>6, <1>9, <2>21
  <2> HIDE DEF u
  <2>4. \A c \in Takers \ X : Knows(u, r, c)
    BY <1>1, <1>9, <2>1, <2>3 DEF Lively, Knows
  <2>5. x # "nil"
    BY <1>9, Apart
  <2>51. Tracks(u, r)
    BY <1>9, <1>51, <2>3 DEF Tracks, Sources
  <2>6. Lively(u, r, X)
    BY <1>1, <1>5, <2>3, <2>4, <2>5, <2>51 DEF Lively
  <2> QED BY <2>2, <2>3, <2>6 DEF e, r
<1>10. CASE e = Went(e.win)
  <2> DEFINE x == e.win
             u == [s EXCEPT !.dfocus = "magic"]
  <2>1. Turned(P) => Turned(r)
    BY <1>5, <1>10, FocusTypes
  <2>2. CASE x \in Managed(s) /\ s.dfocus = x
    <3>1. t = u
      BY <1>10, <2>2, FocusTypes DEF FocusEvent, FocusOut
    <3>2. /\ Minds(s, u, X) /\ u.dfocus = "magic" /\ Managed(u) = Managed(s)
          /\ \A c : HasFocus(u, c) <=> HasFocus(s, c)
          /\ u.focus = s.focus
      BY <1>6, Apart DEF Takers
    <3> HIDE DEF u
    <3>3. \A c \in Takers \ X : Knows(u, r, c)
      BY <1>1, <3>2, Apart DEF Lively, Knows, Takers
    <3>31. Tracks(u, r)
      BY <1>51, <3>2, Apart DEF Tracks
    <3>4. Lively(u, r, X)
      BY <1>1, <2>1, <3>2, <3>3, <3>31 DEF Lively
    <3> QED BY <3>1, <3>2, <3>4 DEF e, r
  <2>3. CASE ~(x \in Managed(s) /\ s.dfocus = x)
    <3>1. t = s
      BY <1>10, <2>3, FocusTypes DEF FocusEvent, FocusOut
    <3>2. Minds(s, s, X)
      BY DEF Minds
    <3>21. Pending(P) => Pending(r)
      BY <1>10, <1>51, FocusTypes
    <3>3. \A c \in Takers \ X : Knows(s, r, c)
      BY <1>1, <1>10, <2>3, <3>21, FocusTypes DEF Lively, Knows
    <3>31. Tracks(s, r)
      BY <1>51, <3>21 DEF Lively, Tracks
    <3>4. Lively(s, r, X)
      BY <1>1, <2>1, <3>3, <3>31 DEF Lively
    <3> QED BY <3>1, <3>2, <3>4 DEF e, r
  <2> QED BY <2>2, <2>3
<1> QED BY <1>3, <1>4, <1>7, <1>8, <1>9, <1>10

LEMMA SubSeqRest ==
  ASSUME NEW S, NEW q \in Seq(S), NEW m \in 0 .. Len(q) - 1
  PROVE  LET p == SubSeq(q, m + 1, Len(q))
         IN  /\ p \in Seq(S) /\ p # <<>> /\ Head(p) = q[m + 1]
             /\ Tail(p) = SubSeq(q, m + 2, Len(q))
<1> DEFINE n == Len(q)
           k == m + 1
           p == SubSeq(q, k, n)
<1>1. n \in Nat /\ k \in 1 .. n /\ n \in k .. n /\ k + 1 = m + 2
      /\ n \in 1 .. n + 1 /\ k <= n /\ n - k + 1 > 0
  OBVIOUS
<1>2. Head(p) = q[k] /\ Tail(p) = SubSeq(q, k + 1, n)
  <2> HIDE DEF n, k
  <2> QED BY <1>1, HeadTailOfSubSeq DEF n
<1>3. p \in Seq(S) /\ Len(p) = n - k + 1
  <2> HIDE DEF n, k
  <2>1. k \in Int /\ n \in Int /\ \A i \in k .. n : q[i] \in S
    BY <1>1 DEF n
  <2>2. /\ SubSeq(q, k, n) \in Seq(S)
        /\ Len(SubSeq(q, k, n)) = IF k <= n THEN n - k + 1 ELSE 0
    BY <2>1, SubSeqProperties
  <2> QED BY <1>1, <2>2
<1> HIDE DEF n, k, p
<1>4. p # <<>>
  <2>1. Len(<<>>) = 0
    OBVIOUS
  <2>2. Len(p) # 0
    BY ONLY <1>1, <1>3
  <2> QED BY ONLY <2>1, <2>2
<1> QED BY <1>1, <1>2, <1>3, <1>4 DEF p, n, k

LEMMA SweptOf ==
  ASSUME NEW s \in Sys
  PROVE  LET t == Swept(s)
         IN  /\ t.client = s.client /\ t.sel = s.sel /\ t.dfocus = s.dfocus
             /\ t.focus = s.focus /\ t.onFrame = s.onFrame
             /\ \A e : IsFocus(e) => ~In(t.queue, e)
<1> DEFINE F == {e \in ToSet(s.queue) : IsFocus(e)}
           q == Without(s.queue, F)
<1>1. Swept(s) = [s EXCEPT !.queue = q]
  BY DEF Swept
<1>2. s.queue \in Seq(Events)
  BY FieldsOf
<1>3. \A e : IsFocus(e) => ~In(q, e)
  <2>1. \A e : IsFocus(e) /\ In(s.queue, e) => e \in F
    BY <1>2, InSet
  <2> HIDE DEF F
  <2> QED BY <1>2, <2>1, WithoutProps
<1> HIDE DEF q
<1> QED BY <1>1, <1>3 DEF Sys

LEMMA FlushCurrent ==
  ASSUME NEW s \in Sys, NEW X, Lively(s, s.queue, X)
  PROVE  LET r == FlushFocus(s)
         IN  /\ Current(r, X) /\ r.sel = s.sel
             /\ s.focus \in Takers => r.focus = s.focus /\ r.onFrame = s.onFrame
             /\ r.focus \in {s.focus, "bar"}
<1> DEFINE q == s.queue
           n == Len(q)
           Rem(m) == SubSeq(q, m + 1, n)
           o == Swept(s)
<1>1. PICK read : FlushRun(s, read)
  BY FlushRuns
<1>2. q \in Seq(Events) /\ n \in Nat
  BY FieldsOf
<1>3. /\ FlushFocus(s) = read[n] /\ read[0] = o
      /\ \A m \in 0 .. n : read[m] \in Sys
      /\ \A i \in 1 .. n : read[i] = IF IsFocus(q[i]) THEN FocusEvent(read[i - 1], q[i])
                                   ELSE read[i - 1]
  BY <1>1 DEF FlushRun, Aside
<1>4. Rem(0) = q
  BY <1>2
<1>5. Rem(n) = <<>>
  BY <1>2
<1>6. \A m \in 0 .. n - 1 : /\ Rem(m) \in Seq(Events) /\ Rem(m) # <<>>
                            /\ Head(Rem(m)) = q[m + 1] /\ Tail(Rem(m)) = Rem(m + 1)
  <2> TAKE m \in 0 .. n - 1
  <2>1. (m + 1) + 1 = m + 2
    BY <1>2
  <2> QED BY <1>2, <2>1, SubSeqRest
<1>7. /\ o.client = s.client /\ o.sel = s.sel /\ o.dfocus = s.dfocus
      /\ o.focus = s.focus /\ o.onFrame = s.onFrame
      /\ \A e : IsFocus(e) => ~In(o.queue, e)
  BY SweptOf
<1> DEFINE G == {m \in 0 .. n : Lively(read[m], Rem(m), X) /\ Minds(o, read[m], X)}
<1> HIDE DEF n, Rem, o
<1>8. 0 \in G
  <2>1. Minds(o, o, X)
    BY DEF Minds
  <2>2. Lively(o, q, X)
    BY <1>7 DEF Lively, Knows, Tracks, HasFocus, Managed
  <2> QED BY <1>2, <1>3, <1>4, <2>1, <2>2
<1>9. \A m \in 0 .. n - 1 : m \in G => m + 1 \in G
  <2> SUFFICES ASSUME NEW m \in 0 .. n - 1, m \in G PROVE m + 1 \in G
    OBVIOUS
  <2>1. m + 1 \in 0 .. n /\ m + 1 \in 1 .. n /\ (m + 1) - 1 = m /\ m \in 0 .. n
    BY <1>2
  <2>2. read[m] \in Sys /\ Lively(read[m], Rem(m), X) /\ Minds(o, read[m], X)
    BY <1>3, <2>1
  <2>3. read[m + 1] = IF IsFocus(q[m + 1]) THEN FocusEvent(read[m], q[m + 1]) ELSE read[m]
    BY <1>3, <2>1
  <2>4. CASE IsFocus(q[m + 1])
    <3>1. Lively(read[m + 1], Rem(m + 1), X) /\ Minds(read[m], read[m + 1], X)
      BY <1>6, <2>2, <2>3, <2>4, EventLively
    <3> QED BY <2>1, <2>2, <3>1, MindsTrans
  <2>5. CASE ~IsFocus(q[m + 1])
    <3>1. Lively(read[m + 1], Rem(m + 1), X)
      BY <1>6, <2>2, <2>3, <2>5, TailLively
    <3> QED BY <2>1, <2>2, <2>3, <2>5, <3>1
  <2> QED BY <2>4, <2>5
<1> HIDE DEF G
<1>10. n \in G
  BY <1>2, <1>8, <1>9, UpTo
<1> DEFINE r == FlushFocus(s)
<1>11. Lively(r, <<>>, X) /\ Minds(o, r, X)
  BY <1>3, <1>5, <1>10 DEF G
<1> HIDE DEF r
<1>12. Current(r, X)
  <2>1. \A x : In(r.queue, Came(x)) => x = "bar" /\ r.focus = "bar"
    BY <1>7, <1>11, FocusTypes DEF Minds
  <2>2. \A e : IsFocus(e) /\ In(r.queue, e) => r.dfocus \notin Takers \ X
    BY <1>7, <1>11 DEF Minds
  <2> QED BY <1>11, <2>1, <2>2 DEF Current
<1>13. /\ r.sel = s.sel
       /\ s.focus \in Takers => r.focus = s.focus /\ r.onFrame = s.onFrame
       /\ r.focus \in {s.focus, "bar"}
  BY <1>7, <1>11 DEF Minds
<1> QED BY <1>12, <1>13 DEF r

-----------------------------------------------------------------------------
(* client_focus.                                                           *)

LEMMA SameFocus ==
  ASSUME NEW s, NEW t, NEW X, Lively(s, s.queue, X),
         t.client = s.client, t.dfocus = s.dfocus, t.focus = s.focus,
         t.onFrame = s.onFrame, t.queue = s.queue
  PROVE  Lively(t, t.queue, X)
  BY DEF Lively, Knows, Tracks, HasFocus, Managed

LEMMA SetTaker ==
  ASSUME NEW s \in Sys, NEW X, Current(s, X), NEW c \in Managed(s) \ X, c \in Takers, Viewable(s, c)
  PROVE  LET t == SetFocus(s, c)
         IN  Lively(t, t.queue, X) /\ t.sel = s.sel /\ HasFocus(t, c)
<1> DEFINE u == IF HasFocus(s, c) THEN s ELSE FocusTo(s, c)
           t == SetFocus(s, c)
<1>0. c \in Windows /\ c \in Ends
  BY DEF Takers, Ends
<1>1. t = [u EXCEPT !.asked = {}]
  BY DEF SetFocus, HasFocus
<1>2. Lively(u, u.queue, X) /\ u.sel = s.sel /\ HasFocus(u, c)
  <2>1. CASE HasFocus(s, c)
    BY <2>1, CurrentBelieves DEF Believes
  <2>2. CASE ~HasFocus(s, c)
    <3>1. u = FocusTo(s, c)
      BY <2>2
    <3> HIDE DEF u
    <3>2. /\ u.client = s.client /\ u.sel = s.sel /\ u.dfocus = s.dfocus
          /\ u.focus = c /\ ~u.onFrame
          /\ \A e : In(u.queue, e) <=> \/ In(s.queue, e)
                                       \/ (s.focus \in Windows /\ ~s.onFrame) /\ e = Went(s.focus)
                                       \/ c # "root" /\ e = Came(c)
          /\ Turned(u.queue)
          /\ c # "root" => \A b : After(u.queue, Came(c), b)
      BY <1>0, <3>1, FocusToDoes
    <3>21. Pending(u.queue) /\ Tracks(u, u.queue)
      BY <1>0, <3>2, Apart DEF Pending, Sources, Tracks
    <3>3. Managed(u) = Managed(s)
      BY <3>2 DEF Managed
    <3>4. \A x \in Windows \cup {"none"} : In(u.queue, Came(x)) => x = c
      BY <3>2, FocusTypes, Apart DEF Current
    <3>5. \A d \in Takers \ X : Knows(u, u.queue, d)
      <4> SUFFICES ASSUME NEW d \in Takers \ X PROVE Knows(u, u.queue, d)
        OBVIOUS
      <4>1. CASE d = c
        BY <4>1, <3>2, <3>3 DEF Knows, HasFocus
      <4>2. CASE d # c
        <5>1. d \in Windows /\ ~In(u.queue, Came(d))
          BY <3>4, <4>2 DEF Takers
        <5>2. s.dfocus = d => d \in Managed(s) /\ (HasFocus(s, d) \/ Reuse)
          BY Nothing DEF Current, Lively, Knows
        <5>3. HasFocus(s, d) => In(u.queue, Went(d))
          BY <3>2, <5>1 DEF HasFocus
        <5> QED BY <3>2, <3>21, <3>3, <5>1, <5>2, <5>3 DEF Knows
      <4> QED BY <4>1, <4>2
    <3>6. ~In(u.queue, Came("none"))
      BY <1>0, <3>4, Apart
    <3> QED BY <3>2, <3>21, <3>3, <3>4, <3>5, <3>6 DEF Lively, HasFocus
  <2> QED BY <2>1, <2>2
<1>3. u \in Sys
  <2>1. Aside(s, FocusTo(s, c))
    BY <1>0, FocusToAside
  <2> QED BY <2>1 DEF Aside
<1> HIDE DEF u
<1>4. /\ t.client = u.client /\ t.sel = u.sel /\ t.dfocus = u.dfocus
      /\ t.focus = u.focus /\ t.onFrame = u.onFrame /\ t.queue = u.queue
  BY <1>1, <1>3 DEF Sys
<1> HIDE DEF t
<1>5. Lively(t, t.queue, X)
  BY <1>2, <1>4, SameFocus
<1> QED BY <1>2, <1>4, <1>5 DEF t, HasFocus

LEMMA GiveLively ==
  ASSUME NEW s \in Sys, NEW X, Current(s, X), NEW c \in (Managed(s) \ X) \cup {"nil"}
  PROVE  LET t == GiveFocus(s, c)
         IN  /\ Lively(t, t.queue, X) /\ t.sel = s.sel
             /\ c \in Takers /\ Viewable(s, c) => HasFocus(t, c)
             /\ c = "nil" => t.focus = "bar"
             /\ t.focus \in {s.focus, "bar", c}
<1> DEFINE t == GiveFocus(s, c)
<1>0. Lively(s, s.queue, X)
  BY CurrentBelieves DEF Believes
<1>1. CASE c = "nil"
  <2>1. t = SetFocus(s, "bar")
    BY <1>1 DEF GiveFocus
  <2> HIDE DEF t
  <2>2. /\ t.client = s.client /\ t.sel = s.sel /\ t.dfocus = s.dfocus
        /\ t.focus = "bar" /\ ~t.onFrame
        /\ \A x : In(t.queue, Came(x)) => In(s.queue, Came(x)) \/ x = "bar"
        /\ \A d \in Windows : HasFocus(s, d) => In(t.queue, Went(d))
    BY <2>1, SetBar
  <2>3. \A x : In(t.queue, Came(x)) => x = "bar"
    BY <2>2 DEF Current
  <2>4. \A d \in Takers \ X : Knows(t, t.queue, d)
    <3> SUFFICES ASSUME NEW d \in Takers \ X PROVE Knows(t, t.queue, d)
      OBVIOUS
    <3>1. d \in Windows /\ ~In(t.queue, Came(d))
      BY <2>3, Apart DEF Takers
    <3>2. s.dfocus = d => d \in Managed(s) /\ (HasFocus(s, d) \/ Reuse)
      BY Nothing DEF Current, Lively, Knows
    <3> QED BY <2>2, <3>1, <3>2, Apart DEF Knows, Managed
  <2>41. Tracks(t, t.queue)
    BY <2>2, Apart DEF Tracks
  <2>5. Lively(t, t.queue, X)
    BY <2>2, <2>3, <2>4, <2>41, Apart DEF Lively, Takers
  <2> QED BY <1>1, <2>2, <2>5, Apart DEF t, Takers
<1>2. CASE c \in Takers
  <2>1. c \in Managed(s) \ X /\ c # "nil"
    BY <1>2, Apart DEF Takers
  <2>2. t = SetFocus(s, c)
    BY <1>2, <2>1 DEF GiveFocus, Takers
  <2>3. CASE Viewable(s, c)
    BY <1>2, <2>1, <2>2, <2>3, SetTaker DEF HasFocus
  <2>4. CASE ~Viewable(s, c)
    <3>1. t = s
      BY <1>2, <2>2, <2>4 DEF SetFocus, Takers
    <3> QED BY <1>0, <2>1, <2>4, <3>1
  <2> QED BY <2>3, <2>4
<1>3. CASE c # "nil" /\ c \notin Takers
  <2>1. c \in NoInput
    BY <1>3, FieldsOf DEF Takers, Managed, ToSet
  <2>2. t = s \/ t = [s EXCEPT !.asked = @ \cup {c}]
    BY <1>3, <2>1 DEF GiveFocus
  <2>3. /\ t.client = s.client /\ t.sel = s.sel /\ t.dfocus = s.dfocus
        /\ t.focus = s.focus /\ t.onFrame = s.onFrame /\ t.queue = s.queue
    BY <2>2 DEF Sys
  <2> HIDE DEF t
  <2>4. Lively(t, t.queue, X)
    BY <1>0, <2>3, SameFocus
  <2> QED BY <1>3, <2>3, <2>4 DEF t
<1> QED BY <1>1, <1>2, <1>3

(* No window has the focus, and wmii believes that the client c has it.    *)
Mistaken(s, c) ==
  /\ Reuse /\ s.dfocus = c /\ s.focus \notin Windows
  /\ ~Pending(s.queue) /\ ~In(s.queue, Went(c))

(* The client c has the focus if it can have it, or the bar for want of c. *)
Attends(s, c) ==
  /\ c = "nil" => s.focus = "bar"
  /\ c \in Takers /\ Viewable(s, c) => HasFocus(s, c) \/ Mistaken(s, c)

(* Such a mistake is not noticed by reading what is not about it.          *)
LEMMA FlushMistaken ==
  ASSUME NEW s \in Sys, NEW c \in Takers, Mistaken(s, c)
  PROVE  Mistaken(FlushFocus(s), c)
<1> DEFINE q == s.queue
           n == Len(q)
           o == Swept(s)
<1>1. PICK read : FlushRun(s, read)
  BY FlushRuns
<1>2. q \in Seq(Events) /\ n \in Nat
  BY FieldsOf
<1>3. /\ FlushFocus(s) = read[n] /\ read[0] = o
      /\ \A i \in 1 .. n : read[i] = IF IsFocus(q[i]) THEN FocusEvent(read[i - 1], q[i])
                                   ELSE read[i - 1]
  BY <1>1 DEF FlushRun, Aside
<1>4. /\ o.dfocus = s.dfocus /\ o.focus = s.focus
      /\ \A e : IsFocus(e) => ~In(o.queue, e)
  BY SweptOf
<1> HIDE DEF o
<1>5. \A i \in 1 .. n : IsFocus(q[i]) => FocusEvent(o, q[i]) = o
  <2> SUFFICES ASSUME NEW i \in 1 .. n, IsFocus(q[i]) PROVE FocusEvent(o, q[i]) = o
    OBVIOUS
  <2> DEFINE e == q[i]
  <2>1. e \in Events /\ In(q, e)
    BY <1>2 DEF In
  <2> HIDE DEF e
  <2>2. e = Came(e.win) \/ e = Went(e.win)
    BY <2>1, FocusTypes DEF e
  <2>3. e.win \in Sources
    BY <2>1 DEF Events, Watched, Others, IsFocus, Sources, e
  <2>4. e = Went(e.win) /\ e.win # o.dfocus
    BY <1>4, <2>1, <2>2, <2>3 DEF Mistaken, Pending
  <2>5. FocusEvent(o, e) = o
    BY <2>4, FocusTypes DEF FocusEvent, FocusOut
  <2> QED BY <2>5 DEF e
<1>6. read[n] \in {o}
  <2> DEFINE S == {o}
  <2>1. read[0] \in S
    BY <1>3
  <2>2. \A i \in 1 .. n : read[i - 1] \in S => read[i] \in S
    BY <1>3, <1>5
  <2> HIDE DEF S, n
  <2>3. read[n] \in S
    BY <1>2, <2>1, <2>2, StaysIn
  <2> QED BY <2>3 DEF S
<1> QED BY <1>3, <1>4, <1>6, FocusTypes DEF Mistaken, Pending

LEMMA ClientFocusAttends ==
  ASSUME NEW s \in Sys, NEW X, Lively(s, s.queue, X), NEW c \in (Managed(s) \ X) \cup {"nil"}
  PROVE  LET r == ClientFocus(s, c)
         IN  /\ Current(r, X) /\ Attends(r, c) /\ r.sel = s.sel
             /\ r.focus \in {s.focus, "bar", c}
<1> DEFINE h == [s EXCEPT !.gclient = IF c \in Grouped THEN c ELSE @]
           g == FlushFocus(h)
           t == GiveFocus(g, c)
           f == FlushFocus(t)
<1>0. c \in Windows \cup {"nil"}
  BY FieldsOf DEF Managed, ToSet
<1>1. /\ h \in Sys /\ h.client = s.client /\ h.sel = s.sel /\ h.dfocus = s.dfocus
      /\ h.focus = s.focus /\ h.onFrame = s.onFrame /\ h.queue = s.queue
      /\ h.up = s.up /\ h.frame = s.frame
  <2> DEFINE x == IF c \in Grouped THEN c ELSE s.gclient
  <2>1. x \in Windows \cup {"nil"} /\ h = [s EXCEPT !.gclient = x]
    BY <1>0, FieldsOf
  <2> HIDE DEF x, h
  <2> QED BY <2>1 DEF Sys
<1>2. ClientFocus(s, c) = IF g.dfocus = c THEN g ELSE f
  BY DEF ClientFocus
<1> HIDE DEF h
<1>3. Lively(h, h.queue, X) /\ Managed(h) = Managed(s)
  BY <1>1, SameFocus DEF Managed
<1>4. Current(g, X) /\ g.sel = s.sel /\ g.focus \in {s.focus, "bar"}
  BY <1>1, <1>3, FlushCurrent
<1>5. Aside(h, g)
  BY <1>1, FlushFocusAside
<1> HIDE DEF g
<1>6. g \in Sys /\ Managed(g) = Managed(s)
  BY <1>3, <1>5 DEF Aside, SameShow, Managed
<1>7. CASE g.dfocus = c
  <2>1. c = "nil" => g.focus = "bar"
    BY <1>4, <1>7, Nothing DEF Current, Lively, Turned
  <2>2. c \in Takers => HasFocus(g, c) \/ Mistaken(g, c)
    <3> SUFFICES ASSUME c \in Takers, ~HasFocus(g, c) PROVE Mistaken(g, c)
      OBVIOUS
    <3>1. c \in Takers \ X
      BY Apart DEF Takers
    <3>2. Reuse /\ g.focus \notin Windows
      BY <1>4, <1>7, <3>1, Nothing DEF Current, Lively, Knows
    <3>3. \A e : IsFocus(e) => ~In(g.queue, e)
      BY <1>4, <1>7, <3>1 DEF Current
    <3> QED BY <1>7, <3>2, <3>3, FocusTypes DEF Mistaken, Pending
  <2> QED BY <1>2, <1>4, <1>7, <2>1, <2>2 DEF Attends
<1>8. CASE g.dfocus # c
  <2>1. /\ Lively(t, t.queue, X) /\ t.sel = g.sel
        /\ c \in Takers /\ Viewable(g, c) => HasFocus(t, c)
        /\ c = "nil" => t.focus = "bar"
        /\ t.focus \in {g.focus, "bar", c}
    BY <1>4, <1>6, GiveLively
  <2>2. Aside(g, t)
    BY <1>0, <1>6, GiveFocusAside
  <2> HIDE DEF t
  <2>3. t \in Sys
    BY <2>2 DEF Aside
  <2>4. /\ Current(f, X) /\ f.sel = t.sel
        /\ t.focus \in Takers => f.focus = t.focus /\ f.onFrame = t.onFrame
        /\ f.focus \in {t.focus, "bar"}
    BY <2>1, <2>3, FlushCurrent
  <2>5. Aside(t, f)
    BY <2>3, FlushFocusAside
  <2> HIDE DEF f
  <2>6. Viewable(f, c) => Viewable(g, c)
    BY <2>2, <2>5 DEF Aside, SameShow, Viewable, Managed
  <2>7. Attends(f, c)
    BY <2>1, <2>4, <2>6 DEF Attends, HasFocus
  <2> QED BY <1>2, <1>4, <1>8, <2>1, <2>4, <2>7
<1> QED BY <1>7, <1>8

-----------------------------------------------------------------------------
(* The focus leaves a window that can no longer be seen.                   *)

Loses(s, t) ==
  /\ t.client = s.client /\ t.dfocus = s.dfocus /\ t.sel = s.sel
  /\ t.focus = s.focus \/ (s.focus \in Windows /\ t.focus \in {"root", "none"})
  /\ \A c \in Windows : HasFocus(s, c) => HasFocus(t, c) \/ In(t.queue, Went(c))
  /\ \A e : In(s.queue, e) /\ IsFocus(e) => In(t.queue, e)
  /\ \A x \in Windows \cup {"bar"} : In(t.queue, Came(x)) => In(s.queue, Came(x))
  /\ In(t.queue, Came("none")) =>
       In(s.queue, Came("none")) \/ (t.focus = "none" /\ s.focus \in Windows)
  /\ \A x \in Windows : In(t.queue, Went(x)) => In(s.queue, Went(x)) \/ s.focus = x
  /\ t.focus \in Windows =>
       \A x, y : After(s.queue, Came(x), Came(y)) => After(t.queue, Came(x), Came(y))
  /\ \A a, x : x \in Windows /\ Before(t.queue, a, Came(x)) => Before(s.queue, a, Came(x))
  /\ Turned(s.queue) => Turned(t.queue)

LEMMA LosesTrans ==
  ASSUME NEW s, NEW t, NEW u, Loses(s, t), Loses(t, u)
  PROVE  Loses(s, u)
<1>1. \A c \in Windows : HasFocus(s, c) => HasFocus(u, c) \/ In(u.queue, Went(c))
  BY FocusTypes DEF Loses
<1>2. In(u.queue, Came("none")) =>
        In(s.queue, Came("none")) \/ (u.focus = "none" /\ s.focus \in Windows)
  BY Apart DEF Loses
<1>3. \A x \in Windows : In(u.queue, Went(x)) => In(s.queue, Went(x)) \/ s.focus = x
  BY Apart DEF Loses
<1>4. u.focus \in Windows =>
        \A x, y : After(s.queue, Came(x), Came(y)) => After(u.queue, Came(x), Came(y))
  BY Apart DEF Loses
<1> QED BY <1>1, <1>2, <1>3, <1>4, Apart DEF Loses

LEMMA LosesMistaken ==
  ASSUME NEW s, NEW t, NEW c \in Takers, Loses(s, t), Mistaken(s, c)
  PROVE  Mistaken(t, c)
<1>1. t.focus = s.focus /\ s.focus \notin Windows /\ t.dfocus = c /\ c \in Windows
  BY DEF Loses, Mistaken, Takers
<1>2. \A x \in Sources : ~In(t.queue, Came(x))
  BY <1>1 DEF Loses, Mistaken, Pending, Sources
<1>3. ~In(t.queue, Went(c))
  BY <1>1 DEF Loses, Mistaken
<1> QED BY <1>1, <1>2, <1>3 DEF Mistaken, Pending

LEMMA LosesBelieves ==
  ASSUME NEW s, NEW t, NEW X, Believes(s, X), Loses(s, t)
  PROVE  Believes(t, X)
<1>1. \A c \in Takers : ~In(t.queue, Came(c))
  BY DEF Believes, Loses, Takers
<1>2. \A w \in Windows, x \in {"SentUnmap", "Destroy"} : ~Before(t.queue, Event(x, w), Came(w))
  BY DEF Believes, Loses
<1>3. \A c \in Takers \ X : Knows(t, t.queue, c)
  <2> SUFFICES ASSUME NEW c \in Takers \ X PROVE Knows(t, t.queue, c)
    OBVIOUS
  <2>1. c \in Windows /\ c \in Takers /\ Knows(s, s.queue, c)
    BY DEF Takers, Believes, Lively
  <2>2. t.dfocus = c => c \in Managed(t)
    BY <2>1 DEF Knows, Loses, Managed
  <2>3. HasFocus(s, c) \/ In(s.queue, Went(c)) => HasFocus(t, c) \/ In(t.queue, Went(c))
    BY <2>1, FocusTypes DEF Loses
  <2>4. /\ s.focus \notin Windows => t.focus \notin Windows
        /\ Pending(s.queue) => Pending(t.queue)
        /\ t.dfocus = s.dfocus
    BY FocusTypes DEF Loses, Pending
  <2> QED BY <1>1, <2>1, <2>2, <2>3, <2>4 DEF Knows
<1>4. In(t.queue, Came("none")) => t.focus \notin Takers
  BY Apart DEF Believes, Lively, Loses, Takers
<1>5. t.focus = "bar" \/ (t.dfocus # "nil" /\ ~In(t.queue, Came("bar"))) \/ Turned(t.queue)
  BY Apart DEF Believes, Lively, Loses
<1>6. \A x \in Windows : In(t.queue, Came(x)) => x \in Managed(t)
  BY DEF Believes, Lively, Loses, Managed
<1>7. Tracks(t, t.queue)
  <2>1. Pending(s.queue) => Pending(t.queue)
    BY FocusTypes DEF Loses, Pending
  <2>2. Tracks(s, s.queue) /\ t.dfocus = s.dfocus /\ "root" \notin Windows /\ "none" \notin Windows
    BY Apart DEF Believes, Lively, Loses
  <2>3. t.focus = s.focus \/ t.focus \notin Windows
    BY <2>2 DEF Loses
  <2>4. t.focus \in Windows /\ Pending(t.queue) => Pending(s.queue)
    BY <2>2 DEF Loses, Pending, Sources
  <2>5. t.focus \in Windows =>
          \A x, y : After(s.queue, Came(x), Came(y)) => After(t.queue, Came(x), Came(y))
    BY DEF Loses
  <2> QED BY <2>1, <2>2, <2>3, <2>4, <2>5 DEF Tracks
<1> QED BY <1>1, <1>2, <1>3, <1>4, <1>5, <1>6, <1>7 DEF Believes, Lively

LEMMA SameLoses ==
  ASSUME NEW s, NEW t,
         t.client = s.client, t.dfocus = s.dfocus, t.sel = s.sel, t.focus = s.focus,
         t.onFrame = s.onFrame, t.queue = s.queue
  PROVE  Loses(s, t)
  BY DEF Loses, HasFocus

LEMMA PushLoses ==
  ASSUME NEW s \in Sys, NEW x, NEW w, Event(x, w) \in Events, x # "FocusIn",
         x = "FocusOut" => s.focus = w
  PROVE  /\ Loses(s, Push(s, x, w))
         /\ Push(s, x, w).focus = s.focus /\ Push(s, x, w).onFrame = s.onFrame
         /\ Push(s, x, w).frame = s.frame /\ Push(s, x, w).up = s.up
         /\ Push(s, x, w).view = s.view /\ Push(s, x, w).selview = s.selview
         /\ Push(s, x, w).exists = s.exists
         /\ In(Push(s, x, w).queue, Event(x, w))
         /\ \A e : In(s.queue, e) => In(Push(s, x, w).queue, e)
<1> DEFINE e == Event(x, w)
           t == Push(s, x, w)
           r == Append(s.queue, e)
<1>1. s.queue \in Seq(Events)
  BY FieldsOf
<1>2. /\ \A y : Came(y) # e
      /\ \A y : Went(y) = e => s.focus = y
  BY DEF Came, Went, Event
<1>3. t = [s EXCEPT !.queue = r]
  BY DEF Push
<1> HIDE DEF e
<1>4. e \in Events
  BY DEF e
<1>5. /\ \A a : In(r, a) <=> In(s.queue, a) \/ a = e
      /\ \A a, b : Before(r, a, b) <=> Before(s.queue, a, b) \/ (In(s.queue, a) /\ b = e)
  BY <1>1, <1>4, InAppend
<1>6. /\ Turned(s.queue) => Turned(r)
      /\ \A y, z : After(s.queue, Came(y), Came(z)) => After(r, Came(y), Came(z))
  BY <1>1, <1>2, <1>4, AfterAppend DEF Turned
<1> HIDE DEF r
<1>7. /\ t.client = s.client /\ t.dfocus = s.dfocus /\ t.sel = s.sel /\ t.focus = s.focus
      /\ t.onFrame = s.onFrame /\ t.queue = r /\ t.frame = s.frame /\ t.up = s.up
      /\ t.view = s.view /\ t.selview = s.selview /\ t.exists = s.exists
  BY <1>3 DEF Sys
<1> HIDE DEF t
<1>8. Loses(s, t)
  BY <1>2, <1>5, <1>6, <1>7 DEF Loses, HasFocus
<1> QED BY <1>5, <1>7, <1>8 DEF t, e

LEMMA RevertLoses ==
  ASSUME NEW s \in Sys
  PROVE  /\ Loses(s, Revert(s))
         /\ \A c \in Windows : HasFocus(s, c) /\ Viewable(s, c) => Revert(s) = s
<1> DEFINE w == s.focus
           t == Revert(s)
           seen == w \notin Windows \/ (IF s.onFrame THEN s.frame[w] ELSE Viewable(s, w))
<1>1. CASE seen
  <2>1. t = s
    BY <1>1 DEF Revert
  <2> QED BY <2>1, SameLoses
<1>2. CASE ~seen /\ ~s.onFrame /\ s.frame[w]
  <2>1. t = [Push(s, "FocusOut", w) EXCEPT !.onFrame = TRUE]
    BY <1>2 DEF Revert
  <2> DEFINE p == Push(s, "FocusOut", w)
  <2>2. Event("FocusOut", w) \in Events
    BY <1>2, FocusEvents DEF Events
  <2>3. Loses(s, p) /\ p.focus = s.focus /\ p.onFrame = s.onFrame /\ In(p.queue, Went(w)) /\ p \in Sys
    BY <2>2, PushLoses, PushDoes DEF Went
  <2> HIDE DEF p
  <2>4. /\ t.client = p.client /\ t.dfocus = p.dfocus /\ t.sel = p.sel /\ t.focus = p.focus
        /\ t.queue = p.queue
    BY <2>1, <2>3 DEF Sys, p
  <2> HIDE DEF t
  <2>5. Loses(p, t)
    BY <2>3, <2>4 DEF Loses, HasFocus
  <2>6. Loses(s, t)
    BY <2>3, <2>5, LosesTrans
  <2> QED BY <1>2, <2>6 DEF t, HasFocus
<1>3. CASE ~seen /\ (s.onFrame \/ ~s.frame[w])
  <2> DEFINE x == IF s.onFrame THEN "none" ELSE "root"
  <2>1. t = FocusTo(s, x) /\ x \in Ends /\ x \notin Windows \cup {"bar"} /\ w \in Windows
    BY <1>3, Apart DEF Revert, Ends
  <2>2. x = "none" \/ x = "root"
    OBVIOUS
  <2> HIDE DEF x, t
  <2>3. /\ t.client = s.client /\ t.sel = s.sel /\ t.dfocus = s.dfocus
        /\ t.focus = x /\ ~t.onFrame
        /\ \A e : In(t.queue, e) <=> \/ In(s.queue, e)
                                     \/ (s.focus \in Windows /\ ~s.onFrame) /\ e = Went(s.focus)
                                     \/ x # "root" /\ e = Came(x)
        /\ \A a, y : Before(t.queue, a, Came(y))
                       => Before(s.queue, a, Came(y)) \/ (y = x /\ In(t.queue, a))
        /\ x # "bar" /\ Turned(s.queue) => Turned(t.queue)
    BY <2>1, FocusToDoes
  <2>4. \A c \in Windows : HasFocus(s, c) => In(t.queue, Went(c))
    BY <2>3 DEF HasFocus
  <2>5. \A y \in Windows \cup {"bar"} : In(t.queue, Came(y)) => In(s.queue, Came(y))
    BY <2>1, <2>3, FocusTypes
  <2>6. In(t.queue, Came("none")) =>
          In(s.queue, Came("none")) \/ (t.focus = "none" /\ s.focus \in Windows)
    BY <2>1, <2>2, <2>3, FocusTypes
  <2>61. \A y \in Windows : In(t.queue, Went(y)) => In(s.queue, Went(y)) \/ s.focus = y
    BY <2>3, FocusTypes
  <2>7. \A a, y : y \in Windows /\ Before(t.queue, a, Came(y)) => Before(s.queue, a, Came(y))
    BY <2>1, <2>3
  <2>8. Loses(s, t)
    BY <2>1, <2>2, <2>3, <2>4, <2>5, <2>6, <2>61, <2>7 DEF Loses
  <2> QED BY <1>3, <2>8 DEF t, HasFocus
<1> QED BY <1>1, <1>2, <1>3

(* A visible client other than w that has the focus keeps it.              *)
Spares(s, t, w) ==
  \A c \in Windows : c # w /\ HasFocus(s, c) /\ Viewable(s, c) => HasFocus(t, c) /\ Viewable(t, c)

LEMMA SparesTrans ==
  ASSUME NEW s, NEW t, NEW u, NEW w, Spares(s, t, w), Spares(t, u, w)
  PROVE  Spares(s, u, w)
  BY DEF Spares

LEMMA FlagsLose ==
  ASSUME NEW s \in Sys, NEW w \in Windows, NEW b \in BOOLEAN,
         NEW t \in {[s EXCEPT !.mapped[w] = b], [s EXCEPT !.fmapped[w] = b],
                   [s EXCEPT !.up[w] = b], [s EXCEPT !.frame[w] = b]}
  PROVE  t \in Sys /\ Loses(s, t) /\ Spares(s, t, w)
<1> DEFINE Alike(u) ==
      /\ u \in Sys
      /\ u.client = s.client /\ u.dfocus = s.dfocus /\ u.sel = s.sel /\ u.focus = s.focus
      /\ u.onFrame = s.onFrame /\ u.queue = s.queue
      /\ \A c \in Windows : c # w => u.up[c] = s.up[c] /\ u.frame[c] = s.frame[c]
<1>1. Alike([s EXCEPT !.mapped[w] = b])
  BY DEF Sys
<1>2. Alike([s EXCEPT !.fmapped[w] = b])
  BY DEF Sys
<1>3. Alike([s EXCEPT !.up[w] = b])
  BY DEF Sys
<1>4. Alike([s EXCEPT !.frame[w] = b])
  BY DEF Sys
<1>5. Alike(t)
  <2> HIDE DEF Alike
  <2> QED BY <1>1, <1>2, <1>3, <1>4
<1>6. Loses(s, t)
  BY <1>5, SameLoses
<1>7. Spares(s, t, w)
  BY <1>5 DEF Spares, HasFocus, Viewable, Managed
<1> QED BY <1>5, <1>6, <1>7

(* Mapping and unmapping lose no more, and nothing of another client.      *)
LEMMA MapWinLoses ==
  ASSUME NEW s \in Sys, NEW w \in Windows
  PROVE  Loses(s, MapWin(s, w))
<1> DEFINE m == [s EXCEPT !.mapped[w] = TRUE]
           u == [m EXCEPT !.up[w] = TRUE]
<1>1. m \in Sys /\ Loses(s, m)
  BY FlagsLose
<1> HIDE DEF m
<1>2. u \in Sys /\ Loses(m, u)
  BY <1>1, FlagsLose
<1> HIDE DEF u
<1>3. Event("Map", w) \in Events
  BY FocusEvents DEF Events
<1>4. Loses(u, Push(u, "Map", w))
  BY <1>2, <1>3, PushLoses
<1>5. MapWin(s, w) \in {s, m, Push(u, "Map", w)}
  BY DEF MapWin, m, u
<1>6. Loses(s, s)
  BY SameLoses
<1> QED BY <1>1, <1>2, <1>4, <1>5, <1>6, LosesTrans

LEMMA MapFrameLoses ==
  ASSUME NEW s \in Sys, NEW w \in Windows
  PROVE  Loses(s, MapFrame(s, w))
<1>1. /\ MapFrame(s, w).client = s.client /\ MapFrame(s, w).dfocus = s.dfocus
      /\ MapFrame(s, w).sel = s.sel /\ MapFrame(s, w).focus = s.focus
      /\ MapFrame(s, w).onFrame = s.onFrame /\ MapFrame(s, w).queue = s.queue
  BY DEF MapFrame, Sys
<1> QED BY <1>1, SameLoses

LEMMA UnmapWinLoses ==
  ASSUME NEW s \in Sys, NEW w \in Windows
  PROVE  Loses(s, UnmapWin(s, w)) /\ Spares(s, UnmapWin(s, w), w)
<1> DEFINE m == [s EXCEPT !.mapped[w] = FALSE]
           u == [m EXCEPT !.up[w] = FALSE]
           p == Push(u, "Unmap", w)
           r == Revert(p)
<1>0. UnmapWin(s, w) = IF ~s.mapped[w] THEN s ELSE IF ~s.up[w] THEN m ELSE r
  <2>1. m.up[w] = s.up[w]
    BY DEF Sys
  <2> QED BY <2>1 DEF UnmapWin
<1>1. m \in Sys /\ Loses(s, m) /\ Spares(s, m, w)
  BY FlagsLose
<1> HIDE DEF m
<1>2. u \in Sys /\ Loses(m, u) /\ Spares(m, u, w)
  BY <1>1, FlagsLose
<1> HIDE DEF u
<1>3. Event("Unmap", w) \in Events
  BY WatchedEvents
<1>4. /\ Loses(u, p) /\ p \in Sys /\ p.focus = u.focus /\ p.onFrame = u.onFrame
      /\ p.up = u.up /\ p.frame = u.frame
  BY <1>2, <1>3, PushLoses, PushDoes
<1> HIDE DEF p
<1>5. Spares(u, p, w)
  BY <1>4 DEF Spares, HasFocus, Viewable, Managed, Loses
<1>6. Loses(p, r) /\ Spares(p, r, w)
  BY <1>4, RevertLoses DEF Spares
<1> HIDE DEF r
<1>7. Loses(s, r) /\ Spares(s, r, w)
  BY <1>1, <1>2, <1>4, <1>5, <1>6, LosesTrans, SparesTrans
<1>8. Loses(s, s) /\ Spares(s, s, w)
  BY SameLoses DEF Spares
<1> QED BY <1>0, <1>1, <1>7, <1>8

LEMMA UnmapFrameLoses ==
  ASSUME NEW s \in Sys, NEW w \in Windows
  PROVE  Loses(s, UnmapFrame(s, w)) /\ Spares(s, UnmapFrame(s, w), w)
<1> DEFINE m == [s EXCEPT !.fmapped[w] = FALSE]
           u == [m EXCEPT !.frame[w] = FALSE]
           p == Push(u, "UnmapFrame", w)
           r == Revert(p)
<1>0. UnmapFrame(s, w) = IF ~s.fmapped[w] THEN s ELSE IF ~s.frame[w] THEN m ELSE r
  <2>1. m.frame[w] = s.frame[w]
    BY DEF Sys
  <2> QED BY <2>1 DEF UnmapFrame
<1>1. m \in Sys /\ Loses(s, m) /\ Spares(s, m, w)
  BY FlagsLose
<1> HIDE DEF m
<1>2. u \in Sys /\ Loses(m, u) /\ Spares(m, u, w)
  BY <1>1, FlagsLose
<1> HIDE DEF u
<1>3. Event("UnmapFrame", w) \in Events
  BY WatchedEvents
<1>4. /\ Loses(u, p) /\ p \in Sys /\ p.focus = u.focus /\ p.onFrame = u.onFrame
      /\ p.up = u.up /\ p.frame = u.frame
  BY <1>2, <1>3, PushLoses, PushDoes
<1> HIDE DEF p
<1>5. Spares(u, p, w)
  BY <1>4 DEF Spares, HasFocus, Viewable, Managed, Loses
<1>6. Loses(p, r) /\ Spares(p, r, w)
  BY <1>4, RevertLoses DEF Spares
<1> HIDE DEF r
<1>7. Loses(s, r) /\ Spares(s, r, w)
  BY <1>1, <1>2, <1>4, <1>5, <1>6, LosesTrans, SparesTrans
<1>8. Loses(s, s) /\ Spares(s, s, w)
  BY SameLoses DEF Spares
<1> QED BY <1>0, <1>1, <1>7, <1>8

LEMMA PlaceLoses ==
  ASSUME NEW s, NEW t \in Sys, NEW w \in Windows
  PROVE  Loses(t, Place(s, t, w))
<1>1. CASE s.view[w] = s.selview
  <2>1. Loses(t, MapWin(t, w)) /\ MapWin(t, w) \in Sys
    BY MapWinLoses, MapWinOk DEF MapWinDoes, Around
  <2>2. Loses(MapWin(t, w), MapFrame(MapWin(t, w), w))
    BY <2>1, MapFrameLoses
  <2> QED BY <1>1, <2>1, <2>2, LosesTrans DEF Place
<1>2. CASE s.view[w] # s.selview
  <2>1. Loses(t, UnmapFrame(t, w)) /\ UnmapFrame(t, w) \in Sys
    BY UnmapFrameLoses, UnmapFrameOk DEF UnmapFrameDoes, Around
  <2>2. Loses(UnmapFrame(t, w), UnmapWin(UnmapFrame(t, w), w))
    BY <2>1, UnmapWinLoses
  <2> QED BY <1>2, <2>1, <2>2, LosesTrans DEF Place
<1> QED BY <1>1, <1>2

(* view_update gives the focus to the selected client of the view.         *)
LEMMA UpdateAttends ==
  ASSUME NEW s \in Sys, NEW X, Believes(s, X),
         s.sel[s.selview] \in (Managed(s) \ X) \cup {"nil"}
  PROVE  LET r == ViewUpdate(s)
         IN  /\ Current(r, X) /\ Attends(r, s.sel[s.selview])
             /\ r.sel = s.sel /\ r.selview = s.selview
             /\ r.focus \in {s.focus, "root", "none", "bar", s.sel[s.selview]}
<1> DEFINE n == Len(s.client)
           c == s.sel[s.selview]
           r == ViewUpdate(s)
<1>1. PICK placed : UpdateRun(s, placed)
  BY UpdateRuns
<1>2. n \in Nat /\ \A i \in 1 .. n : s.client[i] \in Windows
  BY FieldsOf
<1>3. /\ r = ClientFocus(placed[n], c) /\ placed[0] = s
      /\ \A i \in 1 .. n : placed[i] = Place(s, placed[i - 1], s.client[i])
      /\ \A i \in 0 .. n : placed[i] \in Sys
  BY <1>1 DEF UpdateRun
<1> DEFINE G == {m \in 0 .. n : Loses(s, placed[m])}
<1>4. 0 \in G
  BY <1>2, <1>3, SameLoses
<1>5. \A m \in 0 .. n - 1 : m \in G => m + 1 \in G
  <2> SUFFICES ASSUME NEW m \in 0 .. n - 1, m \in G PROVE m + 1 \in G
    OBVIOUS
  <2>1. m + 1 \in 0 .. n /\ m + 1 \in 1 .. n /\ (m + 1) - 1 = m /\ m \in 0 .. n
    BY <1>2
  <2>2. placed[m + 1] = Place(s, placed[m], s.client[m + 1]) /\ placed[m] \in Sys
    BY <1>3, <2>1
  <2>3. Loses(placed[m], placed[m + 1])
    BY <1>2, <2>1, <2>2, PlaceLoses
  <2>4. Loses(s, placed[m])
    BY DEF G
  <2>5. Loses(s, placed[m + 1])
    BY <2>3, <2>4, LosesTrans
  <2> QED BY <2>1, <2>5
<1> HIDE DEF G, n
<1>6. n \in G
  BY <1>2, <1>4, <1>5, UpTo
<1> DEFINE p == placed[n]
<1>7. Loses(s, p) /\ p \in Sys
  BY <1>2, <1>3, <1>6 DEF G
<1> HIDE DEF p
<1>8. Lively(p, p.queue, X)
  BY <1>7, LosesBelieves DEF Believes
<1>9. c \in (Managed(p) \ X) \cup {"nil"} /\ p.sel = s.sel
  BY <1>7 DEF Loses, Managed
<1>10. r = ClientFocus(p, c)
  BY <1>3 DEF p
<1> HIDE DEF c, r
<1>11. Current(r, X) /\ Attends(r, c) /\ r.sel = s.sel /\ r.focus \in {p.focus, "bar", c}
  BY <1>7, <1>8, <1>9, <1>10, ClientFocusAttends
<1>111. p.focus \in {s.focus, "root", "none"}
  BY <1>7 DEF Loses
<1>12. ViewUpdate(s).selview = s.selview
  BY ViewUpdateOk DEF Arranged, SameSet
<1> QED BY <1>11, <1>111, <1>12 DEF c, r

-----------------------------------------------------------------------------
(* The selected client is served, as far as that is up to wmii.            *)

(* A view with clients has a selected one.                                 *)
Chosen(s) ==
  \A v \in Views :
    IF s.sel[v] = "nil" THEN \A c \in Managed(s) : s.view[c] # v
    ELSE s.sel[v] \in Managed(s) /\ s.view[s.sel[v]] = v

Told(s) == \A w \in Managed(s) : ~s.exists[w] => Has(s, "Destroy", w)

(* A client that takes the focus by itself.                                *)
Rival(s) == \E w \in Managed(s) \cap TakeFocus : s.view[w] = s.selview

Served(s) ==
  LET c == s.sel[s.selview]
  IN  /\ c = "nil" => s.focus = "bar"
      /\ c \in Takers /\ Viewable(s, c) => HasFocus(s, c) \/ Rival(s) \/ Mistaken(s, c)

Focused(s) == Believes(s, {}) /\ Chosen(s) /\ Told(s) /\ Served(s)

LEMMA LivelyOf ==
  ASSUME NEW s, NEW t, NEW q, NEW X, Lively(s, q, X),
         t.client = s.client, t.dfocus = s.dfocus, t.focus = s.focus, t.onFrame = s.onFrame
  PROVE  Lively(t, q, X)
  BY DEF Lively, Knows, Tracks, HasFocus, Managed

LEMMA SameBelieves ==
  ASSUME NEW s, NEW t, NEW X, Believes(s, X),
         t.client = s.client, t.dfocus = s.dfocus, t.focus = s.focus,
         t.onFrame = s.onFrame, t.queue = s.queue
  PROVE  Believes(t, X)
  BY LivelyOf DEF Believes

LEMMA SelectedOne ==
  ASSUME NEW s \in Sys, Chosen(s)
  PROVE  /\ s.sel[s.selview] \in Managed(s) \cup {"nil"}
         /\ \A c \in Managed(s) : c \in Windows /\ c # "nil"
<1>1. s.selview \in Views /\ \A c \in Managed(s) : c \in Windows
  BY FieldsOf DEF Managed, ToSet
<1>2. \A c \in Managed(s) : c # "nil"
  BY <1>1, Apart
<1>3. s.sel[s.selview] \in Managed(s) \cup {"nil"}
  BY <1>1 DEF Chosen
<1> QED BY <1>1, <1>2, <1>3

LEMMA DestroyWatched == \A w \in Windows : Event("Destroy", w) \in Watched
  BY WatchedEvents

(* What was told is not forgotten.                                         *)
LEMMA ToldOf ==
  ASSUME NEW s, NEW t, NEW P, Told(s), t.exists = s.exists, Managed(t) = Managed(s),
         Managed(s) \subseteq Windows, Adds(s.queue, t.queue, P)
  PROVE  Told(t)
  BY DestroyWatched DEF Told, Has, Adds

(* view_update and client_focus serve the selected client.                 *)
LEMMA UpdateFocused ==
  ASSUME NEW s \in Sys, Believes(s, {}), Chosen(s), Told(s)
  PROVE  Focused(ViewUpdate(s)) /\ ViewUpdate(s).selview = s.selview
<1> DEFINE r == ViewUpdate(s)
           c == s.sel[s.selview]
<1>1. c \in Managed(s) \cup {"nil"} /\ Managed(s) \subseteq Windows
  BY SelectedOne
<1>2. Current(r, {}) /\ Attends(r, c) /\ r.sel = s.sel /\ r.selview = s.selview
  <2> HIDE DEF c
  <2>1. c \in (Managed(s) \ {}) \cup {"nil"}
    BY <1>1
  <2> QED BY <2>1, UpdateAttends DEF c
<1>3. Arranged(s, r, Managed(s))
  BY ViewUpdateOk
<1> HIDE DEF r
<1>4. /\ r.exists = s.exists /\ Managed(r) = Managed(s) /\ r.view = s.view
      /\ Adds(s.queue, r.queue, Unmaps(s))
  BY <1>3 DEF Arranged, SameSet, Managed
<1>5. Told(r)
  BY <1>1, <1>4, ToldOf
<1>6. Chosen(r) /\ Served(r)
  BY <1>2, <1>4 DEF Chosen, Served, Attends
<1>7. Believes(r, {})
  BY <1>2, CurrentBelieves
<1> QED BY <1>2, <1>5, <1>6, <1>7 DEF Focused, r

LEMMA ClientFocusFocused ==
  ASSUME NEW s \in Sys, Believes(s, {}), Chosen(s), Told(s), NEW c, c = s.sel[s.selview]
  PROVE  Focused(ClientFocus(s, c))
<1> DEFINE r == ClientFocus(s, c)
<1>1. c \in (Managed(s) \ {}) \cup {"nil"} /\ Managed(s) \subseteq Windows
  BY SelectedOne
<1>2. Current(r, {}) /\ Attends(r, c) /\ r.sel = s.sel
  BY <1>1, ClientFocusAttends DEF Believes
<1>3. Aside(s, r)
  BY <1>1, ClientFocusAside
<1> HIDE DEF r
<1>4. /\ r.exists = s.exists /\ Managed(r) = Managed(s) /\ r.view = s.view
      /\ r.selview = s.selview /\ Adds(s.queue, r.queue, {})
  BY <1>3 DEF Aside, SameShow, Managed
<1>5. Told(r)
  BY <1>1, <1>4, ToldOf
<1>6. Chosen(r) /\ Served(r)
  BY <1>2, <1>4 DEF Chosen, Served, Attends
<1>7. Believes(r, {})
  BY <1>2, CurrentBelieves
<1> QED BY <1>5, <1>6, <1>7 DEF Focused, r

(* What else may lose the focus does not take it from the selected client. *)
LEMMA LosesFocused ==
  ASSUME NEW s, NEW t, Focused(s), Loses(s, t), t.view = s.view, t.selview = s.selview,
         Told(t),
         \A c \in Takers : Viewable(t, c) =>
           Viewable(s, c) /\ (HasFocus(s, c) => HasFocus(t, c))
  PROVE  Focused(t)
<1>1. Believes(t, {})
  BY LosesBelieves DEF Focused
<1>2. Managed(t) = Managed(s) /\ t.sel = s.sel
  BY DEF Loses, Managed
<1>3. Chosen(t)
  BY <1>2 DEF Chosen, Focused
<1>4. s.focus = "bar" => t.focus = "bar"
  BY Apart DEF Loses
<1>5. /\ Rival(s) => Rival(t)
      /\ \A c \in Takers : Mistaken(s, c) => Mistaken(t, c)
  BY <1>2, LosesMistaken DEF Rival
<1>6. Served(t)
  BY <1>2, <1>4, <1>5 DEF Served, Focused
<1> QED BY <1>1, <1>3, <1>6 DEF Focused

-----------------------------------------------------------------------------
(* One event, read.                                                        *)

ReadOf(s) == [s EXCEPT !.queue = Tail(@)]

LEMMA ReadOfIs ==
  ASSUME NEW s \in Sys, s.queue # <<>>
  PROVE  LET t == ReadOf(s)
         IN  /\ t \in Sys /\ t.client = s.client /\ t.dfocus = s.dfocus /\ t.focus = s.focus
             /\ t.onFrame = s.onFrame /\ t.sel = s.sel /\ t.view = s.view
             /\ t.selview = s.selview /\ t.exists = s.exists
             /\ t.up = s.up /\ t.frame = s.frame /\ t.queue = Tail(s.queue)
             /\ Managed(t) = Managed(s)
             /\ \A a : In(s.queue, a) <=> a = Head(s.queue) \/ In(t.queue, a)
             /\ \A a, b : Before(t.queue, a, b) => Before(s.queue, a, b)
             /\ \A b : In(t.queue, b) => Before(s.queue, Head(s.queue), b)
<1> DEFINE r == Tail(s.queue)
           t == ReadOf(s)
<1>1. Reads(s, t, Head(s.queue))
  BY HeadRead DEF ReadOf
<1>2. t = [s EXCEPT !.queue = r]
  BY DEF ReadOf
<1> HIDE DEF r
<1>3. /\ t.client = s.client /\ t.dfocus = s.dfocus /\ t.focus = s.focus
      /\ t.onFrame = s.onFrame /\ t.sel = s.sel /\ t.view = s.view
      /\ t.selview = s.selview /\ t.exists = s.exists
      /\ t.up = s.up /\ t.frame = s.frame /\ t.queue = r
  BY <1>2 DEF Sys
<1> HIDE DEF t
<1>4. Managed(t) = Managed(s)
  BY <1>3 DEF Managed
<1> QED BY <1>1, <1>3, <1>4 DEF t, r, Reads

(* An event that is not about the focus.                                   *)
LEMMA ReadBelieves ==
  ASSUME NEW s \in Sys, s.queue # <<>>, Focused(s), ~IsFocus(Head(s.queue))
  PROVE  /\ Believes(ReadOf(s), {}) /\ Chosen(ReadOf(s)) /\ Served(ReadOf(s))
         /\ \A w \in Managed(s) : ~s.exists[w] /\ Head(s.queue) # Event("Destroy", w)
                                    => Has(ReadOf(s), "Destroy", w)
<1> DEFINE t == ReadOf(s)
           h == Head(s.queue)
<1>1. /\ t \in Sys /\ t.client = s.client /\ t.dfocus = s.dfocus /\ t.focus = s.focus
      /\ t.onFrame = s.onFrame /\ t.sel = s.sel /\ t.view = s.view
      /\ t.selview = s.selview /\ t.exists = s.exists
      /\ t.up = s.up /\ t.frame = s.frame /\ t.queue = Tail(s.queue)
      /\ Managed(t) = Managed(s)
      /\ \A a : In(s.queue, a) <=> a = h \/ In(t.queue, a)
      /\ \A a, b : Before(t.queue, a, b) => Before(s.queue, a, b)
  BY ReadOfIs
<1> HIDE DEF t
<1>2. s.queue \in Seq(Events) /\ Lively(s, s.queue, {})
  BY FieldsOf DEF Focused, Believes
<1>3. Lively(s, t.queue, {})
  <2> DEFINE P == s.queue
  <2>1. P \in Seq(Events) /\ P # <<>> /\ Lively(s, P, {}) /\ ~IsFocus(Head(P))
    BY <1>2
  <2> HIDE DEF P
  <2>2. Lively(s, Tail(P), {})
    BY <2>1, TailLively
  <2> QED BY <2>2, <1>1 DEF P
<1>4. Lively(t, t.queue, {})
  BY <1>1, <1>3, LivelyOf
<1>5. Believes(t, {})
  BY <1>1, <1>4 DEF Focused, Believes
<1>6. Chosen(t)
  BY <1>1 DEF Focused, Chosen
<1>61. \A c : Mistaken(s, c) => Mistaken(t, c)
  BY <1>1 DEF Mistaken, Pending
<1>7. Served(t)
  BY <1>1, <1>61 DEF Focused, Served, Viewable, HasFocus, Rival
<1>8. \A w \in Managed(s) : ~s.exists[w] /\ h # Event("Destroy", w) => Has(t, "Destroy", w)
  BY <1>1 DEF Focused, Told, Has
<1> QED BY <1>5, <1>6, <1>7, <1>8 DEF t

LEMMA ReadFocused ==
  ASSUME NEW s \in Sys, s.queue # <<>>, Focused(s), ~IsFocus(Head(s.queue)),
         \A w \in Managed(s) : Head(s.queue) # Event("Destroy", w)
  PROVE  Focused(ReadOf(s))
<1>1. ReadOf(s).exists = s.exists /\ Managed(ReadOf(s)) = Managed(s)
  BY ReadOfIs
<1> QED BY <1>1, ReadBelieves DEF Focused, Told

(* An event about the focus.                                               *)
LEMMA NoticeFocused ==
  ASSUME NEW s \in Sys, s.queue # <<>>, Focused(s), IsFocus(Head(s.queue))
  PROVE  Focused(FocusEvent(ReadOf(s), Head(s.queue)))
<1> DEFINE t == ReadOf(s)
           h == Head(s.queue)
           u == FocusEvent(t, h)
<1>1. /\ t \in Sys /\ t.client = s.client /\ t.dfocus = s.dfocus /\ t.focus = s.focus
      /\ t.onFrame = s.onFrame /\ t.sel = s.sel /\ t.view = s.view
      /\ t.selview = s.selview /\ t.exists = s.exists
      /\ t.up = s.up /\ t.frame = s.frame /\ t.queue = Tail(s.queue)
      /\ Managed(t) = Managed(s)
      /\ \A a : In(s.queue, a) <=> a = h \/ In(t.queue, a)
      /\ \A a, b : Before(t.queue, a, b) => Before(s.queue, a, b)
  BY ReadOfIs
<1> HIDE DEF t
<1>2. h \in Events /\ s.queue \in Seq(Events)
  BY FieldsOf, InTail
<1>3. Lively(t, s.queue, {})
  BY <1>1, LivelyOf DEF Focused, Believes
<1>4. Lively(u, t.queue, {}) /\ Minds(t, u, {})
  BY <1>1, <1>2, <1>3, EventLively
<1>5. Aside(t, u)
  BY <1>1, <1>2, FocusEventAside
<1>51. ASSUME NEW c \in Takers, Mistaken(s, c) PROVE Mistaken(u, c)
  <2>1. h = Came(h.win) \/ h = Went(h.win)
    BY <1>2, FocusTypes
  <2>2. h.win \in Sources /\ In(s.queue, h)
    BY <1>1, <1>2 DEF Events, Watched, Others, IsFocus, Sources
  <2> HIDE DEF u, h
  <2>3. h = Went(h.win) /\ h.win # t.dfocus
    BY <1>1, <1>51, <2>1, <2>2 DEF Mistaken, Pending
  <2>4. u = t
    BY <2>3, FocusTypes DEF FocusEvent, FocusOut, u
  <2> QED BY <1>1, <1>51, <2>4 DEF Mistaken, Pending
<1> HIDE DEF u, h
<1>6. /\ u.client = s.client /\ u.sel = s.sel /\ u.view = s.view /\ u.selview = s.selview
      /\ u.exists = s.exists /\ Managed(u) = Managed(s) /\ u.up = s.up /\ u.frame = s.frame
      /\ Adds(t.queue, u.queue, {})
  BY <1>1, <1>4, <1>5 DEF Minds, Aside, SameShow, Managed
<1>7. /\ \A e : In(t.queue, e) => In(u.queue, e)
      /\ \A x : In(u.queue, Came(x)) => x = "bar" \/ In(t.queue, Came(x))
      /\ \A a, x : Before(u.queue, a, Came(x)) => x = "bar" \/ Before(t.queue, a, Came(x))
      /\ u.queue = t.queue \/ u.focus = "bar"
  BY <1>4 DEF Minds
<1>8. Lively(u, u.queue, {})
  <2>01. Pending(t.queue) => Pending(u.queue)
    BY <1>7 DEF Pending
  <2>02. u.queue = t.queue \/ u.focus \notin Windows
    BY <1>7, Apart
  <2>03. Tracks(u, u.queue)
    BY <1>4, <2>01, <2>02 DEF Lively, Tracks
  <2>1. \A c \in Takers \ {} : Knows(u, u.queue, c)
    BY <1>4, <1>7, <2>01, Apart DEF Lively, Knows, Takers
  <2>2. In(u.queue, Came("none")) => u.focus \notin Takers
    BY <1>4, <1>7, Apart DEF Lively
  <2>3. u.focus = "bar" \/ (u.dfocus # "nil" /\ ~In(u.queue, Came("bar"))) \/ Turned(u.queue)
    BY <1>4, <1>7 DEF Lively
  <2>4. \A x \in Windows : In(u.queue, Came(x)) => x \in Managed(u)
    BY <1>4, <1>7, Apart DEF Lively
  <2> QED BY <2>03, <2>1, <2>2, <2>3, <2>4 DEF Lively
<1>9. Believes(u, {})
  <2>1. \A c \in Takers : ~In(u.queue, Came(c))
    BY <1>1, <1>7, Apart DEF Focused, Believes, Takers
  <2>2. \A w \in Windows, x \in {"SentUnmap", "Destroy"} : ~Before(u.queue, Event(x, w), Came(w))
    BY <1>1, <1>7, Apart DEF Focused, Believes
  <2> QED BY <1>8, <2>1, <2>2 DEF Believes
<1>10. Chosen(u)
  BY <1>6 DEF Focused, Chosen
<1>11. Told(u)
  <2>1. \A w : Event("Destroy", w) # h
    BY FocusTypes DEF h, Event, IsFocus
  <2>2. Told(t)
    BY <1>1, <2>1 DEF Focused, Told, Has
  <2>3. Managed(t) \subseteq Windows
    BY <1>1, FieldsOf DEF Managed, ToSet
  <2> QED BY <1>1, <1>6, <2>2, <2>3, ToldOf
<1>12. Served(u)
  <2>1. (s.focus = "bar" => u.focus = "bar") /\ \A c \in Takers : HasFocus(s, c) => HasFocus(u, c)
    BY <1>1, <1>4 DEF Minds, HasFocus
  <2>2. \A c : Viewable(u, c) <=> Viewable(s, c)
    BY <1>6 DEF Viewable
  <2>3. Rival(u) <=> Rival(s)
    BY <1>6 DEF Rival
  <2> QED BY <1>51, <1>6, <2>1, <2>2, <2>3 DEF Focused, Served
<1> QED BY <1>9, <1>10, <1>11, <1>12 DEF Focused, u, h, t

-----------------------------------------------------------------------------
(* Programs and the pointer.                                               *)

LEMMA PushFocused ==
  ASSUME NEW s \in Sys, Focused(s), NEW w \in Windows,
         NEW x \in {"MapRequest", "SentUnmap", "Enter"}
  PROVE  Focused(Push(s, x, w))
<1> DEFINE t == Push(s, x, w)
<1>1. Event(x, w) \in Events /\ x # "FocusIn"
  BY WatchedEvents
<1>2. /\ Loses(s, t) /\ t.focus = s.focus /\ t.onFrame = s.onFrame
      /\ t.frame = s.frame /\ t.up = s.up /\ t.view = s.view /\ t.selview = s.selview
      /\ t.exists = s.exists /\ \A e : In(s.queue, e) => In(t.queue, e)
  BY <1>1, PushLoses
<1> HIDE DEF t
<1>3. Managed(t) = Managed(s)
  BY <1>2 DEF Loses, Managed
<1>4. Told(t)
  BY <1>2, <1>3 DEF Focused, Told, Has
<1>5. \A c \in Takers : Viewable(t, c) => Viewable(s, c) /\ (HasFocus(s, c) => HasFocus(t, c))
  BY <1>2, <1>3 DEF Viewable, HasFocus
<1>6. Focused(t)
  BY <1>2, <1>4, <1>5, LosesFocused
<1> QED BY <1>6 DEF t

(* The window w is down; in p the server has said so, if it was up.        *)
LEMMA DownFocused ==
  ASSUME NEW s \in Sys, Focused(s), NEW w \in Windows, NEW p \in Sys,
         Loses(s, p), p.focus = s.focus, p.onFrame = s.onFrame, p.frame = s.frame,
         p.view = s.view, p.selview = s.selview,
         ~p.up[w], \A x \in Windows \ {w} : p.up[x] = s.up[x],
         \A x \in Managed(s) \ {w} : ~p.exists[x] => Has(p, "Destroy", x)
  PROVE  LET r == Revert(p)
         IN  /\ Loses(s, r) /\ r \in Sys /\ SameShow(p, r)
             /\ \A c \in Takers : Viewable(r, c) =>
                  Viewable(s, c) /\ (HasFocus(s, c) => HasFocus(r, c))
             /\ \A x \in Managed(s) \ {w} : ~r.exists[x] => Has(r, "Destroy", x)
             /\ Has(p, "Destroy", w) => Has(r, "Destroy", w)
<1> DEFINE r == Revert(p)
<1>1. /\ Loses(p, r)
      /\ \A c \in Windows : HasFocus(p, c) /\ Viewable(p, c) => r = p
  BY RevertLoses
<1>2. Aside(p, r)
  BY RevertAside
<1> HIDE DEF r
<1>3. Loses(s, r)
  BY <1>1, LosesTrans
<1>4. SameShow(p, r) /\ r \in Sys /\ \A x \in Windows : Has(p, "Destroy", x) => Has(r, "Destroy", x)
  BY <1>2, DestroyWatched DEF Aside, Adds, Has
<1>5. Managed(s) \subseteq Windows /\ Managed(p) = Managed(s) /\ Managed(r) = Managed(p)
  BY <1>1, FieldsOf DEF Managed, ToSet, Loses
<1>6. \A c \in Takers : Viewable(r, c) =>
        Viewable(s, c) /\ (HasFocus(s, c) => HasFocus(r, c))
  <2> SUFFICES ASSUME NEW c \in Takers, Viewable(r, c)
               PROVE  Viewable(s, c) /\ (HasFocus(s, c) => HasFocus(r, c))
    OBVIOUS
  <2>1. c \in Windows /\ c # w /\ Viewable(p, c)
    BY <1>4, <1>5 DEF Takers, Viewable, SameShow
  <2>2. Viewable(s, c)
    BY <2>1, <1>5 DEF Viewable
  <2>3. HasFocus(s, c) => HasFocus(p, c)
    BY DEF HasFocus
  <2> QED BY <1>1, <2>1, <2>2, <2>3
<1>7. \A x \in Managed(s) \ {w} : ~r.exists[x] => Has(r, "Destroy", x)
  BY <1>4, <1>5 DEF SameShow
<1> QED BY <1>3, <1>4, <1>6, <1>7 DEF r

LEMMA AppUnmapFocused ==
  ASSUME NEW s \in Sys, Focused(s), NEW w \in Windows, s.exists[w]
  PROVE  Focused(Revert(Push([s EXCEPT !.up[w] = FALSE], "Unmap", w)))
<1> DEFINE m == [s EXCEPT !.up[w] = FALSE]
           p == Push(m, "Unmap", w)
           r == Revert(p)
<1>1. m \in Sys /\ Loses(s, m)
  BY FlagsLose
<1>2. /\ m.exists = s.exists /\ m.focus = s.focus /\ m.onFrame = s.onFrame /\ m.frame = s.frame
      /\ m.view = s.view /\ m.selview = s.selview /\ m.queue = s.queue
      /\ ~m.up[w] /\ \A x \in Windows \ {w} : m.up[x] = s.up[x]
  BY DEF Sys
<1> HIDE DEF m
<1>3. Event("Unmap", w) \in Events
  BY WatchedEvents
<1>4. /\ Loses(m, p) /\ p \in Sys /\ p.focus = m.focus /\ p.onFrame = m.onFrame
      /\ p.frame = m.frame /\ p.up = m.up /\ p.view = m.view /\ p.selview = m.selview
      /\ p.exists = m.exists /\ \A e : In(m.queue, e) => In(p.queue, e)
  BY <1>1, <1>3, PushLoses, PushDoes
<1> HIDE DEF p
<1>5. Loses(s, p)
  BY <1>1, <1>4, LosesTrans
<1>6. \A x \in Managed(s) : ~p.exists[x] => Has(p, "Destroy", x)
  BY <1>2, <1>4 DEF Focused, Told, Has
<1>7. /\ Loses(s, r) /\ r \in Sys /\ SameShow(p, r)
      /\ \A c \in Takers : Viewable(r, c) =>
           Viewable(s, c) /\ (HasFocus(s, c) => HasFocus(r, c))
      /\ \A x \in Managed(s) \ {w} : ~r.exists[x] => Has(r, "Destroy", x)
  BY <1>2, <1>4, <1>5, <1>6, DownFocused
<1> HIDE DEF r
<1>8. r.exists = s.exists /\ r.view = s.view /\ r.selview = s.selview /\ Managed(r) = Managed(s)
  BY <1>2, <1>4, <1>7 DEF SameShow, Loses, Managed
<1>9. Told(r)
  BY <1>7, <1>8 DEF Told
<1>10. Focused(r)
  BY <1>7, <1>8, <1>9, LosesFocused
<1> QED BY <1>10 DEF r, p, m

LEMMA AppDestroyFocused ==
  ASSUME NEW s \in Sys, Focused(s), NEW w \in Windows
  PROVE  LET gone == [s EXCEPT !.exists[w] = FALSE, !.up[w] = FALSE]
         IN  Focused(Push(Revert(IF s.up[w] THEN Push(gone, "Unmap", w) ELSE gone), "Destroy", w))
<1> DEFINE gone == [s EXCEPT !.exists[w] = FALSE, !.up[w] = FALSE]
           p == IF s.up[w] THEN Push(gone, "Unmap", w) ELSE gone
           r == Revert(p)
           t == Push(r, "Destroy", w)
<1>1. /\ gone \in Sys /\ gone.focus = s.focus /\ gone.onFrame = s.onFrame
      /\ gone.frame = s.frame /\ gone.view = s.view /\ gone.selview = s.selview
      /\ gone.queue = s.queue /\ gone.client = s.client /\ gone.dfocus = s.dfocus
      /\ gone.sel = s.sel
      /\ ~gone.up[w] /\ \A x \in Windows \ {w} : gone.up[x] = s.up[x] /\ gone.exists[x] = s.exists[x]
  BY DEF Sys
<1> HIDE DEF gone
<1>2. Loses(s, gone)
  BY <1>1, SameLoses
<1>3. Event("Unmap", w) \in Events /\ Event("Destroy", w) \in Events
  BY WatchedEvents
<1> DEFINE u == Push(gone, "Unmap", w)
<1>4. /\ Loses(gone, u) /\ u \in Sys /\ u.focus = gone.focus /\ u.onFrame = gone.onFrame
      /\ u.frame = gone.frame /\ u.up = gone.up /\ u.view = gone.view
      /\ u.selview = gone.selview /\ u.exists = gone.exists
      /\ \A e : In(gone.queue, e) => In(u.queue, e)
  <2> DEFINE x == "Unmap"
  <2>1. Event(x, w) \in Events /\ x \notin {"FocusIn", "FocusOut"}
    BY <1>3
  <2> HIDE DEF x
  <2>2. Push(gone, x, w) \in Sys
    BY <1>1, <2>1, PushDoes
  <2>3. /\ Loses(gone, Push(gone, x, w))
        /\ Push(gone, x, w).focus = gone.focus /\ Push(gone, x, w).onFrame = gone.onFrame
        /\ Push(gone, x, w).frame = gone.frame /\ Push(gone, x, w).up = gone.up
        /\ Push(gone, x, w).view = gone.view /\ Push(gone, x, w).selview = gone.selview
        /\ Push(gone, x, w).exists = gone.exists
        /\ \A e : In(gone.queue, e) => In(Push(gone, x, w).queue, e)
    BY <1>1, <2>1, PushLoses
  <2> QED BY <2>2, <2>3 DEF x
<1>5. /\ Loses(gone, p) /\ p \in Sys /\ p.focus = gone.focus /\ p.onFrame = gone.onFrame
      /\ p.frame = gone.frame /\ p.up = gone.up /\ p.view = gone.view
      /\ p.selview = gone.selview /\ p.exists = gone.exists
      /\ \A e : In(gone.queue, e) => In(p.queue, e)
  <2>1. CASE s.up[w]
    BY <2>1, <1>4
  <2>2. CASE ~s.up[w]
    <3>1. p = gone
      BY <2>2
    <3>2. Loses(gone, gone)
      BY SameLoses
    <3> HIDE DEF p
    <3> QED BY <3>1, <3>2, <1>1
  <2> QED BY <2>1, <2>2
<1> HIDE DEF p
<1>6. Loses(s, p)
  BY <1>2, <1>5, LosesTrans
<1>7. \A x \in Managed(s) \ {w} : ~p.exists[x] => Has(p, "Destroy", x)
  <2>1. Managed(s) \subseteq Windows
    BY FieldsOf DEF Managed, ToSet
  <2> QED BY <2>1, <1>1, <1>5 DEF Focused, Told, Has
<1>8. /\ Loses(s, r) /\ r \in Sys /\ SameShow(p, r)
      /\ \A c \in Takers : Viewable(r, c) =>
           Viewable(s, c) /\ (HasFocus(s, c) => HasFocus(r, c))
      /\ \A x \in Managed(s) \ {w} : ~r.exists[x] => Has(r, "Destroy", x)
  BY <1>1, <1>5, <1>6, <1>7, DownFocused
<1> HIDE DEF r
<1>9. /\ Loses(r, t) /\ t.focus = r.focus /\ t.onFrame = r.onFrame
      /\ t.frame = r.frame /\ t.up = r.up /\ t.view = r.view /\ t.selview = r.selview
      /\ t.exists = r.exists /\ In(t.queue, Event("Destroy", w))
      /\ \A e : In(r.queue, e) => In(t.queue, e)
  BY <1>3, <1>8, PushLoses
<1> HIDE DEF t
<1>10. Loses(s, t) /\ t.view = s.view /\ t.selview = s.selview
       /\ Managed(t) = Managed(s) /\ Managed(r) = Managed(s)
  <2>1. Loses(s, t)
    BY <1>8, <1>9, LosesTrans
  <2> QED BY <2>1, <1>1, <1>5, <1>8, <1>9 DEF SameShow, Loses, Managed
<1>11. Told(t)
  BY <1>8, <1>9, <1>10 DEF Told, Has
<1>12. \A c \in Takers : Viewable(t, c) => Viewable(s, c) /\ (HasFocus(s, c) => HasFocus(t, c))
  BY <1>8, <1>9, <1>10 DEF Viewable, HasFocus
<1>13. Focused(t)
  BY <1>10, <1>11, <1>12, LosesFocused
<1> QED BY <1>13 DEF t, r, p, gone

(* The answer to WM_TAKE_FOCUS.                                            *)
LEMMA TakeFocused ==
  ASSUME NEW s \in Sys, Focused(s), NEW w \in TakeFocus,
         Viewable(s, w) => /\ Shows(s, w)
                           /\ ~Has(s, "SentUnmap", w) /\ ~Has(s, "Destroy", w)
  PROVE  Focused(SetFocus(s, w))
<1> DEFINE u == IF HasFocus(s, w) THEN s ELSE FocusTo(s, w)
           t == SetFocus(s, w)
<1>0. w \in Windows /\ w \notin Takers /\ w \in Ends
  BY Apart DEF Takers, Ends
<1>1. CASE ~Viewable(s, w)
  <2>1. t = s
    BY <1>0, <1>1 DEF SetFocus
  <2> QED BY <2>1
<1>2. CASE Viewable(s, w)
  <2>1. t = [u EXCEPT !.asked = {}]
    BY <1>2 DEF SetFocus, HasFocus
  <2>2. /\ u.client = s.client /\ u.sel = s.sel /\ u.dfocus = s.dfocus
        /\ Believes(u, {})
    <3>1. CASE HasFocus(s, w)
      BY <3>1 DEF Focused
    <3>2. CASE ~HasFocus(s, w)
      <4>1. u = FocusTo(s, w)
        BY <3>2
      <4> HIDE DEF u
      <4>2. /\ u.client = s.client /\ u.sel = s.sel /\ u.dfocus = s.dfocus
            /\ u.focus = w /\ ~u.onFrame
            /\ \A e : In(u.queue, e) <=> \/ In(s.queue, e)
                                         \/ (s.focus \in Windows /\ ~s.onFrame) /\ e = Went(s.focus)
                                         \/ w # "root" /\ e = Came(w)
            /\ \A a, y : Before(u.queue, a, Came(y))
                           => Before(s.queue, a, Came(y)) \/ (y = w /\ In(u.queue, a))
            /\ Turned(u.queue)
            /\ w # "root" => \A b : After(u.queue, Came(w), b)
        BY <1>0, <4>1, FocusToDoes
      <4>21. Pending(u.queue) /\ Tracks(u, u.queue)
        BY <1>0, <4>2, Apart DEF Pending, Sources, Tracks
      <4>3. \A y : In(u.queue, Came(y)) => In(s.queue, Came(y)) \/ y = w
        BY <4>2, FocusTypes
      <4>4. Managed(u) = Managed(s) /\ w \in Managed(s)
        BY <1>2, <4>2 DEF Managed, Shows
      <4>5. \A c \in Takers : ~In(u.queue, Came(c))
        BY <1>0, <4>3 DEF Focused, Believes
      <4>6. \A c \in Takers \ {} : Knows(u, u.queue, c)
        <5> SUFFICES ASSUME NEW c \in Takers PROVE Knows(u, u.queue, c)
          OBVIOUS
        <5>1. Knows(s, s.queue, c) /\ c \in Windows
          BY DEF Focused, Believes, Lively, Takers
        <5>2. HasFocus(s, c) => In(u.queue, Went(c))
          BY <4>2, <5>1 DEF HasFocus
        <5>3. In(s.queue, Went(c)) => In(u.queue, Went(c))
          BY <4>2
        <5> QED BY <4>2, <4>21, <4>4, <4>5, <5>1, <5>2, <5>3 DEF Knows
      <4>7. \A x \in Windows : In(u.queue, Came(x)) => x \in Managed(u)
        BY <4>3, <4>4 DEF Focused, Believes, Lively
      <4>8. Lively(u, u.queue, {})
        BY <1>0, <4>2, <4>21, <4>6, <4>7 DEF Lively
      <4>9. \A v \in Windows, x \in {"SentUnmap", "Destroy"} : ~Before(u.queue, Event(x, v), Came(v))
        <5> SUFFICES ASSUME NEW v \in Windows, NEW x \in {"SentUnmap", "Destroy"},
                            Before(u.queue, Event(x, v), Came(v))
                     PROVE  FALSE
          OBVIOUS
        <5>1. v = w /\ In(u.queue, Event(x, v))
          BY <4>2 DEF Focused, Believes
        <5>2. \A z : Event(x, v) # Came(z) /\ Event(x, v) # Went(z)
          BY DEF Came, Went, Event
        <5>3. In(s.queue, Event(x, v))
          BY <4>2, <5>1, <5>2
        <5> QED BY <1>2, <5>1, <5>3 DEF Has
      <4> QED BY <4>2, <4>5, <4>8, <4>9 DEF Believes
    <3> QED BY <3>1, <3>2
  <2>3. Aside(s, t)
    BY <1>0, SetFocusAside
  <2>4. u \in Sys
    BY <1>0, FocusToAside DEF Aside
  <2> HIDE DEF u
  <2>5. /\ t.client = u.client /\ t.sel = u.sel /\ t.dfocus = u.dfocus
        /\ t.focus = u.focus /\ t.onFrame = u.onFrame /\ t.queue = u.queue
    BY <2>1, <2>4 DEF Sys
  <2> HIDE DEF t
  <2>6. Believes(t, {})
    BY <2>2, <2>5, SameBelieves
  <2>7. /\ t.sel = s.sel /\ t.view = s.view /\ t.selview = s.selview /\ t.exists = s.exists
        /\ Managed(t) = Managed(s) /\ Adds(s.queue, t.queue, {})
    BY <2>2, <2>3, <2>5 DEF Aside, SameShow, Managed
  <2>8. Chosen(t)
    BY <2>7 DEF Focused, Chosen
  <2>9. Told(t)
    <3>1. Managed(s) \subseteq Windows
      BY FieldsOf DEF Managed, ToSet
    <3> QED BY <2>7, <3>1, ToldOf DEF Focused
  <2>10. Rival(t)
    BY <1>2, <2>7 DEF Rival, Shows
  <2>11. t.sel[t.selview] # "nil"
    <3>1. s.selview \in Views
      BY FieldsOf
    <3> QED BY <1>2, <2>7, <3>1 DEF Focused, Chosen, Shows
  <2>12. Served(t)
    BY <2>10, <2>11 DEF Served
  <2> QED BY <2>6, <2>8, <2>9, <2>12 DEF Focused, t
<1> QED BY <1>1, <1>2

-----------------------------------------------------------------------------
(* A new client, and another one selected.                                 *)

LEMMA CreateFocused ==
  ASSUME NEW s \in Sys, Focused(s), NEW w \in Windows \ Managed(s), s.exists[w],
         NEW again \in {FALSE, Reuse}
  PROVE  Focused(ClientCreate(s, w, again))
<1> DEFINE leader == IF w \in Grouped THEN GroupLeader(s) ELSE "nil"
           v == IF leader = "nil" THEN s.selview ELSE s.view[leader]
           k == Append(s.client, w)
           d == IF again /\ s.dfocus = "freed" THEN w ELSE s.dfocus
           b == [s EXCEPT !.client = k, !.mapped[w] = FALSE, !.fmapped[w] = FALSE,
                          !.frame[w] = FALSE, !.view[w] = v, !.sel[v] = w,
                          !.dfocus = d]
           a == Revert(b)
<1>1. v \in Views
  <2>1. leader \in Windows \cup {"nil"}
    BY LeaderOk
  <2>2. s.selview \in Views /\ s.view \in [Windows -> Views]
    BY FieldsOf
  <2> HIDE DEF leader
  <2> QED BY <2>1, <2>2
<1>2. ClientCreate(s, w, again) = ViewUpdate(a)
  BY DEF ClientCreate
<1> HIDE DEF v
<1>3. k \in Seq(Windows) /\ ToSet(k) = Managed(s) \cup {w}
  BY FieldsOf, ToSetAppend DEF Managed
<1>4. b \in Sys
  <2>1. d \in Windows \cup {"nil", "magic", "freed"}
    BY FieldsOf
  <2> HIDE DEF d
  <2>2. s \in Sys /\ w \in Windows
    OBVIOUS
  <2>3. Fresh(s, b, w)
    BY ONLY <1>1, <2>1, <2>2, FreshOk, Zenon
  <2> HIDE DEF b
  <2> QED BY <2>3 DEF Fresh
<1>41. d = s.dfocus \/ (Reuse /\ s.dfocus = "freed" /\ d = w)
  <2>1. CASE again = FALSE
    BY <2>1
  <2>2. CASE again = Reuse
    BY <2>2, Zenon
  <2> QED BY <2>1, <2>2
<1> HIDE DEF k, d
<1>5. /\ b.client = k /\ b.dfocus = d /\ b.focus = s.focus /\ b.onFrame = s.onFrame
      /\ b.queue = s.queue /\ b.exists = s.exists /\ b.selview = s.selview
      /\ b.view = [s.view EXCEPT ![w] = v] /\ b.sel = [s.sel EXCEPT ![v] = w]
  BY DEF Sys
<1> HIDE DEF b
<1>6. Managed(b) = Managed(s) \cup {w}
  BY <1>3, <1>5 DEF Managed
<1>7. Believes(b, {})
  <2>01. Tracks(s, s.queue)
    BY DEF Focused, Believes, Lively
  <2>02. Tracks(b, b.queue)
    BY <1>41, <1>5, <2>01, Apart DEF Tracks
  <2>1. \A c \in Takers \ {} : Knows(b, b.queue, c)
    <3> SUFFICES ASSUME NEW c \in Takers PROVE Knows(b, b.queue, c)
      OBVIOUS
    <3>1. Knows(s, s.queue, c)
      BY DEF Focused, Believes, Lively
    <3>2. CASE d = s.dfocus
      BY <3>1, <3>2, <1>5, <1>6 DEF Knows, HasFocus
    <3>3. CASE Reuse /\ s.dfocus = "freed" /\ d = w
      <4>1. s.focus \notin Windows \/ Pending(s.queue)
        BY <2>01, <3>3, Apart DEF Tracks
      <4> QED BY <3>1, <3>3, <4>1, <1>5, <1>6 DEF Knows, HasFocus
    <3> QED BY <1>41, <3>2, <3>3
  <2>11. b.focus = "bar" \/ (b.dfocus # "nil" /\ ~In(b.queue, Came("bar"))) \/ Turned(b.queue)
    BY <1>41, <1>5, Apart DEF Focused, Believes, Lively
  <2>2. Lively(b, b.queue, {})
    BY <1>5, <1>6, <2>02, <2>1, <2>11 DEF Focused, Believes, Lively
  <2> QED BY <1>5, <2>2 DEF Focused, Believes
<1>8. Chosen(b)
  <2> SUFFICES ASSUME NEW x \in Views
               PROVE  IF b.sel[x] = "nil" THEN \A c \in Managed(b) : b.view[c] # x
                      ELSE b.sel[x] \in Managed(b) /\ b.view[b.sel[x]] = x
    BY DEF Chosen
  <2>1. s.sel \in [Views -> Windows \cup {"nil"}] /\ s.view \in [Windows -> Views]
    BY FieldsOf
  <2>2. Managed(s) \subseteq Windows
    BY FieldsOf DEF Managed, ToSet
  <2>3. CASE x = v
    BY <1>5, <1>6, <2>1, <2>3, Apart
  <2>4. CASE x # v
    <3>1. b.sel[x] = s.sel[x] /\ b.view[w] # x
      BY <1>5, <2>1, <2>4
    <3>2. \A c \in Managed(s) : b.view[c] = s.view[c]
      BY <1>5, <2>1, <2>2
    <3>3. IF s.sel[x] = "nil" THEN \A c \in Managed(s) : s.view[c] # x
          ELSE s.sel[x] \in Managed(s) /\ s.view[s.sel[x]] = x
      BY DEF Focused, Chosen
    <3> QED BY <1>6, <3>1, <3>2, <3>3
  <2> QED BY <2>3, <2>4
<1>9. Told(b)
  BY <1>5, <1>6 DEF Focused, Told, Has
<1>10. Loses(b, a)
  BY <1>4, RevertLoses
<1>11. Aside(b, a)
  BY <1>4, RevertAside
<1> HIDE DEF a
<1>12. /\ a \in Sys /\ a.exists = b.exists /\ a.view = b.view /\ a.sel = b.sel
       /\ Managed(a) = Managed(b) /\ Adds(b.queue, a.queue, {})
  BY <1>10, <1>11 DEF Loses, Aside, SameShow, Managed
<1>13. Believes(a, {})
  BY <1>7, <1>10, LosesBelieves
<1>14. Chosen(a)
  BY <1>8, <1>12 DEF Chosen
<1>15. Told(a)
  <2>1. Managed(b) \subseteq Windows
    BY <1>4, FieldsOf DEF Managed, ToSet
  <2> QED BY <1>9, <1>12, <2>1, ToldOf
<1> QED BY <1>2, <1>12, <1>13, <1>14, <1>15, UpdateFocused

LEMMA VanishFocused ==
  ASSUME NEW s \in Sys, Focused(s), NEW w \in Windows \ Managed(s)
  PROVE  Focused(FlushFocus(Push([s EXCEPT !.exists[w] = FALSE], "Destroy", w)))
<1> DEFINE m == [s EXCEPT !.exists[w] = FALSE]
           p == Push(m, "Destroy", w)
           u == FlushFocus(p)
<1>1. /\ m \in Sys /\ m.client = s.client /\ m.dfocus = s.dfocus /\ m.sel = s.sel
      /\ m.focus = s.focus /\ m.onFrame = s.onFrame /\ m.queue = s.queue
      /\ m.frame = s.frame /\ m.up = s.up /\ m.view = s.view /\ m.selview = s.selview
      /\ \A x \in Windows \ {w} : m.exists[x] = s.exists[x]
  BY DEF Sys
<1> HIDE DEF m
<1>2. Loses(s, m)
  BY <1>1, SameLoses
<1>3. Event("Destroy", w) \in Events
  BY WatchedEvents
<1>4. /\ Loses(m, p) /\ p \in Sys /\ p.focus = m.focus /\ p.onFrame = m.onFrame
      /\ p.frame = m.frame /\ p.up = m.up /\ p.view = m.view /\ p.selview = m.selview
      /\ p.exists = m.exists /\ \A e : In(m.queue, e) => In(p.queue, e)
  BY <1>1, <1>3, PushLoses, PushDoes
<1> HIDE DEF p
<1>5. Loses(s, p) /\ Managed(p) = Managed(s) /\ Managed(s) \subseteq Windows
  <2>1. Loses(s, p)
    BY <1>2, <1>4, LosesTrans
  <2> QED BY <2>1, FieldsOf DEF Loses, Managed, ToSet
<1>6. Told(p)
  BY <1>1, <1>4, <1>5 DEF Focused, Told, Has
<1>7. Focused(p)
  <2>1. \A c \in Takers : Viewable(p, c) => Viewable(s, c) /\ (HasFocus(s, c) => HasFocus(p, c))
    BY <1>1, <1>4, <1>5 DEF Viewable, HasFocus
  <2> QED BY <1>1, <1>4, <1>5, <1>6, <2>1, LosesFocused
<1>8. /\ Current(u, {}) /\ u.sel = p.sel
      /\ p.focus \in Takers => u.focus = p.focus /\ u.onFrame = p.onFrame
      /\ u.focus \in {p.focus, "bar"}
      /\ \A c \in Takers : Mistaken(p, c) => Mistaken(u, c)
  <2>1. Lively(p, p.queue, {})
    BY <1>7 DEF Focused, Believes
  <2> QED BY <1>4, <2>1, FlushCurrent, FlushMistaken
<1>9. Aside(p, u)
  BY <1>4, FlushFocusAside
<1> HIDE DEF u
<1>10. /\ u.exists = p.exists /\ u.view = p.view /\ u.selview = p.selview
       /\ Managed(u) = Managed(p) /\ Adds(p.queue, u.queue, {})
       /\ \A c : Viewable(u, c) <=> Viewable(p, c)
  BY <1>9 DEF Aside, SameShow, Managed, Viewable
<1>11. Believes(u, {})
  BY <1>8, CurrentBelieves
<1>12. Chosen(u)
  BY <1>7, <1>8, <1>10 DEF Focused, Chosen
<1>13. Told(u)
  BY <1>5, <1>6, <1>10, ToldOf
<1>14. Served(u)
  BY <1>7, <1>8, <1>10 DEF Focused, Served, HasFocus, Rival
<1>15. Focused(u)
  BY <1>11, <1>12, <1>13, <1>14 DEF Focused
<1> QED BY <1>15 DEF u, p, m

LEMMA ViewFocused ==
  ASSUME NEW s \in Sys, Focused(s), NEW v \in Views
  PROVE  /\ Focused(ViewFocus(s, v)) /\ ViewFocus(s, v) \in Sys
         /\ ViewFocus(s, v).selview = v
         /\ Managed(ViewFocus(s, v)) = Managed(s) /\ ViewFocus(s, v).view = s.view
<1> DEFINE b == [s EXCEPT !.selview = v]
           r == ViewUpdate(b)
<1>1. /\ b \in Sys /\ b.client = s.client /\ b.dfocus = s.dfocus /\ b.sel = s.sel
      /\ b.focus = s.focus /\ b.onFrame = s.onFrame /\ b.queue = s.queue
      /\ b.view = s.view /\ b.selview = v /\ b.exists = s.exists
  BY DEF Sys
<1>2. ViewFocus(s, v) = r
  BY DEF ViewFocus
<1> HIDE DEF b
<1>3. Managed(b) = Managed(s)
  BY <1>1 DEF Managed
<1>4. Believes(b, {})
  BY <1>1, SameBelieves DEF Focused
<1>5. Chosen(b) /\ Told(b)
  BY <1>1, <1>3 DEF Focused, Chosen, Told, Has
<1>6. Focused(r) /\ r.selview = v
  BY <1>1, <1>4, <1>5, UpdateFocused
<1>7. r \in Sys /\ r.view = b.view /\ Managed(r) = Managed(b)
  BY <1>1, ViewUpdateOk DEF Arranged, SameSet, Managed
<1> QED BY <1>1, <1>2, <1>3, <1>6, <1>7

LEMMA FocusFocused ==
  ASSUME NEW s \in Sys, Focused(s), NEW c \in Managed(s)
  PROVE  Focused(Focus(s, c))
<1> DEFINE v == s.view[c]
           t == IF v = s.selview THEN s ELSE ViewFocus(s, v)
           u == [t EXCEPT !.sel[v] = c]
<1>1. c \in Windows /\ v \in Views
  BY FieldsOf DEF Managed, ToSet
<1>2. Focus(s, c) = ClientFocus(u, c)
  BY DEF Focus
<1>3. t \in Sys /\ Focused(t) /\ t.selview = v /\ c \in Managed(t) /\ t.view[c] = v
  <2>1. CASE v = s.selview
    BY <2>1
  <2>2. CASE v # s.selview
    <3>1. t = ViewFocus(s, v)
      BY <2>2
    <3> HIDE DEF t
    <3> QED BY <1>1, <3>1, ViewFocused DEF v
  <2> QED BY <2>1, <2>2
<1> HIDE DEF t, v
<1>4. /\ u \in Sys /\ u.client = t.client /\ u.dfocus = t.dfocus /\ u.focus = t.focus
      /\ u.onFrame = t.onFrame /\ u.queue = t.queue /\ u.exists = t.exists
      /\ u.view = t.view /\ u.selview = t.selview /\ u.sel = [t.sel EXCEPT ![v] = c]
  BY <1>1, <1>3 DEF Sys
<1> HIDE DEF u
<1>5. Managed(u) = Managed(t)
  BY <1>4 DEF Managed
<1>6. Believes(u, {})
  BY <1>3, <1>4, SameBelieves DEF Focused
<1>7. Told(u)
  BY <1>3, <1>4, <1>5 DEF Focused, Told, Has
<1>8. t.sel \in [Views -> Windows \cup {"nil"}]
  BY <1>3, FieldsOf
<1>9. Chosen(u)
  BY <1>1, <1>3, <1>4, <1>5, <1>8, Apart DEF Focused, Chosen
<1>10. c = u.sel[u.selview]
  BY <1>1, <1>3, <1>4, <1>8
<1>11. Focused(ClientFocus(u, c))
  BY <1>4, <1>6, <1>7, <1>9, <1>10, ClientFocusFocused
<1> QED BY <1>2, <1>11

-----------------------------------------------------------------------------
(* A client that goes leaves the focus of the others alone.                *)

Beside(s, t, w) ==
  /\ t \in Sys /\ t.exists = s.exists /\ t.view = s.view /\ t.selview = s.selview
  /\ Managed(t) \ {w} = Managed(s) \ {w}
  /\ \A x \in Windows \ {w} : Has(s, "Destroy", x) => Has(t, "Destroy", x)

Leaves(s, t, w) ==
  /\ Beside(s, t, w)
  /\ s.focus = "bar" => t.focus = "bar"
  /\ \A c \in Takers \ {w} : Viewable(t, c) =>
       Viewable(s, c) /\ (HasFocus(s, c) => HasFocus(t, c))
  /\ \A c \in Takers \ {w} : Mistaken(s, c) => Mistaken(t, c)

LEMMA BesideTrans ==
  ASSUME NEW s, NEW t, NEW u, NEW w
  PROVE  /\ Beside(s, t, w) /\ Beside(t, u, w) => Beside(s, u, w)
         /\ Leaves(s, t, w) /\ Leaves(t, u, w) => Leaves(s, u, w)
<1>1. Beside(s, t, w) /\ Beside(t, u, w) => Beside(s, u, w)
  BY DEF Beside
<1> QED BY <1>1 DEF Leaves

LEMMA BesideSet ==
  ASSUME NEW s, NEW t, NEW w, NEW P, t \in Sys, SameSet(s, t), Adds(s.queue, t.queue, P)
  PROVE  Beside(s, t, w) /\ Managed(t) = Managed(s)
<1>1. Managed(t) = Managed(s)
  BY DEF SameSet, Managed
<1> QED BY <1>1, DestroyWatched DEF Beside, SameSet, Adds, Has

(* What loses the focus of w only.                                         *)
LEMMA LosesLeaves ==
  ASSUME NEW s, NEW t, NEW w, Beside(s, t, w), Managed(t) = Managed(s), Loses(s, t),
         Spares(s, t, w), \A x \in Windows \ {w} : t.up[x] = s.up[x] /\ t.frame[x] = s.frame[x]
  PROVE  Leaves(s, t, w)
<1>1. s.focus = "bar" => t.focus = "bar"
  BY Apart DEF Loses
<1>2. \A c \in Takers \ {w} : Viewable(t, c) => Viewable(s, c)
  BY DEF Viewable, Takers
<1>3. \A c \in Takers \ {w} : Viewable(t, c) /\ HasFocus(s, c) => HasFocus(t, c)
  BY <1>2 DEF Spares, Takers
<1>4. \A c \in Takers \ {w} : Mistaken(s, c) => Mistaken(t, c)
  BY LosesMistaken
<1> QED BY <1>1, <1>2, <1>3, <1>4 DEF Leaves

(* The focus stays with a window that has no frame only if it can be seen. *)
LEMMA RevertOff ==
  ASSUME NEW s \in Sys, NEW w \in Windows, ~s.frame[w], Revert(s).focus = w
  PROVE  Viewable(s, w)
<1> SUFFICES ASSUME ~Viewable(s, w) PROVE FALSE
  OBVIOUS
<1>1. s.focus = w
  <2>1. Loses(s, Revert(s))
    BY RevertLoses
  <2> QED BY <2>1, Apart DEF Loses
<1>2. PICK x \in {"none", "root"} : Revert(s) = FocusTo(s, x)
  BY <1>1 DEF Revert
<1>3. Revert(s).focus = x
  BY <1>2, FocusToDoes DEF Ends
<1> QED BY <1>3, Apart

(* The window w, which is no client any more, is as a client leaves it.    *)
Let(s, w) ==
  ~s.frame[w] /\ (s.up[w] => s.mapped[w]) /\ (s.focus = w => s.up[w])

LEMMA OutBelieves ==
  ASSUME NEW s \in Sys, Believes(s, {}), NEW w \in Windows, ~In(s.queue, Came(w)),
         NEW v \in Views, NEW next \in Windows \cup {"nil"}, s.up[w] => s.mapped[w]
  PROVE  LET a == LetGo(s, w, v, next)
         IN  /\ Believes(a, {w}) /\ Leaves(s, a, w)
             /\ a.sel[v] = next /\ \A x \in Views \ {v} : a.sel[x] = s.sel[x]
             /\ Managed(a) = Managed(s) \ {w}
             /\ Let(a, w)
<1> DEFINE hid == UnmapFrame(s, w)
           e == Event("UnmapFrame", w)
           k == Without(hid.client, {w})
           q == Without(hid.queue, {e})
           o == [hid EXCEPT !.client = k, !.frame[w] = FALSE, !.sel[v] = next, !.queue = q]
           a == Revert(o)
           P == {x \in {e} : s.fmapped[w]}
<1>1. UnmapFrameDoes(s, hid, w) /\ Loses(s, hid) /\ Spares(s, hid, w)
  BY UnmapFrameOk, UnmapFrameLoses
<1>2. Out(hid, o, w)
  BY <1>1, OutOk DEF UnmapFrameDoes, Around
<1>3. a = LetGo(s, w, v, next)
  BY DEF LetGo
<1> HIDE DEF hid
<1>4. /\ hid \in Sys /\ SameSet(s, hid) /\ \A x \in Windows \ {w} : Stays(s, hid, x)
      /\ Adds(s.queue, hid.queue, P) /\ hid.up[w] = s.up[w] /\ hid.mapped[w] = s.mapped[w]
  BY <1>1 DEF UnmapFrameDoes, Around
<1> HIDE DEF P
<1>5. Beside(s, hid, w) /\ Managed(hid) = Managed(s)
  BY <1>4, BesideSet
<1>6. Leaves(s, hid, w)
  BY <1>1, <1>4, <1>5, LosesLeaves DEF Stays
<1>7. Believes(hid, {}) /\ ~In(hid.queue, Came(w))
  BY <1>1, LosesBelieves DEF Loses
<1>8. /\ q \in Seq(Events)
      /\ \A x, y : After(hid.queue, x, y) /\ x # e => After(q, x, y)
  <2>1. hid.queue \in Seq(Events)
    BY <1>4, FieldsOf
  <2>2. q \in Seq(Events) /\ \A x, y : After(hid.queue, x, y) /\ x \notin {e} => After(q, x, y)
    BY <2>1, WithoutProps
  <2> HIDE DEF q, e
  <2> QED BY <2>2
<1> HIDE DEF q, k
<1>9. /\ o.dfocus = hid.dfocus /\ o.focus = hid.focus /\ o.onFrame = hid.onFrame
      /\ o.sel = [hid.sel EXCEPT ![v] = next] /\ o.queue = q /\ ~o.frame[w]
  BY <1>4 DEF Sys
<1> HIDE DEF o
<1>10. /\ o \in Sys /\ o.exists = hid.exists /\ o.view = hid.view /\ o.selview = hid.selview
       /\ o.up = hid.up /\ o.mapped = hid.mapped /\ \A x \in Windows \ {w} : o.frame[x] = hid.frame[x]
       /\ Managed(o) = Managed(hid) \ {w}
       /\ \A x : In(o.queue, x) <=> In(hid.queue, x) /\ x # e
       /\ \A x, y : Before(o.queue, x, y) => Before(hid.queue, x, y)
  BY <1>2 DEF Out
<1>11. /\ \A x : Came(x) # e /\ Went(x) # e
       /\ \A x : Event("Destroy", x) # e
  BY DEF Came, Went, Event
<1> HIDE DEF e
<1>12. Turned(hid.queue) => Turned(o.queue)
  BY <1>8, <1>9, <1>11 DEF Turned
<1>13. Believes(o, {w})
  <2>1. \A c \in Takers \ {w} : Knows(o, o.queue, c)
    <3> SUFFICES ASSUME NEW c \in Takers \ {w} PROVE Knows(o, o.queue, c)
      OBVIOUS
    <3>1. Knows(hid, hid.queue, c)
      BY <1>7 DEF Believes, Lively
    <3>2. Pending(hid.queue) => Pending(o.queue)
      BY <1>10, <1>11 DEF Pending
    <3> QED BY <1>9, <1>10, <1>11, <3>1, <3>2 DEF Knows, HasFocus
  <2>2. \A x \in Windows : In(o.queue, Came(x)) => x \in Managed(o)
    BY <1>7, <1>10 DEF Believes, Lively
  <2>21. Tracks(o, o.queue)
    <3>1. Tracks(hid, hid.queue)
      BY <1>7 DEF Believes, Lively
    <3>2. Pending(hid.queue) <=> Pending(o.queue)
      BY <1>10, <1>11 DEF Pending
    <3>3. \A x, y : After(hid.queue, Came(x), Came(y)) => After(o.queue, Came(x), Came(y))
      BY <1>8, <1>9, <1>11
    <3> QED BY <1>9, <3>1, <3>2, <3>3 DEF Tracks
  <2>3. Lively(o, o.queue, {w})
    BY <1>7, <1>9, <1>10, <1>11, <1>12, <2>1, <2>2, <2>21 DEF Believes, Lively
  <2> QED BY <1>7, <1>10, <2>3 DEF Believes
<1>14. Leaves(hid, o, w)
  <2>1. Beside(hid, o, w)
    BY <1>10, <1>11 DEF Beside, Has
  <2>2. \A c \in Takers \ {w} : Viewable(o, c) <=> Viewable(hid, c)
    BY <1>10 DEF Viewable, Takers
  <2>3. \A c : Mistaken(hid, c) => Mistaken(o, c)
    BY <1>9, <1>10 DEF Mistaken, Pending
  <2> QED BY <1>9, <2>1, <2>2, <2>3 DEF Leaves, HasFocus
<1>15. Loses(o, a) /\ Spares(o, a, w) /\ Aside(o, a)
  BY <1>10, RevertLoses, RevertAside DEF Spares
<1>151. a.focus = w => Viewable(o, w)
  BY <1>9, <1>10, RevertOff
<1> HIDE DEF a
<1>152. Let(a, w)
  BY <1>4, <1>9, <1>10, <1>15, <1>151 DEF Aside, SameShow, Let, Viewable
<1>16. Leaves(o, a, w)
  <2>1. a \in Sys /\ SameSet(o, a) /\ Adds(o.queue, a.queue, {})
        /\ a.up = o.up /\ a.frame = o.frame
    BY <1>15 DEF Aside, SameShow, SameSet
  <2>2. Beside(o, a, w) /\ Managed(a) = Managed(o)
    BY <2>1, BesideSet
  <2> QED BY <1>15, <2>1, <2>2, LosesLeaves
<1>17. Believes(a, {w})
  BY <1>13, <1>15, LosesBelieves
<1>18. Leaves(s, a, w)
  BY <1>6, <1>14, <1>16, BesideTrans
<1>19. /\ a.sel[v] = next /\ \A x \in Views \ {v} : a.sel[x] = s.sel[x]
       /\ Managed(a) = Managed(s) \ {w}
  <2>1. a.sel = [s.sel EXCEPT ![v] = next] /\ Managed(a) = Managed(s) \ {w}
    BY <1>1, <1>5, <1>9, <1>10, <1>15 DEF Loses, Managed
  <2>2. s.sel \in [Views -> Windows \cup {"nil"}]
    BY FieldsOf
  <2> QED BY <2>1, <2>2
<1> QED BY <1>3, <1>17, <1>18, <1>19, <1>152

(* Unmapped by wmii, it has not the focus any more.                        *)
LEMMA LetUnmapped ==
  ASSUME NEW s \in Sys, NEW w \in Windows, Let(s, w)
  PROVE  UnmapWin(s, w).focus # w
<1> DEFINE m == [s EXCEPT !.mapped[w] = FALSE]
           u == [m EXCEPT !.up[w] = FALSE]
           p == Push(u, "Unmap", w)
<1>1. /\ m \in Sys /\ m.up = s.up /\ m.focus = s.focus /\ m.frame = s.frame
      /\ UnmapWin(s, w) = IF ~s.mapped[w] THEN s ELSE IF ~s.up[w] THEN m ELSE Revert(p)
  BY DEF Sys, UnmapWin
<1> HIDE DEF m
<1>2. u \in Sys /\ ~u.up[w] /\ ~u.frame[w]
  BY <1>1 DEF Sys, Let
<1> HIDE DEF u
<1>3. Event("Unmap", w) \in Events
  BY WatchedEvents
<1>4. p \in Sys /\ ~p.up[w] /\ ~p.frame[w]
  BY <1>2, <1>3, PushLoses, PushDoes
<1> HIDE DEF p
<1>5. Revert(p).focus # w
  BY <1>4, RevertOff DEF Viewable
<1> QED BY <1>1, <1>5 DEF Let

LEMMA GoneBelieves ==
  ASSUME NEW s \in Sys, NEW w \in Windows \ Managed(s), Believes(s, {w}), Let(s, w)
  PROVE  LET t == [FlushFocus(GroupRemove(UnmapWin(s, w), w))
                     EXCEPT !.dfocus = IF @ = w THEN "freed" ELSE @]
         IN  /\ Believes(t, {}) /\ Leaves(s, t, w)
             /\ t.sel = s.sel /\ Managed(t) = Managed(s)
<1> DEFINE f1 == UnmapWin(s, w)
           g == IF f1.gclient = w THEN "nil" ELSE f1.gclient
           f2 == GroupRemove(f1, w)
           f3 == FlushFocus(f2)
           d == IF f3.dfocus = w THEN "freed" ELSE f3.dfocus
           t == [f3 EXCEPT !.dfocus = IF @ = w THEN "freed" ELSE @]
           P == {e \in {Event("Unmap", w)} : s.mapped[w]}
<1>1. Loses(s, f1) /\ Spares(s, f1, w)
  BY UnmapWinLoses
<1>2. f1 \in Sys /\ SameSet(s, f1) /\ Adds(s.queue, f1.queue, P)
      /\ \A x \in Windows \ {w} : Stays(s, f1, x)
  BY UnmapWinOk DEF UnmapWinDoes, Around
<1>21. f1.focus # w
  BY LetUnmapped
<1> HIDE DEF P, f1
<1>3. Leaves(s, f1, w) /\ Managed(f1) = Managed(s)
  <2>1. Beside(s, f1, w) /\ Managed(f1) = Managed(s)
    BY <1>2, BesideSet
  <2>2. \A x \in Windows \ {w} : f1.up[x] = s.up[x] /\ f1.frame[x] = s.frame[x]
    BY <1>2 DEF Stays
  <2> QED BY <1>1, <2>1, <2>2, LosesLeaves
<1>4. Believes(f1, {w})
  BY <1>1, LosesBelieves
<1>5. f2 = [f1 EXCEPT !.gclient = g] /\ g \in Windows \cup {"nil"}
  BY <1>2, FieldsOf DEF GroupRemove
<1> HIDE DEF g, f2
<1>6. /\ f2 \in Sys /\ f2.client = f1.client /\ f2.dfocus = f1.dfocus /\ f2.focus = f1.focus
      /\ f2.onFrame = f1.onFrame /\ f2.queue = f1.queue /\ f2.sel = f1.sel
      /\ f2.exists = f1.exists /\ f2.view = f1.view /\ f2.selview = f1.selview
      /\ f2.up = f1.up /\ f2.frame = f1.frame
  BY <1>2, <1>5 DEF Sys
<1>7. Managed(f2) = Managed(f1)
  BY <1>6 DEF Managed
<1>8. Leaves(f1, f2, w)
  BY <1>6, <1>7 DEF Leaves, Beside, Has, Viewable, HasFocus, Mistaken
<1>9. Believes(f2, {w})
  BY <1>4, <1>6, SameBelieves
<1>10. /\ Current(f3, {w}) /\ f3.sel = f2.sel
       /\ f2.focus \in Takers => f3.focus = f2.focus /\ f3.onFrame = f2.onFrame
       /\ f3.focus \in {f2.focus, "bar"}
       /\ \A c \in Takers : Mistaken(f2, c) => Mistaken(f3, c)
  BY <1>6, <1>9, FlushCurrent, FlushMistaken DEF Believes
<1>11. Aside(f2, f3)
  BY <1>6, FlushFocusAside
<1> HIDE DEF f3
<1>12. Leaves(f2, f3, w) /\ Managed(f3) = Managed(f2)
  <2>1. f3 \in Sys /\ SameSet(f2, f3) /\ Adds(f2.queue, f3.queue, {})
        /\ f3.up = f2.up /\ f3.frame = f2.frame
    BY <1>11 DEF Aside, SameShow, SameSet
  <2>2. Beside(f2, f3, w) /\ Managed(f3) = Managed(f2)
    BY <2>1, BesideSet
  <2> QED BY <1>10, <2>1, <2>2 DEF Leaves, Viewable, HasFocus
<1>13. t = [f3 EXCEPT !.dfocus = d] /\ d \in Windows \cup {"nil", "magic", "freed"}
       /\ f3 \in Sys
  BY <1>11, FieldsOf DEF Aside
<1>14. d # w /\ (d = f3.dfocus \/ (d = "freed" /\ f3.dfocus = w))
  BY Apart
<1> HIDE DEF d, t
<1>15. /\ t \in Sys /\ t.client = f3.client /\ t.dfocus = d /\ t.focus = f3.focus
       /\ t.onFrame = f3.onFrame /\ t.queue = f3.queue /\ t.sel = f3.sel
       /\ t.exists = f3.exists /\ t.view = f3.view /\ t.selview = f3.selview
       /\ t.up = f3.up /\ t.frame = f3.frame
  BY <1>13 DEF Sys
<1>16. Managed(t) = Managed(f3)
  BY <1>15 DEF Managed
<1>17. Leaves(f3, t, w)
  <2>1. \A c \in Takers \ {w} : Mistaken(f3, c) => Mistaken(t, c)
    BY <1>14, <1>15 DEF Mistaken
  <2> QED BY <1>15, <1>16, <2>1 DEF Leaves, Beside, Has, Viewable, HasFocus
<1>18. Current(t, {})
  <2>1. \A c \in Takers \ {} : Knows(t, <<>>, c)
    <3> SUFFICES ASSUME NEW c \in Takers PROVE Knows(t, <<>>, c)
      OBVIOUS
    <3>1. CASE c = w
      BY <3>1, <1>14, <1>15, Nothing DEF Knows
    <3>2. CASE c # w
      <4>1. Knows(f3, <<>>, c)
        BY <3>2, <1>10 DEF Current, Lively
      <4>2. c # "freed"
        BY Apart DEF Takers
      <4> QED BY <4>1, <4>2, <1>14, <1>15, <1>16, Nothing DEF Knows, HasFocus
    <3> QED BY <3>1, <3>2
  <2>2. t.focus = "bar" \/ (t.dfocus # "nil" /\ ~In(<<>>, Came("bar"))) \/ Turned(<<>>)
    BY <1>10, <1>14, <1>15 DEF Current, Lively
  <2>3. Tracks(t, <<>>)
    <3>1. Tracks(f3, <<>>) /\ f3.focus # w
      BY <1>6, <1>10, <1>21, Apart DEF Current, Lively
    <3> QED BY <1>14, <1>15, <3>1, Nothing DEF Tracks
  <2>4. Lively(t, <<>>, {})
    BY <2>1, <2>2, <2>3, Nothing DEF Lively
  <2>5. \A e : IsFocus(e) /\ In(t.queue, e) => t.dfocus \notin Takers
    BY <1>10, <1>14, <1>15, Apart DEF Current, Takers
  <2> QED BY <1>10, <1>15, <2>4, <2>5 DEF Current
<1>19. Believes(t, {})
  BY <1>18, CurrentBelieves
<1>20. Leaves(s, t, w)
  BY <1>3, <1>8, <1>12, <1>17, BesideTrans
<1>22. t.sel = s.sel /\ Managed(t) = Managed(s)
  BY <1>1, <1>3, <1>6, <1>7, <1>10, <1>12, <1>15, <1>16 DEF Loses
<1> QED BY <1>19, <1>20, <1>22 DEF t, f3, f2, f1

(* Its view has another client selected, if it has one.                    *)
LEMMA NextChosen ==
  ASSUME NEW s \in Sys, Chosen(s), NEW w \in Managed(s), NEW next \in NextSel(s, w),
         NEW t, t.view = s.view, Managed(t) = Managed(s) \ {w},
         t.sel[s.view[w]] = next, \A x \in Views \ {s.view[w]} : t.sel[x] = s.sel[x]
  PROVE  Chosen(t) /\ next \in Managed(t) \cup {"nil"}
<1> DEFINE v == s.view[w]
           rest == {c \in Managed(s) \ {w} : s.view[c] = v}
<1>1. v \in Views /\ s.sel \in [Views -> Windows \cup {"nil"}] /\ "nil" \notin Managed(s)
  BY FieldsOf, Apart DEF Managed, ToSet
<1>2. next \in IF s.sel[v] # w THEN {s.sel[v]} ELSE IF rest = {} THEN {"nil"} ELSE rest
  BY DEF NextSel
<1>3. \A x \in Views : IF s.sel[x] = "nil" THEN \A c \in Managed(s) : s.view[c] # x
                       ELSE s.sel[x] \in Managed(s) /\ s.view[s.sel[x]] = x
  BY DEF Chosen
<1>4. IF next = "nil" THEN \A c \in Managed(s) \ {w} : s.view[c] # v
      ELSE next \in Managed(s) \ {w} /\ s.view[next] = v
  <2>1. CASE s.sel[v] # w
    BY <2>1, <1>1, <1>2, <1>3
  <2>2. CASE s.sel[v] = w /\ rest = {}
    BY <2>2, <1>2
  <2>3. CASE s.sel[v] = w /\ rest # {}
    BY <2>3, <1>1, <1>2
  <2> QED BY <2>1, <2>2, <2>3
<1>5. \A x \in Views \ {v} : t.sel[x] = s.sel[x] /\ s.sel[x] # w
  BY <1>1, <1>3
<1>6. t.sel[v] = next
  OBVIOUS
<1> HIDE DEF v
<1>7. Chosen(t)
  <2> SUFFICES ASSUME NEW x \in Views
               PROVE  IF t.sel[x] = "nil" THEN \A c \in Managed(t) : t.view[c] # x
                      ELSE t.sel[x] \in Managed(t) /\ t.view[t.sel[x]] = x
    BY DEF Chosen
  <2>1. CASE x = v
    BY <2>1, <1>4, <1>6
  <2>2. CASE x # v
    BY <2>2, <1>3, <1>5
  <2> QED BY <2>1, <2>2
<1> QED BY <1>4, <1>7

LEMMA DestroyFocused ==
  ASSUME NEW s \in Sys, s.queue # <<>>, Focused(s), NEW w \in Managed(s),
         NEW next \in NextSel(s, w),
         Head(s.queue) \in {Event("SentUnmap", w), Event("Destroy", w)},
         s.up[w] => s.mapped[w]
  PROVE  Focused(ClientDestroy(ReadOf(s), w, next))
<1> DEFINE t == ReadOf(s)
           h == Head(s.queue)
           v == s.view[w]
           out == LetGo(t, w, v, next)
           left == IF v = t.selview THEN ViewUpdate(out) ELSE out
           f == [FlushFocus(GroupRemove(UnmapWin(left, w), w))
                   EXCEPT !.dfocus = IF @ = w THEN "freed" ELSE @]
<1>1. w \in Windows /\ v \in Views /\ next \in Windows \cup {"nil"}
  BY FieldsOf, NextSelOk DEF Managed, ToSet
<1>2. /\ t \in Sys /\ t.sel = s.sel /\ t.view = s.view /\ t.selview = s.selview
      /\ t.exists = s.exists /\ Managed(t) = Managed(s)
      /\ \A b : In(t.queue, b) => Before(s.queue, h, b)
      /\ t.up[w] => t.mapped[w]
  <2>1. t.mapped = s.mapped
    BY DEF ReadOf, Sys
  <2> QED BY <2>1, ReadOfIs
<1>3. ClientDestroy(t, w, next) = f
  BY <1>2 DEF ClientDestroy, LetGo
<1>4. ~IsFocus(h) /\ \A x \in Windows \ {w} : h # Event("Destroy", x)
  BY DEF IsFocus, Event
<1>5. Believes(t, {}) /\ Served(t)
      /\ \A x \in Managed(s) \ {w} : ~s.exists[x] => Has(t, "Destroy", x)
  <2>1. /\ Believes(t, {}) /\ Served(t)
        /\ \A x \in Managed(s) : ~s.exists[x] /\ h # Event("Destroy", x) => Has(t, "Destroy", x)
    BY <1>4, ReadBelieves
  <2>2. Managed(s) \subseteq Windows
    BY FieldsOf DEF Managed, ToSet
  <2> QED BY <1>4, <2>1, <2>2
<1>6. ~In(t.queue, Came(w))
  BY <1>1, <1>2 DEF Focused, Believes
<1> HIDE DEF t, v
<1>7. /\ Believes(out, {w}) /\ Leaves(t, out, w)
      /\ out.sel[v] = next /\ \A x \in Views \ {v} : out.sel[x] = s.sel[x]
      /\ Managed(out) = Managed(s) \ {w} /\ Let(out, w)
  <2>1. /\ Believes(out, {w}) /\ Leaves(t, out, w)
        /\ out.sel[v] = next /\ \A x \in Views \ {v} : out.sel[x] = t.sel[x]
        /\ Managed(out) = Managed(t) \ {w} /\ Let(out, w)
    <3>1. t \in Sys
      BY <1>2
    <3>2. Believes(t, {})
      BY <1>5
    <3>3. w \in Windows
      BY <1>1
    <3>4. v \in Views
      BY <1>1
    <3>5. next \in Windows \cup {"nil"}
      BY <1>1
    <3>6. t.up[w] => t.mapped[w]
      BY <1>2
    <3> QED BY ONLY <1>6, <3>1, <3>2, <3>3, <3>4, <3>5, <3>6, OutBelieves
  <2> HIDE DEF out
  <2> QED BY <1>2, <2>1
<1> HIDE DEF out
<1>8. /\ out \in Sys /\ out.view = s.view /\ out.selview = s.selview /\ out.exists = s.exists
      /\ \A x \in Managed(s) \ {w} : Has(t, "Destroy", x) => Has(out, "Destroy", x)
  <2>1. Managed(s) \subseteq Windows
    BY FieldsOf DEF Managed, ToSet
  <2> QED BY <1>2, <1>7, <2>1 DEF Leaves, Beside
<1>9. Chosen(out) /\ next \in Managed(out) \cup {"nil"}
  BY <1>7, <1>8, NextChosen DEF Focused, v
<1>10. v = s.selview =>
         /\ Current(left, {w}) /\ Attends(left, next) /\ left.sel = out.sel
         /\ Beside(out, left, w) /\ Managed(left) = Managed(out) /\ Let(left, w)
  <2> SUFFICES ASSUME v = s.selview
               PROVE  /\ Current(left, {w}) /\ Attends(left, next) /\ left.sel = out.sel
                      /\ Beside(out, left, w) /\ Managed(left) = Managed(out)
                      /\ Let(left, w)
    OBVIOUS
  <2>1. left = ViewUpdate(out)
    BY <1>2
  <2>2. out.sel[out.selview] = next
    BY <1>1, <1>7, <1>8, FieldsOf
  <2>3. next \in (Managed(out) \ {w}) \cup {"nil"}
    BY <1>7, <1>9
  <2> HIDE DEF left
  <2>4. /\ Current(left, {w}) /\ Attends(left, next) /\ left.sel = out.sel
        /\ left.focus \in {out.focus, "root", "none", "bar", next}
    BY <1>7, <1>8, <2>1, <2>2, <2>3, UpdateAttends
  <2>5. Arranged(out, left, Managed(out))
    BY <1>8, <2>1, ViewUpdateOk
  <2>6. Beside(out, left, w) /\ Managed(left) = Managed(out)
    BY <2>5, BesideSet DEF Arranged
  <2>7. Stays(out, left, w)
    BY <1>1, <1>7, <2>5 DEF Arranged
  <2>8. left.focus = w => out.focus = w
    BY <1>1, <1>7, <2>3, <2>4, Apart
  <2> QED BY <1>7, <2>4, <2>6, <2>7, <2>8 DEF Let, Stays
<1>11. v # s.selview => left = out
  BY <1>2
<1> HIDE DEF left
<1>12. /\ Believes(left, {w}) /\ Let(left, w) /\ left.sel = out.sel /\ left \in Sys
       /\ Managed(left) = Managed(out) /\ left.view = s.view /\ left.selview = s.selview
       /\ left.exists = s.exists
       /\ \A x \in Managed(s) \ {w} : Has(out, "Destroy", x) => Has(left, "Destroy", x)
  <2>1. CASE v = s.selview
    <3>1. Believes(left, {w})
      BY <2>1, <1>10, CurrentBelieves
    <3>2. Managed(s) \subseteq Windows
      BY FieldsOf DEF Managed, ToSet
    <3> QED BY <2>1, <1>8, <1>10, <3>1, <3>2 DEF Beside
  <2>2. CASE v # s.selview
    BY <2>2, <1>7, <1>8, <1>11
  <2> QED BY <2>1, <2>2
<1>13. w \in Windows \ Managed(left)
  BY <1>1, <1>7, <1>12
<1>14. Believes(f, {}) /\ Leaves(left, f, w) /\ f.sel = left.sel /\ Managed(f) = Managed(left)
  BY <1>12, <1>13, GoneBelieves
<1> HIDE DEF f
<1>15. f.view = s.view /\ f.selview = s.selview /\ f.exists = s.exists
       /\ Managed(f) = Managed(s) \ {w}
  BY <1>7, <1>12, <1>14 DEF Leaves, Beside
<1>16. Chosen(f)
  BY <1>8, <1>9, <1>12, <1>14, <1>15 DEF Chosen
<1>17. Told(f)
  <2>1. Managed(s) \subseteq Windows
    BY FieldsOf DEF Managed, ToSet
  <2> QED BY <1>5, <1>8, <1>12, <1>14, <1>15, <2>1 DEF Told, Leaves, Beside
<1>18. Served(f)
  <2> DEFINE c == f.sel[f.selview]
  <2>1. CASE v = s.selview
    <3>1. c = next
      BY <1>1, <1>7, <1>12, <1>14, <1>15, <2>1, FieldsOf
    <3> HIDE DEF c
    <3>2. c \in Takers => c # w
      BY <1>7, <1>9, <3>1, Apart DEF Takers
    <3>3. /\ c = "nil" => f.focus = "bar"
          /\ c \in Takers /\ Viewable(f, c) => HasFocus(f, c) \/ Mistaken(f, c)
      BY <1>10, <1>14, <2>1, <3>1, <3>2 DEF Attends, Leaves
    <3> QED BY <3>3 DEF Served, c
  <2>2. CASE v # s.selview
    <3>1. c = s.sel[s.selview] /\ c # w
      <4>1. c = s.sel[s.selview]
        BY <1>1, <1>7, <1>12, <1>14, <1>15, <2>2, FieldsOf
      <4>2. s.sel[s.selview] # w
        <5>1. s.selview \in Views /\ w # "nil"
          BY <1>1, Apart, FieldsOf
        <5> QED BY <2>2, <5>1 DEF Focused, Chosen, v
      <4> QED BY <4>1, <4>2
    <3>2. Leaves(t, f, w)
      BY <1>7, <1>11, <1>14, <2>2, BesideTrans
    <3>3. (c = "nil" => t.focus = "bar")
          /\ (c \in Takers /\ Viewable(t, c) => HasFocus(t, c) \/ Rival(t) \/ Mistaken(t, c))
      BY <1>2, <1>5, <3>1 DEF Served
    <3>4. Rival(t) => Rival(f)
      BY <1>2, <1>15, <2>2 DEF Rival, v
    <3> HIDE DEF c
    <3>5. (c = "nil" => f.focus = "bar")
          /\ (c \in Takers /\ Viewable(f, c) => HasFocus(f, c) \/ Rival(f) \/ Mistaken(f, c))
      BY <3>1, <3>2, <3>3, <3>4 DEF Leaves
    <3> QED BY <3>5 DEF Served, c
  <2> QED BY <2>1, <2>2
<1>19. Focused(f)
  BY <1>14, <1>16, <1>17, <1>18 DEF Focused
<1> QED BY <1>3, <1>19 DEF t

-----------------------------------------------------------------------------
(* The steps.                                                              *)

LEMMA InitFocused == Init => Focused(sys)
<1> SUFFICES ASSUME Init PROVE Focused(sys)
  OBVIOUS
<1>1. /\ sys.queue = <<>> /\ sys.client = <<>> /\ sys.focus = "bar" /\ sys.dfocus = "nil"
      /\ sys.sel = [v \in Views |-> "nil"] /\ sys.selview = First
  BY DEF Init
<1>2. Managed(sys) = {}
  BY <1>1 DEF Managed, ToSet
<1>3. Believes(sys, {})
  BY <1>1, Nothing, Apart DEF Believes, Lively, Knows, Takers, Tracks
<1>4. Chosen(sys) /\ Told(sys)
  BY <1>1, <1>2 DEF Chosen, Told
<1>5. Served(sys)
  <2>1. sys.sel[sys.selview] = "nil"
    BY <1>1, WindowsAssumption
  <2> QED BY <1>1, <2>1, Apart DEF Served, Takers
<1> QED BY <1>3, <1>4, <1>5 DEF Focused

LEMMA DispatchFocused ==
  ASSUME Inv, Focused(sys), Patient, Dispatch
  PROVE  Focused(sys')
<1> DEFINE h == Head(sys.queue)
<1>1. sys \in Sys
  BY DEF Inv, All
<1>2. sys.queue # <<>>
  BY DEF Dispatch, MapRequest, UnmapNotify, FrameUnmapNotify, SentUnmapNotify,
     DestroyNotify, MapNotify, FocusNotify, EnterNotify, Receive
<1>3. Rest = ReadOf(sys)
  BY DEF Rest, ReadOf
<1>4. h = Event(h.type, Win) /\ (h.type \notin {"FocusIn", "FocusOut"} => Win \in Windows)
  <2>1. h \in Events
    BY <1>1, <1>2, FieldsOf, InTail
  <2> QED BY <2>1, HeadEvent DEF Win
<1>5. /\ Rest \in Sys /\ Managed(Rest) = Managed(sys) /\ Rest.exists = sys.exists
      /\ Rest.sel = sys.sel /\ Rest.selview = sys.selview
  BY <1>1, <1>2, <1>3, ReadOfIs
<1>6. ASSUME ~IsFocus(h), h.type # "Destroy" \/ Win \notin Managed(sys)
      PROVE  Focused(Rest)
  <2> HIDE DEF h
  <2>1. \A w \in Managed(sys) : h # Event("Destroy", w)
    BY <1>4, <1>6, EventsDiffer
  <2> QED BY <1>1, <1>2, <1>3, <1>6, <2>1, ReadFocused DEF h
<1> HIDE DEF h
<1>7. ASSUME MapRequest PROVE Focused(sys')
  <2>1. h.type = "MapRequest"
    BY <1>7 DEF MapRequest, Receive, h
  <2>2. Focused(Rest) /\ Win \in Windows
    BY <1>4, <1>6, <2>1 DEF IsFocus
  <2>3. ASSUME Win \notin Managed(sys), sys.exists[Win], NEW again \in {FALSE, Reuse},
               sys' = ClientCreate(Rest, Win, again)
        PROVE  Focused(sys')
    BY <1>5, <2>2, <2>3, CreateFocused
  <2>4. ASSUME Win \notin Managed(sys),
               sys' = FlushFocus(Push([Rest EXCEPT !.exists[Win] = FALSE], "Destroy", Win))
        PROVE  Focused(sys')
    BY <1>5, <2>2, <2>4, VanishFocused
  <2> QED BY <1>7, <2>2, <2>3, <2>4 DEF MapRequest
<1>8. ASSUME UnmapNotify PROVE Focused(sys')
  <2>1. h.type = "Unmap"
    BY <1>8 DEF UnmapNotify, Receive, h
  <2>2. Focused(Rest) /\ Win \in Windows
    BY <1>4, <1>6, <2>1 DEF IsFocus
  <2> DEFINE u == [Rest EXCEPT !.mapped[Win] = FALSE]
  <2>3. Focused(u)
    <3>1. /\ u.client = Rest.client /\ u.dfocus = Rest.dfocus /\ u.sel = Rest.sel
          /\ u.focus = Rest.focus /\ u.onFrame = Rest.onFrame /\ u.queue = Rest.queue
          /\ u.view = Rest.view /\ u.selview = Rest.selview /\ u.exists = Rest.exists
          /\ u.up = Rest.up /\ u.frame = Rest.frame
      BY <1>5 DEF Sys
    <3> HIDE DEF u
    <3>2. Loses(Rest, u) /\ Managed(u) = Managed(Rest)
      BY <3>1, SameLoses DEF Managed
    <3>3. Told(u)
      BY <2>2, <3>1, <3>2 DEF Focused, Told, Has
    <3>4. \A c \in Takers : Viewable(u, c) =>
            Viewable(Rest, c) /\ (HasFocus(Rest, c) => HasFocus(u, c))
      BY <3>1, <3>2 DEF Viewable, HasFocus
    <3> QED BY <2>2, <3>1, <3>2, <3>3, <3>4, LosesFocused
  <2> QED BY <1>8, <2>2, <2>3 DEF UnmapNotify
<1>9. ASSUME FrameUnmapNotify PROVE Focused(sys')
  <2>1. h.type = "UnmapFrame"
    BY <1>9 DEF FrameUnmapNotify, Receive, h
  <2>2. Focused(Rest) /\ Win \in Windows
    BY <1>4, <1>6, <2>1 DEF IsFocus
  <2> DEFINE u == [Rest EXCEPT !.fmapped[Win] = FALSE]
  <2>3. Focused(u)
    <3>1. /\ u.client = Rest.client /\ u.dfocus = Rest.dfocus /\ u.sel = Rest.sel
          /\ u.focus = Rest.focus /\ u.onFrame = Rest.onFrame /\ u.queue = Rest.queue
          /\ u.view = Rest.view /\ u.selview = Rest.selview /\ u.exists = Rest.exists
          /\ u.up = Rest.up /\ u.frame = Rest.frame
      BY <1>5 DEF Sys
    <3> HIDE DEF u
    <3>2. Loses(Rest, u) /\ Managed(u) = Managed(Rest)
      BY <3>1, SameLoses DEF Managed
    <3>3. Told(u)
      BY <2>2, <3>1, <3>2 DEF Focused, Told, Has
    <3>4. \A c \in Takers : Viewable(u, c) =>
            Viewable(Rest, c) /\ (HasFocus(Rest, c) => HasFocus(u, c))
      BY <3>1, <3>2 DEF Viewable, HasFocus
    <3> QED BY <2>2, <3>1, <3>2, <3>3, <3>4, LosesFocused
  <2> QED BY <1>9, <2>3 DEF FrameUnmapNotify
<1>10. ASSUME SentUnmapNotify \/ DestroyNotify PROVE Focused(sys')
  <2>1. h.type \in {"SentUnmap", "Destroy"}
    BY <1>10 DEF SentUnmapNotify, DestroyNotify, Receive, h
  <2>2. CASE Win \notin Managed(sys)
    <3>1. sys' = Rest
      BY <1>10, <2>2 DEF SentUnmapNotify, DestroyNotify
    <3> QED BY <1>6, <2>1, <2>2, <3>1 DEF IsFocus
  <2>3. CASE Win \in Managed(sys)
    <3>1. PICK next \in NextSel(sys, Win) : sys' = ClientDestroy(Rest, Win, next)
      BY <1>10, <2>3 DEF SentUnmapNotify, DestroyNotify
    <3>2. Head(sys.queue) \in {Event("SentUnmap", Win), Event("Destroy", Win)}
      BY <1>4, <2>1 DEF h
    <3>3. Win \in Windows /\ (sys.up[Win] => sys.mapped[Win])
      <4>1. Win \in Windows
        BY <1>1, <2>3, FieldsOf DEF Managed, ToSet
      <4>2. Good(sys, app, Win)
        BY <4>1 DEF Inv, All
      <4> QED BY <4>1, <4>2 DEF Good, Lasting
    <3>4. Focused(ClientDestroy(ReadOf(sys), Win, next))
      BY <1>1, <1>2, <2>3, <3>2, <3>3, DestroyFocused
    <3> QED BY <1>3, <3>1, <3>4
  <2> QED BY <2>2, <2>3
<1>11. ASSUME MapNotify PROVE Focused(sys')
  <2>1. h.type = "Map"
    BY <1>11 DEF MapNotify, Receive, h
  <2>2. Focused(Rest)
    BY <1>4, <1>6, <2>1 DEF IsFocus
  <2>3. Win = sys.sel[sys.selview] => Focused(ClientFocus(Rest, Win))
    BY <1>5, <2>2, ClientFocusFocused DEF Focused
  <2> QED BY <1>11, <2>2, <2>3 DEF MapNotify
<1>12. ASSUME FocusNotify PROVE Focused(sys')
  BY <1>1, <1>2, <1>3, <1>12, NoticeFocused DEF FocusNotify
<1>13. ASSUME EnterNotify PROVE Focused(sys')
  <2>1. h.type = "Enter"
    BY <1>13 DEF EnterNotify, Receive, h
  <2>2. Focused(Rest)
    BY <1>4, <1>6, <2>1 DEF IsFocus
  <2>3. Win \in Managed(sys) => Focused(Focus(Rest, Win))
    BY <1>5, <2>2, FocusFocused
  <2> QED BY <1>13, <2>2, <2>3 DEF EnterNotify
<1> QED BY <1>7, <1>8, <1>9, <1>10, <1>11, <1>12, <1>13 DEF Dispatch

LEMMA OthersFocused ==
  ASSUME Inv, Focused(sys), Patient
  PROVE  /\ \A v \in Views : ViewSelect(v) => Focused(sys')
         /\ \A w \in Windows : Enter(w) \/ AppMap(w) \/ AppUnmap(w) \/ AppWithdraw(w)
              \/ AppDestroy(w) \/ AppTakeFocus(w) => Focused(sys')
<1>1. sys \in Sys /\ \A w \in Windows : Owed(sys, app, w) /\ Good(sys, app, w)
  BY DEF Inv, All
<1>2. ASSUME NEW v \in Views, ViewSelect(v) PROVE Focused(sys')
  BY <1>1, <1>2, ViewFocused DEF ViewSelect
<1>3. ASSUME NEW w \in Windows, Enter(w) \/ AppMap(w) \/ AppWithdraw(w) PROVE Focused(sys')
  <2>1. PICK x \in {"MapRequest", "SentUnmap", "Enter"} : sys' = Push(sys, x, w)
    BY <1>3 DEF Enter, AppMap, AppWithdraw
  <2>2. Focused(Push(sys, x, w))
    BY <1>1, PushFocused
  <2> QED BY <2>1, <2>2
<1>4. ASSUME NEW w \in Windows, AppUnmap(w) PROVE Focused(sys')
  <2>1. Focused(Revert(Push([sys EXCEPT !.up[w] = FALSE], "Unmap", w)))
    BY <1>1, <1>4, AppUnmapFocused DEF AppUnmap
  <2> QED BY <1>4, <2>1 DEF AppUnmap
<1>5. ASSUME NEW w \in Windows, AppDestroy(w) PROVE Focused(sys')
  <2> DEFINE gone == [sys EXCEPT !.exists[w] = FALSE, !.up[w] = FALSE]
  <2>1. Focused(Push(Revert(IF sys.up[w] THEN Push(gone, "Unmap", w) ELSE gone), "Destroy", w))
    BY <1>1, AppDestroyFocused
  <2>2. sys' = Push(Revert(IF sys.up[w] THEN Push(gone, "Unmap", w) ELSE gone), "Destroy", w)
    BY <1>5 DEF AppDestroy
  <2> QED BY <2>1, <2>2
<1>6. ASSUME NEW w \in Windows, AppTakeFocus(w) PROVE Focused(sys')
  <2> DEFINE a == sys.asked \ {w}
             m == [sys EXCEPT !.asked = a]
  <2>1. w \in TakeFocus /\ app[w] = "mapped" /\ sys' = SetFocus(m, w) /\ a \in SUBSET TakeFocus
    BY <1>1, <1>6, FieldsOf DEF AppTakeFocus
  <2> HIDE DEF a
  <2>2. /\ m \in Sys /\ m.client = sys.client /\ m.dfocus = sys.dfocus /\ m.sel = sys.sel
        /\ m.focus = sys.focus /\ m.onFrame = sys.onFrame /\ m.queue = sys.queue
        /\ m.view = sys.view /\ m.selview = sys.selview /\ m.exists = sys.exists
        /\ m.up = sys.up /\ m.frame = sys.frame
    BY <1>1, <2>1 DEF Sys
  <2> HIDE DEF m
  <2>3. Loses(sys, m) /\ Managed(m) = Managed(sys)
    BY <2>2, SameLoses DEF Managed
  <2>4. Told(m)
    BY <2>2, <2>3 DEF Focused, Told, Has
  <2>5. \A c \in Takers : Viewable(m, c) =>
          Viewable(sys, c) /\ (HasFocus(sys, c) => HasFocus(m, c))
    BY <2>2, <2>3 DEF Viewable, HasFocus
  <2>6. Focused(m)
    BY <2>2, <2>3, <2>4, <2>5, LosesFocused
  <2>7. ASSUME Viewable(m, w)
        PROVE  Shows(m, w) /\ ~Has(m, "SentUnmap", w) /\ ~Has(m, "Destroy", w)
    <3>1. Good(sys, app, w) /\ Owed(sys, app, w) /\ sys.up[w]
      BY <1>1, <2>2, <2>7 DEF Viewable
    <3>2. w \in Managed(sys) /\ sys.exists[w]
      BY <3>1 DEF Good, Lasting
    <3>3. sys.frame[w]
      BY <2>2, <2>3, <2>7, <3>2 DEF Viewable
    <3>4. Shows(sys, w)
      BY <3>1, <3>2, <3>3 DEF Good, Shows, Hides
    <3>5. ~Has(sys, "SentUnmap", w) /\ ~Has(sys, "Destroy", w)
      BY <2>1, <3>1, <3>2 DEF Owed
    <3> QED BY <2>2, <2>3, <3>4, <3>5 DEF Shows, Has
  <2> QED BY <2>1, <2>2, <2>6, <2>7, TakeFocused
<1> QED BY <1>2, <1>3, <1>4, <1>5, <1>6

LEMMA StepFocused ==
  ASSUME Patient
  PROVE  Inv /\ Focused(sys) /\ [Next]_vars => Focused(sys')
<1> SUFFICES ASSUME Inv, Focused(sys), [Next]_vars PROVE Focused(sys')
  OBVIOUS
<1>1. CASE UNCHANGED vars
  BY <1>1 DEF vars
<1>2. CASE Next
  BY <1>2, DispatchFocused, OthersFocused DEF Next
<1> QED BY <1>1, <1>2

LEMMA FocusedServes == Patient /\ Inv /\ Focused(sys) => SelectedHasFocus
<1> DEFINE c == sys.sel[sys.selview]
<1> SUFFICES ASSUME Patient, Inv, Focused(sys), Quiet, Managed(sys) \cap TakeFocus = {}
             PROVE  IF c = "nil" THEN sys.focus = "bar"
                    ELSE c \notin NoInput =>
                           \/ sys.focus = c /\ ~sys.onFrame
                           \/ Reuse /\ sys.dfocus = c /\ sys.focus \notin Windows
  BY DEF SelectedHasFocus
<1>1. sys \in Sys /\ sys.selview \in Views /\ Managed(sys) \subseteq Windows
  BY FieldsOf DEF Inv, All, Managed, ToSet
<1>2. CASE c = "nil"
  BY <1>2 DEF Focused, Served
<1>3. CASE c # "nil" /\ c \notin NoInput
  <2>1. c \in Managed(sys) /\ sys.view[c] = sys.selview /\ c \in Windows
    BY <1>1, <1>3 DEF Focused, Chosen
  <2>2. sys.exists[c]
    BY <2>1 DEF Quiet, Focused, Told, Has, In
  <2>3. Viewable(sys, c)
    BY <2>1, <2>2, InvShown DEF Shown
  <2>4. HasFocus(sys, c) \/ Rival(sys) \/ Mistaken(sys, c)
    BY <1>3, <2>1, <2>3 DEF Focused, Served, Takers
  <2> QED BY <1>3, <2>4 DEF Rival, HasFocus, Mistaken
<1> QED BY <1>2, <1>3

(* When nothing is under way, the selected client of the selected view has *)
(* the focus if it wants it, and the bar has it when there is none: what   *)
(* wmii has not read yet about the focus, in disp.focus and in the queue,  *)
(* never makes it leave out a change of focus that is needed.  There is    *)
(* one exception, where a new client has the memory of a freed one: wmii   *)
(* may take it for the client with the focus, but only while no window at  *)
(* all has the focus.  This is for a user who waits for a change of view   *)
(* to come to rest.                                                        *)
THEOREM SelectionHasFocus == ASSUME Patient PROVE Spec => []SelectedHasFocus
<1>1. Inv /\ Focused(sys) /\ [Next]_vars => Focused(sys)'
  <2>1. Inv /\ Focused(sys) /\ [Next]_vars => Focused(sys')
    BY StepFocused
  <2> QED BY <2>1 DEF Focused, Believes, Lively, Knows, HasFocus, Turned, Chosen, Told,
                      Served, Viewable, Rival, Managed, Has, Tracks, Pending, Mistaken
<1>2. Inv /\ Focused(sys) => SelectedHasFocus
  BY FocusedServes
<1>3. Spec => []Inv
  BY Invariance
<1> QED BY InitFocused, <1>1, <1>2, <1>3, PTL DEF Spec
=============================================================================
