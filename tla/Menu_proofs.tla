---------------------------- MODULE Menu_proofs -----------------------------
(***************************************************************************)
(* Proofs about wimenu: the theorems are at the end.                       *)
(*                                                                         *)
(* The line in memory implements the line of module Line.  Its invariant   *)
(* is LineOK: the offsets are in order, the runes before the end are runes *)
(* and the end is marked.  What an operation does to the memory is told    *)
(* place by place (PutInIs, DeleteToIs), and SpliceIs turns that into the  *)
(* equation of texts that Line has.                                        *)
(***************************************************************************)
EXTENDS Menu, SequenceTheorems, WellFoundedInduction, TLAPS

Byte == Char \cup {NUL, Junk}

(* Memory with a text and a caret in it.                                   *)
Base(in) ==
  /\ in.mem \in Seq(Byte) /\ in.end \in Nat /\ in.pos \in Nat
  /\ in.pos <= in.end /\ in.end <= Len(in.mem)
  /\ \A i \in 1 .. in.end : in.mem[i] \in Char

LineOK(in) ==
  /\ in = [mem |-> in.mem, end |-> in.end, pos |-> in.pos, pos_end |-> Nil]
  /\ Base(in)
  /\ in.end + 1 <= Len(in.mem) /\ in.mem[in.end + 1] = NUL

(* Items of a list some completing program may send.                       *)
Known == {x \in Item : x.string \in Pieces}

MatchOK(m) ==
  /\ m = [list |-> m.list, start |-> m.start, end |-> m.end, sel |-> m.sel]
  /\ m.list \in Seq(Known)
  /\ m.start \in Nat \ {0} /\ (m.start <= Len(m.list) \/ m.start = 1)
  /\ m.end \in Nat \ {0} /\ (m.end <= Len(m.list) \/ m.end = 1)
  /\ m.sel \in 0 .. Len(m.list)

IInv ==
  /\ LineOK(input)
  /\ start \in Nat /\ all \in Completions
  /\ MatchOK(match)
  /\ histsel \in 0 .. Len(History) /\ saved \in Seq(Char) \cup {Nil}
  /\ histsel # 0 => saved # Nil
  /\ crashed \in BOOLEAN
-----------------------------------------------------------------------------
(* The least and the greatest.                                             *)

LEMMA NatMin ==
  ASSUME NEW S, S \subseteq Nat, S # {}
  PROVE  \E m \in S : \A k \in S : m <= k
<1> DEFINE R == OpToRel(<, Nat)
<1>1. PICK m \in S : \A k \in S : <<k, m>> \notin R
  <2>1. IsWellFoundedOn(R, Nat)
    BY NatLessThanWellFounded
  <2> HIDE DEF R
  <2> QED BY <2>1, WFMin
<1>2. \A k \in S : ~(k < m)
  BY <1>1 DEF OpToRel
<1> QED BY <1>2

LEMMA NatMax ==
  ASSUME NEW n \in Nat, NEW S, S \subseteq 0 .. n, S # {}
  PROVE  \E m \in S : \A k \in S : k <= m
<1> DEFINE T == {n - i : i \in S}
<1>0. \A i \in S : n - i \in Nat
  OBVIOUS
<1>1. T \subseteq Nat /\ T # {}
  BY <1>0
<1> HIDE DEF T
<1>2. PICK x \in T : \A y \in T : x <= y
  BY <1>1, NatMin
<1>3. PICK m \in S : x = n - m
  BY DEF T
<1>4. \A k \in S : n - m <= n - k
  BY <1>2, <1>3 DEF T
<1> QED BY <1>4

LEMMA MinIn == ASSUME NEW S, S \subseteq Nat, S # {} PROVE Min(S) \in S /\ \A k \in S : Min(S) <= k
<1>1. \E m \in S : \A k \in S : m <= k
  BY NatMin
<1> QED BY <1>1 DEF Min

LEMMA MaxIn ==
  ASSUME NEW n \in Nat, NEW S, S \subseteq 0 .. n, S # {}
  PROVE  Max(S) \in S /\ \A k \in S : k <= Max(S)
<1>1. \E m \in S : \A k \in S : k <= m
  BY NatMax
<1>2. \E m \in S : \A k \in S : m >= k
  BY <1>1
<1>3. Max(S) \in S /\ \A k \in S : Max(S) >= k
  BY <1>2 DEF Max
<1> QED BY <1>3

LEMMA MinPair == ASSUME NEW a \in Nat, NEW b \in Nat PROVE Min({a, b}) = IF a <= b THEN a ELSE b
<1>1. Min({a, b}) \in {a, b} /\ \A k \in {a, b} : Min({a, b}) <= k
  BY MinIn
<1> QED BY <1>1

LEMMA MaxPair == ASSUME NEW a \in Nat, NEW b \in Nat PROVE Max({a, b}) = IF a <= b THEN b ELSE a
<1>1. {a, b} \subseteq 0 .. a + b
  OBVIOUS
<1>2. Max({a, b}) \in {a, b} /\ \A k \in {a, b} : k <= Max({a, b})
  <2>1. a + b \in Nat /\ {a, b} # {}
    OBVIOUS
  <2> QED BY <1>1, <2>1, MaxIn
<1> QED BY <1>2
-----------------------------------------------------------------------------
(* Memory.                                                                 *)

(* A sequence that is told by its places.                                  *)
LEMMA SeqMade ==
  ASSUME NEW S, NEW n \in Nat, NEW f, f = [i \in 1 .. n |-> f[i]], \A i \in 1 .. n : f[i] \in S
  PROVE  f \in Seq(S) /\ Len(f) = n
<1>1. f \in [1 .. n -> S]
  OBVIOUS
<1> QED BY <1>1

LEMMA PutIs ==
  ASSUME NEW S, NEW mem \in Seq(S), NEW s \in Seq(S), NEW p \in Nat
  PROVE  /\ Put(mem, p, s) \in Seq(S) /\ Len(Put(mem, p, s)) = Len(mem)
         /\ \A i \in 1 .. Len(mem) :
              Put(mem, p, s)[i] = IF p < i /\ i <= p + Len(s) THEN s[i - p] ELSE mem[i]
<1> DEFINE f == Put(mem, p, s)
           n == Len(mem)
<1>1. n \in Nat /\ DOMAIN mem = 1 .. n
  OBVIOUS
<1>2. \A i \in 1 .. n : f[i] = IF p < i /\ i <= p + Len(s) THEN s[i - p] ELSE mem[i]
  BY <1>1 DEF Put
<1>3. f = [i \in 1 .. n |-> f[i]]
  BY <1>1 DEF Put
<1> HIDE DEF f
<1>4. ASSUME NEW i \in 1 .. n
      PROVE  f[i] \in S
  <2>1. CASE p < i /\ i <= p + Len(s)
    <3>1. i - p \in 1 .. Len(s)
      BY <2>1, <1>1
    <3>2. s[i - p] \in S
      BY <3>1
    <3> QED BY <2>1, <3>2, <1>2
  <2>2. CASE ~(p < i /\ i <= p + Len(s))
    BY <2>2, <1>2, <1>1
  <2> QED BY <2>1, <2>2
<1>5. f \in Seq(S) /\ Len(f) = n
  <2> HIDE DEF n
  <2> QED BY <1>1, <1>3, <1>4, SeqMade
<1> QED BY <1>2, <1>5 DEF f

LEMMA EndedIs ==
  ASSUME NEW mem \in Seq(Byte), NEW e \in Nat
  PROVE  /\ Ended(mem, e) \in Seq(Byte) /\ Len(Ended(mem, e)) = Len(mem)
         /\ \A i \in 1 .. Len(mem) :
              Ended(mem, e)[i] = IF i <= e THEN mem[i] ELSE IF i = e + 1 THEN NUL ELSE Junk
<1> DEFINE f == Ended(mem, e)
           n == Len(mem)
<1>1. n \in Nat /\ DOMAIN mem = 1 .. n /\ NUL \in Byte /\ Junk \in Byte
  BY DEF Byte
<1>2. \A i \in 1 .. n : f[i] = IF i <= e THEN mem[i] ELSE IF i = e + 1 THEN NUL ELSE Junk
  BY <1>1 DEF Ended
<1>3. f = [i \in 1 .. n |-> f[i]]
  BY <1>1 DEF Ended
<1> HIDE DEF f
<1>4. \A i \in 1 .. n : f[i] \in Byte
  BY <1>1, <1>2
<1>5. f \in Seq(Byte) /\ Len(f) = n
  <2> HIDE DEF n
  <2> QED BY <1>1, <1>3, <1>4, SeqMade
<1> QED BY <1>2, <1>5 DEF f

LEMMA GrownIs ==
  ASSUME NEW mem \in Seq(Byte), NEW n \in Nat
  PROVE  /\ Grown(mem, n) \in Seq(Byte) /\ Len(Grown(mem, n)) \in Nat
         /\ Len(Grown(mem, n)) >= n /\ Len(Grown(mem, n)) >= Len(mem)
         /\ \A i \in 1 .. Len(mem) : Grown(mem, n)[i] = mem[i]
<1> DEFINE k == Len(mem)
           more == IF n > k THEN n - k ELSE 0
           junk == [i \in 1 .. n - k |-> Junk]
<1>1. k \in Nat /\ more \in Nat /\ Junk \in Byte /\ 1 .. n - k = 1 .. more
  BY DEF Byte
<1>2. k + more >= n /\ k + more >= k
  BY <1>1
<1>3. junk = [i \in 1 .. more |-> junk[i]] /\ \A i \in 1 .. more : junk[i] \in Byte
  BY <1>1
<1>4. Grown(mem, n) = mem \o junk
  BY DEF Grown
<1> HIDE DEF junk, more
<1>5. junk \in Seq(Byte) /\ Len(junk) = more
  BY <1>1, <1>3, SeqMade
<1>6. /\ mem \o junk \in Seq(Byte) /\ Len(mem \o junk) = k + more
      /\ \A i \in 1 .. k : (mem \o junk)[i] = mem[i]
  BY <1>1, <1>5
<1> QED BY <1>1, <1>2, <1>4, <1>6

Joined(c, a, b) ==
  /\ Len(c) = Len(a) + Len(b)
  /\ \A k \in 1 .. Len(a) : c[k] = a[k]
  /\ \A k \in 1 .. Len(b) : c[Len(a) + k] = b[k]

LEMMA ConcatIs ==
  ASSUME NEW S, NEW a \in Seq(S), NEW b \in Seq(S)
  PROVE  a \o b \in Seq(S) /\ Joined(a \o b, a, b)
<1> DEFINE n == Len(a)
           m == Len(b)
<1>0. n \in Nat /\ m \in Nat
  OBVIOUS
<1>1. /\ a \o b \in Seq(S) /\ Len(a \o b) = n + m
      /\ \A i \in 1 .. n + m : (a \o b)[i] = IF i <= n THEN a[i] ELSE b[i - n]
  BY ConcatProperties
<1>2. ASSUME NEW k \in 1 .. n
      PROVE  (a \o b)[k] = a[k]
  <2>1. k \in 1 .. n + m /\ k <= n
    BY <1>0
  <2> QED BY <1>1, <2>1
<1>3. ASSUME NEW k \in 1 .. m
      PROVE  (a \o b)[n + k] = b[k]
  <2>1. n + k \in 1 .. n + m /\ ~(n + k <= n) /\ (n + k) - n = k
    BY <1>0
  <2> QED BY <1>1, <2>1
<1> QED BY <1>1, <1>2, <1>3 DEF Joined

(* What Line says of a change of the text.                                 *)
Spliced(t, i, j, s) == TheLine!Take(t, i) \o s \o TheLine!Drop(t, j)

Placed(u, t, i, j, s) ==
  /\ Len(u) = i + Len(s) + (Len(t) - j)
  /\ \A k \in 1 .. i : u[k] = t[k]
  /\ \A k \in 1 .. Len(s) : u[i + k] = s[k]
  /\ \A k \in 1 .. Len(t) - j : u[i + Len(s) + k] = t[j + k]

LEMMA SplicedIs ==
  ASSUME NEW S, NEW t \in Seq(S), NEW s \in Seq(S),
         NEW i \in Nat, NEW j \in Nat, i <= Len(t), j <= Len(t)
  PROVE  Spliced(t, i, j, s) \in Seq(S) /\ Placed(Spliced(t, i, j, s), t, i, j, s)
<1> DEFINE l == SubSeq(t, 1, i)
           r == SubSeq(t, j + 1, Len(t))
           n == Len(s)
           m == Len(t) - j
           p == i + n
           ls == l \o s
           v == ls \o r
<1>1. l \in Seq(S) /\ Len(l) = i /\ \A k \in 1 .. i : l[k] = t[k]
  OBVIOUS
<1>2. r \in Seq(S) /\ Len(r) = m /\ \A k \in 1 .. m : r[k] = t[j + k]
  OBVIOUS
<1>3. Spliced(t, i, j, s) = v
  BY DEF Spliced, TheLine!Take, TheLine!Drop
<1>4. s \in Seq(S) /\ Len(s) = n /\ n \in Nat /\ p \in Nat
  OBVIOUS
<1> HIDE DEF l, r, m, n
<1>5. /\ ls \in Seq(S) /\ Len(ls) = p
      /\ \A k \in 1 .. i : ls[k] = l[k]
      /\ \A k \in 1 .. n : ls[i + k] = s[k]
  <2>1. l \in Seq(S) /\ Len(l) = i
    BY <1>1
  <2>3. ls \in Seq(S) /\ Joined(ls, l, s)
    BY ONLY <2>1, s \in Seq(S), ConcatIs
  <2> HIDE DEF ls
  <2> QED BY <2>1, <2>3, <1>4 DEF Joined
<1> HIDE DEF ls, p
<1>6. /\ v \in Seq(S) /\ Len(v) = p + m
      /\ \A k \in 1 .. p : v[k] = ls[k]
      /\ \A k \in 1 .. m : v[p + k] = r[k]
  <2>1. ls \in Seq(S) /\ Len(ls) = p /\ r \in Seq(S) /\ Len(r) = m
    BY <1>2, <1>5
  <2>3. v \in Seq(S) /\ Joined(v, ls, r)
    BY ONLY <2>1, ConcatIs
  <2> HIDE DEF v
  <2> QED BY <2>1, <2>3 DEF Joined
<1> HIDE DEF v
<1>7. \A k \in 1 .. i : k \in 1 .. p
  BY <1>4 DEF p
<1>8. \A k \in 1 .. n : i + k \in 1 .. p
  BY <1>4 DEF p
<1>9. /\ \A k \in 1 .. i : v[k] = t[k]
      /\ \A k \in 1 .. n : v[i + k] = s[k]
      /\ \A k \in 1 .. m : v[p + k] = t[j + k]
  BY <1>1, <1>2, <1>5, <1>6, <1>7, <1>8
<1>10. Placed(v, t, i, j, s)
  BY <1>6, <1>9 DEF Placed, p, n, m
<1> QED BY <1>3, <1>6, <1>10

(* The places tell the splice.                                             *)
LEMMA SpliceIs ==
  ASSUME NEW S, NEW t \in Seq(S), NEW s \in Seq(S), NEW u \in Seq(S),
         NEW i \in Nat, NEW j \in Nat, i <= Len(t), j <= Len(t), Placed(u, t, i, j, s)
  PROVE  u = Spliced(t, i, j, s)
<1> DEFINE v == Spliced(t, i, j, s)
           n == Len(s)
           m == Len(t) - j
<1>1. /\ v \in Seq(S) /\ Len(v) = i + n + m
      /\ \A k \in 1 .. i : v[k] = t[k]
      /\ \A k \in 1 .. n : v[i + k] = s[k]
      /\ \A k \in 1 .. m : v[i + n + k] = t[j + k]
  <2>1. v \in Seq(S) /\ Placed(v, t, i, j, s)
    BY SplicedIs
  <2> QED BY <2>1 DEF Placed
<1> HIDE DEF v
<1>2. n \in Nat /\ m \in Nat
  OBVIOUS
<1> HIDE DEF n, m
<1>3. ASSUME NEW k \in 1 .. i + n + m
      PROVE  u[k] = v[k]
  <2>1. CASE k <= i
    <3>1. k \in 1 .. i
      BY <2>1, <1>2
    <3>2. v[k] = t[k] /\ u[k] = t[k]
      BY <3>1, <1>1 DEF Placed
    <3> QED BY <3>2
  <2>2. CASE i < k /\ k <= i + n
    <3>1. k - i \in 1 .. n /\ i + (k - i) = k
      BY <2>2, <1>2
    <3>2. v[i + (k - i)] = s[k - i]
      BY <3>1, <1>1
    <3>3. u[i + (k - i)] = s[k - i]
      BY <3>1 DEF n, Placed
    <3> QED BY <3>1, <3>2, <3>3
  <2>3. CASE i + n < k
    <3>1. k - (i + n) \in 1 .. m /\ i + n + (k - (i + n)) = k
      BY <2>3, <1>2
    <3>2. v[i + n + (k - (i + n))] = t[j + (k - (i + n))]
      BY <3>1, <1>1
    <3>3. u[i + n + (k - (i + n))] = t[j + (k - (i + n))]
      BY <3>1 DEF n, m, Placed
    <3> QED BY <3>1, <3>2, <3>3
  <2> QED BY <2>1, <2>2, <2>3, <1>2
<1>4. Len(u) = i + n + m
  BY DEF n, m, Placed
<1>5. u = v
  BY <1>1, <1>3, <1>4, SeqEqual
<1> QED BY <1>5 DEF v

LEMMA TextIs ==
  ASSUME NEW in, Base(in)
  PROVE  /\ Text(in) \in Seq(Char) /\ Len(Text(in)) = in.end
         /\ \A i \in 1 .. in.end : Text(in)[i] = in.mem[i]
<1> DEFINE n == in.end
           mem == in.mem
           f == SubSeq(mem, 1, n)
<1>1. n \in Nat /\ mem \in Seq(Byte) /\ n <= Len(mem) /\ \A i \in 1 .. n : mem[i] \in Char
  BY DEF Base
<1> HIDE DEF n, mem
<1>2. f \in Seq(Byte) /\ Len(f) = n /\ \A i \in 1 .. n : f[i] = mem[i]
  BY <1>1
<1>3. Text(in) = f
  BY DEF Text, n, mem
<1> HIDE DEF f
<1>4. f = [i \in 1 .. n |-> f[i]] /\ \A i \in 1 .. n : f[i] \in Char
  BY <1>1, <1>2
<1>5. f \in Seq(Char)
  BY <1>1, <1>4, SeqMade
<1> QED BY <1>2, <1>3, <1>5 DEF n, mem

(* What stands in memory and in the text.                                  *)
LEMMA PutInIs ==
  ASSUME NEW in, Base(in), NEW s \in Seq(Char)
  PROVE  /\ LineOK(PutIn(in, s))
         /\ PutIn(in, s).pos = in.pos + Len(s)
         /\ Text(PutIn(in, s)) = Spliced(Text(in), in.pos, in.pos, s)
<1> DEFINE end == in.end
           pos == in.pos
           mem == in.mem
           n == Len(s)
           e == end + n
           g == Grown(mem, e + 1)
           m == Ended(g, e)
           tail == SubSeq(m, pos + 1, end)
           one == Put(m, pos + n, tail)
           two == Put(one, pos, s)
           out == [mem |-> two, end |-> e, pos |-> pos + n, pos_end |-> Nil]
<1>0. PutIn(in, s) = out
  BY DEF PutIn
<1>1. /\ end \in Nat /\ pos \in Nat /\ pos <= end /\ end <= Len(mem) /\ mem \in Seq(Byte) /\ n \in Nat
      /\ \A i \in 1 .. end : mem[i] \in Char
      /\ s \in Seq(Byte) /\ \A i \in 1 .. n : s[i] \in Char
  <2>1. s = [i \in 1 .. n |-> s[i]] /\ n \in Nat /\ \A i \in 1 .. n : s[i] \in Byte
    BY DEF Byte
  <2>2. s \in Seq(Byte)
    BY <2>1, SeqMade
  <2> QED BY <2>2 DEF Base
<1>2. Text(in) \in Seq(Char) /\ Len(Text(in)) = end /\ \A i \in 1 .. end : Text(in)[i] = mem[i]
  BY TextIs
<1>3. out.mem = two /\ out.end = e /\ out.pos = pos + n /\ out.pos_end = Nil
  OBVIOUS
<1> HIDE DEF end, pos, mem, n, out
<1>4. e \in Nat /\ e + 1 \in Nat /\ end <= e
  BY <1>1
<1>5. /\ g \in Seq(Byte) /\ Len(g) \in Nat /\ Len(g) >= e + 1 /\ Len(g) >= Len(mem)
      /\ \A i \in 1 .. Len(mem) : g[i] = mem[i]
  BY <1>1, <1>4, GrownIs
<1> HIDE DEF g
<1>6. /\ m \in Seq(Byte) /\ Len(m) = Len(g)
      /\ \A i \in 1 .. Len(g) : m[i] = IF i <= e THEN g[i] ELSE IF i = e + 1 THEN NUL ELSE Junk
  BY <1>4, <1>5, EndedIs
<1> HIDE DEF m
<1>7. /\ m[e + 1] = NUL /\ \A i \in 1 .. end : m[i] = mem[i]
  <2>1. e + 1 \in 1 .. Len(g) /\ ~(e + 1 <= e)
    BY <1>4, <1>5
  <2>2. \A i \in 1 .. end : i \in 1 .. Len(g) /\ i <= e /\ i \in 1 .. Len(mem)
    BY <1>1, <1>4, <1>5
  <2> HIDE DEF e
  <2> QED BY <2>1, <2>2, <1>5, <1>6
<1>8. /\ tail \in Seq(Byte) /\ Len(tail) = end - pos
      /\ \A k \in 1 .. end - pos : tail[k] = mem[pos + k]
  <2>1. end <= Len(m)
    BY <1>1, <1>4, <1>5, <1>6
  <2>2. /\ tail \in Seq(Byte) /\ Len(tail) = end - pos
        /\ \A k \in 1 .. end - pos : tail[k] = m[pos + k]
    BY <2>1, <1>1, <1>6
  <2>3. \A k \in 1 .. end - pos : pos + k \in 1 .. end
    BY <1>1
  <2> HIDE DEF tail
  <2> QED BY <2>2, <2>3, <1>7
<1> HIDE DEF tail
<1>9. /\ one \in Seq(Byte) /\ Len(one) = Len(g)
      /\ \A i \in 1 .. Len(g) : one[i] = IF pos + n < i /\ i <= e THEN tail[i - (pos + n)] ELSE m[i]
  <2>1. pos + n \in Nat /\ (pos + n) + (end - pos) = e
    BY <1>1
  <2>2. /\ one \in Seq(Byte) /\ Len(one) = Len(m)
        /\ \A i \in 1 .. Len(m) : one[i] = IF pos + n < i /\ i <= (pos + n) + Len(tail)
                                           THEN tail[i - (pos + n)] ELSE m[i]
    BY <2>1, <1>6, <1>8, PutIs
  <2> HIDE DEF one, e
  <2> QED BY <2>1, <2>2, <1>6, <1>8
<1> HIDE DEF one
<1>10. /\ two \in Seq(Byte) /\ Len(two) = Len(g)
       /\ \A i \in 1 .. Len(g) : two[i] = IF pos < i /\ i <= pos + n THEN s[i - pos] ELSE one[i]
  <2>1. /\ two \in Seq(Byte) /\ Len(two) = Len(one)
        /\ \A i \in 1 .. Len(one) : two[i] = IF pos < i /\ i <= pos + Len(s) THEN s[i - pos] ELSE one[i]
    BY <1>1, <1>9, PutIs
  <2> HIDE DEF two
  <2> QED BY <2>1, <1>9 DEF n
<1> HIDE DEF two
<1>11. \A k \in 1 .. pos : two[k] = mem[k]
  <2> TAKE k \in 1 .. pos
  <2>1. k \in 1 .. Len(g) /\ ~(pos < k) /\ ~(pos + n < k) /\ k \in 1 .. end
    BY <1>1, <1>4, <1>5
  <2> HIDE DEF e
  <2> QED BY <2>1, <1>7, <1>9, <1>10
<1>12. \A k \in 1 .. n : two[pos + k] = s[k]
  <2> TAKE k \in 1 .. n
  <2>1. pos + k \in 1 .. Len(g) /\ pos < pos + k /\ pos + k <= pos + n /\ (pos + k) - pos = k
    BY <1>1, <1>4, <1>5
  <2> QED BY <2>1, <1>10
<1>13. \A k \in 1 .. end - pos : two[pos + n + k] = mem[pos + k]
  <2> TAKE k \in 1 .. end - pos
  <2> DEFINE i == pos + n + k
  <2>1. i \in 1 .. Len(g) /\ ~(i <= pos + n) /\ pos + n < i /\ i <= e /\ i - (pos + n) = k
    BY <1>1, <1>4, <1>5
  <2> HIDE DEF i, e
  <2>2. two[i] = tail[k]
    BY <2>1, <1>9, <1>10
  <2> QED BY <2>2, <1>8 DEF i
<1>14. two[e + 1] = NUL
  <2>1. e + 1 \in 1 .. Len(g) /\ ~(e + 1 <= pos + n) /\ ~(e + 1 <= e)
    BY <1>1, <1>4, <1>5
  <2> DEFINE i == e + 1
  <2> HIDE DEF i
  <2>2. two[i] = m[i]
    BY <2>1, <1>9, <1>10 DEF i
  <2> QED BY <2>2, <1>7 DEF i
<1>15. \A i \in 1 .. e : two[i] \in Char
  <2> TAKE i \in 1 .. e
  <2>1. CASE i <= pos
    <3>1. i \in 1 .. pos /\ i \in 1 .. end
      BY <2>1, <1>1
    <3> QED BY <3>1, <1>1, <1>11
  <2>2. CASE pos < i /\ i <= pos + n
    <3>1. i - pos \in 1 .. n /\ pos + (i - pos) = i
      BY <2>2, <1>1
    <3>2. two[pos + (i - pos)] = s[i - pos]
      BY <3>1, <1>12
    <3> QED BY <3>1, <3>2, <1>1
  <2>3. CASE pos + n < i
    <3>1. i - (pos + n) \in 1 .. end - pos /\ pos + n + (i - (pos + n)) = i
          /\ pos + (i - (pos + n)) \in 1 .. end
      BY <2>3, <1>1
    <3>2. two[pos + n + (i - (pos + n))] = mem[pos + (i - (pos + n))]
      BY <3>1, <1>13
    <3> QED BY <3>1, <3>2, <1>1
  <2> QED BY <2>1, <2>2, <2>3, <1>1
<1>16. Base(out)
  <2>1. pos + n <= e /\ pos + n \in Nat /\ e <= Len(two)
    BY <1>1, <1>4, <1>5, <1>10
  <2> HIDE DEF e
  <2> QED BY <2>1, <1>3, <1>4, <1>10, <1>15 DEF Base
<1>17. LineOK(out)
  <2>1. e + 1 <= Len(two)
    BY <1>4, <1>5, <1>10
  <2> HIDE DEF e
  <2>2. out = [mem |-> out.mem, end |-> out.end, pos |-> out.pos, pos_end |-> Nil]
    BY DEF out
  <2> QED BY <2>1, <2>2, <1>3, <1>14, <1>16 DEF LineOK
<1>18. Text(out) = Spliced(Text(in), pos, pos, s)
  <2>1. Text(out) \in Seq(Char) /\ Len(Text(out)) = e /\ \A i \in 1 .. e : Text(out)[i] = two[i]
    BY <1>3, <1>16, TextIs
  <2> DEFINE t == Text(in)
             u == Text(out)
  <2> HIDE DEF t, u
  <2>2. t \in Seq(Char) /\ Len(t) = end /\ \A i \in 1 .. end : t[i] = mem[i]
    BY <1>2 DEF t
  <2>3. u \in Seq(Char) /\ Len(u) = pos + n + (Len(t) - pos)
    BY <2>1, <2>2, <1>1 DEF u
  <2>4. \A k \in 1 .. pos : u[k] = t[k]
    <3>1. \A k \in 1 .. pos : k \in 1 .. e /\ k \in 1 .. end
      BY <1>1, <1>4
    <3> QED BY <3>1, <2>1, <2>2, <1>11 DEF u
  <2>5. \A k \in 1 .. n : u[pos + k] = s[k]
    <3>1. \A k \in 1 .. n : pos + k \in 1 .. e
      BY <1>1, <1>4
    <3> QED BY <3>1, <2>1, <1>12 DEF u
  <2>6. \A k \in 1 .. Len(t) - pos : u[pos + n + k] = t[pos + k]
    <3>1. \A k \in 1 .. end - pos : pos + n + k \in 1 .. e /\ pos + k \in 1 .. end
      BY <1>1, <1>4
    <3> QED BY <3>1, <2>1, <2>2, <1>13 DEF u
  <2>7. u = Spliced(t, pos, pos, s)
    <3>1. pos \in Nat /\ pos <= Len(t)
      BY <2>2, <1>1
    <3> HIDE DEF e
    <3>2. Placed(u, t, pos, pos, s)
      BY <2>3, <2>4, <2>5, <2>6 DEF n, Placed
    <3> QED BY ONLY <3>1, <3>2, <2>2, <2>3, s \in Seq(Char), SpliceIs
  <2> QED BY <2>7 DEF t, u
<1> QED BY <1>0, <1>3, <1>17, <1>18 DEF pos, n

Lower(a, b) == IF a <= b THEN a ELSE b
Upper(a, b) == IF a <= b THEN b ELSE a

LEMMA DeleteToIs ==
  ASSUME NEW in, Base(in), in.end + 1 <= Len(in.mem), NEW p \in Nat, p <= in.end
  PROVE  /\ LineOK(DeleteTo(in, p))
         /\ DeleteTo(in, p).pos = Lower(p, in.pos)
         /\ Text(DeleteTo(in, p)) = Spliced(Text(in), Lower(p, in.pos), Upper(p, in.pos), <<>>)
<1> DEFINE end == in.end
           pos == in.pos
           mem == in.mem
           lo == Lower(p, pos)
           hi == Upper(p, pos)
           e == lo + (end - hi)
           m == IF p = end THEN mem ELSE Put(mem, lo, SubSeq(mem, hi + 1, end))
           new == Ended(m, e)
           out == [mem |-> new, end |-> e, pos |-> lo, pos_end |-> Nil]
<1>1. /\ end \in Nat /\ pos \in Nat /\ pos <= end /\ end + 1 <= Len(mem) /\ mem \in Seq(Byte)
      /\ Len(mem) \in Nat /\ \A i \in 1 .. end : mem[i] \in Char
  BY DEF Base
<1>2. Text(in) \in Seq(Char) /\ Len(Text(in)) = end /\ \A i \in 1 .. end : Text(in)[i] = mem[i]
  BY TextIs
<1>3. out.mem = new /\ out.end = e /\ out.pos = lo /\ out.pos_end = Nil
  OBVIOUS
<1>4. p = end => lo = pos /\ hi = end /\ e = pos
  BY <1>1 DEF Lower, Upper
<1>5. Max({p, pos}) = hi /\ Min({p, pos}) = lo
  BY <1>1, MinPair, MaxPair DEF Lower, Upper
<1>6. DeleteTo(in, p) = out
  <2>1. DeleteTo(in, p) = [mem |-> Ended(m, IF p = end THEN pos ELSE e),
                           end |-> IF p = end THEN pos ELSE e,
                           pos |-> IF p = end THEN pos ELSE lo, pos_end |-> Nil]
    BY <1>5 DEF DeleteTo
  <2> QED BY <2>1, <1>4
<1> HIDE DEF end, pos, mem, out
<1>7. /\ lo \in Nat /\ hi \in Nat /\ lo <= hi /\ hi <= end /\ lo <= pos /\ e \in Nat /\ e <= end
      /\ lo <= e
  BY <1>1 DEF Lower, Upper, end
<1> HIDE DEF lo, hi
<1>8. /\ m \in Seq(Byte) /\ Len(m) = Len(mem)
      /\ \A k \in 1 .. lo : m[k] = mem[k]
      /\ \A k \in 1 .. end - hi : m[lo + k] = mem[hi + k]
  <2>1. CASE p = end
    <3>1. m = mem /\ hi = end
      BY <2>1, <1>4
    <3>2. 1 .. end - hi = {}
      BY <3>1, <1>1
    <3> HIDE DEF m
    <3> QED BY <3>1, <3>2, <1>1
  <2>2. CASE p # end
    <3> DEFINE tail == SubSeq(mem, hi + 1, end)
               put == Put(mem, lo, tail)
    <3>1. m = put
      BY <2>2
    <3>2. /\ tail \in Seq(Byte) /\ Len(tail) = end - hi
          /\ \A k \in 1 .. end - hi : tail[k] = mem[hi + k]
      BY <1>1, <1>7
    <3> HIDE DEF tail
    <3>3. /\ put \in Seq(Byte) /\ Len(put) = Len(mem)
          /\ \A i \in 1 .. Len(mem) : put[i] = IF lo < i /\ i <= lo + (end - hi) THEN tail[i - lo] ELSE mem[i]
      BY <3>2, <1>1, <1>7, PutIs
    <3> HIDE DEF put, m
    <3>4. \A k \in 1 .. lo : put[k] = mem[k]
      <4> TAKE k \in 1 .. lo
      <4>1. k \in 1 .. Len(mem) /\ ~(lo < k)
        BY <1>1, <1>7
      <4> QED BY <4>1, <3>3
    <3>5. \A k \in 1 .. end - hi : put[lo + k] = mem[hi + k]
      <4> TAKE k \in 1 .. end - hi
      <4>1. lo + k \in 1 .. Len(mem) /\ lo < lo + k /\ lo + k <= lo + (end - hi) /\ (lo + k) - lo = k
        BY <1>1, <1>7
      <4>2. put[lo + k] = tail[k]
        BY <4>1, <3>3
      <4> QED BY <4>2, <3>2
    <3> QED BY <3>1, <3>3, <3>4, <3>5
  <2> QED BY <2>1, <2>2
<1> HIDE DEF m
<1>9. /\ new \in Seq(Byte) /\ Len(new) = Len(mem)
      /\ \A i \in 1 .. Len(mem) : new[i] = IF i <= e THEN m[i] ELSE IF i = e + 1 THEN NUL ELSE Junk
  <2> HIDE DEF e
  <2> QED BY <1>7, <1>8, EndedIs
<1> HIDE DEF new
<1>10. /\ \A k \in 1 .. lo : new[k] = mem[k]
       /\ \A k \in 1 .. end - hi : new[lo + k] = mem[hi + k]
  <2>1. \A k \in 1 .. lo : k \in 1 .. Len(mem) /\ k <= e
    BY <1>1, <1>7
  <2>2. \A k \in 1 .. end - hi : lo + k \in 1 .. Len(mem) /\ lo + k <= e
    BY <1>1, <1>7
  <2> HIDE DEF e
  <2> QED BY <2>1, <2>2, <1>8, <1>9
<1>11. new[e + 1] = NUL
  <2>1. e + 1 \in 1 .. Len(mem) /\ ~(e + 1 <= e)
    BY <1>1, <1>7
  <2> HIDE DEF e
  <2> QED BY <2>1, <1>9
<1>12. \A i \in 1 .. e : new[i] \in Char
  <2> TAKE i \in 1 .. e
  <2>1. CASE i <= lo
    <3>1. i \in 1 .. lo /\ i \in 1 .. end
      BY <2>1, <1>1, <1>7
    <3> QED BY <3>1, <1>1, <1>10
  <2>2. CASE ~(i <= lo)
    <3>1. i - lo \in 1 .. end - hi /\ lo + (i - lo) = i /\ hi + (i - lo) \in 1 .. end
      BY <2>2, <1>1, <1>7
    <3>2. new[lo + (i - lo)] = mem[hi + (i - lo)]
      BY <3>1, <1>10
    <3> QED BY <3>1, <3>2, <1>1
  <2> QED BY <2>1, <2>2
<1>13. Base(out) /\ LineOK(out)
  <2>1. e <= Len(new) /\ e + 1 <= Len(new)
    BY <1>1, <1>7, <1>9
  <2> HIDE DEF e
  <2>2. out = [mem |-> out.mem, end |-> out.end, pos |-> out.pos, pos_end |-> Nil]
    BY DEF out
  <2>3. Base(out)
    BY <2>1, <1>3, <1>7, <1>9, <1>12 DEF Base
  <2> QED BY <2>1, <2>2, <2>3, <1>3, <1>11 DEF LineOK
<1>14. Text(out) = Spliced(Text(in), lo, hi, <<>>)
  <2>1. Text(out) \in Seq(Char) /\ Len(Text(out)) = e /\ \A i \in 1 .. e : Text(out)[i] = new[i]
    BY <1>3, <1>13, TextIs
  <2>0. PICK s \in Seq(Char) : s = <<>> /\ Len(s) = 0
    <3>1. PICK s \in Seq(Char) : s = <<>>
      BY EmptySeq
    <3> QED BY <3>1
  <2> DEFINE t == Text(in)
             u == Text(out)
  <2> HIDE DEF t, u
  <2>2. t \in Seq(Char) /\ Len(t) = end /\ \A i \in 1 .. end : t[i] = mem[i]
    BY <1>2 DEF t
  <2>3. u \in Seq(Char) /\ Len(u) = lo + Len(s) + (Len(t) - hi)
    BY <2>0, <2>1, <2>2, <1>1, <1>7 DEF u
  <2>4. \A k \in 1 .. lo : u[k] = t[k]
    <3>1. \A k \in 1 .. lo : k \in 1 .. e /\ k \in 1 .. end
      BY <1>1, <1>7
    <3> QED BY <3>1, <2>1, <2>2, <1>10 DEF u
  <2>5. \A k \in 1 .. Len(s) : u[lo + k] = s[k]
    BY <2>0
  <2>6. \A k \in 1 .. Len(t) - hi : u[lo + Len(s) + k] = t[hi + k]
    <3>1. \A k \in 1 .. end - hi : lo + k \in 1 .. e /\ hi + k \in 1 .. end /\ lo + Len(s) + k = lo + k
      BY <1>1, <1>7, <2>0
    <3> QED BY <3>1, <2>1, <2>2, <1>10 DEF u
  <2>7. u = Spliced(t, lo, hi, s)
    <3>1. lo \in Nat /\ hi \in Nat /\ lo <= Len(t) /\ hi <= Len(t)
      BY <2>2, <1>1, <1>7
    <3>2. Placed(u, t, lo, hi, s)
      BY <2>3, <2>4, <2>5, <2>6 DEF Placed
    <3> QED BY ONLY <3>1, <3>2, <2>2, <2>3, s \in Seq(Char), SpliceIs
  <2> QED BY <2>7, <2>0 DEF t, u
<1> QED BY <1>3, <1>6, <1>13, <1>14 DEF lo, hi, pos
-----------------------------------------------------------------------------
(* The caret.                                                              *)

LEMMA FirstStop ==
  ASSUME NEW e \in Nat, NEW p \in Nat, p <= e, NEW ends
  PROVE  /\ Min({q \in p .. e : q = e \/ q \in ends}) \in Nat
         /\ p <= Min({q \in p .. e : q = e \/ q \in ends})
         /\ Min({q \in p .. e : q = e \/ q \in ends}) <= e
<1> DEFINE S == {q \in p .. e : q = e \/ q \in ends}
<1>1. S \subseteq Nat /\ e \in S
  OBVIOUS
<1>2. Min(S) \in S
  <2> HIDE DEF S
  <2> QED BY <1>1, MinIn
<1> DEFINE m == Min(S)
<1> HIDE DEF m
<1>3. m \in p .. e
  BY <1>2 DEF m
<1> QED BY <1>3 DEF m

LEMMA LastStop ==
  ASSUME NEW p \in Nat, NEW ends
  PROVE  /\ Max({q \in 0 .. p : q = 0 \/ q \in ends}) \in Nat
         /\ Max({q \in 0 .. p : q = 0 \/ q \in ends}) <= p
<1> DEFINE S == {q \in 0 .. p : q = 0 \/ q \in ends}
<1>1. S \subseteq 0 .. p /\ 0 \in S
  OBVIOUS
<1>2. Max(S) \in S
  <2> HIDE DEF S
  <2> QED BY <1>1, MaxIn
<1> DEFINE m == Max(S)
<1> HIDE DEF m
<1>3. m \in 0 .. p
  BY <1>2 DEF m
<1> QED BY <1>3 DEF m

Directions == {"forward", "backward"}

LEMMA FindIs ==
  ASSUME NEW in, Base(in), NEW dir \in Directions, NEW amount \in Amounts
  PROVE  Find(in, dir, amount) \in Nat /\ Find(in, dir, amount) <= in.end
<1> DEFINE end == in.end
           pos == in.pos
           t == Text(in)
<1>1. end \in Nat /\ pos \in Nat /\ pos <= end
  BY DEF Base
<1>2. Forward(in, amount) \in Nat /\ Forward(in, amount) <= end
  <2>1. CASE amount = "line"
    BY <2>1, <1>1 DEF Forward
  <2>2. CASE amount = "char"
    <3>1. Forward(in, amount) = Min({pos + 1, end})
      BY <2>2 DEF Forward
    <3>2. pos + 1 \in Nat
      BY <1>1
    <3> HIDE DEF pos, end
    <3> QED BY <3>1, <3>2, <1>1, MinPair
  <2>3. CASE amount = "word"
    <3> DEFINE here == {q \in pos .. end - 1 : t[q + 1] \in Space \/ ClassOf(t[q + 1]) # ClassOf(t[pos + 1])}
               word == Min({q \in pos .. end : q = end \/ q \in here})
               there == {q \in 0 .. end - 1 : t[q + 1] \notin Space}
    <3>1. Forward(in, amount) = Min({q \in word .. end : q = end \/ q \in there})
      BY <2>3 DEF Forward
    <3> HIDE DEF here, there, pos, end
    <3>2. word \in Nat /\ word <= end
      BY <1>1, FirstStop
    <3> HIDE DEF word
    <3> QED BY <3>1, <3>2, <1>1, FirstStop DEF end
  <2> QED BY <2>1, <2>2, <2>3 DEF Amounts
<1>3. Backward(in, amount) \in Nat /\ Backward(in, amount) <= end
  <2>1. CASE amount = "line"
    BY <2>1, <1>1 DEF Backward
  <2>2. CASE amount = "char"
    <3>1. Backward(in, amount) = IF pos = 0 THEN 0 ELSE pos - 1
      BY <2>2 DEF Backward
    <3> QED BY <3>1, <1>1
  <2>3. CASE amount = "word"
    <3> DEFINE here == {q \in 1 .. pos : t[q] \notin Space}
               word == Max({q \in 0 .. pos : q = 0 \/ q \in here})
               there == {q \in 1 .. word : t[q] \in Space \/ ClassOf(t[q]) # ClassOf(t[word])}
               back == Max({q \in 0 .. word : q = 0 \/ q \in there})
    <3>1. Backward(in, amount) = back
      BY <2>3 DEF Backward
    <3> HIDE DEF here, there, pos
    <3>2. word \in Nat /\ word <= pos
      BY <1>1, LastStop
    <3> HIDE DEF word
    <3>3. back \in Nat /\ back <= word
      BY <3>2, LastStop
    <3> HIDE DEF back
    <3> QED BY <3>1, <3>2, <3>3, <1>1 DEF pos, end
  <2> QED BY <2>1, <2>2, <2>3 DEF Amounts
<1> QED BY <1>2, <1>3 DEF Find
-----------------------------------------------------------------------------
(* What goes in.                                                           *)

LEMMA InsertIs ==
  ASSUME NEW in, LineOK(in), NEW s \in Seq(Char)
  PROVE  LET out == CaretInsert(in, s, FALSE)
         IN  /\ LineOK(out) /\ out.pos = in.pos + Len(s)
             /\ Text(out) = Spliced(Text(in), in.pos, in.pos, s)
<1>1. in.pos_end = Nil /\ Base(in)
  BY DEF LineOK
<1>2. CaretInsert(in, s, FALSE) = PutIn(in, s)
  BY <1>1 DEF CaretInsert
<1> QED BY <1>1, <1>2, PutInIs

(* A string in the place of the part from i to j, taken out first.         *)
LEMMA SpliceTwice ==
  ASSUME NEW S, NEW t \in Seq(S), NEW s \in Seq(S), NEW i \in Nat, NEW j \in Nat, i <= j, j <= Len(t)
  PROVE  Spliced(Spliced(t, i, j, <<>>), i, i, s) = Spliced(t, i, j, s)
<1>1. PICK z \in Seq(S) : z = <<>> /\ Len(z) = 0
  <2>1. PICK z \in Seq(S) : z = <<>>
    BY EmptySeq
  <2> QED BY <2>1
<1> DEFINE u == Spliced(t, i, j, z)
           v == Spliced(u, i, i, s)
           n == Len(s)
           m == Len(t) - j
<1>0. i <= Len(t) /\ n \in Nat /\ m \in Nat
  OBVIOUS
<1>2. /\ u \in Seq(S) /\ Len(u) = i + m
      /\ \A k \in 1 .. i : u[k] = t[k]
      /\ \A k \in 1 .. m : u[i + k] = t[j + k]
  <2>1. /\ u \in Seq(S) /\ Len(u) = i + Len(z) + m
        /\ \A k \in 1 .. i : u[k] = t[k]
        /\ \A k \in 1 .. m : u[i + Len(z) + k] = t[j + k]
    <3>1. i <= Len(t)
      BY <1>0
    <3>2. u \in Seq(S) /\ Placed(u, t, i, j, z)
      BY <3>1, SplicedIs
    <3> QED BY <3>2 DEF Placed
  <2>2. i + Len(z) = i
    BY <1>1
  <2> HIDE DEF u, m
  <2> QED BY <2>1, <2>2
<1> HIDE DEF u
<1>3. /\ v \in Seq(S) /\ Len(v) = i + n + m
      /\ \A k \in 1 .. i : v[k] = t[k]
      /\ \A k \in 1 .. n : v[i + k] = s[k]
      /\ \A k \in 1 .. m : v[i + n + k] = t[j + k]
  <2>1. i <= Len(u) /\ Len(u) - i = m
    BY <1>0, <1>2
  <2>2. /\ v \in Seq(S) /\ Len(v) = i + n + (Len(u) - i)
        /\ \A k \in 1 .. i : v[k] = u[k]
        /\ \A k \in 1 .. n : v[i + k] = s[k]
        /\ \A k \in 1 .. Len(u) - i : v[i + n + k] = u[i + k]
    <3>1. v \in Seq(S) /\ Placed(v, u, i, i, s)
      BY <2>1, <1>2, SplicedIs
    <3> QED BY <3>1 DEF Placed
  <2> HIDE DEF v, n, m
  <2> QED BY <2>1, <2>2, <1>2
<1> HIDE DEF v
<1>4. v = Spliced(t, i, j, s)
  <2>1. Placed(v, t, i, j, s)
    BY <1>3 DEF Placed
  <2>2. i <= Len(t) /\ v \in Seq(S)
    BY <1>0, <1>3
  <2> HIDE DEF n, m
  <2> QED BY <2>1, <2>2, SpliceIs
<1> QED BY <1>1, <1>4 DEF u, v

LEMMA ReplaceIs ==
  ASSUME NEW in, LineOK(in), NEW from \in Nat, NEW s \in Seq(Char)
  PROVE  LET out == CaretInsert(CaretSet(in, from, in.pos), s, FALSE)
             i == Lower(in.end, from)
         IN  /\ LineOK(out) /\ out.pos = i + Len(s)
             /\ Text(out) = Spliced(Text(in), i, Upper(i, in.pos), s)
<1> DEFINE end == in.end
           pos == in.pos
           i == Lower(end, from)
           j == Upper(i, pos)
           set == CaretSet(in, from, pos)
           cut == DeleteTo(set, j)
           out == CaretInsert(set, s, FALSE)
<1>1. /\ end \in Nat /\ pos \in Nat /\ pos <= end /\ Base(in) /\ end + 1 <= Len(in.mem)
      /\ in = [mem |-> in.mem, end |-> end, pos |-> pos, pos_end |-> Nil]
  BY DEF LineOK, Base
<1>2. i \in Nat /\ j \in Nat /\ i <= j /\ j <= end /\ Lower(j, i) = i /\ Upper(j, i) = j
  BY <1>1 DEF Lower, Upper
<1>3. Min({end, from}) = i /\ Max({i, pos}) = j
  <2>1. Min({end, from}) = i
    BY <1>1, MinPair DEF Lower
  <2> HIDE DEF i
  <2>2. Max({i, pos}) = j
    BY <1>1, <1>2, MaxPair DEF Upper
  <2> QED BY <2>1, <2>2
<1> HIDE DEF i, j
<1>4. /\ set.mem = in.mem /\ set.end = end /\ set.pos = i /\ set.pos_end = j
  <2>1. set = [in EXCEPT !.pos = i, !.pos_end = j]
    BY <1>3 DEF CaretSet
  <2> HIDE DEF set
  <2> QED BY <2>1, <1>1
<1> HIDE DEF set
<1>5. Base(set) /\ Text(set) = Text(in) /\ set.end + 1 <= Len(set.mem)
  BY <1>1, <1>2, <1>4 DEF Base, Text
<1>6. j # Nil
  BY <1>2, MenuAssumption
<1>7. out = PutIn(cut, s)
  BY <1>4, <1>6 DEF CaretInsert
<1>8. /\ LineOK(cut) /\ cut.pos = i
      /\ Text(cut) = Spliced(Text(in), i, j, <<>>)
  BY <1>2, <1>4, <1>5, DeleteToIs
<1> HIDE DEF cut, out
<1>9. LineOK(out) /\ out.pos = i + Len(s) /\ Text(out) = Spliced(Text(cut), i, i, s)
  <2>1. Base(cut)
    BY <1>8 DEF LineOK
  <2> QED BY <2>1, <1>7, <1>8, PutInIs
<1>10. Text(out) = Spliced(Text(in), i, j, s)
  <2>1. Text(in) \in Seq(Char) /\ Len(Text(in)) = end
    BY <1>1, TextIs
  <2> QED BY <2>1, <1>2, <1>8, <1>9, SpliceTwice
<1> QED BY <1>9, <1>10 DEF out, set, i, j

(* The whole line gives way.                                               *)
LEMMA ClearIs ==
  ASSUME NEW in, in.mem \in Seq(Byte),
         in = [mem |-> in.mem, end |-> in.end, pos |-> in.pos, pos_end |-> in.pos_end],
         NEW s \in Seq(Char)
  PROVE  LET out == CaretInsert(in, s, TRUE)
         IN  LineOK(out) /\ out.end = Len(s) /\ Text(out) = s
<1> DEFINE none == [in EXCEPT !.pos = 0, !.end = 0]
           out == PutIn(none, s)
<1>1. CaretInsert(in, s, TRUE) = out
  BY DEF CaretInsert
<1>2. none.mem = in.mem /\ none.pos = 0 /\ none.end = 0
  OBVIOUS
<1> HIDE DEF none
<1>3. Base(none)
  BY <1>2 DEF Base
<1>4. /\ LineOK(out) /\ Text(out) = Spliced(Text(none), 0, 0, s)
  BY <1>2, <1>3, PutInIs
<1> DEFINE t == Text(none)
<1>5. t \in Seq(Char) /\ Len(t) = 0
  BY <1>2, <1>3, TextIs
<1> HIDE DEF t
<1>6. s = Spliced(t, 0, 0, s)
  <2>1. Len(s) = 0 + Len(s) + (Len(t) - 0) /\ Len(s) \in Nat
    BY <1>5
  <2>2. /\ \A k \in 1 .. 0 : s[k] = t[k]
        /\ \A k \in 1 .. Len(s) : s[0 + k] = s[k]
        /\ \A k \in 1 .. Len(t) - 0 : s[0 + Len(s) + k] = t[0 + k]
    BY <1>5
  <2>3. Placed(s, t, 0, 0, s)
    BY <2>1, <2>2 DEF Placed
  <2>4. 0 \in Nat /\ 0 <= Len(t)
    BY <1>5
  <2> QED BY ONLY <2>3, <2>4, <1>5, s \in Seq(Char), SpliceIs
<1>7. out.end = Len(s)
  BY <1>2 DEF PutIn
<1> QED BY <1>1, <1>4, <1>6, <1>7 DEF t

LEMMA MoveIs ==
  ASSUME NEW in, LineOK(in), NEW p \in Nat, p <= in.end
  PROVE  LET out == [in EXCEPT !.pos = p]
         IN  LineOK(out) /\ out.pos = p /\ Text(out) = Text(in)
<1> DEFINE out == [in EXCEPT !.pos = p]
<1>1. /\ out.mem = in.mem /\ out.end = in.end /\ out.pos = p /\ out.pos_end = Nil
      /\ out = [mem |-> out.mem, end |-> out.end, pos |-> out.pos, pos_end |-> Nil]
  BY DEF LineOK
<1> HIDE DEF out
<1> QED BY <1>1 DEF out, LineOK, Base, Text
-----------------------------------------------------------------------------
(* The items.                                                              *)

Step(list, x, strings) == IF x.string \in strings THEN Append(list, x) ELSE list

HavingOf(items, strings, n, at) ==
  at = [i \in 0 .. n |-> IF i = 0 THEN <<>> ELSE Step(at[i - 1], items[i], strings)]

(* There is a list of the first n: the least n without one has a           *)
(* predecessor, whose list can be continued.                               *)
LEMMA HavingExists ==
  ASSUME NEW items, NEW strings, NEW n \in Nat
  PROVE  \E at : HavingOf(items, strings, n, at)
<1> DEFINE Is(m, at) == at = [i \in 0 .. m |-> IF i = 0 THEN <<>> ELSE Step(at[i - 1], items[i], strings)]
           bad == {m \in Nat : ~ \E at : Is(m, at)}
<1>0. \A at : HavingOf(items, strings, n, at) <=> Is(n, at)
  BY DEF HavingOf
<1>1. ASSUME bad # {} PROVE FALSE
  <2>1. PICK m \in bad : \A k \in bad : m <= k
    <3>1. bad \subseteq Nat
      OBVIOUS
    <3> HIDE DEF bad
    <3> QED BY <1>1, <3>1, NatMin
  <2>2. m \in Nat /\ ~ \E at : Is(m, at)
    OBVIOUS
  <2>3. m # 0
    <3> DEFINE g == [i \in 0 .. 0 |-> <<>>]
    <3>1. Is(0, g)
      OBVIOUS
    <3> QED BY <3>1, <2>2
  <2>4. m - 1 \in Nat /\ m - 1 \notin bad
    <3>1. m - 1 \in Nat /\ ~(m <= m - 1)
      BY <2>2, <2>3
    <3> HIDE DEF bad
    <3> QED BY <2>1, <3>1
  <2>5. PICK at : Is(m - 1, at)
    BY <2>4
  <2> DEFINE new == [i \in 0 .. m |-> IF i = m THEN Step(at[m - 1], items[m], strings) ELSE at[i]]
  <2>6. \A i \in 0 .. m : new[i] = IF i = 0 THEN <<>> ELSE Step(new[i - 1], items[i], strings)
    <3> TAKE i \in 0 .. m
    <3>1. CASE i = m
      <4>1. new[i] = Step(at[m - 1], items[m], strings) /\ new[i - 1] = at[m - 1]
        BY <2>2, <2>3, <3>1
      <4> HIDE DEF new
      <4> QED BY <4>1, <2>3, <3>1
    <3>2. CASE i = 0
      <4>1. new[i] = at[0] /\ 0 \in 0 .. m - 1
        BY <2>2, <2>3, <2>4, <3>2
      <4> HIDE DEF new
      <4>2. at[0] = <<>>
        BY <2>5, <4>1
      <4> QED BY <4>1, <4>2, <3>2
    <3>3. CASE i # 0 /\ i # m
      <4>1. new[i] = at[i] /\ new[i - 1] = at[i - 1] /\ i \in 0 .. m - 1
        BY <2>2, <3>3
      <4> HIDE DEF new
      <4>2. at[i] = Step(at[i - 1], items[i], strings)
        BY <2>5, <4>1, <3>3
      <4> QED BY <4>1, <4>2, <3>3
    <3> QED BY <3>1, <3>2, <3>3
  <2>7. new = [i \in 0 .. m |-> new[i]]
    OBVIOUS
  <2> HIDE DEF new
  <2>8. Is(m, new)
    BY <2>6, <2>7
  <2> QED BY <2>2, <2>8
<1>2. \E at : Is(n, at)
  <2>1. n \notin bad
    BY <1>1
  <2> QED BY <2>1
<1> HIDE DEF Is
<1> QED BY <1>0, <1>2

LEMMA HavingIs ==
  ASSUME NEW S, NEW items \in Seq(S), NEW strings
  PROVE  Having(items, strings) \in Seq(S)
<1> DEFINE n == Len(items)
           at == CHOOSE at : HavingOf(items, strings, n, at)
<1>1. n \in Nat /\ \A i \in 1 .. n : items[i] \in S
  OBVIOUS
<1>2. Having(items, strings) = at[n]
  BY DEF Having, HavingOf, Step
<1>3. HavingOf(items, strings, n, at)
  <2> HIDE DEF n
  <2> QED BY <1>1, HavingExists
<1> HIDE DEF at, n
<1>4. \A i \in 0 .. n : at[i] = IF i = 0 THEN <<>> ELSE Step(at[i - 1], items[i], strings)
  BY <1>3 DEF HavingOf
<1> DEFINE bad == {i \in 0 .. n : at[i] \notin Seq(S)}
<1>5. ASSUME bad # {} PROVE FALSE
  <2>1. PICK m \in bad : \A k \in bad : m <= k
    <3>1. bad \subseteq Nat
      BY <1>1
    <3> HIDE DEF bad
    <3> QED BY <1>5, <3>1, NatMin
  <2>2. m \in 0 .. n /\ at[m] \notin Seq(S)
    OBVIOUS
  <2>3. m # 0
    BY <2>2, <1>1, <1>4, EmptySeq
  <2>4. m - 1 \in 0 .. n /\ m \in 1 .. n /\ ~(m <= m - 1)
    BY <1>1, <2>2, <2>3
  <2>5. at[m - 1] \in Seq(S) /\ items[m] \in S
    BY <2>1, <2>4, <1>1
  <2>6. at[m] = Step(at[m - 1], items[m], strings)
    BY <1>4, <2>2, <2>3
  <2>7. Append(at[m - 1], items[m]) \in Seq(S)
    BY <2>5
  <2> QED BY <2>2, <2>5, <2>6, <2>7 DEF Step
<1>6. n \notin bad /\ n \in 0 .. n
  BY <1>1, <1>5
<1> QED BY <1>2, <1>6

LEMMA FilterListIs ==
  ASSUME NEW S, NEW items \in Seq(S), NEW f
  PROVE  FilterList(items, f) \in Seq(S)
<1> DEFINE strings == {items[i].string : i \in DOMAIN items}
           a == Having(items, {f})
           b == Having(items, {s \in strings : IsStrictPrefix(f, s)})
           c == Having(items, {s \in strings : Occurs(f, s) /\ ~IsPrefix(f, s)})
<1>1. FilterList(items, f) = (a \o b) \o c
  BY DEF FilterList
<1>2. a \in Seq(S) /\ b \in Seq(S) /\ c \in Seq(S)
  BY HavingIs
<1> HIDE DEF a, b, c
<1> QED BY <1>1, <1>2

LEMMA KnownItems ==
  ASSUME NEW items \in Completions
  PROVE  items \in Seq(Known)
<1>1. items \in Seq(Item)
  BY MenuAssumption
<1>2. \A i \in 1 .. Len(items) : items[i] \in Known
  <2> TAKE i \in 1 .. Len(items)
  <2>1. items[i] \in Item /\ i \in DOMAIN items
    BY <1>1
  <2>2. items[i].string \in UNION {{list[k].string : k \in DOMAIN list} : list \in Completions}
    BY <2>1
  <2> QED BY <2>1, <2>2 DEF Known, Pieces
<1>3. Len(items) \in Nat /\ items = [i \in 1 .. Len(items) |-> items[i]]
  BY <1>1
<1> QED BY <1>2, <1>3, SeqMade

LEMMA PieceIs ==
  ASSUME NEW s \in Pieces
  PROVE  s \in Seq(Char)
<1>1. CASE s \in {<<c>> : c \in Char}
  <2>1. PICK c \in Char : s = <<c>>
    BY <1>1
  <2> QED BY <2>1
<1>2. CASE s \in Pastes
  BY <1>2, MenuAssumption
<1>3. CASE s \in UNION {{items[i].string : i \in DOMAIN items} : items \in Completions}
  <2>1. PICK items \in Completions : s \in {items[i].string : i \in DOMAIN items}
    BY <1>3
  <2>2. PICK i \in DOMAIN items : s = items[i].string
    BY <2>1
  <2>3. items \in Seq(Item)
    BY MenuAssumption
  <2>4. items[i] \in Item
    BY <2>2, <2>3
  <2> QED BY <2>2, <2>4 DEF Item
<1> QED BY <1>1, <1>2, <1>3 DEF Pieces

(* The places in the list of items.                                        *)
LEMMA DrawnIs ==
  ASSUME NEW list \in Seq(Known), NEW at \in Nat \ {0}, NEW old, NEW sel \in 0 .. Len(list),
         at <= Len(list) \/ at = 1
  PROVE  MatchOK(Drawn([list |-> list, start |-> at, end |-> old, sel |-> sel]))
<1> DEFINE n == Len(list)
           up == Max({n, 1})
           end == Min({at + Rows - 1, up})
           m == [list |-> list, start |-> at, end |-> old, sel |-> sel]
           out == [list |-> list, start |-> at, end |-> end, sel |-> sel]
<1>1. n \in Nat /\ Rows \in Nat \ {0}
  BY MenuAssumption
<1> HIDE DEF n
<1>2. up \in Nat \ {0} /\ (up = n \/ up = 1) /\ (n # 0 => up = n)
  <2>1. up = IF n <= 1 THEN 1 ELSE n
    BY <1>1, MaxPair
  <2> HIDE DEF up
  <2> QED BY <1>1, <2>1
<1> HIDE DEF up
<1>3. end \in Nat \ {0} /\ end <= up
  <2>1. at + Rows - 1 \in Nat \ {0}
    BY <1>1
  <2> DEFINE k == at + Rows - 1
  <2> HIDE DEF k
  <2>2. Min({k, up}) = IF k <= up THEN k ELSE up
    BY <2>1, <1>2, MinPair DEF k
  <2>3. end = Min({k, up})
    BY DEF k
  <2> HIDE DEF end
  <2> QED BY <2>1, <2>2, <2>3, <1>2 DEF k
<1>4. Drawn(m) = out
  BY DEF Drawn, n, up
<1> HIDE DEF end
<1>5. end <= n \/ end = 1
  BY <1>1, <1>2, <1>3
<1>6. MatchOK(out)
  BY <1>3, <1>5 DEF MatchOK, n
<1> QED BY <1>4, <1>6

LEMMA RedrawnIs ==
  ASSUME NEW m, MatchOK(m)
  PROVE  MatchOK(Drawn(m)) /\ Drawn(m).list = m.list
<1>1. /\ m = [list |-> m.list, start |-> m.start, end |-> m.end, sel |-> m.sel]
      /\ m.list \in Seq(Known) /\ m.start \in Nat \ {0} /\ (m.start <= Len(m.list) \/ m.start = 1)
      /\ m.sel \in 0 .. Len(m.list)
  BY DEF MatchOK
<1>2. MatchOK(Drawn([list |-> m.list, start |-> m.start, end |-> m.end, sel |-> m.sel]))
  BY <1>1, DrawnIs
<1>3. Drawn(m).list = m.list
  BY <1>1 DEF Drawn
<1> QED BY <1>1, <1>2, <1>3

LEMMA FilteredIs ==
  ASSUME NEW in, NEW from, NEW items \in Completions
  PROVE  MatchOK(Drawn([list |-> FilterList(items, Filter(in, from)), start |-> 1, end |-> 1, sel |-> 0]))
<1>1. FilterList(items, Filter(in, from)) \in Seq(Known)
  BY KnownItems, FilterListIs
<1>2. 1 \in Nat \ {0} /\ 0 \in 0 .. Len(FilterList(items, Filter(in, from)))
  <2>1. Len(FilterList(items, Filter(in, from))) \in Nat
    BY <1>1
  <2> QED BY <2>1
<1> QED BY ONLY <1>1, <1>2, DrawnIs

LEMMA PageIs ==
  ASSUME NEW i \in Nat
  PROVE  PageStart(i) \in Nat \ {0} /\ (PageStart(i) <= i \/ PageStart(i) = 1)
<1> DEFINE k == i - Rows + 1
<1>1. Rows \in Nat \ {0} /\ k \in Int /\ k <= i
  BY MenuAssumption
<1>2. PageStart(i) = Max({1, k})
  BY DEF PageStart
<1> HIDE DEF k
<1>3. CASE k >= 1
  <2>1. k \in Nat /\ 1 \in Nat
    BY <1>1, <1>3
  <2>2. Max({1, k}) = IF 1 <= k THEN k ELSE 1
    BY <2>1, MaxPair
  <2> QED BY <2>1, <2>2, <1>1, <1>2, <1>3
<1>4. CASE ~(k >= 1)
  <2>1. \A y \in {1, k} : 1 >= y
    BY <1>1, <1>4
  <2>2. Max({1, k}) \in {1, k} /\ \A y \in {1, k} : Max({1, k}) >= y
    BY <2>1 DEF Max
  <2>3. Max({1, k}) = 1
    BY <2>2, <1>1, <1>4
  <2> QED BY <2>3, <1>2
<1> QED BY <1>3, <1>4

LEMMA AroundIs ==
  ASSUME NEW m, NEW i \in 1 .. Len(m.list), Len(m.list) \in Nat
  PROVE  After(m, i) \in 1 .. Len(m.list) /\ Before(m, i) \in 1 .. Len(m.list)
BY DEF After, Before

LEMMA PlacesIn ==
  ASSUME NEW m, MatchOK(m), m.list # <<>>
  PROVE  /\ Len(m.list) \in Nat \ {0}
         /\ m.start \in 1 .. Len(m.list) /\ m.end \in 1 .. Len(m.list)
         /\ m.sel # 0 => m.sel \in 1 .. Len(m.list)
<1>1. m.list \in Seq(Known) /\ Len(m.list) \in Nat /\ Len(m.list) # 0
  BY EmptySeq DEF MatchOK
<1> QED BY <1>1 DEF MatchOK

(* The item that is selected, and what is shown then.                      *)
LEMMA SelectedIs ==
  ASSUME NEW m, MatchOK(m), NEW i \in 1 .. Len(m.list), m.list # <<>>
  PROVE  MatchOK(Drawn(Selected(m, i)))
<1> DEFINE at == IF i = After(m, m.end) THEN i
                 ELSE IF i = Before(m, m.start) THEN PageStart(i)
                 ELSE m.start
           n == Len(m.list)
<1>1. /\ m = [list |-> m.list, start |-> m.start, end |-> m.end, sel |-> m.sel]
      /\ m.list \in Seq(Known) /\ m.start \in 1 .. n /\ n \in Nat \ {0}
  BY PlacesIn DEF MatchOK
<1>2. Selected(m, i) = [list |-> m.list, start |-> at, end |-> m.end, sel |-> i]
  <2>1. Selected(m, i) = [m EXCEPT !.sel = i, !.start = at]
    BY DEF Selected
  <2> HIDE DEF at
  <2> QED BY <1>1, <2>1
<1>3. PageStart(i) \in Nat \ {0} /\ (PageStart(i) <= i \/ PageStart(i) = 1)
  BY PageIs
<1> HIDE DEF n
<1>4. at \in Nat \ {0} /\ (at <= n \/ at = 1)
  <2>0. i \in 1 .. n
    BY DEF n
  <2>1. CASE i = After(m, m.end)
    BY <2>1, <2>0, <1>1
  <2>2. CASE i # After(m, m.end) /\ i = Before(m, m.start)
    <3>1. at = PageStart(i)
      BY <2>2
    <3> HIDE DEF at
    <3> QED BY <2>0, <3>1, <1>1, <1>3
  <2>3. CASE i # After(m, m.end) /\ i # Before(m, m.start)
    <3>1. at = m.start
      BY <2>3
    <3> HIDE DEF at
    <3> QED BY <3>1, <1>1
  <2> QED BY <2>1, <2>2, <2>3
<1> HIDE DEF at
<1>5. i \in 0 .. Len(m.list)
  BY <1>1 DEF n
<1>6. MatchOK(Drawn([list |-> m.list, start |-> at, end |-> m.end, sel |-> i]))
  BY ONLY <1>1, <1>4, <1>5, DrawnIs DEF n
<1> QED BY <1>2, <1>6

LEMMA TurnedIs ==
  ASSUME NEW m, MatchOK(m), NEW p \in Nat \ {0}, p <= Len(m.list) \/ p = 1
  PROVE  LET new == [m EXCEPT !.start = p] IN MatchOK(new) /\ new.list = m.list
<1> DEFINE new == [m EXCEPT !.start = p]
<1>1. /\ new.list = m.list /\ new.start = p /\ new.end = m.end /\ new.sel = m.sel
      /\ new = [list |-> new.list, start |-> new.start, end |-> new.end, sel |-> new.sel]
  BY DEF MatchOK
<1> HIDE DEF new
<1>2. MatchOK(new)
  BY <1>1 DEF MatchOK
<1> QED BY <1>1, <1>2 DEF new
-----------------------------------------------------------------------------
(* Steps: each keeps the invariant and is one of Line, or nothing to it.   *)

LineVars == <<Text(input), input.pos, Draft, crashed>>

Keeps == IInv' /\ [TheLine!LineNext]_LineVars

LEMMA InitOK == Init => IInv /\ TheLine!LineInit
<1> SUFFICES ASSUME Init PROVE IInv /\ TheLine!LineInit
  OBVIOUS
<1>1. PICK e \in Seq(Char) : e = <<>> /\ Len(e) = 0
  <2>1. PICK e \in Seq(Char) : e = <<>>
    BY EmptySeq
  <2> QED BY <2>1
<1> DEFINE none == [mem |-> <<>>, end |-> 0, pos |-> 0, pos_end |-> Nil]
<1>2. input = CaretInsert(none, e, TRUE)
  BY <1>1 DEF Init
<1>3. /\ none.mem \in Seq(Byte)
      /\ none = [mem |-> none.mem, end |-> none.end, pos |-> none.pos, pos_end |-> none.pos_end]
  BY EmptySeq
<1> HIDE DEF none
<1>4. LineOK(input) /\ input.end = Len(e) /\ Text(input) = e
  BY <1>2, <1>3, ClearIs
<1>5. input.pos = 0
  BY <1>1, <1>4 DEF LineOK, Base
<1>6. MatchOK(match)
  <2>1. all \in Completions /\ match = Drawn([list |-> FilterList(all, <<>>), start |-> 1, end |-> 1, sel |-> 0])
    BY DEF Init
  <2>2. FilterList(all, <<>>) \in Seq(Known)
    BY <2>1, KnownItems, FilterListIs
  <2>3. 1 \in Nat \ {0} /\ 0 \in 0 .. Len(FilterList(all, <<>>))
    <3>1. Len(FilterList(all, <<>>)) \in Nat
      BY <2>2
    <3> QED BY <3>1
  <2>4. MatchOK(Drawn([list |-> FilterList(all, <<>>), start |-> 1, end |-> 1, sel |-> 0]))
    BY ONLY <2>2, <2>3, DrawnIs
  <2> QED BY <2>1, <2>4
<1>7. IInv
  <2>1. start = 0 /\ all \in Completions /\ histsel = 0 /\ saved = Nil /\ crashed = FALSE
    BY DEF Init
  <2>2. Len(History) \in Nat
    BY MenuAssumption
  <2>3. start \in Nat /\ histsel \in 0 .. Len(History) /\ ~(histsel # 0)
    BY <2>1, <2>2
  <2>4. crashed \in BOOLEAN /\ saved \in Seq(Char) \cup {Nil}
    BY ONLY <2>1
  <2> QED BY <2>1, <2>3, <2>4, <1>4, <1>6 DEF IInv
<1>8. TheLine!LineInit
  <2>1. saved = Nil /\ crashed = FALSE
    BY DEF Init
  <2> QED BY <2>1, <1>1, <1>4, <1>5 DEF TheLine!LineInit, Draft
<1> QED BY <1>7, <1>8

(* A step that leaves the line alone.                                      *)
LEMMA StutterKeeps ==
  ASSUME input' = input, crashed' = crashed, saved' = saved
  PROVE  [TheLine!LineNext]_LineVars
<1>1. LineVars' = LineVars
  BY DEF LineVars, Text, Draft
<1> QED BY <1>1

(* What most steps leave alone.                                            *)
LEMMA RestKeeps ==
  ASSUME IInv, UNCHANGED <<start, all, histsel, saved, crashed>>, LineOK(input'), MatchOK(match')
  PROVE  IInv'
BY DEF IInv

LEMMA EditIs ==
  ASSUME IInv, NEW in, Edit(in)
  PROVE  input' = in /\ MatchOK(match')
<1>1. match' = Drawn([list |-> FilterList(all, Filter(in, start)), start |-> 1, end |-> 1, sel |-> 0])
  BY DEF Edit, UpdateFilter
<1>2. all \in Completions
  BY DEF IInv
<1> QED BY <1>1, <1>2, FilteredIs DEF Edit

(* A change of the text by Splice, as Line says it.                        *)
LEMMA SplicesAs ==
  ASSUME NEW i, NEW j, NEW s, Text(input') = Spliced(Text(input), i, j, s), input'.pos = i + Len(s)
  PROVE  TheLine!Splice(i, j, s)
BY DEF TheLine!Splice, Spliced, Text

LEMMA LineStep ==
  ASSUME crashed = FALSE, UNCHANGED <<saved, crashed>>,
         TheLine!Insert \/ TheLine!TakeOut \/ TheLine!Move \/ TheLine!Complete \/ TheLine!Revert
  PROVE  [TheLine!LineNext]_LineVars
<1>1. Draft' = Draft
  BY DEF Draft
<1> QED BY <1>1 DEF TheLine!LineNext

LEMMA TypeKeeps ==
  ASSUME IInv, NEW c \in Typed, Type(c)
  PROVE  Keeps
<1> DEFINE s == <<c>>
           in == CaretInsert(input, s, FALSE)
<1>1. s \in Seq(Char) /\ s \in Pieces
  <2>1. c \in Char
    BY MenuAssumption
  <2>2. s \in Pieces
    BY <2>1 DEF Pieces
  <2> HIDE DEF s
  <2> QED BY <2>2, PieceIs
<1> HIDE DEF s
<1>2. Edit(in) /\ Key /\ UNCHANGED <<histsel, saved, pasting, running, crashed>>
  BY DEF Type, s
<1>3. LineOK(input)
  BY DEF IInv
<1>4. /\ LineOK(in) /\ in.pos = input.pos + Len(s)
      /\ Text(in) = Spliced(Text(input), input.pos, input.pos, s)
  BY <1>1, <1>3, InsertIs
<1>5. input' = in /\ MatchOK(match')
  BY <1>2, EditIs
<1> HIDE DEF in
<1>6. IInv'
  BY <1>2, <1>4, <1>5, RestKeeps DEF Key
<1>7. TheLine!Splice(input.pos, input.pos, s)
  BY <1>4, <1>5, SplicesAs
<1>8. TheLine!Insert
  BY <1>1, <1>7 DEF TheLine!Insert
<1>9. crashed = FALSE
  BY <1>2 DEF Key, IInv
<1> QED BY <1>2, <1>6, <1>8, <1>9, LineStep DEF Keeps

LEMMA DeleteKeeps ==
  ASSUME IInv, NEW dir \in Directions, NEW amount \in Amounts, Delete(dir, amount)
  PROVE  Keeps
<1> DEFINE p == Find(input, dir, amount)
           in == DeleteTo(input, p)
           i == Lower(p, input.pos)
           j == Upper(p, input.pos)
<1>1. LineOK(input) /\ Base(input) /\ input.pos_end = Nil /\ input.end + 1 <= Len(input.mem)
  BY DEF IInv, LineOK
<1>2. p \in Nat /\ p <= input.end
  BY <1>1, FindIs
<1>3. Edit(in) /\ Key /\ UNCHANGED <<histsel, saved, pasting, running, crashed>>
  BY <1>1 DEF Delete, CaretDelete
<1> HIDE DEF p
<1>4. /\ LineOK(in) /\ in.pos = i /\ Text(in) = Spliced(Text(input), i, j, <<>>)
  BY <1>1, <1>2, DeleteToIs
<1>5. input' = in /\ MatchOK(match')
  BY <1>3, EditIs
<1> HIDE DEF in
<1>6. IInv'
  BY <1>3, <1>4, <1>5, RestKeeps DEF Key
<1>7. i \in Nat /\ input.pos \in Nat /\ input.pos <= input.end
  BY <1>1, <1>2 DEF Base, Lower
<1>8. TheLine!Splice(i, j, <<>>)
  <2>1. input'.pos = i + Len(<<>>)
    BY <1>4, <1>5, <1>7
  <2> HIDE DEF i, j
  <2> QED BY <2>1, <1>4, <1>5, SplicesAs
<1>9. TheLine!TakeOut
  <2>1. p \in 0 .. Len(Text(input))
    BY <1>1, <1>2, TextIs DEF Base
  <2>2. CASE p <= input.pos
    <3>1. i = p /\ j = input.pos
      BY <2>2, <1>2, <1>7 DEF Lower, Upper
    <3> QED BY <2>1, <2>2, <3>1, <1>8 DEF TheLine!TakeOut
  <2>3. CASE ~(p <= input.pos)
    <3>1. i = input.pos /\ j = p
      BY <2>3, <1>2, <1>7 DEF Lower, Upper
    <3> QED BY <2>1, <2>3, <3>1, <1>8 DEF TheLine!TakeOut
  <2> QED BY <2>2, <2>3
<1>10. crashed = FALSE
  BY <1>3 DEF Key, IInv
<1> QED BY <1>3, <1>6, <1>9, <1>10, LineStep DEF Keeps

LEMMA MoveKeeps ==
  ASSUME IInv, NEW dir \in Directions, NEW amount \in Amounts, Move(dir, amount)
  PROVE  Keeps
<1> DEFINE p == Find(input, dir, amount)
           in == [input EXCEPT !.pos = p]
<1>1. LineOK(input) /\ Base(input) /\ MatchOK(match)
  BY DEF IInv, LineOK
<1>2. p \in Nat /\ p <= input.end
  BY <1>1, FindIs
<1>3. /\ input' = [mem |-> input.mem, end |-> input.end, pos |-> p, pos_end |-> Nil]
      /\ match' = Drawn(match) /\ Key /\ UNCHANGED <<histsel, saved, pasting, running, crashed>>
  BY DEF Move, CaretMove
<1> HIDE DEF p
<1>4. input' = in
  <2>1. input = [mem |-> input.mem, end |-> input.end, pos |-> input.pos, pos_end |-> Nil]
    BY <1>1 DEF LineOK
  <2>2. in = [mem |-> input.mem, end |-> input.end, pos |-> p, pos_end |-> Nil]
    BY ONLY <2>1
  <2> QED BY <2>2, <1>3
<1>5. LineOK(in) /\ in.pos = p /\ Text(in) = Text(input)
  BY <1>1, <1>2, MoveIs
<1> HIDE DEF in
<1>6. IInv'
  BY <1>1, <1>3, <1>4, <1>5, RestKeeps, RedrawnIs DEF Key
<1>7. TheLine!Move
  <2>1. p \in 0 .. Len(Text(input))
    BY <1>1, <1>2, TextIs DEF Base
  <2>2. Text(input)' = Text(input) /\ (input.pos)' = p
    BY <1>4, <1>5 DEF Text
  <2> QED BY <2>1, <2>2 DEF TheLine!Move
<1>8. crashed = FALSE
  BY <1>3 DEF Key, IInv
<1> QED BY <1>3, <1>6, <1>7, <1>8, LineStep DEF Keeps

(* An item that is selected takes the place of what is between the         *)
(* beginning of the completion and the caret.                              *)
LEMMA SelectItemIs ==
  ASSUME IInv, NEW m, MatchOK(m), NEW i, m.list # <<>> => i \in 1 .. Len(m.list), SelectItem(m, i)
  PROVE  /\ LineOK(input') /\ MatchOK(match')
         /\ input' = input \/ TheLine!Complete
<1>1. LineOK(input) /\ Base(input) /\ start \in Nat
  BY DEF IInv, LineOK
<1>2. CASE m.list = <<>> \/ i = m.sel
  <2>1. match' = Drawn(m) /\ input' = input
    BY <1>2 DEF SelectItem
  <2> QED BY <2>1, <1>1, RedrawnIs
<1>3. CASE ~(m.list = <<>> \/ i = m.sel)
  <2> DEFINE s == m.list[i].string
             out == CaretInsert(CaretSet(input, start, input.pos), s, FALSE)
             p == Lower(input.end, start)
             q == Upper(p, input.pos)
  <2>1. match' = Drawn(Selected(m, i)) /\ input' = out
    BY <1>3 DEF SelectItem
  <2>2. m.list # <<>> /\ i \in 1 .. Len(m.list)
    BY <1>3
  <2>3. MatchOK(match')
    BY <2>1, <2>2, SelectedIs
  <2>4. s \in Pieces /\ s \in Seq(Char)
    <3>1. m.list \in Seq(Known)
      BY DEF MatchOK
    <3>2. m.list[i] \in Known
      BY <3>1, <2>2
    <3>3. s \in Pieces
      BY <3>2 DEF Known
    <3> QED BY <3>3, PieceIs
  <2> HIDE DEF s
  <2>5. LineOK(out) /\ out.pos = p + Len(s) /\ Text(out) = Spliced(Text(input), p, q, s)
    BY <1>1, <2>4, ReplaceIs
  <2> HIDE DEF out
  <2>6. input.pos \in Nat /\ input.end \in Nat
    BY <1>1 DEF Base
  <2>7. p \in 0 .. input.end /\ q = IF p < input.pos THEN input.pos ELSE p
    BY <2>6, <1>1 DEF Lower, Upper
  <2>8. TheLine!Splice(p, q, s)
    <3> HIDE DEF p, q
    <3> QED BY <2>1, <2>5, SplicesAs
  <2>9. p \in 0 .. Len(Text(input))
    BY <2>7, <1>1, TextIs
  <2> HIDE DEF p, q
  <2>10. TheLine!Complete
    BY <2>4, <2>7, <2>8, <2>9 DEF TheLine!Complete
  <2> QED BY <2>1, <2>3, <2>5, <2>10
<1> QED BY <1>2, <1>3

LEMMA SelectKeeps ==
  ASSUME IInv, Key, NEW m, MatchOK(m), NEW i, m.list # <<>> => i \in 1 .. Len(m.list), SelectItem(m, i),
         UNCHANGED <<histsel, saved, crashed>>
  PROVE  Keeps
<1>1. /\ LineOK(input') /\ MatchOK(match')
      /\ input' = input \/ TheLine!Complete
  BY SelectItemIs
<1>2. IInv'
  BY <1>1, RestKeeps DEF Key
<1>3. crashed = FALSE
  BY DEF Key, IInv
<1>4. [TheLine!LineNext]_LineVars
  BY <1>1, <1>3, LineStep, StutterKeeps
<1> QED BY <1>2, <1>4 DEF Keeps

Ways == {"next", "prev", "first", "last", "nextpage", "prevpage"}

LEMMA CompleteKeeps ==
  ASSUME IInv, NEW how \in Ways, Complete(how)
  PROVE  Keeps
<1> DEFINE n == Len(match.list)
<1>1. /\ Key /\ UNCHANGED <<histsel, saved, crashed>>
      /\ MatchOK(match)
  BY DEF IInv, Complete
<1>2. match.list # <<>> =>
        /\ n \in Nat \ {0} /\ match.start \in 1 .. n /\ match.end \in 1 .. n
        /\ (match.sel # 0 => match.sel \in 1 .. n)
  BY <1>1, PlacesIn
<1>3. ASSUME NEW i, match.list # <<>> => i \in 1 .. n, SelectItem(match, i) PROVE Keeps
  BY <1>1, <1>3, SelectKeeps
<1>4. CASE how = "next"
  <2> DEFINE i == IF match.sel # 0 THEN After(match, match.sel) ELSE 1
  <2>1. SelectItem(match, i)
    BY <1>4 DEF Complete
  <2>2. match.list # <<>> => i \in 1 .. n
    BY <1>2, AroundIs
  <2> QED BY <2>1, <2>2, <1>3
<1>5. CASE how = "prev"
  <2> DEFINE i == Before(match, IF match.sel # 0 THEN match.sel ELSE match.start)
  <2>1. SelectItem(match, i)
    BY <1>5 DEF Complete
  <2>2. match.list # <<>> => i \in 1 .. n
    BY <1>2, AroundIs
  <2> QED BY <2>1, <2>2, <1>3
<1>6. CASE how = "first"
  <2> DEFINE m == [match EXCEPT !.start = 1]
  <2>1. SelectItem(m, 1)
    BY <1>6 DEF Complete
  <2>2. MatchOK(m) /\ m.list = match.list
    <3>1. 1 \in Nat \ {0} /\ (1 <= Len(match.list) \/ 1 = 1)
      OBVIOUS
    <3> QED BY <3>1, <1>1, TurnedIs
  <2>3. match.list # <<>> => 1 \in 1 .. n
    BY <1>2
  <2> HIDE DEF m
  <2> QED BY <2>1, <2>2, <2>3, <1>1, SelectKeeps
<1>7. CASE how = "last"
  <2>1. SelectItem(match, n)
    BY <1>7 DEF Complete
  <2>2. match.list # <<>> => n \in 1 .. n
    BY <1>2
  <2> QED BY <2>1, <2>2, <1>3
<1>8. CASE how = "nextpage"
  <2>1. SelectItem(match, After(match, match.end))
    BY <1>8 DEF Complete
  <2>2. match.list # <<>> => After(match, match.end) \in 1 .. n
    BY <1>2, AroundIs
  <2> QED BY <2>1, <2>2, <1>3
<1>9. CASE how = "prevpage"
  <2> DEFINE b == Before(match, match.start)
             p == PageStart(b)
             m == [match EXCEPT !.start = p]
  <2>1. SelectItem(m, p)
    BY <1>9 DEF Complete
  <2>2. match.list # <<>> => b \in 1 .. n
    BY <1>2, AroundIs
  <2>3. b \in Nat /\ b <= n
    <3>1. CASE match.list # <<>>
      BY <3>1, <2>2, <1>2
    <3>2. CASE match.list = <<>>
      <4>1. n = 0 /\ match.start = 1
        BY <3>2, <1>1 DEF MatchOK
      <4> QED BY <4>1 DEF Before
    <3> QED BY <3>1, <3>2
  <2> HIDE DEF b
  <2>4. p \in Nat \ {0} /\ (p <= b \/ p = 1)
    BY <2>3, PageIs
  <2> HIDE DEF p
  <2>5. p <= n \/ p = 1
    <3>1. n \in Nat
      BY <1>1 DEF MatchOK
    <3> QED BY <3>1, <2>3, <2>4
  <2>6. MatchOK(m) /\ m.list = match.list
    BY <2>4, <2>5, <1>1, TurnedIs
  <2>7. match.list # <<>> => p \in 1 .. n
    BY <1>2, <2>4, <2>5
  <2> HIDE DEF m
  <2> QED BY <2>1, <2>6, <2>7, <1>1, SelectKeeps DEF p
<1> QED BY <1>4, <1>5, <1>6, <1>7, <1>8, <1>9 DEF Ways

(* The line is as it was, and the items at most drawn anew.                *)
LEMMA QuietKeeps ==
  ASSUME IInv, input' = input, match' = Drawn(match), UNCHANGED <<start, all, histsel, saved, crashed>>
  PROVE  Keeps
<1>1. IInv'
  BY RestKeeps, RedrawnIs DEF IInv
<1> QED BY <1>1, StutterKeeps DEF Keeps

LEMMA AcceptKeeps ==
  ASSUME IInv, NEW literal \in BOOLEAN, Accept(literal)
  PROVE  Keeps
<1>1. /\ Key /\ AcceptItem(literal) /\ UNCHANGED <<start, all, histsel, saved, crashed>>
      /\ MatchOK(match)
  BY DEF IInv, Accept, Key
<1>2. CASE match' = Drawn(match) /\ UNCHANGED input
  BY <1>1, <1>2, QuietKeeps
<1>3. CASE SelectItem(match, match.start)
  <2>1. match.list # <<>> => match.start \in 1 .. Len(match.list)
    BY <1>1, PlacesIn
  <2> QED BY <2>1, <1>1, <1>3, SelectKeeps
<1> QED BY <1>1, <1>2, <1>3 DEF AcceptItem

LEMMA RejectKeeps == ASSUME IInv, Reject PROVE Keeps
<1>1. input' = input /\ match' = Drawn(match) /\ UNCHANGED <<start, all, histsel, saved, crashed>>
  BY DEF Reject, Key
<1> QED BY <1>1, QuietKeeps

LEMMA PasteKeeps == ASSUME IInv, Paste PROVE Keeps
<1>1. input' = input /\ match' = Drawn(match) /\ UNCHANGED <<start, all, histsel, saved, crashed>>
  BY DEF Paste, Key
<1> QED BY <1>1, QuietKeeps

LEMMA PastedKeeps == ASSUME IInv, Pasted PROVE Keeps
<1>1. ~crashed /\ match' = Drawn(match) /\ UNCHANGED <<start, all, histsel, saved, crashed>>
  BY DEF Pasted
<1>2. CASE UNCHANGED input
  BY <1>1, <1>2, QuietKeeps
<1>3. ASSUME NEW s \in Pastes, input' = CaretInsert(input, s, FALSE)
      PROVE  Keeps
  <2> DEFINE in == CaretInsert(input, s, FALSE)
  <2>1. s \in Pieces /\ s \in Seq(Char)
    BY PieceIs DEF Pieces
  <2>2. LineOK(input) /\ MatchOK(match)
    BY DEF IInv
  <2>3. /\ LineOK(in) /\ in.pos = input.pos + Len(s)
        /\ Text(in) = Spliced(Text(input), input.pos, input.pos, s)
    BY <2>1, <2>2, InsertIs
  <2>4. input' = in
    BY <1>3
  <2> HIDE DEF in
  <2>5. IInv'
    BY <1>1, <2>2, <2>3, <2>4, RestKeeps, RedrawnIs
  <2>6. TheLine!Splice(input.pos, input.pos, s)
    BY <2>3, <2>4, SplicesAs
  <2>7. TheLine!Insert
    BY <2>1, <2>6 DEF TheLine!Insert
  <2>8. crashed = FALSE
    BY <1>1 DEF IInv
  <2> QED BY <1>1, <2>5, <2>7, <2>8, LineStep DEF Keeps
<1> QED BY <1>2, <1>3 DEF Pasted

LEMMA NewItemsKeeps ==
  ASSUME IInv, NEW items \in Completions, NEW from \in Offsets, NewItems(items, from)
  PROVE  Keeps
<1>1. /\ UNCHANGED <<input, histsel, saved, crashed>> /\ start' = from /\ all' = items
      /\ match' = Drawn([list |-> FilterList(items, Filter(input, from)), start |-> 1, end |-> 1, sel |-> 0])
  BY DEF NewItems, UpdateFilter
<1>2. MatchOK(match')
  BY <1>1, FilteredIs
<1>3. from \in Nat
  BY MenuAssumption
<1>4. IInv'
  BY <1>1, <1>2, <1>3 DEF IInv
<1> QED BY <1>1, <1>4, StutterKeeps DEF Keeps
-----------------------------------------------------------------------------
(* The history.                                                            *)

LEMMA HistoryLine ==
  ASSUME NEW i \in 1 .. Len(History)
  PROVE  History[i] \in Seq(Char)
BY MenuAssumption

LEMMA EarlierIs ==
  ASSUME IInv
  PROVE  /\ Earlier \in 0 .. Len(History)
         /\ Earlier # 0 => Agrees(History[Earlier], input.pos)
<1> DEFINE n == Len(History)
           from == IF histsel = 0 THEN n ELSE histsel - 1
           S == {0} \cup {i \in 1 .. from : Agrees(History[i], input.pos)}
<1>1. n \in Nat /\ from \in 0 .. n
  BY MenuAssumption DEF IInv
<1> HIDE DEF n, from
<1>2. S \subseteq 0 .. n /\ S # {}
  BY <1>1
<1>3. Max(S) \in S
  <2> HIDE DEF S
  <2> QED BY <1>1, <1>2, MaxIn
<1>4. Earlier = Max(S)
  BY DEF Earlier, n, from
<1> QED BY <1>2, <1>3, <1>4 DEF n

LEMMA LaterIs ==
  ASSUME IInv, NEW line
  PROVE  LET i == LaterThan(line)
         IN  \/ i = histsel
             \/ i = 0 /\ (line = Nil \/ Agrees(line, input.pos))
             \/ i \in 1 .. Len(History) /\ Agrees(History[i], input.pos)
<1> DEFINE later == {i \in histsel + 1 .. Len(History) : Agrees(History[i], input.pos)}
<1>1. Len(History) \in Nat /\ histsel \in Nat
  BY MenuAssumption DEF IInv
<1>2. CASE later = {}
  BY <1>2 DEF LaterThan
<1>3. CASE later # {}
  <2>1. later \subseteq Nat
    BY <1>1
  <2>2. LaterThan(line) = Min(later)
    BY <1>3 DEF LaterThan
  <2>3. Min(later) \in later
    <3> HIDE DEF later
    <3> QED BY <1>3, <2>1, MinIn
  <2> DEFINE i == LaterThan(line)
  <2> HIDE DEF i
  <2>4. i \in later
    BY <2>2, <2>3 DEF i
  <2>5. i \in 1 .. Len(History) /\ Agrees(History[i], input.pos)
    BY <2>4, <1>1
  <2> QED BY <2>5 DEF i
<1> QED BY <1>2, <1>3

(* What comes in for a line that is recalled.                              *)
LEMMA RecalledIs ==
  ASSUME IInv, NEW line \in Seq(Char) \cup {Nil}, Recalled(line)
  PROVE  LET new == IF line = Nil THEN Text(input) ELSE line
         IN  \/ /\ crashed' = TRUE /\ input' = input /\ match' = match
                /\ ~(input.pos <= Len(new))
             \/ /\ crashed' = crashed /\ LineOK(input') /\ MatchOK(match')
                /\ input'.pos = input.pos /\ input.pos <= Len(new) /\ Text(input') = new
<1> DEFINE in == IF line = Nil THEN input ELSE CaretInsert(input, line, TRUE)
           new == IF line = Nil THEN Text(input) ELSE line
           out == [in EXCEPT !.pos = input.pos]
<1>1. LineOK(input) /\ Base(input)
  BY DEF IInv, LineOK
<1>2. LineOK(in) /\ in.end = Len(new) /\ Text(in) = new
  <2>1. CASE line = Nil
    BY <2>1, <1>1, TextIs
  <2>2. CASE line # Nil
    <3>1. /\ input.mem \in Seq(Byte)
          /\ input = [mem |-> input.mem, end |-> input.end, pos |-> input.pos, pos_end |-> input.pos_end]
      BY <1>1 DEF LineOK, Base
    <3>2. line \in Seq(Char)
      BY <2>2
    <3> DEFINE c == CaretInsert(input, line, TRUE)
    <3>3. LineOK(c) /\ c.end = Len(line) /\ Text(c) = line
      BY <3>1, <3>2, ClearIs
    <3> HIDE DEF c
    <3>4. in = c /\ new = line
      BY <2>2 DEF c
    <3> HIDE DEF in, new
    <3> QED BY <3>3, <3>4
  <2> QED BY <2>1, <2>2
<1>3. IF input.pos > in.end
        THEN crashed' = TRUE /\ UNCHANGED <<input, match>>
        ELSE Edit(out) /\ UNCHANGED crashed
  BY DEF Recalled
<1> HIDE DEF in, new
<1>4. input.pos \in Nat /\ in.end \in Nat
  BY <1>1, <1>2 DEF LineOK, Base
<1>5. CASE input.pos > in.end
  <2>1. ~(input.pos <= Len(new))
    BY <1>2, <1>4, <1>5
  <2> QED BY <2>1, <1>3, <1>5 DEF new
<1>6. CASE ~(input.pos > in.end)
  <2>1. input.pos <= in.end
    BY <1>4, <1>6
  <2>2. LineOK(out) /\ out.pos = input.pos /\ Text(out) = Text(in)
    BY <2>1, <1>2, <1>4, MoveIs
  <2>3. Edit(out) /\ UNCHANGED crashed
    BY <1>3, <1>6
  <2> HIDE DEF out
  <2>4. input' = out /\ MatchOK(match')
    BY <2>3, EditIs
  <2> QED BY <2>1, <2>2, <2>3, <2>4, <1>2 DEF new
<1> QED BY <1>5, <1>6

(* Lines that agree up to the caret.                                       *)
LEMMA RecallIs ==
  ASSUME IInv, ~crashed, crashed' = crashed,
         Draft' = Draft \/ Draft' = Text(input),
         NEW i \in 0 .. Len(History),
         Text(input') = IF i = 0 THEN Draft' ELSE History[i],
         input'.pos = input.pos,
         Agrees(Text(input'), input.pos)
  PROVE  TheLine!LineNext
<1>1. Text(input)' = Text(input')
  BY DEF Text
<1>2. i \in DOMAIN History \cup {0}
  BY MenuAssumption
<1>3. TheLine!Take(Text(input'), input.pos) = TheLine!Take(Text(input), input.pos)
  BY DEF Agrees, TheLine!Take
<1>4. TheLine!Recall
  BY <1>1, <1>2, <1>3 DEF TheLine!Recall
<1> QED BY <1>4 DEF TheLine!LineNext

LEMMA AgreesWithItself ==
  ASSUME IInv
  PROVE  /\ Text(input) \in Seq(Char) /\ Text(input) # Nil
         /\ input.pos <= Len(Text(input)) /\ Agrees(Text(input), input.pos)
<1>1. Base(input)
  BY DEF IInv, LineOK
<1>2. Text(input) \in Seq(Char) /\ input.pos <= Len(Text(input))
  BY <1>1, TextIs DEF Base
<1> QED BY <1>2, MenuAssumption DEF Agrees

LEMMA BackwardKeeps == ASSUME IInv, HistoryBackward PROVE Keeps
<1> DEFINE line == IF Earlier = 0 THEN Text(input) ELSE History[Earlier]
<1>1. /\ ~crashed /\ UNCHANGED <<start, all>>
      /\ saved' = IF histsel = 0 THEN Text(input) ELSE saved
      /\ histsel' = IF Earlier = 0 THEN histsel ELSE Earlier
      /\ Recalled(line)
  BY DEF HistoryBackward, Key
<1>2. /\ Earlier \in 0 .. Len(History)
      /\ Earlier # 0 => Agrees(History[Earlier], input.pos)
  BY EarlierIs
<1>3. /\ Text(input) \in Seq(Char) /\ Text(input) # Nil
      /\ Agrees(Text(input), input.pos)
  BY AgreesWithItself
<1>4. line \in Seq(Char) /\ Agrees(line, input.pos) /\ line # Nil
  <2>1. CASE Earlier = 0
    BY <2>1, <1>3
  <2>2. CASE Earlier # 0
    <3>1. Earlier \in 1 .. Len(History)
      BY <2>2, <1>2, MenuAssumption
    <3>2. History[Earlier] \in Seq(Char)
      BY <3>1, HistoryLine
    <3> QED BY <2>2, <3>2, <1>2, MenuAssumption
  <2> QED BY <2>1, <2>2
<1> HIDE DEF line
<1>5. input.pos <= Len(line)
  BY <1>4 DEF Agrees
<1>6. /\ crashed' = crashed /\ LineOK(input') /\ MatchOK(match')
      /\ input'.pos = input.pos /\ Text(input') = line
  BY <1>1, <1>4, <1>5, RecalledIs
<1>7. IInv'
  <2>1. histsel' \in 0 .. Len(History)
    BY <1>1, <1>2 DEF IInv
  <2>2. saved' \in Seq(Char) \cup {Nil} /\ (histsel' # 0 => saved' # Nil)
    BY <1>1, <1>3 DEF IInv
  <2>3. start' \in Nat /\ all' \in Completions /\ crashed' \in BOOLEAN
    BY <1>1, <1>6 DEF IInv
  <2> QED BY <2>1, <2>2, <2>3, <1>6 DEF IInv
<1>8. Draft' = Draft \/ Draft' = Text(input)
  <2>1. CASE histsel = 0
    <3>1. saved' = Text(input)
      BY <1>1, <2>1
    <3> QED BY <3>1, <1>3 DEF Draft
  <2>2. CASE histsel # 0
    <3>1. saved' = saved
      BY <1>1, <2>2
    <3> QED BY <3>1 DEF Draft
  <2> QED BY <2>1, <2>2
<1>9. [TheLine!LineNext]_LineVars
  <2>1. CASE Earlier = 0 /\ histsel = 0
    <3>1. Draft' = Text(input) /\ line = Text(input)
      BY <1>1, <1>3, <2>1 DEF Draft, line
    <3>2. 0 \in 0 .. Len(History)
      BY <1>2
    <3>3. Text(input') = IF 0 = 0 THEN Draft' ELSE History[0]
      BY <3>1, <1>6
    <3> QED BY <3>2, <3>3, <1>1, <1>4, <1>6, <1>8, RecallIs
  <2>2. CASE Earlier = 0 /\ histsel # 0
    <3>1. saved' = saved /\ Text(input') = Text(input)
      BY <1>1, <1>6, <2>2 DEF line
    <3>2. Text(input)' = Text(input') /\ Draft' = Draft
      BY <3>1 DEF Text, Draft
    <3> QED BY <3>1, <3>2, <1>6 DEF LineVars
  <2>3. CASE Earlier # 0
    <3>1. Text(input') = IF Earlier = 0 THEN Draft' ELSE History[Earlier]
      BY <2>3, <1>6 DEF line
    <3> QED BY <3>1, <1>1, <1>2, <1>4, <1>6, <1>8, RecallIs
  <2> QED BY <2>1, <2>2, <2>3
<1> QED BY <1>7, <1>9 DEF Keeps

LEMMA ForwardKeeps == ASSUME IInv, HistoryForward PROVE Keeps
<1> DEFINE shown == IF histsel = 0 THEN saved
                    ELSE IF histsel' = histsel THEN Text(input)
                    ELSE LineOf(histsel', saved)
           new == IF shown = Nil THEN Text(input) ELSE shown
<1>1. /\ ~crashed /\ UNCHANGED <<start, all, saved>>
      /\ Recalled(shown)
      /\ histsel = 0 => histsel' = 0
      /\ histsel # 0 => histsel' = LaterThan(saved)
  BY DEF HistoryForward, Key
<1>2. /\ Text(input) \in Seq(Char) /\ Text(input) # Nil
      /\ input.pos <= Len(Text(input)) /\ Agrees(Text(input), input.pos)
  BY AgreesWithItself
<1>3. /\ saved \in Seq(Char) \cup {Nil} /\ (histsel # 0 => saved # Nil)
      /\ histsel \in 0 .. Len(History) /\ Len(History) \in Nat
  BY MenuAssumption DEF IInv
<1>4. histsel # 0 =>
        \/ histsel' = histsel
        \/ histsel' = 0 /\ Agrees(saved, input.pos)
        \/ histsel' \in 1 .. Len(History) /\ Agrees(History[histsel'], input.pos)
  BY <1>1, <1>3, LaterIs
<1>5. shown \in Seq(Char) \cup {Nil}
  <2>1. CASE histsel' \in 1 .. Len(History) /\ histsel # 0 /\ histsel' # histsel
    BY <2>1, HistoryLine DEF LineOf
  <2> QED BY <2>1, <1>2, <1>3, <1>4 DEF LineOf
<1> HIDE DEF new
<1>6. \/ /\ crashed' = TRUE /\ input' = input /\ match' = match
         /\ ~(input.pos <= Len(new))
      \/ /\ crashed' = crashed /\ LineOK(input') /\ MatchOK(match')
         /\ input'.pos = input.pos /\ input.pos <= Len(new) /\ Text(input') = new
  <2> HIDE DEF shown
  <2> QED BY <1>1, <1>5, RecalledIs DEF new
<1>7. IInv'
  <2>1. histsel' \in 0 .. Len(History) /\ (histsel' # 0 => saved' # Nil)
    BY <1>1, <1>3, <1>4
  <2>2. LineOK(input') /\ MatchOK(match') /\ crashed' \in BOOLEAN
    BY <1>6 DEF IInv
  <2>3. start' \in Nat /\ all' \in Completions /\ saved' \in Seq(Char) \cup {Nil}
    BY <1>1, <1>3 DEF IInv
  <2> QED BY <2>1, <2>2, <2>3 DEF IInv
<1>8. Draft' = Draft
  BY <1>1 DEF Draft
<1>9. ASSUME new = Text(input) PROVE [TheLine!LineNext]_LineVars
  <2>1. crashed' = crashed /\ input'.pos = input.pos /\ Text(input') = Text(input)
    BY <1>2, <1>6, <1>9
  <2>2. Text(input)' = Text(input')
    BY DEF Text
  <2> QED BY <2>1, <2>2, <1>8 DEF LineVars
<1>10. [TheLine!LineNext]_LineVars
  <2>1. CASE histsel = 0 /\ saved = Nil
    BY <2>1, <1>9 DEF new
  <2>2. CASE histsel = 0 /\ saved # Nil
    <3>1. new = saved /\ Draft = saved
      BY <2>2 DEF new, Draft
    <3>2. CASE crashed' = TRUE /\ input' = input
      <4>1. TheLine!Lose
        BY <3>2, <1>8 DEF TheLine!Lose, Text
      <4> QED BY <4>1, <1>1 DEF TheLine!LineNext
    <3>3. CASE /\ crashed' = crashed /\ input'.pos = input.pos
               /\ input.pos <= Len(new) /\ Text(input') = new
      <4>1. TheLine!Revert
        BY <3>1, <3>3 DEF TheLine!Revert, Text
      <4>2. crashed = FALSE
        BY <1>1 DEF IInv
      <4> QED BY <4>1, <4>2, <3>3, <1>1, LineStep
    <3> QED BY <3>2, <3>3, <1>6
  <2>3. CASE histsel # 0 /\ histsel' = histsel
    BY <2>3, <1>9 DEF new
  <2>4. CASE histsel # 0 /\ histsel' # histsel
    <3> DEFINE i == histsel'
    <3>1. i \in 0 .. Len(History)
      BY <2>4, <1>3, <1>4
    <3>2. shown = IF i = 0 THEN saved ELSE History[i]
      BY <2>4 DEF LineOf
    <3>3. shown # Nil /\ Agrees(shown, input.pos)
      <4>1. CASE i = 0
        BY <4>1, <2>4, <3>2, <1>3, <1>4
      <4>2. CASE i # 0
        <5>1. i \in 1 .. Len(History)
          BY <4>2, <3>1
        <5>2. History[i] \in Seq(Char)
          BY <5>1, HistoryLine
        <5> QED BY <4>2, <5>2, <2>4, <3>2, <1>4, MenuAssumption
      <4> QED BY <4>1, <4>2
    <3> HIDE DEF shown
    <3>4. new = shown /\ input.pos <= Len(new)
      BY <3>3 DEF new, Agrees
    <3>5. /\ crashed' = crashed /\ input'.pos = input.pos /\ Text(input') = shown
      BY <3>4, <1>6
    <3>6. Text(input') = IF i = 0 THEN Draft' ELSE History[i]
      BY <3>2, <3>5, <1>3, <1>8, <2>4 DEF Draft
    <3> QED BY <3>1, <3>3, <3>5, <3>6, <1>1, <1>8, RecallIs
  <2> QED BY <2>1, <2>2, <2>3, <2>4
<1> QED BY <1>7, <1>10 DEF Keeps
-----------------------------------------------------------------------------
LEMMA StutterOK == ASSUME IInv, UNCHANGED vars PROVE Keeps
<1>1. /\ input' = input /\ start' = start /\ all' = all /\ match' = match
      /\ histsel' = histsel /\ saved' = saved /\ crashed' = crashed
  BY DEF vars
<1>2. IInv'
  BY <1>1 DEF IInv
<1> QED BY <1>1, <1>2, StutterKeeps DEF Keeps

LEMMA NextKeeps == IInv /\ [Next]_vars => Keeps
<1> SUFFICES ASSUME IInv, [Next]_vars PROVE Keeps
  OBVIOUS
<1>1. ASSUME NEW c \in Typed, Type(c) PROVE Keeps
  BY <1>1, TypeKeeps
<1>2. ASSUME NEW d \in {"forward", "backward"}, NEW a \in Amounts, Delete(d, a) PROVE Keeps
  BY <1>2, DeleteKeeps DEF Directions
<1>3. ASSUME NEW d \in {"forward", "backward"}, NEW a \in Amounts, Move(d, a) PROVE Keeps
  BY <1>3, MoveKeeps DEF Directions
<1>4. ASSUME NEW h \in {"next", "prev", "first", "last", "nextpage", "prevpage"}, Complete(h) PROVE Keeps
  BY <1>4, CompleteKeeps DEF Ways
<1>5. ASSUME NEW l \in BOOLEAN, Accept(l) PROVE Keeps
  BY <1>5, AcceptKeeps
<1>6. ASSUME NEW items \in Completions, NEW from \in Offsets, NewItems(items, from) PROVE Keeps
  BY <1>6, NewItemsKeeps
<1>7. CASE UNCHANGED vars
  BY <1>7, StutterOK
<1> QED BY <1>1, <1>2, <1>3, <1>4, <1>5, <1>6, <1>7,
           BackwardKeeps, ForwardKeeps, RejectKeeps, PasteKeeps, PastedKeeps DEF Next

(* However long the line, whatever the items, the history and the          *)
(* selections are: the offsets are in order, only runes stand before the   *)
(* end, the items shown and selected are in the list.  (caret.c, main.c)   *)
THEOREM Invariance == Spec => []IInv
<1>1. Init => IInv
  BY InitOK
<1>2. IInv /\ [Next]_vars => IInv'
  BY NextKeeps DEF Keeps
<1> QED BY <1>1, <1>2, PTL DEF Spec

(* The line in memory ends where its pointer says, and memory nobody wrote *)
(* is never in it.  (caret_insert, caret_delete)                           *)
THEOREM TerminatedAlways == Spec => []Terminated
<1>1. IInv => Terminated
  <2> SUFFICES ASSUME IInv PROVE Terminated
    OBVIOUS
  <2>1. LineOK(input)
    BY DEF IInv
  <2>2. input.mem[input.end + 1] = NUL /\ Text(input) \in Seq(Char)
    BY <2>1, TextIs DEF LineOK
  <2> DEFINE t == Text(input)
  <2> HIDE DEF t
  <2>3. DOMAIN t = 1 .. Len(t) /\ \A i \in 1 .. Len(t) : t[i] \in Char
    BY <2>2 DEF t
  <2>4. Range(t) \subseteq Char
    BY <2>3 DEF Range
  <2> QED BY <2>2, <2>4 DEF Terminated, t
<1> QED BY <1>1, Invariance, PTL

(* Whatever is typed, killed, completed, pasted or recalled, the line in   *)
(* memory is edited as Line says: around the cursor and nowhere else,      *)
(* until the one step of the history that loses it.  (caret.c, history.c)  *)
THEOREM Refinement == Spec => KeepsLine
<1>1. Init => TheLine!LineInit
  BY InitOK
<1>2. IInv /\ [Next]_vars => [TheLine!LineNext]_LineVars
  BY NextKeeps DEF Keeps
<1>3. Spec => []IInv
  BY Invariance
<1> QED BY <1>1, <1>2, <1>3, PTL DEF Spec, KeepsLine, TheLine!LineSpec, LineVars
=============================================================================
