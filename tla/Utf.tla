-------------------------------- MODULE Utf --------------------------------
(***************************************************************************)
(* libutf: runes (numbers) and their encoding as bytes (numbers too), the  *)
(* searches and the copies, which must not cut a rune.                     *)
(*                                                                         *)
(* A string is a sequence of bytes, or of runes, without its closing NUL;  *)
(* an index is 1 more than the code's, and 0 the null pointer.             *)
(***************************************************************************)
EXTENDS Integers, Sequences, FiniteSets, SequencesExt

Runeself == 128
Runesync == 128
Runeerror == 65533
Runemax == 1114111
UTFmax == 4

Tx == 128
T2 == 192
T3 == 224
T4 == 240
T5 == 248
Rune1 == 127
Rune2 == 2047
Rune3 == 65535

ByteAt(s, i) == IF i \in DOMAIN s THEN s[i] ELSE 0
Take(s, n) == SubSeq(s, 1, IF n < Len(s) THEN n ELSE Len(s))
From(s, i) == SubSeq(s, i, Len(s))
StartsAt(s, i, t) == \A k \in DOMAIN t : ByteAt(s, i + k - 1) = t[k]

\* The least and the greatest element of a set of indices, 0 for none.
Least(S) == IF S = {} THEN 0 ELSE CHOOSE k \in S : \A l \in S : k <= l
Greatest(S) == IF S = {} THEN 0 ELSE CHOOSE k \in S : \A l \in S : l <= k

------------------------------------------------------------------------------
(***************************************************************************)
(* One rune.                                                               *)
(***************************************************************************)
Follows(b) == Tx <= b /\ b < T2

\* The last six bits of n bytes from i on, as one number.
RECURSIVE Tail_(_, _, _)
Tail_(s, i, n) ==
  IF n = 0 THEN 0 ELSE Tail_(s, i, n - 1) * 64 + (ByteAt(s, i + n - 1) % 64)

Bad == [r |-> Runeerror, n |-> 1]

\* chartorune: the rune at i and the bytes it takes.  What is not UTF-8, an
\* overlong form included, is one bad byte.
CharToRune(s, i) ==
  LET c == ByteAt(s, i)
      more(n) == \A k \in 1..n : Follows(ByteAt(s, i + k))
      two == (c % 32) * 64 + Tail_(s, i + 1, 1)
      three == (c % 16) * 4096 + Tail_(s, i + 1, 2)
      four == (c % 8) * 262144 + Tail_(s, i + 1, 3)
  IN CASE c < Tx -> [r |-> c, n |-> 1]
       [] T2 <= c /\ c < T3 /\ more(1) /\ two > Rune1 -> [r |-> two, n |-> 2]
       [] T3 <= c /\ c < T4 /\ more(2) /\ three > Rune2 -> [r |-> three, n |-> 3]
       [] T4 <= c /\ c < T5 /\ more(3) /\ four > Rune3 /\ four <= Runemax ->
            [r |-> four, n |-> 4]
       [] OTHER -> Bad

\* runetochar: the bytes of a rune.
RuneToChar(rune) ==
  LET r == IF rune > Runemax THEN Runeerror ELSE rune
      x(k) == Tx + ((r \div k) % 64)
  IN CASE r <= Rune1 -> <<r>>
       [] Rune1 < r /\ r <= Rune2 -> <<T2 + (r \div 64), x(1)>>
       [] Rune2 < r /\ r <= Rune3 -> <<T3 + (r \div 4096), x(64), x(1)>>
       [] OTHER -> <<T4 + (r \div 262144), x(4096), x(64), x(1)>>

RuneLen(r) == Len(RuneToChar(r))

RECURSIVE RuneNLen(_)
RuneNLen(runes) ==
  IF runes = <<>> THEN 0 ELSE RuneLen(Head(runes)) + RuneNLen(Tail(runes))

\* fullrune: whether n bytes hold the rune that begins at i, by its first.
FullRune(s, i, n) ==
  LET c == ByteAt(s, i)
  IN n >= (CASE c < Tx -> 1 [] Tx <= c /\ c < T3 -> 2
             [] T3 <= c /\ c < T4 -> 3 [] OTHER -> 4)

------------------------------------------------------------------------------
(***************************************************************************)
(* Strings.                                                                *)
(***************************************************************************)

\* The indices at which a scan of s by chartorune stands.
RECURSIVE Scan(_, _)
Scan(s, i) ==
  IF i > Len(s) THEN {} ELSE {i} \cup Scan(s, i + CharToRune(s, i).n)

UtfLen(s) == Cardinality(Scan(s, 1))

\* Where the runes end that are whole within the first m bytes.
RECURSIVE WholeEnd(_, _, _)
WholeEnd(s, i, m) ==
  IF i > m \/ ~FullRune(s, i, m - i + 1) THEN i
  ELSE WholeEnd(s, i + CharToRune(s, i).n, m)

UtfNLen(s, m) == Cardinality(Scan(s, 1) \cap (1..(WholeEnd(s, 1, m) - 1)))

\* utfrune and utfrrune: the first and the last place of a rune.
UtfRuneFrom(s, i, r) == Least({k \in Scan(s, i) : CharToRune(s, k).r = r})
UtfRune(s, r) == UtfRuneFrom(s, 1, r)
UtfRRune(s, r) == Greatest({k \in Scan(s, 1) : CharToRune(s, k).r = r})

\* utfutf: each place of the first rune of t is tried for the rest of it.
RECURSIVE UtfUtfFrom(_, _, _)
UtfUtfFrom(s, i, t) ==
  LET first == CharToRune(t, 1)
      p == UtfRuneFrom(s, i, first.r)
  IN IF p = 0 \/ StartsAt(s, p, t) THEN p ELSE UtfUtfFrom(s, p + first.n, t)
UtfUtf(s, t) ==
  IF CharToRune(t, 1).r <= Runesync
  THEN Least({i \in 1..(Len(s) + 1) : StartsAt(s, i, t)})
  ELSE UtfUtfFrom(s, 1, t)

\* Mutant: the first byte of the rune that is cut stays.
RECURSIVE CutBackLoose(_, _)
CutBackLoose(s, end) ==
  IF end > 0 /\ Follows(s[end]) THEN CutBackLoose(s, end - 1)
  ELSE SubSeq(s, 1, end)

\* utfecpy into a buffer of the given size (utflcpy's too): what does not fit
\* is cut back over the bytes that follow a first one, and that one with them.
RECURSIVE CutBack(_, _)
CutBack(s, end) ==
  IF end > 0 /\ Follows(s[end]) THEN CutBack(s, end - 1)
  ELSE SubSeq(s, 1, end - 1)
UtfECpy(s, size) == IF Len(s) < size THEN s ELSE CutBack(s, size - 1)

\* runestrchr, runestrrchr, runestrstr.
RuneStrChr(s, r) ==
  IF r = 0 THEN Len(s) + 1 ELSE Least({k \in DOMAIN s : s[k] = r})
RuneStrRChr(s, r) ==
  IF r = 0 THEN Len(s) + 1 ELSE Greatest({k \in DOMAIN s : s[k] = r})
RuneStrStr(s, t) == Least({i \in 1..(Len(s) + 1) : StartsAt(s, i, t)})

\* runestrcmp, and runestrncmp over the first n runes.
RuneStrCmp(s, t) ==
  LET d == Least({k \in 1..(Len(s) + Len(t) + 1) : ByteAt(s, k) # ByteAt(t, k)})
  IN IF d = 0 THEN 0 ELSE IF ByteAt(s, d) > ByteAt(t, d) THEN 1 ELSE -1
RuneStrNCmp(s, t, n) == RuneStrCmp(Take(s, n), Take(t, n))

\* The whole string as runes.
RECURSIVE Runes(_, _)
Runes(s, i) ==
  IF i > Len(s) THEN <<>>
  ELSE <<CharToRune(s, i).r>> \o Runes(s, i + CharToRune(s, i).n)

\* runestrecpy into es1 - s1 runes, runestrncat of at most n.
RuneStrECpy(s, size) == Take(s, size - 1)
RuneStrNCat(s, t, n) == s \o Take(t, n)

=============================================================================
