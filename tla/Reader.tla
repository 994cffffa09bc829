------------------------------ MODULE Reader ------------------------------
(***************************************************************************)
(* wmiir copies a file of wmii to a terminal whose locale is not UTF-8:    *)
(* unflush gets the bytes in the pieces in which they are read, converts   *)
(* the runes that are whole and keeps the bytes of the last one in a       *)
(* static buffer for the next piece.                                       *)
(*                                                                         *)
(* A source is a sequence of runes; a negative number stands for a byte    *)
(* that is no part of a rune.  The output is the runes given to wcrtomb.   *)
(***************************************************************************)
EXTENDS Utf

CONSTANT Sources    \* the contents of the files read

VARIABLES source,   \* the file
          arrived,  \* bytes of it read so far
          extra,    \* extra, nextra: the bytes kept for the next piece
          shown,    \* the runes converted
          short     \* history: some piece, with what was kept, held no rune

readerVars == <<source, arrived, extra, shown, short>>

Bytes(runes) ==
  FlattenSeq([k \in DOMAIN runes |-> IF runes[k] < 0 THEN <<-runes[k]>>
                                     ELSE RuneToChar(runes[k])])

Meaning(r) == IF r < 0 \/ r > Runemax THEN Runeerror ELSE r

\* Mutant: the bytes kept are those the piece begins with.
ConvertStart(x, in) ==
  LET e == WholeEnd(in, 1, Len(in))
  IN IF e = 1 THEN [x EXCEPT !.short = TRUE]
     ELSE [shown |-> x.shown \o Runes(SubSeq(in, 1, e - 1), 1),
           extra |-> IF e <= Len(in) THEN Take(in, Len(in) - e + 1)
                     ELSE x.extra,
           short |-> x.short]

\* unflush once nothing is left over: the whole runes of in are converted
\* and what follows them is kept; without one, in is forgotten.
Convert(x, in) ==
  LET e == WholeEnd(in, 1, Len(in))
  IN IF e = 1 THEN [x EXCEPT !.short = TRUE]
     ELSE [shown |-> x.shown \o Runes(SubSeq(in, 1, e - 1), 1),
           extra |-> IF e <= Len(in) THEN Take(From(in, e), UTFmax)
                     ELSE x.extra,
           short |-> x.short]

\* What is left over is completed from the piece and converted on its own,
\* by a call of unflush that finds nothing left over.
Unflush(x, in) ==
  LET whole(t) == LET n == Len(x.extra) + t
                  IN \/ t = Len(in) \/ n >= UTFmax
                     \/ FullRune(x.extra \o in, 1, n)
      t == CHOOSE t \in 0..Len(in) : whole(t) /\ \A u \in 0..(t - 1) : ~whole(u)
      y == Convert([x EXCEPT !.extra = <<>>], x.extra \o SubSeq(in, 1, t))
  IN IF x.extra = <<>> THEN Convert(x, in)
     ELSE IF t = Len(in) THEN y
     ELSE Convert(y, From(in, t + 1))

\* A piece of n bytes is read.
Piece(n) ==
  LET in == SubSeq(Bytes(source), arrived + 1, arrived + n)
      x == Unflush([shown |-> shown, extra |-> extra, short |-> short], in)
  IN /\ arrived + n <= Len(Bytes(source))
     /\ arrived' = arrived + n
     /\ extra' = x.extra
     /\ shown' = x.shown
     /\ short' = x.short
     /\ UNCHANGED source

ReaderInit ==
  /\ source \in Sources
  /\ arrived = 0
  /\ extra = <<>>
  /\ shown = <<>>
  /\ short = FALSE

ReaderNext == \E n \in 1..Len(Bytes(source)) : Piece(n)

------------------------------------------------------------------------------
(***************************************************************************)
(* Properties.                                                             *)
(***************************************************************************)

\* However a file is cut into pieces, no byte of it is lost, shown twice or
\* shown out of order: what is shown and what is kept are what has arrived.
\* A piece too short to complete a rune is forgotten (unflush returns before
\* it keeps the bytes), and bytes that are no rune may be passed by later
\* ones, so the promise is made of the other files.
Streams ==
  ~short /\ (\A k \in DOMAIN source : source[k] > 0) =>
    Bytes(shown) \o extra = SubSeq(Bytes(source), 1, arrived)

\* The index in the bytes of the k-th rune of the source, and of every
\* occurrence of a rune.
Place(k) == Len(Bytes(SubSeq(source, 1, k - 1))) + 1
Places(runes, r) == {Place(k) : k \in {j \in DOMAIN runes : runes[j] = r}}

Copied(s, size, copy) ==
  /\ Len(copy) < size
  /\ \E k \in 0..Len(source) : copy = Bytes(SubSeq(source, 1, k))
  /\ size > Len(s) => copy = s

\* Bytes s and their meaning.
Decoded(s, runes) ==
  /\ Runes(s, 1) = runes
  /\ UtfLen(s) = Len(source)
  /\ RuneNLen(runes) = Len(FlattenSeq([k \in DOMAIN runes |-> RuneToChar(runes[k])]))
  /\ \A r \in Range(runes) :
       /\ UtfRune(s, r) = Least(Places(runes, r))
       /\ UtfRRune(s, r) = Greatest(Places(runes, r))
       /\ Place(RuneStrChr(runes, r)) = UtfRune(s, r)
       /\ Place(RuneStrRChr(runes, r)) = UtfRRune(s, r)
  /\ \A size \in 1..(Len(s) + 2) : Copied(s, size, UtfECpy(s, size))
  /\ \A i, j \in DOMAIN source :
       i <= j /\ (\A k \in i..j : source[k] \in 1..Runemax) =>
         UtfUtf(s, Bytes(SubSeq(source, i, j))) =
           Place(RuneStrStr(runes, SubSeq(runes, i, j)))
  /\ \A n \in 0..Len(runes) :
       LET t == RuneStrECpy(runes, n + 1)
       IN /\ RuneStrNCat(t, From(runes, n + 1), Len(runes)) = runes
          /\ RuneStrNCmp(runes, t, n) = 0
          /\ RuneStrCmp(runes, t) = IF t = runes THEN 0 ELSE 1

\* Decoding gives back what was encoded, bad bytes and runes out of range as
\* one error each, and the searches and the copies see the same runes: none
\* of them finds or leaves a part of one.
Decodes ==
  arrived = 0 =>
    Decoded(Bytes(source), [k \in DOMAIN source |-> Meaning(source[k])])

=============================================================================
