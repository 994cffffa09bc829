-------------------------------- MODULE Fmt --------------------------------
(***************************************************************************)
(* libfmt, which prints everything wmii prints, and the splitting of a     *)
(* quoted line into words (unquote), with which wmii reads it back.        *)
(*                                                                         *)
(* dofmt copies a format into a buffer and hands each directive to the     *)
(* handler of its verb; when the buffer has no room for a rune, its flush  *)
(* makes some or the call fails.  Copy, Percent, Modifier and Verb are the *)
(* turns of these loops, Finish is what the caller does at the end.        *)
(*                                                                         *)
(* The buffer holds bytes, or runes when the caller prints to a locale     *)
(* other than UTF-8.  Floating point, %n, %p, %r and %S are left out, and  *)
(* so are further verbs: the table holds the known ones, %q and %Q.        *)
(***************************************************************************)
EXTENDS Utf

CONSTANTS Calls,    \* what is printed: see Format
          Sinks,    \* where to: [kind, size, runes, broken]
          WordBits, \* bits of an int
          IntBuf    \* size of the buffer of __ifmt

ASSUME FmtAssumption ==
  /\ WordBits \in Nat \ {0} /\ IntBuf \in Nat \ {0}
  /\ \A k \in Sinks : k.size \in Nat \ {0} /\ k.kind \in {"buf", "str", "fd"}

VARIABLES call,   \* the directive printed, with the text around it
          fmt,    \* what is left of the format
          f,      \* the Fmt: buffer, flags, width, precision
          doing   \* "text", "directive", "done", "failed"

fmtVars == <<call, fmt, f, doing>>

------------------------------------------------------------------------------
(***************************************************************************)
(* Characters.                                                             *)
(***************************************************************************)
Space == 32
Quote == 39
Zero == 48
Code == [c \in {"%", "'", ",", "-", "+", " ", "#", "0", ".", "*", ":", "<",
                ">", "b", "c", "d", "h", "i", "l", "n", "o", "q", "s", "u",
                "x", "X", "C"} |->
  CASE c = "%" -> 37 [] c = "'" -> 39 [] c = "," -> 44 [] c = "-" -> 45
    [] c = "+" -> 43 [] c = " " -> 32 [] c = "#" -> 35 [] c = "0" -> 48
    [] c = "." -> 46 [] c = "*" -> 42 [] c = ":" -> 58 [] c = "<" -> 60
    [] c = ">" -> 62 [] c = "b" -> 98 [] c = "c" -> 99 [] c = "d" -> 100
    [] c = "h" -> 104 [] c = "i" -> 105 [] c = "l" -> 108 [] c = "n" -> 110
    [] c = "o" -> 111 [] c = "q" -> 113 [] c = "s" -> 115 [] c = "u" -> 117
    [] c = "x" -> 120 [] c = "X" -> 88 [] c = "C" -> 67]

Is(c) == Code[c]
FlagRunes == {Code[c] : c \in {",", "-", "+", "#", "'", " ", "u", "h", "l"}}
IsDigit(r) == 48 <= r /\ r <= 57
Blanks == {32, 9, 13, 10}
Repeat_(r, n) == [k \in 1..(IF n > 0 THEN n ELSE 0) |-> r]

------------------------------------------------------------------------------
(***************************************************************************)
(* The buffer.                                                             *)
(***************************************************************************)

\* A string grows to twice its size; a file takes what is held; a fixed
\* buffer has nothing to give.
FlushString(x) == [x EXCEPT !.room = 2 * (@ + 1) - 1]
FlushFile(x) == IF x.to # <<>> /\ x.sink.broken THEN [x EXCEPT !.failed = TRUE]
                ELSE [x EXCEPT !.wrote = @ \o x.to, !.to = <<>>]
Flush(x) == CASE x.sink.kind = "str" -> FlushString(x)
              [] x.sink.kind = "fd" -> FlushFile(x)
              [] OTHER -> [x EXCEPT !.failed = TRUE]

\* FMTCHAR, FMTRCHAR, FMTRUNE: some cells at once, after a flush when they do
\* not fit.  A handler that has failed puts nothing more.
Put(x, cells) ==
  LET fits(y) == Len(y.to) + Len(cells) <= y.room
      add(y) == [y EXCEPT !.to = @ \o cells]
      g == Flush(x)
  IN IF x.failed THEN x
     ELSE IF fits(x) THEN add(x)
     ELSE IF ~g.failed /\ fits(g) THEN add(g)
     ELSE [g EXCEPT !.failed = TRUE, !.room = Len(g.to)]

PutRune(x, r) == Put(x, IF x.runes THEN <<r>> ELSE RuneToChar(r))

RECURSIVE PutRunes(_, _)
PutRunes(x, runes) ==
  IF runes = <<>> THEN x ELSE PutRunes(PutRune(x, Head(runes)), Tail(runes))

\* __fmtpad, __rfmtpad
Pad(x, n) == PutRunes(x, Repeat_(Space, n))

Has(x, flag) == Is(flag) \in x.flags
Width(x) == IF x.hasWidth THEN x.width ELSE 0

\* Runes between their paddings; n is the width they are given credit for.
Justify(x, runes, n) ==
  LET before == IF Has(x, "-") THEN x ELSE Pad(x, Width(x) - n)
      after == PutRunes(before, runes)
  IN IF Has(x, "-") THEN Pad(after, Width(x) - n) ELSE after

\* __fmtcpy, __fmtrcpy
FmtCpy(x, runes) ==
  LET n == IF x.hasPrec /\ Len(runes) > x.prec THEN x.prec ELSE Len(runes)
  IN Justify(x, Take(runes, n), n)

------------------------------------------------------------------------------
(***************************************************************************)
(* Quoting: first it is worked out how much of the string will fit, then   *)
(* exactly that is put.                                                    *)
(***************************************************************************)
NeedsQuotes(r) == r <= Space \/ r = Quote

\* Mutant: room is left for one of the two quotes.
RECURSIVE QuoteScanOne(_, _, _, _, _, _)
QuoteScanOne(q, s, i, nin, nout, runesout) ==
  LET c == CharToRune(s, i)
      w == IF runesout THEN 1 ELSE c.n
      opens == NeedsQuotes(c.r) /\ ~q.quoted
      fits == /\ q.out + w <= nout
              /\ opens => q.out + w + 1 <= nout
              /\ c.r = Quote => q.out + (IF opens THEN 2 ELSE 0) + w + 1 <= nout
      kept == IF opens /\ q.out + w + 1 <= nout
              THEN [q EXCEPT !.quoted = TRUE, !.out = @ + 2] ELSE q
  IN IF nin = 0 \/ i > Len(s) THEN q
     ELSE IF ~fits THEN kept
     ELSE QuoteScanOne([kept EXCEPT !.out = @ + w + (IF c.r = Quote THEN 1 ELSE 0),
                                 !.in = @ + 1],
                    s, i + c.n, nin - 1, nout, runesout)

\* One turn of __quotesetup's loop for each rune, while there is room.
RECURSIVE QuoteScan(_, _, _, _, _, _)
QuoteScan(q, s, i, nin, nout, runesout) ==
  LET c == CharToRune(s, i)
      w == IF runesout THEN 1 ELSE c.n
      opens == NeedsQuotes(c.r) /\ ~q.quoted
      fits == /\ q.out + w <= nout
              /\ opens => q.out + w + 2 <= nout
              /\ c.r = Quote => q.out + (IF opens THEN 2 ELSE 0) + w + 1 <= nout
      \* the quotes are counted before the second apostrophe is refused
      kept == IF opens /\ q.out + w + 2 <= nout
              THEN [q EXCEPT !.quoted = TRUE, !.out = @ + 2] ELSE q
  IN IF nin = 0 \/ i > Len(s) THEN q
     ELSE IF ~fits THEN kept
     ELSE QuoteScan([kept EXCEPT !.out = @ + w + (IF c.r = Quote THEN 1 ELSE 0),
                                 !.in = @ + 1],
                    s, i + c.n, nin - 1, nout, runesout)

QuoteSetup(s, nin, nout, sharp, runesout) ==
  LET none == [quoted |-> FALSE, out |-> 0, in |-> 0]
      empty == sharp \/ nin = 0 \/ s = <<>>
  IN IF empty /\ nout < 2 THEN none
     ELSE QuoteScan(IF empty THEN [none EXCEPT !.quoted = TRUE, !.out = 2]
                    ELSE none, s, 1, nin, nout, runesout)

\* __quotestrfmt and qstrfmt
QuoteStrFmt(x, s) ==
  LET nout == IF x.sink.kind = "buf" THEN x.room - Len(x.to) ELSE 1000000
      q == QuoteSetup(s, IF x.hasPrec THEN x.prec ELSE -1, nout, Has(x, "#"),
                      x.runes)
      runes == Take(Runes(s, 1), q.in)
      twice == [k \in DOMAIN runes |->
                  IF runes[k] = Quote THEN <<Quote, Quote>> ELSE <<runes[k]>>]
  IN IF ~q.quoted THEN FmtCpy(x, runes)
     ELSE Justify(x, <<Quote>> \o FlattenSeq(twice) \o <<Quote>>, q.out)

\* unquote: a line as words, at most n of them.
RECURSIVE Word(_, _, _, _)
Word(s, i, inquote, word) ==
  LET c == ByteAt(s, i)
  IN IF i > Len(s) \/ (~inquote /\ c \in Blanks) THEN [word |-> word, next |-> i]
     ELSE IF c # Quote THEN Word(s, i + 1, inquote, Append(word, c))
     ELSE IF inquote /\ ByteAt(s, i + 1) = Quote
     THEN Word(s, i + 2, TRUE, Append(word, c))
     ELSE Word(s, i + 1, ~inquote, word)

RECURSIVE Unquote(_, _)
Unquote(s, n) ==
  LET start == Least({i \in 1..(Len(s) + 1) : ByteAt(s, i) \notin Blanks})
      w == Word(s, start, FALSE, <<>>)
  IN IF s = <<>> \/ n = 0 THEN <<>>
     ELSE IF start > Len(s) THEN <<>>
     ELSE <<w.word>> \o Unquote(From(s, w.next + 1), n - 1)

------------------------------------------------------------------------------
(***************************************************************************)
(* Integers, built from the last digit backwards in a buffer of bytes.     *)
(***************************************************************************)
Base(verb) == CASE verb \in {Is("d"), Is("i")} -> 10
                [] verb \in {Is("x"), Is("X")} -> 16
                [] verb = Is("o") -> 8
                [] verb = Is("b") -> 2

Digit(d, verb) ==
  IF d < 10 THEN Zero + d ELSE (IF verb = Is("X") THEN 55 ELSE 87) + d

\* The argument as the code takes it: unsigned, or with its sign, and of the
\* size the flags name.
Bits(x) == IF Has(x, "l") THEN 2 * WordBits
           ELSE IF Has(x, "h") THEN WordBits \div 2 ELSE WordBits
Argument(x, v) ==
  LET u == v % 2^Bits(x)
  IN IF ~Has(x, "u") /\ u >= 2^(Bits(x) - 1) THEN u - 2^Bits(x) ELSE u

\* The separator %' puts before the digit that overflows a group, and the
\* size of a group.
Thousands(x) == IF x.r \in {Is("x"), Is("X"), Is("b")} THEN Is(":") ELSE Is(",")
Group(x) == IF Base(x.r) = 10 THEN 3 ELSE 4

\* A digit, and __needsep before it; b.p is the buffer, b.n the count of
\* runes, b.ndig the digits of the group.
PutDigit(x, b, d) ==
  LET apost == Has(x, "'")
      sep == apost /\ b.ndig + 1 > Group(x)
  IN [p |-> <<d>> \o (IF sep THEN <<Thousands(x)>> ELSE <<>>) \o b.p,
      n |-> b.n + 1 + (IF sep THEN 1 ELSE 0),
      ndig |-> IF ~apost THEN b.ndig ELSE IF sep THEN 1 ELSE b.ndig + 1]

RECURSIVE Digits(_, _, _)
Digits(x, b, u) ==
  LET comma == Has(x, ",") /\ b.n % 4 = 3
      c == IF comma THEN [b EXCEPT !.p = <<Is(",")>> \o @, !.n = @ + 1] ELSE b
  IN IF u = 0 THEN b
     ELSE Digits(x, PutDigit(x, c, Digit(u % Base(x.r), x.r)), u \div Base(x.r))

\* Zeros up to w runes, while more than four bytes of the buffer are free.
RECURSIVE Zeros(_, _, _)
Zeros(x, b, w) ==
  IF b.n < w /\ Len(b.p) < IntBuf - 4 THEN Zeros(x, PutDigit(x, b, Zero), w)
  ELSE b

\* Mutant: the sign is not counted.
IntFmtUncounted(x, v) ==
  LET u == Argument(x, v)
      neg == u < 0
      ds == Digits(x, [p |-> <<>>, n |-> 0, ndig |-> 0], IF neg THEN -u ELSE u)
      none == x.hasPrec /\ x.prec = 0 /\ ~(x.r = Is("o") /\ Has(x, "#"))
      zero == IF u # 0 \/ none THEN ds
              ELSE [p |-> <<Zero>>, n |-> 1,
                    ndig |-> IF Has(x, "'") THEN 1 ELSE 0]
      full == Zeros(x, zero, IF x.hasPrec THEN x.prec ELSE 0)
      sharp == /\ Has(x, "#")
               /\ ~(u = 0 /\ Base(x.r) = 16)
               /\ ~(Base(x.r) = 8 /\ full.p # <<>> /\ Head(full.p) = Zero)
      sign == IF neg THEN <<Is("-")>>
              ELSE IF Has(x, "+") THEN <<Is("+")>>
              ELSE IF Has(x, " ") THEN <<Space>> ELSE <<>>
      prefix == IF ~sharp \/ Base(x.r) \in {2, 10} THEN <<>>
                ELSE IF Base(x.r) = 16 THEN <<Zero, x.r>> ELSE <<Zero>>
      counted == [full EXCEPT !.n = @ + Len(prefix)]
      filled == Has(x, "0") /\ ~Has(x, "-") /\ ~x.hasPrec
      done == IF filled THEN Zeros(x, counted, Width(x)) ELSE counted
      p == sign \o prefix \o done.p
      y == [x EXCEPT !.hasPrec = FALSE,
                     !.hasWidth = @ /\ ~filled,
                     !.intbuf = Len(p)]
  IN FmtCpy(y, Take(p, done.n) \o Repeat_(0, done.n - Len(p)))

IntFmt(x, v) ==
  LET u == Argument(x, v)
      neg == u < 0
      ds == Digits(x, [p |-> <<>>, n |-> 0, ndig |-> 0], IF neg THEN -u ELSE u)
      none == x.hasPrec /\ x.prec = 0 /\ ~(x.r = Is("o") /\ Has(x, "#"))
      zero == IF u # 0 \/ none THEN ds
              ELSE [p |-> <<Zero>>, n |-> 1,
                    ndig |-> IF Has(x, "'") THEN 1 ELSE 0]
      full == Zeros(x, zero, IF x.hasPrec THEN x.prec ELSE 0)
      sharp == /\ Has(x, "#")
               /\ ~(u = 0 /\ Base(x.r) = 16)
               /\ ~(Base(x.r) = 8 /\ full.p # <<>> /\ Head(full.p) = Zero)
      sign == IF neg THEN <<Is("-")>>
              ELSE IF Has(x, "+") THEN <<Is("+")>>
              ELSE IF Has(x, " ") THEN <<Space>> ELSE <<>>
      prefix == IF ~sharp \/ Base(x.r) \in {2, 10} THEN <<>>
                ELSE IF Base(x.r) = 16 THEN <<Zero, x.r>> ELSE <<Zero>>
      counted == [full EXCEPT !.n = @ + Len(sign) + Len(prefix)]
      filled == Has(x, "0") /\ ~Has(x, "-") /\ ~x.hasPrec
      done == IF filled THEN Zeros(x, counted, Width(x)) ELSE counted
      p == sign \o prefix \o done.p
      y == [x EXCEPT !.hasPrec = FALSE,
                     !.hasWidth = @ /\ ~filled,
                     !.intbuf = Len(p)]
  IN FmtCpy(y, Take(p, done.n) \o Repeat_(0, done.n - Len(p)))

------------------------------------------------------------------------------
(***************************************************************************)
(* Actions.                                                                *)
(***************************************************************************)

\* The format of a call: text, a directive and text again.  A width or a
\* precision of None is not given; with star they are arguments.
None == -1
Number(n) ==
  IF n < 10 THEN <<Zero + n>> ELSE <<Zero + (n \div 10), Zero + (n % 10)>>
Format(c) ==
  c.pre \o <<Is("%")>> \o c.flags
  \o (IF c.width = None THEN <<>> ELSE IF c.star THEN <<Is("*")>>
      ELSE Number(c.width))
  \o (IF c.prec = None THEN <<>>
      ELSE <<Is(".")>> \o (IF c.star THEN <<Is("*")>> ELSE Number(c.prec)))
  \o <<c.verb>> \o c.post

Blank(k, room) ==
  [sink |-> k, runes |-> k.runes, to |-> <<>>, wrote |-> <<>>, failed |-> FALSE,
   room |-> room, flags |-> {}, width |-> 0, prec |-> 0, hasWidth |-> FALSE,
   hasPrec |-> FALSE, r |-> 0, intbuf |-> 0]

\* One cell is kept for the NUL, except in the buffer of a file; that of a
\* locale, which holds runes, keeps it too.
OnBuffer(k) == Blank(k, k.size - 1)
OnString(k) == Blank(k, k.size - 1)
OnFile(k) == Blank(k, IF k.runes THEN k.size - 1 ELSE k.size)
NewFmt(k) == CASE k.kind = "buf" -> OnBuffer(k)
               [] k.kind = "str" -> OnString(k)
               [] k.kind = "fd" -> OnFile(k)

\* dofmt: a rune of the format, as it stands when the buffer holds bytes.
Copy ==
  LET c == CharToRune(fmt, 1)
      x == Put(f, IF f.runes THEN <<c.r>> ELSE Take(fmt, c.n))
  IN /\ doing = "text"
     /\ fmt # <<>> /\ Head(fmt) # Is("%")
     /\ fmt' = From(fmt, c.n + 1)
     /\ f' = x
     /\ doing' = IF x.failed THEN "failed" ELSE doing
     /\ UNCHANGED call

Percent ==
  /\ doing = "text"
  /\ fmt # <<>> /\ Head(fmt) = Is("%")
  /\ fmt' = Tail(fmt)
  /\ f' = [f EXCEPT !.flags = {}, !.width = 0, !.prec = 0, !.hasWidth = FALSE,
                    !.hasPrec = FALSE]
  /\ doing' = "directive"
  /\ UNCHANGED call

\* numflag: the first number is the width, one after it the precision.
NumFlag(x, n) == IF x.hasWidth THEN [x EXCEPT !.hasPrec = TRUE, !.prec = n]
                 ELSE [x EXCEPT !.hasWidth = TRUE, !.width = n]

\* *: a negative width is left justified, a negative precision none.
Star(x, n) ==
  IF n >= 0 THEN NumFlag(x, n)
  ELSE IF x.hasPrec THEN [x EXCEPT !.hasPrec = FALSE, !.prec = 0]
  ELSE NumFlag([x EXCEPT !.flags = @ \cup {Is("-")}], -n)

RECURSIVE Value(_, _)
Value(s, n) ==
  IF s = <<>> \/ ~IsDigit(Head(s)) THEN [n |-> n, rest |-> s]
  ELSE Value(Tail(s), n * 10 + Head(s) - Zero)

\* __fmtdispatch, up to the verb.
Modifier ==
  LET r == Head(fmt)
      v == Value(fmt, 0)
      flag == r \in FlagRunes \/ (r = Zero /\ ~f.hasWidth)
  IN /\ doing = "directive"
     /\ fmt # <<>>
     /\ \/ /\ flag
           /\ f' = [f EXCEPT !.flags = @ \cup {r}]
           /\ fmt' = Tail(fmt)
        \/ /\ r = Is(".")
           /\ f' = [f EXCEPT !.hasWidth = TRUE, !.hasPrec = TRUE]
           /\ fmt' = Tail(fmt)
        \/ /\ IsDigit(r) /\ ~flag
           /\ f' = NumFlag(f, v.n)
           /\ fmt' = v.rest
        \/ /\ r = Is("*")
           /\ f' = Star(f, IF f.hasWidth THEN call.prec ELSE call.width)
           /\ fmt' = Tail(fmt)
     /\ UNCHANGED <<call, doing>>

\* The handlers.
StrFmt(x, s) == FmtCpy(x, Runes(s, 1))
PercentFmt(x) == FmtCpy([x EXCEPT !.prec = 1], <<x.r>>)
CharFmt(x, c) == FmtCpy([x EXCEPT !.prec = 1], <<c>>)
BadFmt(x) == FmtCpy([x EXCEPT !.prec = 3], <<Is("%"), x.r, Is("%")>>)

Handle(x) ==
  CASE x.r \in {Is(v) : v \in {"d", "x", "X", "o", "b"}} -> IntFmt(x, call.arg)
    [] x.r = Is("s") -> StrFmt(x, call.arg)
    [] x.r = Is("q") -> QuoteStrFmt(x, call.arg)
    [] x.r = Is("c") -> CharFmt(x, call.arg)
    [] x.r = Is("C") -> FmtCpy(x, <<call.arg>>)
    [] x.r = Is("%") -> PercentFmt(x)
    [] OTHER -> BadFmt(x)

Verb ==
  LET r == Head(fmt)
      x == Handle([f EXCEPT !.r = r])
  IN /\ doing = "directive"
     /\ fmt # <<>>
     /\ r \notin FlagRunes \cup {Is("."), Is("*")} /\ ~IsDigit(r)
     /\ f' = x
     /\ fmt' = Tail(fmt)
     /\ doing' = IF x.failed THEN "failed" ELSE "text"
     /\ UNCHANGED call

\* A directive without a verb fails; at the end of the text, a file takes
\* what the buffer still holds, and a string is handed out.
Finish_ ==
  /\ fmt = <<>>
  /\ doing \in {"text", "directive"}
  /\ f' = IF doing = "text" /\ f.sink.kind = "fd" THEN FlushFile(f) ELSE f
  /\ doing' = IF doing = "directive" \/ f'.failed THEN "failed" ELSE "done"
  /\ UNCHANGED <<call, fmt>>

\* vlprint never calls fmtlocaleinit, yet __ifmt measures the separator of
\* thousands for every %d and %o: what these do to the file of a locale is
\* undefined, and left out.
Undefined(c, k) ==
  k.kind = "fd" /\ k.runes /\ c.verb \in {Is("d"), Is("o")}

FmtInit ==
  /\ call \in Calls
  /\ fmt = Format(call)
  /\ \E k \in Sinks : ~Undefined(call, k) /\ f = NewFmt(k)
  /\ doing = "text"

FmtNext == Copy \/ Percent \/ Modifier \/ Verb \/ Finish_

------------------------------------------------------------------------------
(***************************************************************************)
(* What a directive prints, as C says it, with all the room there is.      *)
(***************************************************************************)
Asked(flag) == Is(flag) \in Range(call.flags)
AskedLeft == Asked("-") \/ call.width < None
AskedWidth == IF call.width = None THEN 0
              ELSE IF call.width < 0 THEN -call.width ELSE call.width
AskedPrec == IF call.prec < 0 THEN None ELSE call.prec

InField(runes) ==
  LET pad == Repeat_(Space, AskedWidth - Len(runes))
  IN IF AskedLeft THEN runes \o pad ELSE pad \o runes

RECURSIVE Numeral(_, _)
Numeral(u, verb) ==
  IF u = 0 THEN <<>>
  ELSE Append(Numeral(u \div Base(verb), verb), Digit(u % Base(verb), verb))

Integer(v) ==
  LET ds == Numeral(IF v < 0 THEN -v ELSE v, call.verb)
      base == Base(call.verb)
      sign == IF v < 0 THEN <<Is("-")>> ELSE IF Asked("+") THEN <<Is("+")>>
              ELSE IF Asked(" ") THEN <<Space>> ELSE <<>>
      prefix == IF Asked("#") /\ base = 16 /\ v # 0 THEN <<Zero, call.verb>>
                ELSE <<>>
      wanted == IF AskedPrec = None THEN 1 ELSE AskedPrec
      least == IF wanted > Len(ds) THEN wanted
               ELSE IF Asked("#") /\ base = 8 THEN Len(ds) + 1 ELSE Len(ds)
      fill == AskedWidth - Len(sign) - Len(prefix)
      digits == IF Asked("0") /\ ~AskedLeft /\ AskedPrec = None /\ fill > least
                THEN fill ELSE least
  IN InField(sign \o prefix \o Repeat_(Zero, digits - Len(ds)) \o ds)

Text(runes) ==
  InField(IF AskedPrec = None THEN runes ELSE Take(runes, AskedPrec))

Wanted ==
  CASE call.verb \in {Is(v) : v \in {"d", "x", "X", "o", "b"}} ->
         Integer(Argument([f EXCEPT !.flags = Range(call.flags)], call.arg))
    [] call.verb = Is("s") -> Text(Runes(call.arg, 1))
    [] call.verb = Is("c") -> InField(<<call.arg>>)
    [] call.verb = Is("C") -> Text(<<call.arg>>)

\* A number for whose zeros the buffer of __ifmt is too short.
TooWide == \/ AskedPrec >= IntBuf - 4
           \/ Asked("0") /\ AskedWidth >= IntBuf - 4

\* The number whose digits these are, whatever stands between them.
RECURSIVE Read(_)
Read(runes) ==
  LET d == {k \in 0..(Base(call.verb) - 1) : Digit(k, call.verb) = Last(runes)}
  IN IF runes = <<>> THEN 0
     ELSE IF d = {} THEN Read(Front(runes))
     ELSE Read(Front(runes)) * Base(call.verb) + CHOOSE k \in d : TRUE

Full == Runes(call.pre, 1) \o Wanted \o Runes(call.post, 1)
Cells(runes) == IF f.runes THEN runes
                ELSE FlattenSeq([k \in DOMAIN runes |-> RuneToChar(runes[k])])
Output == f.wrote \o f.to

\* out is the beginning of the runes that fits into the room.
Fitting(out, runes, room) ==
  LET k == IF f.runes THEN Len(out) ELSE UtfLen(out)
  IN /\ out = Cells(Take(runes, k))
     /\ k < Len(runes) => Len(Cells(Take(runes, k + 1))) > room

\* What a sink holds at the end.
Holds(out, runes, sink) ==
  CASE sink.kind = "buf" -> Fitting(out, runes, sink.size - 1)
    [] sink.kind = "fd" /\ sink.broken ->
         f.wrote = <<>> /\ (doing = "failed" <=> runes # <<>>)
    [] OTHER -> doing = "done" /\ out = Cells(runes)

------------------------------------------------------------------------------
(***************************************************************************)
(* Properties.                                                             *)
(***************************************************************************)

\* A call prints what C says of its directive whatever buffer it goes
\* through, and into one that is too small (or a file that breaks) a
\* beginning of it, cut between two runes and as long as fits.  The count of
\* a number's runes never leaves its bytes behind, nor its bytes the buffer
\* they are built in.  (%, and %' are not C's: of theirs the
\* number read back is checked.)
Prints ==
  /\ f.intbuf <= IntBuf
  /\ doing \in {"done", "failed"} /\ call.verb # Is("q") /\ ~TooWide =>
       IF Asked(",") \/ Asked("'")
       THEN doing = "done" => Read(From(Output, Len(call.pre) + 1)) = Read(Wanted)
       ELSE Holds(Output, Full, f.sink)

\* What %q prints is always one word to unquote, with its quotes closed: the
\* argument, or, in a buffer without the room, a beginning of it.  Bad bytes
\* are measured as one byte and put as three, so that the promise is not
\* made of them.
Quotes ==
  /\ call.verb = Is("q") /\ call.width = None /\ f.r = Is("q") /\ fmt = call.post
  /\ ~f.sink.broken
  /\ Runeerror \notin Range(Runes(call.arg, 1))
  => LET out == From(Output, Len(call.pre) + 1)
         words == Unquote(out, 2)
         asked == IF call.prec = None THEN Runes(call.arg, 1)
                  ELSE Take(Runes(call.arg, 1), call.prec)
         got == IF f.runes THEN words[1] ELSE Runes(words[1], 1)
     IN /\ doing # "failed"
        /\ Len(words) <= 1
        /\ words # <<>> => \E k \in 0..Len(asked) : got = Take(asked, k)
        /\ f.sink.kind # "buf" => words # <<>> /\ got = asked

=============================================================================
