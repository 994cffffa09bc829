------------------------------- MODULE Regexp -------------------------------
(***************************************************************************)
(* libregexp: the regular expressions by which wmii matches rules, tags    *)
(* and views.  A pattern is compiled by operator precedence, with a stack  *)
(* of operands and one of operators, into a program of instructions, and   *)
(* the program is run over the text with a list of threads per rune.       *)
(*                                                                         *)
(* Lex reads one token of the pattern (regcomp1's loop), Close ends it and *)
(* makes the program; Start takes a text, Step is one round of regexec1's  *)
(* loop, Retry the second attempt with the longer lists.  regexec (bytes)  *)
(* and rregexec (runes) differ in the few places that look at "wide".      *)
(*                                                                         *)
(* A rune is its number and 0 the end of a text, as in the code; a class   *)
(* never outgrows its NCCRUNE runes, nor a program its NCLASS classes.     *)
(***************************************************************************)
EXTENDS Utf

CONSTANTS Patterns,    \* the patterns given to regcomp, as sequences of runes
          Texts,       \* the texts given to regexec
          NSubexp,     \* NSUBEXP: subexpressions, the whole match included
          NStack,      \* NSTACK: the two stacks of the compiler
          ListSize,    \* LISTSIZE: threads of a list, first attempt
          BigListSize  \* BIGLISTSIZE: threads of a list, second attempt (bytes)

ASSUME SizesAssumption ==
  /\ {NSubexp, NStack, ListSize, BigListSize} \subseteq Nat \ {0}
  /\ 4 < ListSize /\ ListSize < BigListSize
  /\ Patterns \cup Texts \subseteq Seq(Nat \ {0})

VARIABLES pattern,  \* s, the pattern
          pos,      \* exprp: index of the next rune of the pattern
          toks,     \* the tokens read so far (history, for the properties)
          m,        \* the compiler: program, stacks, counters
          phase,    \* "lex", "ready", "error", "run", "done"
          run       \* regexec1: text, position, lists, match

regexpVars == <<pattern, pos, toks, m, phase, run>>

------------------------------------------------------------------------------
(***************************************************************************)
(* Tokens.                                                                 *)
(***************************************************************************)
NL == 10
Meta == [x \in {"STAR", "QUEST", "PLUS", "OR", "ANY", "LBRA", "RBRA", "BOL",
                "EOL", "OPEN"} |->
           CASE x = "STAR" -> 42 [] x = "QUEST" -> 63 [] x = "PLUS" -> 43
             [] x = "OR" -> 124 [] x = "ANY" -> 46 [] x = "LBRA" -> 40
             [] x = "RBRA" -> 41 [] x = "BOL" -> 94 [] x = "EOL" -> 36
             [] x = "OPEN" -> 91]
Backslash == 92
Close_ == 93
Dash == 45
Caret == 94

Operators == <<"PRIME", "START", "RBRA", "LBRA", "OR", "CAT", "STAR", "PLUS",
               "QUEST">>
Prec(op) == CHOOSE k \in DOMAIN Operators : Operators[k] = op
IsOperator(type) == \E k \in DOMAIN Operators : Operators[k] = type

\* One rune of the pattern: a backslash quotes the next one.
NextC(i) ==
  IF ByteAt(pattern, i) = Backslash
  THEN [r |-> ByteAt(pattern, i + 1), quoted |-> TRUE, next |-> i + 2]
  ELSE [r |-> ByteAt(pattern, i), quoted |-> FALSE, next |-> i + 1]

\* The spans of a bracketed class, from the rune c on; <<>> stands for
\* "malformed '[]'", which no class that has begun can be.
RECURSIVE Class(_, _, _)
Class(c, spans, negated) ==
  LET d == NextC(c.next)
      bad == [ok |-> FALSE, spans |-> spans, negated |-> negated,
              next |-> c.next]
  IN IF c.r = 0 THEN bad
     ELSE IF ~c.quoted /\ c.r = Close_ THEN [bad EXCEPT !.ok = TRUE]
     ELSE IF ~c.quoted /\ c.r = Dash
     THEN IF spans = <<>> \/ d.r = 0 \/ (~d.quoted /\ d.r = Close_)
          THEN bad
          ELSE Class(NextC(d.next),
                     [spans EXCEPT ![Len(spans)] = <<@[1], d.r>>], negated)
     ELSE Class(d, Append(spans, <<c.r, c.r>>), negated)

\* Spans sorted by their start and merged where they meet or overlap.
MergeSpans(spans) ==
  LET sorted == SortSeq(spans, LAMBDA x, y : x[1] < y[1])
      merge(p, acc) ==
        IF acc = <<>> \/ p[1] > Last(acc)[2] THEN Append(acc, p)
        ELSE IF p[2] > Last(acc)[2]
        THEN Append(Front(acc), <<Last(acc)[1], p[2]>>)
        ELSE acc
  IN FoldRight(merge, Reverse(sorted), <<>>)

BldCClass(i) ==
  LET c == NextC(i)
      k == IF ~c.quoted /\ c.r = Caret
           THEN Class(NextC(c.next), <<<<NL, NL>>>>, TRUE)
           ELSE Class(c, <<>>, FALSE)
  IN [type |-> IF ~k.ok THEN "BAD" ELSE IF k.negated THEN "NCCLASS"
               ELSE "CCLASS",
      raw |-> k.spans, spans |-> MergeSpans(k.spans), next |-> k.next]

\* lex: one token, with the rune or the class it carries.
LexToken(i) ==
  LET c == NextC(i)
      plain == [type |-> "RUNE", r |-> c.r, raw |-> <<>>, spans |-> <<>>,
                next |-> c.next]
      named == {x \in DOMAIN Meta : Meta[x] = c.r}
  IN IF c.r = 0 THEN [plain EXCEPT !.type = "END"]
     ELSE IF c.quoted \/ named = {} THEN plain
     ELSE IF c.r = Meta["OPEN"]
     THEN LET k == BldCClass(c.next)
          IN [type |-> k.type, r |-> 0, raw |-> k.raw, spans |-> k.spans,
              next |-> k.next]
     ELSE [plain EXCEPT !.type = CHOOSE x \in named : TRUE]

------------------------------------------------------------------------------
(***************************************************************************)
(* The compiler.  A node is a fragment of program with one entry and one   *)
(* exit: the exit's "next" is still to be filled in.                       *)
(***************************************************************************)
Inst(type) == [type |-> type, r |-> 0, spans |-> <<>>, subid |-> 0,
               right |-> 0, next |-> 0]

Fresh == [prog |-> <<>>, ands |-> <<>>, ators |-> <<>>, cursubid |-> 0,
          lastwasand |-> FALSE, nbra |-> 0, error |-> FALSE]

Rcerror(x) == [x EXCEPT !.error = TRUE]

PushAnd(x, first, last) ==
  IF Len(x.ands) >= NStack THEN Rcerror(x)
  ELSE [x EXCEPT !.ands = Append(@, [first |-> first, last |-> last])]

PushAtor(x, t) ==
  IF Len(x.ators) >= NStack THEN Rcerror(x)
  ELSE [x EXCEPT !.ators = Append(@, [op |-> t, subid |-> x.cursubid])]

NewInst(x, inst) == [x EXCEPT !.prog = Append(@, inst)]
Link(x, from, to) == [x EXCEPT !.prog[from].next = to]

\* The operands an operator takes off the stack.
Arity(op) == IF op \in {"OR", "CAT"} THEN 2 ELSE 1

\* One operator applied to its operands a (below) and b (on top); n is the
\* next free instruction.
Apply(x, op, subid, a, b, n) ==
  CASE op = "LBRA" ->
         PushAnd(Link(NewInst(NewInst(x,
                   [Inst("RBRA") EXCEPT !.subid = subid]),
                   [Inst("LBRA") EXCEPT !.subid = subid, !.next = b.first]),
                   b.last, n), n + 1, n)
    [] op = "OR" ->
         PushAnd(Link(Link(NewInst(NewInst(x, Inst("NOP")),
                   [Inst("OR") EXCEPT !.right = a.first, !.next = b.first]),
                   b.last, n), a.last, n), n + 1, n)
    [] op = "CAT" -> PushAnd(Link(x, a.last, b.first), a.first, b.last)
    [] op = "STAR" ->
         PushAnd(Link(NewInst(x, [Inst("OR") EXCEPT !.right = b.first]),
                      b.last, n), n, n)
    [] op = "PLUS" ->
         PushAnd(Link(NewInst(x, [Inst("OR") EXCEPT !.right = b.first]),
                      b.last, n), b.first, n)
    [] op = "QUEST" ->
         PushAnd(Link(NewInst(NewInst(x,
                   [Inst("OR") EXCEPT !.right = b.first, !.next = n + 1]),
                   Inst("NOP")), b.last, n + 1), n, n + 1)

\* popator, popand and the switch of evaluntil.
Reduce(x) ==
  LET top == Last(x.ators)
      k == Arity(top.op)
      rest == [x EXCEPT !.ators = Front(@),
                        !.ands = SubSeq(@, 1, Len(@) - k)]
  IN IF Len(x.ands) < k \/ Prec(top.op) <= Prec("RBRA") THEN Rcerror(x)
     ELSE Apply(rest, top.op, top.subid, x.ands[Len(x.ands) - k + 1],
                Last(x.ands), Len(x.prog) + 1)

\* Operators of at least this precedence are applied; a right bracket
\* applies them up to its left one.
RECURSIVE EvalUntil(_, _)
EvalUntil(x, pri) ==
  IF x.error \/ x.ators = <<>>
     \/ ~(pri = "RBRA" \/ Prec(Last(x.ators).op) >= Prec(pri))
  THEN x
  ELSE IF pri = "RBRA" /\ Last(x.ators).op = "LBRA" THEN Reduce(x)
  ELSE EvalUntil(Reduce(x), pri)

RECURSIVE Operator(_, _)
Operator(x, t) ==
  LET opened == [x EXCEPT !.cursubid = @ + 1, !.nbra = @ + 1]
      closed == [x EXCEPT !.nbra = @ - 1]
      before == CASE t = "LBRA" -> IF opened.cursubid >= NSubexp
                                   THEN Rcerror(opened)
                                   ELSE IF x.lastwasand
                                        THEN Operator(opened, "CAT")
                                        ELSE opened
                  [] t = "RBRA" -> IF closed.nbra < 0 THEN Rcerror(closed)
                                   ELSE EvalUntil(closed, t)
                  [] OTHER -> EvalUntil(x, t)
      after == IF before.error \/ t = "RBRA" THEN before
               ELSE PushAtor(before, t)
  IN [after EXCEPT !.lastwasand = t \in {"STAR", "QUEST", "PLUS", "RBRA"}]

Operand(x, tok) ==
  LET y == IF x.lastwasand THEN Operator(x, "CAT") ELSE x
      n == Len(y.prog) + 1
      z == PushAnd(NewInst(y, [Inst(tok.type) EXCEPT !.r = tok.r,
                                                     !.spans = tok.spans]),
                   n, n)
  IN IF y.error THEN y ELSE [z EXCEPT !.lastwasand = TRUE]

\* optimize: a chain of NOPs is skipped.
RECURSIVE PastNop(_, _)
PastNop(prog, i) ==
  IF prog[i].type = "NOP" THEN PastNop(prog, prog[i].next) ELSE i

Optimize(prog) ==
  [i \in DOMAIN prog |->
     IF prog[i].type = "END" THEN prog[i]
     ELSE [prog[i] EXCEPT !.next = PastNop(prog, @)]]

Token(x, tok) ==
  IF IsOperator(tok.type) THEN Operator(x, tok.type) ELSE Operand(x, tok)

\* Mutant: the brackets left open are not counted.
FinishUncounted(x) ==
  LET e == EvalUntil(x, "START")
      o == IF e.error THEN e
           ELSE EvalUntil(Operand(e, [type |-> "END", r |-> 0, spans |-> <<>>]),
                          "START")
  IN IF o.error THEN o ELSE [o EXCEPT !.prog = Optimize(@)]

\* The end of the pattern: what is pending is applied, END is appended and
\* the brackets are counted.
Finish(x) ==
  LET e == EvalUntil(x, "START")
      o == IF e.error THEN e
           ELSE EvalUntil(Operand(e, [type |-> "END", r |-> 0, spans |-> <<>>]),
                          "START")
  IN IF o.error \/ o.nbra # 0 THEN Rcerror(o)
     ELSE [o EXCEPT !.prog = Optimize(@)]

------------------------------------------------------------------------------
(***************************************************************************)
(* The machine.  A thread is an instruction and what it has matched so     *)
(* far: for each subexpression the positions it starts and ends at, 0 for  *)
(* none.                                                                   *)
(***************************************************************************)
Prog == m.prog
StartInst == m.ands[1].first
NoSpan == [sp |-> 0, ep |-> 0]
NoMatch == [i \in 0..(NSubexp - 1) |-> NoSpan]

\* _renewthread: a pending thread at the same instruction is kept, or
\* replaced when the new one starts further left.
RenewThread(list, from, pc, se) ==
  LET same == {k \in from..Len(list) : list[k].pc = pc}
  IN IF same = {} THEN Append(list, [pc |-> pc, se |-> se])
     ELSE [list EXCEPT ![Least(same)].se =
             IF se[0].sp < @[0].sp THEN se ELSE @]


\* _renewmatch: leftmost, then longest.
RenewMatch(mp, se) ==
  IF \/ mp[0].sp = 0
     \/ se[0].sp < mp[0].sp
     \/ se[0].sp = mp[0].sp /\ se[0].ep > mp[0].ep
  THEN se ELSE mp

InSpans(spans, r) == \E k \in DOMAIN spans : spans[k][1] <= r /\ r <= spans[k][2]

Consumes(i, r) ==
  CASE i.type = "RUNE" -> i.r = r
    [] i.type = "ANY" -> r # NL
    [] i.type = "CCLASS" -> InSpans(i.spans, r)
    [] i.type = "NCCLASS" -> ~InSpans(i.spans, r)
    [] OTHER -> FALSE

\* One thread of the current list, run until it consumes the rune or stops.
\* x holds both lists and the match.
RECURSIVE RunThread(_, _, _, _, _)
RunThread(x, k, i, s, r) ==
  CASE i.type = "LBRA" ->
         RunThread([x EXCEPT !.tl[k].se[i.subid].sp = s], k, Prog[i.next], s, r)
    [] i.type = "RBRA" ->
         RunThread([x EXCEPT !.tl[k].se[i.subid].ep = s], k, Prog[i.next], s, r)
    [] i.type = "BOL" ->
         IF s = 1 \/ run.text[s - 1] = NL
         THEN RunThread(x, k, Prog[i.next], s, r) ELSE x
    [] i.type = "EOL" ->
         IF r \in {0, NL} THEN RunThread(x, k, Prog[i.next], s, r) ELSE x
    [] i.type = "OR" ->
         LET y == [x EXCEPT !.tl = RenewThread(@, k, i.right, x.tl[k].se)]
         IN IF Len(y.tl) >= x.limit /\ Len(y.tl) > Len(x.tl)
            THEN [y EXCEPT !.full = TRUE]
            ELSE RunThread(y, k, Prog[i.next], s, r)
    [] i.type = "END" ->
         [x EXCEPT !.match = TRUE,
                   !.mp = RenewMatch(@, [x.tl[k].se EXCEPT ![0].ep = s])]
    [] OTHER ->
         IF ~Consumes(i, r) THEN x
         ELSE LET nl == RenewThread(x.nl, 1, i.next, x.tl[k].se)
              IN [x EXCEPT !.nl = nl,
                           !.full = Len(nl) >= x.limit /\ Len(nl) > Len(x.nl)]

RECURSIVE RunList(_, _, _, _)
RunList(x, k, s, r) ==
  IF k > Len(x.tl) \/ x.full THEN x
  ELSE RunList(RunThread(x, k, Prog[x.tl[k].pc], s, r), k + 1, s, r)

\* The fast check: with no thread alive, a program that starts with a rune
\* (or, for bytes, with ^) goes on at the next place it can match; 0 is none.
Skip(s, wide) ==
  LET i == Prog[StartInst]
      next(r) == {k \in s..Len(run.text) : run.text[k] = r}
        IN IF i.type = "RUNE" /\ i.r < Runeself THEN Least(next(i.r))
     ELSE IF i.type = "BOL" /\ ~wide /\ s # 1 THEN Least(next(NL))
     ELSE s

------------------------------------------------------------------------------
(***************************************************************************)
(* Actions.                                                                *)
(***************************************************************************)
Lex ==
  /\ phase = "lex"
  /\ LET tok == LexToken(pos)
         next == Token(m, tok)
     IN /\ tok.type # "END"
        /\ pos' = tok.next
        /\ toks' = Append(toks, tok)
        /\ m' = IF tok.type = "BAD" THEN m ELSE next
        /\ phase' = IF tok.type = "BAD" \/ next.error THEN "error" ELSE phase
  /\ UNCHANGED <<pattern, run>>

Close ==
  /\ phase = "lex"
  /\ LexToken(pos).type = "END"
  /\ m' = Finish(m)
  /\ phase' = IF m'.error THEN "error" ELSE "ready"
  /\ UNCHANGED <<pattern, pos, toks, run>>

Begin(text, wide, limit) ==
  [text |-> text, wide |-> wide, limit |-> limit, s |-> 1, tl |-> <<>>,
   match |-> FALSE, mp |-> NoMatch, full |-> FALSE]

Start(text, wide) ==
  /\ phase = "ready"
  /\ run' = Begin(text, wide, ListSize - 2)
  /\ phase' = "run"
  /\ UNCHANGED <<pattern, pos, toks, m>>

\* A new thread starts at s, unless (for bytes) something has matched.
Seeded(s) ==
  IF run.match /\ ~run.wide THEN run.tl
  ELSE RenewThread(run.tl, 1, StartInst, [NoMatch EXCEPT ![0].sp = s])

Step ==
  /\ phase = "run" /\ ~run.full
  /\ LET s == IF run.tl = <<>> THEN Skip(run.s, run.wide) ELSE run.s
         r == ByteAt(run.text, s)
         x == RunList([tl |-> Seeded(s), nl |-> <<>>, limit |-> run.limit,
                       match |-> run.match, mp |-> run.mp, full |-> FALSE],
                      1, s, r)
     IN IF s = 0 THEN phase' = "done" /\ UNCHANGED run
        ELSE /\ run' = [run EXCEPT !.s = s + 1, !.tl = x.nl, !.match = x.match,
                                   !.mp = x.mp, !.full = x.full]
             /\ phase' = IF r = 0 /\ ~x.full THEN "done" ELSE phase
  /\ UNCHANGED <<pattern, pos, toks, m>>

\* The lists were too short: once more with longer ones (regexec2 and
\* rregexec2), then no answer (-1).
Retry ==
  /\ phase = "run" /\ run.full
  /\ IF run.limit = ListSize - 2
     THEN /\ run' = Begin(run.text, run.wide,
                          (IF run.wide THEN 5 * ListSize ELSE BigListSize) - 2)
          /\ UNCHANGED phase
     ELSE phase' = "done" /\ UNCHANGED run
  /\ UNCHANGED <<pattern, pos, toks, m>>

RegexpInit ==
  /\ pattern \in Patterns
  /\ pos = 1
  /\ toks = <<>>
  /\ m = PushAtor(Fresh, "PRIME")
  /\ phase = "lex"
  /\ run = Begin(<<>>, FALSE, ListSize - 2)

RegexpNext ==
  \/ Lex
  \/ Close
  \/ \E text \in Texts, wide \in BOOLEAN : Start(text, wide)
  \/ Step
  \/ Retry

------------------------------------------------------------------------------
(***************************************************************************)
(* What a pattern means, from its tokens alone: which token sequences are  *)
(* patterns, and at which positions each may end when begun at one.        *)
(***************************************************************************)
Postfix == {"STAR", "PLUS", "QUEST"}
Type(k) == toks[k].type

\* Brackets open at token k, counted from lo.
Depth(lo, k) == Cardinality({j \in lo..k : Type(j) = "LBRA"})
                - Cardinality({j \in lo..(k - 1) : Type(j) = "RBRA"})

Bars(lo, hi) == {k \in lo..hi : Type(k) = "OR" /\ Depth(lo, k) = 0}

\* The last token of the atom that begins at lo, 0 when there is none.
AtomEnd(lo, hi) ==
  IF Type(lo) # "LBRA" THEN lo
  ELSE Least({k \in (lo + 1)..hi : Type(k) = "RBRA" /\ Depth(lo, k) = 1})

\* The item that begins at lo: its atom and the operators that follow it.
ItemEnd(lo, hi) ==
  LET a == AtomEnd(lo, hi)
  IN CHOOSE k \in a..hi : /\ \A j \in (a + 1)..k : Type(j) \in Postfix
                          /\ k = hi \/ Type(k + 1) \notin Postfix

RECURSIVE WellFormed(_, _)
WellFormed(lo, hi) ==
  IF lo > hi THEN FALSE
  ELSE IF Bars(lo, hi) # {}
  THEN \A k \in Bars(lo, hi) : WellFormed(lo, k - 1) /\ WellFormed(k + 1, hi)
  ELSE /\ Type(lo) \notin Postfix \cup {"RBRA", "BAD"}
       /\ AtomEnd(lo, hi) # 0
       /\ Type(lo) = "LBRA" => WellFormed(lo + 1, AtomEnd(lo, hi) - 1)
       /\ ItemEnd(lo, hi) = hi \/ WellFormed(ItemEnd(lo, hi) + 1, hi)

\* Where one token may end that begins at position i of the text.
AtomEnds(t, i) ==
  LET text == run.text
      inClass == \E k \in DOMAIN t.raw :
                   t.raw[k][1] <= text[i] /\ text[i] <= t.raw[k][2]
      eats == /\ i \in DOMAIN text
              /\ CASE t.type = "RUNE" -> text[i] = t.r
                   [] t.type = "ANY" -> text[i] # NL
                   [] t.type = "CCLASS" -> inClass
                   [] t.type = "NCCLASS" -> ~inClass
                   [] OTHER -> FALSE
      here == CASE t.type = "BOL" -> i = 1 \/ text[i - 1] = NL
                [] t.type = "EOL" -> i > Len(text) \/ text[i] = NL
                [] OTHER -> FALSE
  IN {j \in {i, i + 1} : IF j = i THEN here ELSE eats}

\* Positions reached from S by any number of repetitions.
RECURSIVE Ends(_, _, _), Repeat(_, _, _)
Repeat(lo, hi, S) ==
  LET T == S \cup UNION {Ends(lo, hi, i) : i \in S}
  IN IF T = S THEN S ELSE Repeat(lo, hi, T)

Ends(lo, hi, i) ==
  IF lo > hi THEN {i}
  ELSE IF Bars(lo, hi) # {}
  THEN LET k == CHOOSE b \in Bars(lo, hi) : TRUE
       IN Ends(lo, k - 1, i) \cup Ends(k + 1, hi, i)
  ELSE LET e == ItemEnd(lo, hi)
       IN IF e < hi
          THEN UNION {Ends(e + 1, hi, j) : j \in Ends(lo, e, i)}
          ELSE CASE Type(hi) = "STAR" -> Repeat(lo, hi - 1, {i})
                 [] Type(hi) = "PLUS" -> Repeat(lo, hi - 1, Ends(lo, hi - 1, i))
                 [] Type(hi) = "QUEST" -> Ends(lo, hi - 1, i) \cup {i}
                 [] Type(hi) = "RBRA" -> Ends(lo + 1, hi - 1, i)
                 [] OTHER -> AtomEnds(toks[hi], i)

Found == {<<i, j>> \in (1..(Len(run.text) + 1)) \X (1..(Len(run.text) + 1)) :
            j \in Ends(1, Len(toks), i)}

LeftmostLongest ==
  CHOOSE f \in Found : \A g \in Found : f[1] < g[1] \/ (f[1] = g[1] /\ g[2] <= f[2])

Groups == Cardinality({k \in DOMAIN toks : Type(k) = "LBRA"})

------------------------------------------------------------------------------
(***************************************************************************)
(* Properties.                                                             *)
(***************************************************************************)

\* regcomp accepts exactly the patterns: its two stacks, which no bracket
\* separates, never let an operator take an operand that is not its own.
Compiles ==
  phase \notin {"lex"} =>
    LET good == toks = <<>> \/ WellFormed(1, Len(toks))
    IN phase = "error" <=> ~good \/ Groups >= NSubexp

\* regexec finds a match exactly when there is one, and of several the
\* leftmost and, from there, the longest; and its lists run out only where a
\* repetition may go round without consuming anything.  (RenewThread looks no
\* further back than the thread it is run for, so that such a round can queue
\* the same instructions for ever.)  Over bytes the fast check for ^ stays on
\* the newline it has found, so that only the runes' machine is right about
\* the later lines of a text.
GoesRound ==
  \E lo, hi \in DOMAIN toks :
    /\ lo < hi /\ ItemEnd(lo, Len(toks)) >= hi
    /\ Type(hi) \in {"STAR", "PLUS"}
    /\ \E i \in 1..(Len(run.text) + 1) : i \in Ends(lo, hi - 1, i)


=============================================================================
