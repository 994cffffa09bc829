-------------------------------- MODULE Menu --------------------------------
(***************************************************************************)
(* wimenu (cmd/menu): the line the user edits (caret.c), the completions   *)
(* that match it (main.c, menu.c) and the history (history.c).  The line   *)
(* is a piece of memory with pointers into it, here offsets, and is edited *)
(* with memmove.  Completions may be sent anew, and a paste is answered by *)
(* the owner of the selection, at any time between two keys.  Keys that    *)
(* the server had sent already are handled even after the one that ends    *)
(* the program.  A character is one rune, one byte long.                   *)
(***************************************************************************)
EXTENDS Naturals, Sequences, SequencesExt, FiniteSetsExt

CONSTANTS Char, Space, Word,   \* all runes; the spaces, the letters among them
          Typed,               \* bound: the runes the user types
          NUL, Junk,           \* the end of a string; memory nobody wrote
          History,             \* the lines of the history file, the latest last
          Completions,         \* lists of items a completing program may send
          Offsets,             \* the filter_start it sends with them
          Pastes,              \* selections
          Rows,                \* menu.rows
          MaxLen,              \* bound: the length of the line
          Nil

Item == [string : Seq(Char), ret : Seq(Char)]

ASSUME MenuAssumption ==
  /\ Typed \subseteq Char /\ NUL \notin Char /\ Junk \notin Char \cup {NUL}
  /\ History \in Seq(Seq(Char))
  /\ Completions \subseteq Seq(Item)
  /\ Pastes \subseteq Seq(Char)
  /\ Offsets \subseteq Nat /\ Rows \in Nat \ {0} /\ MaxLen \in Nat
  /\ Nil \notin Nat /\ Nil \notin Seq(Char)

VARIABLES
  input,      \* mem: the memory; end, pos, pos_end: offsets into it
  start,      \* input.filter_start
  all,        \* match.all
  match,      \* the matching items, as a list, and places in it, 0 for nil
  histsel,    \* the line of the history shown, 0 for hist itself
  saved,      \* hist.string
  pasting,    \* a selection was asked for
  running,    \* srv.running
  crashed     \* ghost: a pointer left the line

vars == <<input, start, all, match, histsel, saved, pasting, running, crashed>>
-----------------------------------------------------------------------------
(* caret.c                                                                 *)

Text(in) == SubSeq(in.mem, 1, in.end)

ClassOf(c) == c \in Word

(* caret_find: the place the caret goes to.                                *)
Forward(in, amount) ==
  LET t == Text(in)
      stop(p, ends) == Min({q \in p .. in.end : q = in.end \/ q \in ends})
      word == stop(in.pos, {q \in in.pos .. in.end - 1 :
                              t[q + 1] \in Space \/ ClassOf(t[q + 1]) # ClassOf(t[in.pos + 1])})
  IN  CASE amount = "line" -> in.end
        [] amount = "char" -> Min({in.pos + 1, in.end})
        [] amount = "word" -> stop(word, {q \in 0 .. in.end - 1 : t[q + 1] \notin Space})

Backward(in, amount) ==
  LET t == Text(in)
      stop(p, ends) == Max({q \in 0 .. p : q = 0 \/ q \in ends})
      word == stop(in.pos, {q \in 1 .. in.pos : t[q] \notin Space})
  IN  CASE amount = "line" -> 0
        [] amount = "char" -> IF in.pos = 0 THEN 0 ELSE in.pos - 1
        [] amount = "word" -> stop(word, {q \in 1 .. word :
                                            t[q] \in Space \/ ClassOf(t[q]) # ClassOf(t[word])})

Find(in, dir, amount) ==
  IF dir = "forward" THEN Forward(in, amount) ELSE Backward(in, amount)

(* memmove: s is written at offset p.                                      *)
Put(mem, p, s) ==
  [i \in DOMAIN mem |-> IF p < i /\ i <= p + Len(s) THEN s[i - p] ELSE mem[i]]

(* A string ends at offset e: what memory holds behind it is never read.   *)
Ended(mem, e) ==
  [i \in DOMAIN mem |-> IF i <= e THEN mem[i] ELSE IF i = e + 1 THEN NUL ELSE Junk]

(* caret_set                                                               *)
CaretSet(in, from, to) ==
  LET p == Min({in.end, from})
  IN  [in EXCEPT !.pos = p, !.pos_end = Max({p, to})]

CaretMove(in, dir, amount) ==
  [mem |-> in.mem, end |-> in.end, pos |-> Find(in, dir, amount), pos_end |-> Nil]

(* caret_delete: from the caret to p.                                      *)
DeleteShort(in, p) ==   \* a mutant: the last rune of what follows is not moved
  LET hi == Max({p, in.pos})
      lo == Min({p, in.pos})
      e  == lo + (in.end - hi)
  IN  [mem |-> Ended(Put(in.mem, lo, SubSeq(in.mem, hi + 1, in.end - 1)), e), end |-> e,
       pos |-> lo, pos_end |-> Nil]

DeleteTo(in, p) ==
  LET hi == Max({p, in.pos})
      lo == Min({p, in.pos})
      e  == IF p = in.end THEN in.pos ELSE lo + (in.end - hi)
      m  == IF p = in.end THEN in.mem ELSE Put(in.mem, lo, SubSeq(in.mem, hi + 1, in.end))
  IN  [mem |-> Ended(m, e), end |-> e,
       pos |-> IF p = in.end THEN in.pos ELSE lo, pos_end |-> Nil]

CaretDelete(in, dir, amount) ==
  DeleteTo(in, IF in.pos_end # Nil THEN in.pos_end ELSE Find(in, dir, amount))

(* The memory is made large enough for n runes; nothing depends on how     *)
(* much larger.                                                            *)
Grown(mem, n) == mem \o [i \in 1 .. n - Len(mem) |-> Junk]

(* s goes in at the caret.                                                 *)
PutIn(in, s) ==
  LET e == in.end + Len(s)
      m == Ended(Grown(in.mem, e + 1), e)
  IN  [mem |-> Put(Put(m, in.pos + Len(s), SubSeq(m, in.pos + 1, in.end)), in.pos, s),
       end |-> e, pos |-> in.pos + Len(s), pos_end |-> Nil]

(* caret_insert                                                            *)
CaretInsert(in, s, clear) ==
  PutIn(IF clear THEN [in EXCEPT !.pos = 0, !.end = 0]
        ELSE IF in.pos_end # Nil THEN DeleteTo(in, in.pos_end)
        ELSE in,
        s)
-----------------------------------------------------------------------------
(* The items (main.c).                                                     *)

Occurs(f, s) == \E i \in 0 .. Len(s) - Len(f) : SubSeq(s, i + 1, i + Len(f)) = f

(* The items of a list whose strings are among these, as they come.        *)
Having(items, strings) ==
  LET at[i \in 0 .. Len(items)] ==
        IF i = 0 THEN <<>>
        ELSE IF items[i].string \in strings THEN Append(at[i - 1], items[i]) ELSE at[i - 1]
  IN  at[Len(items)]

(* filter_list: the items that are f, then those that begin with it, then  *)
(* those it occurs in.                                                     *)
FilterList(items, f) ==
  LET strings == {items[i].string : i \in DOMAIN items}
  IN  Having(items, {f})
      \o Having(items, {s \in strings : IsStrictPrefix(f, s)})
      \o Having(items, {s \in strings : Occurs(f, s) /\ ~IsPrefix(f, s)})

(* update_filter, on the text before the caret.                            *)
Filter(in, from) == SubSeq(in.mem, Min({from, in.pos}) + 1, in.pos)

(* menu_draw: as many items as there are rows.                             *)
Drawn(m) == [m EXCEPT !.end = Min({m.start + Rows - 1, Max({Len(m.list), 1})})]

UpdateFilter(in, from, items) ==
  match' = Drawn([list |-> FilterList(items, Filter(in, from)), start |-> 1, end |-> 1, sel |-> 0])

After(m, i) == IF i = Len(m.list) THEN 1 ELSE i + 1
Before(m, i) == IF i = 1 THEN Len(m.list) ELSE i - 1

PageStart(i) == Max({1, i - Rows + 1})

(* selectitem                                                              *)
Selected(m, i) ==
  [m EXCEPT !.sel = i,
            !.start = IF i = After(m, m.end) THEN i
                      ELSE IF i = Before(m, m.start) THEN PageStart(i)
                      ELSE m.start]

SelectItem(m, i) ==
  IF m.list = <<>> \/ i = m.sel
    THEN match' = Drawn(m) /\ input' = input
    ELSE /\ match' = Drawn(Selected(m, i))
         /\ input' = CaretInsert(CaretSet(input, start, input.pos), m.list[i].string, FALSE)
-----------------------------------------------------------------------------
Init ==
  /\ input = CaretInsert([mem |-> <<>>, end |-> 0, pos |-> 0, pos_end |-> Nil], <<>>, TRUE)
  /\ start = 0
  /\ all \in Completions
  /\ match = Drawn([list |-> FilterList(all, <<>>), start |-> 1, end |-> 1, sel |-> 0])
  /\ histsel = 0 /\ saved = Nil
  /\ pasting = FALSE
  /\ running = TRUE /\ crashed = FALSE

(* A key that has been pressed while the program ran is handled, even if   *)
(* one before it has ended the program.                                    *)
Key == ~crashed /\ UNCHANGED <<start, all>>

Fits(in) == in.end <= MaxLen

(* A key that changes the text: the items are filtered anew.               *)
Edit(in) ==
  /\ input' = in /\ Fits(in)
  /\ UpdateFilter(in, start, all)

Type(c) ==
  /\ Key /\ Edit(CaretInsert(input, <<c>>, FALSE))
  /\ UNCHANGED <<histsel, saved, pasting, running, crashed>>

(* kill is backward, delete is forward.                                    *)
Delete(dir, amount) ==
  /\ Key /\ Edit(CaretDelete(input, dir, amount))
  /\ UNCHANGED <<histsel, saved, pasting, running, crashed>>

(* The items are not filtered anew, although the filter is the text before *)
(* the caret.                                                              *)
Move(dir, amount) ==
  /\ Key
  /\ input' = CaretMove(input, dir, amount)
  /\ match' = Drawn(match)
  /\ UNCHANGED <<histsel, saved, pasting, running, crashed>>
-----------------------------------------------------------------------------
(* history.c                                                               *)

Agrees(s, n) == n <= Len(s) /\ SubSeq(s, 1, n) = SubSeq(Text(input), 1, n)

(* history_search backward: the line before histsel that agrees with the   *)
(* line up to the caret, or 0.                                             *)
Earlier ==
  LET from == IF histsel = 0 THEN Len(History) ELSE histsel - 1
  IN  Max({0} \cup {i \in 1 .. from : Agrees(History[i], input.pos)})

(* Forward, where hist itself comes after the latest line; -1 is none.     *)
LaterThan(line) ==
  LET later == {i \in histsel + 1 .. Len(History) : Agrees(History[i], input.pos)}
  IN  IF later # {} THEN Min(later)
      ELSE IF line = Nil \/ Agrees(line, input.pos) THEN 0 ELSE histsel

LineOf(i, line) == IF i = 0 THEN line ELSE History[i]

(* The caret goes back to where it was, in the line that has come.         *)
Recalled(line) ==
  LET in == IF line = Nil THEN input ELSE CaretInsert(input, line, TRUE)
  IN  /\ Fits(in)
      /\ IF input.pos > in.end
           THEN crashed' = TRUE /\ UNCHANGED <<input, match>>
           ELSE /\ Edit([in EXCEPT !.pos = input.pos])
                /\ UNCHANGED crashed

HistoryBackward ==
  /\ Key
  /\ saved' = IF histsel = 0 THEN Text(input) ELSE saved
  /\ histsel' = IF Earlier = 0 THEN histsel ELSE Earlier
  /\ Recalled(IF Earlier = 0 THEN Text(input) ELSE History[Earlier])
  /\ UNCHANGED <<pasting, running>>

HistoryForward ==
  /\ Key
  /\ IF histsel = 0
       THEN Recalled(saved) /\ UNCHANGED histsel
       ELSE /\ histsel' = LaterThan(saved)
            /\ Recalled(IF histsel' = histsel THEN Text(input) ELSE LineOf(histsel', saved))
  /\ UNCHANGED <<saved, pasting, running>>
-----------------------------------------------------------------------------
(* menu.c                                                                  *)

Complete(how) ==
  /\ Key
  /\ CASE how = "next"  -> SelectItem(match, IF match.sel # 0 THEN After(match, match.sel) ELSE 1)
       [] how = "prev"  -> SelectItem(match, Before(match, IF match.sel # 0 THEN match.sel
                                                           ELSE match.start))
       [] how = "first" -> SelectItem([match EXCEPT !.start = 1], 1)
       [] how = "last"  -> SelectItem(match, Len(match.list))
       [] how = "nextpage" -> SelectItem(match, After(match, match.end))
       [] how = "prevpage" ->
            LET p == PageStart(Before(match, match.start))
            IN  SelectItem([match EXCEPT !.start = p], p)
  /\ Fits(input')
  /\ UNCHANGED <<histsel, saved, pasting, running, crashed>>

(* Accept: the first item, if none is selected, the whole line is the      *)
(* filter and the caret is at its end.                                     *)
AcceptItem(literal) ==
  IF ~literal /\ match.sel = 0 /\ match.list # <<>> /\ start = 0 /\ input.pos = input.end
    THEN SelectItem(match, match.start)
    ELSE match' = Drawn(match) /\ UNCHANGED input

(* What Accept prints: an item that stands in the line as what it        *)
(* returns.                                                                *)
Printed(literal) ==
  IF ~literal /\ match'.sel # 0 /\ match'.list[match'.sel].string = Text(input')
    THEN match'.list[match'.sel].ret
    ELSE Text(input')

Accept(literal) ==
  /\ Key
  /\ AcceptItem(literal)
  /\ Fits(input')
  /\ running' = FALSE
  /\ UNCHANGED <<histsel, saved, pasting, crashed>>

Reject ==
  /\ Key
  /\ running' = FALSE
  /\ match' = Drawn(match)
  /\ UNCHANGED <<input, histsel, saved, pasting, crashed>>

Paste ==
  /\ Key
  /\ pasting' = TRUE
  /\ match' = Drawn(match)
  /\ UNCHANGED <<input, histsel, saved, running, crashed>>

(* paste, when the selection comes: the items are not filtered anew.       *)
Pasted ==
  /\ pasting /\ ~crashed
  /\ pasting' = FALSE
  /\ \/ \E s \in Pastes : input' = CaretInsert(input, s, FALSE) /\ Fits(input')
     \/ UNCHANGED input
  /\ match' = Drawn(match)
  /\ UNCHANGED <<start, all, histsel, saved, running, crashed>>

(* check_competions: other items, which the program found for some earlier *)
(* state of the line.                                                      *)
NewItems(items, from) ==
  /\ running /\ ~crashed
  /\ start' = from
  /\ all' = items
  /\ UpdateFilter(input, from, items)
  /\ UNCHANGED <<input, histsel, saved, pasting, running, crashed>>

Amounts == {"char", "word", "line"}

Next ==
  \/ \E c \in Typed : Type(c)
  \/ \E d \in {"forward", "backward"}, a \in Amounts : Delete(d, a) \/ Move(d, a)
  \/ HistoryBackward \/ HistoryForward
  \/ \E h \in {"next", "prev", "first", "last", "nextpage", "prevpage"} : Complete(h)
  \/ \E l \in BOOLEAN : Accept(l)
  \/ Reject \/ Paste \/ Pasted
  \/ \E items \in Completions, from \in Offsets : NewItems(items, from)

Spec == Init /\ [][Next]_vars
-----------------------------------------------------------------------------
(* Properties                                                              *)

(* The line, as it is kept in memory, is the line the user knows: typing,  *)
(* killing, completing and recalling change it around the cursor and       *)
(* nowhere else, and the cursor stays within it -- until the history is    *)
(* followed beyond its newest line with the caret beyond the end of the    *)
(* saved one, see crashed.  (caret.c, history_search, selectitem)          *)
Draft == IF saved = Nil THEN <<>> ELSE saved

Pieces == {<<c>> : c \in Char} \cup Pastes
            \cup UNION {{items[i].string : i \in DOMAIN items} : items \in Completions}

TheLine == INSTANCE Line WITH text <- Text(input), cursor <- input.pos,
                              draft <- Draft, lost <- crashed

KeepsLine == TheLine!LineSpec

(* The line in memory ends where its pointer says: there is no end of a    *)
(* string before it, nor memory nobody wrote.  (caret_insert, caret_delete) *)
Terminated ==
  /\ input.mem[input.end + 1] = NUL
  /\ Range(Text(input)) \subseteq Char

(* The manual, of Return: "Accept the input, and select the first matching *)
(* completion if the cursor is at the end of the input."  What is printed  *)
(* is the line, or an item that matches it.                                *)
AcceptsMatching ==
  [][\A literal \in BOOLEAN :
       Accept(literal) =>
         \/ Printed(literal) = Text(input)
         \/ \E i \in DOMAIN all :
              all[i].ret = Printed(literal) /\ Occurs(Text(input), all[i].string)]_vars
=============================================================================
