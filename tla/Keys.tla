-------------------------------- MODULE Keys --------------------------------
(***************************************************************************)
(* Key bindings (cmd/wmii/key.c) and the part of event.c that can press a  *)
(* key while another one is being handled.  A binding is a chord: a        *)
(* sequence of keystrokes, only the first of which is grabbed.  When it    *)
(* comes, wmii grabs the whole keyboard, lets the focus events that this   *)
(* causes run, and then reads keystrokes itself, in a nested loop, until   *)
(* the chord is complete or wrong.  Nothing else is served meanwhile.      *)
(*                                                                         *)
(* The candidates that still match are a list linked through the field     *)
(* tnext of the bindings themselves, so there is one such list for the     *)
(* whole program.                                                          *)
(***************************************************************************)
EXTENDS Naturals, Sequences, SequencesExt

CONSTANTS Strokes,     \* modifiers and key code of a keystroke
          BadStroke,   \* a name parsekey or keycode rejects
          Texts,       \* what may be written to the file keys: lines of chords
          MaxStrokes,  \* nelem(seq) in getkey
          MaxQueue,    \* bound: events waiting to be read
          MaxNested,   \* bound: the user types on only if no more kpress run than this
          Nil

ASSUME KeysAssumption ==
  /\ BadStroke \notin Strokes
  /\ Texts \subseteq Seq(Seq(Strokes \cup {BadStroke}))
  /\ MaxStrokes \in Nat \ {0} /\ MaxQueue \in Nat /\ MaxNested \in Nat
  /\ Nil \notin Nat \X Nat

VARIABLES
  key,        \* the list of bindings, the newest first: the name of each
  tnext,      \* the field tnext of node <<i, j>>: keystroke j of binding i
  numlock,    \* numlock_mask # 0
  stack,      \* the activations of kpress that read on, the innermost last
  said,       \* what came of the last keystroke of a finished kpress
  crashed,    \* a nil pointer was followed
  lockmap,    \* the server: some modifier carries Num_Lock
  grabs,      \* the server: keystrokes, with the locks held, grabbed on the root
  keyboard,   \* the server: who has the keyboard, "free", "key" or "wmii"
  queue       \* the server: events on their way to wmii

server == <<lockmap, grabs, keyboard, queue>>
vars == <<key, tnext, numlock, stack, said, crashed, server>>

Init ==
  /\ key = <<>> /\ tnext = <<>>
  /\ numlock = FALSE /\ lockmap = FALSE
  /\ stack = <<>>
  /\ said = [what |-> "none"]
  /\ crashed = FALSE
  /\ grabs = {} /\ keyboard = "free" /\ queue = <<>>
-----------------------------------------------------------------------------
(* The table.                                                              *)

(* grabkey: a grab ignores the locks, by being made once for each of their *)
(* combinations.                                                           *)
Variants(stroke, num) ==
  [stroke : {stroke}, locks : SUBSET (IF num THEN {"caps", "num"} ELSE {"caps"})]

(* Of a chord that is too long, tokenize leaves the rest in the last of    *)
(* its strokes, which no keyboard has: like any bad stroke it makes getkey *)
(* free the binding.                                                       *)
Bindable(name) ==
  name # <<>> /\ Len(name) <= MaxStrokes /\ BadStroke \notin Range(name)

AddKeyUngrabs(st, name) ==   \* a mutant: a name the table has is left ungrabbed
  IF \E i \in DOMAIN st.key : st.key[i] = name
    THEN [st EXCEPT !.grabs = @ \ Variants(name[1], lockmap)]
    ELSE IF Bindable(name)
      THEN [key |-> <<name>> \o st.key,
            grabs |-> st.grabs \cup Variants(name[1], lockmap)]
      ELSE st

(* getkey and grabkey for one line of the text.  A name the table has is   *)
(* ungrabbed and grabbed again.                                            *)
AddKey(st, name) ==
  IF \E i \in DOMAIN st.key : st.key[i] = name
    THEN st
    ELSE IF Bindable(name)
      THEN [key |-> <<name>> \o st.key,
            grabs |-> st.grabs \cup Variants(name[1], lockmap)]
      ELSE st

Ungrabbed ==
  grabs \ UNION {Variants(key[i][1], lockmap) : i \in DOMAIN key}

NoneLinked(keys) ==
  [n \in UNION {{i} \X (1 .. Len(keys[i])) : i \in DOMAIN keys} |-> Nil]

(* The lines of text, one after the other.                                 *)
Table(text) ==
  LET at[i \in 0 .. Len(text)] == IF i = 0 THEN [key |-> <<>>, grabs |-> Ungrabbed]
                                  ELSE AddKey(at[i - 1], text[i])
  IN  at[Len(text)]

(* update_keys, when a fid of the file keys is clunked.                    *)
UpdateKeys(text) ==
  /\ stack = <<>> /\ ~crashed
  /\ LET new == Table(text)
     IN  key' = new.key /\ grabs' = new.grabs /\ tnext' = NoneLinked(new.key)
  /\ numlock' = lockmap
  /\ UNCHANGED <<stack, said, crashed, lockmap, keyboard, queue>>
-----------------------------------------------------------------------------
(* match_keys                                                              *)

NextOf(n) == IF <<n[1], n[2] + 1>> \in DOMAIN tnext THEN <<n[1], n[2] + 1>> ELSE Nil

(* The list that starts with n, linked by t: its nodes, then Nil.          *)
List(t, n) ==
  LET at[i \in 1 .. Len(key) + 1] ==
        IF i = 1 THEN n ELSE IF at[i - 1] = Nil THEN Nil ELSE t[at[i - 1]]
  IN  at

(* valid_mask: the lock modifiers are taken off.  One that wmii does not   *)
(* take for a lock makes it a keystroke no binding has.                    *)
Valid(press) == IF "num" \in press.locks /\ ~numlock THEN BadStroke ELSE press.stroke

Fits(n, press) == n # Nil /\ key[n[1]][n[2]] = Valid(press)

(* What a walk along nodes finds at each place: the node there, in a chord *)
(* its next keystroke, if it matches.                                      *)
Hits(nodes, press, seq) ==
  [i \in DOMAIN nodes |->
     LET m == IF nodes[i] = Nil THEN Nil ELSE IF seq THEN NextOf(nodes[i]) ELSE nodes[i]
     IN  IF Fits(m, press) THEN m ELSE Nil]

Places(hits) == {i \in DOMAIN hits : hits[i] # Nil}

(* The last hit before place i.                                            *)
Before(hits, i) ==
  LET earlier == {j \in Places(hits) : j < i}
  IN  IF earlier = {} THEN Nil ELSE hits[CHOOSE j \in earlier : \A k \in earlier : k <= j]

(* Each hit is pushed on the front of the list that is returned.           *)
Linked(t, hits) ==
  [m \in DOMAIN t |->
     LET at == {i \in DOMAIN hits : hits[i] = m}
     IN  IF at = {} THEN t[m] ELSE Before(hits, CHOOSE i \in at : TRUE)]

Found(hits) == Before(hits, Len(key) + 2)

CompleteAnyway(hits) == Found(hits) # Nil /\ NextOf(Found(hits)) = Nil   \* a mutant

(* The list has one node, and that is the last keystroke of its chord.     *)
Complete(hits) ==
  /\ Found(hits) # Nil /\ NextOf(Found(hits)) = Nil
  /\ \A i, j \in Places(hits) : i = j

-----------------------------------------------------------------------------
(* kpress and kpress_seq                                                   *)

(* Ghost: an activation over which another kpress runs is disturbed.       *)
Disturbed(s) == [i \in DOMAIN s |-> [s[i] EXCEPT !.disturbed = TRUE]]

Says(what, name, strokes, disturbed) ==
  said' = [what |-> what, name |-> name, strokes |-> strokes, disturbed |-> disturbed]

(* The server's part of XGrabKeyboard: the focus goes out, unless the key  *)
(* grab had it out already or no client had it.                            *)
GrabKeyboard(q) ==
  /\ keyboard' = "wmii"
  /\ \/ queue' = q
     \/ keyboard = "free" /\ queue' = Append(q, [type |-> "focusout"])

(* kpress links all the bindings, in the order of the table.               *)
Fresh ==
  [n \in DOMAIN tnext |->
     IF n[2] > 1 THEN tnext[n] ELSE IF n[1] < Len(key) THEN <<n[1] + 1, 1>> ELSE Nil]

(* kpress, with the events q left in the queue.                            *)
KPress(press, q) ==
  IF key = <<>>
    THEN crashed' = TRUE /\ queue' = q /\ UNCHANGED <<tnext, stack, said, keyboard>>
    ELSE LET hits == Hits(List(Fresh, <<1, 1>>), press, FALSE)
             found == Found(hits)
         IN  /\ tnext' = Linked(Fresh, hits)
             /\ UNCHANGED crashed
             /\ IF found = Nil \/ Complete(hits)
                  THEN /\ stack' = Disturbed(stack)
                       /\ queue' = q /\ UNCHANGED keyboard
                       /\ IF found = Nil
                            THEN Says("bell", Nil, <<Valid(press)>>, FALSE)
                            ELSE Says("event", key[found[1]], <<Valid(press)>>, FALSE)
                  ELSE /\ stack' = Append(Disturbed(stack),
                                          [done |-> found, at |-> "flush",
                                           strokes |-> <<Valid(press)>>, disturbed |-> FALSE])
                       /\ GrabKeyboard(q) /\ UNCHANGED said

Without(q, i) == RemoveAt(q, i)

Presses == {i \in DOMAIN queue : queue[i].type = "press"}

FirstPress == CHOOSE i \in Presses : \A j \in Presses : i <= j

(* event_focusout: when the focus goes to a grab, the keystroke that made  *)
(* it is dispatched from here.  i is the place of the focus event.         *)
FocusOut(i) ==
  /\ queue[i].type = "focusout"
  /\ IF Presses = {}
       THEN queue' = Without(queue, i) /\ UNCHANGED <<tnext, stack, said, keyboard, crashed>>
       ELSE KPress(queue[FirstPress],
                   IF i < FirstPress THEN Without(Without(queue, FirstPress), i)
                   ELSE Without(Without(queue, i), FirstPress))

(* The main loop dispatches the next event.                                *)
Dispatch ==
  /\ stack = <<>> /\ ~crashed /\ queue # <<>>
  /\ \/ FocusOut(1)
     \/ queue[1].type = "press" /\ KPress(queue[1], Tail(queue))
  /\ UNCHANGED <<key, numlock, lockmap, grabs>>

(* event_flush(FocusChangeMask) in kpress, until there is no such event.   *)
Flush ==
  /\ stack # <<>> /\ ~crashed
  /\ Last(stack).at = "flush"
  /\ LET outs == {i \in DOMAIN queue : queue[i].type = "focusout"}
     IN  IF outs = {}
           THEN /\ stack' = [stack EXCEPT ![Len(stack)].at = "read"]
                /\ UNCHANGED <<tnext, said, keyboard, queue, crashed>>
           ELSE FocusOut(CHOOSE i \in outs : \A j \in outs : i <= j)
  /\ UNCHANGED <<key, numlock, lockmap, grabs>>

(* kpress returns, and the keyboard is let go.                             *)
ReturnKeepsKeyboard(act, what, name) ==   \* a mutant: an early return
  /\ stack' = Front(stack)
  /\ Says(what, name, act.strokes, act.disturbed)
  /\ keyboard' = IF what = "event" THEN "free" ELSE keyboard

Return(act, what, name) ==
  /\ stack' = Front(stack)
  /\ Says(what, name, act.strokes, act.disturbed)
  /\ keyboard' = "free"

(* kpress_seq: the next keystroke, whichever it is.  The keystroke of the  *)
(* chord so far, pressed again, is sent on to the focused window.          *)
KPressSeq ==
  /\ stack # <<>> /\ ~crashed
  /\ Last(stack).at = "read"
  /\ Presses # {}
  /\ LET press == queue[FirstPress]
         act  == [Last(stack) EXCEPT !.strokes = Append(@, Valid(press))]
         hits == Hits(List(tnext, act.done), press, TRUE)
         found == Found(hits)
     IN  /\ tnext' = Linked(tnext, hits)
         /\ IF Fits(act.done, press)
              THEN Return(act, "fake", Nil)
              ELSE IF found = Nil
                THEN Return(act, "bell", Nil)
                ELSE IF Complete(hits)
                  THEN Return(act, "event", key[found[1]])
                  ELSE /\ stack' = [stack EXCEPT ![Len(stack)] = [act EXCEPT !.done = found]]
                       /\ UNCHANGED <<said, keyboard>>
  /\ queue' = Without(queue, FirstPress)
  /\ UNCHANGED <<key, numlock, crashed, lockmap, grabs>>
-----------------------------------------------------------------------------
(* The server and the user.                                                *)

(* A keystroke goes to whoever has the keyboard; a grabbed one takes it,   *)
(* and takes the focus out of the client that has it, if one has.          *)
Press(stroke, locks) ==
  LET press == [type |-> "press", stroke |-> stroke, locks |-> locks]
  IN  /\ Len(queue) + 2 <= MaxQueue /\ Len(stack) <= MaxNested
      /\ locks = {} \/ lockmap
      /\ \/ /\ keyboard # "free"
            /\ queue' = Append(queue, press)
            /\ UNCHANGED keyboard
         \/ /\ keyboard = "free"
            /\ [stroke |-> stroke, locks |-> locks] \in grabs
            /\ keyboard' = "key"
            /\ \/ queue' = Append(queue, press)
               \/ queue' = Append(Append(queue, [type |-> "focusout"]), press)
      /\ UNCHANGED <<key, tnext, numlock, stack, said, crashed, lockmap, grabs>>

(* The grabbed key is let go.                                              *)
Release ==
  /\ keyboard = "key"
  /\ keyboard' = "free"
  /\ UNCHANGED <<key, tnext, numlock, stack, said, crashed, lockmap, grabs, queue>>

(* xmodmap gives Num_Lock a modifier, or takes it away.                    *)
Remap ==
  /\ lockmap' = ~lockmap
  /\ UNCHANGED <<key, tnext, numlock, stack, said, crashed, grabs, keyboard, queue>>

Next ==
  \/ \E t \in Texts : UpdateKeys(t)
  \/ Dispatch \/ Flush \/ KPressSeq
  \/ \E s \in Strokes, l \in {{}, {"num"}} : Press(s, l)
  \/ Release \/ Remap

Spec == Init /\ [][Next]_vars
-----------------------------------------------------------------------------
(* Properties                                                              *)

(* What a kpress comes to is what its keystrokes say: the event of a       *)
(* binding when they are its chord, and the beginning of no other; the     *)
(* bell when they begin no binding; the last keystroke is sent on to the   *)
(* client when it was pressed twice.  The exception is a kpress that let   *)
(* another one run, among the focus events: there is one tnext list for    *)
(* both.  (match_keys, kpress, kpress_seq)                                 *)
Begins(strokes, name) == IsPrefix(strokes, name)

OutcomeOf(s) ==
  /\ s.what = "event" =>
       /\ s.strokes = s.name
       /\ \A i, j \in DOMAIN key :
            Begins(s.strokes, key[i]) /\ Begins(s.strokes, key[j]) => i = j
  /\ s.what = "bell" => \A i \in DOMAIN key : ~Begins(s.strokes, key[i])
  /\ s.what = "fake" => s.strokes[Len(s.strokes)] = s.strokes[Len(s.strokes) - 1]

Outcome == [][said' # said /\ ~said'.disturbed => OutcomeOf(said')]_vars

(* The event alone, without the exception, as the manual has it: "Whenever *)
(* these key combinations are pressed, the string which represents them    *)
(* are written to '/event'".                                               *)
EventFits == said.what = "event" => said.strokes = said.name

(* The first keystroke of every binding is grabbed, whatever locks are     *)
(* held, as far as wmii knows the locks.  (getkey, grabkey, ungrabkey)     *)
TableGrabbed ==
  \A i \in DOMAIN key : Variants(key[i][1], numlock) \subseteq grabs

(* The keyboard is wmii's only while some kpress is there to read it.      *)
(* (kpress: XGrabKeyboard, XUngrabKeyboard)                                *)
KeyboardReleased == keyboard = "wmii" => stack # <<>>
=============================================================================
