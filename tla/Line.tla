-------------------------------- MODULE Line --------------------------------
(***************************************************************************)
(* What the input line of wimenu promises its user: a text with a cursor   *)
(* in it, and keys that change the one around the other and nothing else.  *)
(***************************************************************************)
EXTENDS Naturals, Sequences

CONSTANTS Pieces,     \* what can be typed, pasted or completed at once
          History     \* the lines of the history file, the latest last

VARIABLES text, cursor,
          draft,          \* the line that was left for the history
          lost            \* the promise is off

Take(s, n) == SubSeq(s, 1, n)
Drop(s, n) == SubSeq(s, n + 1, Len(s))

(* The part of the text from i to j gives way to s, and the cursor comes   *)
(* to stand behind it.                                                     *)
Splice(i, j, s) ==
  /\ text' = Take(text, i) \o s \o Drop(text, j)
  /\ cursor' = i + Len(s)

LineInit == text = <<>> /\ cursor = 0 /\ draft = <<>> /\ lost = FALSE

(* A character or a pasted text goes in at the cursor.                     *)
Insert == \E s \in Pieces : Splice(cursor, cursor, s)

(* Something is taken out, before the cursor or behind it.                 *)
TakeOut ==
  \E i \in 0 .. Len(text) :
    IF i <= cursor THEN Splice(i, cursor, <<>>) ELSE Splice(cursor, i, <<>>)

Move == text' = text /\ cursor' \in 0 .. Len(text)

(* A completion takes the place of what is between its beginning, which    *)
(* the completing program chose, and the cursor.                           *)
Complete ==
  \E i \in 0 .. Len(text), s \in Pieces : Splice(i, IF i < cursor THEN cursor ELSE i, s)

(* A line of the history, or the line it was left for, agrees with the     *)
(* text up to the cursor, which stays.                                     *)
Recall ==
  /\ draft' \in {draft, text}
  /\ \E i \in DOMAIN History \cup {0} :
       text' = IF i = 0 THEN draft' ELSE History[i]
  /\ cursor' = cursor
  /\ Take(text', cursor) = Take(text, cursor)

(* With no newer line, the one that was left comes back, whatever has been *)
(* typed since.                                                            *)
Revert == text' = draft /\ cursor' = cursor /\ cursor <= Len(draft)

(* The exception: that line is shorter than where the cursor is.           *)
Lose == lost' = TRUE /\ UNCHANGED <<text, cursor, draft>>

LineNext ==
  /\ ~lost
  /\ \/ (Insert \/ TakeOut \/ Move \/ Complete \/ Revert) /\ UNCHANGED <<draft, lost>>
     \/ Recall /\ UNCHANGED lost
     \/ Lose

LineSpec == LineInit /\ [][LineNext]_<<text, cursor, draft, lost>>
=============================================================================
