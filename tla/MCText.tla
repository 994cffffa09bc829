------------------------------- MODULE MCText -------------------------------
(***************************************************************************)
(* Small inputs for Reader and Fmt: a file is read by wmiir or a directive *)
(* is printed, and the other machine stays idle.                           *)
(***************************************************************************)
EXTENDS Reader, Fmt

CONSTANTS SourceRunes, MaxSource, MaxQuoted

UpToLen(S, n) == UNION {[1..k -> S] : k \in 0..n}

\* At the borders of the lengths of an encoding, and bytes that are no rune.
MCSourceRunes == {127, 128, 2048, 65536, 1114112, -128, -192}
MCSources == UpToLen(SourceRunes, MaxSource)

EAcute == <<195, 169>>
Flags == {<<>>} \cup {<<Is(c)>> : c \in {"-", " ", "'", "u", "l"}}
         \cup {<<Is(b), Is(c)>> : b \in {"0", "#", "'"},
                                 c \in {"+", "0", ","}}
Integers_ ==
  [pre : {<<97>>}, flags : Flags, width : {None, 7, 48}, star : {FALSE},
   prec : {None, 0, 4}, verb : {Is(c) : c \in {"d", "x", "o", "b"}},
   arg : {-128, 0, 8, 100}, post : {<<>>}]
Strings_ ==
  [pre : {<<>>}, flags : {<<>>, <<Is("-")>>}, width : {None, 4, -4},
   star : {TRUE}, prec : {None, 2, -2}, verb : {Is("s")},
   arg : {<<>>, <<97>>, EAcute \o <<98>> \o EAcute}, post : {EAcute}]
Characters_ ==
  [pre : {EAcute}, flags : {<<>>}, width : {None, 2}, star : {FALSE},
   prec : {None, 0}, verb : {Is("c"), Is("C")}, arg : {98}, post : {<<99>>}]
Quoted_ ==
  [pre : {<<>>}, flags : {<<>>, <<Is("#")>>}, width : {None}, star : {FALSE},
   prec : {None, 1}, verb : {Is("q")},
   arg : {FlattenSeq(p) : p \in UpToLen({<<97>>, <<39>>, <<32>>, EAcute},
                                        MaxQuoted)},
   post : {<<>>}]
MCCalls == Integers_ \cup Strings_ \cup Characters_ \cup Quoted_

Sink(kind, size, runes, broken) ==
  [kind |-> kind, size |-> size, runes |-> runes, broken |-> broken]
MCSinks == {Sink("buf", 5, FALSE, FALSE), Sink("buf", 8, FALSE, FALSE),
            Sink("buf", 6, TRUE, FALSE), Sink("str", 2, FALSE, FALSE),
            Sink("fd", 4, TRUE, FALSE), Sink("fd", 4, FALSE, TRUE)}

ReaderIdle ==
  /\ source = <<>> /\ arrived = 0 /\ extra = <<>> /\ shown = <<>>
  /\ short = FALSE
FmtIdle ==
  /\ call = [pre |-> <<>>, flags |-> <<>>, width |-> None, star |-> FALSE,
             prec |-> None, verb |-> Is("s"), arg |-> <<>>, post |-> <<>>]
  /\ fmt = <<>> /\ doing = "idle"
  /\ f = NewFmt(Sink("buf", 8, FALSE, FALSE))

TextInit ==
  \/ ReaderInit /\ FmtIdle
  \/ ReaderIdle /\ FmtInit

TextNext ==
  \/ ReaderNext /\ UNCHANGED fmtVars
  \/ FmtNext /\ UNCHANGED readerVars

Spec == TextInit /\ [][TextNext]_<<readerVars, fmtVars>>

=============================================================================
