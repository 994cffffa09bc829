------------------------------ MODULE MCRegexp ------------------------------
(***************************************************************************)
(* Small patterns and texts for Regexp: every pattern of a few runes,      *)
(* every short class, and longer patterns put together from a group, with  *)
(* an operator, before a piece.                                            *)
(***************************************************************************)
EXTENDS Regexp

CONSTANTS PatternRunes, MaxPattern, ClassRunes, MaxClass, TextRunes, MaxText

UpToLen(S, n) == UNION {[1..k -> S] : k \in 0..n}

Pieces == {<<97>>, <<97, 42>>, <<97, 124, 98>>, <<94>>, <<36>>, <<98, 63>>}
GroupsOf == {<<40>> \o x \o y \o <<41>> : x, y \in Pieces}
MCPatterns ==
  UpToLen(PatternRunes, MaxPattern)
  \cup {<<91>> \o c : c \in UpToLen(ClassRunes, MaxClass)}
  \cup {g \o o \o p : g \in GroupsOf, o \in {<<42>>, <<43>>},
                      p \in {<<>>, <<98>>}}
MCTexts == UpToLen(TextRunes, MaxText)

Spec == RegexpInit /\ [][RegexpNext]_regexpVars

=============================================================================
