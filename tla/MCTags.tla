------------------------------- MODULE MCTags -------------------------------
(* Instances of Tags for TLC: what may be written to a tags file.          *)
EXTENDS Tags, TLC

Tag(op, n) == [op |-> op, tag |-> n, re |-> {}]
Expr(op, S) == [op |-> op, tag |-> 0, re |-> S]
Replace(items) == [append |-> FALSE, items |-> items]
Change(items) == [append |-> TRUE, items |-> items]

PlainWrites ==
  {Replace(<<Tag("+", 1)>>), Replace(<<Tag("+", 3)>>),
   Change(<<>>), Change(<<Tag("-", 1)>>), Change(<<Tag("^", 3)>>)}

ExprWrites ==
  PlainWrites \cup {Replace(<<Tag("+", 1), Expr("+", {2, 3})>>),
                    Change(<<Expr("-", {3})>>)}

\* With an expression alone, which Careful excludes, NeverCrashes fails.
BareWrites == PlainWrites \cup {Replace(<<Expr("+", {3})>>)}

\* With a toggle behind another tag, Toggles fails.
ToggleWrites == PlainWrites \cup {Change(<<Tag("+", 1), Tag("^", 2)>>)}

Perms == Permutations(Clients)
=============================================================================
