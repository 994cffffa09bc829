------------------------------ MODULE MCLayout ------------------------------
(***************************************************************************)
(* Small instances of the two layouts: a column of at most three frames,   *)
(* which nothing tells apart, or the floating layer with two windows on    *)
(* two screens.  While one is at work the other stays idle.                *)
(***************************************************************************)
EXTENDS Column, Floating

CONSTANTS f1, f2, f3, w1, w2

Symmetry == Permutations(Frames)

\* A screen with a bar, and one beside it that is smaller.
MCScreens == <<[r |-> Rect(0, 0, 40, 30), vr |-> Rect(0, 5, 40, 30)],
               [r |-> Rect(40, 0, 64, 24), vr |-> Rect(40, 0, 64, 24)]>>
MCSizeHints == {[min |-> Pt(11, 6), inc |-> Pt(3, 2), gravity |-> "SouthEast"],
                [base |-> Pt(2, 3), inc |-> Pt(4, 5), max |-> Pt(20, 20), gravity |-> "Static"],
                [position |-> TRUE, aspect |-> Rect(4, 3, 2, 1), gravity |-> "Center"]}
MCDecorations == {{}, {"title"}}
MCGrowAmounts == {[n |-> -6, px |-> FALSE]}

\* One in a corner, and one that is partly on both screens.
MCAsked == {Rect(0, 0, 12, 8), Rect(30, 20, 52, 36)}
MCPointers == {Pt(1, 1), Pt(64, 13)}

ColumnIdle == Init /\ area.height = 4 /\ area.mode = "default"
FloatIdle == FloatInit /\ \A w \in Windows : win[w].floatr = ClientGrav(win[w], Rect(0, 0, 12, 8))

LayoutInit ==
  \/ Init /\ FloatIdle
  \/ ColumnIdle /\ FloatInit /\ win[w1].r = ClientGrav(win[w1], Rect(0, 0, 12, 8))

LayoutNext ==
  \/ FloatIdle /\ Next /\ UNCHANGED floatVars
  \/ ColumnIdle /\ FloatNext /\ UNCHANGED vars

LayoutSpec == LayoutInit /\ [][LayoutNext]_<<vars, floatVars>>
=============================================================================
