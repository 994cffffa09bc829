------------------------------- MODULE MCKeys -------------------------------
(* Three keystrokes; tables with chords that share a beginning, a chord    *)
(* that is the beginning of another, one that is as long as may be and one *)
(* that is too long, a repeated line, a bad one, and none.                 *)
EXTENDS Keys
CONSTANTS a, b, c, bad
MCStrokes == {a, b, c}
MCTexts == {<<>>,
            <<<<b, c>>, <<a, b>>, <<b, c>>>>,
            <<<<a>>, <<b, b, a>>, <<a, bad>>, <<a, b>>,
              <<b, b, a, c>>, <<>>>>}
=============================================================================
