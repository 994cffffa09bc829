------------------------------- MODULE MCTray -------------------------------
(* The tray with two windows and another tray.                             *)
EXTENDS Tray
CONSTANTS w1, w2, o1, a1, a2
=============================================================================
