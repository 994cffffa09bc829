------------------------------- MODULE MCMux -------------------------------
(* A plain call and two with callbacks, one of which makes a call of its   *)
(* own, over two tags: one may have to wait for a tag.                     *)
EXTENDS Mux, TLC
CONSTANTS s1, i1, a1, a2
MCInner == (a1 :> i1) @@ (a2 :> NoCall)
=============================================================================
