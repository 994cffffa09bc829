------------------------------- MODULE MCView -------------------------------
(***************************************************************************)
(* Small instances of module View.  Clients that differ in nothing but     *)
(* their names are interchangeable: no operator chooses between clients    *)
(* but by their place in a list.                                           *)
(***************************************************************************)
EXTENDS View, TLC

Symmetry == Permutations(Clients)

=============================================================================
