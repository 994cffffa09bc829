----------------------------- MODULE MCWindows -----------------------------
(* Small instances of module Windows: two windows and two views.           *)
EXTENDS Windows, TLC
=============================================================================
