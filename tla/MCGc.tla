---------------------------------- MODULE MCGc ---------------------------------
(***************************************************************************)
(* TLC instances of Gc: addresses, globals and threads as model values;    *)
(* addresses are interchangeable.                                          *)
(***************************************************************************)
EXTENDS Gc, TLC

Addresses == Permutations(Obj)
================================================================================
