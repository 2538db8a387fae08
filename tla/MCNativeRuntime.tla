---------------------------- MODULE MCNativeRuntime ----------------------------
(***************************************************************************)
(* TLC instances of NativeRuntime.  The threads are numbered in the order  *)
(* they are spawned, so no symmetry applies.                               *)
(***************************************************************************)
EXTENDS NativeRuntime
================================================================================
