----------------------------- MODULE MCHotPath -----------------------------
(***************************************************************************)
(* HotPath for TLC.  Callers are interchangeable.                          *)
(***************************************************************************)
EXTENDS HotPath, TLC

Symmetry == Permutations(Callers)
=============================================================================
