----------------------------- MODULE MCStartup -----------------------------
(***************************************************************************)
(* Startup for TLC: launches are interchangeable.                          *)
(***************************************************************************)
EXTENDS Startup, TLC

Symmetric == Permutations(Launches)
=============================================================================
