------------------------------ MODULE MCCache ------------------------------
(***************************************************************************)
(* Cache for TLC: two keys, one of them reached by two different requests. *)
(***************************************************************************)
EXTENDS Cache, TLC

CONSTANTS page, pageAgain, other

MCKeyOf == [r \in Requests |-> IF r = other THEN "other" ELSE "page"]

Symmetric == Permutations(Greenlets)
=============================================================================
