----------------------------- MODULE MCPgPool -----------------------------
(***************************************************************************)
(* PgPool for TLC: symmetry of the greenlets and of the connections.       *)
(***************************************************************************)
EXTENDS PgPool

\* Neither set's members are told apart by the specification or by the
\* invariants; not used where a temporal property is checked.
Symmetric == Permutations(Greenlets) \cup Permutations(Conns)
=============================================================================
