---------------------------- MODULE MCSQLScript ----------------------------
(***************************************************************************)
(* SQLScript for TLC.  The script is the one of tests/database_config with *)
(* a view in place of the sequence: a type, a table that uses it, an index *)
(* on the column of that type (where the file has one on another column),  *)
(* a view of the table, a table that refers to it, and rows for both.      *)
(***************************************************************************)
EXTENDS SQLScript

TestScript ==
    LET Stmt(k, n, needs) == [kind |-> k, name |-> n, needs |-> needs]
    IN  << Stmt("type", "mood", {}),
           Stmt("table", "test", {"mood"}),
           Stmt("index", "names", {"test", "mood"}),
           Stmt("view", "moods", {"test"}),
           Stmt("table", "test2", {"test"}),
           Stmt("insert", "test", {"test"}),
           Stmt("insert", "test2", {"test2"}) >>

\* The commands are not told apart; only safety is checked.
Symmetric == Permutations(Commands)
=============================================================================
