---------------------------- MODULE MCAppServer ----------------------------
(***************************************************************************)
(* AppServer for TLC.  Three requests let one be in a view, one be written *)
(* and one arrive; two signals let two shutdowns overlap.                  *)
(***************************************************************************)
EXTENDS AppServer
=============================================================================
