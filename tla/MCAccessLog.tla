---------------------------- MODULE MCAccessLog ----------------------------
(***************************************************************************)
(* AccessLog for TLC.  Three workers, two at a time, so that one may be    *)
(* forked while lines of the others are in the pipes or in the buffer of   *)
(* the file.                                                               *)
(***************************************************************************)
EXTENDS AccessLog
=============================================================================
