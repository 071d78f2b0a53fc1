---------------------------- MODULE MCUserScript ----------------------------
(***************************************************************************)
(* A script on a small instance: body and output are longer than a pipe.   *)
(***************************************************************************)
EXTENDS UserScript
=============================================================================
