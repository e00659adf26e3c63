---------------------------- MODULE MCIksRemotes ----------------------------
(***************************************************************************)
(* A chain of three servers.                                               *)
(***************************************************************************)
EXTENDS IksRemotes
=============================================================================
