---------------------------- MODULE MCInvocation ----------------------------
(***************************************************************************)
(* A small instance of Invocation for TLC.                                 *)
(***************************************************************************)
EXTENDS Invocation

CONSTANTS p1, p2
=============================================================================
