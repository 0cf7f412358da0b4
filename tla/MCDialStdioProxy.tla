-------------------------- MODULE MCDialStdioProxy --------------------------
(***************************************************************************)
(* DialStdioProxy under TLC: two connections, so that one can be accepted  *)
(* while the other is being torn down.                                     *)
(***************************************************************************)
EXTENDS DialStdioProxy
=============================================================================
