--------------------------- MODULE MCContainerExec ---------------------------
(***************************************************************************)
(* ContainerExec under TLC: chunks that fill the cap exactly, pass it by   *)
(* one, or end short of it.                                                *)
(***************************************************************************)
EXTENDS ContainerExec
=============================================================================
