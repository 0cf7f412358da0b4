--------------------------- MODULE MCRegistryHttp ---------------------------
(***************************************************************************)
(* RegistryHttp under TLC: a plain image and two with an index, and one    *)
(* delay that is waited out and one that is not.                           *)
(***************************************************************************)
EXTENDS RegistryHttp

CONSTANTS none

MCImages == {[name |-> 1, multi |-> FALSE], [name |-> 2, multi |-> TRUE], [name |-> 3, multi |-> TRUE]}
============================================================================
