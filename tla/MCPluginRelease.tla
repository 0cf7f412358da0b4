-------------------------- MODULE MCPluginRelease --------------------------
(***************************************************************************)
(* PluginRelease under TLC: two runs, so that each may overtake the other, *)
(* of the same release or of two, from PyPI or a local rehearsal.          *)
(***************************************************************************)
EXTENDS PluginRelease

CONSTANTS a, b

MCRuns == {a, b}
MCJobs == [version : {1, 2}, source : {"pypi"}, dry : {FALSE}]
             \cup {[version |-> 2, source |-> "local", dry |-> d] : d \in BOOLEAN}
============================================================================
