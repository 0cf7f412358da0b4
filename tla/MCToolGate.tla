----------------------------- MODULE MCToolGate -----------------------------
(***************************************************************************)
(* ToolGate under TLC: no hosts, one, two of different or of the same      *)
(* daemon, and a registry that does not parse, under each of the switches. *)
(***************************************************************************)
EXTENDS ToolGate

CONSTANTS d1, d2, none

MCEntry(l, e, r, n) == [label |-> l, endpoint |-> e, ro |-> r, nd |-> n]

MCHosts ==
    {<< >>,
     <<MCEntry("a", "auto", FALSE, TRUE)>>,
     <<MCEntry("a", d2, TRUE, FALSE), MCEntry("b", "local", FALSE, FALSE)>>,
     <<MCEntry("a", "local", FALSE, FALSE), MCEntry("b", "auto", FALSE, TRUE)>>,
     <<MCEntry("a", d2, FALSE, FALSE), MCEntry("a", "bad", FALSE, FALSE)>>}

MCSetting(hosts, readonly, nodestructive, disable, socket) ==
    [hosts |-> hosts, dockerHost |-> none, readonly |-> readonly,
     nodestructive |-> nodestructive, disable |-> disable, socket |-> socket,
     boxed |-> TRUE, override |-> FALSE]

MCSettings ==
    {MCSetting(hosts, FALSE, FALSE, {}, s) : hosts \in MCHosts, s \in BOOLEAN}
      \cup {MCSetting(hosts, FALSE, TRUE, {"compose", "typo"}, TRUE) : hosts \in MCHosts}
      \cup {MCSetting(<< >>, TRUE, FALSE, {"system"}, TRUE)}
      \cup {[MCSetting(<< >>, FALSE, FALSE, {}, TRUE) EXCEPT !.dockerHost = d2, !.override = TRUE]}
============================================================================
