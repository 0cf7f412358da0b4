-------------------------- MODULE MCSwarmServices --------------------------
(***************************************************************************)
(* SwarmServices under TLC: plans that set two callers against each other, *)
(* and plans that set one wait against what may overtake its reads.        *)
(***************************************************************************)
EXTENDS SwarmServices

CONSTANTS c1, c2, none

MCEdit(tool, field, to) == [tool |-> tool, field |-> field, to |-> to]
MCPlan(mode, callers, edits, removal, kind, until) ==
    [mode |-> mode, callers |-> callers, edits |-> edits, removal |-> removal, kind |-> kind, until |-> until]

MCForce == MCEdit("service_force", "template", 1)
MCScale == MCEdit("service_scale", "replicas", 2)
MCBack == MCEdit("service_rollback", none, 0)
MCServiceEdits == {MCForce, MCScale, MCBack, MCEdit("service_update", "other", 1)}
MCOtherEdits == {MCEdit(t, f, 1) : t \in {"node_update", "swarm_update"}, f \in {"template", "other"}}

MCBoth == {c1, c2}
MCPlans ==
    {MCPlan("replicated", MCBoth, MCServiceEdits, TRUE, none, none),
     MCPlan("replicated", MCBoth, MCOtherEdits, FALSE, none, none),
     MCPlan("replicated", {c1}, {MCForce, MCScale}, FALSE, "service", "running"),
     MCPlan("replicated", {c1}, {MCForce}, FALSE, "service", "update-converged"),
     MCPlan("replicated", {c1}, {MCForce}, TRUE, "stack", "converged"),
     MCPlan("global", {c1}, {MCForce}, FALSE, "service", "running"),
     MCPlan("global", {c1}, {MCForce}, FALSE, "stack", "converged"),
     MCPlan("replicated", {}, {}, TRUE, "stack", "removed"),
     MCPlan("replicated", {}, {}, FALSE, "node", "down")}
============================================================================
