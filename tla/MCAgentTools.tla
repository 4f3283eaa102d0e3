---------------------------- MODULE MCAgentTools ----------------------------
(* Instances of AgentTools for TLC. *)
EXTENDS AgentTools, TLC

CONSTANTS g1, g2, a1, a2, x, y, NotAnAgent, NotATitle, NotAnItem

Item(agent, deps) == [agent |-> agent, deps |-> deps]
Undecided(agent, deps) == [agent |-> agent, deps |-> deps, approved |-> "undecided", real |-> 0]

\* a1 decomposes the first task; a2 works on others.
Roles == (a1 :> {"propose_decomposition_plan", "create_sub_task"}) @@ (a2 :> Tools \ {"propose_decomposition_plan"})
NoRoles == [a \in Agents |-> {}]
Root == <<[NewTask(0, a1, 0, 0, NoTitle, 0) EXCEPT !.status = "in_progress", !.inWorkflow = TRUE]>>
TwoRoots == Root \o <<NewTask(0, NotAnAgent, 0, 0, NoTitle, 0)>>

\* A plan where y waits for x; or one without items, whose author erred twice before.
PlanOf(errors) == [NewPlan(1) EXCEPT !.errors = errors, !.items = (x :> Undecided(a2, {})) @@ (y :> Undecided(a2, {x}))]
NoPlanYet == {<<>>}
EarlierPlans == {<<>>, <<PlanOf(0)>>, <<[NewPlan(1) EXCEPT !.errors = 2]>>}

Waiting == {(x :> Item(a2, {})) @@ (y :> Item(a2, {x})), (x :> Item(a2, {NotAnItem}))}
NoProposals == {}

CallersSymmetric == Permutations(Callers)
=============================================================================
