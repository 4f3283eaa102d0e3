---------------------------- MODULE MCAgentQueue ----------------------------
(* Instances of AgentQueue for TLC. *)
EXTENDS AgentQueue, TLC

CONSTANTS c1, c2, c3, t1, a1, a2, NotATask, NotAnAgent

Row(status, assignee) == [status |-> status, deleted |-> FALSE, assignee |-> assignee,
                          loops |-> 0, pending |-> <<>>, plans |-> {}]

NoDependencies == [t \in Tasks |-> {}]
NoParents == [t \in Tasks |-> NotATask]
NoRules == [t \in Tasks |-> <<>>]
AutoReviewed == [t \in Tasks |-> "auto_review"]
TodoOfAgent == [t \in Tasks |-> Row("todo", a1)]
InProgressOfAgent == [t \in Tasks |-> Row("in_progress", a1)]
=============================================================================
