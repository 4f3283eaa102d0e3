\* A poller of the node, processes that end, and reviews, in any order.
CONSTANTS
    c1 = c1  c2 = c2  c3 = c3  t1 = t1  a1 = a1  a2 = a2
    NotATask = NotATask  NotAnAgent = NotAnAgent
    Tasks = {t1}
    Agents = {a1}
    Callers = {c1, c2}
    InitPollers = {c1}
    NoTask = NotATask
    NoAgent = NotAnAgent
    DependsOn <- NoDependencies
    Parent <- NoParents
    InWorkflow = {t1}
    Behavior <- AutoReviewed
    RuleActions <- NoRules
    MaxLoops = 2
    MaxConcurrency = 2
    EnabledAgents = {a1}
    InitRow <- TodoOfAgent
    Kinds = {"set", "approve", "reject"}
    NodeKinds = {"disable", "enable"}
    SetTargets = {"in_progress"}
    MaxCalls = 3
SPECIFICATION QueueFairSpec
INVARIANTS OneOpenSession ClaimedIsWorkedOn OpenIsAlive
PROPERTIES QueueDrains
CHECK_DEADLOCK FALSE
