\* Every kind of request, with lost connections and a second poller.
CONSTANTS
    c1 = c1  c2 = c2  c3 = c3  t1 = t1  a1 = a1  a2 = a2
    NotATask = NotATask  NotAnAgent = NotAnAgent
    Tasks = {t1}
    Agents = {a1, a2}
    Callers = {c1, c2}
    InitPollers = {}
    NoTask = NotATask
    NoAgent = NotAnAgent
    DependsOn <- NoDependencies
    Parent <- NoParents
    InWorkflow = {t1}
    Behavior <- AutoReviewed
    RuleActions <- NoRules
    MaxLoops = 2
    MaxConcurrency = 1
    EnabledAgents = {a1, a2}
    InitRow <- InProgressOfAgent
    Kinds = {"set", "approve", "delete", "restart"}
    NodeKinds = {"assign", "disable", "enable", "disconnect", "stop", "update"}
    SetTargets = {"todo", "in_progress"}
    MaxCalls = 2
SPECIFICATION QueueSpec
INVARIANTS QueueTypeOK
PROPERTIES ImplementsBoard
CHECK_DEADLOCK FALSE
