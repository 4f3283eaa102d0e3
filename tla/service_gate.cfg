\* Racing approvals and restarts with a dispatch held back.
CONSTANTS
    t1 = t1  t2 = t2  t3 = t3  t4 = t4  t5 = t5
    a1 = a1  a2 = a2  c1 = c1  c2 = c2
    NotATask = NotATask  NotAnAgent = NotAnAgent
    Tasks = {t1, t2}
    Agents = {a1, a2}
    Callers = {c1, c2}
    NoTask = NotATask
    NoAgent = NotAnAgent
    DependsOn <- NoDependencies
    Parent <- NoParents
    InWorkflow = {}
    Behavior <- Sampled
    RuleActions <- NoRules
    MaxLoops = 2
    MaxConcurrency = 2
    EnabledAgents = {a1, a2}
    InitRow <- GateRows
    Kinds = {"approve", "restart", "delete", "restore"}
    SetTargets = {"todo", "in_progress", "blocked", "done", "review"}
    MaxCalls = 6
SPECIFICATION MCSpec
INVARIANTS ReleasedAtMostOnce
CHECK_DEADLOCK FALSE
