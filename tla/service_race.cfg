\* Two goroutines race on one task with every kind of request.
CONSTANTS
    t1 = t1  t2 = t2  t3 = t3  t4 = t4  t5 = t5
    a1 = a1  a2 = a2  c1 = c1  c2 = c2
    NotATask = NotATask  NotAnAgent = NotAnAgent
    Tasks = {t1}
    Agents = {a1}
    Callers = {c1, c2}
    NoTask = NotATask
    NoAgent = NotAnAgent
    DependsOn <- NoDependencies
    Parent <- NoParents
    InWorkflow = {t1}
    Behavior <- Sampled
    RuleActions <- ReopenRules
    MaxLoops = 1
    MaxConcurrency = 1
    EnabledAgents = {a1}
    InitRow <- OneHeld
    Kinds = {"set", "approve", "reject", "complete", "safety", "delete", "restore", "restart"}
    SetTargets = {"todo", "in_progress", "blocked", "done", "review"}
    MaxCalls = 6
SPECIFICATION MCSpec
INVARIANTS TypeOK CompletedNeverStored GuardHeld HeldUntilDone
PROPERTIES ImplementsBoard
CHECK_DEADLOCK FALSE
