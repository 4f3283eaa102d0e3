\* The children of a fork, a join and a parent complete in any order.
CONSTANTS
    t1 = t1  t2 = t2  t3 = t3  t4 = t4  t5 = t5
    a1 = a1  a2 = a2  c1 = c1  c2 = c2
    NotATask = NotATask  NotAnAgent = NotAnAgent
    Tasks = {t1, t2, t3, t4, t5}
    Agents = {a1}
    Callers = {c1, c2}
    NoTask = NotATask
    NoAgent = NotAnAgent
    DependsOn <- DagDependsOn
    Parent <- DagParent
    InWorkflow = {t1, t2, t3, t4, t5}
    Behavior <- AutoDone
    RuleActions <- CloseRules
    MaxLoops = 2
    MaxConcurrency = 2
    EnabledAgents = {a1}
    InitRow <- DagRows
    Kinds = {"complete"}
    SetTargets = {}
    MaxCalls = 3
SPECIFICATION MCFairSpec
INVARIANTS NoLostUnblock ParentCloses
PROPERTIES CallsTerminate
CHECK_DEADLOCK FALSE
