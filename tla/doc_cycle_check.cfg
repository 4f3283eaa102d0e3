\* One user attaches two tasks to a workflow, with a dependency each.
SPECIFICATION Spec
CONSTANTS
    g1 = g1  g2 = g2  a1 = a1  a2 = a2  x = x  y = y
    NotAnAgent = NotAnAgent  NotATitle = NotATitle  NotAnItem = NotAnItem
    Agents = {a1, a2}  NoAgent = NotAnAgent
    Titles = {x, y}  NoTitle = NotATitle  Unknown = NotAnItem
    Callers = {g1}
    Capabilities <- NoRoles
    Proposals <- NoProposals
    MaxDepth = 2
    InitTasks <- TwoRoots
    InitPlans <- NoPlanYet
    MaxTasks = 2  MaxPlans = 1  MaxCalls = 2  MaxFaults = 0
INVARIANT NoCycle
CHECK_DEADLOCK FALSE
