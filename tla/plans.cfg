\* Plans proposed, extended, approved twice and rejected, with a crash.
SPECIFICATION Spec
CONSTANTS
    g1 = g1  g2 = g2  a1 = a1  a2 = a2  x = x  y = y
    NotAnAgent = NotAnAgent  NotATitle = NotATitle  NotAnItem = NotAnItem
    Agents = {a1, a2}  NoAgent = NotAnAgent
    Titles = {x, y}  NoTitle = NotATitle  Unknown = NotAnItem
    Callers = {g1, g2}
    Capabilities <- Roles
    Proposals <- Waiting
    MaxDepth = 2
    InitTasks <- Root
    InitPlans <- EarlierPlans
    MaxTasks = 5  MaxPlans = 3  MaxCalls = 2  MaxFaults = 1
INVARIANTS PlanTypeOK GraphsApart OneTaskPerItem QueuedIsReady BreakerHolds PendingBounded
PROPERTIES ApprovedIsFinal
SYMMETRY CallersSymmetric
CHECK_DEADLOCK FALSE
