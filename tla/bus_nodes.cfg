\* A machine, a node, a user interface and two sessions; two connections at a time.
CONSTANTS
    c1 = c1  c2 = c2  c3 = c3  n1 = n1  n2 = n2  u1 = u1  s1 = s1  s2 = s2  p1 = p1  t1 = t1
    NotAConn = NotAConn  NotAProc = NotAProc  NotAToken = NotAToken  NotANode = NotANode
    Nodes = {n1}
    Uis = {u1}
    Sids = {s1, s2}
    UiSids = {s2}
    Conns = {c1, c2}
    NoConn = NotAConn
    Procs = {p1}
    Tokens = {t1}
    NoProc = NotAProc
    NoToken = NotAToken
    NoNode = NotANode
    TokenNodeColumn = TRUE
    MaxSessions = 1
    MaxCalls = 5
SPECIFICATION Spec
INVARIANTS BusTypeOK NoDeadEndpoint OnlineIsRegistered RunningIsServed
PROPERTIES NeverRunningAgain
CHECK_DEADLOCK FALSE
