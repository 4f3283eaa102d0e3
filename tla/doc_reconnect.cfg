\* The same instance with the schema as it is, one restart or lost connection, and fair scheduling.
CONSTANTS
    c1 = c1  c2 = c2  c3 = c3  n1 = n1  n2 = n2  u1 = u1  s1 = s1  s2 = s2  p1 = p1  t1 = t1
    NotAConn = NotAConn  NotAProc = NotAProc  NotAToken = NotAToken  NotANode = NotANode
    Nodes = {n1}
    Uis = {u1}
    Sids = {s1}
    UiSids = {}
    Conns = {c1, c2}
    NoConn = NotAConn
    Procs = {p1}
    Tokens = {t1}
    NoProc = NotAProc
    NoToken = NotAToken
    NoNode = NotANode
    TokenNodeColumn = FALSE
    MaxSessions = 1
    MaxCalls = 2
SPECIFICATION FairSpec
PROPERTIES Reconnects
CHECK_DEADLOCK FALSE
