\* One task with one queued entry, two sessions, two processes; one poller.
CONSTANTS
    t1 = t1
    Tasks = {t1}
    g1 = g1
    Pollers = {g1}
    EntryTask <- OneEntry
    MaxSessions = 2
    MaxProcs = 2
    MaxCalls = 1
    MaxFaults = 1
SPECIFICATION FairSpec
INVARIANTS AgentTypeOK ReportedOnce NoLostEnd AliveIsReachable
PROPERTIES AskingEnds
CHECK_DEADLOCK FALSE
