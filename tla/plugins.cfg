CONSTANTS
    n1 = n1
    v1 = v1
    v2 = v2
    Names = {n1}
    Versions = {v1}
    MaxCalls = 3
SPECIFICATION FairSpec
INVARIANTS PluginTypeOK LiveIsKnown RunningIsServed
PROPERTIES Settles
CHECK_DEADLOCK FALSE
