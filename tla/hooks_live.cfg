SPECIFICATION FairSpec
CONSTANTS
    t1 = t1
    t2 = t2
    e1 = e1
    e2 = e2
    Threads <- MCThreads
    Hooks = {1}
    Entries = {e1}
    Targets = {f}
    MaxRuntimes = 1
    Host = Host
    Nobody = Nobody
    NoHook = 0
PROPERTY OpsEnd
PROPERTY CallsEnd
CHECK_DEADLOCK FALSE
