SPECIFICATION Spec
CONSTANTS
    t1 = t1
    t2 = t2
    e1 = e1
    e2 = e2
    Threads <- MCThreads
    Hooks = {1, 2}
    Entries <- MCEntries
    Targets = {f}
    MaxRuntimes = 2
    Host = Host
    Nobody = Nobody
    NoHook = 0
SYMMETRY Symmetry
INVARIANT PopsItsOwnFrame
CHECK_DEADLOCK FALSE
