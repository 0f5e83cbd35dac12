CONSTANTS
    Caches = {c1, c2}
    Followed = f
    Others = {o}
    Code = code
SPECIFICATION FairSpec
INVARIANT BranchIsOwned
INVARIANT ReachesCode
INVARIANT NotLeftSuspended
PROPERTY OpsEndUnlessStuck
CHECK_DEADLOCK FALSE
