SPECIFICATION Spec
CONSTANTS
    t1 = t1
    t2 = t2
    x1 = x1
    x2 = x2
    sd1 = sd1
    sd2 = sd2
    Threads = {t1, t2}
    Targets = {x1, x2}
    Paths = {sd1, sd2}
    Blocks = {TRUE, FALSE}
    FsTypes = {"", "xfs"}
    Formats = {"", "ext4"}
    Overlaps = {TRUE, FALSE}
    MaxSize = 2
    MaxCalls = 5
    MaxFaults = 1
    MaxRestarts = 1
SYMMETRY Symmetry
INVARIANT MountedStays
INVARIANT UnstagedClean
INVARIANT ExpandedWhenOk
INVARIANT LockProtects
CHECK_DEADLOCK FALSE
