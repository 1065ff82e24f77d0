SPECIFICATION Spec
CONSTANTS
    src = src
    a = a
    t1 = t1
    Threads = {t1}
    Names = {src, a}
    Source = src
    BlockSize = 2
    MinSize = 2
    MaxSize = 8
    Sizes = {2}
    RollbackTries = 2
    Overlap = FALSE
    ReuseNames = FALSE
    MaxCalls = 4
    MaxFaults = 0
    MaxCrashes = 1
    Ops = {"CreateVolume"}
SYMMETRY Symmetry
INVARIANT CloneFilled
CHECK_DEADLOCK FALSE
