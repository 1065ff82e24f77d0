SPECIFICATION Spec
CONSTANTS
    src = src
    a = a
    b = b
    t1 = t1
    t2 = t2
    Threads = {t1, t2}
    Names = {src, a, b}
    Source = src
    BlockSize = 2
    MinSize = 2
    MaxSize = 8
    Sizes = {2, 3}
    RollbackTries = 2
    Overlap = FALSE
    ReuseNames = FALSE
    MaxCalls = 4
    MaxFaults = 0
    MaxCrashes = 0
    Ops = {"CreateVolume", "CreateSnapshot", "DeleteVolume", "DeleteSnapshot", "Expand"}
SYMMETRY Symmetry
INVARIANT CopiedWhenOk
INVARIANT ArrayAgrees
CHECK_DEADLOCK FALSE
