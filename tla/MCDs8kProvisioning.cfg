SPECIFICATION Spec
CONSTANTS
    src = src
    a = a
    b = b
    t1 = t1
    t2 = t2
    Threads = {t1, t2}
    Names = {src, a, b}
    Source = src
    MaxVolumes = 4
    MinSize = 2
    MaxSize = 4
    Sizes = {2, 4, 5}
    SourceSize = 3
    Tries = 2
    MaxCalls = 3
    MaxFaults = 1
    MaxCrashes = 1
    Ops = {"CreateVolume", "CreateSnapshot", "DeleteVolume", "DeleteSnapshot", "Expand"}
SYMMETRY Symmetry
INVARIANT CopiedWhenOk
INVARIANT ArrayAgrees
PROPERTY RemovedOnPurpose
CHECK_DEADLOCK FALSE
