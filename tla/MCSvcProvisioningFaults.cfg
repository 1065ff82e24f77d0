SPECIFICATION FairSpec
CONSTANTS
    src = src
    a = a
    t1 = t1
    t2 = t2
    Threads = {t1, t2}
    Names = {src, a}
    Source = src
    BlockSize = 2
    MinSize = 2
    MaxSize = 4
    Sizes = {3}
    RollbackTries = 2
    Overlap = TRUE
    ReuseNames = FALSE
    MaxCalls = 3
    MaxFaults = 2
    MaxCrashes = 1
    Ops = {"CreateVolume", "CreateSnapshot", "DeleteVolume", "DeleteSnapshot", "Expand"}
INVARIANT VolumeGone
PROPERTY RemovedOnPurpose
PROPERTY CallsEnd
CHECK_DEADLOCK FALSE
