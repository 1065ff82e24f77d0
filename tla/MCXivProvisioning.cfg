SPECIFICATION Spec
CONSTANTS
    src = src
    a = a
    b = b
    t1 = t1
    t2 = t2
    Threads = {t1, t2}
    Names = {src, a, b}
    Source = src
    SourceBlocks = 3
    Block = 2
    MaxObjects = 4
    MinSize = 4
    MaxSize = 8
    Sizes = {5, 8, 9}
    Tries = 2
    MaxCalls = 3
    MaxFaults = 1
    MaxCrashes = 1
SYMMETRY Symmetry
INVARIANT RaisesDeclared
INVARIANT CopiedWhenOk
INVARIANT AsBigAsAsked
INVARIANT RepeatServed
INVARIANT ArrayAgrees
PROPERTY RemovedOnPurpose
CHECK_DEADLOCK FALSE
