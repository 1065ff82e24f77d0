SPECIFICATION Spec
CONSTANTS
    t1 = t1
    t2 = t2
    v1 = v1
    v2 = v2
    v3 = v3
    Threads = {t1, t2}
    Volumes = {v1, v2, v3}
    Nodes = {"n1", "n2", "n3"}
    NodeId <- MCNodeId
    Listing <- MCListing
    Defined = {"h1", "h3", "h4"}
    Arrays = {"svc", "xiv", "ds8k"}
    NumLuns <- MCNumLuns
    Ds8kLuns <- MCDs8kLuns
    HostLun <- MCHostLun
    LunTries = 2
    MaxCalls = 3
    MaxTroubles = 1
SYMMETRY Symmetry
INVARIANT LunHolds
INVARIANT MappedAsAnswered
INVARIANT RaisesDeclared
PROPERTY ExhaustedAfterRaces
PROPERTY UnmapsOwn
PROPERTY UnknownNode
CHECK_DEADLOCK FALSE
