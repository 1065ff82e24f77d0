SPECIFICATION FairSpec
CONSTANTS
    Threads = {t1, t2, t3}
    Conns = {c1, c2, c3}
    MaxSize = 2
    NoConn = NoConn
    MaxRefusals = 2
INVARIANT TypeOK
INVARIANT SizeAccounting
INVARIANT ExclusiveUse
INVARIANT NoSessionLeaks
INVARIANT SessionLimit
INVARIANT PutNeverDiscards
PROPERTY LeasesSpec
PROPERTY ServedUnlessRefused
