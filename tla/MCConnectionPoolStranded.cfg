CONSTANTS
    Threads = {t1, t2, t3}
    Conns = {c1, c2, c3}
    MaxSize = 1
    NoConn = NoConn
    MaxRefusals = 1
SPECIFICATION FairSpec
PROPERTY WaiterServed
