SPECIFICATION FairSpec
CONSTANTS
    t1 = t1
    t2 = t2
    Threads = {t1, t2}
    Keys = {"k1", "k2", "k3"}
    Kind <- MCKind
    Endpoints <- MCEndpoints
    Passwords <- MCPasswords
    Agents = {1, 2, 3, 4, 5, 6}
    NoAgent = NoAgent
    MaxConnections <- MCMaxConnections
    Workers = 2
    MaxLost = 1
INVARIANT RightAgent
INVARIANT KeyLimit
INVARIANT CheckedSession
PROPERTY AgentAnswered
