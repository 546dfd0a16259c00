SPECIFICATION Spec
CONSTANTS
    TcpExchanges = {"x1", "x2"}
    QueueCap = 1
    TcpConns = 2
    MaxForce = 1
    SlotExchanges = {"x1", "x2", "x3"}
    Permits = 2
    SlotConns = 3
    PoolNodes = {"n1", "n2"}
    Queries = {"q1", "q2", "q3"}
    MinBudget = 1
    HealthExchanges = {"x1", "x2", "x3"}
    Rtts = {1, 6}
    RttFloor = 4
    RttCap = 12
    Limits = {0, 2, 3}
    RefreshAt = 2
    TimeLimit = 2
    HedgeDelay = 1
    Adaptive = {1, 2, 3, 4, 5}
    Slack = 1
    SlotQueue = 1
    MaxHeld = 2
    Servers = {"s1", "s2", "s3"}
    NoServer = "none"
INVARIANTS
    ConnectionsSound
    CountsExact
    NodesReconsidered
    WaitsBounded
    BestAnswerWins
PROPERTIES
    OnlyOwnTeardown
