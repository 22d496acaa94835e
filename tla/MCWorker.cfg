SPECIFICATION FairSpec
CONSTANTS
    Sockets = {"s1", "s2"}
    Callers = {"c1", "c2"}
    ConnectCallers = {"k1", "k2"}
    Workloads <- AllWorkloads
    MaxInbox = 1
INVARIANTS
    NoLeakedTimer
PROPERTIES
    KeepsTrying
    RevocationIsConfirmed
CHECK_DEADLOCK FALSE
