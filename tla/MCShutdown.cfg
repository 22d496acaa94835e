CONSTANTS
    Browsers = {b1}
    Connections = {c1, c2}
    Requests = {r1}
    Commands = {click}
    Names = {anon}
    Blank = blank
    DefaultName = anon
    None = None
    Never = Never
    MaxTime = 0
    QueueSize = 1
    TargetOf <- OneBrowserTarget
    CommandOf <- OneCommand
    BrowserOf <- OneBrowserOf
    HelloCaps <- AllCaps
    Inputs = {"flood"}
    MayShutDown = TRUE
SPECIFICATION FairSpec
CHECK_DEADLOCK FALSE
CONSTRAINT ConnectionsOrShutdown
INVARIANTS
    NothingServedAfterShutdown
PROPERTIES
    SendReturns
    ShutdownCompletes
    ReplacementCompletes
