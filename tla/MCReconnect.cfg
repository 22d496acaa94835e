CONSTANTS
    Browsers = {b1}
    Connections = {c1, c2}
    Requests = {r1, r2}
    Commands = {click}
    Names = {anon}
    Blank = blank
    DefaultName = anon
    None = None
    Never = Never
    MaxTime = 0
    QueueSize = 1
    TargetOf <- OneBrowserTarget
    CommandOf <- OneCommand
    BrowserOf <- OneBrowserOf
    HelloCaps <- AllCaps
    Inputs = {"denied", "ping", "capabilities", "revoke", "flood"}
    MayShutDown = FALSE
SPECIFICATION Spec
CHECK_DEADLOCK FALSE
CONSTRAINT ConnectionsOrInputs
INVARIANTS
    NoGhostBrowser
    LiveBrowserIsListed
    NoLeakedPending
    NoBlockedDelivery
PROPERTIES
    AnsweredOnOwnConnection
    FailedByOwnHandler
