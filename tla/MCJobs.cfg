SPECIFICATION FairSpec
CONSTANTS
    Jobs = {"j1", "j2"}
    Workloads <- AllWorkloads
    Groups <- TwoGroups
    MaxDocument = 2
INVARIANTS
    ResultFromPinnedDocument
    BrowserRestored
    EmulationTruthful
PROPERTIES
    JobsEnd
CHECK_DEADLOCK FALSE
