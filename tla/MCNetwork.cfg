SPECIFICATION Spec
CONSTANTS
    Tabs = {"t1", "t2"}
    FirstTab = "t1"
    Requests = {"r1", "r2"}
    Jobs = {1, 2, 3}
    Workloads <- AllWorkloads
    MAX_CAPTURES = 1
    MAX_ENTRIES = 2
    MAX_BUFFER_BYTES = 4
    MAX_ENTRY_BYTES = 3
    MAX_PENDING_EXTRA_EVENTS = 2
    ReadLimit = 1
    RETAINED_TTL = 1
INVARIANTS
    LeaseHasCapture
    CaptureOfDocument
    LogConsistent
    ExtrasPaired
    ResponseBodyIsOfEntry
    ReadsHaveNoHole
CHECK_DEADLOCK FALSE
