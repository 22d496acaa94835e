CONSTANTS
    t1 = t1
    t2 = t2
    a1 = a1
    a2 = a2
    a3 = a3
    Tabs = {t1, t2}
    Calls = {a1, a2, a3}
    Child = {a2, a3}
    ConsumerId <- FeatureId
    TabsOf <- SecondTab
    MaxSessions = 1
    MaxConsumers = 2
    MaxDetaches = 1
    None = None
SPECIFICATION FairSpec
CHECK_DEADLOCK FALSE
INVARIANTS
    SessionsMatchLeases
PROPERTIES
    CallsSettle
    UnusedIsDetached
