CONSTANTS
    Browsers = {b1, b2}
    Connections = {c1, c2}
    Requests = {}
    Commands = {click}
    Names = {anon, work}
    Blank = blank
    DefaultName = anon
    None = None
    Never = Never
    MaxTime = 1
SPECIFICATION RegistrySpec
INVARIANTS
    SnapshotConsistent
