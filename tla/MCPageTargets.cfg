SPECIFICATION Spec
CONSTANTS
    Widths = {"ascii"}
    MaxElapsed = 1
INVARIANT PageTargetsAccepted
