SPECIFICATION Spec
CONSTANTS
    Widths = {"ascii", "bmp"}
    MaxElapsed = 2
INVARIANT LimitsAgree
