--------------------------- MODULE MCCDPSessions ----------------------------
(* Instances of CDPSessions for TLC. *)
EXTENDS CDPSessions

CONSTANTS t1, t2, a1, a2, a3

\* a1 and a2 come from one feature and use its consumer id.
FeatureId == [c \in Calls |-> IF c = a2 THEN a1 ELSE c]

\* All compete for t1; a3 may be for the other tab.
SecondTab == [c \in Calls |-> IF c = a3 THEN Tabs ELSE {t1}]

=============================================================================
