CONSTANTS
    k1 = k1
    k2 = k2
    k3 = k3
    Keys = {k1, k2}
    JobKeys = {k2}
    Outcomes = {"commit", "release"}
    Procs = {p1, p2, p3}
    Servers = {p1, p2, p3}
    Workers = {p1, p2, p3}
    Sweepers = {}
    None = none
    Limit = 1
    Exempt = FALSE
    LastDay = 2
    Ageing = TRUE
    Place <- InTheirOrder
    MaxCrashes = 1

SPECIFICATION Spec
SYMMETRY Alike
INVARIANT Balanced
INVARIANT WithinLimit
PROPERTY ChargeIsFinal
PROPERTY ImplementsLedger
