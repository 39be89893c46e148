CONSTANTS
    k1 = k1
    k2 = k2
    k3 = k3
    Keys = {k1, k2}
    JobKeys = {k2}
    Outcomes = {"commit", "release"}
    Procs = {p1, p2}
    Servers = {p1, p2}
    Workers = {p1, p2}
    Sweepers = {p1, p2}
    None = none
    Limit = 2
    Exempt = FALSE
    LastDay = 1
    Ageing = FALSE
    Place <- InTheirOrder
    MaxCrashes = 0

SPECIFICATION Spec
SYMMETRY Alike
PROPERTY ChargeIsFinal
