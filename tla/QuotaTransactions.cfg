CONSTANTS
    k1 = k1
    k2 = k2
    k3 = k3
    Keys = {k1, k2, k3}
    JobKeys = {k1, k2, k3}
    Outcomes = {"release"}
    Procs = {p1, p2, p3}
    Servers = {p1}
    Workers = {p2}
    Sweepers = {p3}
    None = none
    Limit = 3
    Exempt = FALSE
    LastDay = 1
    Ageing = TRUE
    Place <- InTheirOrder
    MaxCrashes = 0

SPECIFICATION Spec
INVARIANT DeadlockOnlyByKept
