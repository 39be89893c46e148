CONSTANTS
    r1 = r1
    r2 = r2
    r3 = r3
    f1 = f1
    f2 = f2
    f3 = f3
    k = k
    c1 = c1
    c2 = c2
    None = none
    Requests = {r1, r2, r3}
    Workers = {w}
    Files = {f1, f2, f3}
    Batch <- BatchOf
    Key <- KeyOf
    ContentsOf <- Versions
    MaxUnits = 2
    ReservationsHold = TRUE

SPECIFICATION Spec
CHECK_DEADLOCK FALSE
INVARIANT WithinStorage
INVARIANT NoOrphan
INVARIANT RowKeepsFile
INVARIANT RetrySameFile
INVARIANT IndexedIsSearchable
