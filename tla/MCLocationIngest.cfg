SPECIFICATION Spec
CONSTANTS
    p1 = p1  p2 = p2  m1 = m1  m2 = m2
    Procs = {p1, p2}
    Macs = {m1}
    Ids = {1}
    User <- OneUser
    Vips = {}
    Epoch = 4
    Horizon = 5
    MaxSignals = 2
    MaxFailures = 1
    SliceLen = 1
    Cap = 2
    Gap = 1
    Freed = {1}
SYMMETRY ProcSymmetry
INVARIANTS TypeOK LogIdsUnique SlicesRegistered StayNotTwice
