SPECIFICATION Spec
CONSTANTS
    p1 = p1  p2 = p2  m1 = m1  m2 = m2
    Procs = {p1}
    Macs = {m1}
    Ids = {1}
    User <- OneUser
    Vips = {1}
    Epoch = 4
    Horizon = 6
    MaxSignals = 2
    MaxFailures = 0
    SliceLen = 2
    Cap = 2
    Gap = 1
    Freed = {}
PROPERTY ArrivalAfterAbsence
