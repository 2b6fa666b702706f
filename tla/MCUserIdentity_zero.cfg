SPECIFICATION Spec
CONSTANTS
    m1 = m1  m2 = m2  t1 = t1  t2 = t2  t3 = t3  p1 = p1  p2 = p2
    Macs = {m1}
    NoMac = NoMac
    Ids = {1}
    Threads = {t1}
    Procs = {p1}
    ProcOf <- OneWorkerProcOf
    Warm = {}
    MaxTries = 3
PROPERTIES ZeroMeansNotExist
