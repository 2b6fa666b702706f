SPECIFICATION FairSpec
CONSTANTS
    m1 = m1  m2 = m2  t1 = t1  t2 = t2  t3 = t3  p1 = p1  p2 = p2
    Macs = {m1, m2}
    NoMac = NoMac
    Ids = {1, 2}
    Threads = {t1, t2}
    Procs = {p1, p2}
    ProcOf <- WorkersProcOf
    Warm = {p2}
    MaxTries = 2
INVARIANTS CacheSound AnswersAgree
PROPERTIES EveryCallReturns ImplementsRegistry
