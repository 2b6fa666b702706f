SPECIFICATION Spec
CONSTANTS
    p1 = p1  p2 = p2  p3 = p3  g1 = g1  g2 = g2  a1 = a1  a2 = a2
    Procs = {p1, p2}
    Groups = {g1, g2}
    Ads = {a1, a2}
    GroupOf <- TwoGroups
    Weight <- TwoGroupsWeights
    Fickle = {a2}
    Ecpms = {0, 1, 2}
    MaxN = 2
    MaxRequests = 2
    MaxLost = 1
    NoAd = NoAd
    NoGroup = NoGroup
SYMMETRY ProcSymmetry
INVARIANTS TypeOK ChargesCovered SlotsRanked
PROPERTIES ShownWasValid KeepsLedger
