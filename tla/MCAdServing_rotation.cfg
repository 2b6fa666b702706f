SPECIFICATION Spec
CONSTANTS
    p1 = p1  p2 = p2  p3 = p3  g1 = g1  g2 = g2  a1 = a1  a2 = a2
    Procs = {p1, p2, p3}
    Groups = {g1}
    Ads = {a1, a2}
    GroupOf <- OneGroup
    Weight <- OneGroupWeights
    Fickle = {}
    Ecpms = {1}
    MaxN = 1
    MaxRequests = 3
    MaxLost = 1
    NoAd = NoAd
    NoGroup = NoGroup
SYMMETRY ProcSymmetry
INVARIANTS RotationFair
