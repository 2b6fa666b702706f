SPECIFICATION Spec
CONSTANTS
    m1 = m1  m2 = m2  s1 = s1  s2 = s2
    Shops = {s1, s2}
    Macs = {m1}
    Ghosts <- OneGhost
    Ids = {1, 2}
    User <- TwoUsers
    Epoch = 4
    Horizon = 6
    MaxSignals = 2
    MaxRefused = 1
    Cap = 1
    Gap = 1
    HalfHour = 2
    NoShop = NoShop
    NoMac = NoMac
SYMMETRY ShopSymmetry
INVARIANTS TypeOK StayNotTwice TotalsOrdered VisitKnown
