SPECIFICATION Spec
CONSTANTS
    m1 = m1  m2 = m2  s1 = s1  s2 = s2
    Shops = {s1}
    Macs = {m1}
    Ghosts <- NoGhosts
    Ids = {1}
    User <- OneUser
    Epoch = 4
    Horizon = 6
    MaxSignals = 3
    MaxRefused = 0
    Cap = 1
    Gap = 1
    HalfHour = 2
    NoShop = NoShop
    NoMac = NoMac
PROPERTY ArrivalAfterHalfHour
