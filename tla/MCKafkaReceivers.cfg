SPECIFICATION FairSpec
CONSTANTS
    m1 = m1  m2 = m2  a = a  b = b  l = l
    Macs = {m1, m2}
    Ids = {1, 2, 3}
    User <- TwoUsers
    Ghosts = {3}
    Phones = {a, b}
    NoPhone = NoPhone
    Tags = {l}
    MaxMessages = 3
    MaxStarts = 2
INVARIANTS TypeOK PhonesFollowTopic SignalsOnce
PROPERTIES CatchesUp
