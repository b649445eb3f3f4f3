SPECIFICATION FairSpec
CONSTANTS
    Producers = {p1, p2}
    Consumers = {c1}
    Size = 2
    Modulus = 16
    StartTickets = {14}
    MaxPush = 2
    NoItem = NoItem
PROPERTY CallsReturn
