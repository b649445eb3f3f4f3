SPECIFICATION Spec
CONSTANTS
    Producers = {p1, p2}
    Consumers = {c1, c2}
    Size = 2
    Modulus = 16
    StartTickets = {14}
    MaxPush = 3
    NoItem = NoItem
SYMMETRY ThreadSymmetry
INVARIANTS
    TypeOK
    SlotExclusion
    TicketWindow
    NothingLost
    NothingTwice
    SlotContents
    FirstInFirstOut
PROPERTIES
    RefusalsAreHonest
    ImplementsPool
