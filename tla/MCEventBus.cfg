\* Two dashboards with queues for two items, five events.
CONSTANTS
    Client = {c1, c2}
    Capacity = 2
    MaxEvents = 5
SPECIFICATION FairSpec
INVARIANTS
    TypeOK
    GapsAreAnnounced
    EventsInOrder
PROPERTY
    ClientsCatchUp
