\* Three purchases, two of which may be equal, and two writers.
CONSTANTS
    session = session
    zombie = zombie
    coffee = coffee
    lunch = lunch
    Nobody = Nobody
    Worker <- MCWorker
    Day <- MCDay
    Text <- MCText
    Frag <- MCFrag
    Kind <- MCPurchases
    NewestFirst = TRUE
    MaxTxns = 3
SPECIFICATION Spec
INVARIANTS
    TypeOK
    NothingTwice
PROPERTIES
    ImportIsComplete
    PostedStays
