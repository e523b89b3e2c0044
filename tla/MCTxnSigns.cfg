\* A purchase and its refund, in a file that begins with the newest.
CONSTANTS
    session = session
    zombie = zombie
    coffee = coffee
    lunch = lunch
    Nobody = Nobody
    Worker <- MCWorker
    Day <- MCDay
    Text <- MCText
    Frag <- MCFrag
    Kind <- MCRefunds
    NewestFirst = TRUE
    MaxTxns = 2
SPECIFICATION Spec
PROPERTY
    SignsDoNotCollide
