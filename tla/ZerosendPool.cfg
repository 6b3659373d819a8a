SPECIFICATION FairSpec
CONSTANTS
    c1 = c1
    c2 = c2
    Client <- MCClient
    Denom <- MCDenom
    denom <- MCdenom
    nInputs <- MCnInputs
    GetMaxPoolTransactions = 2
    POOL_MAX_TRANSACTIONS = 3
    ZEROSEND_QUEUE_TIMEOUT = 2
    ZEROSEND_SIGNING_TIMEOUT = 1
    MaxSpent = 1
INVARIANTS
    TypeOK
    
    
    PublishedIsMixed
PROPERTIES
    ChargedForACause
    SessionEnds
