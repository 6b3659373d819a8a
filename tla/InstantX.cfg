CHECK_DEADLOCK FALSE
SPECIFICATION FairSpec
CONSTANTS
    tA = tA
    tB = tB
    oS = oS
    n1 = n1
    n2 = n2
    NoTx = NoTx
    NoBlanknode = NoBlanknode
    Tx <- MCTx
    OutPoint <- MCOutPoint
    vin <- MCvin
    Blanknode <- MCBlanknode
    activeBlanknode = n2
    Height <- MCHeight
    TopRanked <- MCTopRanked
    lockHeight <- MClockHeight
    INSTANTX_SIGNATURES_REQUIRED = 2
    Hour = 1
INVARIANTS
    OneVotePerBlanknode
    LockedByConsensus
PROPERTIES
    LocksExpire
