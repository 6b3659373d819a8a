SPECIFICATION FairSpec
CONSTANTS
    g = g
    a1 = a1
    a2 = a2
    b1 = b1
    b2 = b2
    b3 = b3
    x = x
    z = z
    s1 = s1
    s2 = s2
    NoStake = NoStake
    Genesis = g
    Block <- MCBlock
    pprev <- MCpprev
    Stake <- MCStake
    stake <- MCstake
    FailsCheck <- MCFailsCheck
    FailsAccept <- MCFailsAccept
    MayNotAttach <- MCMayNotAttach
    MayFailNow <- MCMayFailNow
    NoBlock = NoBlock
    maxorphanblocks = 2
    MaxCrash = 1
INVARIANTS
    TypeOK
    OrphanMapsAgree
    NoOrphanLeftBehind
    StakeSetsDescribeBlocks
PROPERTIES
    PruneKeepsChains
    OrphansResolve
