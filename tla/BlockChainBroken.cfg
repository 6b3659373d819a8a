SPECIFICATION Spec
CONSTANTS
    g = g
    p1 = p1
    a1 = a1
    a2 = a2
    b1 = b1
    b2 = b2
    b3 = b3
    c3 = c3
    cp1 = cp1
    ca1 = ca1
    ca2 = ca2
    cb1 = cb1
    cb2 = cb2
    cb3 = cb3
    cc3 = cc3
    t1 = t1
    t1x = t1x
    t2 = t2
    t3 = t3
    oCoin = oCoin
    oT1 = oT1
    oT1x = oT1x
    NoBlock = NoBlock
    NoTx = NoTx
    Genesis = g
    Block <- MCBlock
    pprev <- MCpprev
    nHeight <- MCnHeight
    nChainTrust <- MCnChainTrust
    vtx <- MCvtx
    BadBlock <- MCNone
    Tx <- MCTx
    CoinBase <- MCCoinBase
    CoinStake <- MCNone
    OutPoint <- MCOutPoint
    hash <- MChash
    vin <- MCvin
    nCoinbaseMaturity = 1
    nTotalBlocksEstimate = 0
    MaxCrash = 1
INVARIANT
    BestBlockIsCommitted
CHECK_DEADLOCK FALSE
