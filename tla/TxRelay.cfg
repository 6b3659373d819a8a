SPECIFICATION Spec
CONSTANTS
    g = g
    p1 = p1
    p2 = p2
    p3 = p3
    c1 = c1
    c2 = c2
    c3 = c3
    tp = tp
    tc = tc
    tg = tg
    td = td
    tx = tx
    tb = tb
    oA = oA
    oB = oB
    oP = oP
    oQ = oQ
    oC = oC
    oG = oG
    oD = oD
    NoBlock = NoBlock
    NoTx = NoTx
    Genesis = g
    Block <- MCBlock
    pprev <- MCpprev
    nHeight <- MCnHeight
    nChainTrust <- MCnChainTrust
    vtx <- MCvtx
    BadBlock <- MCNone
    Tx <- MCTx
    CoinBase <- MCCoinBase
    CoinStake <- MCNone
    OutPoint <- MCOutPoint
    hash <- MChash
    vin <- MCvin
    nCoinbaseMaturity = 1
    MAX_ORPHAN_TRANSACTIONS = 2
    BigTx <- MCBigTx
INVARIANTS
    TypeOK
    OrphanTxMapsAgree
PROPERTIES
    RelayedAreNotOrphans
