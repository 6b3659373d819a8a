----------------------------- MODULE MCBlockChain -----------------------------
(***************************************************************************)
(* A block tree for BlockChain.  p1 funds the transactions; two branches   *)
(* fork after it and overtake each other block by block:                   *)
(*                                                                         *)
(*      g (1) -- p1 (2) --+-- a1 (3) t1 --- a2 (5) t2                      *)
(*                        +-- b1 (4) --- b2 (6) t1x,t3 --+-- b3 (8)        *)
(*                                                       +-- c3 (7) t1     *)
(*                                                                         *)
(* (trust in parentheses).  t1 and t1x spend the same output of p1's       *)
(* coinbase, t2 spends t1, t3 spends t1x; c3 double-spends on its branch.  *)
(***************************************************************************)
EXTENDS BlockChain

CONSTANTS g, p1, a1, a2, b1, b2, b3, c3
CONSTANTS cp1, ca1, ca2, cb1, cb2, cb3, cc3, t1, t1x, t2, t3
CONSTANTS oCoin, oT1, oT1x  \* outputs of cp1, t1 and t1x

MCBlock == {g, p1, a1, a2, b1, b2, b3, c3}

MCpprev == [b \in MCBlock |->
    CASE b = g         -> NoBlock
      [] b = p1        -> g
      [] b \in {a1, b1} -> p1
      [] b = a2        -> a1
      [] b = b2        -> b1
      [] b \in {b3, c3} -> b2]

MCnHeight == [b \in MCBlock |->
    CASE b = g         -> 0
      [] b = p1        -> 1
      [] b \in {a1, b1} -> 2
      [] b \in {a2, b2} -> 3
      [] b \in {b3, c3} -> 4]

MCnChainTrust == [b \in MCBlock |->
    CASE b = g -> 1 [] b = p1 -> 2 [] b = a1 -> 3 [] b = b1 -> 4 [] b = a2 -> 5
      [] b = b2 -> 6 [] b = c3 -> 7 [] b = b3 -> 8]

MCvtx == [b \in MCBlock |->
    CASE b = g  -> << >>
      [] b = p1 -> <<cp1>>
      [] b = a1 -> <<ca1, t1>>
      [] b = a2 -> <<ca2, t2>>
      [] b = b1 -> <<cb1>>
      [] b = b2 -> <<cb2, t1x, t3>>
      [] b = b3 -> <<cb3>>
      [] b = c3 -> <<cc3, t1>>]

MCCoinBase == {cp1, ca1, ca2, cb1, cb2, cb3, cc3}
MCTx == MCCoinBase \cup {t1, t1x, t2, t3}
MCOutPoint == {oCoin, oT1, oT1x}
MChash == [o \in MCOutPoint |-> 
    CASE o = oCoin -> cp1 [] o = oT1 -> t1 [] o = oT1x -> t1x]
MCvin == [t \in MCTx |->
    CASE t \in {t1, t1x} -> {oCoin}
      [] t = t2          -> {oT1}
      [] t = t3          -> {oT1x}
      [] OTHER           -> {}]
MCNone == {}
=============================================================================
