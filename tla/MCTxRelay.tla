------------------------------ MODULE MCTxRelay ------------------------------
(***************************************************************************)
(* A chain of three blocks after Genesis and loose transactions:           *)
(*                                                                         *)
(*   g -- p1 (coinbase with two outputs) -- p2 (tp) -- p3 (tc)             *)
(*                                                                         *)
(* tp spends an output of p1's coinbase, tc spends tp, tg spends tc, td    *)
(* spends tp and the other coinbase output, tx spends that output alone,   *)
(* tb, too big to be kept as an orphan, spends tg and td.                  *)
(***************************************************************************)
EXTENDS TxRelay

CONSTANTS g, p1, p2, p3, c1, c2, c3, tp, tc, tg, td, tx, tb, oA, oB, oP, oQ, oC, oG, oD

MCBlock == {g, p1, p2, p3}
MCpprev == [b \in MCBlock |->
    CASE b = g -> NoBlock [] b = p1 -> g [] b = p2 -> p1 [] b = p3 -> p2]
MCnHeight == [b \in MCBlock |-> CASE b = g -> 0 [] b = p1 -> 1 [] b = p2 -> 2 [] b = p3 -> 3]
MCnChainTrust == [b \in MCBlock |-> MCnHeight[b] + 1]
MCvtx == [b \in MCBlock |->
    CASE b = g -> << >> [] b = p1 -> <<c1>> [] b = p2 -> <<c2, tp>> [] b = p3 -> <<c3, tc>>]
MCCoinBase == {c1, c2, c3}
MCTx == MCCoinBase \cup {tp, tc, tg, td, tx, tb}
MCOutPoint == {oA, oB, oP, oQ, oC, oG, oD}
MChash == [o \in MCOutPoint |->
    CASE o \in {oA, oB} -> c1
      [] o \in {oP, oQ} -> tp
      [] o = oC -> tc
      [] o = oG -> tg
      [] o = oD -> td]
MCvin == [t \in MCTx |->
    CASE t \in MCCoinBase -> {}
      [] t = tp -> {oA}
      [] t = tc -> {oP}
      [] t = tg -> {oC}
      [] t = td -> {oQ, oB}
      [] t = tx -> {oB}
      [] t = tb -> {oG, oD}]
MCNone == {}
MCBigTx == {tb}
=============================================================================
