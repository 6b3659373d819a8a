------------------------------- MODULE MemPool -------------------------------
(***************************************************************************)
(* The memory pool (CTxMemPool, src/txmempool.cpp) and the rules by which  *)
(* AcceptToMemoryPool (src/main.cpp) admits a transaction, as operators on *)
(* a pool value:                                                           *)
(*   pool.mapTx      hashes of the transactions in the pool                *)
(*   pool.mapNextTx  the pool transaction that spends an outpoint, or NoTx *)
(***************************************************************************)
EXTENDS TxIndex

CONSTANT NoTx

ASSUME NoTxAssumption == NoTx \notin Tx

Pool == [mapTx : SUBSET Tx, mapNextTx : [OutPoint -> Tx \cup {NoTx}]]

EmptyPool == [mapTx |-> {}, mapNextTx |-> [o \in OutPoint |-> NoTx]]

addUnchecked(pool, t) ==
    [mapTx     |-> pool.mapTx \cup {t},
     mapNextTx |-> [o \in OutPoint |-> IF o \in vin[t] THEN t ELSE pool.mapNextTx[o]]]

\* Mutant: remove leaves mapNextTx alone.
EraseTxOnly(pool, S) == [pool EXCEPT !.mapTx = @ \ S]

\* Erase the transactions of S that are in the pool, and the inputs they claim.
Erase(pool, S) ==
    [mapTx     |-> pool.mapTx \ S,
     mapNextTx |-> [o \in OutPoint |->
                      IF \E t \in S \cap pool.mapTx : o \in vin[t]
                      THEN NoTx ELSE pool.mapNextTx[o]]]

\* remove(tx) with fRecursive false, its default.
remove(pool, t) == Erase(pool, {t})

\* remove(tx, true): tx and, through mapNextTx, everything that spends its outputs.
Dependents(pool, t) ==
    {d \in pool.mapTx : \A S \in SUBSET pool.mapTx :
        (t \in S /\ \A o \in OutPoint :
                      hash[o] \in S /\ pool.mapNextTx[o] # NoTx
                          => pool.mapNextTx[o] \in S)
           => d \in S}

removeConflicts(pool, t) ==
    LET conflicts == {pool.mapNextTx[o] : o \in vin[t]} \ {NoTx, t}
    IN  Erase(pool, UNION {Dependents(pool, c) : c \in conflicts})

(***************************************************************************)
(* AcceptToMemoryPool up to its policy rules.  Inputs are looked up in the *)
(* committed transaction index only, never in the pool; maturity is judged *)
(* at pindexBest.                                                          *)
(***************************************************************************)
InputsKnown(db, t) == \A o \in vin[t] : db.pos[hash[o]] # NoBlock

AcceptToMemoryPool(pool, db, pindexBest, t) ==
    /\ t \notin CoinBase \cup CoinStake
    /\ t \notin pool.mapTx
    /\ \A o \in vin[t] : pool.mapNextTx[o] = NoTx
    /\ InputsKnown(db, t)
    /\ \A o \in vin[t] : /\ o \notin db.spent
                         /\ Matured(hash[o], db.pos[hash[o]], pindexBest)

-----------------------------------------------------------------------------
\* mapNextTx is exactly the inverse of the inputs of mapTx: every input of a pool
\* transaction is claimed by it, and nothing else is claimed.
NextTxMatches(pool) ==
    \A o \in OutPoint : \A t \in Tx :
        pool.mapNextTx[o] = t <=> (t \in pool.mapTx /\ o \in vin[t])
=============================================================================
