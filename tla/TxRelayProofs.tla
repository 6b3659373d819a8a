---------------------------- MODULE TxRelayProofs ----------------------------
(***************************************************************************)
(* Proofs about TxRelay, for every block tree, every set of transactions   *)
(* and every limit on the orphans.                                         *)
(***************************************************************************)
EXTENDS TxRelay, FiniteSetTheorems, TLAPS

\* What the variables hold; the limit on the orphans is kept inside a call too, because
\* the loop of the handler only removes orphans.
RelayTypes ==
    /\ db \in Database
    /\ pindexBest \in Block
    /\ mempool \in Pool
    /\ mapOrphanTransactionsByPrev \in [Tx -> SUBSET Tx]
    /\ pc \in {"idle", "loop", "erase"}
    /\ vWorkQueue \in Seq(Tx)
    /\ nNext \in 1..(Len(vWorkQueue) + 1)
    /\ tried \in SUBSET Tx
    /\ vEraseQueue \in SUBSET Tx

OrphansBounded ==
    /\ mapOrphanTransactions \in SUBSET Tx
    /\ IsFiniteSet(mapOrphanTransactions)
    /\ Cardinality(mapOrphanTransactions) <= MAX_ORPHAN_TRANSACTIONS

\* What the work queue stands for: its transactions were accepted by this call and will
\* leave the orphans when it ends; between calls nothing is queued.
QueueInv ==
    /\ \A i \in DOMAIN vWorkQueue : /\ vWorkQueue[i] \in mempool.mapTx
                                    /\ vWorkQueue[i] \in vEraseQueue
    /\ pc = "idle" => Idle

\* OrphanTxMapsAgree, of any two maps.
Agree(orphans, byPrev) == \A p \in Tx : byPrev[p] = {t \in orphans : p \in PrevTxs(t)}

RelayInv == RelayTypes /\ OrphansBounded /\ OrphanTxMapsAgree /\ QueueInv

-----------------------------------------------------------------------------
\* The pool stays a pool.
LEMMA RelayPoolType ==
    /\ \A pool \in Pool : \A t \in Tx : addUnchecked(pool, t) \in Pool
    /\ \A pool \in Pool : \A b \in Block : Erase(pool, TxsOf(b)) \in Pool
BY DEF Pool, addUnchecked, Erase

\* EraseOrphanTx for a set of orphans: both maps lose them, and still agree.
LEMMA WithoutAgrees ==
    ASSUME NEW orphans \in SUBSET Tx, NEW byPrev \in [Tx -> SUBSET Tx], NEW S \in SUBSET Tx,
           Agree(orphans, byPrev)
    PROVE  /\ Without(orphans, byPrev, S).orphans = orphans \ S
           /\ Without(orphans, byPrev, S).byPrev \in [Tx -> SUBSET Tx]
           /\ Agree(orphans \ S, Without(orphans, byPrev, S).byPrev)
BY DEF Without, Agree

-----------------------------------------------------------------------------
LEMMA RelayInit == Init => RelayInv
<1> SUFFICES ASSUME Init PROVE RelayInv
  OBVIOUS
<1> USE DEF Init, Idle
<1>1. db \in Database
  BY TreeAssumption DEF InitDatabase, Database
<1>2. mempool \in Pool
  BY DEF EmptyPool, Pool
<1>3. RelayTypes
  BY <1>1, <1>2, TreeAssumption DEF RelayTypes
<1>4. OrphansBounded
  BY FS_EmptySet, RelayAssumption DEF OrphansBounded
<1> QED
  BY <1>3, <1>4 DEF RelayInv, OrphanTxMapsAgree, QueueInv

\* The actions that leave the orphans alone.
LEMMA OrphansUnchanged ==
    ASSUME OrphansBounded, OrphanTxMapsAgree, UNCHANGED orphanVars
    PROVE  OrphansBounded' /\ OrphanTxMapsAgree'
BY DEF OrphansBounded, OrphanTxMapsAgree, orphanVars, PrevTxs

LEMMA ReceiveAcceptedKeeps ==
    ASSUME RelayInv, NEW t \in Tx, ReceiveAccepted(t)
    PROVE  RelayInv'
<1> USE DEF RelayInv, ReceiveAccepted
<1>1. OrphansBounded' /\ OrphanTxMapsAgree'
  BY OrphansUnchanged
<1>2. mempool' \in Pool /\ t \in mempool'.mapTx
  <2>1. mempool' \in Pool
    BY RelayPoolType DEF RelayTypes
  <2>2. t \in mempool'.mapTx
    BY DEF addUnchecked
  <2> QED
    BY <2>1, <2>2
<1>3. /\ vWorkQueue' \in Seq(Tx) /\ Len(vWorkQueue') = 1 /\ nNext' = 1
      /\ \A i \in DOMAIN vWorkQueue' : vWorkQueue'[i] = t
  <2>1. vWorkQueue' = <<t>> /\ nNext' = 1
    BY DEF QueueInv, Idle
  <2> QED
    BY <2>1
<1>4. RelayTypes'
  BY <1>2, <1>3 DEF RelayTypes, orphanVars
<1>5. QueueInv'
  BY <1>2, <1>3 DEF QueueInv
<1> QED
  BY <1>1, <1>4, <1>5

LEMMA ReceiveOrphanKeeps ==
    ASSUME RelayInv, NEW t \in Tx, ReceiveOrphan(t)
    PROVE  RelayInv'
<1> DEFINE new     == {t} \ (mapOrphanTransactions \cup BigTx)
           orphans == mapOrphanTransactions \cup new
           byPrev  == [p \in Tx |-> mapOrphanTransactionsByPrev[p]
                                       \cup {n \in new : p \in PrevTxs(n)}]
<1>1. PICK S \in Evicted(orphans) :
         /\ mapOrphanTransactions' = Without(orphans, byPrev, S).orphans
         /\ mapOrphanTransactionsByPrev' = Without(orphans, byPrev, S).byPrev
  BY DEF ReceiveOrphan
<1>2. orphans \in SUBSET Tx /\ byPrev \in [Tx -> SUBSET Tx] /\ S \in SUBSET orphans
  BY DEF RelayInv, RelayTypes, OrphansBounded, Evicted
<1>3. Agree(orphans, byPrev)
  BY DEF RelayInv, OrphanTxMapsAgree, Agree
<1>4. /\ mapOrphanTransactions' = orphans \ S
      /\ mapOrphanTransactionsByPrev' \in [Tx -> SUBSET Tx]
      /\ Agree(mapOrphanTransactions', mapOrphanTransactionsByPrev')
  <2> HIDE DEF orphans, byPrev
  <2>1. S \in SUBSET Tx
    BY <1>2
  <2>2. /\ Without(orphans, byPrev, S).orphans = orphans \ S
        /\ Without(orphans, byPrev, S).byPrev \in [Tx -> SUBSET Tx]
        /\ Agree(orphans \ S, Without(orphans, byPrev, S).byPrev)
    BY <1>2, <1>3, <2>1, WithoutAgrees, Zenon
  <2> QED
    BY <1>1, <2>2, Zenon
<1>5. IsFiniteSet(orphans \ S)
  <2>1. IsFiniteSet(orphans)
    <3>1. IsFiniteSet({t})
      BY FS_Singleton
    <3>2. IsFiniteSet(mapOrphanTransactions \cup {t})
      BY <3>1, FS_Union DEF RelayInv, OrphansBounded
    <3> QED
      BY <3>2, FS_Subset
  <2> QED
    BY <2>1, FS_Difference
<1>6. Cardinality(orphans \ S) <= MAX_ORPHAN_TRANSACTIONS
  <2>1. IF Cardinality(orphans) <= MAX_ORPHAN_TRANSACTIONS THEN S = {}
        ELSE Cardinality(orphans \ S) = MAX_ORPHAN_TRANSACTIONS
    BY DEF Evicted
  <2>2. S = {} => orphans \ S = orphans
    OBVIOUS
  <2> HIDE DEF orphans
  <2> QED
    BY <2>1, <2>2, RelayAssumption
<1>7. OrphansBounded'
  BY <1>2, <1>4, <1>5, <1>6 DEF OrphansBounded
<1>8. OrphanTxMapsAgree'
  BY <1>4 DEF OrphanTxMapsAgree, PrevTxs, Agree
<1>9. RelayTypes'
  BY <1>4 DEF RelayInv, RelayTypes, ReceiveOrphan, callVars
<1>10. QueueInv'
  BY DEF RelayInv, QueueInv, ReceiveOrphan, callVars, Idle
<1> QED
  BY <1>7, <1>8, <1>9, <1>10 DEF RelayInv

LEMMA TryOrphanKeeps ==
    ASSUME RelayInv, NEW t \in Tx, TryOrphan(t)
    PROVE  RelayInv'
<1>1. OrphansBounded' /\ OrphanTxMapsAgree'
  BY OrphansUnchanged DEF RelayInv, TryOrphan
<1>2. PICK accepted \in BOOLEAN :
         /\ mempool' = IF accepted THEN addUnchecked(mempool, t) ELSE mempool
         /\ vWorkQueue' = IF accepted THEN Append(vWorkQueue, t) ELSE vWorkQueue
         /\ vEraseQueue' = IF accepted \/ ~MissingInputs(t) THEN vEraseQueue \cup {t}
                           ELSE vEraseQueue
  BY DEF TryOrphan
<1>3. UNCHANGED <<db, pindexBest, mapOrphanTransactionsByPrev, pc, nNext>>
      /\ tried' = tried \cup {t} /\ pc = "loop"
  BY DEF TryOrphan, orphanVars
<1>4. /\ mempool' \in Pool
      /\ mempool.mapTx \subseteq mempool'.mapTx
      /\ accepted => t \in mempool'.mapTx
  BY <1>2, RelayPoolType DEF RelayInv, RelayTypes, addUnchecked, Pool
<1>5. /\ vEraseQueue' \in SUBSET Tx
      /\ vEraseQueue \subseteq vEraseQueue'
      /\ accepted => t \in vEraseQueue'
  BY <1>2 DEF RelayInv, RelayTypes
<1>6. CASE accepted
  <2>1. /\ vWorkQueue' \in Seq(Tx)
        /\ Len(vWorkQueue') = Len(vWorkQueue) + 1
        /\ \A i \in DOMAIN vWorkQueue' : \/ vWorkQueue'[i] = t
                                         \/ i \in DOMAIN vWorkQueue /\ vWorkQueue'[i] = vWorkQueue[i]
    BY <1>2, <1>6 DEF RelayInv, RelayTypes
  <2>2. RelayTypes'
    BY <1>3, <1>4, <1>5, <2>1 DEF RelayInv, RelayTypes
  <2>3. QueueInv'
    BY <1>3, <1>4, <1>5, <1>6, <2>1 DEF RelayInv, QueueInv
  <2> QED
    BY <1>1, <2>2, <2>3 DEF RelayInv
<1>7. CASE ~accepted
  <2>1. vWorkQueue' = vWorkQueue
    BY <1>2, <1>7
  <2>2. RelayTypes'
    BY <1>3, <1>4, <1>5, <2>1 DEF RelayInv, RelayTypes
  <2>3. QueueInv'
    BY <1>3, <1>4, <1>5, <2>1 DEF RelayInv, QueueInv
  <2> QED
    BY <1>1, <2>2, <2>3 DEF RelayInv
<1> QED
  BY <1>6, <1>7

LEMMA NextInQueueKeeps ==
    ASSUME RelayInv, NextInQueue
    PROVE  RelayInv'
<1> USE DEF RelayInv, NextInQueue
<1>1. OrphansBounded' /\ OrphanTxMapsAgree'
  BY OrphansUnchanged
<1>2. RelayTypes'
  BY DEF RelayTypes, orphanVars
<1>3. QueueInv'
  BY DEF QueueInv
<1> QED
  BY <1>1, <1>2, <1>3

\* The orphans that the call queued leave both maps.
LEMMA EraseOrphansKeeps ==
    ASSUME RelayInv, EraseOrphans
    PROVE  /\ RelayInv'
           /\ mapOrphanTransactions' = mapOrphanTransactions \ vEraseQueue
<1>1. /\ mapOrphanTransactions' = mapOrphanTransactions \ vEraseQueue
      /\ mapOrphanTransactionsByPrev' \in [Tx -> SUBSET Tx]
      /\ Agree(mapOrphanTransactions', mapOrphanTransactionsByPrev')
  <2>1. /\ mapOrphanTransactions \in SUBSET Tx
        /\ mapOrphanTransactionsByPrev \in [Tx -> SUBSET Tx]
        /\ vEraseQueue \in SUBSET Tx
        /\ Agree(mapOrphanTransactions, mapOrphanTransactionsByPrev)
    BY DEF RelayInv, RelayTypes, OrphansBounded, OrphanTxMapsAgree, Agree
  <2>2. /\ mapOrphanTransactions'
              = Without(mapOrphanTransactions, mapOrphanTransactionsByPrev, vEraseQueue).orphans
        /\ mapOrphanTransactionsByPrev'
              = Without(mapOrphanTransactions, mapOrphanTransactionsByPrev, vEraseQueue).byPrev
    BY DEF EraseOrphans
  <2> DEFINE kept == Without(mapOrphanTransactions, mapOrphanTransactionsByPrev, vEraseQueue)
  <2>3. /\ kept.orphans = mapOrphanTransactions \ vEraseQueue
        /\ kept.byPrev \in [Tx -> SUBSET Tx]
        /\ Agree(mapOrphanTransactions \ vEraseQueue, kept.byPrev)
    BY <2>1, WithoutAgrees, Zenon
  <2> QED
    BY <2>2, <2>3, Zenon
<1>2. /\ IsFiniteSet(mapOrphanTransactions')
      /\ Cardinality(mapOrphanTransactions') <= Cardinality(mapOrphanTransactions)
      /\ Cardinality(mapOrphanTransactions') \in Nat
      /\ Cardinality(mapOrphanTransactions) \in Nat
  <2>1. mapOrphanTransactions' \subseteq mapOrphanTransactions
    BY <1>1
  <2> QED
    BY <2>1, FS_Subset, FS_CardinalityType DEF RelayInv, OrphansBounded
<1>3. OrphansBounded'
  BY <1>1, <1>2, RelayAssumption DEF RelayInv, OrphansBounded
<1>4. OrphanTxMapsAgree'
  BY <1>1 DEF OrphanTxMapsAgree, PrevTxs, Agree
<1>5. RelayTypes'
  BY <1>1 DEF RelayInv, RelayTypes, EraseOrphans
<1>6. QueueInv'
  BY DEF QueueInv, EraseOrphans, Idle
<1> QED
  BY <1>1, <1>3, <1>4, <1>5, <1>6 DEF RelayInv

LEMMA AttachBlockKeeps ==
    ASSUME RelayInv, NEW b \in Block, AttachBlock(b)
    PROVE  RelayInv'
<1> DEFINE f == [x \in Block |-> NoBlock]
           new == ConnectBlock(db, b, f)
<1>1. OrphansBounded' /\ OrphanTxMapsAgree'
  BY OrphansUnchanged DEF RelayInv, AttachBlock
<1>2. b # Genesis
  BY TreeAssumption DEF RelayInv, RelayTypes, AttachBlock
<1>3. new \in Database
  <2>1. f \in [Block -> Block \cup {NoBlock}]
    OBVIOUS
  <2>2. db \in Database
    BY DEF RelayInv, RelayTypes
  <2> HIDE DEF f
  <2>3. f[b] \in Block \cup {NoBlock}
    BY <2>1
  <2>4. pprev[b] \in Block
    BY <1>2, TreeAssumption
  <2>5. SpentBy(b) \subseteq OutPoint
    <3>1. vtx[b] \in Seq(Tx) /\ \A t \in Tx : vin[t] \subseteq OutPoint
      BY TxAssumption
    <3>2. \A i \in DOMAIN vtx[b] : vtx[b][i] \in Tx
      BY <3>1
    <3> QED
      BY <3>1, <3>2 DEF TxsOf, SpentBy
  <2> QED
    BY <2>2, <2>3, <2>4, <2>5 DEF ConnectBlock, Database
<1>4. db' \in Database
  <2>1. db' = [new EXCEPT !.best = b]
    BY DEF AttachBlock
  <2> HIDE DEF new
  <2> QED
    BY <1>3, <2>1 DEF Database
<1>5. mempool' \in Pool
  BY RelayPoolType DEF RelayInv, RelayTypes, AttachBlock
<1>6. RelayTypes'
  BY <1>4, <1>5 DEF RelayInv, RelayTypes, AttachBlock, orphanVars, callVars
<1>7. QueueInv'
  BY DEF RelayInv, QueueInv, AttachBlock, callVars, Idle
<1> QED
  BY <1>1, <1>6, <1>7 DEF RelayInv

\* Every step keeps the invariant.
LEMMA RelayStep == RelayInv /\ [Next]_vars => RelayInv'
<1> SUFFICES ASSUME RelayInv, [Next]_vars PROVE RelayInv'
  OBVIOUS
<1>1. CASE UNCHANGED vars
  BY <1>1 DEF vars, orphanVars, callVars, RelayInv, RelayTypes, OrphansBounded,
              OrphanTxMapsAgree, QueueInv, Idle, PrevTxs
<1>2. CASE Next
  BY <1>2, ReceiveAcceptedKeeps, ReceiveOrphanKeeps, TryOrphanKeeps, NextInQueueKeeps,
     EraseOrphansKeeps, AttachBlockKeeps DEF Next, Handler
<1> QED
  BY <1>1, <1>2

\* The inductive invariant holds in every reachable state.
THEOREM RelayInvariant == Spec => []RelayInv
BY RelayInit, RelayStep, PTL DEF Spec

\* The types hold, and at most MAX_ORPHAN_TRANSACTIONS orphans are kept between calls of the
\* "tx" handler, whatever LimitOrphanTxSize picks for eviction.
THEOREM TypeCorrect == Spec => []TypeOK
<1>1. RelayInv => TypeOK
  BY DEF RelayInv, RelayTypes, OrphansBounded, TypeOK
<1> QED
  BY <1>1, RelayInvariant, PTL

\* The two orphan maps agree in every state, inside the handler's loop too: AddOrphanTx,
\* EraseOrphanTx and LimitOrphanTxSize keep an orphan under exactly the transactions it
\* spends.
THEOREM MapsAgree == Spec => []OrphanTxMapsAgree
BY RelayInvariant, PTL DEF RelayInv

\* What the handler relays is in the pool and no orphan any more when it returns.
THEOREM RelayedLeaveOrphans == Spec => RelayedAreNotOrphans
<1>1. ASSUME RelayInv, [Next]_vars
      PROVE  [pc = "erase" => \A i \in DOMAIN vWorkQueue :
                /\ vWorkQueue[i] \in mempool.mapTx
                /\ vWorkQueue[i] \notin mapOrphanTransactions']_vars
  <2>1. SUFFICES ASSUME Next, pc = "erase"
                 PROVE  \A i \in DOMAIN vWorkQueue :
                           /\ vWorkQueue[i] \in mempool.mapTx
                           /\ vWorkQueue[i] \notin mapOrphanTransactions'
    BY <1>1
  <2>2. EraseOrphans
    BY <2>1 DEF Next, Handler, ReceiveAccepted, ReceiveOrphan, TryOrphan, NextInQueue, AttachBlock
  <2> QED
    BY <1>1, <2>2, EraseOrphansKeeps DEF RelayInv, QueueInv
<1> QED
  BY <1>1, RelayInvariant, PTL DEF Spec, RelayedAreNotOrphans
=============================================================================
