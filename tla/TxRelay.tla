------------------------------- MODULE TxRelay -------------------------------
(***************************************************************************)
(* Loose transactions from peers: the "tx" message of ProcessMessage,      *)
(* AddOrphanTx, EraseOrphanTx and LimitOrphanTxSize of src/main.cpp, with  *)
(* the pool of MemPool and the transaction index of TxIndex.               *)
(*                                                                         *)
(* The best chain only grows here (SetBestChain's first branch); what a    *)
(* reorganization does to the pool is in BlockChain.  The handler runs     *)
(* under cs_main; its loop is one step per orphan it tries.                *)
(***************************************************************************)
EXTENDS MemPool, FiniteSets

CONSTANTS
    MAX_ORPHAN_TRANSACTIONS,
    BigTx                   \* transactions over the size AddOrphanTx stores

ASSUME RelayAssumption ==
    /\ MAX_ORPHAN_TRANSACTIONS \in Nat
    /\ BigTx \subseteq Tx

VARIABLES
    db,                             \* the committed transaction index
    pindexBest,
    mempool,
    mapOrphanTransactions,          \* hashes of the orphans
    mapOrphanTransactionsByPrev,    \* orphans by the transactions they spend
    pc,                             \* "idle", "loop" or "erase"
    vWorkQueue,                     \* the transactions accepted in this call, in order
    nNext,                          \* index of the one whose orphans are tried now
    tried,                          \* those of its orphans already tried
    vEraseQueue

orphanVars == <<mapOrphanTransactions, mapOrphanTransactionsByPrev>>
callVars   == <<pc, vWorkQueue, nNext, tried, vEraseQueue>>
vars == <<db, pindexBest, mempool, orphanVars, callVars>>

InitDatabase ==
    [index    |-> {Genesis},
     hashNext |-> [b \in Block |-> NoBlock],
     best     |-> Genesis,
     pos      |-> [t \in Tx |-> NoBlock],
     spent    |-> {}]

Idle ==
    /\ pc = "idle"
    /\ vWorkQueue = << >>
    /\ nNext = 1
    /\ tried = {}
    /\ vEraseQueue = {}

Init ==
    /\ db = InitDatabase
    /\ pindexBest = Genesis
    /\ mempool = EmptyPool
    /\ mapOrphanTransactions = {}
    /\ mapOrphanTransactionsByPrev = [t \in Tx |-> {}]
    /\ Idle

\* Types; and between calls at most MAX_ORPHAN_TRANSACTIONS orphans are kept
\* (LimitOrphanTxSize runs after every AddOrphanTx).
TypeOK ==
    /\ db \in Database
    /\ pindexBest \in Block
    /\ mempool \in Pool
    /\ mapOrphanTransactions \in SUBSET Tx
    /\ pc = "idle" => Cardinality(mapOrphanTransactions) <= MAX_ORPHAN_TRANSACTIONS
    /\ mapOrphanTransactionsByPrev \in [Tx -> SUBSET Tx]
    /\ pc \in {"idle", "loop", "erase"}
    /\ vWorkQueue \in Seq(Tx)
    /\ nNext \in 1..(Len(vWorkQueue) + 1)
    /\ tried \in SUBSET Tx
    /\ vEraseQueue \in SUBSET Tx

PrevTxs(t) == {hash[o] : o \in vin[t]}

(***************************************************************************)
(* AcceptToMemoryPool's result: it accepts, or it refuses for good, or it  *)
(* reports missing inputs (after the checks against the pool).             *)
(***************************************************************************)
Accepts(t) == AcceptToMemoryPool(mempool, db, pindexBest, t)

MissingInputs(t) ==
    /\ t \notin CoinBase \cup CoinStake
    /\ t \notin mempool.mapTx
    /\ \A o \in vin[t] : mempool.mapNextTx[o] = NoTx
    /\ ~InputsKnown(db, t)

\* Mutant: EraseOrphanTx forgets the other map.
WithoutOneMap(orphans, byPrev, S) == [orphans |-> orphans \ S, byPrev |-> byPrev]

\* EraseOrphanTx for every member of S.
Without(orphans, byPrev, S) ==
    [orphans |-> orphans \ S,
     byPrev  |-> [p \in Tx |-> byPrev[p] \ {t \in S \cap orphans : p \in PrevTxs(t)}]]

\* Mutant: one eviction too few.
EvictedTooFew(orphans) ==
    {S \in SUBSET orphans :
        IF Cardinality(orphans) <= MAX_ORPHAN_TRANSACTIONS + 1 THEN S = {}
        ELSE Cardinality(orphans \ S) = MAX_ORPHAN_TRANSACTIONS + 1}

\* LimitOrphanTxSize evicts random orphans until the limit is kept: the sets it can evict.
Evicted(orphans) ==
    {S \in SUBSET orphans :
        IF Cardinality(orphans) <= MAX_ORPHAN_TRANSACTIONS THEN S = {}
        ELSE Cardinality(orphans \ S) = MAX_ORPHAN_TRANSACTIONS}

-----------------------------------------------------------------------------
\* Mutant: the transaction itself is not queued for EraseOrphanTx.
ReceiveAcceptedNotErased(t) ==
    /\ pc = "idle"
    /\ Accepts(t)
    /\ mempool' = addUnchecked(mempool, t)
    /\ pc' = "loop"
    /\ vWorkQueue' = <<t>>
    /\ UNCHANGED <<db, pindexBest, orphanVars, nNext, tried, vEraseQueue>>

\* The transaction is accepted, relayed and queued, and the orphans that wait for it follow.
ReceiveAccepted(t) ==
    /\ pc = "idle"
    /\ Accepts(t)
    /\ mempool' = addUnchecked(mempool, t)
    /\ pc' = "loop"
    /\ vWorkQueue' = <<t>>
    /\ vEraseQueue' = {t}
    /\ UNCHANGED <<db, pindexBest, orphanVars, nNext, tried>>

\* AddOrphanTx (which ignores big transactions and ones it has), then LimitOrphanTxSize.
ReceiveOrphan(t) ==
    /\ pc = "idle"
    /\ MissingInputs(t)
    /\ LET new     == {t} \ (mapOrphanTransactions \cup BigTx)
           orphans == mapOrphanTransactions \cup new
           byPrev  == [p \in Tx |-> mapOrphanTransactionsByPrev[p]
                                       \cup {n \in new : p \in PrevTxs(n)}]
       IN  \E S \in Evicted(orphans) :
              LET kept == Without(orphans, byPrev, S)
              IN  /\ mapOrphanTransactions' = kept.orphans
                  /\ mapOrphanTransactionsByPrev' = kept.byPrev
    /\ UNCHANGED <<db, pindexBest, mempool, callVars>>

\* Orphans waiting for the transaction at the front of the queue, still to be tried.
Waiting == mapOrphanTransactionsByPrev[vWorkQueue[nNext]] \ tried

(***************************************************************************)
(* One orphan: it is accepted and queued, or it is refused for good and    *)
(* will be erased, or it stays.  A policy rule (fee, standardness) may     *)
(* refuse an orphan the consensus rules would take.  (Since the orphan     *)
(* spends a transaction that is in the pool and not in the index, Accepts  *)
(* is in fact never true here.)                                            *)
(***************************************************************************)
TryOrphan(t) ==
    /\ pc = "loop"
    /\ nNext <= Len(vWorkQueue)
    /\ t \in Waiting
    /\ \E accepted \in BOOLEAN :
          /\ accepted => Accepts(t)
          /\ mempool' = IF accepted THEN addUnchecked(mempool, t) ELSE mempool
          /\ vWorkQueue' = IF accepted THEN Append(vWorkQueue, t) ELSE vWorkQueue
          /\ vEraseQueue' = IF accepted \/ ~MissingInputs(t) THEN vEraseQueue \cup {t}
                            ELSE vEraseQueue
    /\ tried' = tried \cup {t}
    /\ UNCHANGED <<db, pindexBest, orphanVars, pc, nNext>>

NextInQueue ==
    /\ pc = "loop"
    /\ nNext <= Len(vWorkQueue)
    /\ Waiting = {}
    /\ nNext' = nNext + 1
    /\ tried' = {}
    /\ pc' = IF nNext = Len(vWorkQueue) THEN "erase" ELSE "loop"
    /\ UNCHANGED <<db, pindexBest, mempool, orphanVars, vWorkQueue, vEraseQueue>>

EraseOrphans ==
    /\ pc = "erase"
    /\ LET kept == Without(mapOrphanTransactions, mapOrphanTransactionsByPrev, vEraseQueue)
       IN  /\ mapOrphanTransactions' = kept.orphans
           /\ mapOrphanTransactionsByPrev' = kept.byPrev
    /\ pc' = "idle" /\ vWorkQueue' = << >> /\ nNext' = 1 /\ tried' = {} /\ vEraseQueue' = {}
    /\ UNCHANGED <<db, pindexBest, mempool>>

\* SetBestChainInner attaches the next block: its transactions leave the pool, the orphans
\* stay as they are.
AttachBlock(b) ==
    /\ pc = "idle"
    /\ pprev[b] = pindexBest
    /\ BlockConnects(db, b)
    /\ db' = [ConnectBlock(db, b, [x \in Block |-> NoBlock]) EXCEPT !.best = b]
    /\ pindexBest' = b
    /\ mempool' = Erase(mempool, TxsOf(b))
    /\ UNCHANGED <<orphanVars, callVars>>

Handler == (\E t \in Tx : TryOrphan(t)) \/ NextInQueue \/ EraseOrphans

Next ==
    \/ \E t \in Tx : ReceiveAccepted(t) \/ ReceiveOrphan(t)
    \/ Handler
    \/ \E b \in Block : AttachBlock(b)

Spec == Init /\ [][Next]_vars

-----------------------------------------------------------------------------
\* mapOrphanTransactionsByPrev lists an orphan under exactly the transactions it spends:
\* the loop of the "tx" handler would otherwise try, and so create, an empty transaction
\* for a hash that is no longer an orphan (AddOrphanTx, EraseOrphanTx).
OrphanTxMapsAgree ==
    \A p \in Tx : mapOrphanTransactionsByPrev[p] =
                     {t \in mapOrphanTransactions : p \in PrevTxs(t)}

\* A transaction that is relayed is in the pool, and when the handler returns it is no orphan
\* any more, also when it had been received as one before.
RelayedAreNotOrphans ==
    [][pc = "erase" => \A i \in DOMAIN vWorkQueue :
         /\ vWorkQueue[i] \in mempool.mapTx
         /\ vWorkQueue[i] \notin mapOrphanTransactions']_vars
=============================================================================
