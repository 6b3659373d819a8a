------------------------------ MODULE BlockChain ------------------------------
(***************************************************************************)
(* How the node changes its best chain: AddToBlockIndex, SetBestChain,     *)
(* SetBestChainInner and Reorganize of src/main.cpp, on top of the LevelDB *)
(* batch of src/txdb-leveldb.cpp, with crashes and LoadBlockIndex.         *)
(*                                                                         *)
(* All of it runs under cs_main, but the process can stop between any two  *)
(* steps: what was committed survives, everything in memory does not.      *)
(***************************************************************************)
EXTENDS MemPool

CONSTANTS
    nTotalBlocksEstimate,   \* height of the last hardened checkpoint
    MaxCrash                \* bound on the number of crashes

ASSUME ChainAssumption ==
    /\ nTotalBlocksEstimate \in Nat
    /\ MaxCrash \in Nat

VARIABLES
    \* on disk
    disk,               \* what LevelDB has committed
    nBestInvalidTrust,  \* written straight to disk, outside any batch, and kept in memory
    \* in memory
    batch,              \* what CTxDB reads: activeBatch over the committed records
    mapBlockIndex,      \* blocks with a CBlockIndex
    pnext,              \* CBlockIndex::pnext
    pindexBest,         \* the node's best block (hashBestChain, nBestHeight, nBestChainTrust)
    mempool,
    \* the call in progress
    pc,                 \* where in SetBestChain the node is
    pindexNew,          \* SetBestChain's argument
    pindexIntermediate, \* the block Reorganize switches to
    pindexCur,          \* the block the index in batch has reached
    vResurrect, vDelete,
    \* history
    nCrash,             \* crashes so far
    broken              \* "Connect further blocks" once stopped before pindexNew

memVars  == <<batch, mapBlockIndex, pnext, pindexBest, mempool>>
callVars == <<pc, pindexNew, pindexIntermediate, pindexCur, vResurrect, vDelete>>
vars     == <<disk, nBestInvalidTrust, memVars, callVars, nCrash, broken>>

Steps == {"idle", "begin", "reorganize", "inner", "resurrect", "delete",
          "secondary", "finish", "down"}

TypeOK ==
    /\ disk \in Database
    /\ nBestInvalidTrust \in Nat
    /\ batch \in Database
    /\ mapBlockIndex \subseteq Block
    /\ pnext \in [Block -> Block \cup {NoBlock}]
    /\ pindexBest \in Block
    /\ mempool \in Pool
    /\ pc \in Steps
    /\ pindexNew \in Block
    /\ pindexIntermediate \in Block
    /\ pindexCur \in Block
    /\ vResurrect \in Seq(Tx)
    /\ vDelete \in Seq(Tx)
    /\ nCrash \in 0..MaxCrash
    /\ broken \in BOOLEAN

EmptyNext == [b \in Block |-> NoBlock]

\* The state the first start leaves behind: the genesis block, indexed and best.
GenesisDatabase ==
    [index    |-> {Genesis},
     hashNext |-> EmptyNext,
     best     |-> Genesis,
     pos      |-> [t \in Tx |-> NoBlock],
     spent    |-> {}]

Init ==
    /\ disk = GenesisDatabase
    /\ nBestInvalidTrust = 0
    /\ batch = disk
    /\ mapBlockIndex = {Genesis}
    /\ pnext = EmptyNext
    /\ pindexBest = Genesis
    /\ mempool = EmptyPool
    /\ pc = "idle"
    /\ pindexNew = Genesis /\ pindexIntermediate = Genesis /\ pindexCur = Genesis
    /\ vResurrect = << >> /\ vDelete = << >>
    /\ nCrash = 0
    /\ broken = FALSE

-----------------------------------------------------------------------------
\* The call ends (pc "idle"), leaving nothing of its locals behind.
Return ==
    /\ pc' = "idle"
    /\ pindexNew' = Genesis /\ pindexIntermediate' = Genesis /\ pindexCur' = Genesis
    /\ vResurrect' = << >> /\ vDelete' = << >>

\* TxnAbort: the batch is dropped.
TxnAbort == batch' = disk

InvalidChainFound(b) ==
    nBestInvalidTrust' = IF nChainTrust[b] > nBestInvalidTrust
                         THEN nChainTrust[b] ELSE nBestInvalidTrust

\* The block after a on the branch ending in b.
NextOn(a, b) == CHOOSE x \in branch[b] : pprev[x] = a

\* Mutant: AddToBlockIndex calls SetBestChain for every block.
AddToBlockIndexAnyTrust(b) ==
    /\ pc = "idle"
    /\ b \notin mapBlockIndex
    /\ pprev[b] \in mapBlockIndex
    /\ mapBlockIndex' = mapBlockIndex \cup {b}
    /\ disk' = [disk EXCEPT !.index = @ \cup {b},
                            !.hashNext = [@ EXCEPT ![b] = pnext[b]]]
    /\ batch' = disk'
    /\ pc' = "begin" /\ pindexNew' = b
    /\ UNCHANGED <<nBestInvalidTrust, pnext, pindexBest, mempool, pindexIntermediate,
                   pindexCur, vResurrect, vDelete, nCrash, broken>>

(***************************************************************************)
(* AcceptBlock -> AddToBlockIndex: the block enters the index in memory    *)
(* and, in a batch of its own, on disk; SetBestChain follows when it has   *)
(* more trust than the best block.                                         *)
(***************************************************************************)
AddToBlockIndex(b) ==
    /\ pc = "idle"
    /\ b \notin mapBlockIndex
    /\ pprev[b] \in mapBlockIndex
    /\ mapBlockIndex' = mapBlockIndex \cup {b}
    /\ disk' = [disk EXCEPT !.index = @ \cup {b},
                            !.hashNext = [@ EXCEPT ![b] = pnext[b]]]
    /\ batch' = disk'
    /\ IF nChainTrust[b] > nChainTrust[pindexBest]
       THEN pc' = "begin" /\ pindexNew' = b
       ELSE UNCHANGED <<pc, pindexNew>>
    /\ UNCHANGED <<nBestInvalidTrust, pnext, pindexBest, mempool, pindexIntermediate,
                   pindexCur, vResurrect, vDelete, nCrash, broken>>

(***************************************************************************)
(* SetBestChain, first branch: the new block extends the best block.       *)
(***************************************************************************)
BeginExtend ==
    /\ pc = "begin"
    /\ pprev[pindexNew] = pindexBest
    /\ pc' = "inner"
    /\ pindexCur' = pindexBest
    /\ UNCHANGED <<disk, nBestInvalidTrust, memVars, pindexNew, pindexIntermediate,
                   vResurrect, vDelete, nCrash, broken>>

(***************************************************************************)
(* SetBestChain, second branch: pindexIntermediate is the first block of   *)
(* the new branch with more trust than the best block; the blocks after it *)
(* (vpindexSecondary) are left for later.                                  *)
(***************************************************************************)
Intermediate(b) ==
    CHOOSE a \in branch[b] :
        /\ a = b \/ nChainTrust[a] > nChainTrust[pindexBest]
        /\ pprev[a] # NoBlock => nChainTrust[pprev[a]] <= nChainTrust[pindexBest]

BeginReorganize ==
    /\ pc = "begin"
    /\ pprev[pindexNew] # pindexBest
    /\ pc' = "reorganize"
    /\ pindexIntermediate' = Intermediate(pindexNew)
    /\ pindexCur' = pindexBest
    /\ UNCHANGED <<disk, nBestInvalidTrust, memVars, pindexNew, vResurrect, vDelete,
                   nCrash, broken>>

\* Mutant: the disconnect loop runs past the fork.
ReorganizeDisconnectTooFar ==
    /\ pc = "reorganize"
    /\ BlockDisconnects(batch, pindexCur)
    /\ batch' = DisconnectBlock(batch, pindexCur)
    /\ pindexCur' = pprev[pindexCur]
    /\ UNCHANGED <<disk, nBestInvalidTrust, mapBlockIndex, pnext, pindexBest, mempool,
                   pc, pindexNew, pindexIntermediate, vResurrect, vDelete, nCrash, broken>>

\* Reorganize: disconnect from pindexBest down to the fork, one block a step.  (The code
\* leaves coinbases and coinstakes out of vResurrect; here they stay in it and Resurrect
\* skips them, because AcceptToMemoryPool refuses them.)
ReorganizeDisconnect ==
    /\ pc = "reorganize"
    /\ pindexCur \notin branch[pindexIntermediate]
    /\ BlockDisconnects(batch, pindexCur)
    /\ batch' = DisconnectBlock(batch, pindexCur)
    /\ pindexCur' = pprev[pindexCur]
    /\ vResurrect' = IF nHeight[pindexCur] > nTotalBlocksEstimate
                     THEN vtx[pindexCur] \o vResurrect
                     ELSE vResurrect
    /\ UNCHANGED <<disk, nBestInvalidTrust, mapBlockIndex, pnext, pindexBest, mempool,
                   pc, pindexNew, pindexIntermediate, vDelete, nCrash, broken>>

\* Reorganize: connect from the fork up to pindexIntermediate, one block a step.
ReorganizeConnect ==
    /\ pc = "reorganize"
    /\ pindexCur \in branch[pindexIntermediate]
    /\ pindexCur # pindexIntermediate
    /\ LET b == NextOn(pindexCur, pindexIntermediate)
       IN  /\ BlockConnects(batch, b)
           /\ batch' = ConnectBlock(batch, b, pnext)
           /\ pindexCur' = b
           /\ vDelete' = vDelete \o vtx[b]
    /\ UNCHANGED <<disk, nBestInvalidTrust, mapBlockIndex, pnext, pindexBest, mempool,
                   pc, pindexNew, pindexIntermediate, vResurrect, nCrash, broken>>

(***************************************************************************)
(* A block does not disconnect or connect, cannot be read from disk, is    *)
(* refused by a rule of CheckBlock that depends on the moment (InstantX    *)
(* locks, blanknode payee), or the commit fails: SetBestChain drops the    *)
(* batch and returns false.                                                *)
(***************************************************************************)
ReorganizeFail ==
    /\ pc = "reorganize"
    /\ TxnAbort
    /\ InvalidChainFound(pindexNew)
    /\ Return
    /\ UNCHANGED <<disk, mapBlockIndex, pnext, pindexBest, mempool, nCrash, broken>>

\* Mutant: the disconnected branch keeps its links.
RelinkedNotUnlinked(b) ==
    [x \in Block |->
        IF \E y \in branch[b] \ branch[pindexBest] : pprev[y] = x THEN NextOn(x, b)
        ELSE pnext[x]]

\* pnext once Reorganize has unlinked the blocks from pindexBest and linked those to b.
Relinked(b) ==
    [x \in Block |->
        IF \E y \in branch[b] \ branch[pindexBest] : pprev[y] = x THEN NextOn(x, b)
        ELSE IF \E y \in branch[pindexBest] \ branch[b] : pprev[y] = x THEN NoBlock
        ELSE pnext[x]]

\* WriteHashBestChain and TxnCommit, then the in-memory links.
ReorganizeCommit ==
    /\ pc = "reorganize"
    /\ pindexCur = pindexIntermediate
    /\ disk' = [batch EXCEPT !.best = pindexIntermediate]
    /\ batch' = disk'
    /\ pnext' = Relinked(pindexIntermediate)
    /\ pc' = "resurrect"
    /\ UNCHANGED <<nBestInvalidTrust, mapBlockIndex, pindexBest, mempool, pindexNew,
                   pindexIntermediate, pindexCur, vResurrect, vDelete, nCrash, broken>>

\* AcceptToMemoryPool for one transaction of the disconnected branch; its policy rules
\* (fees, standardness, locks) may refuse a transaction the consensus rules would take.
Resurrect ==
    /\ pc = "resurrect"
    /\ vResurrect # << >>
    /\ LET t == Head(vResurrect)
       IN  \/ /\ AcceptToMemoryPool(mempool, disk, pindexBest, t)
              /\ mempool' = addUnchecked(mempool, t)
           \/ mempool' = mempool
    /\ vResurrect' = Tail(vResurrect)
    /\ UNCHANGED <<disk, nBestInvalidTrust, batch, mapBlockIndex, pnext, pindexBest, pc,
                   pindexNew, pindexIntermediate, pindexCur, vDelete, nCrash, broken>>

ResurrectDone ==
    /\ pc = "resurrect"
    /\ vResurrect = << >>
    /\ pc' = "delete"
    /\ UNCHANGED <<disk, nBestInvalidTrust, memVars, pindexNew, pindexIntermediate,
                   pindexCur, vResurrect, vDelete, nCrash, broken>>

\* Mutant: Reorganize removes conflicts only.
DeleteConflictsOnly ==
    /\ pc = "delete"
    /\ vDelete # << >>
    /\ mempool' = removeConflicts(mempool, Head(vDelete))
    /\ vDelete' = Tail(vDelete)
    /\ UNCHANGED <<disk, nBestInvalidTrust, batch, mapBlockIndex, pnext, pindexBest, pc,
                   pindexNew, pindexIntermediate, pindexCur, vResurrect, nCrash, broken>>

\* A transaction of the connected branch and everything in conflict with it leave the pool.
Delete ==
    /\ pc = "delete"
    /\ vDelete # << >>
    /\ mempool' = removeConflicts(remove(mempool, Head(vDelete)), Head(vDelete))
    /\ vDelete' = Tail(vDelete)
    /\ UNCHANGED <<disk, nBestInvalidTrust, batch, mapBlockIndex, pnext, pindexBest, pc,
                   pindexNew, pindexIntermediate, pindexCur, vResurrect, nCrash, broken>>

DeleteDone ==
    /\ pc = "delete"
    /\ vDelete = << >>
    /\ pc' = IF pindexCur = pindexNew THEN "finish" ELSE "secondary"
    /\ UNCHANGED <<disk, nBestInvalidTrust, memVars, pindexNew, pindexIntermediate,
                   pindexCur, vResurrect, vDelete, nCrash, broken>>

(***************************************************************************)
(* SetBestChainInner attaches the block after pindexCur: the only one in   *)
(* the first branch, the next of vpindexSecondary in the second.  Here the *)
(* block's own transactions leave the pool, conflicting ones do not.       *)
(***************************************************************************)
SetBestChainInner ==
    /\ pc \in {"inner", "secondary"}
    /\ LET b == NextOn(pindexCur, pindexNew)
       IN  /\ BlockConnects(batch, b)
           /\ disk' = [ConnectBlock(batch, b, pnext) EXCEPT !.best = b]
           /\ batch' = disk'
           /\ pnext' = [pnext EXCEPT ![pindexCur] = b]
           /\ mempool' = Erase(mempool, TxsOf(b))
           /\ pindexCur' = b
           /\ pc' = IF b = pindexNew THEN "finish" ELSE pc
    /\ UNCHANGED <<nBestInvalidTrust, mapBlockIndex, pindexBest, pindexNew,
                   pindexIntermediate, vResurrect, vDelete, nCrash, broken>>

\* InvalidChainFound is called when the block does not connect, not when TxnCommit fails.
InnerFail ==
    /\ pc = "inner"
    /\ TxnAbort
    /\ InvalidChainFound(pindexNew) \/ UNCHANGED nBestInvalidTrust
    /\ Return
    /\ UNCHANGED <<disk, mapBlockIndex, pnext, pindexBest, mempool, nCrash, broken>>

\* Mutant: the loop over vpindexSecondary tries the same block again.
SecondaryFailRetries ==
    /\ pc = "secondary"
    /\ TxnAbort
    /\ InvalidChainFound(NextOn(pindexCur, pindexNew))
    /\ UNCHANGED <<disk, mapBlockIndex, pnext, pindexBest, mempool, callVars, nCrash, broken>>

\* "errors now are not fatal": the loop stops, SetBestChain goes on.
SecondaryFail ==
    /\ pc = "secondary"
    /\ TxnAbort
    /\ \/ InvalidChainFound(NextOn(pindexCur, pindexNew))
       \/ UNCHANGED nBestInvalidTrust
    /\ pc' = "finish"
    /\ broken' = TRUE
    /\ UNCHANGED <<disk, mapBlockIndex, pnext, pindexBest, mempool, pindexNew,
                   pindexIntermediate, pindexCur, vResurrect, vDelete, nCrash>>

\* "New best block": pindexNew becomes the best block in memory.
Finish ==
    /\ pc = "finish"
    /\ pindexBest' = pindexNew
    /\ Return
    /\ UNCHANGED <<disk, nBestInvalidTrust, batch, mapBlockIndex, pnext, mempool,
                   nCrash, broken>>

\* AcceptToMemoryPool from a "tx" message, an RPC call or the wallet.
SubmitTx(t) ==
    /\ pc = "idle"
    /\ AcceptToMemoryPool(mempool, disk, pindexBest, t)
    /\ mempool' = addUnchecked(mempool, t)
    /\ UNCHANGED <<disk, nBestInvalidTrust, batch, mapBlockIndex, pnext, pindexBest,
                   callVars, nCrash, broken>>

\* The process stops; memory is gone.
Crash ==
    /\ pc # "down"
    /\ nCrash < MaxCrash
    /\ nCrash' = nCrash + 1
    /\ pc' = "down"
    /\ batch' = disk
    /\ mapBlockIndex' = {}
    /\ pnext' = EmptyNext
    /\ pindexBest' = Genesis
    /\ mempool' = EmptyPool
    /\ pindexNew' = Genesis /\ pindexIntermediate' = Genesis /\ pindexCur' = Genesis
    /\ vResurrect' = << >> /\ vDelete' = << >>
    /\ UNCHANGED <<disk, nBestInvalidTrust, broken>>

(***************************************************************************)
(* LoadBlockIndex reads the block index, the links and the best block from *)
(* disk, then runs CheckBlock on the last blocks; when one fails, "Reorg   *)
(* back to the fork": SetBestChain to an ancestor of the best block.       *)
(***************************************************************************)
LoadBlockIndex ==
    /\ pc = "down"
    /\ mapBlockIndex' = disk.index
    /\ pnext' = disk.hashNext
    /\ pindexBest' = disk.best
    /\ \/ pc' = "idle" /\ UNCHANGED pindexNew
       \/ \E pindexFork \in branch[disk.best] \ {disk.best} :
             pc' = "begin" /\ pindexNew' = pindexFork
    /\ UNCHANGED <<disk, nBestInvalidTrust, batch, mempool, pindexIntermediate, pindexCur,
                   vResurrect, vDelete, nCrash, broken>>

Step ==
    \/ BeginExtend \/ BeginReorganize
    \/ ReorganizeDisconnect \/ ReorganizeConnect \/ ReorganizeFail \/ ReorganizeCommit
    \/ Resurrect \/ ResurrectDone \/ Delete \/ DeleteDone
    \/ SetBestChainInner \/ InnerFail \/ SecondaryFail \/ Finish
    \/ LoadBlockIndex

Next ==
    \/ \E b \in Block : AddToBlockIndex(b)
    \/ \E t \in Tx : SubmitTx(t)
    \/ Step
    \/ Crash

Spec == Init /\ [][Next]_vars
\* SetBestChain and LoadBlockIndex run to completion unless the process stops; blocks and
\* transactions need not arrive.
FairSpec == Spec /\ WF_vars(Step)

-----------------------------------------------------------------------------
(***************************************************************************)
(* Properties.  They are stated for behaviours in which the loop over      *)
(* vpindexSecondary never stopped early: what happens after that is the    *)
(* subject of BestBlockIsCommitted.                                        *)
(***************************************************************************)

\* The committed transaction index is exactly that of the committed best chain, whatever
\* sequence of reorganizations, aborted batches and crashes led there, and that chain is
\* valid (ConnectBlock, DisconnectBlock, TxnCommit, TxnAbort).
IndexDescribesBestChain == ~broken => DescribesBranch(disk, disk.best)

\* No output is spent twice on the committed best chain, by two transactions or by one
\* transaction in two blocks (ConnectInputs' vSpent check across reorganizations).
NoDoubleSpend ==
    ~broken =>
        \A a, b \in branch[disk.best] : \A s \in TxsOf(a) : \A t \in TxsOf(b) :
            vin[s] \cap vin[t] # {} => s = t /\ a = b

\* A block that was connected can always be disconnected again: DisconnectInputs finds the
\* record of every prevout, so a reorganization never gets stuck on its own best chain.
CanDisconnect ==
    (~broken /\ pc = "reorganize" /\ pindexCur \notin branch[pindexIntermediate])
        => BlockDisconnects(batch, pindexCur)

\* f links exactly the blocks below b on its branch, each to the next one.
Links(f, b) ==
    \A x, y \in Block : f[x] = y <=> (y \in branch[b] /\ pprev[y] = x)

\* Between calls the best block in memory is the committed one and IsInMainChain (pnext or
\* pindexBest) holds for exactly the blocks of its branch (Reorganize and SetBestChainInner
\* change the links only after the commit).
MemoryFollowsDisk ==
    (~broken /\ pc = "idle") =>
        /\ pindexBest = disk.best
        /\ Links(pnext, pindexBest)

\* What a crash leaves behind can be loaded: the index on disk has the whole best chain and
\* the predecessors of every block, and its hashNext fields trace the best chain
\* (LoadBlockIndex rebuilds pnext and pindexBest from them).
DiskIsLoadable ==
    ~broken =>
        /\ branch[disk.best] \subseteq disk.index
        /\ \A b \in disk.index : branch[b] \subseteq disk.index
        /\ Links(disk.hashNext, disk.best)

\* mapNextTx and mapTx agree through every acceptance, removal and recursive removal; in
\* particular no two transactions of the pool spend the same output.
PoolIsConsistent == NextTxMatches(mempool)

\* Between calls no transaction of the best chain is in the pool: SetBestChain removes what
\* it connects, and AcceptToMemoryPool and Reorganize never put a confirmed one (back) in.
PoolIsUnconfirmed ==
    (~broken /\ pc = "idle") => mempool.mapTx \cap BranchTxs(pindexBest) = {}

\* The committed database implements Ledger: each commit of SetBestChain moves it, in one
\* step, to a valid branch with more trust and its spent outputs, or (LoadBlockIndex found a
\* bad block) back to an ancestor; aborted batches and crashes leave it where it was.
L == INSTANCE Ledger WITH tip <- disk.best, spent <- disk.spent, ok <- ~broken
ImplementsLedger == L!LedgerSpec

\* Every call of SetBestChain and every start ends: no step of the reorganization waits for
\* anything but the next one.
AlwaysReturns == []<>(pc = "idle")

\* The best block in memory is the block the database was committed for.
BestBlockIsCommitted == pc = "idle" => pindexBest = disk.best
-----------------------------------------------------------------------------
(***************************************************************************)
(* The inductive invariant behind the properties: where the index in batch *)
(* stands during a call, and how it relates to the committed one.          *)
(***************************************************************************)

\* Outside Reorganize nothing is pending.
BatchInv == pc # "reorganize" => batch = disk

\* How far the call has come on its way to pindexNew.
CursorInv ==
    /\ pc = "inner" => pprev[pindexNew] = pindexCur
    /\ pc \in {"reorganize", "resurrect", "delete"} => pindexIntermediate \in branch[pindexNew]
    /\ pc \in {"resurrect", "delete"} => pindexCur = pindexIntermediate
    /\ pc = "secondary" => pindexCur \in branch[pindexNew] \ {pindexNew}

\* Before the first commit of a call the best block in memory is the committed one; after it
\* the committed one is pindexCur, and pindexNew when the call is about to end.
BestInv ==
    /\ pc \in {"idle", "begin", "reorganize", "inner"} => pindexBest = disk.best
    /\ pc \in {"inner", "resurrect", "delete", "secondary", "finish"} => pindexCur = disk.best
    /\ pc = "finish" => pindexCur = pindexNew

\* The index follows the cursor: in disk always, in batch during a reorganization.
IndexInv ==
    /\ DescribesBranch(disk, disk.best)
    /\ pc = "reorganize" => DescribesBranch(batch, pindexCur)

\* Why the call was made: pindexNew has more trust than the best block, or LoadBlockIndex
\* goes back to an ancestor of it.
Better(b) == \/ nChainTrust[b] > nChainTrust[pindexBest]
             \/ b \in branch[pindexBest] \ {pindexBest}

TargetInv ==
    /\ pc = "begin" => Better(pindexNew)
    /\ pc = "reorganize" => Better(pindexIntermediate)

ChainInv ==
    /\ TypeOK
    /\ BatchInv
    /\ CursorInv
    /\ ~broken => BestInv /\ IndexInv /\ TargetInv
=============================================================================
