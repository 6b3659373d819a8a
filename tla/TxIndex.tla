------------------------------- MODULE TxIndex -------------------------------
(***************************************************************************)
(* The block tree, the transactions its blocks carry, and the transaction  *)
(* index the node keeps on disk (CTxDB over CTxIndex::vSpent).             *)
(*                                                                         *)
(* The block tree and the contents of its blocks are data: constants.  The *)
(* functions of src/main.cpp that read and rewrite the transaction index   *)
(* (FetchInputs, ConnectInputs, DisconnectInputs, ConnectBlock,            *)
(* DisconnectBlock) are operators on a database value "db", a record with  *)
(* the parts of CTxDB those functions touch:                               *)
(*   db.index    hashes that have a "blockindex" record                    *)
(*   db.hashNext the hashNext field of those records                       *)
(*   db.best     the "hashBestChain" record                                *)
(*   db.pos      the block a transaction's CTxIndex points into, or NoBlock *)
(*               when the transaction has no "tx" record                   *)
(*   db.spent    outpoints whose vSpent entry is not null                  *)
(***************************************************************************)
EXTENDS Naturals, Sequences

CONSTANTS
    Block,              \* block hashes
    NoBlock,            \* the null hash / the null CBlockIndex pointer
    Genesis,            \* Params().HashGenesisBlock()
    pprev,              \* CBlockIndex::pprev
    nHeight,            \* CBlockIndex::nHeight
    nChainTrust,        \* CBlockIndex::nChainTrust
    vtx,                \* CBlock::vtx
    BadBlock,           \* blocks that can never pass ConnectBlock's value and script rules
    Tx,                 \* transaction hashes
    CoinBase,           \* transactions with IsCoinBase()
    CoinStake,          \* transactions with IsCoinStake()
    OutPoint,           \* COutPoint: an output of a transaction
    hash,               \* COutPoint::hash, the transaction that has the output
    vin,                \* the prevouts of CTransaction::vin
    nCoinbaseMaturity   \* depth at which a coinbase or coinstake can be spent

TxsOf(b) == {vtx[b][i] : i \in DOMAIN vtx[b]}

\* The inputs and the outputs of a block's transactions.
SpentBy(b)   == UNION {vin[t] : t \in TxsOf(b)}
CreatedBy(b) == {o \in OutPoint : hash[o] \in TxsOf(b)}

\* The blocks that following pprev from b visits, b included: the branch ending in b.
branch == [b \in Block |->
             {a \in Block : \A S \in SUBSET Block :
                 (b \in S /\ \A x \in S : pprev[x] = NoBlock \/ pprev[x] \in S)
                    => a \in S}]

ASSUME TreeAssumption ==
    /\ NoBlock \notin Block
    /\ Genesis \in Block
    /\ pprev \in [Block -> Block \cup {NoBlock}]
    /\ nHeight \in [Block -> Nat]
    /\ nChainTrust \in [Block -> Nat]
    /\ \A b \in Block : pprev[b] = NoBlock <=> b = Genesis
    \* AddToBlockIndex computes nHeight and nChainTrust from pprev's.
    /\ \A b \in Block \ {Genesis} : /\ nHeight[b] = nHeight[pprev[b]] + 1
                                    /\ nChainTrust[b] > nChainTrust[pprev[b]]

ASSUME TxAssumption ==
    /\ vtx \in [Block -> Seq(Tx)]
    /\ BadBlock \subseteq Block
    /\ CoinBase \subseteq Tx
    /\ CoinStake \subseteq Tx
    /\ hash \in [OutPoint -> Tx]
    /\ vin \in [Tx -> SUBSET OutPoint]
    /\ \A t \in Tx : t \in CoinBase <=> vin[t] = {}
    \* SetBestChain never connects the genesis block, so its coinbase is not indexed.
    /\ vtx[Genesis] = << >>
    \* AcceptBlock wants the height in the coinbase: no coinbase is repeated on a branch.
    /\ \A b \in Block \ {Genesis} : \A a \in branch[pprev[b]] :
          TxsOf(a) \cap TxsOf(b) \cap CoinBase = {}
    /\ nCoinbaseMaturity \in Nat \ {0}

Database ==
    [index    : SUBSET Block,
     hashNext : [Block -> Block \cup {NoBlock}],
     best     : Block,
     pos      : [Tx -> Block \cup {NoBlock}],
     spent    : SUBSET OutPoint]

(***************************************************************************)
(* The context-free structure rules of CheckBlock the index depends on:    *)
(* one coinbase, first, and no transaction twice.                          *)
(***************************************************************************)
CheckBlock(b) ==
    /\ vtx[b] # << >>
    /\ \A i \in DOMAIN vtx[b] : vtx[b][i] \in CoinBase <=> i = 1
    /\ \A i, j \in DOMAIN vtx[b] : vtx[b][i] = vtx[b][j] => i = j

\* Is the transaction at position p (a block) less than n deep below block b?
IsConfirmedInNPrevBlocks(p, b, n) == p \in branch[b] /\ nHeight[b] - nHeight[p] < n

\* ConnectInputs: a coinbase or coinstake at position p is old enough to spend in block b.
Matured(t, p, b) ==
    t \in CoinBase \cup CoinStake => ~IsConfirmedInNPrevBlocks(p, b, nCoinbaseMaturity)

\* ConnectBlock: tx must not overwrite a record that still has an unspent output.
MayOverwrite(db, t) ==
    db.pos[t] # NoBlock => \A o \in OutPoint : hash[o] = t => o \in db.spent

\* Mutant: ConnectInputs without its vSpent check against the database.
InputConnectsUnchecked(db, b, i, o) ==
    LET queued == \E j \in 1..(i-1) : vtx[b][j] = hash[o]
    IN  /\ queued \/ db.pos[hash[o]] # NoBlock
        /\ \A j \in 1..(i-1) : o \notin vin[vtx[b][j]]
        /\ Matured(hash[o], IF queued THEN b ELSE db.pos[hash[o]], b)

(***************************************************************************)
(* FetchInputs and ConnectInputs for input o of the i-th transaction of    *)
(* block b.  mapQueuedChanges holds the effects of transactions 1..i-1: an *)
(* output created there is found there, fresh, and an output spent there   *)
(* is already spent.                                                       *)
(***************************************************************************)
InputConnects(db, b, i, o) ==
    LET queued == \E j \in 1..(i-1) : vtx[b][j] = hash[o]
    IN  /\ queued \/ db.pos[hash[o]] # NoBlock
        /\ \A j \in 1..(i-1) : o \notin vin[vtx[b][j]]
        /\ queued \/ o \notin db.spent
        /\ Matured(hash[o], IF queued THEN b ELSE db.pos[hash[o]], b)

\* The checks of ConnectBlock that depend on the index, for every transaction in order.
BlockConnects(db, b) ==
    /\ CheckBlock(b)
    /\ b \notin BadBlock
    /\ \A i \in DOMAIN vtx[b] :
          /\ MayOverwrite(db, vtx[b][i])
          /\ \A o \in vin[vtx[b][i]] : InputConnects(db, b, i, o)

\* Mutant: ConnectBlock forgets hashNext of the previous block.
ConnectBlockUnlinked(db, b, pnext) ==
    [db EXCEPT !.index    = @ \cup {b, pprev[b]},
               !.hashNext = [@ EXCEPT ![b] = pnext[b]],
               !.pos      = [t \in Tx |-> IF t \in TxsOf(b) THEN b ELSE @[t]],
               !.spent    = (@ \ CreatedBy(b)) \cup SpentBy(b)]

(***************************************************************************)
(* What ConnectBlock writes: the block's own index record, with the        *)
(* hashNext the in-memory index has for it; a fresh CTxIndex for each of   *)
(* its transactions; the vSpent entries of their prevouts; and hashNext of *)
(* the previous block.                                                     *)
(***************************************************************************)
ConnectBlock(db, b, pnext) ==
    [db EXCEPT !.index    = @ \cup {b, pprev[b]},
               !.hashNext = [@ EXCEPT ![b] = pnext[b], ![pprev[b]] = b],
               !.pos      = [t \in Tx |-> IF t \in TxsOf(b) THEN b ELSE @[t]],
               !.spent    = (@ \ CreatedBy(b)) \cup SpentBy(b)]

\* Mutant: DisconnectBlock undoes transactions first to last.
BlockDisconnectsForward(db, b) ==
    \A i \in DOMAIN vtx[b] : \A o \in vin[vtx[b][i]] :
        /\ db.pos[hash[o]] # NoBlock
        /\ \A j \in DOMAIN vtx[b] : j < i => vtx[b][j] # hash[o]

(***************************************************************************)
(* DisconnectBlock undoes transactions last to first; DisconnectInputs     *)
(* fails when a prevout's transaction has no record (any more).            *)
(***************************************************************************)
BlockDisconnects(db, b) ==
    \A i \in DOMAIN vtx[b] : \A o \in vin[vtx[b][i]] :
        /\ db.pos[hash[o]] # NoBlock
        /\ \A j \in DOMAIN vtx[b] : j > i => vtx[b][j] # hash[o]

\* Mutant: DisconnectInputs erases the records but leaves the prevouts marked spent.
DisconnectBlockKeepsSpent(db, b) ==
    [db EXCEPT !.index    = @ \cup {pprev[b]},
               !.hashNext = [@ EXCEPT ![pprev[b]] = NoBlock],
               !.pos      = [t \in Tx |-> IF t \in TxsOf(b) THEN NoBlock ELSE @[t]],
               !.spent    = @ \ CreatedBy(b)]

DisconnectBlock(db, b) ==
    [db EXCEPT !.index    = @ \cup {pprev[b]},
               !.hashNext = [@ EXCEPT ![pprev[b]] = NoBlock],
               !.pos      = [t \in Tx |-> IF t \in TxsOf(b) THEN NoBlock ELSE @[t]],
               !.spent    = @ \ (SpentBy(b) \cup CreatedBy(b))]

-----------------------------------------------------------------------------
(***************************************************************************)
(* What the index should say, stated on the block tree alone.              *)
(***************************************************************************)

\* Transactions and spent outputs of the branch ending in b.
BranchTxs(b)   == UNION {TxsOf(a) : a \in branch[b]}
BranchSpent(b) == UNION {SpentBy(a) : a \in branch[b]}

\* Block b spends outputs that its branch created and that nobody spent before.
Fits(b) ==
    /\ TxsOf(b) \cap BranchTxs(pprev[b]) = {}
    /\ SpentBy(b) \cap BranchSpent(pprev[b]) = {}
    /\ \A o \in SpentBy(b) : hash[o] \in BranchTxs(b)
    /\ \A s, t \in TxsOf(b) : s # t => vin[s] \cap vin[t] = {}
    /\ \A i, j \in DOMAIN vtx[b] : \A o \in vin[vtx[b][i]] :
          vtx[b][j] = hash[o] => j < i

ValidBranch(b) == \A a \in branch[b] \ {Genesis} : Fits(a)

\* The index in db is exactly that of the branch ending in b, and that branch is valid.
DescribesBranch(db, b) ==
    /\ ValidBranch(b)
    /\ \A t \in Tx : \A a \in Block : db.pos[t] = a <=> (a \in branch[b] /\ t \in TxsOf(a))
    /\ db.spent = BranchSpent(b)
=============================================================================
