# Fantom: a verification project in TLA+

Fantom (`src/`, C++) is a Bitcoin/Peercoin-derived currency node with proof of
stake, a second network of *blanknodes* (nodes with collateral), instant
transaction locks by blanknode votes (InstantX), coin mixing run by blanknodes
(Zerosend), encrypted messages and a market. This directory holds TLA+ models of
the parts where order, failure and concurrency decide correctness, the TLC
configurations that check them, and TLAPS proofs of every safety property that
the runs check, for all values of the constants; liveness is left to TLC.

The program is the C++ code under `src/src/`. The repository's `*.ts` files are
Qt translation catalogues (`src/src/qt/locale/`): data without behaviour, which
nothing here models.

`PROJECT.json` lists the components, runs, mutants, the map from definitions to
source lines, findings, hazards and theorems.

## 1. Inventory of the system

All of it lives in one process. The message thread (`ThreadMessageHandler` →
`ProcessMessages`) calls the handlers; `ThreadCheckZeroSendPool` wakes every
second; the staker, the miner, RPC calls, the GUI and the secure-message threads
run beside them. `cs_main` protects chain and pool; InstantX, Zerosend and the
blanknode code are mostly called **without** it.

| Part | State | Operations | What is hard | What makes it correct |
|---|---|---|---|---|
| Best chain (`main.cpp`, `txdb-leveldb.cpp`) | `mapBlockIndex`, `pnext`, `pindexBest`, LevelDB records and `activeBatch`, `nBestInvalidTrust` | `AddToBlockIndex`, `SetBestChain`, `SetBestChainInner`, `Reorganize`, `ConnectBlock`, `DisconnectBlock`, `LoadBlockIndex` | a crash between two commits, a failure in the middle of a reorganization, postponed blocks | index = best chain, no double spend, memory = disk, all-or-nothing switch |
| Memory pool (`txmempool.cpp`) | `mapTx`, `mapNextTx` | `addUnchecked`, `remove`, `removeConflicts`, `AcceptToMemoryPool` | resurrecting during a reorganization | the two maps agree; nothing confirmed stays |
| Orphan blocks (`ProcessBlock`) | `mapOrphanBlocks`, `mapOrphanBlocksByPrev`, `setStakeSeen`, `setStakeSeenOrphan` | receive, prune, ask, adopt | any order of arrival, limits, stakes seen twice | maps agree, chains are kept, orphans resolve |
| Transaction relay (`"tx"`) | `mapOrphanTransactions`, `…ByPrev` | receive, retry, evict | child before parent | maps agree, bound kept, children retried |
| InstantX (`instantx.cpp`) | `mapTxLockReq`, `…Rejected`, `mapTxLockVote`, `mapTxLocks`, `mapLockedInputs` | `txlreq`, `txlvote`, wallet request, cleaning | three threads, votes before requests, expiry | inputs locked only by a quorum; locks end |
| Zerosend pool (`zerosend.cpp`, blanknode side) | state, entries, final transaction, session users, collateral | `ssa`, `ssi`, `sss`, `Check`, `CheckTimeout`, `CheckForCompleteQueue` | late messages of an earlier session, two timeouts, clients that stop | what is signed is what was merged; enough participants; sessions end |
| Zerosend client (`zerosend.cpp`) | local session, locked coins, queue | `ssq`, `sssu`, `ssf`, `ssc`, automatic denominating | status messages out of order, coins left locked | coins locked iff in a session; signs only its own outputs |
| Blanknode list (`blanknode*.cpp`, `activeblanknode.cpp`) | `vBlanknodes`, asked-for maps, `sncache.dat`, own status | `ssee`, `sseep`, `sseg`, `Check`, `CheckAndRemove`, `ManageStatus`, dump and load | pointers into a vector that changes, cached block hashes, time-outs, a stale cache after a restart | a running blanknode is listed everywhere, a silent or spent one nowhere; ranks are those of the best chain |
| Blanknode payments | `vWinning`, `mapSeenBlanknodeVotes` | `snw`, `ProcessBlock`, `CleanPaymentList` | no winner can be stored here: the key that has to sign one is empty (section 8) | one winner per height, the same everywhere |
| Wallet | `mapWallet`, `setKeyPool`, wallet file, coin locks | reserve/keep/return a key, sync with blocks, send | crash between memory and file, reorganization | no key handed out twice |
| Kernel, difficulty, miner | stake modifier per block, search time | compute modifier, check kernel, make blocks | edges of the selection, best block changes meanwhile | equal modifier at every node |
| Peers, inventory, addresses | `vNodes`, `mapAskFor`, `mapAlreadyAskedFor`, `CAddrMan` | ask, retry, receive, forget | retries shared by peers | everything wanted is asked for again |
| Secure messages (`smessage.cpp`) | tokens and files per bucket, bucket locks, send queue, `smsgData` per peer | `smsgInv`, `smsgShow`, `smsgHave`, `smsgWant`, `smsgMsg`, `smsgMatch`, expiry, proof of work, enable, disable, scan | lock time-out against a late answer, crash between erase and store | memory describes the files; every message reaches every node; expired ones stay out |
| Market | listings, buy requests, escrow | messages carried by secure messages | order of the steps of a sale | one buyer per listing |
| Sporks, alerts, network time | active sporks, alerts, time offset | receive | order of arrival | newest wins |
| Scripts, keys, RPC, GUI, start-up, vendored libraries | – | – | – | not protocol logic; see section 8 |

Interactions: `ProcessBlock` adopts orphans and calls `AddToBlockIndex` →
`SetBestChain`, which changes database, pool and (through `SyncWithWallets`) the
wallet. `CheckBlock` asks InstantX for locked inputs and the payments for the
payee. InstantX asks the blanknode list for ranks and `AcceptToMemoryPool` for
the request. The Zerosend pool puts its transaction into the memory pool by
`AcceptToMemoryPool` under a one-time permission (`sstx`) and charges collateral
the same way.

The hazards this gives rise to are listed in `PROJECT.json` with their lines.
Smaller ones, and those of the parts that section 7 leaves to later modules:
`ConnectBlock` and `DisconnectBlock` tell the wallets (`SyncWithWallets`) before
the batch is committed; the duplicate-stake check is not repeated when an orphan
is adopted; a Zerosend client in `ERROR` is reset only by the overview page,
every tenth block unlocks the coins of a session that is still signing, and coins
stay locked when `SendZerosendDenominate` returns early; a complete InstantX lock
is cancelled by an entry of `mapLockedInputs` that no vote supports;
`mapAlreadyAskedFor` is shared by all peers; `Find` and its relatives return
pointers into `vBlanknodes` that are used after its lock is released; the miner
and `CreateNewBlock` read `pindexBest` separately and without `cs_main`; alerts
and their cancellations arrive in either order; `ComputeNextStakeModifier` has
the edges of its 64 rounds; the clock offset freezes at 200 samples.

## 2. Modules

| Module | Models | Composition |
|---|---|---|
| `TxIndex` | blocks, transactions and the pure part of `ConnectBlock`/`DisconnectBlock`: when a block connects, what it does to the index | base |
| `MemPool` | `CTxMemPool` and `AcceptToMemoryPool` as functions on a pool | extends `TxIndex` |
| `BlockChain` | the state machine of `SetBestChain` with batch, crash, restart | extends `MemPool`; instantiates `Ledger` |
| `Ledger` | abstract specification: a chain and its spent outputs, switched atomically | extends `TxIndex` |
| `OrphanBlocks` | `ProcessBlock` up to and with the adoption loop | own constants; the outcome of `AcceptBlock` is nondeterministic where `BlockChain` shows it can fail |
| `TxRelay` | the `"tx"` handler | extends `MemPool` |
| `InstantX` | `instantx.cpp` at one node | – |
| `ZerosendPool` | the blanknode side of `zerosend.cpp` | – |
| `SecureMessages` | `smessage.cpp` at several nodes and the connections between them | – |
| `KeyPool` | the key pool in memory and in the wallet file | – |
| `BlanknodeList` | `blanknodeman.cpp` at several nodes, with the host of one blanknode (`activeblanknode.cpp`) | – |
| `BlockChainProofs`, `OrphanBlocksProofs`, `TxRelayProofs`, `InstantXProofs`, `ZerosendPoolProofs`, `SecureMessagesProofs`, `KeyPoolProofs`, `BlanknodeListProofs` | theorems; `BlockChainProofs` also those about `TxIndex`, `MemPool` and `Ledger` | extend the module they are about |
| `MC…` | instances for TLC | extend the module they instantiate |

Definitions keep the names of the code. A definition whose name ends in a
description of a fault and whose comment begins with "Mutant:" is a deliberately
wrong variant of the one below it; no specification uses it.

### State and actions against the code

**BlockChain.** `disk` is what LevelDB has committed: the block index records
(`index`), `hashNext`, `hashBestChain` (`best`), the position of every indexed
transaction (`pos`) and the outputs whose `vSpent` entry is set (`spent`).
`batch` is what `CTxDB` reads, i.e. `activeBatch` over `disk`; outside a batch
the two are equal. `pc`, `pindexNew`, `pindexIntermediate`, `pindexCur`,
`vResurrect` and `vDelete` are the locals of the call in progress.
`AddToBlockIndex` commits the index record and, for more trust, enters
`SetBestChain` (`begin`). `BeginExtend` is its first branch (the new block
extends the best one), `BeginReorganize` the second, with `pindexIntermediate`
chosen by `Intermediate`: the first block of the new branch with more trust than
the best block; the ones above it are postponed.
`ReorganizeDisconnect`, `ReorganizeConnect`, `ReorganizeFail`,
`ReorganizeCommit`, `Resurrect`, `Delete` are the loops of `Reorganize`;
`SetBestChainInner` connects one block in its own batch, `SecondaryFail` is the
`break` of the loop over the postponed blocks and `Finish` the tail that sets
`pindexBest`. A connect can fail because the block is invalid or for a reason
that goes away (disk); a commit can fail. `Crash` may happen at every step and
loses everything but `disk` and `nBestInvalidTrust`; `LoadBlockIndex` rebuilds
memory and may roll back to an ancestor of the best block by `SetBestChain`, as it
does when `CheckBlock` fails for one of the last blocks it reads. `broken` is a history variable: the loop
over the postponed blocks has once stopped early (see finding 1).

**OrphanBlocks.** `ProcessBlock(b, pfrom, fImporting)` is the call up to its
loops: the refusals, the duplicate-stake rule (not applied while importing or
reindexing), and then either `AcceptBlock` with the start of the adoption loop or,
for a block without its predecessor, the start of `PruneOrphanBlocks` at a random
entry. `PruneWalk` and `PruneErase` are the steps of that function: from the
iterator `it` to any successor in the multimap, and the erasure of an orphan that
has none. `HoldOrphan` enters the block into both maps and asks for the root of its
chain unless `IsInitialBlockDownload`. `AdoptOrphan` is one pass of the inner loop,
after which the multimap still has the orphan; `NextInQueue` ends it and erases the
whole key. A block of `MayFailNow` can be refused now and taken later (time of the
block, synchronized checkpoint, stake kernel, disk). A restart can come between any
two of these steps. `asked` stands for the outstanding `getdata` of `AskFor`;
`unattached`, `turnedAway` and `unasked` are histories of what can leave an orphan
waiting.

**TxRelay.** `ReceiveAccepted` and `ReceiveOrphan` are the two outcomes of the
first `AcceptToMemoryPool` in the handler; `TryOrphan`, `NextInQueue` and
`EraseOrphans` its loop. `AttachBlock` confirms transactions meanwhile.

**InstantX.** The `txlreq` handler is two steps, because nothing protects the
maps between `CreateNewLock` and the end: `TxLockRequest`, then `TxLockAccept`
or `TxLockReject`. `LockVote` is `txlvote` with `ProcessConsensusVote`,
`InvalidVote` the one with a blanknode that is not on the list, `WalletRequest`
the local wallet's own request, `CleanTransactionLocksList` the cleaning. The
hash of a vote is (blanknode, transaction): the height is not in it, as in
`CConsensusVote::GetHash`. The vector `vecConsensusVotes` is a set of votes that carry
their place in it (`nth`), so that a vote entered twice is there twice.
`mapTxLockReq[t] = "empty"` is the default
transaction that `operator[]` creates.

**ZerosendPool.** `pool` is `CZerosendPool`; `Accept`/`AcceptTooRecent` are
`ssa`, `Submit` is `ssi`, `Sign` is `sss`, each with the call of `Check` that
ends it; `CheckTimeout` and `CheckForCompleteQueue` are the thread.
`joined`, `invited` and `owed` are what clients were told and have yet to answer:
the environment answers as late as it likes. The handlers of `ssi` and `sss` do not
look at who sends them, so `Submit(c, FALSE)` and `Sign` without anything owed are
messages nobody asked for, possible in every state and any number of times; the
history `asked` of an entry says that only messages that were asked for came about
it. A client stands for its inputs; an `ssi` that names inputs of a client is taken
to have that client's denominations.

**SecureMessages.** Per node: `file` is the store on disk, `offset` the tokens in
memory, `lock`/`lockPeer` the bucket locks, `queue` the send queue in the
database, `pow` what the proof-of-work thread has taken from it; per connection
`peer` is `smsgData` and `chan` what is under way, in order. One action per
received message (`RecvInv` … `RecvIgnore`, together `SecureMsgReceiveData`), each
with its answers; `SendPing` and `SecureMsgSendData` are the two halves of the
function of the send loop; `ThreadSecureMsg` is one round of the thread (expiry,
lock count-down, giving up a lock and telling the peer); `SecureMsgSend` queues an
own message, `PowTake` erases it from the queue, `PowStore` stores it, `PowFails` and
`PowStoreFails` are the two error paths in which it is gone; `SecureMsgEnable`,
`SecureMsgDisable` and `SecureMsgScanBuckets` are the commands. Connections break
and come back, processes crash and restart from their files. There are two clocks:
a bucket expires by its own time (`expired`), which is what the thread, the
announcements and `BuildBucketSet` look at, and a message becomes too old by its
timestamp (`past`, action `Pass`), which is what `SecureMsgStore` looks at, up to a
bucket's length later. `gaveUp`, `scanned` and `lost` are histories that the
properties use for their exceptions.

**KeyPool.** `setKeyPool` and the `pool` records on `disk`; a user is a
`CReserveKey` with `nIndex` and `vchPubKey`. `ReserveKey`, `ReturnKey`,
`TopUpKeyPool(nSize)` (0 for `-keypool`, or the size given to `keypoolrefill`),
`GetKeyFromPool`, `LockWallet`, `UnlockWallet` and `Restart` (every record of the
file is in the pool again) are whole calls under `cs_wallet`. Encryption is in
steps, because each of them is a write of its own to the file: `EncryptWallet`
commits the encrypted keys, `ErasePool` erases one old record, `ClearPool` empties
`setKeyPool`, `WritePool` adds one new key, `EncryptDone` returns with the wallet
locked. Between them come `KeepKey`, which takes no lock, and a restart. Histories:
`largest` is the largest size the pool was asked to have; `interrupted`, that the
process stopped between the commit and the last erasure; `stranded`, that the pool
ran dry, or was replaced by `EncryptWallet`, while a key was reserved:
`TopUpKeyPool` then starts at index 1 and overwrites records (section 6), and the
properties are stated until that happens.

**BlanknodeList.** Every node's entry for one blanknode, with ages in ticks instead
of times. `Deliver` is `ProcessMessage` for `ssee` (`SseeAdd`, `SseeUpdate`),
`sseep` (`SseepKnown`, `SseepUnknown`) and `sseg` (`Sseg`); `CheckAndRemove` is
the thread's sweep. `Check` begins with `TRY_LOCK(cs_main)`: in the sweep that always
succeeds, because `ThreadCheckZeroSendPool` holds `cs_main`, a recursive mutex,
around `snodeman.CheckAndRemove` (`zerosend.cpp:2226-2234`); in the handlers and at
the load of the cache it may fail. `ScanFailed` and
`ScanSucceeded` are the scanning results; `ManageStatus`, `StopBlankNode`,
`StartBlankNode` and `HostDies` are the host; `DumpBlanknodes` writes
`sncache.dat` and `Restart` starts from it, however old it is, or from nothing, and
`RestartUnchecked` is the start whose `Check` does not get the lock. Both forget a
spend that was known from the memory pool only.
`LearnSpent` lets each node hear in its own time that the collateral is spent;
`silence` counts the ticks since the host last signed or a node last loaded an
enabled entry unchecked (`pinged` marks the tick in which it did).

## 3. Runs

Passing runs (TLC, deadlock checked unless stated):

| Run | Instance | States | Shows |
|---|---|---|---|
| `best_chain` | 8 blocks, two branches that overtake each other three times, a third with a double spend; 11 transactions; 1 crash | 72 k | type, `IndexDescribesBestChain`, `NoDoubleSpend`, `CanDisconnect`, `MemoryFollowsDisk`, `DiskIsLoadable`, `PoolIsConsistent`, `PoolIsUnconfirmed`, `ImplementsLedger`, `AlwaysReturns` |
| `orphan_blocks` | 8 blocks on two branches, one refused by `AcceptBlock`, one by `CheckBlock`, one at times, one that may not attach; two stakes on both branches, room for 2 orphans, 1 restart | 14 k | type and the limit on orphans, `OrphanMapsAgree`, `NoOrphanLeftBehind`, `StakeSetsDescribeBlocks`, `PruneKeepsChains`, `OrphansResolve` |
| `tx_relay` | 3 blocks, 6 loose transactions (chain, diamond, conflict, oversized), room for 2 orphans | 539 | type and the limit on orphans, `OrphanTxMapsAgree`, `RelayedAreNotOrphans` |
| `instantx` | 2 conflicting transactions, 2 blanknodes of which this node is one, quorum 2, 2 heights | 489 k | `OneVotePerBlanknode`, `LockedByConsensus`, `LocksExpire` |
| `zerosend_pool` | 2 clients, pool of 2 (test network), queue time-out 2 ticks, signing time-out 1, one input spent elsewhere | 324 k | type, `OneEntryPerInput`, `SigningWhatWasMerged`, `PublishedIsMixed`, `ChargedForACause`, `SessionEnds` |
| `smsg` | 2 nodes, 1 bucket, 2 messages of which one is stored and one still to be written, bunches of 1, 1 fault (crash, lost connection, disable, scan, a failing step of the send queue), at most 2 messages under way one way | 897 k | `TokensDescribeFiles`, `OneRequestPerBucket`, `ExpiredStaysOut` |
| `smsg_live` | the same with 1 message under way, where the fault is a crash or a failing step of the send queue | 52 k | `Converges`, `QueuedIsStored` |
| `keypool` | 3 users, `-keypool=1`, refills to 2, 7 keys, 1 restart; users are symmetric | @KPN | type and the bound on records, `KeysHandedOutOnce`, `PoolIsReadable`, `OldKeysRetired` |
| `blanknodes` | host and relay, 2 announcements, collateral spendable, 1 fault (restart from the cache, checked or not, scanning error, late message) | 731 k | `SpentStaysOut` |
| `blanknodes_live` | host, relay and a far node in a line, 1 announcement, 1 fault, collateral unspent | 194 k | `SilentIsNotEnabled`, `AliveIsListed` |

Why the bounds suffice. *best_chain*: the tree has a fork below two blocks, so
reorganizations disconnect and connect more than one block, in both directions,
postpone blocks, resurrect a transaction that conflicts with one of the new
branch and meet a block that must not connect; one crash reaches every pair
(step, restart), including heavier blocks left unattached; a second would start
from a state of the same kind. *orphan_blocks*: a limit of 2 with branches of
length 3 makes the walk of the pruning take a step, and each stake is on both
branches. *tx_relay*: 2
orphans against 4 possible ones makes eviction random; the diamond `tb` has two
parents. *instantx*: two voters are the least with which a double count differs
from a quorum; two transactions the least for a conflict. *zerosend_pool*: two clients
are the least that can mix, and either can be outside a session or back from an
earlier one, which is what
late messages and those nobody asked for need. Times are counted in ticks, with only
the order of the time-outs kept (signing before queue). *smsg*: with bunches of one, two messages
in a bucket do not fit one `smsgMsg`, and each node can hold a message the other
lacks; one lock tick lets every answer be late; a bucket is enough because locks,
files and announcements are per bucket, and a lock held for another peer needs
only that the holder gave it up. In *smsg_live* the crash also makes the connection
begin again with its pings. *keypool*: three users reserve past the lowest
index, return out of order and meet a pool of two; 7 keys allow two top-ups, an
encryption and a restart at each of its steps. *blanknodes_live*: the far node hears the host only through
the relay, so entries, echoes and requests of a third node take part. *blanknodes*: two
announcements are the least with which an older one can come after a newer one;
restarts need no third node, what a node starts with is in its own cache.
The ticks keep the order of the six time-outs of the code.

Deadlock is not checked in `best_chain`, where the finite tree is used up
and the crash bound is reached, and in the InstantX runs: a node whose locks have
expired and that is sent nothing has nothing to do, and is at rest. The other runs
with `CHECK_DEADLOCK FALSE` stop when their named bounds are used up: all keys
generated, the bucket expired and nothing left to send, the host dead and its
entry removed everywhere.

The runs `best_block_committed` and `keypool_crash` are expected to find a violation:
findings 1 and 2 of section 6.

## 4. Fairness

Only steps of the modelled nodes and of their clocks are fair; peers outside the
model, clients, voters, commands and blocks never have to do anything, with one
exception.

* `BlockChain`: `WF(Step)`. `SetBestChain` and `LoadBlockIndex` are straight-line
  code under `cs_main`; nothing in them waits.
* `OrphanBlocks`: `WF(Hold \/ Adopt)`, the loops in `ProcessBlock`; and `SF` that a
  block asked for is answered. The second is the exception: it states what
  `OrphansResolve` depends on, that some peer that announced a descendant has the
  ancestor and its answer is not lost. It is strong because the answer may have to
  wait for `cs_main` again and again.
* `InstantX`: `WF(Tick)` (time passes), `WF(HandlerEnds)` (a handler ends) and
  `WF(CleanTransactionLocksList)`, which the pool thread calls every minute.
* `ZerosendPool`: `WF(Tick)`, `WF(CheckTimeout)`, `WF(CheckForCompleteQueue)`: the
  thread calls both every second. `SessionEnds` holds unless `ssi` that nobody asked
  for come for ever: each one that is refused takes a user away, and the next `ssa`
  counts one more and begins the waiting time again.
* `SecureMessages`: `WF` of `ThreadSecureMsg`, `PowTake` and `PowStore` (threads
  that loop as long as messaging is on), of `SecureMsgReceiveData` (a connection
  delivers what it carries) and `SendPing`, and of `IgnoreEnds` (the 90 seconds of
  `SMSG_TIME_IGNORE` pass). `SF` of `SecureMsgSendData` with the wake counter at zero: the function
  is called for every connection in every round of the send loop, each call
  counts down, so a connection that can be served again and again is again and
  again served with the counter at zero. Faults are not fair.
* `BlanknodeList`: `WF` of `Deliver`, `CheckAndRemove`, `ManageStatus` and `Tick`:
  links deliver, the pool thread sweeps and manages, time passes. `AliveIsListed`
  itself assumes that the host keeps running from some time on. (The thread returns
  at once if it is started during the initial block download; the model is of a node
  on which it runs.)

## 5. Proofs

TLAPS proves the following for **every** value of the constants that satisfies
the modules' `ASSUME`s: for every block tree, set of transactions, network, number
of clients, pool size, limit and time-out, and for any number of crashes and
other faults. Every invariant and action property of a passing run is the subject
of a theorem (`PROJECT.json` pairs them). None of them is inductive as it stands;
each proof module begins with the invariant that is, which TLC has checked on the
run's instance too, has one lemma per action and ends with the theorems.

**The best chain** (`BlockChainProofs`). Assumptions:
`TreeAssumption` (heights and trust grow along `pprev`, as `AddToBlockIndex`
computes them), `TxAssumption` (a coinbase has no inputs; the height in the
coinbase keeps one from being repeated on a branch; the genesis coinbase is never
connected, as `SetBestChain` has it), `NoTxAssumption`, `ChainAssumption`.
The theorems are `TypeCorrect`, `IndexCorrect`, `DoubleSpendFree`,
`DisconnectNeverFails`, `PoolCorrect`, `MemoryCorrect`, `DiskCorrect`,
`PoolUnconfirmed` and `Refinement` (BlockChain implements Ledger).

The properties speak of `disk`, but a step of a reorganization works on `batch`.
`ChainInv` adds where `batch` stands:
`BatchInv` (outside `Reorganize` nothing is pending), `CursorInv` (`pindexCur`
lies on the way to `pindexNew`), `BestInv` (which of `pindexBest` and `pindexCur`
is the committed block, by `pc`), `IndexInv` (`disk` describes `disk.best`, and
during a reorganization `batch` describes `pindexCur`) and `TargetInv` (why the
call was made). The heart is the first part of the module, about `TxIndex`:
connecting the next block keeps "the index describes exactly this branch",
disconnecting is its inverse and cannot fail, and a branch whose blocks all
connect spends no output twice. `Better` in `TargetInv` gives `Ledger` its trust
condition.

`FollowInv` is what the links and the pool need on top: `IndexedInv` (a block is
indexed with its whole branch, and the blocks in the hands of the call are
indexed), `LinkInv` (`hashNext` traces the branch reached so far in the batch,
`pnext` the committed one), `PositionInv` (the walk never leaves the two branches
and never goes below the fork, so that no link of the common part is touched) and
`UnconfirmedInv` (confirmed transactions are in the pool only between the commit
and the loop over `vDelete`, and `vDelete` has them all). The last three hold until
a postponed block fails (`~broken`, finding 1), as do the properties.

**Orphan blocks** (`OrphanBlocksProofs`). Assumption: `OrphanAssumption`.
`hashPrevBlock` has no cycles (a block contains the hash of its predecessor),
said of finite sets of blocks because the tree itself need not be finite; the
genesis block has no stake. Theorems: `TypeCorrect`, `MapsAgree`,
`NoneLeftBehind`, `StakesAreHeld`, `PruneTakesLeaves`. `OrphanInv` adds
`QueueInv`: an orphan whose predecessor is indexed waits for a block that is still
in `vWorkQueue`, or for one that was indexed without being attached. `HoldInv` says
that the iterator of the pruning stands on an orphan whenever it stands anywhere, so
that the one it erases is one the walk left for want of successors: this and the
agreement of the two maps give `PruneTakesLeaves`. That the walk ends is part of
`OrphansResolve`, left to TLC.

**Transaction relay** (`TxRelayProofs`). Theorems: `TypeCorrect`, `MapsAgree`,
`RelayedLeaveOrphans`. `RelayInv` adds `QueueInv`: what is in the work queue is in the
pool and in the erase queue, so that it leaves the orphans when the call ends.

**InstantX** (`InstantXProofs`). Assumption: `InstantXAssumption`; nothing is
assumed of the ranks but that they name blanknodes. Theorems: `NoDoubleVote`,
`ConsensusLocks`. `LockInv` has three parts: `MapsInv` (types), `LocksInv` (every
vote in a lock is remembered in `mapTxLockVote`, is by a top-ranked blanknode of
its height, and no other vote of the lock is by the same one: this is what makes
counting votes count blanknodes) and `InputsInv` (an input locked for a request that was not
refused is an input of it, and it has a quorum of voters).

**The mixing pool** (`ZerosendPoolProofs`). Assumption: `PoolAssumption`
(at least two participants, signing time-out not above queue time-out).
Theorems: `PoolTypeCorrect`, `NoInputTwice`, `SignedIsMerged`, `PublishedMixes`,
`ChargesHaveACause`.
`PoolInv` adds `SessionInv`. It is needed for three reasons: `AddEntry` compares
inputs together with their `scriptSig`, so `OneEntryPerInput` survives only
because entries about which only messages came that were asked for are unsigned
until the pool is full; every refused entry lowers
`sessionUsers`, so `ssa` can only be shown not to clear a session that is
signing because a session with entries keeps at least
`GetMaxPoolTransactions - 1` users; and a signature that was asked for can be of an
earlier session only for a client that has no entry awaiting one. Messages nobody
asked for come at any time in all of this. `OneEntryPerInput` and the part of
`SigningWhatWasMerged` about signatures therefore speak of the entries about which
none came (`asked`); that what is published mixes enough clients, and what is
charged for, hold whatever is sent. The charges need
`PublishedIsSpent` besides: what a published transaction spends stays spent.

**Secure messages** (`SecureMessagesProofs`). Assumption: `Assumptions` (finitely
many messages and buckets). Theorems: `TokensLeadToRecords`, `AskedForOnce`,
`ExpiredNeverReturns`. `MessageInv` has three parts. `MessageTypes` says among the types
that every record is in the file of its bucket and every `smsgMsg` carries
messages of its own bucket only. `StoreInv`: no record twice, and the tokens of a
running node are the records of its files; `SecureMsgStore` keeps it because it
refuses from the first message on that the node has or that is repeated in the bunch.
`LockInv`: a bucket that is neither locked nor expired has no request and no answer under
way, and no bucket has two. A connection delivers in order and each handler takes
the first message, so the proof follows an *item* (a request or its answer)
along the queues: taking a message moves the others up by one place, `RecvHave` adds
an item only where there was none, `RecvWant` replaces the request by its answer,
`RecvMsg` consumes it together with the lock, and a crash cuts every link that could
carry one. `ExpiredNeverReturns` names the one way back: the message the
proof-of-work thread holds, while its own timestamp is good.

**The key pool** (`KeyPoolProofs`). Assumption: finitely many users. Theorems:
`TypeCorrect`, `HandedOutOnce`, `PoolReadable`, `OldKeysGone`. `KeyPoolInv` says,
until the pool is `stranded` and while it is not being erased: the records of the file are the indices of the pool and those that
users hold, which are disjoint; each has a key of its own that is neither in use
nor, if the process did not stop between the commit and the last erasure, from before
the encryption; and above every reserved index there is one in
the pool, which is why `TopUpKeyPool`, going on from the end of the pool, never
overwrites the record of a reservation. `EraseSound` and `WriteSound` say what is left
of this between the steps of `NewKeyPool`. The bound on the records counts from the
`largest` size the pool was asked to have.

**The blanknode list** (`BlanknodeListProofs`). Assumption: `Assumptions`
(connections go both ways, the order of the time-outs). Theorems: `SilentLeaves`,
`SpentIsOut`. `ListInv` relates every copy of `lastTimeSeen` (in entries, in
announcements under way and in `sncache.dat`) to how long the host has been silent:
none is younger than the silence, less one tick for each late message. An entry that
is enabled was swept, or loaded unchecked, within the expiry time, since `Tick` waits
for the thread;
an age of 0, which a receiver reads as "now", is sent only while the silence does
not exceed the delays.

Only model-checked: liveness (`AlwaysReturns`, `OrphansResolve`, `LocksExpire`,
`SessionEnds`, `Converges`, `QueuedIsStored`, `AliveIsListed`), which is out of the
prover's reach, and what the two findings show.

## 6. Findings

1. `best_block_committed`: after a reorganization to `pindexIntermediate`,
   `SetBestChain` leaves its loop when a postponed block fails ("errors now are
   not fatal") and still makes `pindexNew` the best block, for which nothing was
   committed. The other properties of `BlockChain` are stated until this happens
   (`~broken`), and `Ledger` has the step `Lose` for it. In the run's trace the
   process stops between the two batches of a block `p1`, which is then in the block
   index and not committed; after the restart a child of `p1` arrives, `p1` is
   committed as `pindexIntermediate`, the child does not connect, and the child is
   made the best block.
2. `keypool_crash`: `EncryptWallet` commits the encrypted keys and only then calls
   `NewKeyPool`, which erases the old records one by one ("Mark old keypool keys as
   used, and generate all new keys"). A process that stops in between starts again
   with an encrypted wallet whose pool offers keys that were stored in the clear; no
   later step replaces them. `OldKeysRetired` is stated for a wallet to which this
   did not happen (`~interrupted`).

Also met while modelling, and not the subject of a run. The models follow the
code in each of these; where a property would fail because of one, its statement
names the exception.

*Transactions, InstantX, Zerosend*

* An orphan transaction whose parent has just entered the pool is tried again and
  fails again, because inputs are looked up in the index only; it stays an orphan
  until the parent is confirmed.
* Inputs locked for a *rejected* request are never unlocked.
* When the votes arrive before the request, the lock becomes complete but no input
  is locked.
* A client left over from an earlier session can enter a session of another
  denomination; entries are compared with each other, not with `sessionDenom`.
  (What is published is still of equal denominations: `PublishedMixes`.)
* `SetBestChainInner` removes a block's transactions from the pool but not the ones
  in conflict with them, which stay there and cannot be mined; the pool's two maps
  agree all the same.
* A signature that was not asked for hides its entry from the comparison in
  `AddEntry`, and the one that was asked for then reaches the merged transaction
  only. `AcceptToMemoryPool` refuses what comes of it, so that nothing wrong is
  published (`PublishedMixes`).
* An `ssi` that is refused lowers `sessionUsers` and the next `ssa` begins the
  waiting time again, so a session is not bound to end while they keep coming.
* Offences are counted per input, so one client with three inputs that refuses to
  sign counts as "everyone" and cannot be charged.
* `AcceptBlock` returns false also when the block was indexed and only
  `SetBestChain` failed; `ProcessBlock` then returns before the adoption loop, so
  orphans stay held although their predecessor is known. `NoOrphanLeftBehind`
  is stated with this exception (`unattached`).
* "Duplicate stake allowed only when there is orphan child block" is enforced
  when a block is received, not when an orphan is adopted.
* A request that `AcceptToMemoryPool` rejects enters its inputs into
  `mapLockedInputs` with no vote at all, while the block filter's comment says it
  works on complete consensus. `LockedByConsensus` excludes such requests
  (`refused`).
* The answer to `ssa` that logs "last ssq too recent, must wait" is
  `BLANKNODE_ACCEPTED`; the model has it so (`AcceptTooRecent` lets the client
  believe it has joined).

*Secure messages*

* `SecureMsgScanBuckets` removes the data files it has read, while the tokens stay
  in memory: they lead to no record, and what is asked for by token cannot be
  sent (`scanned`).
* `SecureMsgWalletUnlocked` is never called: what was received while the wallet
  was locked is not scanned until the user scans everything.
* `SecureMsgDisable` joins the threads while it holds `cs_smsg`, for which they
  may be waiting.
* A `smsgMatch` that a change of the bucket overtakes marks the changed bucket as
  matched. Only the wake counter, which announces everything, repairs it:
  without it `Converges` fails.
* The proof-of-work thread erases the queued message before it has stored it: a
  crash, a failing proof of work or a failing write lose it (`lost`).
* A queued message can make a bucket anew that was dropped as too old, because
  `SecureMsgStore` looks at the timestamp of the message and the others at the time
  of the bucket.
* `SecureMsgReceive` stops at the first message it has already, and drops the rest
  of the bunch; the lock and the next announcement bring it again.
* A `smsgMsg` that comes late releases the lock of its bucket, also when another
  peer holds it by then (`gaveUp`).
* `ThreadSecureMsg` increments an iterator after erasing its element.

*Key pool*

* `keypoolrefill` with a size fills the pool to that size; nothing shrinks it again.
* When the pool runs dry while an index is reserved (a locked wallet, or
  `-keypool=0`), the next top-up starts at index 1: it can overwrite the record
  of the reserved index, which `KeepKey` then erases, and the same key can be
  handed out twice after `ReturnKey`.
* A key reserved while `EncryptWallet` replaces the pool survives "Mark old keypool
  keys as used"; returned, its index is in the new pool.

*Blanknodes*

* `Check` returns first for `POS_ERROR`: a silent or spent blanknode in that state
  is never expired or removed, and its pings are not relayed.
* A stop ping is ignored by a node that has updated the entry within the minimum
  time between pings; `Disable` sets `lastTimeSeen` to 0, which the answer to `sseg`
  carries and its receiver reads as "now". `SilentIsNotEnabled` shows that this
  postpones the end by no more than the expiry time.
* `ssee` refreshes `lastTimeSeen` before it compares `sigTime`; announcements with
  an old `lastUpdated` are relayed all the same.
* A start whose `Check` does not get `cs_main` takes over the entries of the cache as
  they are, expired or spent; the next sweep corrects them.
* A host that was stopped enables itself again when it hears its own announcement.
* `DoBlanknodePOSChecks` sends a success also after an error.
* `CBlanknodeMan::Remove` does not advance its iterator past an entry that is not
  the one to remove, and `StopBlankNode(alias)` passes an empty input.

## 7. Plan

Done: best chain, pool, orphans, relay, InstantX, mixing pool, secure messages, key
pool, blanknode list, and the proofs of their safety properties. Left, in this
order:

1. `ZerosendClient`, composed with `ZerosendPool`: local states, coins locked and
   unlocked, the client's check of the merged transaction before it signs.
2. Several blanknodes in `BlanknodeList`, with scores and ranks that read a cached
   block hash across a reorganization; InstantX's `TopRanked` becomes a view of
   it.
3. `Wallet`: the wallet's view of connected and disconnected blocks, on top of
   `BlockChain`, with its notifications before the commit.
4. `InventoryRequests` (`mapAskFor`), `StakeModifier` (pure, against a reference
   definition), `Miner`, `Market` on top of `SecureMessages`, address manager.

Theorems worth proving next: that a message stored at a node stays there until its
bucket expires (an action property from `StoreInv`); that `OrphanBlocks`' adoption
loop never adopts a block twice; an abstract specification of an exactly-once key
dispenser that `KeyPool` implements; and the safety of each module above as it is
written.

## 8. What is left out

In the modelled parts: signatures, scripts, amounts and fees are a constant
verdict on a block or transaction; money supply, the address index and the
blanknode and Zerosend hooks at the end of `ProcessBlock` are left out, as are
`getblocks` (also the one `ProcessBlock` sends for an orphan's root), misbehaviour scores, the rate limit on relayed votes
(`mapUnknownVotes`), the scanning errors of silent blanknodes and the display
time-out `nTimeout`. LevelDB is assumed to apply a batch atomically. A failing
commit of the block index record itself and the very first start are not
modelled. Data races are modelled between handler steps, not inside them: a
vector changed under another thread's iterator has no defined outcome to check.
`ZerosendPool` drops `sessionID`: `ssi` and `sss` do not carry it, and what a
client believes is in the environment. `CZerosendPool::SignatureValid` compares
inputs with their `scriptSig` and so finds none to verify; every signature that
arrives is taken, as in the code, and the final check rejects a wrong one.
The permission to send a free mixing transaction (`sstx`) is left out.
`SecureMessages` leaves out encryption, the in-box, the work of the proof of work
and the files of messages received while the wallet is locked; all messages are
valid, clocks agree, and a crash happens between two records of a file, not
inside one. `KeyPool` leaves out the default key to which `GetReservedKey` falls back
when the pool is empty. `BlanknodeList` follows one blanknode whose collateral is in
its own wallet: scores and ranks, the `svote` message, which nothing reads, and the
remote activation by another wallet are left out, and a host that dies does not
return.

Blanknode payments and sporks are unreachable in this repository: both are
accepted only with a signature for `strMainPubKey`, which is the empty string
(`blanknode-payments.h:76`, `spork.h:103`), so `CheckSignature` always fails,
`vWinning` and the sporks received stay empty, and a model of what would follow
would describe states the program cannot be in.

Parts not modelled are listed in `PROJECT.json` with the reason. Cryptography,
scripts, 256-bit difficulty arithmetic, sockets, name resolution, RPC and GUI
code stay outside: they are either beyond a model checker at their real width or
have no protocol state.
