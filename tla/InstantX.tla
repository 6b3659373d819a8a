------------------------------- MODULE InstantX -------------------------------
(***************************************************************************)
(* Transaction locks: src/instantx.cpp, at one node.  A lock request       *)
(* ("txlreq") names a transaction, blanknodes vote for it ("txlvote"), and *)
(* when enough of them agree the inputs of the transaction are locked:     *)
(* AcceptToMemoryPool and CheckBlock then refuse other spenders.           *)
(*                                                                         *)
(* The message thread runs the two handlers without cs_main; the wallet    *)
(* and the cleaning thread run beside it.  The lock request handler is     *)
(* therefore two steps, before and after AcceptToMemoryPool.  A lock's     *)
(* nExpiration is kept relative to GetTime(): the time it has left, -1     *)
(* once it has expired.                                                    *)
(***************************************************************************)
EXTENDS Integers, FiniteSets

CONSTANTS
    Tx, NoTx, OutPoint,
    vin,                            \* the prevouts of a transaction
    Blanknode,
    NoBlanknode,
    activeBlanknode,                \* this node's vin, NoBlanknode when fBlankNode is off
    Height,                         \* values of CConsensusVote::nBlockHeight
    TopRanked,                      \* nodes GetBlanknodeRank puts in the first
                                    \* INSTANTX_SIGNATURES_TOTAL at a height
    lockHeight,                     \* (pindexBest->nHeight - nTxAge) + 4 of a transaction
    INSTANTX_SIGNATURES_REQUIRED,
    Hour                            \* 60*60, in ticks

ASSUME InstantXAssumption ==
    /\ NoTx \notin Tx
    /\ vin \in [Tx -> SUBSET OutPoint]
    /\ NoBlanknode \notin Blanknode
    /\ activeBlanknode \in Blanknode \cup {NoBlanknode}
    /\ Height \subseteq Nat
    /\ 0 \in Height
    /\ TopRanked \in [Height -> SUBSET Blanknode]
    /\ lockHeight \in [Tx -> Height \ {0}]
    /\ INSTANTX_SIGNATURES_REQUIRED \in Nat \ {0}
    /\ Hour \in Nat \ {0}

VARIABLES
    mapTxLockReq,           \* what is stored for a hash: "none", "tx", or "empty", the
                            \* default transaction operator[] creates
    mapTxLockReqRejected,
    mapTxLockVote,          \* votes seen, by CConsensusVote::GetHash: <<blanknode, tx>>
    mapTxLocks,             \* CTransactionLock of a hash, or NoLock
    mapLockedInputs,        \* the transaction an outpoint is locked for, or NoTx
    accepted,               \* transactions in the pool or the best chain
    handling,               \* the request between the two steps of its handler
    refused                 \* history: hashes whose request was ever rejected

vars == <<mapTxLockReq, mapTxLockReqRejected, mapTxLockVote, mapTxLocks, mapLockedInputs,
          accepted, handling, refused>>

\* The votes of a lock are numbered, so that a repeated one counts again: vecConsensusVotes
\* without its order.
NoLock == [nBlockHeight |-> 0, vecConsensusVotes |-> {}, left |-> -2]

HasLock(t) == mapTxLocks[t] # NoLock
NotHandling == [tx |-> NoTx, height |-> 0]

Init ==
    /\ mapTxLockReq = [t \in Tx |-> "none"]
    /\ mapTxLockReqRejected = {}
    /\ mapTxLockVote = {}
    /\ mapTxLocks = [t \in Tx |-> NoLock]
    /\ mapLockedInputs = [o \in OutPoint |-> NoTx]
    /\ accepted = {}
    /\ handling = NotHandling
    /\ refused = {}

-----------------------------------------------------------------------------
\* Only votes for the lock's own height count; a lock made by a vote has none (-1).
CountSignatures(lock) ==
    IF lock.nBlockHeight = 0 THEN -1
    ELSE Cardinality({v \in lock.vecConsensusVotes : v.nBlockHeight = lock.nBlockHeight})

\* Mutant: complete with one signature less.
CompleteTooEarly(lock) == CountSignatures(lock) >= INSTANTX_SIGNATURES_REQUIRED - 1

Complete(lock) == CountSignatures(lock) >= INSTANTX_SIGNATURES_REQUIRED

NewLock(h) == [nBlockHeight |-> h, vecConsensusVotes |-> {}, left |-> Hour]

\* CreateNewLock: height is 0 when an input is less than 6 blocks deep.
CreateNewLock(locks, t, height) ==
    IF height = 0 THEN locks
    ELSE [locks EXCEPT ![t] = IF @ = NoLock THEN NewLock(height)
                              ELSE [@ EXCEPT !.nBlockHeight = height]]

\* The inputs of the transaction stored as a request for t, and those of them that are
\* locked for another transaction.
StoredInputs(t) == IF mapTxLockReq[t] = "tx" THEN vin[t] ELSE {}
Conflicts(locked, t, inputs) == {o \in inputs : locked[o] \notin {NoTx, t}}

\* CheckForConflictingLocks found t and the owner of input o: both expire now.
Cancelled(locks, locked, t, o) ==
    [u \in Tx |-> IF u \in {t, locked[o]} /\ locks[u] # NoLock
                  THEN [locks[u] EXCEPT !.left = 0] ELSE locks[u]]

\* Lock the inputs that nobody has locked.
LockInputs(locked, t, inputs) ==
    [o \in OutPoint |-> IF o \in inputs /\ locked[o] = NoTx THEN t ELSE locked[o]]

\* AcceptToMemoryPool cannot succeed otherwise; it may fail for other reasons too.
MayAccept(t) ==
    /\ t \notin accepted
    /\ \A u \in accepted : vin[u] \cap vin[t] = {}
    /\ Conflicts(mapLockedInputs, t, vin[t]) = {}

\* DoConsensusVote: this node's own vote goes out, and into mapTxLockVote only.
OwnVote(t, height) ==
    IF activeBlanknode \in TopRanked[height] THEN {<<activeBlanknode, t>>} ELSE {}

\* "txlreq" until CreateNewLock.
TxLockRequest(t) ==
    /\ handling = NotHandling
    /\ mapTxLockReq[t] = "none"
    /\ t \notin mapTxLockReqRejected
    /\ \E height \in {0, lockHeight[t]} :
          /\ mapTxLocks' = CreateNewLock(mapTxLocks, t, height)
          /\ handling' = [tx |-> t, height |-> height]
    /\ UNCHANGED <<mapTxLockReq, mapTxLockReqRejected, mapTxLockVote, mapLockedInputs,
                   accepted, refused>>

\* AcceptToMemoryPool took the transaction: vote, and keep the request.
TxLockAccept(t) ==
    /\ handling.tx = t
    /\ MayAccept(t)
    /\ accepted' = accepted \cup {t}
    /\ mapTxLockVote' = mapTxLockVote \cup OwnVote(t, handling.height)
    /\ mapTxLockReq' = [mapTxLockReq EXCEPT ![t] = IF @ = "none" THEN "tx" ELSE @]
    /\ handling' = NotHandling
    /\ UNCHANGED <<mapTxLockReqRejected, mapTxLocks, mapLockedInputs, refused>>

(***************************************************************************)
(* AcceptToMemoryPool refused it: the inputs that nobody has locked are    *)
(* locked for it all the same, and it is kept as a request when its lock   *)
(* was complete already and has no conflict.                               *)
(***************************************************************************)
TxLockReject(t) ==
    /\ handling.tx = t
    /\ mapTxLockReqRejected' = mapTxLockReqRejected \cup {t}
    /\ refused' = refused \cup {t}
    /\ mapLockedInputs' = LockInputs(mapLockedInputs, t, vin[t])
    /\ LET found == Conflicts(mapLockedInputs', t, vin[t])
       IN  \/ /\ ~Complete(mapTxLocks[t])
              /\ UNCHANGED <<mapTxLocks, mapTxLockReq>>
           \/ /\ Complete(mapTxLocks[t])
              /\ found = {}
              /\ mapTxLockReq' = [mapTxLockReq EXCEPT ![t] = IF @ = "none" THEN "tx" ELSE @]
              /\ UNCHANGED mapTxLocks
           \/ /\ Complete(mapTxLocks[t])
              /\ \E o \in found : mapTxLocks' = Cancelled(mapTxLocks, mapLockedInputs', t, o)
              /\ UNCHANGED mapTxLockReq
    /\ handling' = NotHandling
    /\ UNCHANGED <<mapTxLockVote, accepted>>

\* Mutant: mapTxLockVote is not looked up.
SeenNothing(b, t) == FALSE

\* A vote of this blanknode for this transaction was seen before, at whatever height.
Seen(b, t) == <<b, t>> \in mapTxLockVote

\* The lock of t with the vote of b for height h added.
WithVote(t, b, h) ==
    LET lock == IF HasLock(t) THEN mapTxLocks[t] ELSE NewLock(0)
        same == {v \in lock.vecConsensusVotes : v.vinBlanknode = b /\ v.nBlockHeight = h}
        ctx  == [vinBlanknode |-> b, nBlockHeight |-> h, nth |-> Cardinality(same) + 1]
    IN  [lock EXCEPT !.vecConsensusVotes = @ \cup {ctx}]

\* "txlvote" that is remembered and goes no further: rank or signature are not right.
InvalidVote(b, t) ==
    /\ handling = NotHandling
    /\ ~Seen(b, t)
    /\ mapTxLockVote' = mapTxLockVote \cup {<<b, t>>}
    /\ UNCHANGED <<mapTxLockReq, mapTxLockReqRejected, mapTxLocks, mapLockedInputs,
                   accepted, handling, refused>>

(***************************************************************************)
(* "txlvote" with ProcessConsensusVote: the vote is added to the lock, and *)
(* when the lock is complete the inputs of the stored request are locked   *)
(* unless one is locked for another transaction: then both locks expire.   *)
(***************************************************************************)
LockVote(b, t, h) ==
    /\ handling = NotHandling
    /\ ~Seen(b, t)
    /\ b \in TopRanked[h]
    /\ mapTxLockVote' = mapTxLockVote \cup {<<b, t>>}
    /\ LET locks  == [mapTxLocks EXCEPT ![t] = WithVote(t, b, h)]
           inputs == StoredInputs(t)
           found  == Conflicts(mapLockedInputs, t, inputs)
       IN  \/ /\ ~Complete(locks[t])
              /\ mapTxLocks' = locks
              /\ UNCHANGED <<mapTxLockReq, mapLockedInputs>>
           \/ /\ Complete(locks[t])
              /\ mapTxLockReq' = [mapTxLockReq EXCEPT ![t] = IF @ = "none" THEN "empty" ELSE @]
              /\ \/ /\ found = {}
                    /\ mapTxLocks' = locks
                    /\ mapLockedInputs' = LockInputs(mapLockedInputs, t, inputs)
                 \/ /\ \E o \in found :
                          mapTxLocks' = Cancelled(locks, mapLockedInputs, t, o)
                    /\ UNCHANGED mapLockedInputs
    /\ UNCHANGED <<mapTxLockReqRejected, accepted, handling, refused>>

\* CommitTransaction with "txlreq": the wallet's own request, after AcceptToMemoryPool.
WalletRequest(t) ==
    /\ MayAccept(t)
    /\ accepted' = accepted \cup {t}
    /\ mapTxLockReq' = [mapTxLockReq EXCEPT ![t] = IF @ = "none" THEN "tx" ELSE @]
    /\ \E height \in {0, lockHeight[t]} : mapTxLocks' = CreateNewLock(mapTxLocks, t, height)
    /\ UNCHANGED <<mapTxLockReqRejected, mapTxLockVote, mapLockedInputs, handling, refused>>

Expired == {t \in Tx : mapTxLocks[t].left = -1}

\* The votes of a lock.
VotesOf(t) == {<<v.vinBlanknode, t>> : v \in mapTxLocks[t].vecConsensusVotes}

\* Mutant: the inputs stay locked.
CleanKeepsInputs ==
    /\ Expired # {}
    /\ mapTxLocks' = [t \in Tx |-> IF t \in Expired THEN NoLock ELSE mapTxLocks[t]]
    /\ LET known == {t \in Expired : mapTxLockReq[t] # "none"}
       IN  /\ mapTxLockReq' = [t \in Tx |-> IF t \in known THEN "none" ELSE mapTxLockReq[t]]
           /\ mapTxLockReqRejected' = mapTxLockReqRejected \ known
           /\ mapTxLockVote' = mapTxLockVote \ UNION {VotesOf(t) : t \in known}
    /\ UNCHANGED <<mapLockedInputs, accepted, handling, refused>>

(***************************************************************************)
(* CleanTransactionLocksList: every expired lock goes; its request, its    *)
(* votes and the locks on its inputs go only when the request is stored.   *)
(***************************************************************************)
CleanTransactionLocksList ==
    /\ Expired # {}
    /\ mapTxLocks' = [t \in Tx |-> IF t \in Expired THEN NoLock ELSE mapTxLocks[t]]
    /\ LET known == {t \in Expired : mapTxLockReq[t] # "none"}
           freed == UNION {StoredInputs(t) : t \in known}
       IN  /\ mapTxLockReq' = [t \in Tx |-> IF t \in known THEN "none" ELSE mapTxLockReq[t]]
           /\ mapTxLockReqRejected' = mapTxLockReqRejected \ known
           /\ mapTxLockVote' = mapTxLockVote \ UNION {VotesOf(t) : t \in known}
           /\ mapLockedInputs' = [o \in OutPoint |-> IF o \in freed THEN NoTx
                                                     ELSE mapLockedInputs[o]]
    /\ UNCHANGED <<accepted, handling, refused>>

\* Time passes; a tick is long compared with what a handler takes.
Tick ==
    /\ handling = NotHandling
    /\ \E t \in Tx : mapTxLocks[t].left >= 0
    /\ mapTxLocks' = [t \in Tx |-> IF mapTxLocks[t].left >= 0
                                   THEN [mapTxLocks[t] EXCEPT !.left = @ - 1]
                                   ELSE mapTxLocks[t]]
    /\ UNCHANGED <<mapTxLockReq, mapTxLockReqRejected, mapTxLockVote, mapLockedInputs,
                   accepted, handling, refused>>

Next ==
    \/ \E t \in Tx : TxLockRequest(t) \/ TxLockAccept(t) \/ TxLockReject(t) \/ WalletRequest(t)
    \/ \E b \in Blanknode : \E t \in Tx :
          InvalidVote(b, t) \/ \E h \in Height : LockVote(b, t, h)
    \/ CleanTransactionLocksList
    \/ Tick

Spec == Init /\ [][Next]_vars

HandlerEnds == \E t \in Tx : TxLockAccept(t) \/ TxLockReject(t)

\* Time passes, a handler that has begun ends, and ThreadCheckZeroSendPool cleans once a
\* minute.
FairSpec ==
    Spec /\ WF_vars(Tick) /\ WF_vars(HandlerEnds) /\ WF_vars(CleanTransactionLocksList)

-----------------------------------------------------------------------------
\* A blanknode is counted at most once in a lock, whatever heights its votes name and
\* however often they arrive, and only at a height where it ranks among the voters
\* (mapTxLockVote is keyed by blanknode and transaction, and erased with the lock).
OneVotePerBlanknode ==
    \A t \in Tx : \A v \in mapTxLocks[t].vecConsensusVotes :
        /\ v.vinBlanknode \in TopRanked[v.nBlockHeight]
        /\ \A w \in mapTxLocks[t].vecConsensusVotes : w.vinBlanknode = v.vinBlanknode => w = v

\* An input locked for a transaction whose request was never rejected is locked by consensus:
\* the request is stored and at least INSTANTX_SIGNATURES_REQUIRED different blanknodes
\* voted for it at its own height.
LockedByConsensus ==
    \A o \in OutPoint : \A t \in Tx \ refused :
        mapLockedInputs[o] = t =>
            /\ o \in StoredInputs(t)
            /\ Cardinality({v.vinBlanknode : v \in {w \in mapTxLocks[t].vecConsensusVotes :
                                                      w.nBlockHeight = lockHeight[t]}})
                  >= INSTANTX_SIGNATURES_REQUIRED

\* Every lock is removed in the end, and so are the locks on the inputs of a transaction whose
\* request was never rejected: nothing a node or a peer does postpones the expiry for ever
\* ("locks expire after 60 minutes", CleanTransactionLocksList).
LocksExpire ==
    /\ \A t \in Tx : HasLock(t) ~> ~HasLock(t)
    /\ \A o \in OutPoint : \A t \in Tx :
         mapLockedInputs[o] = t ~> mapLockedInputs[o] # t \/ t \in refused
=============================================================================
