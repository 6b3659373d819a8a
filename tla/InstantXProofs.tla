---------------------------- MODULE InstantXProofs ----------------------------
(***************************************************************************)
(* Transaction locks are sound for every number of blanknodes, every       *)
(* threshold and all interleavings of the handlers, the wallet and the     *)
(* cleaning thread: no blanknode is counted twice in a lock, and an        *)
(* accepted request locks its inputs only with a quorum of blanknodes.     *)
(***************************************************************************)
EXTENDS InstantX, FiniteSetTheorems, TLAPS

CConsensusVote == [vinBlanknode : Blanknode, nBlockHeight : Height, nth : Nat]
CTransactionLock ==
    [nBlockHeight : Height, vecConsensusVotes : SUBSET CConsensusVote, left : Int]

\* What holds of a lock of t, where seen is mapTxLockVote: finitely many votes, at most one
\* of a blanknode and all of them remembered; the lock's height is the one of t or missing.
GoodLock(t, lock, seen) ==
    /\ lock \in CTransactionLock
    /\ IsFiniteSet(lock.vecConsensusVotes)
    /\ lock.nBlockHeight \in {0, lockHeight[t]}
    /\ \A v \in lock.vecConsensusVotes :
          /\ <<v.vinBlanknode, t>> \in seen
          /\ v.vinBlanknode \in TopRanked[v.nBlockHeight]
          /\ \A w \in lock.vecConsensusVotes : w.vinBlanknode = v.vinBlanknode => w = v

\* The votes for the height of t, and who cast them.
VotesFor(t, lock) == {w \in lock.vecConsensusVotes : w.nBlockHeight = lockHeight[t]}
Voters(t, lock) == {v.vinBlanknode : v \in VotesFor(t, lock)}

MapsInv ==
    /\ mapTxLockReq \in [Tx -> {"none", "tx", "empty"}]
    /\ mapLockedInputs \in [OutPoint -> Tx \cup {NoTx}]
    /\ mapTxLocks \in [Tx -> CTransactionLock]

LocksInv == \A t \in Tx : GoodLock(t, mapTxLocks[t], mapTxLockVote)

InputsInv ==
    \A o \in OutPoint : \A t \in Tx \ refused :
        mapLockedInputs[o] = t =>
            /\ mapTxLockReq[t] = "tx" /\ o \in vin[t]
            /\ Cardinality(Voters(t, mapTxLocks[t])) >= INSTANTX_SIGNATURES_REQUIRED

\* The inductive invariant.
LockInv == MapsInv /\ LocksInv /\ InputsInv

\* Each vote of a lock has another blanknode, so that counting votes counts blanknodes.
LEMMA VotersCount ==
    ASSUME NEW t \in Tx, NEW lock, NEW seen, GoodLock(t, lock, seen)
    PROVE  /\ IsFiniteSet(VotesFor(t, lock)) /\ IsFiniteSet(Voters(t, lock))
           /\ Cardinality(Voters(t, lock)) = Cardinality(VotesFor(t, lock))
           /\ Cardinality(Voters(t, lock)) \in Nat
<1> DEFINE V == VotesFor(t, lock)
           f == [v \in V |-> v.vinBlanknode]
<1>1. IsFiniteSet(V)
  BY FS_Subset DEF GoodLock, VotesFor
<1>2. f \in Surjection(V, Voters(t, lock))
  BY DEF Surjection, Voters
<1>3. f \in Injection(V, Voters(t, lock))
  BY <1>2 DEF Injection, IsInjective, Surjection, GoodLock, VotesFor
<1> HIDE DEF V, f
<1>4. IsFiniteSet(Voters(t, lock)) /\ Cardinality(Voters(t, lock)) = Cardinality(V)
  BY <1>1, <1>2, <1>3, FS_Surjection
<1> QED
  BY <1>1, <1>4, FS_CardinalityType DEF V

\* CountSignatures: a complete lock of t has a quorum of blanknodes for the height of t.
LEMMA CompleteIsQuorum ==
    ASSUME NEW t \in Tx, NEW lock, NEW seen, GoodLock(t, lock, seen), Complete(lock)
    PROVE  Cardinality(Voters(t, lock)) >= INSTANTX_SIGNATURES_REQUIRED
<1>1. lock.nBlockHeight # 0
  BY InstantXAssumption DEF Complete, CountSignatures
<1>2. lock.nBlockHeight = lockHeight[t]
  BY <1>1 DEF GoodLock
<1>3. CountSignatures(lock) = Cardinality(VotesFor(t, lock))
  BY <1>1, <1>2 DEF CountSignatures, VotesFor
<1> QED
  BY <1>3, VotersCount DEF Complete

\* Votes that are added to a lock leave it with the quorum it had.
LEMMA VotersGrow ==
    ASSUME NEW t \in Tx, NEW k, NEW l, NEW r, NEW s, GoodLock(t, k, r), GoodLock(t, l, s),
           k.vecConsensusVotes \subseteq l.vecConsensusVotes
    PROVE  Cardinality(Voters(t, k)) <= Cardinality(Voters(t, l))
<1>1. Voters(t, k) \in SUBSET Voters(t, l)
  BY DEF Voters, VotesFor
<1> QED
  BY <1>1, VotersCount, FS_Subset

\* Where votes come from does not matter to a lock as long as they stay remembered.
LEMMA SameVotes ==
    ASSUME NEW t \in Tx, NEW k, NEW l, NEW r, NEW s, GoodLock(t, k, r),
           l \in CTransactionLock, l.vecConsensusVotes = k.vecConsensusVotes,
           l.nBlockHeight \in {0, lockHeight[t]},
           \A v \in k.vecConsensusVotes : <<v.vinBlanknode, t>> \in s
    PROVE  GoodLock(t, l, s)
BY DEF GoodLock

\* A lock without votes (CTransactionLock's constructor; an absent lock has none either).
LEMMA EmptyLock ==
    ASSUME NEW t \in Tx, NEW seen
    PROVE  /\ GoodLock(t, NoLock, seen)
           /\ GoodLock(t, NewLock(0), seen)
           /\ GoodLock(t, NewLock(lockHeight[t]), seen)
           /\ NoLock.vecConsensusVotes = {} /\ NoLock.nBlockHeight = 0
           /\ \A h \in Height : NewLock(h).vecConsensusVotes = {} /\ NewLock(h).nBlockHeight = h
<1>1. 0 \in Height /\ lockHeight[t] \in Height /\ Hour \in Int /\ IsFiniteSet({})
  BY InstantXAssumption, FS_EmptySet
<1>2. NoLock = [nBlockHeight |-> 0, vecConsensusVotes |-> {}, left |-> -2]
  BY DEF NoLock
<1>3. ASSUME NEW h \in Height
      PROVE  NewLock(h) = [nBlockHeight |-> h, vecConsensusVotes |-> {}, left |-> Hour]
  BY DEF NewLock
<1>4. ASSUME NEW h \in {0, lockHeight[t]}, NEW n \in Int
      PROVE  GoodLock(t, [nBlockHeight |-> h, vecConsensusVotes |-> {}, left |-> n], seen)
  <2> DEFINE l == [nBlockHeight |-> h, vecConsensusVotes |-> {}, left |-> n]
  <2>1. l \in CTransactionLock /\ l.vecConsensusVotes = {} /\ l.nBlockHeight = h
    BY <1>1 DEF CTransactionLock
  <2> HIDE DEF l
  <2>2. GoodLock(t, l, seen)
    BY <1>1, <2>1 DEF GoodLock
  <2> QED
    BY <2>2 DEF l
<1> QED
  BY <1>1, <1>2, <1>3, <1>4

\* AddSignature after ProcessConsensusVote made sure of a lock: the blanknode had no vote in
\* it, because none of its votes for t is in mapTxLockVote.
LEMMA WithVoteGood ==
    ASSUME LockInv, NEW t \in Tx, NEW b \in Blanknode, NEW h \in Height, ~Seen(b, t), b \in TopRanked[h]
    PROVE  /\ GoodLock(t, WithVote(t, b, h), mapTxLockVote \cup {<<b, t>>})
           /\ mapTxLocks[t].vecConsensusVotes \subseteq WithVote(t, b, h).vecConsensusVotes
<1> DEFINE lock == IF HasLock(t) THEN mapTxLocks[t] ELSE NewLock(0)
           same == {v \in lock.vecConsensusVotes : v.vinBlanknode = b /\ v.nBlockHeight = h}
           ctx == [vinBlanknode |-> b, nBlockHeight |-> h, nth |-> Cardinality(same) + 1]
           new == WithVote(t, b, h)
<1>1. GoodLock(t, mapTxLocks[t], mapTxLockVote)
  BY DEF LockInv, LocksInv
<1>2. GoodLock(t, lock, mapTxLockVote)
      /\ lock.vecConsensusVotes = mapTxLocks[t].vecConsensusVotes
  BY <1>1, EmptyLock, InstantXAssumption DEF HasLock
<1>3. Cardinality(same) \in Nat
  <2>1. IsFiniteSet(same)
    BY <1>2, FS_Subset DEF GoodLock
  <2> QED
    BY <2>1, FS_CardinalityType
<1>4. new = [lock EXCEPT !.vecConsensusVotes = @ \cup {ctx}]
  BY DEF WithVote
<1> HIDE DEF lock, new
<1>5. ctx \in CConsensusVote /\ ctx.vinBlanknode = b /\ ctx.nBlockHeight = h
  BY <1>3 DEF CConsensusVote
<1> HIDE DEF ctx
<1>6. lock \in CTransactionLock
  BY <1>2 DEF GoodLock
<1>7. /\ new \in CTransactionLock
      /\ new.vecConsensusVotes = lock.vecConsensusVotes \cup {ctx}
      /\ new.nBlockHeight = lock.nBlockHeight
  BY <1>4, <1>5, <1>6 DEF CTransactionLock
<1>8. IsFiniteSet(new.vecConsensusVotes)
  BY <1>2, <1>7, FS_AddElement DEF GoodLock
<1>9. \A v \in lock.vecConsensusVotes : v.vinBlanknode # b
  BY <1>2 DEF GoodLock, Seen
<1>10. GoodLock(t, new, mapTxLockVote \cup {<<b, t>>})
  BY <1>2, <1>5, <1>7, <1>8, <1>9 DEF GoodLock
<1> QED
  BY <1>2, <1>7, <1>10 DEF new

\* CreateNewLock adds a lock or sets the height of one; no vote changes.
LEMMA CreateNewLockGood ==
    ASSUME LockInv, NEW t \in Tx, NEW height \in {0, lockHeight[t]},
           NEW locks, locks = CreateNewLock(mapTxLocks, t, height)
    PROVE  /\ locks \in [Tx -> CTransactionLock]
           /\ \A u \in Tx : /\ GoodLock(u, locks[u], mapTxLockVote)
                            /\ locks[u].vecConsensusVotes = mapTxLocks[u].vecConsensusVotes
<1>1. mapTxLocks \in [Tx -> CTransactionLock]
      /\ \A u \in Tx : GoodLock(u, mapTxLocks[u], mapTxLockVote)
  BY DEF LockInv, MapsInv, LocksInv
<1>2. CASE height = 0
  BY <1>1, <1>2 DEF CreateNewLock
<1>3. CASE height # 0
  <2> DEFINE new == IF mapTxLocks[t] = NoLock THEN NewLock(height)
                    ELSE [mapTxLocks[t] EXCEPT !.nBlockHeight = height]
  <2>1. locks = [mapTxLocks EXCEPT ![t] = new]
    BY <1>1, <1>3 DEF CreateNewLock
  <2>2. height = lockHeight[t] /\ height \in Height
    BY <1>3, InstantXAssumption
  <2>3. /\ GoodLock(t, new, mapTxLockVote)
        /\ new.vecConsensusVotes = mapTxLocks[t].vecConsensusVotes
    <3>1. CASE mapTxLocks[t] = NoLock
      BY <2>2, <3>1, EmptyLock
    <3>2. CASE mapTxLocks[t] # NoLock
      <4> DEFINE l == [mapTxLocks[t] EXCEPT !.nBlockHeight = height]
      <4>1. l \in CTransactionLock /\ l.nBlockHeight = height
            /\ l.vecConsensusVotes = mapTxLocks[t].vecConsensusVotes
        BY <1>1, <2>2 DEF CTransactionLock
      <4>2. new = l
        BY <3>2
      <4> HIDE DEF l, new
      <4>3. GoodLock(t, l, mapTxLockVote)
        BY <1>1, <2>2, <4>1 DEF GoodLock
      <4> QED
        BY <4>1, <4>2, <4>3
    <3> QED
      BY <3>1, <3>2
  <2> HIDE DEF new
  <2>4. new \in CTransactionLock
    BY <2>3 DEF GoodLock
  <2> QED
    BY <1>1, <2>1, <2>3, <2>4
<1> QED
  BY <1>2, <1>3

\* CheckForConflictingLocks lets locks expire; no vote changes.
LEMMA CancelledGood ==
    ASSUME NEW locks \in [Tx -> CTransactionLock], NEW seen,
           \A u \in Tx : GoodLock(u, locks[u], seen),
           NEW locked, NEW t \in Tx, NEW o
    PROVE  /\ Cancelled(locks, locked, t, o) \in [Tx -> CTransactionLock]
           /\ \A u \in Tx :
                 /\ GoodLock(u, Cancelled(locks, locked, t, o)[u], seen)
                 /\ Cancelled(locks, locked, t, o)[u].vecConsensusVotes = locks[u].vecConsensusVotes
<1> DEFINE c == Cancelled(locks, locked, t, o)
<1>1. c = [u \in Tx |-> IF u \in {t, locked[o]} /\ locks[u] # NoLock
                        THEN [locks[u] EXCEPT !.left = 0] ELSE locks[u]]
  BY DEF Cancelled
<1>2. ASSUME NEW u \in Tx
      PROVE  /\ c[u] \in CTransactionLock /\ c[u].nBlockHeight = locks[u].nBlockHeight
             /\ c[u].vecConsensusVotes = locks[u].vecConsensusVotes
  BY <1>1 DEF CTransactionLock
<1> HIDE DEF c
<1>3. ASSUME NEW u \in Tx PROVE GoodLock(u, c[u], seen)
  BY <1>2 DEF GoodLock
<1>4. c \in [Tx -> CTransactionLock]
  BY <1>1, <1>2
<1> QED
  BY <1>2, <1>3, <1>4 DEF c

\* Inputs stay locked by consensus while requests are kept, votes are only added, and no
\* input is newly locked for a transaction that was not rejected.
LEMMA InputsKept ==
    ASSUME LockInv, LocksInv', refused \subseteq refused',
           \A t \in Tx : /\ mapTxLockReq[t] = "tx" => mapTxLockReq'[t] = "tx"
                         /\ mapTxLocks[t].vecConsensusVotes \subseteq mapTxLocks'[t].vecConsensusVotes,
           \A o \in OutPoint : mapLockedInputs'[o] \in Tx \ refused' =>
                                  mapLockedInputs'[o] = mapLockedInputs[o]
    PROVE  InputsInv'
<1> SUFFICES ASSUME NEW o \in OutPoint, NEW t \in Tx \ refused', mapLockedInputs'[o] = t
             PROVE  /\ mapTxLockReq'[t] = "tx" /\ o \in vin[t]
                    /\ Cardinality(Voters(t, mapTxLocks'[t])) >= INSTANTX_SIGNATURES_REQUIRED
  BY DEF InputsInv
<1>1. /\ mapTxLockReq[t] = "tx" /\ o \in vin[t]
      /\ Cardinality(Voters(t, mapTxLocks[t])) >= INSTANTX_SIGNATURES_REQUIRED
  BY DEF LockInv, InputsInv
<1>2. GoodLock(t, mapTxLocks[t], mapTxLockVote) /\ GoodLock(t, mapTxLocks'[t], mapTxLockVote')
  BY DEF LockInv, LocksInv
<1>3. Cardinality(Voters(t, mapTxLocks[t])) <= Cardinality(Voters(t, mapTxLocks'[t]))
      /\ Cardinality(Voters(t, mapTxLocks[t])) \in Nat
      /\ Cardinality(Voters(t, mapTxLocks'[t])) \in Nat
  BY <1>2, VotersGrow, VotersCount
<1> QED
  BY <1>1, <1>3, InstantXAssumption

-----------------------------------------------------------------------------
\* At start-up there is no lock.
LEMMA InitInv == Init => LockInv
<1> SUFFICES ASSUME Init PROVE LockInv
  OBVIOUS
<1>1. \A t \in Tx : GoodLock(t, NoLock, mapTxLockVote)
  BY EmptyLock
<1>2. \A t \in Tx : NoLock \in CTransactionLock
  BY <1>1 DEF GoodLock
<1>3. MapsInv
  BY <1>2 DEF Init, MapsInv
<1>4. LocksInv
  BY <1>1 DEF Init, LocksInv
<1>5. InputsInv
  BY InstantXAssumption DEF Init, InputsInv
<1> QED
  BY <1>3, <1>4, <1>5 DEF LockInv

\* "txlreq" until CreateNewLock, and CommitTransaction of the wallet: a lock is made, and a
\* request can only be added.
LEMMA RequestInv ==
    ASSUME LockInv, NEW t \in Tx, TxLockRequest(t) \/ WalletRequest(t)
    PROVE  LockInv'
<1>1. PICK height \in {0, lockHeight[t]} : mapTxLocks' = CreateNewLock(mapTxLocks, t, height)
  BY DEF TxLockRequest, WalletRequest
<1>2. UNCHANGED <<mapTxLockVote, mapLockedInputs, refused>>
  BY DEF TxLockRequest, WalletRequest
<1>3. mapTxLockReq' \in [Tx -> {"none", "tx", "empty"}]
      /\ \A u \in Tx : mapTxLockReq[u] = "tx" => mapTxLockReq'[u] = "tx"
  BY DEF TxLockRequest, WalletRequest, LockInv, MapsInv
<1>4. /\ mapTxLocks' \in [Tx -> CTransactionLock]
      /\ \A u \in Tx : /\ GoodLock(u, mapTxLocks'[u], mapTxLockVote)
                       /\ mapTxLocks'[u].vecConsensusVotes = mapTxLocks[u].vecConsensusVotes
  BY <1>1, CreateNewLockGood
<1>5. LocksInv'
  BY <1>2, <1>4 DEF LocksInv
<1>6. InputsInv'
  BY <1>2, <1>3, <1>4, <1>5, InputsKept
<1> QED
  BY <1>2, <1>3, <1>4, <1>5, <1>6 DEF LockInv, MapsInv

\* The steps that leave the locks and the inputs alone.
LEMMA VoteSeenInv ==
    ASSUME LockInv, mapTxLockVote \subseteq mapTxLockVote',
           UNCHANGED <<mapTxLocks, mapLockedInputs, refused>>,
           mapTxLockReq' \in [Tx -> {"none", "tx", "empty"}],
           \A u \in Tx : mapTxLockReq[u] = "tx" => mapTxLockReq'[u] = "tx"
    PROVE  LockInv'
<1>1. LocksInv'
  <2> SUFFICES ASSUME NEW u \in Tx PROVE GoodLock(u, mapTxLocks[u], mapTxLockVote')
    BY DEF LocksInv
  <2>1. GoodLock(u, mapTxLocks[u], mapTxLockVote)
    BY DEF LockInv, LocksInv
  <2> QED
    BY <2>1 DEF GoodLock
<1>2. InputsInv'
  BY <1>1, InputsKept
<1> QED
  BY <1>1, <1>2 DEF LockInv, MapsInv

\* AcceptToMemoryPool took the transaction: DoConsensusVote's vote is remembered.
LEMMA TxLockAcceptInv ==
    ASSUME LockInv, NEW t \in Tx, TxLockAccept(t)
    PROVE  LockInv'
<1>1. mapTxLockReq' = [mapTxLockReq EXCEPT ![t] = IF @ = "none" THEN "tx" ELSE @]
      /\ mapTxLockVote \subseteq mapTxLockVote'
      /\ UNCHANGED <<mapTxLocks, mapLockedInputs, refused>>
  BY DEF TxLockAccept
<1>2. mapTxLockReq' \in [Tx -> {"none", "tx", "empty"}]
      /\ \A u \in Tx : mapTxLockReq[u] = "tx" => mapTxLockReq'[u] = "tx"
  BY <1>1 DEF LockInv, MapsInv
<1> QED
  BY <1>1, <1>2, VoteSeenInv

\* A vote that is not counted is remembered.
LEMMA InvalidVoteInv ==
    ASSUME LockInv, NEW b \in Blanknode, NEW t \in Tx, InvalidVote(b, t)
    PROVE  LockInv'
BY VoteSeenInv DEF InvalidVote, LockInv, MapsInv

\* LockInputs locks inputs for t only.
LEMMA LockInputsFor ==
    ASSUME MapsInv, NEW t \in Tx, NEW inputs
    PROVE  /\ LockInputs(mapLockedInputs, t, inputs) \in [OutPoint -> Tx \cup {NoTx}]
           /\ \A o \in OutPoint :
                 \/ LockInputs(mapLockedInputs, t, inputs)[o] = mapLockedInputs[o]
                 \/ o \in inputs /\ LockInputs(mapLockedInputs, t, inputs)[o] = t
BY DEF LockInputs, MapsInv

\* AcceptToMemoryPool refused it: the inputs are locked for a rejected transaction.
LEMMA TxLockRejectInv ==
    ASSUME LockInv, NEW t \in Tx, TxLockReject(t)
    PROVE  LockInv'
<1>1. /\ refused' = refused \cup {t} /\ UNCHANGED mapTxLockVote
      /\ mapLockedInputs' = LockInputs(mapLockedInputs, t, vin[t])
  BY DEF TxLockReject
<1>2. mapLockedInputs' \in [OutPoint -> Tx \cup {NoTx}]
      /\ \A o \in OutPoint : mapLockedInputs'[o] = mapLockedInputs[o] \/ mapLockedInputs'[o] = t
  BY <1>1, LockInputsFor DEF LockInv
<1>3. mapTxLockReq' \in [Tx -> {"none", "tx", "empty"}]
      /\ \A u \in Tx : mapTxLockReq[u] = "tx" => mapTxLockReq'[u] = "tx"
  BY DEF TxLockReject, LockInv, MapsInv
<1>4. /\ mapTxLocks' \in [Tx -> CTransactionLock]
      /\ \A u \in Tx : /\ GoodLock(u, mapTxLocks'[u], mapTxLockVote)
                       /\ mapTxLocks'[u].vecConsensusVotes = mapTxLocks[u].vecConsensusVotes
  <2>1. mapTxLocks \in [Tx -> CTransactionLock]
        /\ \A u \in Tx : GoodLock(u, mapTxLocks[u], mapTxLockVote)
    BY DEF LockInv, MapsInv, LocksInv
  <2>2. \/ UNCHANGED mapTxLocks
        \/ \E o \in Conflicts(mapLockedInputs', t, vin[t]) :
              mapTxLocks' = Cancelled(mapTxLocks, mapLockedInputs', t, o)
    BY DEF TxLockReject
  <2>3. CASE UNCHANGED mapTxLocks
    BY <2>1, <2>3
  <2>4. CASE \E o \in Conflicts(mapLockedInputs', t, vin[t]) :
                mapTxLocks' = Cancelled(mapTxLocks, mapLockedInputs', t, o)
    <3>1. PICK o : mapTxLocks' = Cancelled(mapTxLocks, mapLockedInputs', t, o)
      BY <2>4
    <3> DEFINE new == Cancelled(mapTxLocks, mapLockedInputs', t, o)
    <3>2. /\ new \in [Tx -> CTransactionLock]
          /\ \A u \in Tx : /\ GoodLock(u, new[u], mapTxLockVote)
                           /\ new[u].vecConsensusVotes = mapTxLocks[u].vecConsensusVotes
      BY <2>1, CancelledGood
    <3> HIDE DEF new
    <3> QED
      BY <3>1, <3>2 DEF new
  <2> QED
    BY <2>2, <2>3, <2>4
<1>5. LocksInv'
  BY <1>1, <1>4 DEF LocksInv
<1>6. InputsInv'
  BY <1>1, <1>2, <1>3, <1>4, <1>5, InputsKept
<1> QED
  BY <1>2, <1>3, <1>4, <1>5, <1>6 DEF LockInv, MapsInv

\* ProcessConsensusVote: the inputs that become locked are those of the stored request, and
\* the lock has a quorum with the new vote.
LEMMA LockVoteInv ==
    ASSUME LockInv, NEW b \in Blanknode, NEW t \in Tx, NEW h \in Height, LockVote(b, t, h)
    PROVE  LockInv'
<1> DEFINE locks == [mapTxLocks EXCEPT ![t] = WithVote(t, b, h)]
           inputs == StoredInputs(t)
           found == Conflicts(mapLockedInputs, t, inputs)
<1>1. /\ ~Seen(b, t) /\ b \in TopRanked[h] /\ UNCHANGED refused
      /\ mapTxLockVote' = mapTxLockVote \cup {<<b, t>>}
  BY DEF LockVote
<1>2. mapTxLocks \in [Tx -> CTransactionLock]
      /\ \A u \in Tx : GoodLock(u, mapTxLocks[u], mapTxLockVote)
  BY DEF LockInv, MapsInv, LocksInv
<1>3. /\ GoodLock(t, WithVote(t, b, h), mapTxLockVote')
      /\ mapTxLocks[t].vecConsensusVotes \subseteq WithVote(t, b, h).vecConsensusVotes
  BY <1>1, WithVoteGood
<1>4. /\ locks \in [Tx -> CTransactionLock]
      /\ \A u \in Tx : /\ GoodLock(u, locks[u], mapTxLockVote')
                       /\ mapTxLocks[u].vecConsensusVotes \subseteq locks[u].vecConsensusVotes
  <2>1. WithVote(t, b, h) \in CTransactionLock
    BY <1>3 DEF GoodLock
  <2>2. ASSUME NEW u \in Tx, u # t PROVE GoodLock(u, mapTxLocks[u], mapTxLockVote')
    BY <1>1, <1>2, <2>2 DEF GoodLock
  <2> QED
    BY <1>2, <1>3, <2>1, <2>2
<1>5. \/ ~Complete(locks[t]) /\ mapTxLocks' = locks /\ UNCHANGED <<mapTxLockReq, mapLockedInputs>>
      \/ /\ Complete(locks[t])
         /\ mapTxLockReq' = [mapTxLockReq EXCEPT ![t] = IF @ = "none" THEN "empty" ELSE @]
         /\ \/ /\ found = {} /\ mapTxLocks' = locks
               /\ mapLockedInputs' = LockInputs(mapLockedInputs, t, inputs)
            \/ /\ \E o \in found : mapTxLocks' = Cancelled(locks, mapLockedInputs, t, o)
               /\ UNCHANGED mapLockedInputs
  BY DEF LockVote
<1> HIDE DEF locks, found
<1>6. mapTxLockReq' \in [Tx -> {"none", "tx", "empty"}]
      /\ \A u \in Tx : mapTxLockReq[u] = "tx" => mapTxLockReq'[u] = "tx"
  BY <1>5 DEF LockInv, MapsInv
<1>7. /\ mapTxLocks' \in [Tx -> CTransactionLock]
      /\ \A u \in Tx : /\ GoodLock(u, mapTxLocks'[u], mapTxLockVote')
                       /\ mapTxLocks[u].vecConsensusVotes \subseteq mapTxLocks'[u].vecConsensusVotes
  <2>1. CASE mapTxLocks' = locks
    BY <1>4, <2>1
  <2>2. CASE \E o \in found : mapTxLocks' = Cancelled(locks, mapLockedInputs, t, o)
    BY <1>4, <2>2, CancelledGood
  <2> QED
    BY <1>5, <2>1, <2>2
<1>8. LocksInv'
  BY <1>7 DEF LocksInv
<1>9. mapLockedInputs' \in [OutPoint -> Tx \cup {NoTx}]
  BY <1>5, LockInputsFor DEF LockInv, MapsInv
<1>10. InputsInv'
  <2>1. CASE UNCHANGED mapLockedInputs
    BY <1>1, <1>6, <1>7, <1>8, <2>1, InputsKept
  <2>2. CASE /\ Complete(locks[t]) /\ mapTxLocks' = locks
             /\ mapLockedInputs' = LockInputs(mapLockedInputs, t, inputs)
    <3> SUFFICES ASSUME NEW o \in OutPoint, NEW u \in Tx \ refused', mapLockedInputs'[o] = u
                 PROVE  /\ mapTxLockReq'[u] = "tx" /\ o \in vin[u]
                        /\ Cardinality(Voters(u, mapTxLocks'[u])) >= INSTANTX_SIGNATURES_REQUIRED
      BY DEF InputsInv
    <3>1. CASE mapLockedInputs[o] = u
      <4>1. /\ mapTxLockReq[u] = "tx" /\ o \in vin[u]
            /\ Cardinality(Voters(u, mapTxLocks[u])) >= INSTANTX_SIGNATURES_REQUIRED
        BY <1>1, <3>1 DEF LockInv, InputsInv
      <4>2. Cardinality(Voters(u, mapTxLocks[u])) <= Cardinality(Voters(u, mapTxLocks'[u]))
            /\ Cardinality(Voters(u, mapTxLocks[u])) \in Nat
            /\ Cardinality(Voters(u, mapTxLocks'[u])) \in Nat
        BY <1>2, <1>7, VotersGrow, VotersCount
      <4> QED
        BY <1>6, <4>1, <4>2, InstantXAssumption
    <3>2. CASE mapLockedInputs[o] # u
      <4>1. u = t /\ o \in inputs
        BY <2>2, <3>2, LockInputsFor DEF LockInv
      <4>2. mapTxLockReq[t] = "tx" /\ o \in vin[t]
        BY <4>1 DEF StoredInputs
      <4>3. Cardinality(Voters(t, locks[t])) >= INSTANTX_SIGNATURES_REQUIRED
        BY <1>4, <2>2, CompleteIsQuorum
      <4> QED
        BY <1>6, <2>2, <4>1, <4>2, <4>3
    <3> QED
      BY <3>1, <3>2
  <2> QED
    BY <1>5, <2>1, <2>2
<1> QED
  BY <1>6, <1>7, <1>8, <1>9, <1>10 DEF LockInv, MapsInv

\* CleanTransactionLocksList: a lock that goes takes the locks on its inputs with it, and
\* forgets its own votes only.
LEMMA CleanInv ==
    ASSUME LockInv, CleanTransactionLocksList
    PROVE  LockInv'
<1> DEFINE known == {t \in Expired : mapTxLockReq[t] # "none"}
           freed == UNION {StoredInputs(t) : t \in known}
<1>1. /\ mapTxLocks' = [t \in Tx |-> IF t \in Expired THEN NoLock ELSE mapTxLocks[t]]
      /\ mapTxLockReq' = [t \in Tx |-> IF t \in known THEN "none" ELSE mapTxLockReq[t]]
      /\ mapTxLockVote' = mapTxLockVote \ UNION {VotesOf(t) : t \in known}
      /\ mapLockedInputs' = [o \in OutPoint |-> IF o \in freed THEN NoTx ELSE mapLockedInputs[o]]
      /\ UNCHANGED refused
  BY DEF CleanTransactionLocksList
<1>2. mapTxLocks \in [Tx -> CTransactionLock]
      /\ \A u \in Tx : GoodLock(u, mapTxLocks[u], mapTxLockVote)
  BY DEF LockInv, MapsInv, LocksInv
<1>3. ASSUME NEW u \in Tx PROVE GoodLock(u, mapTxLocks'[u], mapTxLockVote')
  <2>1. CASE u \in Expired
    BY <1>1, <2>1, EmptyLock
  <2>2. CASE u \notin Expired
    <3>1. mapTxLocks'[u] = mapTxLocks[u]
      BY <1>1, <2>2
    <3>2. ASSUME NEW v \in mapTxLocks[u].vecConsensusVotes
          PROVE  <<v.vinBlanknode, u>> \in mapTxLockVote'
      <4>1. <<v.vinBlanknode, u>> \in mapTxLockVote
        BY <1>2 DEF GoodLock
      <4>2. \A t \in known : <<v.vinBlanknode, u>> \notin VotesOf(t)
        BY <2>2 DEF VotesOf
      <4> QED
        BY <1>1, <4>1, <4>2
    <3> QED
      BY <1>2, <3>1, <3>2 DEF GoodLock
  <2> QED
    BY <2>1, <2>2
<1>4. MapsInv'
  <2>1. \A u \in Tx : mapTxLocks'[u] \in CTransactionLock
    BY <1>3 DEF GoodLock
  <2> QED
    BY <1>1, <2>1 DEF LockInv, MapsInv
<1>5. LocksInv'
  BY <1>3 DEF LocksInv
<1>6. InputsInv'
  <2> SUFFICES ASSUME NEW o \in OutPoint, NEW t \in Tx \ refused, mapLockedInputs'[o] = t
               PROVE  /\ mapTxLockReq'[t] = "tx" /\ o \in vin[t]
                      /\ Cardinality(Voters(t, mapTxLocks'[t])) >= INSTANTX_SIGNATURES_REQUIRED
    BY <1>1 DEF InputsInv
  <2>1. o \notin freed /\ mapLockedInputs[o] = t
    BY <1>1, InstantXAssumption
  <2>2. /\ mapTxLockReq[t] = "tx" /\ o \in vin[t]
        /\ Cardinality(Voters(t, mapTxLocks[t])) >= INSTANTX_SIGNATURES_REQUIRED
    BY <2>1 DEF LockInv, InputsInv
  <2>3. t \notin Expired
    BY <2>1, <2>2 DEF StoredInputs
  <2>4. mapTxLocks'[t] = mapTxLocks[t] /\ mapTxLockReq'[t] = mapTxLockReq[t]
    BY <1>1, <2>3
  <2> QED
    BY <2>2, <2>4
<1> QED
  BY <1>4, <1>5, <1>6 DEF LockInv

\* Time changes what is left of a lock and nothing else.
LEMMA TickInv ==
    ASSUME LockInv, Tick
    PROVE  LockInv'
<1>1. /\ mapTxLocks' = [t \in Tx |-> IF mapTxLocks[t].left >= 0
                                     THEN [mapTxLocks[t] EXCEPT !.left = @ - 1]
                                     ELSE mapTxLocks[t]]
      /\ UNCHANGED <<mapTxLockReq, mapTxLockVote, mapLockedInputs, refused>>
  BY DEF Tick
<1>2. mapTxLocks \in [Tx -> CTransactionLock]
      /\ \A u \in Tx : GoodLock(u, mapTxLocks[u], mapTxLockVote)
  BY DEF LockInv, MapsInv, LocksInv
<1>3. ASSUME NEW t \in Tx
      PROVE  /\ mapTxLocks'[t] \in CTransactionLock
             /\ mapTxLocks'[t].nBlockHeight = mapTxLocks[t].nBlockHeight
             /\ mapTxLocks'[t].vecConsensusVotes = mapTxLocks[t].vecConsensusVotes
  BY <1>1, <1>2 DEF CTransactionLock
<1>4. ASSUME NEW t \in Tx PROVE GoodLock(t, mapTxLocks'[t], mapTxLockVote)
  BY <1>2, <1>3 DEF GoodLock
<1>5. mapTxLocks' \in [Tx -> CTransactionLock]
  BY <1>1, <1>3
<1>6. LocksInv'
  BY <1>1, <1>4 DEF LocksInv
<1>7. InputsInv'
  BY <1>1, <1>3, <1>6, InputsKept
<1> QED
  BY <1>1, <1>5, <1>6, <1>7 DEF LockInv, MapsInv

\* Every step preserves the invariant.
LEMMA NextInv == LockInv /\ [Next]_vars => LockInv'
<1> SUFFICES ASSUME LockInv, [Next]_vars PROVE LockInv'
  OBVIOUS
<1>1. CASE \E t \in Tx : TxLockRequest(t) \/ TxLockAccept(t) \/ TxLockReject(t) \/ WalletRequest(t)
  BY <1>1, RequestInv, TxLockAcceptInv, TxLockRejectInv
<1>2. CASE \E b \in Blanknode : \E t \in Tx :
              InvalidVote(b, t) \/ \E h \in Height : LockVote(b, t, h)
  BY <1>2, InvalidVoteInv, LockVoteInv
<1>3. CASE CleanTransactionLocksList
  BY <1>3, CleanInv
<1>4. CASE Tick
  BY <1>4, TickInv
<1>5. CASE UNCHANGED vars
  BY <1>5 DEF vars, LockInv, MapsInv, LocksInv, InputsInv
<1> QED
  BY <1>1, <1>2, <1>3, <1>4, <1>5 DEF Next

-----------------------------------------------------------------------------
\* The inductive invariant holds in every state.
THEOREM LockInvariant == Spec => []LockInv
BY InitInv, NextInv, PTL DEF Spec

\* No blanknode is ever counted twice in a lock, or at a height where it does not rank
\* (mapTxLockVote, AddSignature and CleanTransactionLocksList together).
THEOREM NoDoubleVote == Spec => []OneVotePerBlanknode
<1>1. LockInv => OneVotePerBlanknode
  BY DEF LockInv, LocksInv, GoodLock, OneVotePerBlanknode
<1> QED
  BY <1>1, LockInvariant, PTL

\* An input locked for a request that was never rejected has a quorum of blanknodes behind it.
THEOREM ConsensusLocks == Spec => []LockedByConsensus
<1>1. LockInv => LockedByConsensus
  BY DEF LockInv, InputsInv, LockedByConsensus, Voters, VotesFor, StoredInputs
<1> QED
  BY <1>1, LockInvariant, PTL
=============================================================================
