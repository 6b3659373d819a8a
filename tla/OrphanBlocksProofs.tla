-------------------------- MODULE OrphanBlocksProofs --------------------------
(***************************************************************************)
(* The holding area is sound for every block tree, every limit and any     *)
(* number of restarts: its two maps agree and stay within the limit, no    *)
(* orphan is left behind by the adoption loop, the stake sets describe the *)
(* blocks the node holds, and the walk of PruneOrphanBlocks ends at an     *)
(* orphan no other one waits for, from wherever it starts.                 *)
(***************************************************************************)
EXTENDS OrphanBlocks, FiniteSetTheorems, TLAPS

\* S contains the predecessor of each of its blocks.
Closed(S) == \A x \in S : pprev[x] \in S

\* A branch is the least closed set that contains its last block (WantedByOrphan's walk over
\* hashPrevBlock visits nothing else).
LEMMA BranchIsLeast ==
    ASSUME NEW b \in Block
    PROVE  /\ b \in branch[b] /\ branch[b] \subseteq Block /\ Closed(branch[b])
           /\ \A S \in SUBSET Block : b \in S /\ Closed(S) => branch[b] \subseteq S
<1>1. branch[b] = {a \in Block : \A S \in SUBSET Block :
                     (b \in S /\ \A x \in S : pprev[x] \in S) => a \in S}
  BY DEF branch
<1>2. b \in branch[b] /\ branch[b] \subseteq Block
  BY <1>1
<1>3. ASSUME NEW x \in branch[b] PROVE pprev[x] \in branch[b]
  <2>1. pprev[x] \in Block
    BY <1>2, OrphanAssumption
  <2>2. ASSUME NEW S \in SUBSET Block, b \in S, \A y \in S : pprev[y] \in S
        PROVE  pprev[x] \in S
    BY <1>1, <2>2
  <2> QED
    BY <1>1, <2>1, <2>2
<1>4. \A S \in SUBSET Block : b \in S /\ Closed(S) => branch[b] \subseteq S
  BY <1>1 DEF Closed
<1> QED
  BY <1>2, <1>3, <1>4 DEF Closed

\* One step of the walk: a branch is its last block and the branch of the predecessor.
LEMMA BranchStep ==
    ASSUME NEW b \in Block
    PROVE  pprev[b] \in Block /\ branch[b] \subseteq {b} \cup branch[pprev[b]]
<1>1. pprev[b] \in Block
  BY OrphanAssumption
<1>2. /\ pprev[b] \in branch[pprev[b]]
      /\ branch[pprev[b]] \subseteq Block
      /\ Closed(branch[pprev[b]])
  BY <1>1, BranchIsLeast
<1>3. Closed({b} \cup branch[pprev[b]])
  BY <1>2 DEF Closed
<1> QED
  BY <1>1, <1>2, <1>3, BranchIsLeast

\* WantedByOrphan's loop ends: from an orphan in a finite holding area S the walk leaves S,
\* because otherwise S would hold a cycle of hashes.
LEMMA WantedExists ==
    ASSUME NEW S \in SUBSET (Block \ {Genesis}), IsFiniteSet(S), NEW b \in S
    PROVE  WantedByOrphan(b, S) \in Block \ S
<1> DEFINE C == {a \in branch[b] : branch[b] \ branch[a] \subseteq S}
<1>1. b \in branch[b] /\ branch[b] \subseteq Block /\ Closed(branch[b])
  BY BranchIsLeast
<1>2. b \in C
  BY <1>1
<1>3. SUFFICES \E a \in branch[b] \ S : branch[b] \ branch[a] \subseteq S
  BY <1>1 DEF WantedByOrphan
<1>4. SUFFICES ASSUME C \subseteq S PROVE FALSE
  OBVIOUS
<1>5. ASSUME NEW a \in C PROVE pprev[a] \in C
  <2>1. a \in Block /\ a \in S /\ a \in branch[b] /\ branch[b] \ branch[a] \subseteq S
    BY <1>1, <1>4, <1>5
  <2>2. pprev[a] \in branch[b]
    BY <1>1, <2>1 DEF Closed
  <2>3. branch[a] \subseteq {a} \cup branch[pprev[a]]
    BY <2>1, BranchStep
  <2>4. branch[b] \ branch[pprev[a]] \subseteq S
    BY <2>1, <2>3
  <2> QED
    BY <2>2, <2>4
<1>6. IsFiniteSet(C)
  BY <1>4, FS_Subset
<1>7. C \in SUBSET (Block \ {Genesis}) /\ C # {}
  BY <1>2, <1>4
<1> HIDE DEF C
<1>8. PICK a \in C : pprev[a] \notin C
  BY <1>6, <1>7, OrphanAssumption
<1> QED
  BY <1>5, <1>8
-----------------------------------------------------------------------------
\* Every block of the work queue is indexed, and an orphan whose predecessor is indexed waits
\* for a block that is queued or could not be attached.
QueueInv ==
    /\ \A i \in 1..Len(vWorkQueue) : vWorkQueue[i] \in mapBlockIndex
    /\ \A b \in mapOrphanBlocks : pprev[b] \in mapBlockIndex =>
          pprev[b] \in unattached \/ \E i \in 1..Len(vWorkQueue) : vWorkQueue[i] = pprev[b]

\* While a block is to be stored it is neither indexed nor an orphan, and its predecessor is
\* missing; the iterator of PruneOrphanBlocks is at an orphan, and when it is done there is
\* room for the block.
HoldInv ==
    /\ pblock # NoBlock =>
          /\ vWorkQueue = << >>
          /\ pblock \notin mapBlockIndex /\ pblock \notin mapOrphanBlocks
          /\ pprev[pblock] \notin mapBlockIndex
          /\ it = NoBlock => Cardinality(mapOrphanBlocks) <= maxorphanblocks
    /\ it # NoBlock => pblock # NoBlock /\ it \in mapOrphanBlocks

\* The inductive invariant.
OrphanInv ==
    /\ TypeOK
    /\ Genesis \in mapBlockIndex
    /\ IsFiniteSet(mapOrphanBlocks)
    /\ OrphanMapsAgree
    /\ StakeSetsDescribeBlocks
    /\ QueueInv
    /\ HoldInv

\* The stake sets hold stakes, and grow and shrink with the blocks (GetProofOfStake).
LEMMA Stakes ==
    /\ \A S \in SUBSET Block : StakesOf(S) \subseteq Stake
    /\ \A S, T \in SUBSET Block : StakesOf(S \cup T) = StakesOf(S) \cup StakesOf(T)
    /\ \A S, T \in SUBSET Block : StakesOf(S) \ StakesOf(T) \subseteq StakesOf(S \ T)
    /\ StakesOf({}) = {}
    /\ \A b \in Block : StakesOf({b}) = {stake[b]} \ {NoStake}
BY OrphanAssumption DEF StakesOf

\* The state after start-up.
LEMMA InitInv == Init => OrphanInv
<1> SUFFICES ASSUME Init PROVE OrphanInv
  OBVIOUS
<1> USE DEF Init
<1>1. IsFiniteSet({}) /\ Cardinality({}) = 0
  BY FS_EmptySet
<1>2. TypeOK
  BY <1>1, OrphanAssumption DEF TypeOK, NoOrphans
<1>3. OrphanMapsAgree
  BY DEF OrphanMapsAgree, NoOrphans
<1>4. StakeSetsDescribeBlocks
  BY OrphanAssumption, Stakes DEF StakeSetsDescribeBlocks, StakesOf
<1>5. QueueInv /\ HoldInv
  BY DEF QueueInv, HoldInv
<1> QED
  BY <1>1, <1>2, <1>3, <1>4, <1>5 DEF OrphanInv

\* AcceptBlock indexes at most the block it is given, with its stake.
LEMMA AcceptBlockIndexes ==
    ASSUME OrphanInv, NEW b \in Block, NEW outcome \in Outcome, AcceptBlock(b, outcome)
    PROVE  /\ mapBlockIndex' \in SUBSET Block /\ Genesis \in mapBlockIndex'
           /\ mapBlockIndex \subseteq mapBlockIndex' /\ mapBlockIndex' \subseteq mapBlockIndex \cup {b}
           /\ setStakeSeen' \in SUBSET Stake /\ setStakeSeen' = StakesOf(mapBlockIndex')
           /\ unattached' \in SUBSET Block /\ unattached \subseteq unattached'
           /\ turnedAway' \in SUBSET Block
           /\ outcome = "accepted" => b \in mapBlockIndex'
           /\ outcome # "accepted" /\ b \in mapBlockIndex' => b \in mapBlockIndex \/ b \in unattached'
<1>1. mapBlockIndex \in SUBSET Block /\ setStakeSeen \in SUBSET Stake
      /\ unattached \in SUBSET Block /\ turnedAway \in SUBSET Block /\ Genesis \in mapBlockIndex
      /\ setStakeSeen = StakesOf(mapBlockIndex)
  BY DEF OrphanInv, TypeOK, StakeSetsDescribeBlocks
<1>2. turnedAway' \in SUBSET Block
  BY <1>1 DEF AcceptBlock
<1>3. CASE outcome = "refused"
  <2>1. mapBlockIndex' = mapBlockIndex /\ setStakeSeen' = setStakeSeen /\ unattached' = unattached
    BY <1>3 DEF AcceptBlock
  <2> QED
    BY <1>1, <1>2, <1>3, <2>1
<1>4. CASE outcome # "refused"
  <2>1. mapBlockIndex' = mapBlockIndex \cup {b} /\ setStakeSeen' = setStakeSeen \cup StakesOf({b})
        /\ unattached' = IF outcome = "unattached" THEN unattached \cup {b} ELSE unattached
    BY <1>4 DEF AcceptBlock
  <2>2. StakesOf({b}) \subseteq Stake
        /\ StakesOf(mapBlockIndex \cup {b}) = StakesOf(mapBlockIndex) \cup StakesOf({b})
    BY <1>1, Stakes
  <2>3. outcome \in {"accepted", "unattached"}
    BY <1>4 DEF Outcome
  <2> QED
    BY <1>1, <1>2, <2>1, <2>2, <2>3
<1> QED
  BY <1>3, <1>4

\* Queueing and leaving the queue.
LEMMA AppendInQueue ==
    ASSUME NEW s \in Seq(Block), NEW b \in Block
    PROVE  /\ Append(s, b) \in Seq(Block)
           /\ Len(Append(s, b)) = Len(s) + 1
           /\ \A i \in 1..Len(s) : Append(s, b)[i] = s[i]
           /\ Append(s, b)[Len(s) + 1] = b
OBVIOUS

\* Outside the adoption loop the multimap has the orphans, neither more nor fewer, and the
\* successors PruneOrphanBlocks finds under a hash are the orphans that wait for it.
LEMMA ByPrevIsOrphans ==
    ASSUME OrphanInv, vWorkQueue = << >>
    PROVE  /\ ByPrev = mapOrphanBlocks
           /\ \A p \in Block : Successors(p) = {b \in mapOrphanBlocks : pprev[b] = p}
<1>1. \A p \in Block : mapOrphanBlocksByPrev[p] = {b \in mapOrphanBlocks : pprev[b] = p}
  BY DEF OrphanInv, OrphanMapsAgree
<1>2. mapOrphanBlocks \in SUBSET Block /\ \A b \in Block : pprev[b] \in Block
  BY OrphanAssumption DEF OrphanInv, TypeOK
<1> QED
  BY <1>1, <1>2 DEF ByPrev, Successors

\* A block refused, for ever or for now: only the requests and the history change.
LEMMA RefusedInv ==
    ASSUME OrphanInv, turnedAway' \in SUBSET Block, asked' \in SUBSET Block,
           UNCHANGED <<mapBlockIndex, setStakeSeen, unattached, orphanVars, pblock, it, vWorkQueue,
                       nCrash>>
    PROVE  OrphanInv'
<1> USE DEF OrphanInv, orphanVars
<1>1. TypeOK'
  BY DEF TypeOK
<1>2. OrphanMapsAgree' /\ StakeSetsDescribeBlocks' /\ QueueInv' /\ HoldInv'
  BY DEF OrphanMapsAgree, StakeSetsDescribeBlocks, StakesOf, QueueInv, HoldInv
<1> QED
  BY <1>1, <1>2

\* ProcessBlock is going to store b, and PruneOrphanBlocks begins where there are too many
\* orphans, at one of them.
LEMMA PruneStartInv ==
    ASSUME OrphanInv, NEW b \in Block, Idle,
           b \notin mapBlockIndex, b \notin mapOrphanBlocks, pprev[b] \notin mapBlockIndex,
           asked' \in SUBSET Block, pblock' = b, it' \in PruneStarts,
           UNCHANGED <<indexVars, orphanVars, vWorkQueue, nCrash>>
    PROVE  OrphanInv'
<1> USE DEF OrphanInv, orphanVars, indexVars
<1>1. vWorkQueue = << >> /\ ByPrev = mapOrphanBlocks
  BY ByPrevIsOrphans DEF Idle
<1>2. /\ it' # NoBlock => it' \in mapOrphanBlocks
      /\ it' = NoBlock => Cardinality(mapOrphanBlocks) <= maxorphanblocks
  <2>1. NoBlock \notin mapOrphanBlocks
    BY OrphanAssumption DEF TypeOK
  <2> QED
    BY <1>1, <2>1 DEF PruneStarts
<1>3. TypeOK'
  BY <1>2 DEF TypeOK
<1>4. OrphanMapsAgree' /\ StakeSetsDescribeBlocks' /\ QueueInv'
  BY DEF OrphanMapsAgree, StakeSetsDescribeBlocks, StakesOf, QueueInv
<1>5. HoldInv'
  BY <1>1, <1>2, OrphanAssumption DEF HoldInv
<1> QED
  BY <1>3, <1>4, <1>5

\* The walk goes from orphan to orphan.
LEMMA PruneWalkInv ==
    ASSUME OrphanInv, PruneWalk
    PROVE  OrphanInv'
<1> USE DEF OrphanInv, orphanVars, indexVars
<1>1. it # NoBlock /\ it' \in Successors(it)
      /\ UNCHANGED <<indexVars, orphanVars, asked, pblock, vWorkQueue, nCrash>>
  BY DEF PruneWalk
<1>2. it \in Block /\ pblock # NoBlock /\ vWorkQueue = << >>
  BY <1>1 DEF HoldInv, TypeOK
<1>3. it' \in mapOrphanBlocks /\ it' \in Block /\ it' # NoBlock
  BY <1>1, <1>2, ByPrevIsOrphans, OrphanAssumption DEF TypeOK
<1>4. TypeOK'
  BY <1>1, <1>3 DEF TypeOK
<1>5. OrphanMapsAgree' /\ StakeSetsDescribeBlocks' /\ QueueInv'
  BY <1>1 DEF OrphanMapsAgree, StakeSetsDescribeBlocks, StakesOf, QueueInv
<1>6. HoldInv'
  BY <1>1, <1>2, <1>3 DEF HoldInv
<1> QED
  BY <1>1, <1>4, <1>5, <1>6

\* The orphan at which the walk ends leaves both maps, and there is room for one.
LEMMA PruneEraseInv ==
    ASSUME OrphanInv, PruneErase
    PROVE  OrphanInv'
<1> USE DEF OrphanInv, indexVars
<1>1. /\ it # NoBlock /\ it' = NoBlock
      /\ mapOrphanBlocksByPrev' = [mapOrphanBlocksByPrev EXCEPT ![pprev[it]] = @ \ {it}]
      /\ mapOrphanBlocks' = mapOrphanBlocks \ {it}
      /\ setStakeSeenOrphan' = setStakeSeenOrphan \ {stake[it]}
      /\ unasked' = unasked \ {it}
      /\ UNCHANGED <<indexVars, asked, pblock, vWorkQueue, nCrash>>
  BY DEF PruneErase, Drop
<1>2. it \in mapOrphanBlocks /\ it \in Block /\ pprev[it] \in Block /\ pblock # NoBlock
      /\ vWorkQueue = << >> /\ mapOrphanBlocks \in SUBSET Block
  BY <1>1, OrphanAssumption DEF HoldInv, TypeOK
<1>3. /\ IsFiniteSet(mapOrphanBlocks')
      /\ Cardinality(mapOrphanBlocks') <= maxorphanblocks
      /\ Cardinality(mapOrphanBlocks') <= maxorphanblocks + 1
  <2>1. Cardinality(mapOrphanBlocks \ {it}) = Cardinality(mapOrphanBlocks) - 1
        /\ IsFiniteSet(mapOrphanBlocks \ {it})
    BY <1>2, FS_RemoveElement
  <2>2. Cardinality(mapOrphanBlocks) \in Nat /\ maxorphanblocks \in Nat
        /\ Cardinality(mapOrphanBlocks) <= maxorphanblocks + 1
    BY FS_CardinalityType, OrphanAssumption DEF TypeOK
  <2> QED
    BY <1>1, <2>1, <2>2
<1>4. TypeOK'
  BY <1>1, <1>2, <1>3 DEF TypeOK
<1>5. OrphanMapsAgree'
  BY <1>1, <1>2 DEF OrphanMapsAgree, TypeOK
<1>6. StakeSetsDescribeBlocks'
  BY <1>1 DEF StakeSetsDescribeBlocks, StakesOf
<1>7. QueueInv'
  BY <1>1 DEF QueueInv
<1>8. HoldInv'
  BY <1>1, <1>2, <1>3 DEF HoldInv
<1> QED
  BY <1>1, <1>3, <1>4, <1>5, <1>6, <1>7, <1>8

\* HoldOrphan: the new orphan fits.
LEMMA HoldOrphanInv ==
    ASSUME OrphanInv, NEW fInitialDownload \in BOOLEAN, HoldOrphan(fInitialDownload)
    PROVE  OrphanInv'
<1> USE DEF OrphanInv, indexVars
<1>1. /\ pblock # NoBlock /\ it = NoBlock /\ pblock' = NoBlock /\ it' = NoBlock
      /\ mapOrphanBlocks' = mapOrphanBlocks \cup {pblock}
      /\ mapOrphanBlocksByPrev' =
            [mapOrphanBlocksByPrev EXCEPT ![pprev[pblock]] = @ \cup {pblock}]
      /\ setStakeSeenOrphan' = setStakeSeenOrphan \cup StakesOf({pblock})
      /\ asked' = IF fInitialDownload THEN asked
                  ELSE asked \cup {WantedByOrphan(pblock, mapOrphanBlocks')}
      /\ unasked' = IF fInitialDownload THEN unasked \cup {pblock} ELSE unasked
      /\ UNCHANGED <<indexVars, vWorkQueue, nCrash>>
  BY DEF HoldOrphan
<1>2. /\ pblock \in Block /\ pprev[pblock] \in Block /\ mapOrphanBlocks \in SUBSET Block
      /\ vWorkQueue = << >> /\ pblock \notin mapBlockIndex /\ pblock \notin mapOrphanBlocks
      /\ pprev[pblock] \notin mapBlockIndex
      /\ Cardinality(mapOrphanBlocks) <= maxorphanblocks
  BY <1>1, OrphanAssumption DEF HoldInv, TypeOK
<1>3. IsFiniteSet(mapOrphanBlocks') /\ Cardinality(mapOrphanBlocks') <= maxorphanblocks + 1
  <2>1. IsFiniteSet(mapOrphanBlocks \cup {pblock})
        /\ Cardinality(mapOrphanBlocks \cup {pblock}) = Cardinality(mapOrphanBlocks) + 1
    BY <1>2, FS_AddElement
  <2>2. Cardinality(mapOrphanBlocks) \in Nat /\ maxorphanblocks \in Nat
    BY FS_CardinalityType, OrphanAssumption
  <2>3. Cardinality(mapOrphanBlocks) + 1 <= maxorphanblocks + 1
    BY <1>2, <2>2
  <2>4. mapOrphanBlocks' = mapOrphanBlocks \cup {pblock}
    BY <1>1
  <2> HIDE DEF OrphanInv
  <2> QED
    BY <2>1, <2>3, <2>4
<1>4. WantedByOrphan(pblock, mapOrphanBlocks') \in Block
  <2>1. mapOrphanBlocks' \in SUBSET (Block \ {Genesis}) /\ pblock \in mapOrphanBlocks'
    BY <1>1, <1>2 DEF OrphanMapsAgree
  <2> QED
    BY <1>3, <2>1, WantedExists
<1>5. StakesOf({pblock}) \subseteq Stake
      /\ StakesOf(mapOrphanBlocks') = StakesOf(mapOrphanBlocks) \cup StakesOf({pblock})
  BY <1>1, <1>2, Stakes
<1>6. TypeOK'
  BY <1>1, <1>2, <1>3, <1>4, <1>5 DEF TypeOK
<1>7. OrphanMapsAgree'
  BY <1>1, <1>2 DEF OrphanMapsAgree, TypeOK
<1>8. StakeSetsDescribeBlocks'
  BY <1>1, <1>5 DEF StakeSetsDescribeBlocks, StakesOf
<1>9. QueueInv' /\ HoldInv'
  BY <1>1, <1>2 DEF QueueInv, HoldInv
<1> QED
  BY <1>1, <1>3, <1>6, <1>7, <1>8, <1>9

\* ProcessBlock accepts b or not; accepted, b starts the work queue.
LEMMA AcceptInv ==
    ASSUME OrphanInv, NEW b \in Block, NEW outcome \in Outcome, Idle,
           b \notin mapBlockIndex, b \notin mapOrphanBlocks, AcceptBlock(b, outcome),
           vWorkQueue' = IF outcome = "accepted" THEN <<b>> ELSE << >>,
           asked' \in SUBSET Block, UNCHANGED <<orphanVars, pblock, it, nCrash>>
    PROVE  OrphanInv'
<1> USE DEF orphanVars, Idle
<1>1. /\ mapBlockIndex' \in SUBSET Block /\ Genesis \in mapBlockIndex'
      /\ mapBlockIndex \subseteq mapBlockIndex' /\ mapBlockIndex' \subseteq mapBlockIndex \cup {b}
      /\ setStakeSeen' \in SUBSET Stake /\ setStakeSeen' = StakesOf(mapBlockIndex')
      /\ unattached' \in SUBSET Block /\ unattached \subseteq unattached'
      /\ turnedAway' \in SUBSET Block
      /\ outcome = "accepted" => b \in mapBlockIndex'
      /\ outcome # "accepted" /\ b \in mapBlockIndex' => b \in mapBlockIndex \/ b \in unattached'
  BY AcceptBlockIndexes
<1>2. vWorkQueue' \in Seq(Block)
  BY DEF OrphanInv, TypeOK
<1>3. TypeOK'
  BY <1>1, <1>2 DEF OrphanInv, TypeOK
<1>4. OrphanMapsAgree'
  <2>1. \A p \in Block : mapOrphanBlocksByPrev'[p] = {c \in mapOrphanBlocks' : pprev[c] = p}
    BY DEF OrphanInv, OrphanMapsAgree
  <2>2. mapOrphanBlocks' \cap mapBlockIndex' = {}
    BY <1>1 DEF OrphanInv, OrphanMapsAgree
  <2> QED
    BY <2>1, <2>2 DEF OrphanMapsAgree
<1>5. StakeSetsDescribeBlocks'
  BY <1>1 DEF OrphanInv, StakeSetsDescribeBlocks, StakesOf
<1>6. QueueInv'
  <2>1. \A c \in mapOrphanBlocks : pprev[c] \in mapBlockIndex => pprev[c] \in unattached
    BY DEF OrphanInv, QueueInv
  <2>2. CASE outcome = "accepted"
    <3>1. vWorkQueue' = <<b>> /\ Len(vWorkQueue') = 1 /\ vWorkQueue'[1] = b
      BY <2>2
    <3> QED
      BY <1>1, <2>1, <2>2, <3>1 DEF QueueInv
  <2>3. CASE outcome # "accepted"
    <3>1. vWorkQueue' = << >> /\ Len(vWorkQueue') = 0
      BY <2>3
    <3> QED
      BY <1>1, <2>1, <2>3, <3>1 DEF QueueInv
  <2> QED
    BY <2>2, <2>3
<1>7. HoldInv'
  BY DEF OrphanInv, HoldInv
<1> QED
  BY <1>1, <1>3, <1>4, <1>5, <1>6, <1>7 DEF OrphanInv

\* ProcessBlock, in each of its outcomes.
LEMMA ProcessBlockInv ==
    ASSUME OrphanInv, NEW b \in Block, NEW pfrom \in BOOLEAN, NEW fImporting \in BOOLEAN,
           ProcessBlock(b, pfrom, fImporting)
    PROVE  OrphanInv'
<1>1. /\ Idle /\ asked' \in SUBSET Block
      /\ UNCHANGED <<orphanVars, nCrash>>
  BY DEF ProcessBlock, OrphanInv, TypeOK
<1>2. ~Refused(b, pfrom, fImporting) => b \notin mapBlockIndex /\ b \notin mapOrphanBlocks
  BY DEF Refused
<1>3. CASE UNCHANGED <<indexVars, pblock, it, vWorkQueue>>
  <2>1. turnedAway' \in SUBSET Block
    BY <1>3 DEF indexVars, OrphanInv, TypeOK
  <2> QED
    BY <1>1, <1>3, <2>1, RefusedInv DEF indexVars
<1>4. CASE /\ turnedAway' = turnedAway \cup {b}
           /\ UNCHANGED <<mapBlockIndex, setStakeSeen, unattached, pblock, it, vWorkQueue>>
  <2>1. turnedAway' \in SUBSET Block
    BY <1>4 DEF OrphanInv, TypeOK
  <2> QED
    BY <1>1, <1>4, <2>1, RefusedInv
<1>5. CASE /\ ~Refused(b, pfrom, fImporting)
           /\ pprev[b] \notin mapBlockIndex
           /\ pblock' = b
           /\ it' \in PruneStarts
           /\ UNCHANGED <<indexVars, vWorkQueue>>
  BY <1>1, <1>2, <1>5, PruneStartInv
<1>6. CASE /\ ~Refused(b, pfrom, fImporting)
           /\ \E outcome \in Outcome :
                /\ AcceptBlock(b, outcome)
                /\ vWorkQueue' = IF outcome = "accepted" THEN <<b>> ELSE << >>
           /\ UNCHANGED <<pblock, it>>
  <2>1. PICK outcome \in Outcome :
           /\ AcceptBlock(b, outcome)
           /\ vWorkQueue' = IF outcome = "accepted" THEN <<b>> ELSE << >>
    BY <1>6
  <2> QED
    BY <1>1, <1>2, <1>6, <2>1, AcceptInv
<1> QED
  BY <1>3, <1>4, <1>5, <1>6 DEF ProcessBlock

\* AdoptOrphan: an orphan that is accepted joins the queue before anybody can wait for it in
\* vain; one that is indexed without being attached is recorded as such.
LEMMA AdoptOrphanInv ==
    ASSUME OrphanInv, NEW b \in Block, AdoptOrphan(b)
    PROVE  OrphanInv'
<1>1. PICK outcome \in Outcome :
         /\ AcceptBlock(b, outcome)
         /\ vWorkQueue' = IF outcome = "accepted" THEN Append(vWorkQueue, b) ELSE vWorkQueue
  BY DEF AdoptOrphan
<1>2. /\ mapBlockIndex' \in SUBSET Block /\ Genesis \in mapBlockIndex'
      /\ mapBlockIndex \subseteq mapBlockIndex' /\ mapBlockIndex' \subseteq mapBlockIndex \cup {b}
      /\ setStakeSeen' \in SUBSET Stake /\ setStakeSeen' = StakesOf(mapBlockIndex')
      /\ unattached' \in SUBSET Block /\ unattached \subseteq unattached'
      /\ turnedAway' \in SUBSET Block
      /\ outcome = "accepted" => b \in mapBlockIndex'
      /\ outcome # "accepted" /\ b \in mapBlockIndex' => b \in mapBlockIndex \/ b \in unattached'
  BY <1>1, AcceptBlockIndexes
<1>3. /\ mapOrphanBlocks' = mapOrphanBlocks \ {b}
      /\ setStakeSeenOrphan' = setStakeSeenOrphan \ {stake[b]}
      /\ unasked' = unasked \ {b}
      /\ UNCHANGED <<mapOrphanBlocksByPrev, asked, pblock, it, nCrash>>
      /\ vWorkQueue # << >> /\ b \in mapOrphanBlocksByPrev[Head(vWorkQueue)]
      /\ b \in mapOrphanBlocks
  BY DEF AdoptOrphan, Drop
<1>4. vWorkQueue \in Seq(Block) /\ Head(vWorkQueue) \in Block /\ b \notin mapBlockIndex
      /\ pprev[b] = Head(vWorkQueue) /\ pblock = NoBlock /\ it = NoBlock
  BY <1>3 DEF OrphanInv, TypeOK, OrphanMapsAgree, HoldInv
<1>5. IsFiniteSet(mapOrphanBlocks') /\ Cardinality(mapOrphanBlocks') <= maxorphanblocks + 1
  <2>1. IsFiniteSet(mapOrphanBlocks') /\ Cardinality(mapOrphanBlocks') <= Cardinality(mapOrphanBlocks)
    BY <1>3, FS_Subset DEF OrphanInv
  <2>2. Cardinality(mapOrphanBlocks) \in Nat /\ Cardinality(mapOrphanBlocks') \in Nat
        /\ Cardinality(mapOrphanBlocks) <= maxorphanblocks + 1
    BY <2>1, FS_CardinalityType DEF OrphanInv, TypeOK
  <2> QED
    BY <2>1, <2>2, OrphanAssumption
<1>6. vWorkQueue' \in Seq(Block)
  BY <1>1, <1>4, AppendInQueue
<1>7. TypeOK'
  <2>1. mapOrphanBlocks' \in SUBSET Block /\ setStakeSeenOrphan' \in SUBSET Stake
        /\ unasked' \in SUBSET mapOrphanBlocks'
    BY <1>3 DEF OrphanInv, TypeOK
  <2> QED
    BY <1>2, <1>3, <1>5, <1>6, <2>1 DEF OrphanInv, TypeOK
<1>8. OrphanMapsAgree'
  <2>1. vWorkQueue' # << >> /\ Head(vWorkQueue') = Head(vWorkQueue)
    BY <1>1, <1>3, <1>4
  <2>2. ASSUME NEW p \in Block
        PROVE  IF p = Head(vWorkQueue)
               THEN /\ {c \in mapOrphanBlocks' : pprev[c] = p} \subseteq mapOrphanBlocksByPrev[p]
                    /\ \A c \in mapOrphanBlocksByPrev[p] : pprev[c] = p
               ELSE mapOrphanBlocksByPrev[p] = {c \in mapOrphanBlocks' : pprev[c] = p}
    BY <1>3, <1>4 DEF OrphanInv, OrphanMapsAgree
  <2>3. mapOrphanBlocks' \cap mapBlockIndex' = {}
    BY <1>2, <1>3 DEF OrphanInv, OrphanMapsAgree
  <2> QED
    BY <1>3, <2>1, <2>2, <2>3 DEF OrphanMapsAgree
<1>9. StakeSetsDescribeBlocks'
  <2>1. setStakeSeenOrphan' \subseteq StakesOf(mapOrphanBlocks')
    BY <1>3 DEF OrphanInv, StakeSetsDescribeBlocks, StakesOf
  <2> QED
    BY <1>2, <2>1 DEF StakeSetsDescribeBlocks, StakesOf
<1>10. QueueInv'
  <2>1. ASSUME NEW c \in mapOrphanBlocks', pprev[c] \in mapBlockIndex', pprev[c] \notin unattached'
        PROVE  \E i \in 1..Len(vWorkQueue') : vWorkQueue'[i] = pprev[c]
    <3>1. CASE pprev[c] \in mapBlockIndex
      <4>1. PICK i \in 1..Len(vWorkQueue) : vWorkQueue[i] = pprev[c]
        BY <1>2, <1>3, <2>1, <3>1 DEF OrphanInv, QueueInv
      <4>2. i \in 1..Len(vWorkQueue') /\ vWorkQueue'[i] = pprev[c]
        BY <1>1, <1>4, <4>1, AppendInQueue
      <4> QED
        BY <4>2
    <3>2. CASE pprev[c] \notin mapBlockIndex
      <4>1. pprev[c] = b /\ outcome = "accepted"
        BY <1>2, <2>1, <3>2
      <4>2. vWorkQueue'[Len(vWorkQueue) + 1] = b /\ Len(vWorkQueue') = Len(vWorkQueue) + 1
            /\ Len(vWorkQueue) \in Nat
        BY <1>1, <1>4, <4>1, AppendInQueue
      <4> QED
        BY <4>1, <4>2
    <3> QED
      BY <3>1, <3>2
  <2>2. ASSUME NEW i \in 1..Len(vWorkQueue') PROVE vWorkQueue'[i] \in mapBlockIndex'
    <3>1. CASE outcome # "accepted"
      BY <1>1, <1>2, <2>2, <3>1 DEF OrphanInv, QueueInv
    <3>2. CASE outcome = "accepted"
      <4>1. Len(vWorkQueue') = Len(vWorkQueue) + 1 /\ Len(vWorkQueue) \in Nat
            /\ vWorkQueue'[Len(vWorkQueue) + 1] = b
            /\ \A j \in 1..Len(vWorkQueue) : vWorkQueue'[j] = vWorkQueue[j]
        BY <1>1, <1>4, <3>2, AppendInQueue
      <4>2. i \in 1..Len(vWorkQueue) \/ i = Len(vWorkQueue) + 1
        BY <2>2, <4>1
      <4> QED
        BY <1>2, <3>2, <4>1, <4>2 DEF OrphanInv, QueueInv
    <3> QED
      BY <3>1, <3>2
  <2> QED
    BY <2>1, <2>2 DEF QueueInv
<1>11. HoldInv'
  BY <1>3, <1>4 DEF HoldInv
<1> QED
  BY <1>2, <1>5, <1>7, <1>8, <1>9, <1>10, <1>11 DEF OrphanInv

\* NextInQueue: no orphan waits any more for the block that leaves the queue, and the multimap
\* loses its entries.
LEMMA NextInQueueInv ==
    ASSUME OrphanInv, NextInQueue
    PROVE  OrphanInv'
<1> USE DEF indexVars
<1> DEFINE h == Head(vWorkQueue)
<1>1. /\ vWorkQueue # << >> /\ mapOrphanBlocksByPrev[h] \cap mapOrphanBlocks = {}
      /\ mapOrphanBlocksByPrev' = [mapOrphanBlocksByPrev EXCEPT ![h] = {}]
      /\ vWorkQueue' = Tail(vWorkQueue)
      /\ UNCHANGED <<indexVars, mapOrphanBlocks, setStakeSeenOrphan, unasked, asked, pblock, it,
                     nCrash>>
  BY DEF NextInQueue
<1>2. /\ vWorkQueue \in Seq(Block) /\ vWorkQueue' \in Seq(Block) /\ h \in Block
      /\ Len(vWorkQueue) \in Nat /\ Len(vWorkQueue') = Len(vWorkQueue) - 1
      /\ \A i \in 1..Len(vWorkQueue') : i + 1 \in 1..Len(vWorkQueue) /\ vWorkQueue'[i] = vWorkQueue[i + 1]
      /\ h = vWorkQueue[1]
  BY <1>1 DEF OrphanInv, TypeOK
<1> HIDE DEF h
<1>3. \A c \in mapOrphanBlocks : pprev[c] # h
  <2>1. {c \in mapOrphanBlocks : pprev[c] = h} \subseteq mapOrphanBlocksByPrev[h]
    BY <1>2 DEF OrphanInv, OrphanMapsAgree
  <2> QED
    BY <1>1, <2>1
<1>4. TypeOK'
  <2>1. mapOrphanBlocksByPrev' \in [Block -> SUBSET Block]
    BY <1>1, <1>2 DEF OrphanInv, TypeOK
  <2> QED
    BY <1>1, <1>2, <2>1 DEF OrphanInv, TypeOK
<1>5. OrphanMapsAgree'
  <2>1. \A p \in Block : mapOrphanBlocksByPrev'[p] = {c \in mapOrphanBlocks : pprev[c] = p}
    BY <1>1, <1>2, <1>3 DEF OrphanInv, OrphanMapsAgree, TypeOK, h
  <2>2. mapOrphanBlocks' \cap mapBlockIndex' = {}
    BY <1>1 DEF OrphanInv, OrphanMapsAgree
  <2> QED
    BY <1>1, <2>1, <2>2 DEF OrphanMapsAgree
<1>6. StakeSetsDescribeBlocks'
  BY <1>1 DEF OrphanInv, StakeSetsDescribeBlocks, StakesOf
<1>7. QueueInv'
  <2>1. ASSUME NEW c \in mapOrphanBlocks, pprev[c] \in mapBlockIndex, pprev[c] \notin unattached
        PROVE  \E i \in 1..Len(vWorkQueue') : vWorkQueue'[i] = pprev[c]
    <3>1. PICK i \in 1..Len(vWorkQueue) : vWorkQueue[i] = pprev[c]
      BY <2>1 DEF OrphanInv, QueueInv
    <3>2. pprev[c] # h
      BY <1>3
    <3>3. i # 1 /\ i - 1 \in 1..Len(vWorkQueue') /\ vWorkQueue'[i - 1] = vWorkQueue[i]
      BY <1>2, <3>1, <3>2
    <3> QED
      BY <3>1, <3>3
  <2> QED
    BY <1>1, <1>2, <2>1 DEF OrphanInv, QueueInv
<1>8. HoldInv'
  BY <1>1 DEF OrphanInv, HoldInv
<1> QED
  BY <1>1, <1>4, <1>5, <1>6, <1>7, <1>8 DEF OrphanInv

\* Restart: LoadBlockIndex rebuilds setStakeSeen, everything else starts empty.
LEMMA RestartInv ==
    ASSUME OrphanInv, Restart
    PROVE  OrphanInv'
<1> USE DEF Restart
<1>1. IsFiniteSet({}) /\ Cardinality({}) = 0
  BY FS_EmptySet
<1>2. TypeOK'
  BY <1>1, Stakes, OrphanAssumption DEF OrphanInv, TypeOK, NoOrphans
<1>3. OrphanMapsAgree'
  BY DEF OrphanMapsAgree, NoOrphans
<1>4. StakeSetsDescribeBlocks'
  BY DEF StakeSetsDescribeBlocks, StakesOf
<1>5. QueueInv' /\ HoldInv'
  BY DEF QueueInv, HoldInv
<1> QED
  BY <1>1, <1>2, <1>3, <1>4, <1>5 DEF OrphanInv

\* Every step preserves the invariant.
LEMMA NextInv == OrphanInv /\ [Next]_vars => OrphanInv'
<1> SUFFICES ASSUME OrphanInv, [Next]_vars PROVE OrphanInv'
  OBVIOUS
<1>1. CASE \E b \in Block : \E pfrom, fImporting \in BOOLEAN : ProcessBlock(b, pfrom, fImporting)
  BY <1>1, ProcessBlockInv
<1>2. CASE PruneWalk
  BY <1>2, PruneWalkInv
<1>3. CASE PruneErase
  BY <1>3, PruneEraseInv
<1>4. CASE \E fInitialDownload \in BOOLEAN : HoldOrphan(fInitialDownload)
  BY <1>4, HoldOrphanInv
<1>5. CASE \E b \in Block : AdoptOrphan(b)
  BY <1>5, AdoptOrphanInv
<1>6. CASE NextInQueue
  BY <1>6, NextInQueueInv
<1>7. CASE Restart
  BY <1>7, RestartInv
<1>8. CASE UNCHANGED vars
  BY <1>8 DEF vars, indexVars, orphanVars, OrphanInv, TypeOK, OrphanMapsAgree,
              StakeSetsDescribeBlocks, StakesOf, QueueInv, HoldInv
<1> QED
  BY <1>1, <1>2, <1>3, <1>4, <1>5, <1>6, <1>7, <1>8 DEF Next, Hold, Adopt

-----------------------------------------------------------------------------
\* The inductive invariant holds in every state.
THEOREM OrphanInvariant == Spec => []OrphanInv
BY InitInv, NextInv, PTL DEF Spec

\* Every variable has its type, and the holding area never exceeds -maxorphanblocks by more
\* than one (PruneOrphanBlocks).
THEOREM TypeCorrect == Spec => []TypeOK
<1>1. OrphanInv => TypeOK
  BY DEF OrphanInv
<1> QED
  BY <1>1, OrphanInvariant, PTL

\* mapOrphanBlocks and mapOrphanBlocksByPrev always hold the same orphans, none of them
\* indexed (ProcessBlock, PruneOrphanBlocks).
THEOREM MapsAgree == Spec => []OrphanMapsAgree
<1>1. OrphanInv => OrphanMapsAgree
  BY DEF OrphanInv
<1> QED
  BY <1>1, OrphanInvariant, PTL

\* When ProcessBlock's loop is done, no orphan waits for a block that is indexed and attached.
THEOREM NoneLeftBehind == Spec => []NoOrphanLeftBehind
<1>1. OrphanInv => NoOrphanLeftBehind
  BY DEF OrphanInv, QueueInv, NoOrphanLeftBehind, Idle
<1> QED
  BY <1>1, OrphanInvariant, PTL

\* setStakeSeen and setStakeSeenOrphan never name a stake of a block the node does not hold.
THEOREM StakesAreHeld == Spec => []StakeSetsDescribeBlocks
<1>1. OrphanInv => StakeSetsDescribeBlocks
  BY DEF OrphanInv
<1> QED
  BY <1>1, OrphanInvariant, PTL

\* Wherever the walk of PruneOrphanBlocks starts, the orphan it ends at and removes has no
\* dependent orphans: what find returns in the multimap are the orphans that wait for a hash.
THEOREM PruneTakesLeaves == Spec => PruneKeepsChains
<1> DEFINE A == nCrash' = nCrash =>
                  \A b \in mapOrphanBlocks \ mapOrphanBlocks' :
                     pprev[b] \in mapBlockIndex \/ \A c \in mapOrphanBlocks : pprev[c] # b
<1>1. OrphanInv /\ [Next]_vars => [A]_vars
  <2> SUFFICES ASSUME OrphanInv, Next PROVE A
    OBVIOUS
  <2> SUFFICES ASSUME nCrash' = nCrash, NEW b \in mapOrphanBlocks \ mapOrphanBlocks'
               PROVE  pprev[b] \in mapBlockIndex \/ \A c \in mapOrphanBlocks : pprev[c] # b
    OBVIOUS
  <2>1. ASSUME PruneErase
        PROVE  \A c \in mapOrphanBlocks : pprev[c] # b
    <3>1. b = it /\ it # NoBlock /\ Successors(it) = {}
      BY <2>1 DEF PruneErase, Drop
    <3>2. vWorkQueue = << >> /\ it \in Block
      BY <3>1 DEF OrphanInv, HoldInv, TypeOK
    <3> QED
      BY <3>1, <3>2, ByPrevIsOrphans
  <2>2. ASSUME NEW d \in Block, AdoptOrphan(d)
        PROVE  pprev[b] \in mapBlockIndex
    <3>1. b = d /\ vWorkQueue # << >> /\ b \in mapOrphanBlocksByPrev[Head(vWorkQueue)]
      BY <2>2 DEF AdoptOrphan, Drop
    <3>2. vWorkQueue \in Seq(Block) /\ Head(vWorkQueue) = vWorkQueue[1] /\ 1 \in 1..Len(vWorkQueue)
          /\ Head(vWorkQueue) \in Block
      BY <3>1 DEF OrphanInv, TypeOK
    <3>3. Head(vWorkQueue) \in mapBlockIndex
      BY <3>2 DEF OrphanInv, QueueInv
    <3> QED
      BY <3>1, <3>2, <3>3 DEF OrphanInv, OrphanMapsAgree
  <2>3. ASSUME \/ NextInQueue \/ PruneWalk
               \/ \E d \in Block : \E pfrom, fImporting \in BOOLEAN : ProcessBlock(d, pfrom, fImporting)
        PROVE  FALSE
    BY <2>3 DEF NextInQueue, PruneWalk, ProcessBlock, orphanVars
  <2>4. ASSUME \E fInitialDownload \in BOOLEAN : HoldOrphan(fInitialDownload) PROVE FALSE
    BY <2>4 DEF HoldOrphan
  <2>5. ASSUME Restart PROVE FALSE
    BY <2>5 DEF Restart, OrphanInv, TypeOK
  <2> QED
    BY <2>1, <2>2, <2>3, <2>4, <2>5 DEF Next, Hold, Adopt
<1>2. [][A]_vars <=> PruneKeepsChains
  BY DEF PruneKeepsChains
<1> HIDE DEF A
<1> QED
  BY <1>1, <1>2, OrphanInvariant, PTL DEF Spec
=============================================================================
