----------------------------- MODULE OrphanBlocks -----------------------------
(***************************************************************************)
(* The holding area for blocks whose predecessor is missing: ProcessBlock, *)
(* PruneOrphanBlocks, WantedByOrphan and AcceptBlock of src/main.cpp.      *)
(*                                                                         *)
(* ProcessBlock runs under cs_main and, in the model, in the steps of its  *)
(* two loops: PruneOrphanBlocks walks from a random orphan to a leaf, and  *)
(* the loop over vWorkQueue adopts one orphan after the other; the process *)
(* can stop between any two steps.  What SetBestChain does is the subject  *)
(* of BlockChain; here AddToBlockIndex indexes the block and may then      *)
(* return false because the block could not be attached.                   *)
(***************************************************************************)
EXTENDS Naturals, FiniteSets, Sequences

CONSTANTS
    Block,              \* block hashes
    Genesis,
    pprev,              \* CBlock::hashPrevBlock (of Genesis: itself)
    Stake,              \* kernels: (prevout, nTime) of a coinstake
    NoStake,            \* GetProofOfStake() of a proof-of-work block
    stake,              \* CBlock::GetProofOfStake()
    FailsCheck,         \* blocks refused by the signature, checkpoint-time and CheckBlock rules
    FailsAccept,        \* blocks refused by AcceptBlock's rules
    MayNotAttach,       \* blocks for which SetBestChain can fail
    MayFailNow,         \* blocks that the clock, the tip or the disk can make the node refuse now
    NoBlock,            \* neither a block nor an iterator
    maxorphanblocks,    \* -maxorphanblocks
    MaxCrash            \* bound on the number of restarts

\* A block's hash covers hashPrevBlock, so that hashPrevBlock never leads round a cycle; the
\* genesis block is a proof-of-work block.
ASSUME OrphanAssumption ==
    /\ Genesis \in Block /\ NoBlock \notin Block
    /\ pprev \in [Block -> Block]
    /\ \A S \in SUBSET (Block \ {Genesis}) :
          IsFiniteSet(S) /\ S # {} => \E b \in S : pprev[b] \notin S
    /\ NoStake \notin Stake
    /\ stake \in [Block -> Stake \cup {NoStake}] /\ stake[Genesis] = NoStake
    /\ {FailsCheck, FailsAccept, MayNotAttach, MayFailNow} \subseteq SUBSET (Block \ {Genesis})
    /\ maxorphanblocks \in Nat
    /\ MaxCrash \in Nat

\* The blocks that following hashPrevBlock from b visits, b included.
branch == [b \in Block |->
             {a \in Block : \A S \in SUBSET Block :
                 (b \in S /\ \A x \in S : pprev[x] \in S) => a \in S}]

IsProofOfStake(b) == stake[b] # NoStake

\* What recording the stakes of the proof-of-stake blocks of S adds to a set.
StakesOf(S) == {stake[b] : b \in S} \ {NoStake}

VARIABLES
    mapBlockIndex,          \* indexed blocks (on disk as well)
    setStakeSeen,
    mapOrphanBlocks,        \* hashes in the holding area
    mapOrphanBlocksByPrev,  \* the same orphans by predecessor
    setStakeSeenOrphan,
    asked,                  \* blocks AskFor requested from the peer and not yet received
    pblock,                 \* the orphan ProcessBlock is about to store, or NoBlock
    it,                     \* PruneOrphanBlocks's iterator, NoBlock outside it
    vWorkQueue,             \* ProcessBlock's queue; empty between calls
    unattached,             \* history: blocks indexed although AcceptBlock returned false
    turnedAway,             \* history: valid blocks that were refused at some moment
    unasked,                \* history: orphans stored during the initial block download
    nCrash

indexVars  == <<mapBlockIndex, setStakeSeen, unattached, turnedAway>>
orphanVars == <<mapOrphanBlocks, mapOrphanBlocksByPrev, setStakeSeenOrphan, unasked>>
vars == <<indexVars, orphanVars, asked, pblock, it, vWorkQueue, nCrash>>

NoOrphans == [p \in Block |-> {}]

Init ==
    /\ mapBlockIndex = {Genesis}
    /\ setStakeSeen = {}
    /\ mapOrphanBlocks = {}
    /\ mapOrphanBlocksByPrev = NoOrphans
    /\ setStakeSeenOrphan = {}
    /\ asked = {}
    /\ pblock = NoBlock
    /\ it = NoBlock
    /\ vWorkQueue = << >>
    /\ unattached = {}
    /\ turnedAway = {}
    /\ unasked = {}
    /\ nCrash = 0

\* Types; and PruneOrphanBlocks, which removes one orphan per orphan stored, keeps the
\* holding area within one of its limit.
TypeOK ==
    /\ mapBlockIndex \in SUBSET Block
    /\ setStakeSeen \in SUBSET Stake
    /\ mapOrphanBlocks \in SUBSET Block
    /\ Cardinality(mapOrphanBlocks) <= maxorphanblocks + 1
    /\ mapOrphanBlocksByPrev \in [Block -> SUBSET Block]
    /\ setStakeSeenOrphan \in SUBSET Stake
    /\ asked \in SUBSET Block
    /\ {pblock, it} \subseteq Block \cup {NoBlock}
    /\ vWorkQueue \in Seq(Block)
    /\ unattached \in SUBSET Block
    /\ turnedAway \in SUBSET Block
    /\ unasked \in SUBSET mapOrphanBlocks
    /\ nCrash \in 0..MaxCrash

\* No ProcessBlock is running.
Idle == pblock = NoBlock /\ vWorkQueue = << >>

-----------------------------------------------------------------------------
(***************************************************************************)
(* AcceptBlock(b) with its outcome.  It refuses b by its rules, or because *)
(* the stake's kernel, the synchronized checkpoint or the disk do not let  *)
(* it in now; otherwise it indexes b, and still returns false when         *)
(* SetBestChain fails.                                                     *)
(***************************************************************************)
AcceptBlock(b, outcome) ==
    LET valid == /\ b \notin mapBlockIndex
                 /\ pprev[b] \in mapBlockIndex
                 /\ b \notin FailsAccept
    IN  /\ \/ outcome = "accepted" /\ valid
           \/ outcome = "unattached" /\ valid /\ b \in MayNotAttach
           \/ outcome = "refused" /\ (valid => b \in MayFailNow)
        /\ mapBlockIndex' = IF outcome = "refused" THEN mapBlockIndex ELSE mapBlockIndex \cup {b}
        /\ setStakeSeen' =
              IF outcome = "refused" THEN setStakeSeen ELSE setStakeSeen \cup StakesOf({b})
        /\ unattached' = IF outcome = "unattached" THEN unattached \cup {b} ELSE unattached
        /\ turnedAway' =
              IF outcome = "refused" /\ valid THEN turnedAway \cup {b} ELSE turnedAway

Outcome == {"accepted", "unattached", "refused"}

\* Mutant: the stake of an orphan that leaves stays in setStakeSeenOrphan.
DropKeepsStake(b) ==
    /\ mapOrphanBlocks' = mapOrphanBlocks \ {b}
    /\ UNCHANGED setStakeSeenOrphan
    /\ unasked' = unasked \ {b}

\* Orphan b leaves mapOrphanBlocks, and its stake setStakeSeenOrphan.
Drop(b) ==
    /\ mapOrphanBlocks' = mapOrphanBlocks \ {b}
    /\ setStakeSeenOrphan' = setStakeSeenOrphan \ {stake[b]}
    /\ unasked' = unasked \ {b}

-----------------------------------------------------------------------------
\* The entries of the multimap.
ByPrev == UNION {mapOrphanBlocksByPrev[p] : p \in Block}

\* Mutant: the limit is compared with < instead of <=.
PruneStartsTooLate ==
    IF Cardinality(ByPrev) <= maxorphanblocks + 1 THEN {NoBlock} ELSE ByPrev

\* Where PruneOrphanBlocks starts: at a random entry, and nowhere below the limit.
PruneStarts == IF Cardinality(ByPrev) <= maxorphanblocks THEN {NoBlock} ELSE ByPrev

\* The orphans that wait for b: mapOrphanBlocksByPrev.find(hashBlock).
Successors(b) == mapOrphanBlocksByPrev[b]

\* The orphan has successors in the holding area: move to one of them.
PruneWalk ==
    /\ it # NoBlock
    /\ Successors(it) # {}
    /\ it' \in Successors(it)
    /\ UNCHANGED <<indexVars, orphanVars, asked, pblock, vWorkQueue, nCrash>>

\* Mutant: the random orphan itself is removed.
PruneEraseAny ==
    /\ it # NoBlock
    /\ mapOrphanBlocksByPrev' = [mapOrphanBlocksByPrev EXCEPT ![pprev[it]] = @ \ {it}]
    /\ Drop(it)
    /\ it' = NoBlock
    /\ UNCHANGED <<indexVars, asked, pblock, vWorkQueue, nCrash>>

\* Mutant: the multimap keeps the orphan.
PruneEraseOneMap ==
    /\ it # NoBlock
    /\ Successors(it) = {}
    /\ Drop(it)
    /\ it' = NoBlock
    /\ UNCHANGED <<indexVars, mapOrphanBlocksByPrev, asked, pblock, vWorkQueue, nCrash>>

\* It has none: it is removed from both maps, and PruneOrphanBlocks returns.
PruneErase ==
    /\ it # NoBlock
    /\ Successors(it) = {}
    /\ mapOrphanBlocksByPrev' = [mapOrphanBlocksByPrev EXCEPT ![pprev[it]] = @ \ {it}]
    /\ Drop(it)
    /\ it' = NoBlock
    /\ UNCHANGED <<indexVars, asked, pblock, vWorkQueue, nCrash>>

\* The block an orphan chain waits for: the first ancestor of b outside the holding area S.
WantedByOrphan(b, S) ==
    CHOOSE a \in branch[b] \ S : branch[b] \ branch[a] \subseteq S

\* After PruneOrphanBlocks the block enters the holding area.  Its missing ancestor is asked
\* for, unless IsInitialBlockDownload.
HoldOrphan(fInitialDownload) ==
    /\ pblock # NoBlock
    /\ it = NoBlock
    /\ mapOrphanBlocks' = mapOrphanBlocks \cup {pblock}
    /\ mapOrphanBlocksByPrev' = [mapOrphanBlocksByPrev EXCEPT ![pprev[pblock]] = @ \cup {pblock}]
    /\ setStakeSeenOrphan' = setStakeSeenOrphan \cup StakesOf({pblock})
    /\ asked' = IF fInitialDownload THEN asked
                ELSE asked \cup {WantedByOrphan(pblock, mapOrphanBlocks')}
    /\ unasked' = IF fInitialDownload THEN unasked \cup {pblock} ELSE unasked
    /\ pblock' = NoBlock
    /\ UNCHANGED <<indexVars, it, vWorkQueue, nCrash>>

-----------------------------------------------------------------------------
\* Mutant: no exception for a block an orphan waits for.
DuplicateStakeAlways(b, seen) == IsProofOfStake(b) /\ stake[b] \in seen

\* "Duplicate stake allowed only when there is orphan child block".
DuplicateStake(b, seen) ==
    IsProofOfStake(b) /\ stake[b] \in seen /\ mapOrphanBlocksByPrev[b] = {}

\* ProcessBlock returns before it stores anything.
Refused(b, pfrom, fImporting) ==
    \/ b \in mapBlockIndex \cup mapOrphanBlocks
    \/ ~fImporting /\ DuplicateStake(b, setStakeSeen)
    \/ b \in FailsCheck
    \/ /\ pprev[b] \notin mapBlockIndex
       /\ ~pfrom \/ DuplicateStake(b, setStakeSeenOrphan)

(***************************************************************************)
(* ProcessBlock(pfrom, b) up to its loops.  pfrom is FALSE for a block of  *)
(* the node's own staker or an imported file, TRUE for one from a peer,    *)
(* whose blocks are not looked at during an import.  The time of b and of  *)
(* the checkpoint can make it refuse b now and take it later.              *)
(***************************************************************************)
ProcessBlock(b, pfrom, fImporting) ==
    /\ Idle
    /\ ~(pfrom /\ fImporting)
    /\ asked' = IF pfrom THEN asked \ {b} ELSE asked
    /\ \/ /\ Refused(b, pfrom, fImporting)
          /\ UNCHANGED <<indexVars, pblock, it, vWorkQueue>>
       \/ /\ ~Refused(b, pfrom, fImporting)
          /\ b \in MayFailNow
          /\ turnedAway' = turnedAway \cup {b}
          /\ UNCHANGED <<mapBlockIndex, setStakeSeen, unattached, pblock, it, vWorkQueue>>
       \/ /\ ~Refused(b, pfrom, fImporting)
          /\ pprev[b] \notin mapBlockIndex
          /\ pblock' = b
          /\ it' \in PruneStarts
          /\ UNCHANGED <<indexVars, vWorkQueue>>
       \/ /\ ~Refused(b, pfrom, fImporting)
          /\ pprev[b] \in mapBlockIndex
          /\ \E outcome \in Outcome :
                /\ AcceptBlock(b, outcome)
                /\ vWorkQueue' = IF outcome = "accepted" THEN <<b>> ELSE << >>
          /\ UNCHANGED <<pblock, it>>
    /\ UNCHANGED <<orphanVars, nCrash>>

\* Mutant: adopted orphans are not queued.
AdoptOrphanNotQueued(b) ==
    /\ vWorkQueue # << >>
    /\ b \in mapOrphanBlocksByPrev[Head(vWorkQueue)] \cap mapOrphanBlocks
    /\ \E outcome \in Outcome : AcceptBlock(b, outcome) /\ UNCHANGED vWorkQueue
    /\ Drop(b)
    /\ UNCHANGED <<mapOrphanBlocksByPrev, asked, pblock, it, nCrash>>

\* One orphan that waits for the block at the head of the queue is accepted or not, and
\* leaves mapOrphanBlocks; the multimap keeps it until all of them are done.
AdoptOrphan(b) ==
    /\ vWorkQueue # << >>
    /\ b \in mapOrphanBlocksByPrev[Head(vWorkQueue)] \cap mapOrphanBlocks
    /\ \E outcome \in Outcome :
          /\ AcceptBlock(b, outcome)
          /\ vWorkQueue' = IF outcome = "accepted" THEN Append(vWorkQueue, b) ELSE vWorkQueue
    /\ Drop(b)
    /\ UNCHANGED <<mapOrphanBlocksByPrev, asked, pblock, it, nCrash>>

\* All of them are done: the multimap loses them together.
NextInQueue ==
    /\ vWorkQueue # << >>
    /\ mapOrphanBlocksByPrev[Head(vWorkQueue)] \cap mapOrphanBlocks = {}
    /\ mapOrphanBlocksByPrev' = [mapOrphanBlocksByPrev EXCEPT ![Head(vWorkQueue)] = {}]
    /\ vWorkQueue' = Tail(vWorkQueue)
    /\ UNCHANGED <<indexVars, mapOrphanBlocks, setStakeSeenOrphan, unasked, asked, pblock, it,
                   nCrash>>

\* The process stops and starts again: LoadBlockIndex rebuilds setStakeSeen, the holding
\* area and the requests are gone.
Restart ==
    /\ nCrash < MaxCrash
    /\ nCrash' = nCrash + 1
    /\ setStakeSeen' = StakesOf(mapBlockIndex)
    /\ mapOrphanBlocks' = {}
    /\ mapOrphanBlocksByPrev' = NoOrphans
    /\ setStakeSeenOrphan' = {}
    /\ asked' = {}
    /\ pblock' = NoBlock
    /\ it' = NoBlock
    /\ vWorkQueue' = << >>
    /\ unasked' = {}
    /\ UNCHANGED <<mapBlockIndex, unattached, turnedAway>>

Hold  == PruneWalk \/ PruneErase \/ \E fInitialDownload \in BOOLEAN : HoldOrphan(fInitialDownload)
Adopt == (\E b \in Block : AdoptOrphan(b)) \/ NextInQueue

Next ==
    \/ \E b \in Block : \E pfrom, fImporting \in BOOLEAN : ProcessBlock(b, pfrom, fImporting)
    \/ Hold
    \/ Adopt
    \/ Restart

Spec == Init /\ [][Next]_vars

\* A call that has begun runs on, and a peer answers getdata for a block it announced a
\* descendant of; the answer may have to wait for cs_main again and again, but gets it.
FairSpec ==
    /\ Spec
    /\ WF_vars(Hold \/ Adopt)
    /\ \A b \in Block : SF_vars(b \in asked /\ ProcessBlock(b, TRUE, FALSE))

-----------------------------------------------------------------------------
\* The two maps hold the same orphans, each under its predecessor, and no block that is
\* indexed: an orphan left in one map only could be neither adopted nor received again
\* (ProcessBlock, PruneOrphanBlocks and the adoption loop each update both).  The entries of
\* the block that is being adopted to go together at the end, so until then the multimap
\* still has those that left mapOrphanBlocks.
OrphanMapsAgree ==
    /\ \A p \in Block :
          IF vWorkQueue # << >> /\ p = Head(vWorkQueue)
          THEN /\ {b \in mapOrphanBlocks : pprev[b] = p} \subseteq mapOrphanBlocksByPrev[p]
               /\ \A b \in mapOrphanBlocksByPrev[p] : pprev[b] = p
          ELSE mapOrphanBlocksByPrev[p] = {b \in mapOrphanBlocks : pprev[b] = p}
    /\ mapOrphanBlocks \cap mapBlockIndex = {}

\* Between calls no orphan waits for a block the node has, except one that AddToBlockIndex
\* indexed and SetBestChain could not attach (the adoption loop reaches every descendant).
NoOrphanLeftBehind ==
    Idle => \A b \in mapOrphanBlocks : pprev[b] \in mapBlockIndex => pprev[b] \in unattached

\* Wherever the walk of PruneOrphanBlocks begins, it never breaks an orphan chain: an orphan
\* that leaves the holding area while its predecessor is missing is one no other orphan waits
\* for ("which does not have any dependent orphans").
PruneKeepsChains ==
    [][nCrash' = nCrash =>
         \A b \in mapOrphanBlocks \ mapOrphanBlocks' :
            pprev[b] \in mapBlockIndex \/ \A c \in mapOrphanBlocks : pprev[c] # b]_vars

\* setStakeSeen has the stake of every indexed block, after a restart too, and
\* setStakeSeenOrphan no stake that no orphan has: a block is never refused as a duplicate
\* of one the node does not hold.
StakeSetsDescribeBlocks ==
    /\ setStakeSeen = StakesOf(mapBlockIndex)
    /\ setStakeSeenOrphan \subseteq StakesOf(mapOrphanBlocks)

\* No orphan with a valid ancestry waits for ever: the requests of ProcessBlock fetch its
\* missing ancestors one after the other, the one that was refused as a duplicate stake
\* included ("we ask for it again directly").  That takes both loops of ProcessBlock to end,
\* the walk of PruneOrphanBlocks and the adoption, whose queue grows while it runs.  Three
\* things can leave an orphan waiting: an ancestor that was not attached, one that was refused
\* although it is valid and is not asked for again, and one stored during the initial block
\* download, when nothing is asked for.
OrphansResolve ==
    \A b \in Block :
        branch[b] \cap (FailsCheck \cup FailsAccept) = {} =>
            (b \in mapOrphanBlocks
                ~> \/ b \notin mapOrphanBlocks
                   \/ branch[b] \cap (unattached \cup turnedAway \cup unasked) # {})
=============================================================================
