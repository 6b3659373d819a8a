--------------------------- MODULE BlockChainProofs ---------------------------
(***************************************************************************)
(* Proofs about BlockChain, for every block tree, every set of             *)
(* transactions and any number of crashes: type correctness, that the      *)
(* committed transaction index always describes the committed best chain,  *)
(* that the links and the pool follow it, and the refinement of Ledger.    *)
(*                                                                         *)
(* The first part is about TxIndex: branches of the block tree, and the    *)
(* two lemmas the safety of the best chain rests on, that ConnectBlock and *)
(* DisconnectBlock take an index that describes a branch to one that       *)
(* describes the longer or the shorter branch.                             *)
(***************************************************************************)
EXTENDS BlockChain, TLAPS, WellFoundedInduction

\* A set of heights or of positions in a block has a least element.
LEMMA LeastNatural ==
    ASSUME NEW S \in SUBSET Nat, S # {}
    PROVE  \E n \in S : \A m \in S : n <= m
<1> DEFINE R == OpToRel(<, Nat)
<1>1. IsWellFoundedOn(R, Nat)
  BY NatLessThanWellFounded
<1>2. \A m, n \in Nat : m < n => <<m, n>> \in R
  BY DEF OpToRel
<1> HIDE DEF R
<1>3. PICK n \in S : \A m \in S : ~(<<m, n>> \in R)
  BY <1>1, WFMin
<1>4. \A m \in S : ~(m < n)
  BY <1>2, <1>3
<1> QED
  BY <1>3, <1>4

\* S contains the predecessor of each of its blocks.
Closed(S) == \A x \in S : pprev[x] = NoBlock \/ pprev[x] \in S

\* A branch is a closed set of blocks that contains its last block (CBlockIndex::pprev).
LEMMA BranchClosed ==
    ASSUME NEW b \in Block
    PROVE  b \in branch[b] /\ branch[b] \subseteq Block /\ Closed(branch[b])
<1>1. branch[b] = {a \in Block : \A S \in SUBSET Block :
                     (b \in S /\ \A x \in S : pprev[x] = NoBlock \/ pprev[x] \in S) => a \in S}
  BY DEF branch
<1>2. b \in branch[b] /\ branch[b] \subseteq Block
  BY <1>1
<1>3. ASSUME NEW x \in branch[b], pprev[x] # NoBlock
      PROVE  pprev[x] \in branch[b]
  <2>1. pprev[x] \in Block
    BY <1>2, <1>3, TreeAssumption
  <2>2. ASSUME NEW S \in SUBSET Block, b \in S,
               \A y \in S : pprev[y] = NoBlock \/ pprev[y] \in S
        PROVE  pprev[x] \in S
    BY <1>1, <1>3, <2>2
  <2> QED
    BY <1>1, <2>1, <2>2
<1> QED
  BY <1>2, <1>3 DEF Closed

\* It is the least such set: walking back over pprev never leaves a closed set.
LEMMA BranchLeast ==
    ASSUME NEW b \in Block, NEW S \in SUBSET Block, b \in S, Closed(S)
    PROVE  branch[b] \subseteq S
BY DEF branch, Closed

\* The branch of an ancestor is part of the branch.
LEMMA BranchMonotone ==
    ASSUME NEW b \in Block, NEW a \in branch[b]
    PROVE  a \in Block /\ branch[a] \subseteq branch[b]
BY BranchClosed, BranchLeast

\* A branch is its last block and the branch of the predecessor; heights tell them apart.
LEMMA BranchStep ==
    ASSUME NEW b \in Block, b # Genesis
    PROVE  /\ pprev[b] \in Block
           /\ branch[b] = {b} \cup branch[pprev[b]]
           /\ b \notin branch[pprev[b]]
<1>1. pprev[b] \in Block
  BY TreeAssumption
<1>2. branch[pprev[b]] \subseteq Block /\ Closed(branch[pprev[b]]) /\ pprev[b] \in branch[pprev[b]]
  BY <1>1, BranchClosed
<1>3. Closed({b} \cup branch[pprev[b]])
  BY <1>2 DEF Closed
<1>4. branch[b] \subseteq {b} \cup branch[pprev[b]]
  BY <1>2, <1>3, BranchLeast
<1>5. b \in branch[b] /\ pprev[b] \in branch[b]
  BY <1>1, BranchClosed, TreeAssumption DEF Closed
<1>6. branch[pprev[b]] \subseteq branch[b]
  BY <1>5, BranchMonotone
<1>7. b \notin branch[pprev[b]]
  <2> DEFINE lower == {x \in Block : nHeight[x] <= nHeight[pprev[b]]}
  <2>1. pprev[b] \in lower
    BY <1>1, TreeAssumption
  <2>2. Closed(lower)
    <3>1. ASSUME NEW x \in lower, pprev[x] # NoBlock PROVE pprev[x] \in lower
      <4>1. x # Genesis /\ pprev[x] \in Block
        BY <3>1, TreeAssumption
      <4>2. nHeight[x] = nHeight[pprev[x]] + 1 /\ nHeight[x] \in Nat
              /\ nHeight[pprev[x]] \in Nat /\ nHeight[pprev[b]] \in Nat
        BY <1>1, <4>1, TreeAssumption
      <4> QED
        BY <4>1, <4>2
    <3> QED
      BY <3>1 DEF Closed
  <2>3. branch[pprev[b]] \subseteq lower
    BY <1>1, <2>1, <2>2, BranchLeast
  <2>4. nHeight[b] = nHeight[pprev[b]] + 1 /\ nHeight[pprev[b]] \in Nat
    BY <1>1, TreeAssumption
  <2>5. b \notin lower
    BY <2>4
  <2> QED
    BY <2>3, <2>5
<1> QED
  BY <1>1, <1>4, <1>5, <1>6, <1>7

\* The branch of the genesis block is that block, and every branch contains it.
LEMMA BranchGenesis ==
    /\ branch[Genesis] = {Genesis}
    /\ \A b \in Block : Genesis \in branch[b]
<1>1. branch[Genesis] = {Genesis}
  <2>1. Genesis \in Block /\ pprev[Genesis] = NoBlock
    BY TreeAssumption
  <2>2. Closed({Genesis})
    BY <2>1 DEF Closed
  <2>3. branch[Genesis] \subseteq {Genesis}
    BY <2>1, <2>2, BranchLeast
  <2> QED
    BY <2>1, <2>3, BranchClosed
<1>2. ASSUME NEW b \in Block PROVE Genesis \in branch[b]
  <2> DEFINE H == {nHeight[x] : x \in branch[b]}
  <2>1. b \in branch[b] /\ branch[b] \subseteq Block /\ Closed(branch[b])
    BY BranchClosed
  <2>2. H \in SUBSET Nat /\ H # {}
    BY <2>1, TreeAssumption
  <2> HIDE DEF H
  <2>3. PICK n \in H : \A m \in H : n <= m
    BY <2>2, LeastNatural
  <2>4. PICK x \in branch[b] : nHeight[x] = n
    BY <2>3 DEF H
  <2>5. CASE x = Genesis
    BY <2>4, <2>5
  <2>6. CASE x # Genesis
    <3>1. pprev[x] \in Block /\ nHeight[x] = nHeight[pprev[x]] + 1 /\ nHeight[pprev[x]] \in Nat
      BY <2>1, <2>4, <2>6, TreeAssumption
    <3>2. pprev[x] \in branch[b]
      BY <2>1, <2>4, <3>1, TreeAssumption DEF Closed
    <3>3. n <= nHeight[pprev[x]]
      BY <2>3, <3>2 DEF H
    <3> QED
      BY <2>4, <3>1, <3>3
  <2> QED
    BY <2>5, <2>6
<1> QED
  BY <1>1, <1>2

\* Of two blocks of one branch, one is an ancestor of the other.
LEMMA BranchLinear ==
    ASSUME NEW c \in Block, NEW a \in branch[c], NEW b \in branch[c]
    PROVE  a \in branch[b] \/ b \in branch[a]
<1> DEFINE S == {x \in Block : a \in branch[x] \/ x \in branch[a]}
<1>1. a \in Block /\ c \in S
  BY BranchMonotone
<1>2. Closed(S)
  <2>1. ASSUME NEW x \in S, pprev[x] # NoBlock PROVE pprev[x] \in S
    <3>1. x \in Block /\ pprev[x] \in Block /\ x # Genesis
      BY <2>1, TreeAssumption
    <3>2. CASE x \in branch[a]
      BY <1>1, <2>1, <3>1, <3>2, BranchClosed DEF Closed
    <3>3. CASE a \in branch[x] /\ x \notin branch[a]
      <4>1. a # x
        BY <1>1, <3>3, BranchClosed
      <4>2. a \in branch[pprev[x]]
        BY <3>1, <3>3, <4>1, BranchStep
      <4> QED
        BY <3>1, <4>2
    <3> QED
      BY <2>1, <3>2, <3>3
  <2> QED
    BY <2>1 DEF Closed
<1>3. branch[c] \subseteq S
  BY <1>1, <1>2, BranchLeast
<1> QED
  BY <1>3

\* Below its last block every block of a branch has a successor on it.
LEMMA BranchNext ==
    ASSUME NEW b \in Block, NEW a \in branch[b], a # b
    PROVE  \E x \in branch[b] : pprev[x] = a
<1>1. SUFFICES ASSUME \A x \in branch[b] : pprev[x] # a PROVE FALSE
  OBVIOUS
<1>2. b \in branch[b] /\ branch[b] \subseteq Block /\ Closed(branch[b])
  BY BranchClosed
<1>3. Closed(branch[b] \ {a})
  BY <1>1, <1>2 DEF Closed
<1>4. branch[b] \subseteq branch[b] \ {a}
  BY <1>2, <1>3, BranchLeast
<1> QED
  BY <1>4
-----------------------------------------------------------------------------
\* What TxsOf, SpentBy and their unions over a branch contain.
LEMMA TxSets ==
    ASSUME NEW b \in Block
    PROVE  /\ \A t \in TxsOf(b) : t \in Tx /\ \E i \in DOMAIN vtx[b] : t = vtx[b][i]
           /\ \A i \in DOMAIN vtx[b] : vtx[b][i] \in TxsOf(b) /\ i \in Nat \ {0}
           /\ SpentBy(b) \subseteq OutPoint
           /\ BranchTxs(b) \subseteq Tx
           /\ BranchSpent(b) \subseteq OutPoint
<1>1. ASSUME NEW a \in Block
      PROVE  /\ \A t \in TxsOf(a) : t \in Tx /\ \E i \in DOMAIN vtx[a] : t = vtx[a][i]
             /\ \A i \in DOMAIN vtx[a] : vtx[a][i] \in TxsOf(a) /\ i \in Nat \ {0}
             /\ SpentBy(a) \subseteq OutPoint
  <2>1. vtx[a] \in Seq(Tx)
    BY TxAssumption
  <2>2. \A i \in DOMAIN vtx[a] : vtx[a][i] \in Tx /\ i \in Nat \ {0}
    BY <2>1
  <2>3. \A t \in TxsOf(a) : t \in Tx /\ \E i \in DOMAIN vtx[a] : t = vtx[a][i]
    BY <2>2 DEF TxsOf
  <2>4. \A t \in Tx : vin[t] \subseteq OutPoint
    BY TxAssumption
  <2> QED
    BY <2>2, <2>3, <2>4 DEF TxsOf, SpentBy
<1>2. \A a \in branch[b] : a \in Block
  BY BranchClosed
<1> QED
  BY <1>1, <1>2 DEF BranchTxs, BranchSpent

\* The unions over a branch grow by the last block's part.
LEMMA BranchUnions ==
    ASSUME NEW b \in Block, b # Genesis
    PROVE  /\ BranchTxs(b) = TxsOf(b) \cup BranchTxs(pprev[b])
           /\ BranchSpent(b) = SpentBy(b) \cup BranchSpent(pprev[b])
BY BranchStep DEF BranchTxs, BranchSpent

\* The genesis block carries nothing that is indexed.
LEMMA GenesisEmpty == TxsOf(Genesis) = {} /\ SpentBy(Genesis) = {}
<1>1. DOMAIN vtx[Genesis] = {}
  BY TxAssumption
<1> QED
  BY <1>1 DEF TxsOf, SpentBy

\* On a valid branch whatever is spent was created on the branch.
LEMMA SpentIsCreated ==
    ASSUME NEW b \in Block, ValidBranch(b), NEW o \in BranchSpent(b)
    PROVE  hash[o] \in BranchTxs(b)
<1>1. PICK a \in branch[b] : o \in SpentBy(a)
  BY DEF BranchSpent
<1>2. a # Genesis
  BY <1>1, GenesisEmpty
<1>3. hash[o] \in BranchTxs(a)
  BY <1>1, <1>2 DEF ValidBranch, Fits
<1>4. branch[a] \subseteq branch[b]
  BY BranchMonotone
<1> QED
  BY <1>3, <1>4 DEF BranchTxs

\* An index that describes a branch has a record for exactly the branch's transactions.
LEMMA IndexedTxs ==
    ASSUME NEW db \in Database, NEW b \in Block, DescribesBranch(db, b), NEW t \in Tx
    PROVE  db.pos[t] # NoBlock <=> t \in BranchTxs(b)
<1>1. db.pos[t] \in Block \cup {NoBlock}
  BY DEF Database
<1>2. \A a \in branch[b] : a \in Block /\ a # NoBlock
  BY BranchClosed, TreeAssumption
<1>3. \A a \in Block : db.pos[t] = a <=> (a \in branch[b] /\ t \in TxsOf(a))
  BY DEF DescribesBranch
<1> QED
  BY <1>1, <1>2, <1>3 DEF BranchTxs

\* A block that connects repeats no transaction of its branch (ConnectBlock: the vSpent check
\* of ConnectInputs covers every transaction with inputs, the height rule every coinbase).
LEMMA ConnectedTxsAreNew ==
    ASSUME NEW db \in Database, NEW b \in Block, b # Genesis,
           DescribesBranch(db, pprev[b]), BlockConnects(db, b)
    PROVE  TxsOf(b) \cap BranchTxs(pprev[b]) = {}
<1> DEFINE p == pprev[b]
           D == {i \in DOMAIN vtx[b] : vtx[b][i] \in BranchTxs(p)}
<1>1. p \in Block
  BY BranchStep
<1>2. SUFFICES ASSUME D # {} PROVE FALSE
  BY TxSets
<1>3. D \in SUBSET Nat
  BY TxSets
<1> HIDE DEF D
<1>4. PICK i \in D : \A j \in D : i <= j
  BY <1>2, <1>3, LeastNatural
<1>5. i \in DOMAIN vtx[b] /\ vtx[b][i] \in BranchTxs(p) /\ i \in Nat
  BY <1>3, <1>4 DEF D
<1>6. PICK a \in branch[p] : vtx[b][i] \in TxsOf(a)
  BY <1>5 DEF BranchTxs
<1>7. vtx[b][i] \in TxsOf(b) /\ vtx[b][i] \in Tx
  BY <1>5, TxSets
<1>8. vtx[b][i] \notin CoinBase
  BY <1>6, <1>7, TxAssumption
<1>9. PICK o : o \in vin[vtx[b][i]]
  BY <1>7, <1>8, TxAssumption
<1>10. o \in BranchSpent(p)
  BY <1>6, <1>9 DEF SpentBy, BranchSpent
<1>11. o \in db.spent
  BY <1>10 DEF DescribesBranch
<1>12. InputConnects(db, b, i, o)
  BY <1>5, <1>9 DEF BlockConnects
<1>13. PICK j \in 1..(i-1) : vtx[b][j] = hash[o]
  BY <1>11, <1>12 DEF InputConnects
<1>14. hash[o] \in BranchTxs(p)
  BY <1>1, <1>10, SpentIsCreated DEF DescribesBranch
<1>15. j \in DOMAIN vtx[b] /\ j < i
  <2>1. vtx[b] \in Seq(Tx)
    BY TxAssumption
  <2> QED
    BY <1>5, <2>1
<1>16. j \in D
  BY <1>13, <1>14, <1>15 DEF D
<1> QED
  BY <1>4, <1>5, <1>15, <1>16

\* A block that connects to an index describing its branch makes that branch valid.
LEMMA ConnectedFits ==
    ASSUME NEW db \in Database, NEW b \in Block, b # Genesis,
           DescribesBranch(db, pprev[b]), BlockConnects(db, b)
    PROVE  Fits(b)
<1> DEFINE p == pprev[b]
<1>1. p \in Block
  BY BranchStep
<1>2. TxsOf(b) \cap BranchTxs(p) = {}
  BY ConnectedTxsAreNew
<1>3. ASSUME NEW i \in DOMAIN vtx[b], NEW o \in vin[vtx[b][i]]
      PROVE  /\ o \in OutPoint /\ hash[o] \in Tx
             /\ InputConnects(db, b, i, o)
  BY <1>3, TxSets, TxAssumption DEF BlockConnects
<1>4. ASSUME NEW i \in DOMAIN vtx[b], NEW j \in 1..(i-1)
      PROVE  j \in DOMAIN vtx[b] /\ j < i
  <2>1. vtx[b] \in Seq(Tx)
    BY TxAssumption
  <2> QED
    BY <2>1
<1>5. ASSUME NEW i \in DOMAIN vtx[b], NEW o \in vin[vtx[b][i]],
             ~\E j \in 1..(i-1) : vtx[b][j] = hash[o]
      PROVE  hash[o] \in BranchTxs(p) /\ o \notin BranchSpent(p)
  <2>1. db.pos[hash[o]] # NoBlock /\ o \notin db.spent
    BY <1>3, <1>5 DEF InputConnects
  <2>2. db.spent = BranchSpent(p)
    BY DEF DescribesBranch
  <2> QED
    BY <1>1, <1>3, <2>1, <2>2, IndexedTxs
<1>6. SpentBy(b) \cap BranchSpent(p) = {}
  <2>1. SUFFICES ASSUME NEW i \in DOMAIN vtx[b], NEW o \in vin[vtx[b][i]], o \in BranchSpent(p)
                 PROVE  FALSE
    BY TxSets DEF SpentBy
  <2>2. PICK j \in 1..(i-1) : vtx[b][j] = hash[o]
    BY <1>5, <2>1
  <2>3. hash[o] \in TxsOf(b)
    BY <1>4, <2>2, TxSets
  <2>4. hash[o] \in BranchTxs(p)
    BY <1>1, <2>1, SpentIsCreated DEF DescribesBranch
  <2> QED
    BY <1>2, <2>3, <2>4
<1>7. \A o \in SpentBy(b) : hash[o] \in BranchTxs(b)
  <2>1. SUFFICES ASSUME NEW i \in DOMAIN vtx[b], NEW o \in vin[vtx[b][i]]
                 PROVE  hash[o] \in BranchTxs(b)
    BY TxSets DEF SpentBy
  <2>2. CASE \E j \in 1..(i-1) : vtx[b][j] = hash[o]
    BY <1>4, <2>2, TxSets, BranchUnions
  <2>3. CASE ~\E j \in 1..(i-1) : vtx[b][j] = hash[o]
    BY <1>5, <2>3, BranchUnions
  <2> QED
    BY <2>2, <2>3
<1>8. \A s, t \in TxsOf(b) : s # t => vin[s] \cap vin[t] = {}
  <2>1. SUFFICES ASSUME NEW i \in DOMAIN vtx[b], NEW j \in DOMAIN vtx[b], i < j,
                        NEW o, o \in vin[vtx[b][i]], o \in vin[vtx[b][j]]
                 PROVE  FALSE
    <3>1. \A i \in DOMAIN vtx[b] : i \in Nat
      BY TxSets
    <3>2. \A i, j \in DOMAIN vtx[b] : i # j => vin[vtx[b][i]] \cap vin[vtx[b][j]] = {}
      BY <2>1, <3>1
    <3> QED
      BY <3>2, TxSets
  <2>2. i \in 1..(j-1)
    BY <2>1, TxSets
  <2> QED
    BY <1>3, <2>1, <2>2 DEF InputConnects
<1>9. ASSUME NEW i \in DOMAIN vtx[b], NEW j \in DOMAIN vtx[b],
             NEW o \in vin[vtx[b][i]], vtx[b][j] = hash[o]
      PROVE  j < i
  <2>1. CASE \E k \in 1..(i-1) : vtx[b][k] = hash[o]
    <3>1. PICK k \in 1..(i-1) : vtx[b][k] = hash[o]
      BY <2>1
    <3>2. k \in DOMAIN vtx[b] /\ k < i
      BY <1>4
    <3>3. j = k
      BY <1>9, <3>1, <3>2 DEF BlockConnects, CheckBlock
    <3> QED
      BY <3>2, <3>3
  <2>2. CASE ~\E k \in 1..(i-1) : vtx[b][k] = hash[o]
    <3>1. hash[o] \in BranchTxs(p)
      BY <1>5, <2>2
    <3>2. hash[o] \in TxsOf(b)
      BY <1>9, TxSets
    <3> QED
      BY <1>2, <3>1, <3>2
  <2> QED
    BY <2>1, <2>2
<1> QED
  BY <1>2, <1>6, <1>7, <1>8, <1>9 DEF Fits

\* Extending a valid branch by a fitting block gives a valid branch, and back.
LEMMA ValidBranchStep ==
    ASSUME NEW b \in Block, b # Genesis
    PROVE  ValidBranch(b) <=> (ValidBranch(pprev[b]) /\ Fits(b))
BY BranchStep, BranchClosed DEF ValidBranch

\* On a valid branch a block creates nothing that its predecessors spent.
LEMMA CreatedIsUnspent ==
    ASSUME NEW b \in Block, b # Genesis, ValidBranch(pprev[b]), Fits(b)
    PROVE  BranchSpent(pprev[b]) \cap CreatedBy(b) = {}
BY BranchStep, SpentIsCreated DEF Fits, CreatedBy

\* ConnectBlock: an index that describes the branch of the previous block comes to describe
\* the branch of the block.
LEMMA ConnectDescribes ==
    ASSUME NEW db \in Database, NEW b \in Block, b # Genesis, NEW next,
           DescribesBranch(db, pprev[b]), BlockConnects(db, b)
    PROVE  DescribesBranch(ConnectBlock(db, b, next), b)
<1> DEFINE p == pprev[b]
           new == ConnectBlock(db, b, next)
<1>1. p \in Block /\ branch[b] = {b} \cup branch[p] /\ b \notin branch[p]
  BY BranchStep
<1>2. Fits(b)
  BY ConnectedFits
<1>3. ValidBranch(p)
  BY DEF DescribesBranch
<1>4. new.pos = [t \in Tx |-> IF t \in TxsOf(b) THEN b ELSE db.pos[t]]
  BY DEF ConnectBlock, Database
<1>5. new.spent = (db.spent \ CreatedBy(b)) \cup SpentBy(b)
  BY DEF ConnectBlock, Database
<1>6. ASSUME NEW t \in Tx, NEW a \in Block
      PROVE  new.pos[t] = a <=> (a \in branch[b] /\ t \in TxsOf(a))
  <2>1. db.pos[t] = a <=> (a \in branch[p] /\ t \in TxsOf(a))
    BY DEF DescribesBranch
  <2>2. t \in TxsOf(b) => ~(a \in branch[p] /\ t \in TxsOf(a))
    BY <1>2 DEF Fits, BranchTxs
  <2> HIDE DEF new
  <2>3. CASE t \in TxsOf(b)
    BY <1>1, <1>4, <2>2, <2>3
  <2>4. CASE t \notin TxsOf(b)
    BY <1>1, <1>4, <2>1, <2>4
  <2> QED
    BY <2>3, <2>4
<1>7. new.spent = BranchSpent(b)
  <2>1. db.spent = BranchSpent(p)
    BY DEF DescribesBranch
  <2>2. BranchSpent(p) \cap CreatedBy(b) = {}
    BY <1>2, <1>3, CreatedIsUnspent
  <2>3. BranchSpent(b) = SpentBy(b) \cup BranchSpent(p)
    BY BranchUnions
  <2> HIDE DEF new
  <2> QED
    BY <1>5, <2>1, <2>2, <2>3
<1>8. ValidBranch(b)
  BY <1>2, <1>3, ValidBranchStep
<1> HIDE DEF new
<1>9. DescribesBranch(new, b)
  BY <1>6, <1>7, <1>8 DEF DescribesBranch
<1> QED
  BY <1>9 DEF new

\* DisconnectBlock: an index that describes the branch of a block lets the block be
\* disconnected and comes to describe the branch of the previous block.
LEMMA DisconnectDescribes ==
    ASSUME NEW db \in Database, NEW b \in Block, b # Genesis, DescribesBranch(db, b)
    PROVE  /\ BlockDisconnects(db, b)
           /\ DescribesBranch(DisconnectBlock(db, b), pprev[b])
<1> DEFINE p == pprev[b]
           new == DisconnectBlock(db, b)
<1>1. p \in Block /\ branch[b] = {b} \cup branch[p] /\ b \notin branch[p]
  BY BranchStep
<1>2. ValidBranch(p) /\ Fits(b)
  BY ValidBranchStep DEF DescribesBranch
<1>3. BlockDisconnects(db, b)
  <2>1. SUFFICES ASSUME NEW i \in DOMAIN vtx[b], NEW o \in vin[vtx[b][i]]
                 PROVE  /\ db.pos[hash[o]] # NoBlock
                        /\ \A j \in DOMAIN vtx[b] : j > i => vtx[b][j] # hash[o]
    BY DEF BlockDisconnects
  <2>2. o \in SpentBy(b) /\ o \in OutPoint /\ hash[o] \in Tx
    BY TxSets, TxAssumption DEF SpentBy
  <2>3. hash[o] \in BranchTxs(b)
    BY <1>2, <2>2 DEF Fits
  <2>4. db.pos[hash[o]] # NoBlock
    BY <2>2, <2>3, IndexedTxs
  <2>5. \A j \in DOMAIN vtx[b] : vtx[b][j] = hash[o] => j < i
    BY <1>2 DEF Fits
  <2>6. \A j \in DOMAIN vtx[b] : j \in Nat
    BY TxSets
  <2> QED
    BY <2>4, <2>5, <2>6
<1>4. new.pos = [t \in Tx |-> IF t \in TxsOf(b) THEN NoBlock ELSE db.pos[t]]
  BY DEF DisconnectBlock, Database
<1>5. new.spent = db.spent \ (SpentBy(b) \cup CreatedBy(b))
  BY DEF DisconnectBlock, Database
<1>6. ASSUME NEW t \in Tx, NEW a \in Block
      PROVE  new.pos[t] = a <=> (a \in branch[p] /\ t \in TxsOf(a))
  <2>1. db.pos[t] = a <=> (a \in branch[b] /\ t \in TxsOf(a))
    BY DEF DescribesBranch
  <2>2. t \in TxsOf(b) => ~(a \in branch[p] /\ t \in TxsOf(a))
    BY <1>2 DEF Fits, BranchTxs
  <2>3. a # NoBlock
    BY TreeAssumption
  <2> HIDE DEF new
  <2>4. CASE t \in TxsOf(b)
    BY <1>4, <2>2, <2>3, <2>4
  <2>5. CASE t \notin TxsOf(b)
    BY <1>1, <1>4, <2>1, <2>5
  <2> QED
    BY <2>4, <2>5
<1>7. new.spent = BranchSpent(p)
  <2>1. db.spent = SpentBy(b) \cup BranchSpent(p)
    BY BranchUnions DEF DescribesBranch
  <2>2. BranchSpent(p) \cap CreatedBy(b) = {} /\ SpentBy(b) \cap BranchSpent(p) = {}
    BY <1>2, CreatedIsUnspent DEF Fits
  <2> HIDE DEF new
  <2> QED
    BY <1>5, <2>1, <2>2
<1> HIDE DEF new
<1>8. DescribesBranch(new, p)
  BY <1>2, <1>6, <1>7 DEF DescribesBranch
<1> QED
  BY <1>3, <1>8 DEF new

\* Both produce a database (CTxDB's records keep their types).
LEMMA ConnectType ==
    ASSUME NEW db \in Database, NEW b \in Block, b # Genesis,
           NEW f \in [Block -> Block \cup {NoBlock}]
    PROVE  /\ ConnectBlock(db, b, f) \in Database
           /\ DisconnectBlock(db, b) \in Database
<1>1. pprev[b] \in Block
  BY BranchStep
<1>2. SpentBy(b) \subseteq OutPoint
  BY TxSets
<1>3. f[b] \in Block \cup {NoBlock}
  OBVIOUS
<1> QED
  BY <1>1, <1>2, <1>3 DEF ConnectBlock, DisconnectBlock, Database

\* A valid branch spends no output twice.
LEMMA ValidBranchNoDoubleSpend ==
    ASSUME NEW c \in Block, ValidBranch(c),
           NEW a \in branch[c], NEW b \in branch[c],
           NEW s \in TxsOf(a), NEW t \in TxsOf(b), vin[s] \cap vin[t] # {}
    PROVE  s = t /\ a = b
<1>1. a \in Block /\ b \in Block
  BY BranchClosed
<1>2. a # Genesis /\ b # Genesis
  BY GenesisEmpty
<1>3. Fits(a) /\ Fits(b)
  BY <1>2 DEF ValidBranch
<1>4. PICK o : o \in vin[s] /\ o \in vin[t]
  OBVIOUS
<1>5. o \in SpentBy(a) /\ o \in SpentBy(b)
  BY <1>4 DEF SpentBy
<1>6. ASSUME NEW x \in Block, NEW y \in Block, y # Genesis, x # y, x \in branch[y], Fits(y),
             o \in SpentBy(x), o \in SpentBy(y)
      PROVE  FALSE
  <2>1. x \in branch[pprev[y]]
    BY <1>6, BranchStep
  <2>2. o \in BranchSpent(pprev[y])
    BY <1>6, <2>1 DEF BranchSpent
  <2> QED
    BY <1>6, <2>2 DEF Fits
<1>7. a = b
  BY <1>1, <1>2, <1>3, <1>5, <1>6, BranchLinear
<1>8. s = t
  BY <1>3, <1>4, <1>7 DEF Fits
<1> QED
  BY <1>7, <1>8

-----------------------------------------------------------------------------
\* NextOn is the successor on the branch wherever the code asks for it.
LEMMA NextOnBranch ==
    ASSUME NEW b \in Block, NEW a \in branch[b], a # b
    PROVE  /\ NextOn(a, b) \in branch[b]
           /\ NextOn(a, b) \in Block \ {Genesis}
           /\ pprev[NextOn(a, b)] = a
<1>1. \E x \in branch[b] : pprev[x] = a
  BY BranchNext
<1>2. NextOn(a, b) \in branch[b] /\ pprev[NextOn(a, b)] = a
  BY <1>1 DEF NextOn
<1>3. a \in Block /\ NextOn(a, b) \in Block
  BY <1>2, BranchMonotone
<1> QED
  BY <1>2, <1>3, TreeAssumption

\* SetBestChain's search for pindexIntermediate stops on the branch of pindexNew.
LEMMA IntermediateOnBranch ==
    ASSUME pindexBest \in Block, NEW b \in Block
    PROVE  /\ Intermediate(b) \in branch[b]
           /\ Better(b) => Better(Intermediate(b))
<1> DEFINE Q(a) == a = b \/ nChainTrust[a] > nChainTrust[pindexBest]
           H == {nHeight[a] : a \in {x \in branch[b] : Q(x)}}
<1>1. b \in branch[b] /\ branch[b] \subseteq Block /\ Closed(branch[b])
  BY BranchClosed
<1>2. H \in SUBSET Nat /\ H # {}
  BY <1>1, TreeAssumption
<1> HIDE DEF H
<1>3. PICK n \in H : \A m \in H : n <= m
  BY <1>2, LeastNatural
<1>4. PICK a \in branch[b] : Q(a) /\ nHeight[a] = n
  BY <1>3 DEF H
<1>5. ASSUME pprev[a] # NoBlock PROVE nChainTrust[pprev[a]] <= nChainTrust[pindexBest]
  <2>1. a # Genesis /\ pprev[a] \in branch[b] /\ pprev[a] \in Block
    BY <1>1, <1>5, TreeAssumption DEF Closed
  <2>2. nHeight[a] = nHeight[pprev[a]] + 1 /\ nHeight[pprev[a]] \in Nat
    BY <1>1, <2>1, TreeAssumption
  <2>3. SUFFICES ASSUME nChainTrust[pprev[a]] > nChainTrust[pindexBest] PROVE FALSE
    <3>1. nChainTrust[pprev[a]] \in Nat /\ nChainTrust[pindexBest] \in Nat
      BY <2>1, TreeAssumption
    <3> QED
      BY <2>3, <3>1
  <2>4. nHeight[pprev[a]] \in H
    BY <2>1, <2>3 DEF H
  <2> QED
    BY <1>3, <1>4, <2>2, <2>4
<1>6. \E x \in branch[b] : /\ x = b \/ nChainTrust[x] > nChainTrust[pindexBest]
                           /\ pprev[x] # NoBlock => nChainTrust[pprev[x]] <= nChainTrust[pindexBest]
  BY <1>4, <1>5
<1>7. Intermediate(b) \in branch[b] /\ Q(Intermediate(b))
  BY <1>6 DEF Intermediate
<1>8. ASSUME b \in branch[pindexBest] \ {pindexBest}
      PROVE  Intermediate(b) \in branch[pindexBest] \ {pindexBest}
  <2>1. pindexBest # Genesis
    BY <1>8, BranchGenesis
  <2>2. b \in branch[pprev[pindexBest]] /\ pprev[pindexBest] \in Block
    BY <1>8, <2>1, BranchStep
  <2>3. branch[b] \subseteq branch[pprev[pindexBest]]
    BY <2>2, BranchMonotone
  <2> QED
    BY <1>7, <2>1, <2>3, BranchStep
<1> QED
  BY <1>7, <1>8 DEF Better

\* The pool operations keep the pool's type.
LEMMA PoolType ==
    ASSUME NEW pool \in Pool, NEW t \in Tx, NEW S
    PROVE  /\ addUnchecked(pool, t) \in Pool
           /\ Erase(pool, S) \in Pool
           /\ remove(pool, t) \in Pool
           /\ removeConflicts(pool, t) \in Pool
BY DEF Pool, addUnchecked, Erase, remove, removeConflicts
-----------------------------------------------------------------------------
\* The first start leaves an index that describes the genesis block's (empty) branch.
LEMMA InitInv == Init => ChainInv
<1> SUFFICES ASSUME Init PROVE ChainInv
  OBVIOUS
<1>1. Genesis \in Block /\ NoBlock \notin Block
  BY TreeAssumption
<1>2. TypeOK
  <2>1. disk \in Database /\ batch \in Database
    BY <1>1 DEF Init, Database, GenesisDatabase, EmptyNext
  <2>2. mempool \in Pool /\ pnext \in [Block -> Block \cup {NoBlock}]
    BY DEF Init, Pool, EmptyPool, EmptyNext
  <2>3. vResurrect \in Seq(Tx) /\ vDelete \in Seq(Tx)
    BY DEF Init
  <2>4. nCrash \in 0..MaxCrash
    BY ChainAssumption DEF Init
  <2> QED
    BY <1>1, <2>1, <2>2, <2>3, <2>4 DEF Init, TypeOK, Steps
<1>3. DescribesBranch(disk, disk.best)
  <2>1. branch[Genesis] = {Genesis} /\ TxsOf(Genesis) = {} /\ SpentBy(Genesis) = {}
    BY BranchGenesis, GenesisEmpty
  <2>2. disk.best = Genesis /\ disk.spent = {} /\ \A t \in Tx : disk.pos[t] = NoBlock
    BY DEF Init, GenesisDatabase
  <2>3. \A t \in Tx : \A a \in Block : disk.pos[t] = a <=> (a \in branch[Genesis] /\ t \in TxsOf(a))
    BY <1>1, <2>1, <2>2
  <2>4. BranchSpent(Genesis) = {}
    BY <2>1 DEF BranchSpent
  <2>5. ValidBranch(Genesis)
    BY <2>1 DEF ValidBranch
  <2> QED
    BY <2>2, <2>3, <2>4, <2>5 DEF DescribesBranch
<1>4. BatchInv /\ CursorInv /\ BestInv /\ IndexInv /\ TargetInv
  BY <1>3 DEF Init, BatchInv, CursorInv, BestInv, IndexInv, TargetInv, GenesisDatabase
<1> QED
  BY <1>2, <1>4 DEF ChainInv

\* DescribesBranch looks at the transaction records only.
LEMMA DescribesSame ==
    ASSUME NEW db, NEW new, NEW b, new.pos = db.pos, new.spent = db.spent, DescribesBranch(db, b)
    PROVE  DescribesBranch(new, b)
BY DEF DescribesBranch

LEMMA AddToBlockIndexInv ==
    ASSUME ChainInv, NEW b \in Block, AddToBlockIndex(b)
    PROVE  ChainInv'
<1> USE DEF ChainInv
<1>1. TypeOK'
  BY DEF AddToBlockIndex, TypeOK, Database, Steps
<1>2. BatchInv' /\ CursorInv'
  BY DEF AddToBlockIndex, BatchInv, CursorInv
<1>3. disk'.pos = disk.pos /\ disk'.spent = disk.spent /\ disk'.best = disk.best
  BY DEF AddToBlockIndex, TypeOK, Database
<1>4. ASSUME ~broken' PROVE BestInv' /\ IndexInv' /\ TargetInv'
  <2>1. ~broken /\ pindexBest' = pindexBest /\ pc = "idle" /\ pc' \in {"idle", "begin"}
    BY <1>4 DEF AddToBlockIndex
  <2>2. BestInv'
    BY <1>3, <2>1 DEF BestInv
  <2>3. DescribesBranch(disk', disk.best)
    BY <1>3, <2>1, DescribesSame DEF IndexInv
  <2>4. TargetInv'
    BY <2>1 DEF TargetInv, Better, AddToBlockIndex
  <2> QED
    BY <1>3, <2>1, <2>2, <2>3, <2>4 DEF IndexInv
<1> QED
  BY <1>1, <1>2, <1>4

LEMMA BeginInv ==
    ASSUME ChainInv, BeginExtend \/ BeginReorganize
    PROVE  ChainInv'
<1> USE DEF ChainInv
<1>1. CASE BeginExtend
  <2>1. TypeOK'
    BY <1>1 DEF BeginExtend, TypeOK, Steps, memVars
  <2>2. BatchInv' /\ CursorInv'
    BY <1>1 DEF BeginExtend, BatchInv, CursorInv, memVars
  <2>3. ~broken' => BestInv' /\ IndexInv' /\ TargetInv'
    BY <1>1 DEF BeginExtend, BestInv, IndexInv, TargetInv, memVars
  <2> QED
    BY <2>1, <2>2, <2>3
<1>2. CASE BeginReorganize
  <2>1. /\ Intermediate(pindexNew) \in branch[pindexNew] /\ branch[pindexNew] \subseteq Block
        /\ Better(pindexNew) => Better(Intermediate(pindexNew))
    BY IntermediateOnBranch, BranchClosed DEF TypeOK
  <2>2. TypeOK'
    BY <1>2, <2>1 DEF BeginReorganize, TypeOK, Steps, memVars
  <2>3. BatchInv' /\ CursorInv'
    BY <1>2, <2>1 DEF BeginReorganize, BatchInv, CursorInv, memVars
  <2>4. ~broken' => BestInv' /\ IndexInv' /\ TargetInv'
    BY <1>2, <2>1 DEF BeginReorganize, BestInv, IndexInv, BatchInv, TargetInv, Better, memVars
  <2> QED
    BY <2>2, <2>3, <2>4
<1> QED
  BY <1>1, <1>2

LEMMA ReorganizeDisconnectInv ==
    ASSUME ChainInv, ReorganizeDisconnect
    PROVE  ChainInv'
<1> USE DEF ChainInv
<1>1. pindexCur \in Block /\ pindexCur # Genesis /\ batch \in Database
  BY BranchGenesis DEF ReorganizeDisconnect, TypeOK
<1>2. pprev[pindexCur] \in Block /\ vtx[pindexCur] \in Seq(Tx)
  BY <1>1, BranchStep, TxAssumption
<1>3. batch' \in Database
  BY <1>1, ConnectType DEF ReorganizeDisconnect, TypeOK
<1>4. vResurrect' \in Seq(Tx)
  BY <1>2 DEF ReorganizeDisconnect, TypeOK
<1>5. TypeOK'
  BY <1>2, <1>3, <1>4 DEF ReorganizeDisconnect, TypeOK
<1>6. BatchInv' /\ CursorInv'
  BY DEF ReorganizeDisconnect, BatchInv, CursorInv
<1>7. ASSUME ~broken' PROVE BestInv' /\ IndexInv' /\ TargetInv'
  <2>1. ~broken /\ pc = "reorganize" /\ DescribesBranch(batch, pindexCur)
    BY <1>7 DEF ReorganizeDisconnect, IndexInv
  <2>2. DescribesBranch(batch', pindexCur')
    BY <1>1, <2>1, DisconnectDescribes DEF ReorganizeDisconnect
  <2> QED
    BY <1>7, <2>1, <2>2 DEF ReorganizeDisconnect, BestInv, IndexInv, TargetInv, Better
<1> QED
  BY <1>5, <1>6, <1>7

LEMMA ReorganizeConnectInv ==
    ASSUME ChainInv, ReorganizeConnect
    PROVE  ChainInv'
<1> USE DEF ChainInv
<1> DEFINE b == NextOn(pindexCur, pindexIntermediate)
<1>1. b \in Block \ {Genesis} /\ pprev[b] = pindexCur /\ batch \in Database
  BY NextOnBranch DEF ReorganizeConnect, TypeOK
<1>2. /\ BlockConnects(batch, b) /\ batch' = ConnectBlock(batch, b, pnext)
      /\ pindexCur' = b /\ vDelete' = vDelete \o vtx[b]
  BY DEF ReorganizeConnect
<1> HIDE DEF b
<1>3. vtx[b] \in Seq(Tx)
  BY <1>1, TxAssumption
<1>4. batch' \in Database
  BY <1>1, <1>2, ConnectType DEF TypeOK
<1>5. TypeOK'
  BY <1>1, <1>2, <1>3, <1>4 DEF ReorganizeConnect, TypeOK
<1>6. BatchInv' /\ CursorInv'
  BY DEF ReorganizeConnect, BatchInv, CursorInv
<1>7. ASSUME ~broken' PROVE BestInv' /\ IndexInv' /\ TargetInv'
  <2>1. ~broken /\ pc = "reorganize" /\ DescribesBranch(batch, pprev[b])
    BY <1>1, <1>7 DEF ReorganizeConnect, IndexInv
  <2>2. DescribesBranch(batch', pindexCur')
    BY <1>1, <1>2, <2>1, ConnectDescribes
  <2> QED
    BY <1>7, <2>1, <2>2 DEF ReorganizeConnect, BestInv, IndexInv, TargetInv, Better
<1> QED
  BY <1>5, <1>6, <1>7

\* SetBestChain returns false: the batch is dropped, the committed index stays.
LEMMA FailInv ==
    ASSUME ChainInv, ReorganizeFail \/ InnerFail
    PROVE  ChainInv'
<1> USE DEF ChainInv
<1>1. nBestInvalidTrust' \in Nat
  <2>1. nChainTrust[pindexNew] \in Nat /\ nBestInvalidTrust \in Nat
    BY TreeAssumption DEF TypeOK
  <2> QED
    BY <2>1 DEF ReorganizeFail, InnerFail, InvalidChainFound
<1>2. /\ disk' = disk /\ batch' = disk /\ pindexBest' = pindexBest /\ broken' = broken
      /\ pc' = "idle" /\ pc \in {"reorganize", "inner"}
  BY DEF ReorganizeFail, InnerFail, TxnAbort, Return
<1>3. TypeOK'
  <2>1. vResurrect' \in Seq(Tx) /\ vDelete' \in Seq(Tx)
    <3>1. vResurrect' = << >> /\ vDelete' = << >>
      BY DEF ReorganizeFail, InnerFail, Return
    <3> QED
      BY <3>1
  <2>2. pindexNew' \in Block /\ pindexIntermediate' \in Block /\ pindexCur' \in Block
    BY TreeAssumption DEF ReorganizeFail, InnerFail, Return
  <2>3. /\ mapBlockIndex' = mapBlockIndex /\ pnext' = pnext /\ mempool' = mempool
        /\ nCrash' = nCrash
    BY DEF ReorganizeFail, InnerFail
  <2> QED
    BY <1>1, <1>2, <2>1, <2>2, <2>3 DEF TypeOK, Steps
<1>4. BatchInv' /\ CursorInv'
  BY <1>2 DEF BatchInv, CursorInv
<1>5. ~broken' => BestInv' /\ IndexInv' /\ TargetInv'
  BY <1>2 DEF BestInv, IndexInv, TargetInv
<1> QED
  BY <1>3, <1>4, <1>5

LEMMA ReorganizeCommitInv ==
    ASSUME ChainInv, ReorganizeCommit
    PROVE  ChainInv'
<1> USE DEF ChainInv
<1>1. batch \in Database /\ pindexIntermediate \in Block
  BY DEF TypeOK
<1>2. disk' \in Database /\ disk'.pos = batch.pos /\ disk'.spent = batch.spent
        /\ disk'.best = pindexIntermediate
  BY <1>1 DEF ReorganizeCommit, Database
<1>3. pnext' \in [Block -> Block \cup {NoBlock}]
  <2>1. ASSUME NEW x \in Block, \E y \in branch[pindexIntermediate] \ branch[pindexBest] : pprev[y] = x
        PROVE  NextOn(x, pindexIntermediate) \in Block
    BY <1>1, <2>1, BranchClosed DEF NextOn
  <2>2. pnext' = Relinked(pindexIntermediate)
    BY DEF ReorganizeCommit
  <2> QED
    BY <2>1, <2>2 DEF Relinked, TypeOK
<1>4. TypeOK'
  BY <1>2, <1>3 DEF ReorganizeCommit, TypeOK, Steps
<1>5. BatchInv' /\ CursorInv'
  BY DEF ReorganizeCommit, BatchInv, CursorInv
<1>6. ASSUME ~broken' PROVE BestInv' /\ IndexInv' /\ TargetInv'
  <2>1. DescribesBranch(batch, pindexIntermediate)
    BY <1>6 DEF ReorganizeCommit, IndexInv
  <2>2. DescribesBranch(disk', pindexIntermediate)
    BY <1>2, <2>1, DescribesSame
  <2> QED
    BY <1>2, <2>2 DEF ReorganizeCommit, BestInv, IndexInv, TargetInv
<1> QED
  BY <1>4, <1>5, <1>6

\* The steps that only touch the memory pool.
LEMMA PoolStepInv ==
    ASSUME ChainInv, Resurrect \/ ResurrectDone \/ Delete \/ DeleteDone
    PROVE  ChainInv'
<1> USE DEF ChainInv
<1>1. CASE Resurrect
  <2>1. Head(vResurrect) \in Tx /\ Tail(vResurrect) \in Seq(Tx)
    BY <1>1 DEF Resurrect, TypeOK
  <2>2. mempool' \in Pool
    BY <1>1, <2>1, PoolType DEF Resurrect, TypeOK
  <2>3. TypeOK'
    BY <1>1, <2>1, <2>2 DEF Resurrect, TypeOK
  <2> QED
    BY <1>1, <2>3 DEF Resurrect, BatchInv, CursorInv, BestInv, IndexInv, TargetInv
<1>2. CASE ResurrectDone
  <2>1. TypeOK'
    BY <1>2 DEF ResurrectDone, TypeOK, Steps, memVars
  <2> QED
    BY <1>2, <2>1 DEF ResurrectDone, BatchInv, CursorInv, BestInv, IndexInv, TargetInv, memVars
<1>3. CASE Delete
  <2>1. Head(vDelete) \in Tx /\ Tail(vDelete) \in Seq(Tx)
    BY <1>3 DEF Delete, TypeOK
  <2>2. mempool' \in Pool
    BY <1>3, <2>1, PoolType DEF Delete, TypeOK
  <2>3. TypeOK'
    BY <1>3, <2>1, <2>2 DEF Delete, TypeOK
  <2> QED
    BY <1>3, <2>3 DEF Delete, BatchInv, CursorInv, BestInv, IndexInv, TargetInv
<1>4. CASE DeleteDone
  <2>1. TypeOK'
    BY <1>4 DEF DeleteDone, TypeOK, Steps, memVars
  <2>2. BatchInv' /\ CursorInv'
    BY <1>4 DEF DeleteDone, BatchInv, CursorInv, memVars
  <2>3. ~broken' => BestInv' /\ IndexInv' /\ TargetInv'
    BY <1>4 DEF DeleteDone, BestInv, IndexInv, TargetInv, memVars
  <2> QED
    BY <2>1, <2>2, <2>3
<1> QED
  BY <1>1, <1>2, <1>3, <1>4
\* SetBestChainInner always has a block of pindexNew's branch to attach.
LEMMA InnerCursor ==
    ASSUME ChainInv, SetBestChainInner
    PROVE  pindexCur \in branch[pindexNew] /\ pindexCur # pindexNew
<1> USE DEF ChainInv
<1>1. CASE pc = "inner"
  <2>1. pprev[pindexNew] = pindexCur /\ pindexNew \in Block /\ pindexCur \in Block
    BY <1>1 DEF CursorInv, TypeOK
  <2>2. pindexNew # Genesis
    BY <2>1, TreeAssumption
  <2> QED
    BY <2>1, <2>2, BranchStep, BranchClosed
<1>2. CASE pc = "secondary"
  BY <1>2 DEF CursorInv
<1> QED
  BY <1>1, <1>2 DEF SetBestChainInner

LEMMA SetBestChainInnerInv ==
    ASSUME ChainInv, SetBestChainInner
    PROVE  ChainInv'
<1> USE DEF ChainInv
<1> DEFINE b == NextOn(pindexCur, pindexNew)
<1>1. pindexCur \in branch[pindexNew] /\ pindexCur # pindexNew
  BY InnerCursor
<1>2. /\ b \in Block \ {Genesis} /\ b \in branch[pindexNew] /\ pprev[b] = pindexCur
      /\ batch \in Database /\ batch = disk
  BY <1>1, NextOnBranch DEF SetBestChainInner, TypeOK, BatchInv
<1>3. /\ BlockConnects(batch, b)
      /\ disk' = [ConnectBlock(batch, b, pnext) EXCEPT !.best = b]
      /\ batch' = disk'
      /\ pnext' = [pnext EXCEPT ![pindexCur] = b]
      /\ mempool' = Erase(mempool, TxsOf(b))
      /\ pindexCur' = b
      /\ pc' = IF b = pindexNew THEN "finish" ELSE pc
      /\ pc \in {"inner", "secondary"}
      /\ UNCHANGED <<nBestInvalidTrust, mapBlockIndex, pindexBest, pindexNew,
                     pindexIntermediate, vResurrect, vDelete, nCrash, broken>>
  BY DEF SetBestChainInner
<1> HIDE DEF b
<1>4. ConnectBlock(batch, b, pnext) \in Database
  BY <1>2, ConnectType DEF TypeOK
<1>5. /\ disk' \in Database /\ disk'.best = b
      /\ disk'.pos = ConnectBlock(batch, b, pnext).pos
      /\ disk'.spent = ConnectBlock(batch, b, pnext).spent
  BY <1>2, <1>3, <1>4 DEF Database
<1>6. mempool' \in Pool
  BY <1>3, PoolType DEF TypeOK, Pool, Erase
<1>7. TypeOK'
  BY <1>2, <1>3, <1>5, <1>6 DEF TypeOK, Steps
<1>8. BatchInv'
  BY <1>3 DEF BatchInv
<1>9. pc = "inner" => b = pindexNew
  <2>1. SUFFICES ASSUME pc = "inner", b # pindexNew PROVE FALSE
    OBVIOUS
  <2>2. pprev[pindexNew] = pindexCur /\ pindexNew \in Block /\ pindexCur \in Block
    BY <2>1 DEF CursorInv, TypeOK
  <2>3. branch[pindexNew] = {pindexNew} \cup branch[pindexCur]
    BY <2>2, BranchStep, TreeAssumption
  <2>4. b \in branch[pprev[b]]
    BY <1>2, <2>1, <2>3
  <2> QED
    BY <1>2, <2>4, BranchStep
<1>10. CursorInv'
  BY <1>2, <1>3, <1>9 DEF CursorInv
<1>11. ASSUME ~broken' PROVE BestInv' /\ IndexInv' /\ TargetInv'
  <2>1. ~broken /\ pindexCur = disk.best
    BY <1>3, <1>11 DEF BestInv
  <2>2. DescribesBranch(batch, pprev[b])
    BY <1>2, <2>1 DEF IndexInv
  <2>3. DescribesBranch(ConnectBlock(batch, b, pnext), b)
    BY <1>2, <1>3, <2>2, ConnectDescribes
  <2>4. DescribesBranch(disk', b)
    BY <1>5, <2>3, DescribesSame
  <2> QED
    BY <1>3, <1>5, <1>9, <2>4 DEF BestInv, IndexInv, TargetInv
<1> QED
  BY <1>7, <1>8, <1>10, <1>11

\* The loop over vpindexSecondary stops: the call goes on, and broken records it.
LEMMA SecondaryFailInv ==
    ASSUME ChainInv, SecondaryFail
    PROVE  ChainInv'
<1> USE DEF ChainInv
<1>1. nBestInvalidTrust' \in Nat
  <2>1. NextOn(pindexCur, pindexNew) \in Block
    BY NextOnBranch DEF SecondaryFail, CursorInv, TypeOK
  <2>2. nChainTrust[NextOn(pindexCur, pindexNew)] \in Nat /\ nBestInvalidTrust \in Nat
    BY <2>1, TreeAssumption DEF TypeOK
  <2> QED
    BY <2>2 DEF SecondaryFail, InvalidChainFound
<1>2. TypeOK'
  BY <1>1 DEF SecondaryFail, TxnAbort, TypeOK, Steps
<1> QED
  BY <1>2 DEF SecondaryFail, TxnAbort, BatchInv, CursorInv

LEMMA FinishInv ==
    ASSUME ChainInv, Finish
    PROVE  ChainInv'
<1> USE DEF ChainInv
<1>1. TypeOK'
  <2>1. vResurrect' \in Seq(Tx) /\ vDelete' \in Seq(Tx)
    BY DEF Finish, Return
  <2> QED
    BY <2>1, TreeAssumption DEF Finish, Return, TypeOK, Steps
<1>2. BatchInv' /\ CursorInv'
  BY DEF Finish, Return, BatchInv, CursorInv
<1>3. ~broken' => BestInv' /\ IndexInv' /\ TargetInv'
  BY DEF Finish, Return, BestInv, IndexInv, TargetInv
<1> QED
  BY <1>1, <1>2, <1>3

LEMMA SubmitTxInv ==
    ASSUME ChainInv, NEW t \in Tx, SubmitTx(t)
    PROVE  ChainInv'
<1> USE DEF ChainInv
<1>1. mempool' \in Pool
  BY PoolType DEF SubmitTx, TypeOK
<1>2. TypeOK'
  BY <1>1 DEF SubmitTx, TypeOK, callVars
<1> QED
  BY <1>2 DEF SubmitTx, BatchInv, CursorInv, BestInv, IndexInv, TargetInv, Better, callVars

\* A crash loses the batch and keeps the committed index.
LEMMA CrashInv ==
    ASSUME ChainInv, Crash
    PROVE  ChainInv'
<1> USE DEF ChainInv
<1>1. TypeOK'
  <2>1. vResurrect' \in Seq(Tx) /\ vDelete' \in Seq(Tx)
    BY DEF Crash
  <2>2. mempool' \in Pool /\ pnext' \in [Block -> Block \cup {NoBlock}]
    BY DEF Crash, Pool, EmptyPool, EmptyNext
  <2>3. nCrash' \in 0..MaxCrash
    BY ChainAssumption DEF Crash, TypeOK
  <2> QED
    BY <2>1, <2>2, <2>3, TreeAssumption DEF Crash, TypeOK, Steps
<1>2. BatchInv' /\ CursorInv'
  BY DEF Crash, BatchInv, CursorInv
<1>3. ~broken' => BestInv' /\ IndexInv' /\ TargetInv'
  BY DEF Crash, BestInv, IndexInv, TargetInv
<1> QED
  BY <1>1, <1>2, <1>3

LEMMA LoadBlockIndexInv ==
    ASSUME ChainInv, LoadBlockIndex
    PROVE  ChainInv'
<1> USE DEF ChainInv
<1>1. /\ disk.index \subseteq Block /\ disk.best \in Block
      /\ disk.hashNext \in [Block -> Block \cup {NoBlock}]
  BY DEF TypeOK, Database
<1>2. pindexNew' \in Block /\ pc' \in {"idle", "begin"}
  BY <1>1, BranchClosed DEF LoadBlockIndex, TypeOK
<1>3. TypeOK'
  BY <1>1, <1>2 DEF LoadBlockIndex, TypeOK, Steps
<1>4. BatchInv' /\ CursorInv'
  BY <1>2 DEF LoadBlockIndex, BatchInv, CursorInv
<1>5. ~broken' => BestInv' /\ IndexInv' /\ TargetInv'
  BY <1>2 DEF LoadBlockIndex, BestInv, IndexInv, TargetInv, Better
<1> QED
  BY <1>3, <1>4, <1>5

-----------------------------------------------------------------------------
\* Every step of SetBestChain, LoadBlockIndex, AcceptToMemoryPool and every crash keeps the
\* invariant.
LEMMA NextInv == ChainInv /\ [Next]_vars => ChainInv'
<1> SUFFICES ASSUME ChainInv, [Next]_vars PROVE ChainInv'
  OBVIOUS
<1>1. CASE \E b \in Block : AddToBlockIndex(b)
  BY <1>1, AddToBlockIndexInv
<1>2. CASE \E t \in Tx : SubmitTx(t)
  BY <1>2, SubmitTxInv
<1>3. CASE Step
  BY <1>3, BeginInv, ReorganizeDisconnectInv, ReorganizeConnectInv, FailInv,
     ReorganizeCommitInv, PoolStepInv, SetBestChainInnerInv, SecondaryFailInv, FinishInv,
     LoadBlockIndexInv DEF Step
<1>4. CASE Crash
  BY <1>4, CrashInv
<1>5. CASE UNCHANGED vars
  BY <1>5 DEF vars, memVars, callVars, ChainInv, TypeOK, BatchInv, CursorInv,
     BestInv, IndexInv, TargetInv, Better
<1> QED
  BY <1>1, <1>2, <1>3, <1>4, <1>5 DEF Next

\* ChainInv holds in every reachable state, whatever blocks arrive and wherever the process
\* stops (SetBestChain, Reorganize, LoadBlockIndex).
THEOREM ChainInvariant == Spec => []ChainInv
BY InitInv, NextInv, PTL DEF Spec

\* Every variable keeps its type.
THEOREM TypeCorrect == Spec => []TypeOK
<1>1. ChainInv => TypeOK
  BY DEF ChainInv
<1> QED
  BY <1>1, ChainInvariant, PTL

\* The committed transaction index is always exactly that of the committed best chain, and
\* that chain is valid, for every block tree (ConnectBlock, DisconnectBlock, TxnCommit).
THEOREM IndexCorrect == Spec => []IndexDescribesBestChain
<1>1. ChainInv => IndexDescribesBestChain
  BY DEF ChainInv, IndexInv, IndexDescribesBestChain
<1> QED
  BY <1>1, ChainInvariant, PTL

\* No output is ever spent twice on the committed best chain (ConnectInputs).
THEOREM DoubleSpendFree == Spec => []NoDoubleSpend
<1>1. ChainInv => NoDoubleSpend
  <2>1. SUFFICES ASSUME ChainInv, ~broken,
                        NEW a \in branch[disk.best], NEW b \in branch[disk.best],
                        NEW s \in TxsOf(a), NEW t \in TxsOf(b), vin[s] \cap vin[t] # {}
                 PROVE  s = t /\ a = b
    BY DEF NoDoubleSpend
  <2>2. disk.best \in Block /\ ValidBranch(disk.best)
    BY <2>1 DEF ChainInv, TypeOK, Database, IndexInv, DescribesBranch
  <2> QED
    BY <2>1, <2>2, ValidBranchNoDoubleSpend
<1> QED
  BY <1>1, ChainInvariant, PTL

\* A reorganization can always undo the blocks of its own best chain (DisconnectInputs).
THEOREM DisconnectNeverFails == Spec => []CanDisconnect
<1>1. ChainInv => CanDisconnect
  <2>1. SUFFICES ASSUME ChainInv, ~broken, pc = "reorganize",
                        pindexCur \notin branch[pindexIntermediate]
                 PROVE  BlockDisconnects(batch, pindexCur)
    BY DEF CanDisconnect
  <2>2. /\ batch \in Database /\ pindexCur \in Block /\ pindexIntermediate \in Block
        /\ DescribesBranch(batch, pindexCur)
    BY <2>1 DEF ChainInv, TypeOK, IndexInv
  <2>3. pindexCur # Genesis
    BY <2>1, <2>2, BranchGenesis
  <2> QED
    BY <2>2, <2>3, DisconnectDescribes
<1> QED
  BY <1>1, ChainInvariant, PTL
\* Ledger's view of the block tree is BlockChain's.
LEMMA SameTree ==
    ASSUME NEW b
    PROVE  /\ L!branch = branch
           /\ L!ValidBranch(b) <=> ValidBranch(b)
           /\ L!BranchSpent(b) = BranchSpent(b)
<1>1. L!branch = branch
  BY DEF L!branch, branch
<1>2. \A a : L!TxsOf(a) = TxsOf(a)
  BY DEF L!TxsOf, TxsOf
<1>3. \A a : L!SpentBy(a) = SpentBy(a)
  BY <1>2 DEF L!SpentBy, SpentBy
<1>4. \A a : L!BranchTxs(a) = BranchTxs(a) /\ L!BranchSpent(a) = BranchSpent(a)
  BY <1>1, <1>2, <1>3 DEF L!BranchTxs, BranchTxs, L!BranchSpent, BranchSpent
<1>5. \A a : L!Fits(a) <=> Fits(a)
  BY <1>2, <1>3, <1>4 DEF L!Fits, Fits
<1> QED
  BY <1>1, <1>4, <1>5 DEF L!ValidBranch, ValidBranch

\* Each commit of SetBestChain is one step of Ledger, and nothing else changes what it sees:
\* a reorganization, however long, and a crash anywhere inside it are invisible until then.
THEOREM Refinement == Spec => ImplementsLedger
<1>1. Init => L!LedgerInit
  BY DEF Init, GenesisDatabase, L!LedgerInit
<1>2. ASSUME ChainInv, [Next]_vars PROVE [L!LedgerNext]_L!LedgerVars
  <2> USE DEF ChainInv
  <2>1. CASE \E b \in Block : AddToBlockIndex(b)
    <3>1. disk'.best = disk.best /\ disk'.spent = disk.spent /\ broken' = broken
      BY <1>2, <2>1 DEF AddToBlockIndex, TypeOK, Database
    <3> QED
      BY <3>1 DEF L!LedgerVars
  <2>2. CASE ReorganizeCommit
    <3>1. /\ disk'.best = pindexIntermediate /\ disk'.spent = batch.spent /\ broken' = broken
          /\ pc = "reorganize" /\ pindexCur = pindexIntermediate
      BY <1>2, <2>2 DEF ReorganizeCommit, TypeOK, Database
    <3>2. CASE broken
      BY <3>1, <3>2 DEF L!LedgerNext, L!Lost
    <3>3. CASE ~broken
      <4>1. /\ ValidBranch(pindexIntermediate) /\ batch.spent = BranchSpent(pindexIntermediate)
            /\ disk.best = pindexBest /\ Better(pindexIntermediate) /\ pindexIntermediate \in Block
        BY <1>2, <3>1, <3>3 DEF IndexInv, BestInv, TargetInv, DescribesBranch, TypeOK
      <4>2. L!SwitchTo(pindexIntermediate)
        BY <3>1, <3>3, <4>1, SameTree DEF L!SwitchTo, Better
      <4> QED
        BY <4>1, <4>2 DEF L!LedgerNext
    <3> QED
      BY <3>2, <3>3
  <2>3. CASE SetBestChainInner
    <3>1. ChainInv'
      BY <1>2, NextInv
    <3>2. broken' = broken
      BY <2>3 DEF SetBestChainInner
    <3>3. CASE broken
      BY <3>2, <3>3 DEF L!LedgerNext, L!Lost
    <3>4. CASE ~broken
      <4> DEFINE b == NextOn(pindexCur, pindexNew)
      <4>1. pindexCur \in branch[pindexNew] /\ pindexCur # pindexNew
        BY <1>2, <2>3, InnerCursor
      <4>2. b \in Block \ {Genesis} /\ pprev[b] = pindexCur
        BY <1>2, <4>1, NextOnBranch DEF TypeOK
      <4>3. disk'.best = b
        BY <1>2, <2>3, <4>2, ConnectType DEF SetBestChainInner, TypeOK, Database
      <4> HIDE DEF b
      <4>4. pindexCur = disk.best
        BY <1>2, <2>3, <3>4 DEF SetBestChainInner, BestInv
      <4>5. nChainTrust[b] > nChainTrust[disk.best]
        BY <4>2, <4>4, TreeAssumption
      <4>6. ValidBranch(b) /\ disk'.spent = BranchSpent(b)
        BY <3>1, <3>2, <3>4, <4>3 DEF IndexInv, DescribesBranch
      <4>7. L!SwitchTo(b)
        BY <3>2, <3>4, <4>3, <4>5, <4>6, SameTree DEF L!SwitchTo
      <4> QED
        BY <4>2, <4>7 DEF L!LedgerNext
    <3> QED
      BY <3>3, <3>4
  <2>4. CASE SecondaryFail
    <3>1. disk' = disk /\ broken' = TRUE /\ broken \in BOOLEAN
      BY <1>2, <2>4 DEF SecondaryFail, TypeOK
    <3> QED
      BY <3>1 DEF L!LedgerNext, L!LedgerVars, L!Lose, L!Lost
  <2>5. CASE \/ \E t \in Tx : SubmitTx(t)
             \/ BeginExtend \/ BeginReorganize \/ ReorganizeDisconnect \/ ReorganizeConnect
             \/ ReorganizeFail \/ Resurrect \/ ResurrectDone \/ Delete \/ DeleteDone
             \/ InnerFail \/ Finish \/ LoadBlockIndex \/ Crash \/ UNCHANGED vars
    <3>1. disk' = disk /\ broken' = broken
      BY <2>5 DEF SubmitTx, BeginExtend, BeginReorganize, ReorganizeDisconnect,
         ReorganizeConnect, ReorganizeFail, Resurrect, ResurrectDone, Delete, DeleteDone,
         InnerFail, Finish, LoadBlockIndex, Crash, vars
    <3> QED
      BY <3>1 DEF L!LedgerVars
  <2> QED
    BY <1>2, <2>1, <2>2, <2>3, <2>4, <2>5 DEF Next, Step
<1> QED
  BY <1>1, <1>2, ChainInvariant, PTL DEF Spec, ImplementsLedger, L!LedgerSpec
-----------------------------------------------------------------------------
\* Accepting a transaction none of whose inputs is claimed keeps mapNextTx right.
LEMMA AddMatches ==
    ASSUME NEW pool \in Pool, NextTxMatches(pool), NEW t \in Tx,
           t \notin pool.mapTx, \A o \in vin[t] : pool.mapNextTx[o] = NoTx
    PROVE  NextTxMatches(addUnchecked(pool, t))
<1> DEFINE new == addUnchecked(pool, t)
<1>1. new.mapTx = pool.mapTx \cup {t}
  BY DEF addUnchecked
<1>2. new.mapNextTx = [o \in OutPoint |-> IF o \in vin[t] THEN t ELSE pool.mapNextTx[o]]
  BY DEF addUnchecked
<1> HIDE DEF new
<1>3. ASSUME NEW o \in OutPoint, NEW s \in Tx
      PROVE  new.mapNextTx[o] = s <=> (s \in new.mapTx /\ o \in vin[s])
  <2>1. pool.mapNextTx[o] = s <=> (s \in pool.mapTx /\ o \in vin[s])
    BY DEF NextTxMatches
  <2>2. o \in vin[t] => pool.mapNextTx[o] = NoTx
    OBVIOUS
  <2>3. NoTx # s
    BY NoTxAssumption
  <2>4. CASE o \in vin[t]
    BY <1>1, <1>2, <2>1, <2>2, <2>3, <2>4
  <2>5. CASE o \notin vin[t]
    BY <1>1, <1>2, <2>1, <2>5
  <2> QED
    BY <2>4, <2>5
<1>4. NextTxMatches(new)
  BY <1>3 DEF NextTxMatches
<1> QED
  BY <1>4 DEF new

\* Erasing transactions, with or without their dependents, keeps mapNextTx right.
LEMMA EraseMatches ==
    ASSUME NEW pool \in Pool, NextTxMatches(pool), NEW S
    PROVE  NextTxMatches(Erase(pool, S))
<1> DEFINE new == Erase(pool, S)
<1>1. new.mapTx = pool.mapTx \ S
  BY DEF Erase
<1>2. new.mapNextTx = [o \in OutPoint |-> IF \E t \in S \cap pool.mapTx : o \in vin[t]
                                          THEN NoTx ELSE pool.mapNextTx[o]]
  BY DEF Erase
<1> HIDE DEF new
<1>3. ASSUME NEW o \in OutPoint, NEW s \in Tx
      PROVE  new.mapNextTx[o] = s <=> (s \in new.mapTx /\ o \in vin[s])
  <2>1. \A t \in Tx : pool.mapNextTx[o] = t <=> (t \in pool.mapTx /\ o \in vin[t])
    BY DEF NextTxMatches
  <2>2. pool.mapTx \subseteq Tx
    BY DEF Pool
  <2>3. NoTx # s
    BY NoTxAssumption
  <2>4. CASE \E t \in S \cap pool.mapTx : o \in vin[t]
    <3>1. PICK t \in S \cap pool.mapTx : o \in vin[t]
      BY <2>4
    <3>2. pool.mapNextTx[o] = t
      BY <2>1, <2>2, <3>1
    <3>3. ~(s \in new.mapTx /\ o \in vin[s])
      BY <1>1, <2>1, <3>1, <3>2
    <3> QED
      BY <1>2, <2>3, <2>4, <3>3
  <2>5. CASE ~\E t \in S \cap pool.mapTx : o \in vin[t]
    BY <1>1, <1>2, <2>1, <2>5
  <2> QED
    BY <2>4, <2>5
<1>4. NextTxMatches(new)
  BY <1>3 DEF NextTxMatches
<1> QED
  BY <1>4 DEF new

\* The pool never holds two transactions that spend the same output, and mapNextTx never
\* names a transaction that has left it (AcceptToMemoryPool, remove, removeConflicts).
THEOREM PoolCorrect == Spec => []PoolIsConsistent
<1>1. Init => PoolIsConsistent
  BY NoTxAssumption DEF Init, EmptyPool, PoolIsConsistent, NextTxMatches
<1>2. ASSUME ChainInv, PoolIsConsistent, [Next]_vars PROVE PoolIsConsistent'
  <2>1. mempool \in Pool /\ NextTxMatches(mempool)
    BY <1>2 DEF ChainInv, TypeOK, PoolIsConsistent
  <2>2. SUFFICES NextTxMatches(mempool')
    BY DEF PoolIsConsistent, NextTxMatches
  <2>3. ASSUME NEW t \in Tx, AcceptToMemoryPool(mempool, disk, pindexBest, t),
               mempool' = addUnchecked(mempool, t)
        PROVE  NextTxMatches(mempool')
    BY <2>1, <2>3, AddMatches DEF AcceptToMemoryPool
  <2>4. CASE \E t \in Tx : SubmitTx(t)
    BY <2>3, <2>4 DEF SubmitTx
  <2>5. CASE Resurrect
    <3>1. Head(vResurrect) \in Tx
      BY <1>2, <2>5 DEF Resurrect, ChainInv, TypeOK
    <3> QED
      BY <2>1, <2>3, <2>5, <3>1 DEF Resurrect
  <2>6. CASE Delete
    <3>1. Head(vDelete) \in Tx
      BY <1>2, <2>6 DEF Delete, ChainInv, TypeOK
    <3>2. remove(mempool, Head(vDelete)) \in Pool /\ NextTxMatches(remove(mempool, Head(vDelete)))
      BY <2>1, <3>1, PoolType, EraseMatches DEF remove
    <3> QED
      BY <2>6, <3>2, EraseMatches DEF Delete, removeConflicts
  <2>7. CASE SetBestChainInner
    BY <2>1, <2>7, EraseMatches DEF SetBestChainInner
  <2>8. CASE Crash
    BY <2>8, NoTxAssumption DEF Crash, EmptyPool, NextTxMatches
  <2>9. CASE \/ \E b \in Block : AddToBlockIndex(b)
             \/ BeginExtend \/ BeginReorganize \/ ReorganizeDisconnect \/ ReorganizeConnect
             \/ ReorganizeFail \/ ReorganizeCommit \/ ResurrectDone \/ DeleteDone
             \/ InnerFail \/ SecondaryFail \/ Finish \/ LoadBlockIndex \/ UNCHANGED vars
    <3>1. mempool' = mempool
      BY <2>9 DEF AddToBlockIndex, BeginExtend, BeginReorganize, ReorganizeDisconnect,
         ReorganizeConnect, ReorganizeFail, ReorganizeCommit, ResurrectDone, DeleteDone,
         InnerFail, SecondaryFail, Finish, LoadBlockIndex, vars, memVars
    <3> QED
      BY <2>1, <3>1
  <2> QED
    BY <1>2, <2>4, <2>5, <2>6, <2>7, <2>8, <2>9 DEF Next, Step
<1> QED
  BY <1>1, <1>2, ChainInvariant, PTL DEF Spec

-----------------------------------------------------------------------------
(***************************************************************************)
(* The links and the pool.  A second inductive invariant, on top of        *)
(* ChainInv: which blocks are indexed, what pnext and hashNext link while  *)
(* a call is under way, where a reorganization stands between its two      *)
(* branches, and which confirmed transactions the pool may still hold.     *)
(***************************************************************************)

\* Every block the call works on is indexed, with its whole branch, and the batch indexes no
\* other blocks than the disk does.
IndexedInv ==
    /\ Closed(disk.index)
    /\ batch.index = disk.index
    /\ pc # "down" => mapBlockIndex = disk.index
    /\ {Genesis, disk.best, pindexBest, pindexNew, pindexIntermediate, pindexCur}
          \subseteq disk.index

\* hashNext traces the committed best chain on disk and the branch reached so far in the
\* batch; pnext traces the committed best chain.
LinkInv ==
    /\ Links(disk.hashNext, disk.best)
    /\ pc = "reorganize" => Links(batch.hashNext, pindexCur)
    /\ pc # "down" => Links(pnext, disk.best)

\* Reorganize goes down the old branch to the fork and up the new one, and nowhere else.
PositionInv ==
    pc = "reorganize" =>
        /\ pindexCur \in branch[pindexBest] \cup branch[pindexIntermediate]
        /\ branch[pindexBest] \cap branch[pindexIntermediate] \subseteq branch[pindexCur]

DeleteSet == {vDelete[i] : i \in DOMAIN vDelete}

\* Confirmed transactions are in the pool only between the commit of Reorganize and the end
\* of its loop over vDelete, which has all of them.
UnconfirmedInv ==
    /\ pc = "reorganize" =>
          \A a \in branch[pindexCur] \ branch[pindexBest] : TxsOf(a) \subseteq DeleteSet
    /\ mempool.mapTx \cap BranchTxs(disk.best) \subseteq
          (IF pc \in {"resurrect", "delete"} THEN DeleteSet ELSE {})

FollowInv ==
    /\ IndexedInv
    /\ ~broken => LinkInv /\ PositionInv /\ UnconfirmedInv

-----------------------------------------------------------------------------
\* A block has one successor at most on a branch, and the last block has none.
LEMMA OneSuccessor ==
    ASSUME NEW b \in Block, NEW y \in branch[b], pprev[y] \in Block
    PROVE  /\ y \in Block \ {Genesis} /\ y \notin branch[pprev[y]]
           /\ pprev[y] \in branch[b] /\ pprev[y] # b
           /\ \A z \in branch[b] : pprev[z] = pprev[y] => z = y
<1>1. y \in Block \ {Genesis}
  BY BranchClosed, TreeAssumption
<1>2. y \notin branch[pprev[y]]
  BY <1>1, BranchStep
<1>3. pprev[y] \in branch[b]
  BY BranchClosed, TreeAssumption DEF Closed
<1>4. ASSUME NEW z \in branch[b], pprev[z] = pprev[y], z # y PROVE FALSE
  <2>1. z \in Block \ {Genesis}
    BY <1>4, BranchClosed, TreeAssumption
  <2>2. z \notin branch[pprev[z]]
    BY <2>1, BranchStep
  <2>3. branch[y] = {y} \cup branch[pprev[y]] /\ branch[z] = {z} \cup branch[pprev[z]]
    BY <1>1, <2>1, BranchStep
  <2>4. y \in branch[z] \/ z \in branch[y]
    BY BranchLinear
  <2> QED
    BY <1>2, <1>4, <2>2, <2>3, <2>4
<1> QED
  BY <1>1, <1>2, <1>3, <1>4

\* Links that trace a branch leave every other block, and its last one, without a successor.
LEMMA Unlinked ==
    ASSUME NEW b \in Block, NEW f \in [Block -> Block \cup {NoBlock}], Links(f, b),
           NEW x \in Block, x = b \/ x \notin branch[b]
    PROVE  f[x] = NoBlock
<1>1. SUFFICES ASSUME f[x] \in Block PROVE FALSE
  OBVIOUS
<1>2. f[x] \in branch[b] /\ pprev[f[x]] = x
  BY <1>1 DEF Links
<1> QED
  BY <1>2, OneSuccessor

\* ConnectBlock's links: the branch grows by a block that has no successor.
LEMMA LinkUp ==
    ASSUME NEW b \in Block, b # Genesis, NEW f \in [Block -> Block \cup {NoBlock}],
           Links(f, pprev[b])
    PROVE  /\ f[b] = NoBlock
           /\ Links([f EXCEPT ![b] = NoBlock, ![pprev[b]] = b], b)
           /\ Links([f EXCEPT ![pprev[b]] = b], b)
<1> DEFINE p == pprev[b]
           g == [f EXCEPT ![b] = NoBlock, ![p] = b]
           h == [f EXCEPT ![p] = b]
<1>1. p \in Block /\ branch[b] = {b} \cup branch[p] /\ b \notin branch[p] /\ b # p
  BY BranchStep, BranchClosed
<1>2. f[b] = NoBlock
  BY <1>1, Unlinked
<1>3. g = h
  BY <1>1, <1>2
<1>4. ASSUME NEW x \in Block, NEW y \in Block
      PROVE  h[x] = y <=> (y \in branch[b] /\ pprev[y] = x)
  <2>1. CASE x = p
    <3>1. h[x] = b
      BY <1>1, <2>1
    <3>2. b \in branch[b] /\ pprev[b] = x
      BY <1>1, <2>1
    <3>3. ASSUME y \in branch[b], pprev[y] = x PROVE y = b
      BY <1>1, <2>1, <3>2, <3>3, OneSuccessor
    <3> QED
      BY <3>1, <3>2, <3>3
  <2>2. CASE x # p
    <3>1. h[x] = f[x]
      BY <1>1, <2>2
    <3>2. f[x] = y <=> (y \in branch[p] /\ pprev[y] = x)
      BY DEF Links
    <3> QED
      BY <1>1, <2>2, <3>1, <3>2
  <2> QED
    BY <2>1, <2>2
<1>5. Links(h, b)
  BY <1>4 DEF Links
<1> QED
  BY <1>2, <1>3, <1>5

\* DisconnectBlock's links: the branch loses its last block.
LEMMA LinkDown ==
    ASSUME NEW b \in Block, b # Genesis, NEW f \in [Block -> Block \cup {NoBlock}], Links(f, b)
    PROVE  Links([f EXCEPT ![pprev[b]] = NoBlock], pprev[b])
<1> DEFINE p == pprev[b]
           h == [f EXCEPT ![p] = NoBlock]
<1>1. p \in Block /\ branch[b] = {b} \cup branch[p] /\ b \notin branch[p]
  BY BranchStep
<1>2. ASSUME NEW x \in Block, NEW y \in Block
      PROVE  h[x] = y <=> (y \in branch[p] /\ pprev[y] = x)
  <2>1. f[x] = y <=> (y \in branch[b] /\ pprev[y] = x)
    BY DEF Links
  <2>2. CASE x = p
    <3>1. h[x] # y
      BY <1>1, <2>2, TreeAssumption
    <3>2. ~(y \in branch[p] /\ pprev[y] = x)
      BY <1>1, <2>2, OneSuccessor
    <3> QED
      BY <3>1, <3>2
  <2>3. CASE x # p
    <3>1. h[x] = f[x]
      BY <1>1, <2>3
    <3> QED
      BY <1>1, <2>1, <2>3, <3>1
  <2> QED
    BY <2>2, <2>3
<1>3. Links(h, p)
  BY <1>2 DEF Links
<1> QED
  BY <1>3

\* Reorganize's links: unlinking the old branch and linking the new one leaves exactly the
\* links of the new branch, wherever the fork is.
LEMMA RelinkedLinks ==
    ASSUME pindexBest \in Block, NEW b \in Block, pnext \in [Block -> Block \cup {NoBlock}],
           Links(pnext, pindexBest)
    PROVE  Links(Relinked(b), b)
<1> DEFINE new == Relinked(b)
<1>1. SUFFICES ASSUME NEW x \in Block, NEW y \in Block
               PROVE  new[x] = y <=> (y \in branch[b] /\ pprev[y] = x)
  BY DEF Links
<1>2. pnext[x] = y <=> (y \in branch[pindexBest] /\ pprev[y] = x)
  BY DEF Links
<1>3. CASE \E z \in branch[b] \ branch[pindexBest] : pprev[z] = x
  <2>1. new[x] = NextOn(x, b)
    BY <1>3 DEF Relinked
  <2>2. x \in branch[b] /\ x # b
    BY <1>3, OneSuccessor
  <2>3. NextOn(x, b) \in branch[b] /\ pprev[NextOn(x, b)] = x
    BY <2>2, NextOnBranch
  <2> HIDE DEF new
  <2> QED
    BY <2>1, <2>3, OneSuccessor
<1>4. CASE /\ ~\E z \in branch[b] \ branch[pindexBest] : pprev[z] = x
           /\ \E z \in branch[pindexBest] \ branch[b] : pprev[z] = x
  <2>1. new[x] = NoBlock
    BY <1>4 DEF Relinked
  <2>2. PICK z \in branch[pindexBest] \ branch[b] : pprev[z] = x
    BY <1>4
  <2>3. ASSUME y \in branch[b], pprev[y] = x PROVE FALSE
    <3>1. y \in branch[pindexBest]
      BY <1>4, <2>3
    <3>2. y = z
      BY <2>2, <2>3, <3>1, OneSuccessor
    <3> QED
      BY <2>2, <2>3, <3>2
  <2> QED
    BY <2>1, <2>3, TreeAssumption
<1>5. CASE /\ ~\E z \in branch[b] \ branch[pindexBest] : pprev[z] = x
           /\ ~\E z \in branch[pindexBest] \ branch[b] : pprev[z] = x
  <2>1. new[x] = pnext[x]
    BY <1>5 DEF Relinked
  <2> HIDE DEF new
  <2> QED
    BY <1>2, <1>5, <2>1
<1> QED
  BY <1>3, <1>4, <1>5

-----------------------------------------------------------------------------
\* An indexed block is indexed with its branch.
LEMMA IndexedBranch ==
    ASSUME TypeOK, IndexedInv, NEW b \in disk.index
    PROVE  b \in Block /\ branch[b] \subseteq disk.index
<1>1. disk.index \in SUBSET Block
  BY DEF TypeOK, Database
<1> QED
  BY <1>1, BranchLeast DEF IndexedInv

\* A transaction that AcceptToMemoryPool takes is not on the branch the index describes: it
\* has an input, and the inputs of the branch's transactions are all spent in the index.
LEMMA AcceptedIsUnconfirmed ==
    ASSUME NEW pool, NEW db \in Database, NEW b \in Block, DescribesBranch(db, b),
           NEW best, NEW t \in Tx, AcceptToMemoryPool(pool, db, best, t)
    PROVE  t \notin BranchTxs(b)
<1>1. SUFFICES ASSUME t \in BranchTxs(b) PROVE FALSE
  OBVIOUS
<1>2. PICK a \in branch[b] : t \in TxsOf(a)
  BY <1>1 DEF BranchTxs
<1>3. vin[t] \subseteq db.spent
  BY <1>2 DEF DescribesBranch, BranchSpent, SpentBy
<1>4. vin[t] # {}
  BY TxAssumption DEF AcceptToMemoryPool
<1> QED
  BY <1>3, <1>4 DEF AcceptToMemoryPool

LEMMA FollowInit == Init => FollowInv
<1> SUFFICES ASSUME Init PROVE FollowInv
  OBVIOUS
<1>1. /\ disk.index = {Genesis} /\ disk.hashNext = EmptyNext /\ disk.best = Genesis
      /\ batch = disk
  BY DEF Init, GenesisDatabase
<1>2. Genesis \in Block /\ NoBlock \notin Block /\ pprev[Genesis] = NoBlock
  BY TreeAssumption
<1>3. IndexedInv
  BY <1>1, <1>2 DEF Init, IndexedInv, Closed
<1>4. Links(EmptyNext, Genesis)
  BY <1>2, BranchGenesis, TreeAssumption DEF Links, EmptyNext
<1>5. LinkInv /\ PositionInv
  BY <1>1, <1>4 DEF Init, LinkInv, PositionInv
<1>6. UnconfirmedInv
  BY DEF Init, EmptyPool, UnconfirmedInv
<1> QED
  BY <1>3, <1>5, <1>6 DEF FollowInv

\* A new block is indexed under a new record; no link changes.
LEMMA AddToBlockIndexFollows ==
    ASSUME ChainInv, FollowInv, NEW b \in Block, AddToBlockIndex(b)
    PROVE  FollowInv'
<1> USE DEF ChainInv, FollowInv
<1>1. /\ disk'.index = disk.index \cup {b} /\ disk'.best = disk.best
      /\ disk'.hashNext = [disk.hashNext EXCEPT ![b] = pnext[b]] /\ batch' = disk'
  BY DEF AddToBlockIndex, TypeOK, Database
<1>2. /\ pc = "idle" /\ pc' \in {"idle", "begin"} /\ mapBlockIndex' = mapBlockIndex \cup {b}
      /\ b \notin disk.index /\ pprev[b] \in disk.index /\ pindexNew' \in {pindexNew, b}
      /\ UNCHANGED <<pnext, pindexBest, mempool, pindexIntermediate, pindexCur, vDelete, broken>>
  BY DEF AddToBlockIndex, IndexedInv
<1>3. IndexedInv'
  BY <1>1, <1>2 DEF IndexedInv, Closed
<1>4. ASSUME ~broken' PROVE LinkInv' /\ PositionInv' /\ UnconfirmedInv'
  <2>1. /\ disk.best \in Block /\ pnext \in [Block -> Block \cup {NoBlock}]
        /\ disk.hashNext \in [Block -> Block \cup {NoBlock}]
    BY DEF TypeOK, Database
  <2>2. branch[disk.best] \subseteq disk.index
    BY IndexedBranch DEF IndexedInv
  <2>3. Links(disk.hashNext, disk.best) /\ Links(pnext, disk.best)
    BY <1>2, <1>4 DEF LinkInv
  <2>4. pnext[b] = NoBlock /\ disk.hashNext[b] = NoBlock
    BY <1>2, <2>1, <2>2, <2>3, Unlinked
  <2>5. disk'.hashNext = disk.hashNext
    BY <1>1, <2>1, <2>4
  <2>6. LinkInv'
    BY <1>1, <1>2, <2>3, <2>5 DEF LinkInv, Links
  <2>7. PositionInv' /\ UnconfirmedInv'
    BY <1>1, <1>2, <1>4 DEF PositionInv, UnconfirmedInv
  <2> QED
    BY <2>6, <2>7
<1> QED
  BY <1>3, <1>4

LEMMA BeginFollows ==
    ASSUME ChainInv, FollowInv, BeginExtend \/ BeginReorganize
    PROVE  FollowInv'
<1> USE DEF ChainInv, FollowInv
<1>1. CASE BeginExtend
  <2>1. IndexedInv'
    BY <1>1 DEF BeginExtend, IndexedInv, Closed, memVars
  <2>2. ~broken' => LinkInv' /\ PositionInv' /\ UnconfirmedInv'
    BY <1>1 DEF BeginExtend, LinkInv, Links, PositionInv, UnconfirmedInv, memVars
  <2> QED
    BY <2>1, <2>2
<1>2. CASE BeginReorganize
  <2>1. Intermediate(pindexNew) \in disk.index
    BY IntermediateOnBranch, IndexedBranch DEF TypeOK, IndexedInv
  <2>2. IndexedInv'
    BY <1>2, <2>1 DEF BeginReorganize, IndexedInv, Closed, memVars
  <2>3. ASSUME ~broken' PROVE LinkInv' /\ PositionInv' /\ UnconfirmedInv'
    <3>1. /\ pc = "begin" /\ pc' = "reorganize" /\ pindexCur' = pindexBest
          /\ UNCHANGED <<disk, batch, pnext, pindexBest, mempool, vDelete, broken>>
      BY <1>2 DEF BeginReorganize, memVars
    <3>2. disk.best = pindexBest /\ batch = disk
      BY <2>3, <3>1 DEF BestInv, BatchInv
    <3>3. LinkInv'
      BY <2>3, <3>1, <3>2 DEF LinkInv, Links
    <3>4. PositionInv'
      BY <3>1, BranchClosed DEF PositionInv, TypeOK
    <3>5. UnconfirmedInv'
      BY <2>3, <3>1 DEF UnconfirmedInv
    <3> QED
      BY <3>3, <3>4, <3>5
  <2> QED
    BY <2>2, <2>3
<1> QED
  BY <1>1, <1>2

LEMMA ReorganizeDisconnectFollows ==
    ASSUME ChainInv, FollowInv, ReorganizeDisconnect
    PROVE  FollowInv'
<1> USE DEF ChainInv, FollowInv
<1>1. /\ pindexCur \in Block /\ pindexCur # Genesis /\ pprev[pindexCur] \in Block
      /\ batch \in Database
  BY BranchGenesis, BranchStep DEF ReorganizeDisconnect, TypeOK
<1>2. /\ batch'.index = batch.index \cup {pprev[pindexCur]}
      /\ batch'.hashNext = [batch.hashNext EXCEPT ![pprev[pindexCur]] = NoBlock]
      /\ batch.hashNext \in [Block -> Block \cup {NoBlock}]
  BY <1>1 DEF ReorganizeDisconnect, DisconnectBlock, Database
<1>3. /\ pc = "reorganize" /\ pindexCur \notin branch[pindexIntermediate]
      /\ pindexCur' = pprev[pindexCur]
      /\ UNCHANGED <<disk, pnext, mapBlockIndex, pindexBest, mempool, pc, pindexNew,
                     pindexIntermediate, vDelete, broken>>
  BY DEF ReorganizeDisconnect
<1>4. pprev[pindexCur] \in disk.index
  BY <1>1, TreeAssumption DEF IndexedInv, Closed
<1>5. IndexedInv'
  BY <1>2, <1>3, <1>4 DEF IndexedInv, Closed
<1>6. ASSUME ~broken' PROVE LinkInv' /\ PositionInv' /\ UnconfirmedInv'
  <2>1. branch[pindexCur] = {pindexCur} \cup branch[pprev[pindexCur]]
    BY <1>1, BranchStep
  <2>2. Links(batch'.hashNext, pindexCur')
    BY <1>1, <1>2, <1>3, <1>6, LinkDown DEF LinkInv
  <2>3. LinkInv'
    BY <1>3, <1>6, <2>2 DEF LinkInv, Links
  <2>4. pindexCur \in branch[pindexBest]
    BY <1>3, <1>6 DEF PositionInv
  <2>5. pprev[pindexCur] \in branch[pindexBest]
    BY <1>1, <2>4, BranchClosed, TreeAssumption DEF Closed, TypeOK
  <2>6. PositionInv'
    BY <1>3, <1>6, <2>1, <2>5 DEF PositionInv
  <2>7. UnconfirmedInv'
    BY <1>3, <1>6, <2>1 DEF UnconfirmedInv, DeleteSet
  <2> QED
    BY <2>3, <2>6, <2>7
<1> QED
  BY <1>5, <1>6

LEMMA ReorganizeConnectFollows ==
    ASSUME ChainInv, FollowInv, ReorganizeConnect
    PROVE  FollowInv'
<1> USE DEF ChainInv, FollowInv
<1> DEFINE b == NextOn(pindexCur, pindexIntermediate)
<1>1. /\ b \in branch[pindexIntermediate] /\ b \in Block \ {Genesis} /\ pprev[b] = pindexCur
      /\ batch \in Database
  BY NextOnBranch DEF ReorganizeConnect, TypeOK
<1>2. /\ batch' = ConnectBlock(batch, b, pnext) /\ pindexCur' = b /\ vDelete' = vDelete \o vtx[b]
      /\ pc = "reorganize"
      /\ UNCHANGED <<disk, pnext, mapBlockIndex, pindexBest, mempool, pc, pindexNew,
                     pindexIntermediate, broken>>
  BY DEF ReorganizeConnect
<1> HIDE DEF b
<1>3. /\ batch'.index = batch.index \cup {b, pindexCur}
      /\ batch'.hashNext = [batch.hashNext EXCEPT ![b] = pnext[b], ![pindexCur] = b]
      /\ batch.hashNext \in [Block -> Block \cup {NoBlock}]
  BY <1>1, <1>2 DEF ConnectBlock, Database
<1>4. b \in disk.index
  BY <1>1, IndexedBranch DEF IndexedInv
<1>5. IndexedInv'
  BY <1>2, <1>3, <1>4 DEF IndexedInv, Closed
<1>6. ASSUME ~broken' PROVE LinkInv' /\ PositionInv' /\ UnconfirmedInv'
  <2>1. /\ branch[b] = {b} \cup branch[pindexCur] /\ b \notin branch[pindexCur]
        /\ pindexBest \in Block
    BY <1>1, BranchStep DEF TypeOK
  <2>2. b \notin branch[pindexBest]
    BY <1>1, <1>2, <1>6, <2>1 DEF PositionInv
  <2>3. pnext[b] = NoBlock
    <3>1. Links(pnext, pindexBest) /\ pnext \in [Block -> Block \cup {NoBlock}]
      BY <1>2, <1>6 DEF LinkInv, BestInv, TypeOK
    <3> QED
      BY <1>1, <2>1, <2>2, <3>1, Unlinked
  <2>4. Links(batch.hashNext, pprev[b])
    BY <1>1, <1>2, <1>6 DEF LinkInv
  <2>5. Links(batch'.hashNext, b)
    <3> DEFINE f == batch.hashNext
    <3>1. f \in [Block -> Block \cup {NoBlock}] /\ Links(f, pprev[b]) /\ b \in Block /\ b # Genesis
      BY <1>1, <1>3, <2>4
    <3>2. batch'.hashNext = [f EXCEPT ![b] = NoBlock, ![pprev[b]] = b]
      BY <1>1, <1>3, <2>3
    <3> HIDE DEF f
    <3>3. Links([f EXCEPT ![b] = NoBlock, ![pprev[b]] = b], b)
      BY <3>1, LinkUp
    <3> QED
      BY <3>2, <3>3
  <2>6. LinkInv'
    BY <1>2, <1>6, <2>5 DEF LinkInv, Links
  <2>7. PositionInv'
    BY <1>1, <1>2, <1>6, <2>1 DEF PositionInv
  <2>8. DeleteSet \subseteq DeleteSet' /\ TxsOf(b) \subseteq DeleteSet'
    <3>1. vDelete \in Seq(Tx) /\ vtx[b] \in Seq(Tx)
      BY <1>1, TxAssumption DEF TypeOK
    <3>2. /\ \A i \in DOMAIN vDelete : i \in DOMAIN vDelete' /\ vDelete'[i] = vDelete[i]
          /\ \A i \in DOMAIN vtx[b] : /\ Len(vDelete) + i \in DOMAIN vDelete'
                                      /\ vDelete'[Len(vDelete) + i] = vtx[b][i]
      BY <1>2, <3>1
    <3> QED
      BY <3>2 DEF DeleteSet, TxsOf
  <2>9. UnconfirmedInv'
    <3>1. /\ \A a \in branch[pindexCur] \ branch[pindexBest] : TxsOf(a) \subseteq DeleteSet
          /\ mempool.mapTx \cap BranchTxs(disk.best) \subseteq {}
      BY <1>2, <1>6 DEF UnconfirmedInv
    <3>2. \A a \in branch[b] \ branch[pindexBest] : TxsOf(a) \subseteq DeleteSet'
      BY <2>1, <2>8, <3>1
    <3> QED
      BY <1>2, <3>1, <3>2 DEF UnconfirmedInv
  <2> QED
    BY <2>6, <2>7, <2>9
<1> QED
  BY <1>5, <1>6

\* A call that returns early, and the end of a call, leave index, links and pool alone.
LEMMA ReturnFollows ==
    ASSUME ChainInv, FollowInv, ReorganizeFail \/ InnerFail \/ Finish
    PROVE  FollowInv'
<1> USE DEF ChainInv, FollowInv
<1>1. /\ disk' = disk /\ batch' = disk /\ pnext' = pnext /\ mapBlockIndex' = mapBlockIndex
      /\ mempool' = mempool /\ broken' = broken /\ pc' = "idle"
      /\ pindexBest' \in {pindexBest, pindexNew}
      /\ pindexNew' = Genesis /\ pindexIntermediate' = Genesis /\ pindexCur' = Genesis
      /\ pc \in {"reorganize", "inner", "finish"}
  BY DEF ReorganizeFail, InnerFail, Finish, TxnAbort, Return, BatchInv
<1>2. IndexedInv'
  BY <1>1 DEF IndexedInv, Closed
<1>3. ASSUME ~broken' PROVE LinkInv' /\ PositionInv' /\ UnconfirmedInv'
  <2>1. LinkInv' /\ PositionInv'
    BY <1>1, <1>3 DEF LinkInv, Links, PositionInv
  <2>2. UnconfirmedInv'
    BY <1>1, <1>3 DEF UnconfirmedInv
  <2> QED
    BY <2>1, <2>2
<1> QED
  BY <1>2, <1>3

\* The commit: the links switch to the new branch, and whatever of it is in the pool is in
\* vDelete.
LEMMA ReorganizeCommitFollows ==
    ASSUME ChainInv, FollowInv, ReorganizeCommit
    PROVE  FollowInv'
<1> USE DEF ChainInv, FollowInv
<1>1. /\ disk'.index = batch.index /\ disk'.hashNext = batch.hashNext
      /\ disk'.best = pindexIntermediate /\ batch' = disk'
  BY DEF ReorganizeCommit, TypeOK, Database
<1>2. /\ pc = "reorganize" /\ pc' = "resurrect" /\ pindexCur = pindexIntermediate
      /\ pnext' = Relinked(pindexIntermediate)
      /\ UNCHANGED <<mapBlockIndex, pindexBest, mempool, pindexNew, pindexIntermediate,
                     pindexCur, vDelete, broken>>
  BY DEF ReorganizeCommit
<1>3. IndexedInv'
  BY <1>1, <1>2 DEF IndexedInv, Closed
<1>4. ASSUME ~broken' PROVE LinkInv' /\ PositionInv' /\ UnconfirmedInv'
  <2>1. /\ pindexBest \in Block /\ pindexIntermediate \in Block
        /\ pnext \in [Block -> Block \cup {NoBlock}] /\ disk.best = pindexBest
        /\ Links(pnext, pindexBest) /\ Links(batch.hashNext, pindexIntermediate)
    BY <1>2, <1>4 DEF TypeOK, BestInv, LinkInv
  <2>2. Links(pnext', pindexIntermediate)
    BY <1>2, <2>1, RelinkedLinks
  <2>3. LinkInv' /\ PositionInv'
    BY <1>1, <1>2, <2>1, <2>2 DEF LinkInv, Links, PositionInv
  <2>4. mempool.mapTx \cap BranchTxs(pindexIntermediate) \subseteq DeleteSet
    <3>1. SUFFICES ASSUME NEW a \in branch[pindexIntermediate], NEW t \in TxsOf(a),
                          t \in mempool.mapTx
                   PROVE  t \in DeleteSet
      BY DEF BranchTxs
    <3>2. CASE a \in branch[pindexBest]
      BY <1>2, <1>4, <2>1, <3>1, <3>2 DEF UnconfirmedInv, BranchTxs
    <3>3. CASE a \notin branch[pindexBest]
      BY <1>2, <1>4, <3>1, <3>3 DEF UnconfirmedInv
    <3> QED
      BY <3>2, <3>3
  <2>5. UnconfirmedInv'
    BY <1>1, <1>2, <2>4 DEF UnconfirmedInv, DeleteSet
  <2> QED
    BY <2>3, <2>5
<1> QED
  BY <1>3, <1>4

\* The steps after the commit that change the pool only: nothing confirmed comes in, and what
\* vDelete loses the pool has lost too.
LEMMA PoolStepFollows ==
    ASSUME ChainInv, FollowInv, Resurrect \/ ResurrectDone \/ Delete \/ DeleteDone
    PROVE  FollowInv'
<1> USE DEF ChainInv, FollowInv
<1>1. /\ UNCHANGED <<disk, batch, mapBlockIndex, pnext, pindexBest, pindexNew,
                     pindexIntermediate, pindexCur, broken>>
      /\ pc \in {"resurrect", "delete"} /\ pc' \in {"resurrect", "delete", "finish", "secondary"}
  BY DEF Resurrect, ResurrectDone, Delete, DeleteDone, memVars
<1>2. IndexedInv'
  BY <1>1 DEF IndexedInv, Closed
<1>3. ASSUME ~broken' PROVE LinkInv' /\ PositionInv' /\ UnconfirmedInv'
  <2>1. LinkInv' /\ PositionInv'
    BY <1>1, <1>3 DEF LinkInv, Links, PositionInv
  <2>2. mempool.mapTx \cap BranchTxs(disk.best) \subseteq DeleteSet
    BY <1>1, <1>3 DEF UnconfirmedInv
  <2>3. CASE Resurrect
    <3>1. Head(vResurrect) \in Tx /\ disk \in Database /\ disk.best \in Block
          /\ DescribesBranch(disk, disk.best) /\ mempool \in Pool
      BY <1>1, <1>3, <2>3 DEF Resurrect, TypeOK, IndexInv, Database
    <3>2. mempool'.mapTx \cap BranchTxs(disk.best) \subseteq DeleteSet
      <4>1. CASE mempool' = mempool
        BY <2>2, <4>1
      <4>2. CASE /\ AcceptToMemoryPool(mempool, disk, pindexBest, Head(vResurrect))
                 /\ mempool' = addUnchecked(mempool, Head(vResurrect))
        <5>1. mempool'.mapTx = mempool.mapTx \cup {Head(vResurrect)}
          BY <4>2 DEF addUnchecked
        <5>2. Head(vResurrect) \notin BranchTxs(disk.best)
          BY <3>1, <4>2, AcceptedIsUnconfirmed
        <5> QED
          BY <2>2, <5>1, <5>2
      <4> QED
        BY <2>3, <4>1, <4>2 DEF Resurrect
    <3>3. vDelete' = vDelete /\ pc' = "resurrect"
      BY <2>3 DEF Resurrect
    <3> QED
      BY <1>1, <2>1, <3>2, <3>3 DEF UnconfirmedInv, DeleteSet
  <2>4. CASE Delete
    <3> DEFINE t == Head(vDelete)
    <3>1. mempool'.mapTx \subseteq mempool.mapTx \ {t}
      BY <2>4 DEF Delete, removeConflicts, remove, Erase
    <3>2. DeleteSet \ {t} \subseteq DeleteSet'
      <4>1. /\ vDelete \in Seq(Tx) /\ vDelete # << >> /\ vDelete' = Tail(vDelete)
        BY <2>4 DEF Delete, TypeOK
      <4>2. \A i \in DOMAIN vDelete : i # 1 => /\ i - 1 \in DOMAIN vDelete'
                                               /\ vDelete'[i - 1] = vDelete[i]
        BY <4>1
      <4>3. vDelete[1] = t
        BY <4>1
      <4> QED
        BY <4>2, <4>3 DEF DeleteSet
    <3>3. pc' = "delete"
      BY <2>4 DEF Delete
    <3> HIDE DEF t
    <3>4. UnconfirmedInv'
      BY <1>1, <2>2, <3>1, <3>2, <3>3 DEF UnconfirmedInv
    <3> QED
      BY <2>1, <3>4
  <2>5. CASE ResurrectDone
    BY <1>1, <2>1, <2>2, <2>5 DEF ResurrectDone, UnconfirmedInv, DeleteSet, memVars
  <2>6. CASE DeleteDone
    <3>1. vDelete = << >> /\ mempool' = mempool /\ pc' \in {"finish", "secondary"}
      BY <2>6 DEF DeleteDone, memVars
    <3>2. DeleteSet = {}
      BY <3>1 DEF DeleteSet
    <3> QED
      BY <1>1, <2>1, <2>2, <3>1, <3>2 DEF UnconfirmedInv
  <2> QED
    BY <2>3, <2>4, <2>5, <2>6
<1> QED
  BY <1>2, <1>3

LEMMA SetBestChainInnerFollows ==
    ASSUME ChainInv, FollowInv, SetBestChainInner
    PROVE  FollowInv'
<1> USE DEF ChainInv, FollowInv
<1> DEFINE b == NextOn(pindexCur, pindexNew)
<1>1. pindexCur \in branch[pindexNew] /\ pindexCur # pindexNew
  BY InnerCursor
<1>2. /\ b \in branch[pindexNew] /\ b \in Block /\ b # Genesis /\ pprev[b] = pindexCur
      /\ batch \in Database /\ batch = disk
  BY <1>1, NextOnBranch DEF SetBestChainInner, TypeOK, BatchInv
<1>3. /\ disk' = [ConnectBlock(batch, b, pnext) EXCEPT !.best = b] /\ batch' = disk'
      /\ pnext' = [pnext EXCEPT ![pindexCur] = b]
      /\ mempool' = Erase(mempool, TxsOf(b))
      /\ pindexCur' = b
      /\ pc \in {"inner", "secondary"} /\ pc' \in {"inner", "secondary", "finish"}
      /\ UNCHANGED <<mapBlockIndex, pindexBest, pindexNew, pindexIntermediate, vDelete, broken>>
  BY DEF SetBestChainInner
<1> HIDE DEF b
<1>4. /\ disk'.index = disk.index \cup {b, pindexCur} /\ disk'.best = b
      /\ disk'.hashNext = [disk.hashNext EXCEPT ![b] = pnext[b], ![pindexCur] = b]
      /\ disk.hashNext \in [Block -> Block \cup {NoBlock}]
  BY <1>2, <1>3 DEF ConnectBlock, Database
<1>5. b \in disk.index
  BY <1>2, IndexedBranch DEF IndexedInv
<1>6. IndexedInv'
  BY <1>3, <1>4, <1>5 DEF IndexedInv, Closed
<1>7. ASSUME ~broken' PROVE LinkInv' /\ PositionInv' /\ UnconfirmedInv'
  <2> DEFINE f == disk.hashNext
  <2>1. /\ pindexCur = disk.best /\ Links(pnext, pprev[b]) /\ Links(f, pprev[b])
        /\ pnext \in [Block -> Block \cup {NoBlock}] /\ f \in [Block -> Block \cup {NoBlock}]
    BY <1>2, <1>3, <1>4, <1>7 DEF BestInv, LinkInv, TypeOK
  <2>2. pnext[b] = NoBlock /\ Links([pnext EXCEPT ![pprev[b]] = b], b)
    BY <1>2, <2>1, LinkUp
  <2>3. disk'.hashNext = [f EXCEPT ![b] = NoBlock, ![pprev[b]] = b]
    BY <1>2, <1>4, <2>2
  <2> HIDE DEF f
  <2>4. Links([f EXCEPT ![b] = NoBlock, ![pprev[b]] = b], b)
    BY <1>2, <2>1, LinkUp
  <2>5. Links(disk'.hashNext, b) /\ Links(pnext', b)
    BY <1>2, <1>3, <2>2, <2>3, <2>4
  <2>6. LinkInv' /\ PositionInv'
    BY <1>3, <1>4, <2>5 DEF LinkInv, Links, PositionInv
  <2>7. BranchTxs(b) = TxsOf(b) \cup BranchTxs(disk.best)
    BY <1>2, <2>1, BranchUnions
  <2>8. mempool'.mapTx = mempool.mapTx \ TxsOf(b)
    BY <1>3 DEF Erase
  <2>9. mempool.mapTx \cap BranchTxs(disk.best) = {}
    BY <1>3, <1>7 DEF UnconfirmedInv
  <2>10. UnconfirmedInv'
    BY <1>3, <1>4, <2>7, <2>8, <2>9 DEF UnconfirmedInv
  <2> QED
    BY <2>6, <2>10
<1> QED
  BY <1>6, <1>7

LEMMA SecondaryFailFollows ==
    ASSUME ChainInv, FollowInv, SecondaryFail
    PROVE  FollowInv'
<1>1. IndexedInv'
  BY DEF SecondaryFail, TxnAbort, FollowInv, IndexedInv, Closed
<1>2. broken' = TRUE
  BY DEF SecondaryFail
<1> QED
  BY <1>1, <1>2 DEF FollowInv

LEMMA SubmitTxFollows ==
    ASSUME ChainInv, FollowInv, NEW t \in Tx, SubmitTx(t)
    PROVE  FollowInv'
<1> USE DEF ChainInv, FollowInv
<1>1. IndexedInv'
  BY DEF SubmitTx, IndexedInv, Closed, callVars
<1>2. ASSUME ~broken' PROVE LinkInv' /\ PositionInv' /\ UnconfirmedInv'
  <2>1. LinkInv' /\ PositionInv'
    BY <1>2 DEF SubmitTx, LinkInv, Links, PositionInv, callVars
  <2>2. disk \in Database /\ disk.best \in Block /\ DescribesBranch(disk, disk.best)
    BY <1>2 DEF SubmitTx, TypeOK, Database, IndexInv
  <2>3. t \notin BranchTxs(disk.best)
    BY <2>2, AcceptedIsUnconfirmed DEF SubmitTx
  <2>4. mempool'.mapTx = mempool.mapTx \cup {t} /\ pc = "idle" /\ pc' = pc /\ disk' = disk
    BY DEF SubmitTx, addUnchecked, callVars
  <2>5. UnconfirmedInv'
    BY <1>2, <2>3, <2>4 DEF SubmitTx, UnconfirmedInv
  <2> QED
    BY <2>1, <2>5
<1> QED
  BY <1>1, <1>2

\* After a crash the disk alone has to carry the invariant, and it does.
LEMMA CrashFollows ==
    ASSUME ChainInv, FollowInv, Crash
    PROVE  FollowInv'
<1> USE DEF ChainInv, FollowInv
<1>1. IndexedInv'
  BY DEF Crash, IndexedInv, Closed
<1>2. ~broken' => LinkInv' /\ PositionInv' /\ UnconfirmedInv'
  BY DEF Crash, LinkInv, Links, PositionInv, UnconfirmedInv, EmptyPool
<1> QED
  BY <1>1, <1>2

LEMMA LoadBlockIndexFollows ==
    ASSUME ChainInv, FollowInv, LoadBlockIndex
    PROVE  FollowInv'
<1> USE DEF ChainInv, FollowInv
<1>1. pindexNew' \in disk.index /\ pc = "down" /\ pc' \in {"idle", "begin"}
  BY IndexedBranch DEF LoadBlockIndex, IndexedInv
<1>2. IndexedInv'
  BY <1>1 DEF LoadBlockIndex, IndexedInv, Closed
<1>3. ~broken' => LinkInv' /\ PositionInv' /\ UnconfirmedInv'
  BY <1>1 DEF LoadBlockIndex, LinkInv, Links, PositionInv, UnconfirmedInv
<1> QED
  BY <1>2, <1>3

\* Every step keeps the links and the pool in order.
LEMMA FollowStep == ChainInv /\ FollowInv /\ [Next]_vars => FollowInv'
<1> SUFFICES ASSUME ChainInv, FollowInv, [Next]_vars PROVE FollowInv'
  OBVIOUS
<1>1. CASE \E b \in Block : AddToBlockIndex(b)
  BY <1>1, AddToBlockIndexFollows
<1>2. CASE \E t \in Tx : SubmitTx(t)
  BY <1>2, SubmitTxFollows
<1>3. CASE Step
  BY <1>3, BeginFollows, ReorganizeDisconnectFollows, ReorganizeConnectFollows, ReturnFollows,
     ReorganizeCommitFollows, PoolStepFollows, SetBestChainInnerFollows, SecondaryFailFollows,
     LoadBlockIndexFollows DEF Step
<1>4. CASE Crash
  BY <1>4, CrashFollows
<1>5. CASE UNCHANGED vars
  BY <1>5 DEF vars, memVars, callVars, FollowInv, IndexedInv, Closed, LinkInv, Links,
     PositionInv, UnconfirmedInv, DeleteSet
<1> QED
  BY <1>1, <1>2, <1>3, <1>4, <1>5 DEF Next

\* Both invariants hold in every reachable state.
THEOREM FollowInvariant == Spec => [](ChainInv /\ FollowInv)
BY InitInv, FollowInit, NextInv, FollowStep, PTL DEF Spec

\* Between calls the best block and the main-chain links in memory are those of the committed
\* chain, after any number of reorganizations, failed calls and restarts (SetBestChain,
\* Reorganize, LoadBlockIndex).
THEOREM MemoryCorrect == Spec => []MemoryFollowsDisk
<1>1. ChainInv /\ FollowInv => MemoryFollowsDisk
  BY DEF ChainInv, BestInv, FollowInv, LinkInv, MemoryFollowsDisk
<1> QED
  BY <1>1, FollowInvariant, PTL

\* Wherever the process stops, LoadBlockIndex finds on disk the whole best chain, the
\* predecessors of every block and hashNext fields that trace the best chain.
THEOREM DiskCorrect == Spec => []DiskIsLoadable
<1>1. ChainInv /\ FollowInv => DiskIsLoadable
  <2>1. SUFFICES ASSUME ChainInv, FollowInv, ~broken PROVE DiskIsLoadable
    BY DEF DiskIsLoadable
  <2>2. \A b \in disk.index : branch[b] \subseteq disk.index
    BY <2>1, IndexedBranch DEF ChainInv, FollowInv
  <2> QED
    BY <2>1, <2>2 DEF FollowInv, IndexedInv, LinkInv, DiskIsLoadable
<1> QED
  BY <1>1, FollowInvariant, PTL

\* Between calls no transaction of the best chain is in the pool: resurrected ones that the
\* new branch has too are refused by their spent inputs, the others leave through vDelete
\* (Reorganize, SetBestChainInner, AcceptToMemoryPool).
THEOREM PoolUnconfirmed == Spec => []PoolIsUnconfirmed
<1>1. ChainInv /\ FollowInv => PoolIsUnconfirmed
  BY DEF ChainInv, BestInv, FollowInv, UnconfirmedInv, PoolIsUnconfirmed
<1> QED
  BY <1>1, FollowInvariant, PTL
=============================================================================
