----------------------------- MODULE KeyPoolProofs -----------------------------
(***************************************************************************)
(* The key pool is sound for every number of users, every -keypool size    *)
(* and any number of keys and restarts: unless the pool ran dry or was     *)
(* replaced while a key was reserved, a key is handed out once, every      *)
(* index of the pool can be read, and no record leaks.                     *)
(***************************************************************************)
EXTENDS KeyPool, FiniteSetTheorems, TLAPS

\* A finite set of indices has a lowest and a highest member (setKeyPool.begin() and the end
\* of the set, from which TopUpKeyPool goes on).
LEMMA Extremes ==
    ASSUME NEW S \in SUBSET Int, IsFiniteSet(S), S # {}
    PROVE  /\ \E x \in S : \A y \in S : x <= y
           /\ \E x \in S : \A y \in S : x >= y
<1> DEFINE Good(U) == /\ \E x \in U : \A y \in U : x <= y
                      /\ \E x \in U : \A y \in U : x >= y
           T == {U \in FiniteSubsetsOf(S) : U # {} /\ ~Good(U)}
<1>1. SUFFICES ASSUME T # {} PROVE FALSE
  BY DEF FiniteSubsetsOf
<1>2. IsWellFoundedOn(StrictSubsetOrdering(S), FiniteSubsetsOf(S))
  BY FS_StrictSubsetOrderingWellFounded
<1>3. T \subseteq FiniteSubsetsOf(S)
  OBVIOUS
<1> HIDE DEF T
<1>4. PICK U \in T : \A V \in T : ~(<<V, U>> \in StrictSubsetOrdering(S))
  BY <1>1, <1>2, <1>3, WFMin
<1>5. U \in SUBSET S /\ IsFiniteSet(U) /\ U # {} /\ ~Good(U)
  BY <1>4 DEF T, FiniteSubsetsOf
<1>6. PICK a \in U : TRUE
  BY <1>5
<1> DEFINE V == U \ {a}
<1>7. V \in SUBSET S /\ IsFiniteSet(V) /\ V \subseteq U /\ V # U
  BY <1>5, <1>6, FS_Subset
<1>8. <<V, U>> \in StrictSubsetOrdering(S)
  BY <1>5, <1>7 DEF StrictSubsetOrdering
<1>9. V = {} \/ Good(V)
  BY <1>4, <1>7, <1>8 DEF T, FiniteSubsetsOf
<1>10. CASE V = {}
  <2>1. U = {a} /\ a \in Int
    BY <1>5, <1>6, <1>10
  <2> QED
    BY <1>5, <2>1
<1>11. CASE Good(V)
  <2>1. PICK x \in V : \A y \in V : x <= y
    BY <1>11
  <2>2. PICK z \in V : \A y \in V : z >= y
    BY <1>11
  <2>3. U = V \cup {a} /\ a \in Int /\ x \in Int /\ z \in Int /\ V \subseteq Int
    BY <1>5, <1>6
  <2>4. \E m \in U : \A y \in U : m <= y
    <3>1. CASE a <= x
      BY <2>1, <2>3, <3>1
    <3>2. CASE x <= a
      BY <2>1, <2>3, <3>2
    <3> QED
      BY <2>3, <3>1, <3>2
  <2>5. \E m \in U : \A y \in U : m >= y
    <3>1. CASE a >= z
      BY <2>2, <2>3, <3>1
    <3>2. CASE z >= a
      BY <2>2, <2>3, <3>2
    <3> QED
      BY <2>3, <3>1, <3>2
  <2> QED
    BY <1>5, <2>4, <2>5
<1> QED
  BY <1>9, <1>10, <1>11

\* So that Min and Max are what their names say.
LEMMA MinMax ==
    ASSUME NEW S \in SUBSET Int, IsFiniteSet(S), S # {}
    PROVE  /\ Min(S) \in S /\ \A y \in S : Min(S) <= y
           /\ Max(S) \in S /\ \A y \in S : Max(S) >= y
BY Extremes DEF Min, Max
-----------------------------------------------------------------------------
\* The types of the pool, its records and the next key to be generated.
PoolTypes(pool, records, next) ==
    /\ pool \subseteq Nat \ {0} /\ IsFiniteSet(pool)
    /\ DOMAIN records \subseteq Nat \ {0} /\ IsFiniteSet(DOMAIN records)
    /\ next \in Nat \ {0}
    /\ \A i \in DOMAIN records : records[i] \in 1..(next - 1)

\* The records are those of the pool and of the reserved indices, each with a key of its own
\* that is neither in use nor from before the encryption; a higher index than every reserved
\* one is in the pool.
PoolSound(pool, records, size) ==
    /\ DOMAIN records = pool \cup Reserved
    /\ pool \cap Reserved = {}
    /\ \A i, j \in DOMAIN records : records[i] = records[j] => i = j
    /\ \A i \in DOMAIN records : records[i] \notin used
    /\ ~interrupted => \A i \in DOMAIN records : records[i] \notin plain
    /\ \A u \in Users : nIndex[u] # -1 => records[nIndex[u]] = vchPubKey[u]
    /\ \A r \in Reserved : \E p \in pool : p > r
    /\ Cardinality(DOMAIN records) <= size + 1 + Cardinality(Users)

UserTypes ==
    /\ nIndex \in [Users -> (Nat \ {0}) \cup {-1}]
    /\ vchPubKey \in [Users -> (1..(nextKey - 1)) \cup {NoKey}]
    /\ \A u \in Users : nIndex[u] = -1 => vchPubKey[u] = NoKey
    /\ used \cup plain \subseteq 1..(nextKey - 1)
    /\ crypted \in BOOLEAN /\ locked \in BOOLEAN /\ (locked => crypted)
    /\ (encrypting # "no" => crypted)
    /\ restarts \in 0..MaxRestarts /\ stranded \in BOOLEAN
    /\ encrypting \in {"no", "erase", "write"} /\ interrupted \in BOOLEAN
    /\ largest \in Nat /\ largest >= TargetSize

\* Two users have reserved different indices.
OneUserPerIndex ==
    \A u, v \in Users : nIndex[u] # -1 /\ nIndex[u] = nIndex[v] => u = v

\* While NewKeyPool erases the records: nothing is reserved, so that what is left is what
\* the pool had, and within the bound.
EraseSound ==
    /\ Reserved = {} /\ DOMAIN disk \subseteq setKeyPool
    /\ \A i, j \in DOMAIN disk : disk[i] = disk[j] => i = j
    /\ \A i \in DOMAIN disk : disk[i] \notin used
    /\ Cardinality(DOMAIN disk) <= largest + 1 + Cardinality(Users)

\* While it writes the new ones: the indices 1, 2, ... of the keys so far.
WriteSound ==
    /\ Reserved = {}
    /\ setKeyPool = 1..Cardinality(setKeyPool) /\ Cardinality(setKeyPool) <= TargetSize

\* The inductive invariant.
KeyPoolInv ==
    /\ PoolTypes(setKeyPool, disk, nextKey)
    /\ UserTypes
    /\ ~stranded =>
         /\ OneUserPerIndex
         /\ encrypting = "erase" => EraseSound
         /\ encrypting # "erase" => PoolSound(setKeyPool, disk, largest)
         /\ encrypting = "write" => WriteSound

\* There are at most as many reserved indices as users.
LEMMA ReservedFinite ==
    ASSUME KeyPoolInv
    PROVE  /\ Reserved \subseteq Nat \ {0} /\ IsFiniteSet(Reserved)
           /\ Cardinality(Reserved) \in Nat /\ Cardinality(Users) \in Nat
           /\ Cardinality(Reserved) <= Cardinality(Users)
<1> DEFINE R == {nIndex[u] : u \in Users}
<1>1. nIndex \in Surjection(Users, R)
  BY DEF KeyPoolInv, UserTypes, Surjection
<1> HIDE DEF R
<1>2. IsFiniteSet(Users) /\ IsFiniteSet(R) /\ Cardinality(R) <= Cardinality(Users)
  BY <1>1, FS_Surjection, Assumptions
<1>3. Reserved \in SUBSET R
  BY DEF Reserved, R
<1>4. IsFiniteSet(Reserved) /\ Cardinality(Reserved) <= Cardinality(R)
  BY <1>2, <1>3, FS_Subset
<1>5. Cardinality(Reserved) \in Nat /\ Cardinality(R) \in Nat /\ Cardinality(Users) \in Nat
  BY <1>2, <1>4, FS_CardinalityType
<1>6. Reserved \subseteq Nat \ {0}
  BY DEF Reserved, KeyPoolInv, UserTypes
<1> QED
  BY <1>2, <1>4, <1>5, <1>6

\* What Added returns: count new indices, each with a key that did not exist before.
LEMMA AddedFacts ==
    ASSUME NEW pool, NEW records, PoolTypes(pool, records, nextKey),
           NEW first \in Nat \ {0}, NEW count \in Nat
    PROVE  LET new == first..(first + count - 1)
               r   == Added(pool, records, first, count)
           IN  /\ r.pool = pool \cup new /\ r.next = nextKey + count
               /\ DOMAIN r.disk = DOMAIN records \cup new
               /\ \A i \in new : r.disk[i] = nextKey + (i - first)
               /\ \A i \in DOMAIN records \ new : r.disk[i] = records[i]
               /\ PoolTypes(r.pool, r.disk, r.next)
               /\ IsFiniteSet(new) /\ Cardinality(new) = count
<1> DEFINE new == first..(first + count - 1)
           r == Added(pool, records, first, count)
<1>1. /\ r.pool = pool \cup new /\ r.next = nextKey + count
      /\ DOMAIN r.disk = DOMAIN records \cup new
      /\ \A i \in new : r.disk[i] = nextKey + (i - first)
      /\ \A i \in DOMAIN records \ new : r.disk[i] = records[i]
  BY DEF Added
<1>2. IsFiniteSet(new) /\ Cardinality(new) = count
  BY FS_Interval
<1>3. new \subseteq Nat \ {0}
  OBVIOUS
<1> HIDE DEF r
<1>4. IsFiniteSet(pool \cup new) /\ IsFiniteSet(DOMAIN records \cup new)
  BY <1>2, FS_Union DEF PoolTypes
<1>5. nextKey \in Nat \ {0} /\ nextKey + count \in Nat \ {0}
  BY DEF PoolTypes
<1>6. ASSUME NEW i \in DOMAIN records \cup new PROVE r.disk[i] \in 1..(nextKey + count - 1)
  <2>1. CASE i \in new
    BY <1>1, <1>5, <2>1
  <2>2. CASE i \in DOMAIN records \ new
    BY <1>1, <1>5, <2>2 DEF PoolTypes
  <2> QED
    BY <2>1, <2>2
<1>7. pool \subseteq Nat \ {0} /\ DOMAIN records \subseteq Nat \ {0}
  BY DEF PoolTypes
<1>8. PoolTypes(r.pool, r.disk, r.next)
  <2>1. r.pool \subseteq Nat \ {0} /\ DOMAIN r.disk \subseteq Nat \ {0}
    BY <1>1, <1>3, <1>7
  <2>2. IsFiniteSet(r.pool) /\ IsFiniteSet(DOMAIN r.disk)
    BY <1>1, <1>4
  <2>3. \A i \in DOMAIN r.disk : r.disk[i] \in 1..(r.next - 1)
    BY <1>1, <1>5, <1>6
  <2>4. r.next \in Nat \ {0}
    BY <1>1, <1>5
  <2> QED
    BY <2>1, <2>2, <2>3, <2>4 DEF PoolTypes
<1> QED
  BY <1>1, <1>2, <1>8 DEF r

\* The largest size asked for once TopUpKeyPool(nSize) has run.
Asked(nSize) == IF nSize > largest THEN nSize ELSE largest

\* TopUpKeyPool: the new indices are above every index of the pool and so above every
\* reserved one, and the records stay within their bound.
LEMMA ToppedUpSound ==
    ASSUME KeyPoolInv, NEW nSize \in Nat, encrypting = "no"
    PROVE  /\ PoolTypes(ToppedUp(nSize).pool, ToppedUp(nSize).disk, ToppedUp(nSize).next)
           /\ ToppedUp(nSize).next >= nextKey
           /\ ~stranded => PoolSound(ToppedUp(nSize).pool, ToppedUp(nSize).disk, Asked(nSize))
<1>0. /\ largest \in Nat /\ TargetSize \in Nat /\ largest >= TargetSize
      /\ Target(nSize) \in Nat /\ Asked(nSize) \in Nat
      /\ Target(nSize) <= Asked(nSize) /\ largest <= Asked(nSize)
      /\ Cardinality(Users) \in Nat
  BY Assumptions, FS_CardinalityType DEF KeyPoolInv, UserTypes, Target, Asked
<1>1. CASE locked
  <2>1. /\ ToppedUp(nSize).pool = setKeyPool /\ ToppedUp(nSize).disk = disk
        /\ ToppedUp(nSize).next = nextKey
    BY <1>1 DEF ToppedUp
  <2>2. PoolTypes(setKeyPool, disk, nextKey) /\ nextKey \in Nat
    BY DEF KeyPoolInv, PoolTypes
  <2>3. ASSUME ~stranded PROVE PoolSound(setKeyPool, disk, Asked(nSize))
    <3>1. PoolSound(setKeyPool, disk, largest)
      BY <2>3 DEF KeyPoolInv
    <3>2. Cardinality(DOMAIN disk) \in Nat
      BY <2>2, FS_CardinalityType DEF PoolTypes
    <3>3. Cardinality(DOMAIN disk) <= Asked(nSize) + 1 + Cardinality(Users)
      BY <1>0, <3>1, <3>2 DEF PoolSound
    <3> QED
      BY <3>1, <3>3 DEF PoolSound
  <2> QED
    BY <2>1, <2>2, <2>3
<1>2. CASE ~locked
  <2> DEFINE first == FirstFree(setKeyPool)
             count == Missing(setKeyPool, nSize)
             new == first..(first + count - 1)
             r == ToppedUp(nSize)
  <2>1. PoolTypes(setKeyPool, disk, nextKey) /\ nextKey \in Nat \ {0}
    BY DEF KeyPoolInv, PoolTypes
  <2>2. setKeyPool \subseteq Nat \ {0} /\ IsFiniteSet(setKeyPool) /\ Cardinality(setKeyPool) \in Nat
    BY <2>1, FS_CardinalityType DEF PoolTypes
  <2>3. count \in Nat /\ Cardinality(setKeyPool) + count
                           \in {Cardinality(setKeyPool), Target(nSize) + 1}
        /\ (count = 0 \/ Cardinality(setKeyPool) + count = Target(nSize) + 1)
    BY <1>0, <2>2 DEF Missing
  <2>4. first \in Nat \ {0} /\ \A p \in setKeyPool : p < first
    <3>1. CASE setKeyPool = {}
      BY <3>1 DEF FirstFree
    <3>2. CASE setKeyPool # {}
      <4>1. Max(setKeyPool) \in setKeyPool /\ \A p \in setKeyPool : Max(setKeyPool) >= p
        BY <2>2, <3>2, MinMax
      <4>2. first = Max(setKeyPool) + 1 /\ Max(setKeyPool) \in Nat \ {0}
        BY <2>2, <3>2, <4>1 DEF FirstFree
      <4> HIDE DEF first
      <4> QED
        BY <2>2, <4>1, <4>2
    <3> QED
      BY <3>1, <3>2
  <2>5. r = Added(setKeyPool, disk, first, count)
    BY <1>2 DEF ToppedUp
  <2>9. new = first..(first + count - 1)
    OBVIOUS
  <2> HIDE DEF first, count, r
  <2>6. /\ r.pool = setKeyPool \cup new /\ r.next = nextKey + count
        /\ DOMAIN r.disk = DOMAIN disk \cup new
        /\ \A i \in new : r.disk[i] = nextKey + (i - first)
        /\ \A i \in DOMAIN disk \ new : r.disk[i] = disk[i]
        /\ PoolTypes(r.pool, r.disk, r.next)
        /\ IsFiniteSet(new) /\ Cardinality(new) = count
    <3>1. PoolTypes(setKeyPool, disk, nextKey) /\ first \in Nat \ {0} /\ count \in Nat
      BY <2>1, <2>3, <2>4
    <3> DEFINE a == Added(setKeyPool, disk, first, count)
    <3>2. /\ a.pool = setKeyPool \cup new /\ a.next = nextKey + count
          /\ DOMAIN a.disk = DOMAIN disk \cup new
          /\ \A i \in new : a.disk[i] = nextKey + (i - first)
          /\ \A i \in DOMAIN disk \ new : a.disk[i] = disk[i]
          /\ PoolTypes(a.pool, a.disk, a.next)
          /\ IsFiniteSet(new) /\ Cardinality(new) = count
      BY <3>1, AddedFacts, Zenon
    <3> HIDE DEF a
    <3> QED
      BY <2>5, <3>2 DEF a
  <2> HIDE DEF new
  <2>7. ASSUME ~stranded PROVE PoolSound(r.pool, r.disk, Asked(nSize))
    <3>1. PoolSound(setKeyPool, disk, largest)
      BY <2>7 DEF KeyPoolInv
    <3>2. Reserved \subseteq Nat \ {0} /\ IsFiniteSet(Reserved)
          /\ Cardinality(Reserved) \in Nat /\ Cardinality(Users) \in Nat
          /\ Cardinality(Reserved) <= Cardinality(Users)
      BY ReservedFinite
    <3>3. \A q \in Reserved : q < first
      <4> SUFFICES ASSUME NEW q \in Reserved PROVE q < first
        OBVIOUS
      <4>1. PICK p \in setKeyPool : p > q
        BY <3>1 DEF PoolSound
      <4> QED
        BY <2>2, <2>4, <3>2, <4>1
    <3>4. new \cap setKeyPool = {} /\ new \cap Reserved = {} /\ new \cap DOMAIN disk = {}
      BY <2>2, <2>3, <2>4, <2>9, <3>1, <3>2, <3>3 DEF PoolSound
    <3>5. DOMAIN r.disk = r.pool \cup Reserved /\ r.pool \cap Reserved = {}
      BY <2>6, <3>1, <3>4 DEF PoolSound
    <3>6. \A i \in DOMAIN disk : r.disk[i] = disk[i] /\ disk[i] \in 1..(nextKey - 1)
      BY <2>1, <2>6, <3>4 DEF PoolTypes
    <3>7. \A i \in new : r.disk[i] \in Nat /\ r.disk[i] >= nextKey
      BY <2>1, <2>3, <2>4, <2>6, <2>9
    <3>8. \A i, j \in DOMAIN r.disk : r.disk[i] = r.disk[j] => i = j
      <4> SUFFICES ASSUME NEW i \in DOMAIN r.disk, NEW j \in DOMAIN r.disk, r.disk[i] = r.disk[j]
                   PROVE  i = j
        OBVIOUS
      <4>1. CASE i \in DOMAIN disk /\ j \in DOMAIN disk
        BY <3>1, <3>6, <4>1 DEF PoolSound
      <4>2. CASE i \in new /\ j \in new
        BY <2>1, <2>3, <2>4, <2>6, <2>9, <4>2
      <4>3. CASE (i \in new /\ j \in DOMAIN disk) \/ (j \in new /\ i \in DOMAIN disk)
        BY <2>1, <3>6, <3>7, <4>3
      <4> QED
        BY <2>6, <4>1, <4>2, <4>3
    <3>9. \A i \in DOMAIN r.disk : r.disk[i] \notin used /\ (~interrupted => r.disk[i] \notin plain)
      <4> SUFFICES ASSUME NEW i \in DOMAIN r.disk
                   PROVE  r.disk[i] \notin used /\ (~interrupted => r.disk[i] \notin plain)
        OBVIOUS
      <4>1. CASE i \in DOMAIN disk
        BY <3>1, <3>6, <4>1 DEF PoolSound
      <4>2. CASE i \in new
        <5>1. used \subseteq 1..(nextKey - 1) /\ plain \subseteq 1..(nextKey - 1)
          BY DEF KeyPoolInv, UserTypes
        <5> QED
          BY <2>1, <3>7, <4>2, <5>1
      <4> QED
        BY <2>6, <4>1, <4>2
    <3>10. \A u \in Users : nIndex[u] # -1 => r.disk[nIndex[u]] = vchPubKey[u]
      BY <3>1, <3>6 DEF PoolSound, Reserved
    <3>11. \A q \in Reserved : \E p \in r.pool : p > q
      BY <2>6, <3>1 DEF PoolSound
    <3>12. Cardinality(DOMAIN r.disk) <= Asked(nSize) + 1 + Cardinality(Users)
      <4>1. CASE count = 0
        <5>1. new = {}
          BY <2>4, <2>9, <4>1
        <5>2. DOMAIN r.disk = DOMAIN disk
          BY <2>6, <5>1
        <5>3. Cardinality(DOMAIN disk) \in Nat
          BY <2>1, FS_CardinalityType DEF PoolTypes
        <5> QED
          BY <1>0, <3>1, <5>2, <5>3 DEF PoolSound
      <4>2. CASE count # 0
        <5>1. IsFiniteSet(r.pool) /\ Cardinality(r.pool) = Cardinality(setKeyPool) + count
          <6>1. Cardinality(setKeyPool \cap new) = 0
            BY <3>4, FS_EmptySet
          <6>2. /\ IsFiniteSet(setKeyPool \cup new)
                /\ Cardinality(setKeyPool \cup new)
                     = Cardinality(setKeyPool) + Cardinality(new) - Cardinality(setKeyPool \cap new)
            BY <2>2, <2>6, FS_Union
          <6> QED
            BY <2>2, <2>3, <2>6, <6>1, <6>2
        <5>2. Cardinality(r.pool) = Target(nSize) + 1
          BY <2>3, <4>2, <5>1
        <5>3. Cardinality(r.pool \cap Reserved) = 0
          BY <3>5, FS_EmptySet
        <5>4. Cardinality(DOMAIN r.disk) = Cardinality(r.pool) + Cardinality(Reserved)
          <6>1. Cardinality(r.pool \cup Reserved)
                  = Cardinality(r.pool) + Cardinality(Reserved) - Cardinality(r.pool \cap Reserved)
            BY <3>2, <5>1, FS_Union
          <6> QED
            BY <1>0, <3>2, <3>5, <5>2, <5>3, <6>1
        <5> QED
          BY <1>0, <3>2, <5>2, <5>4
      <4> QED
        BY <4>1, <4>2
    <3> QED
      BY <3>5, <3>8, <3>9, <3>10, <3>11, <3>12 DEF PoolSound
  <2>8. r.next >= nextKey
    BY <2>1, <2>3, <2>6
  <2> QED
    BY <2>6, <2>7, <2>8 DEF r
<1> QED
  BY <1>1, <1>2

-----------------------------------------------------------------------------
\* An empty wallet.
LEMMA InitInv == Init => KeyPoolInv
<1> SUFFICES ASSUME Init PROVE KeyPoolInv
  OBVIOUS
<1>1. IsFiniteSet({}) /\ Cardinality({}) = 0 /\ Cardinality(Users) \in Nat
  BY FS_EmptySet, FS_CardinalityType, Assumptions
<1>2. DOMAIN disk = {} /\ setKeyPool = {} /\ Reserved = {}
  BY DEF Init, Reserved
<1>3. PoolTypes(setKeyPool, disk, nextKey)
  BY <1>1, <1>2 DEF Init, PoolTypes
<1>4. UserTypes
  <2>1. crypted \in BOOLEAN /\ locked \in BOOLEAN /\ (locked => crypted)
        /\ (encrypting # "no" => crypted) /\ stranded \in BOOLEAN /\ interrupted \in BOOLEAN
    BY Zenon DEF Init
  <2>2. /\ nIndex \in [Users -> (Nat \ {0}) \cup {-1}]
        /\ vchPubKey \in [Users -> (1..(nextKey - 1)) \cup {NoKey}]
        /\ used \cup plain \subseteq 1..(nextKey - 1)
        /\ restarts \in 0..MaxRestarts
        /\ encrypting \in {"no", "erase", "write"} /\ largest \in Nat /\ largest >= TargetSize
    BY Assumptions DEF Init
  <2>3. \A u \in Users : vchPubKey[u] = NoKey
    BY DEF Init
  <2> QED
    BY <2>1, <2>2, <2>3 DEF UserTypes
<1>5. OneUserPerIndex
  BY DEF Init, OneUserPerIndex
<1>6. PoolSound(setKeyPool, disk, largest)
  BY <1>1, <1>2, Assumptions DEF PoolSound, Init
<1>7. encrypting = "no"
  BY DEF Init
<1> QED
  BY <1>3, <1>4, <1>5, <1>6, <1>7 DEF KeyPoolInv

\* TopUpKeyPool.
LEMMA TopUpKeyPoolInv ==
    ASSUME KeyPoolInv, NEW nSize \in NewSizes \cup {0}, TopUpKeyPool(nSize)
    PROVE  KeyPoolInv'
<1>1. /\ setKeyPool' = ToppedUp(nSize).pool /\ disk' = ToppedUp(nSize).disk /\ nextKey' = ToppedUp(nSize).next
      /\ UNCHANGED <<nIndex, vchPubKey, crypted, locked, plain, restarts, used, stranded,
                     encrypting, interrupted>>
      /\ encrypting = "no" /\ largest' = Asked(nSize) /\ nSize \in Nat
  BY Assumptions DEF TopUpKeyPool, userVars, lockVars, Asked
<1>2. /\ PoolTypes(ToppedUp(nSize).pool, ToppedUp(nSize).disk, ToppedUp(nSize).next)
      /\ ToppedUp(nSize).next >= nextKey
      /\ ~stranded => PoolSound(ToppedUp(nSize).pool, ToppedUp(nSize).disk, Asked(nSize))
  BY <1>1, ToppedUpSound
<1>3. PoolTypes(setKeyPool, disk, nextKey)'
  BY <1>1, <1>2 DEF PoolTypes
<1>4. nextKey \in Nat /\ nextKey' \in Nat /\ nextKey' >= nextKey
  BY <1>1, <1>2, <1>3 DEF KeyPoolInv, PoolTypes
<1>5. UserTypes'
  <2>1. largest' \in Nat /\ largest' >= TargetSize
    BY <1>1, Assumptions DEF KeyPoolInv, UserTypes, Asked
  <2> QED
    BY <1>1, <1>4, <2>1 DEF KeyPoolInv, UserTypes
<1>6. ASSUME ~stranded' PROVE OneUserPerIndex' /\ PoolSound(setKeyPool, disk, largest)'
  BY <1>1, <1>2, <1>6 DEF KeyPoolInv, OneUserPerIndex, PoolSound, Reserved
<1> QED
  BY <1>1, <1>3, <1>5, <1>6 DEF KeyPoolInv

\* The top-up of ReserveKeyFromKeyPool, to -keypool, asks for no larger size.
LEMMA TopUpByDefault ==
    ASSUME KeyPoolInv, encrypting = "no"
    PROVE  /\ PoolTypes(ToppedUp(0).pool, ToppedUp(0).disk, ToppedUp(0).next)
           /\ ToppedUp(0).next >= nextKey
           /\ ~stranded => PoolSound(ToppedUp(0).pool, ToppedUp(0).disk, largest)
<1>1. 0 \in Nat /\ Asked(0) = largest
  BY DEF Asked, KeyPoolInv, UserTypes
<1> QED
  BY <1>1, ToppedUpSound

\* The lowest index of the topped-up pool leaves it (ReserveKeyFromKeyPool): it was nobody's,
\* and when an index is left, a higher one than every reserved index is left.
LEMMA LowestIndex ==
    ASSUME KeyPoolInv, encrypting = "no", ToppedUp(0).pool # {}
    PROVE  /\ Min(ToppedUp(0).pool) \in ToppedUp(0).pool /\ Min(ToppedUp(0).pool) \in Nat \ {0}
           /\ \A p \in ToppedUp(0).pool \ {Min(ToppedUp(0).pool)} : p \in Nat /\ p > Min(ToppedUp(0).pool)
           /\ IsFiniteSet(ToppedUp(0).pool \ {Min(ToppedUp(0).pool)})
<1> DEFINE S == ToppedUp(0).pool
<1>1. S \subseteq Nat \ {0} /\ IsFiniteSet(S) /\ S # {}
  BY TopUpByDefault DEF PoolTypes
<1> HIDE DEF S
<1>2. S \in SUBSET Int
  BY <1>1
<1>3. Min(S) \in S /\ \A y \in S : Min(S) <= y
  BY <1>1, <1>2, MinMax
<1>4. \A p \in S \ {Min(S)} : p \in Nat /\ p > Min(S)
  <2> DEFINE m == Min(S)
  <2>1. m \in S /\ \A y \in S : m <= y
    BY <1>3
  <2> HIDE DEF m
  <2>2. \A p \in S \ {m} : p \in Nat /\ p > m
    BY <1>1, <2>1
  <2> QED
    BY <2>2 DEF m
<1>5. IsFiniteSet(S \ {Min(S)})
  BY <1>1, FS_Subset
<1> QED
  BY <1>1, <1>3, <1>4, <1>5 DEF S

\* ReserveKeyFromKeyPool: the index moves from the pool to the user, its record stays.
LEMMA ReserveKeyInv ==
    ASSUME KeyPoolInv, NEW u \in Users, ReserveKey(u)
    PROVE  KeyPoolInv'
<1> DEFINE P == ToppedUp(0).pool
           D == ToppedUp(0).disk
           i == Min(P)
<1>1. /\ nIndex[u] = -1 /\ P # {}
      /\ setKeyPool' = P \ {i} /\ disk' = D /\ nextKey' = ToppedUp(0).next
      /\ nIndex' = [nIndex EXCEPT ![u] = i]
      /\ vchPubKey' = [vchPubKey EXCEPT ![u] = IF i \in DOMAIN D THEN D[i] ELSE NoKey]
      /\ stranded' = (stranded \/ setKeyPool' = {})
      /\ encrypting = "no"
      /\ UNCHANGED <<crypted, locked, plain, restarts, used, encrypting, interrupted, largest>>
  BY DEF ReserveKey, lockVars
<1>2. /\ PoolTypes(P, D, ToppedUp(0).next)
      /\ ToppedUp(0).next >= nextKey
      /\ ~stranded => PoolSound(P, D, largest)
  BY <1>1, TopUpByDefault
<1>3. /\ i \in P /\ i \in Nat \ {0}
      /\ \A p \in P \ {i} : p \in Nat /\ p > i
      /\ IsFiniteSet(P \ {i})
  BY <1>1, LowestIndex
<1> HIDE DEF P, D, i
<1>4. PoolTypes(setKeyPool, disk, nextKey)'
  BY <1>1, <1>2, <1>3 DEF PoolTypes
<1>5. nextKey \in Nat /\ nextKey' \in Nat /\ nextKey' >= nextKey
  BY <1>1, <1>2 DEF KeyPoolInv, PoolTypes
<1>6. UserTypes'
  <2>1. IF i \in DOMAIN D THEN D[i] \in 1..(nextKey' - 1) ELSE TRUE
    BY <1>1, <1>2 DEF PoolTypes
  <2>2. vchPubKey \in [Users -> (1..(nextKey' - 1)) \cup {NoKey}]
    BY <1>5 DEF KeyPoolInv, UserTypes
  <2>3. vchPubKey' \in [Users -> (1..(nextKey' - 1)) \cup {NoKey}]
    BY <1>1, <2>1, <2>2
  <2>4. used' \cup plain' \subseteq 1..(nextKey' - 1)
    BY <1>1, <1>5 DEF KeyPoolInv, UserTypes
  <2>5. nIndex' \in [Users -> (Nat \ {0}) \cup {-1}]
    BY <1>1, <1>3 DEF KeyPoolInv, UserTypes
  <2>6. \A v \in Users : nIndex'[v] = -1 => vchPubKey'[v] = NoKey
    BY <1>1, <1>3 DEF KeyPoolInv, UserTypes
  <2>7. restarts' \in 0..MaxRestarts /\ crypted' \in BOOLEAN /\ locked' \in BOOLEAN
        /\ (locked' => crypted') /\ (encrypting' # "no" => crypted') /\ interrupted' \in BOOLEAN
        /\ encrypting' \in {"no", "erase", "write"} /\ largest' \in Nat /\ largest' >= TargetSize
    BY <1>1, Zenon DEF KeyPoolInv, UserTypes
  <2>8. stranded' \in BOOLEAN
    BY <1>1, Zenon DEF KeyPoolInv, UserTypes
  <2> QED
    BY <2>3, <2>4, <2>5, <2>6, <2>7, <2>8 DEF UserTypes
<1>7. ASSUME ~stranded' PROVE OneUserPerIndex' /\ PoolSound(setKeyPool, disk, largest)'
  <2>1. ~stranded /\ setKeyPool' # {}
    BY <1>1, <1>7
  <2>2. PoolSound(P, D, largest) /\ OneUserPerIndex
    BY <1>2, <2>1 DEF KeyPoolInv
  <2>3. nIndex \in [Users -> (Nat \ {0}) \cup {-1}] /\ vchPubKey \in [Users -> (1..(nextKey - 1)) \cup {NoKey}]
    BY DEF KeyPoolInv, UserTypes
  <2>4. i \notin Reserved /\ i \in DOMAIN D
    BY <1>3, <2>2 DEF PoolSound
  <2>5. Reserved' = Reserved \cup {i}
    BY <1>1, <1>3, <2>3 DEF Reserved
  <2>6. OneUserPerIndex'
    BY <1>1, <2>2, <2>3, <2>4 DEF OneUserPerIndex, Reserved
  <2>7. DOMAIN disk' = setKeyPool' \cup Reserved' /\ setKeyPool' \cap Reserved' = {}
    BY <1>1, <1>3, <2>2, <2>4, <2>5 DEF PoolSound
  <2>8. \A v \in Users : nIndex'[v] # -1 => disk'[nIndex'[v]] = vchPubKey'[v]
    BY <1>1, <2>2, <2>3, <2>4 DEF PoolSound
  <2>9. \A q \in Reserved' : \E p \in setKeyPool' : p > q
    <3> SUFFICES ASSUME NEW q \in Reserved' PROVE \E p \in setKeyPool' : p > q
      OBVIOUS
    <3>1. PICK k \in setKeyPool' : k \in Nat /\ k > i
      BY <1>1, <1>3, <2>1
    <3>2. CASE q = i
      BY <3>1, <3>2
    <3>3. CASE q \in Reserved
      <4>1. PICK p \in P : p > q
        BY <2>2, <3>3 DEF PoolSound
      <4>2. q \in Nat
        BY <3>3, ReservedFinite
      <4>3. CASE p = i
        BY <1>3, <3>1, <4>1, <4>2, <4>3
      <4>4. CASE p # i
        BY <1>1, <4>1, <4>4
      <4> QED
        BY <4>3, <4>4
    <3> QED
      BY <2>5, <3>2, <3>3
  <2> QED
    BY <1>1, <2>2, <2>6, <2>7, <2>8, <2>9 DEF PoolSound
<1> QED
  BY <1>1, <1>4, <1>6, <1>7 DEF KeyPoolInv

\* KeepKey erases the record with the index: the key is used and nowhere else.
LEMMA KeepKeyInv ==
    ASSUME KeyPoolInv, NEW u \in Users, KeepKey(u)
    PROVE  KeyPoolInv'
<1>1. /\ nIndex[u] # -1 /\ vchPubKey[u] # NoKey
      /\ DOMAIN disk' = DOMAIN disk \ {nIndex[u]}
      /\ \A i \in DOMAIN disk' : disk'[i] = disk[i]
      /\ used' = used \cup {vchPubKey[u]}
      /\ nIndex' = [nIndex EXCEPT ![u] = -1]
      /\ vchPubKey' = [vchPubKey EXCEPT ![u] = NoKey]
      /\ UNCHANGED <<setKeyPool, nextKey, crypted, locked, plain, restarts, stranded,
                     encrypting, interrupted, largest>>
  BY DEF KeepKey, WithoutRecord, Restrict, Cleared, lockVars
<1>2. nIndex \in [Users -> (Nat \ {0}) \cup {-1}]
      /\ vchPubKey \in [Users -> (1..(nextKey - 1)) \cup {NoKey}]
  BY DEF KeyPoolInv, UserTypes
<1>3. IsFiniteSet(DOMAIN disk')
  BY <1>1, FS_Subset DEF KeyPoolInv, PoolTypes
<1>4. PoolTypes(setKeyPool, disk, nextKey)'
  BY <1>1, <1>3 DEF KeyPoolInv, PoolTypes
<1>5. UserTypes'
  BY <1>1, <1>2 DEF KeyPoolInv, UserTypes
<1>6. ASSUME ~stranded'
      PROVE  OneUserPerIndex' /\ PoolSound(setKeyPool, disk, largest)' /\ encrypting = "no"
  <2>0. encrypting = "no"
    <3>1. nIndex[u] \in Reserved
      BY <1>1 DEF Reserved
    <3> QED
      BY <1>1, <1>6, <3>1 DEF KeyPoolInv, UserTypes, EraseSound, WriteSound
  <2>1. OneUserPerIndex /\ PoolSound(setKeyPool, disk, largest)
    BY <1>1, <1>6, <2>0 DEF KeyPoolInv
  <2>2. OneUserPerIndex'
    BY <1>1, <1>2, <2>1 DEF OneUserPerIndex
  <2>3. Reserved' = Reserved \ {nIndex[u]} /\ nIndex[u] \in Reserved
    BY <1>1, <1>2, <2>1 DEF OneUserPerIndex, Reserved
  <2>4. /\ DOMAIN disk' = setKeyPool' \cup Reserved'
        /\ setKeyPool' \cap Reserved' = {}
    BY <1>1, <2>1, <2>3 DEF PoolSound
  <2>5. \A i, j \in DOMAIN disk' : disk'[i] = disk'[j] => i = j
    BY <1>1, <2>1 DEF PoolSound
  <2>6. disk[nIndex[u]] = vchPubKey[u] /\ nIndex[u] \in DOMAIN disk
    BY <1>1, <2>1, <2>3 DEF PoolSound
  <2>7. \A i \in DOMAIN disk' : disk'[i] \notin used' /\ (~interrupted' => disk'[i] \notin plain')
    BY <1>1, <2>1, <2>6 DEF PoolSound
  <2>8. \A v \in Users : nIndex'[v] # -1 => disk'[nIndex'[v]] = vchPubKey'[v]
    <3> SUFFICES ASSUME NEW v \in Users, nIndex'[v] # -1 PROVE disk'[nIndex'[v]] = vchPubKey'[v]
      OBVIOUS
    <3>1. v # u /\ nIndex'[v] = nIndex[v] /\ vchPubKey'[v] = vchPubKey[v] /\ nIndex[v] # nIndex[u]
      BY <1>1, <1>2, <2>1 DEF OneUserPerIndex
    <3>2. nIndex[v] \in DOMAIN disk'
      BY <1>1, <2>1, <3>1 DEF PoolSound, Reserved
    <3> QED
      BY <1>1, <2>1, <3>1, <3>2 DEF PoolSound
  <2>9. \A r \in Reserved' : \E p \in setKeyPool' : p > r
    BY <1>1, <2>1, <2>3 DEF PoolSound
  <2>10. Cardinality(DOMAIN disk') <= largest' + 1 + Cardinality(Users)
    <3>1. IsFiniteSet(DOMAIN disk) /\ DOMAIN disk' \in SUBSET DOMAIN disk
      BY <1>1 DEF KeyPoolInv, PoolTypes
    <3>2. Cardinality(DOMAIN disk') <= Cardinality(DOMAIN disk)
      BY <3>1, FS_Subset
    <3>3. Cardinality(DOMAIN disk') \in Nat /\ Cardinality(DOMAIN disk) \in Nat
          /\ Cardinality(Users) \in Nat
      BY <1>3, <3>1, FS_CardinalityType, Assumptions
    <3>4. Cardinality(DOMAIN disk) <= largest + 1 + Cardinality(Users)
      BY <2>1 DEF PoolSound
    <3> QED
      BY <1>1, <1>5, <3>2, <3>3, <3>4 DEF UserTypes
  <2> QED
    BY <2>0, <2>2, <2>4, <2>5, <2>7, <2>8, <2>9, <2>10 DEF PoolSound
<1> QED
  BY <1>1, <1>4, <1>5, <1>6 DEF KeyPoolInv

\* ReturnKey: the index is in the pool again, its record never left.
LEMMA ReturnKeyInv ==
    ASSUME KeyPoolInv, NEW u \in Users, ReturnKey(u)
    PROVE  KeyPoolInv'
<1>1. /\ nIndex[u] # -1 /\ setKeyPool' = setKeyPool \cup {nIndex[u]}
      /\ nIndex' = [nIndex EXCEPT ![u] = -1]
      /\ vchPubKey' = [vchPubKey EXCEPT ![u] = NoKey]
      /\ UNCHANGED <<disk, nextKey, crypted, locked, plain, restarts, used, stranded,
                     encrypting, interrupted, largest>>
      /\ encrypting = "no"
  BY DEF ReturnKey, Cleared, lockVars
<1>2. nIndex \in [Users -> (Nat \ {0}) \cup {-1}]
      /\ vchPubKey \in [Users -> (1..(nextKey - 1)) \cup {NoKey}]
  BY DEF KeyPoolInv, UserTypes
<1>3. IsFiniteSet(setKeyPool')
  BY <1>1, FS_AddElement DEF KeyPoolInv, PoolTypes
<1>4. PoolTypes(setKeyPool, disk, nextKey)'
  BY <1>1, <1>2, <1>3 DEF KeyPoolInv, PoolTypes
<1>5. UserTypes'
  BY <1>1, <1>2 DEF KeyPoolInv, UserTypes
<1>6. ASSUME ~stranded' PROVE OneUserPerIndex' /\ PoolSound(setKeyPool, disk, largest)'
  <2>1. OneUserPerIndex /\ PoolSound(setKeyPool, disk, largest)
    BY <1>1, <1>6 DEF KeyPoolInv
  <2>2. OneUserPerIndex'
    BY <1>1, <1>2, <2>1 DEF OneUserPerIndex
  <2>3. Reserved' = Reserved \ {nIndex[u]} /\ nIndex[u] \in Reserved
    BY <1>1, <1>2, <2>1 DEF OneUserPerIndex, Reserved
  <2>4. /\ DOMAIN disk' = setKeyPool' \cup Reserved'
        /\ setKeyPool' \cap Reserved' = {}
    BY <1>1, <2>1, <2>3 DEF PoolSound
  <2>5. \A v \in Users : nIndex'[v] # -1 => disk'[nIndex'[v]] = vchPubKey'[v]
    BY <1>1, <1>2, <2>1 DEF PoolSound
  <2>6. \A r \in Reserved' : \E p \in setKeyPool' : p > r
    BY <1>1, <2>1, <2>3 DEF PoolSound
  <2> QED
    BY <1>1, <2>1, <2>2, <2>4, <2>5, <2>6 DEF PoolSound
<1> QED
  BY <1>1, <1>4, <1>5, <1>6 DEF KeyPoolInv

\* GetKeyFromPool: the lowest index and its record go together.
LEMMA GetKeyFromPoolInv ==
    ASSUME KeyPoolInv, GetKeyFromPool
    PROVE  KeyPoolInv'
<1> DEFINE P == ToppedUp(0).pool
           D == ToppedUp(0).disk
           i == Min(P)
<1>1. /\ P # {} /\ setKeyPool' = P \ {i} /\ nextKey' = ToppedUp(0).next
      /\ DOMAIN disk' = DOMAIN D \ {i} /\ \A j \in DOMAIN disk' : disk'[j] = D[j]
      /\ used' = IF i \in DOMAIN D THEN used \cup {D[i]} ELSE used
      /\ stranded' = (stranded \/ (setKeyPool' = {} /\ Reserved # {}))
      /\ UNCHANGED <<nIndex, vchPubKey, crypted, locked, plain, restarts,
                     encrypting, interrupted, largest>>
      /\ encrypting = "no"
  BY DEF GetKeyFromPool, WithoutRecord, Restrict, userVars, lockVars
<1>2. /\ PoolTypes(P, D, ToppedUp(0).next)
      /\ ToppedUp(0).next >= nextKey
      /\ ~stranded => PoolSound(P, D, largest)
  BY <1>1, TopUpByDefault
<1>3. /\ i \in P /\ i \in Nat \ {0}
      /\ \A p \in P \ {i} : p \in Nat /\ p > i
      /\ IsFiniteSet(P \ {i})
  BY <1>1, LowestIndex
<1> HIDE DEF P, D, i
<1>4. IsFiniteSet(DOMAIN disk')
  BY <1>1, <1>2, FS_Subset DEF PoolTypes
<1>5. PoolTypes(setKeyPool, disk, nextKey)'
  BY <1>1, <1>2, <1>3, <1>4 DEF PoolTypes
<1>6. nextKey \in Nat /\ nextKey' \in Nat /\ nextKey' >= nextKey
  BY <1>1, <1>2 DEF KeyPoolInv, PoolTypes
<1>7. UserTypes'
  <2>1. vchPubKey' \in [Users -> (1..(nextKey' - 1)) \cup {NoKey}]
    BY <1>1, <1>6 DEF KeyPoolInv, UserTypes
  <2>2. used' \cup plain' \subseteq 1..(nextKey' - 1)
    <3>1. used \cup plain \subseteq 1..(nextKey' - 1)
      BY <1>6 DEF KeyPoolInv, UserTypes
    <3>2. i \in DOMAIN D => D[i] \in 1..(nextKey' - 1)
      BY <1>1, <1>2 DEF PoolTypes
    <3> QED
      BY <1>1, <3>1, <3>2
  <2>3. restarts' \in 0..MaxRestarts /\ crypted' \in BOOLEAN /\ locked' \in BOOLEAN
        /\ (locked' => crypted') /\ (encrypting' # "no" => crypted') /\ stranded' \in BOOLEAN /\ interrupted' \in BOOLEAN
        /\ encrypting' \in {"no", "erase", "write"} /\ largest' \in Nat /\ largest' >= TargetSize
    BY <1>1, Zenon DEF KeyPoolInv, UserTypes
  <2>4. nIndex' \in [Users -> (Nat \ {0}) \cup {-1}]
        /\ \A u \in Users : nIndex'[u] = -1 => vchPubKey'[u] = NoKey
    BY <1>1 DEF KeyPoolInv, UserTypes
  <2> QED
    BY <2>1, <2>2, <2>3, <2>4 DEF UserTypes
<1>8. ASSUME ~stranded' PROVE OneUserPerIndex' /\ PoolSound(setKeyPool, disk, largest)'
  <2>1. ~stranded /\ (setKeyPool' # {} \/ Reserved = {})
    BY <1>1, <1>8
  <2>2. PoolSound(P, D, largest) /\ OneUserPerIndex
    BY <1>2, <2>1 DEF KeyPoolInv
  <2>3. OneUserPerIndex' /\ Reserved' = Reserved
    BY <1>1, <2>2 DEF OneUserPerIndex, Reserved
  <2>4. i \notin Reserved /\ i \in DOMAIN D
    BY <1>3, <2>2 DEF PoolSound
  <2>5. DOMAIN disk' = setKeyPool' \cup Reserved' /\ setKeyPool' \cap Reserved' = {}
    BY <1>1, <2>2, <2>3, <2>4 DEF PoolSound
  <2>6. \A j \in DOMAIN disk' : disk'[j] \notin used' /\ (~interrupted' => disk'[j] \notin plain')
    BY <1>1, <2>2, <2>4 DEF PoolSound
  <2>7. \A v \in Users : nIndex'[v] # -1 => disk'[nIndex'[v]] = vchPubKey'[v]
    <3> SUFFICES ASSUME NEW v \in Users, nIndex[v] # -1 PROVE disk'[nIndex[v]] = vchPubKey[v]
      BY <1>1
    <3>1. nIndex[v] \in Reserved /\ D[nIndex[v]] = vchPubKey[v]
      BY <2>2 DEF PoolSound, Reserved
    <3>2. nIndex[v] \in DOMAIN disk'
      BY <2>3, <2>5, <3>1
    <3> QED
      BY <1>1, <3>1, <3>2
  <2>8. \A q \in Reserved' : \E p \in setKeyPool' : p > q
    <3> SUFFICES ASSUME NEW q \in Reserved PROVE \E p \in setKeyPool' : p > q
      BY <2>3
    <3>1. PICK k \in setKeyPool' : k \in Nat /\ k > i
      BY <1>1, <1>3, <2>1
    <3>2. PICK p \in P : p > q
      BY <2>2 DEF PoolSound
    <3>3. q \in Nat
      BY ReservedFinite
    <3>4. CASE p = i
      BY <1>3, <3>1, <3>2, <3>3, <3>4
    <3>5. CASE p # i
      BY <1>1, <3>2, <3>5
    <3> QED
      BY <3>4, <3>5
  <2>9. Cardinality(DOMAIN disk') <= largest' + 1 + Cardinality(Users)
    <3>1. IsFiniteSet(DOMAIN D) /\ DOMAIN disk' \in SUBSET DOMAIN D
      BY <1>1, <1>2 DEF PoolTypes
    <3>2. Cardinality(DOMAIN disk') <= Cardinality(DOMAIN D)
      BY <3>1, FS_Subset
    <3>3. Cardinality(DOMAIN disk') \in Nat /\ Cardinality(DOMAIN D) \in Nat
          /\ Cardinality(Users) \in Nat
      BY <1>4, <3>1, FS_CardinalityType, Assumptions
    <3>4. Cardinality(DOMAIN D) <= largest + 1 + Cardinality(Users)
      BY <2>2 DEF PoolSound
    <3> QED
      BY <1>1, <1>7, <3>2, <3>3, <3>4 DEF UserTypes
  <2> QED
    BY <1>1, <2>2, <2>3, <2>5, <2>6, <2>7, <2>8, <2>9 DEF PoolSound
<1> QED
  BY <1>1, <1>5, <1>7, <1>8 DEF KeyPoolInv

\* EncryptWallet commits: the pool is as it was, to be erased, and nothing is reserved.
LEMMA EncryptWalletInv ==
    ASSUME KeyPoolInv, EncryptWallet
    PROVE  KeyPoolInv'
<1>1. /\ crypted' = TRUE /\ encrypting' = "erase" /\ plain' = 1..(nextKey - 1)
      /\ stranded' = (stranded \/ Reserved # {}) /\ ~crypted
      /\ UNCHANGED <<setKeyPool, disk, nextKey, nIndex, vchPubKey, locked, interrupted,
                     restarts, used, largest>>
  BY DEF EncryptWallet, poolVars, userVars
<1>2. PoolTypes(setKeyPool, disk, nextKey)'
  BY <1>1 DEF KeyPoolInv, PoolTypes
<1>3. UserTypes'
  <2>1. crypted' \in BOOLEAN /\ locked' \in BOOLEAN /\ (locked' => crypted') /\ (encrypting' # "no" => crypted') /\ stranded' \in BOOLEAN
        /\ interrupted' \in BOOLEAN
    BY <1>1, Zenon DEF KeyPoolInv, UserTypes
  <2> QED
    BY <1>1, <2>1 DEF KeyPoolInv, UserTypes
<1>4. ASSUME ~stranded' PROVE OneUserPerIndex' /\ EraseSound'
  <2>1. ~stranded /\ Reserved = {} /\ Reserved' = Reserved
    BY <1>1, <1>4 DEF Reserved
  <2>2. OneUserPerIndex'
    BY <1>1, <2>1 DEF KeyPoolInv, OneUserPerIndex
  <2>3. PoolSound(setKeyPool, disk, largest) \/ EraseSound
    BY <2>1 DEF KeyPoolInv
  <2>4. EraseSound'
    BY <1>1, <2>1, <2>3 DEF PoolSound, EraseSound
  <2> QED
    BY <2>2, <2>4
<1> QED
  BY <1>1, <1>2, <1>3, <1>4 DEF KeyPoolInv

\* One old record less.
LEMMA ErasePoolInv ==
    ASSUME KeyPoolInv, ErasePool
    PROVE  KeyPoolInv'
<1>1. /\ encrypting = "erase"
      /\ DOMAIN disk' \subseteq DOMAIN disk /\ \A i \in DOMAIN disk' : disk'[i] = disk[i]
      /\ UNCHANGED <<setKeyPool, nextKey, nIndex, vchPubKey, crypted, locked, encrypting, plain,
                     interrupted, restarts, used, stranded, largest>>
  BY DEF ErasePool, WithoutRecord, Restrict, userVars, lockVars
<1>2. IsFiniteSet(DOMAIN disk) /\ IsFiniteSet(DOMAIN disk')
      /\ Cardinality(DOMAIN disk') <= Cardinality(DOMAIN disk)
  BY <1>1, FS_Subset DEF KeyPoolInv, PoolTypes
<1>3. PoolTypes(setKeyPool, disk, nextKey)'
  BY <1>1, <1>2 DEF KeyPoolInv, PoolTypes
<1>4. UserTypes'
  BY <1>1 DEF KeyPoolInv, UserTypes
<1>5. ASSUME ~stranded' PROVE OneUserPerIndex' /\ EraseSound'
  <2>1. OneUserPerIndex /\ EraseSound
    BY <1>1, <1>5 DEF KeyPoolInv
  <2>2. OneUserPerIndex' /\ Reserved' = {}
    BY <1>1, <2>1 DEF OneUserPerIndex, EraseSound, Reserved
  <2>3. Cardinality(DOMAIN disk) \in Nat /\ Cardinality(DOMAIN disk') \in Nat
        /\ Cardinality(Users) \in Nat /\ largest \in Nat
    BY <1>2, FS_CardinalityType, Assumptions DEF KeyPoolInv, UserTypes
  <2>4. Cardinality(DOMAIN disk') <= largest' + 1 + Cardinality(Users)
    BY <1>1, <1>2, <2>1, <2>3 DEF EraseSound
  <2> QED
    BY <1>1, <2>1, <2>2, <2>4 DEF EraseSound
<1> QED
  BY <1>1, <1>3, <1>4, <1>5 DEF KeyPoolInv

\* All old records are gone: the file is empty.
LEMMA ClearPoolInv ==
    ASSUME KeyPoolInv, ClearPool
    PROVE  KeyPoolInv'
<1>1. /\ encrypting = "erase" /\ setKeyPool \cap DOMAIN disk = {}
      /\ setKeyPool' = {} /\ encrypting' = "write"
      /\ UNCHANGED <<disk, nextKey, nIndex, vchPubKey, crypted, locked, plain,
                     interrupted, restarts, used, stranded, largest>>
  BY DEF ClearPool, ToErase, userVars
<1>2. IsFiniteSet({}) /\ Cardinality({}) = 0 /\ 1..0 = {}
  BY FS_EmptySet
<1>3. PoolTypes(setKeyPool, disk, nextKey)'
  BY <1>1, <1>2 DEF KeyPoolInv, PoolTypes
<1>4. UserTypes'
  BY <1>1 DEF KeyPoolInv, UserTypes
<1>5. ASSUME ~stranded'
      PROVE  OneUserPerIndex' /\ PoolSound(setKeyPool, disk, largest)' /\ WriteSound'
  <2>1. OneUserPerIndex /\ EraseSound
    BY <1>1, <1>5 DEF KeyPoolInv
  <2>2. OneUserPerIndex' /\ Reserved' = {} /\ Reserved = {}
    BY <1>1, <2>1 DEF OneUserPerIndex, EraseSound, Reserved
  <2>3. DOMAIN disk' = {} /\ DOMAIN disk = {}
    BY <1>1, <2>1 DEF EraseSound
  <2>4. \A u \in Users : nIndex'[u] = -1
    BY <2>2 DEF Reserved
  <2>5. PoolSound(setKeyPool, disk, largest)'
    BY <1>1, <2>1, <2>2, <2>3, <2>4 DEF EraseSound, PoolSound
  <2>6. WriteSound'
    BY <1>1, <1>2, <2>2, Assumptions DEF WriteSound
  <2> QED
    BY <2>2, <2>5, <2>6
<1> QED
  BY <1>1, <1>3, <1>4, <1>5 DEF KeyPoolInv

\* One new key under the next index.
LEMMA WritePoolInv ==
    ASSUME KeyPoolInv, WritePool
    PROVE  KeyPoolInv'
<1> DEFINE n == Cardinality(setKeyPool)
           first == n + 1
           one == 1
           r == Added(setKeyPool, disk, first, one)
           new == first..(first + one - 1)
<1>1. /\ encrypting = "write" /\ n < TargetSize
      /\ setKeyPool' = r.pool /\ disk' = r.disk /\ nextKey' = r.next
      /\ UNCHANGED <<nIndex, vchPubKey, crypted, locked, encrypting, plain,
                     interrupted, restarts, used, stranded, largest>>
  BY DEF WritePool, userVars, lockVars
<1>2. PoolTypes(setKeyPool, disk, nextKey) /\ nextKey \in Nat \ {0}
  BY DEF KeyPoolInv, PoolTypes
<1>3. n \in Nat
  BY <1>2, FS_CardinalityType DEF PoolTypes
<1> HIDE DEF n
<1>4. first \in Nat \ {0} /\ one \in Nat /\ new = {n + 1}
  BY <1>3
<1>15. first = n + 1 /\ one = 1
  OBVIOUS
<1> HIDE DEF first, one
<1>5. /\ r.pool = setKeyPool \cup new /\ r.next = nextKey + one
      /\ DOMAIN r.disk = DOMAIN disk \cup new
      /\ \A i \in new : r.disk[i] = nextKey + (i - first)
      /\ \A i \in DOMAIN disk \ new : r.disk[i] = disk[i]
      /\ PoolTypes(r.pool, r.disk, r.next)
      /\ IsFiniteSet(new) /\ Cardinality(new) = one
  BY <1>2, <1>4, AddedFacts, Zenon
<1> HIDE DEF r, new
<1>6. /\ setKeyPool' = setKeyPool \cup {n + 1} /\ nextKey' = nextKey + 1
      /\ DOMAIN disk' = DOMAIN disk \cup {n + 1} /\ disk'[n + 1] = nextKey
      /\ \A i \in DOMAIN disk \ {n + 1} : disk'[i] = disk[i]
  BY <1>1, <1>2, <1>3, <1>4, <1>5, <1>15
<1>7. PoolTypes(setKeyPool, disk, nextKey)'
  BY <1>1, <1>5 DEF PoolTypes
<1>8. UserTypes'
  <2>1. vchPubKey' \in [Users -> (1..(nextKey' - 1)) \cup {NoKey}]
    BY <1>1, <1>2, <1>6 DEF KeyPoolInv, UserTypes
  <2>2. used' \cup plain' \subseteq 1..(nextKey' - 1)
    BY <1>1, <1>2, <1>6 DEF KeyPoolInv, UserTypes
  <2> QED
    BY <1>1, <2>1, <2>2 DEF KeyPoolInv, UserTypes
<1>9. ASSUME ~stranded'
      PROVE  OneUserPerIndex' /\ PoolSound(setKeyPool, disk, largest)' /\ WriteSound'
  <2>1. OneUserPerIndex /\ PoolSound(setKeyPool, disk, largest) /\ WriteSound
    BY <1>1, <1>9 DEF KeyPoolInv
  <2>2. OneUserPerIndex' /\ Reserved' = {} /\ Reserved = {}
    BY <1>1, <2>1 DEF OneUserPerIndex, WriteSound, Reserved
  <2>3. setKeyPool = 1..n /\ DOMAIN disk = 1..n
    BY <2>1, <2>2 DEF WriteSound, PoolSound, n
  <2>4. setKeyPool' = 1..(n + 1) /\ DOMAIN disk' = 1..(n + 1)
    BY <1>3, <1>6, <2>3
  <2>5. \A i \in 1..n : disk'[i] = disk[i] /\ disk[i] \in 1..(nextKey - 1)
    BY <1>2, <1>3, <1>6, <2>3 DEF PoolTypes
  <2>6. \A i, j \in DOMAIN disk' : disk'[i] = disk'[j] => i = j
    <3> SUFFICES ASSUME NEW i \in 1..(n + 1), NEW j \in 1..(n + 1), disk'[i] = disk'[j]
                 PROVE  i = j
      BY <2>4
    <3>1. CASE i \in 1..n /\ j \in 1..n
      BY <2>1, <2>3, <2>5, <3>1 DEF PoolSound
    <3>2. CASE i = n + 1 \/ j = n + 1
      BY <1>2, <1>3, <1>6, <2>5, <3>2
    <3> QED
      BY <1>3, <3>1, <3>2
  <2>7. \A i \in DOMAIN disk' : disk'[i] \notin used' /\ (~interrupted' => disk'[i] \notin plain')
    <3> SUFFICES ASSUME NEW i \in 1..(n + 1)
                 PROVE  disk'[i] \notin used /\ (~interrupted => disk'[i] \notin plain)
      BY <1>1, <2>4
    <3>1. CASE i \in 1..n
      BY <2>1, <2>3, <2>5, <3>1 DEF PoolSound
    <3>2. CASE i = n + 1
      BY <1>2, <1>6, <3>2 DEF KeyPoolInv, UserTypes
    <3> QED
      BY <1>3, <3>1, <3>2
  <2>8. \A u \in Users : nIndex'[u] = -1
    BY <2>2 DEF Reserved
  <2>9. Cardinality(setKeyPool') = n + 1 /\ Cardinality(DOMAIN disk') = n + 1
    <3>1. n + 1 \in Nat /\ Cardinality(1..(n + 1)) = n + 1
      <4> DEFINE m == n + 1
      <4>1. m \in Nat
        BY <1>3
      <4> HIDE DEF m
      <4>2. Cardinality(1..m) = m
        <5>1. 1 \in Int /\ m \in Int
          BY <4>1
        <5>2. Cardinality(1..m) = IF 1 > m THEN 0 ELSE m - 1 + 1
          BY <5>1, FS_Interval
        <5> QED
          BY <4>1, <5>2
      <4> QED
        BY <4>1, <4>2 DEF m
    <3> QED
      BY <2>4, <3>1
  <2>10. Cardinality(DOMAIN disk') <= largest' + 1 + Cardinality(Users)
    <3>1. Cardinality(Users) \in Nat
      BY FS_CardinalityType, Assumptions
    <3> QED
      BY <1>1, <1>3, <1>8, <2>9, <3>1, Assumptions DEF UserTypes
  <2>11. PoolSound(setKeyPool, disk, largest)'
    BY <2>2, <2>4, <2>6, <2>7, <2>8, <2>10 DEF PoolSound
  <2>12. WriteSound'
    BY <1>1, <1>3, <2>2, <2>4, <2>9, Assumptions DEF WriteSound
  <2> QED
    BY <2>2, <2>11, <2>12
<1> QED
  BY <1>1, <1>7, <1>8, <1>9 DEF KeyPoolInv

\* EncryptWallet returns.
LEMMA EncryptDoneInv ==
    ASSUME KeyPoolInv, EncryptDone
    PROVE  KeyPoolInv'
<1>1. /\ encrypting = "write" /\ encrypting' = "no" /\ locked' = TRUE
      /\ UNCHANGED <<setKeyPool, disk, nextKey, nIndex, vchPubKey, crypted, plain,
                     interrupted, restarts, used, stranded, largest>>
  BY DEF EncryptDone, poolVars, userVars
<1>2. PoolTypes(setKeyPool, disk, nextKey)'
  BY <1>1 DEF KeyPoolInv, PoolTypes
<1>3. UserTypes'
  <2>1. locked' \in BOOLEAN /\ (locked' => crypted') /\ (encrypting' # "no" => crypted')
    BY <1>1, Zenon DEF KeyPoolInv, UserTypes
  <2> QED
    BY <1>1, <2>1 DEF KeyPoolInv, UserTypes
<1>4. ASSUME ~stranded' PROVE OneUserPerIndex' /\ PoolSound(setKeyPool, disk, largest)'
  BY <1>1, <1>4 DEF KeyPoolInv, OneUserPerIndex, PoolSound, Reserved
<1> QED
  BY <1>1, <1>2, <1>3, <1>4 DEF KeyPoolInv

\* Locking and unlocking touch no key.
LEMMA LockInv ==
    ASSUME KeyPoolInv, LockWallet \/ UnlockWallet
    PROVE  KeyPoolInv'
<1>1. UNCHANGED <<setKeyPool, disk, nextKey, nIndex, vchPubKey, crypted, plain, restarts, used,
                  stranded, encrypting, interrupted, largest>>
  BY DEF LockWallet, UnlockWallet, poolVars, userVars
<1>2. locked' \in BOOLEAN /\ (locked' => crypted') /\ (encrypting' # "no" => crypted')
  <2>1. crypted' = crypted /\ encrypting' = encrypting /\ (encrypting # "no" => crypted)
    BY <1>1, Zenon DEF KeyPoolInv, UserTypes
  <2>2. (crypted /\ locked' = TRUE) \/ locked' = FALSE
    BY DEF LockWallet, UnlockWallet
  <2> QED
    BY <2>1, <2>2, Zenon
<1>3. UserTypes'
  BY <1>1, <1>2 DEF KeyPoolInv, UserTypes
<1>4. PoolTypes(setKeyPool, disk, nextKey)'
  BY <1>1 DEF KeyPoolInv, PoolTypes
<1> QED
  BY <1>1, <1>3, <1>4
     DEF KeyPoolInv, OneUserPerIndex, PoolSound, EraseSound, WriteSound, Reserved

\* LoadWallet: every record of the file is in the pool, and nothing is reserved.
LEMMA RestartInv ==
    ASSUME KeyPoolInv, Restart
    PROVE  KeyPoolInv'
<1>1. /\ setKeyPool' = DOMAIN disk
      /\ nIndex' = [u \in Users |-> -1] /\ vchPubKey' = [u \in Users |-> NoKey]
      /\ locked' = crypted /\ encrypting' = "no"
      /\ interrupted' = (interrupted \/ encrypting = "erase")
      /\ UNCHANGED <<disk, nextKey, crypted, plain, used, stranded, largest>>
  BY DEF Restart
<1>2. PoolTypes(setKeyPool, disk, nextKey)'
  BY <1>1 DEF KeyPoolInv, PoolTypes
<1>3. UserTypes'
  <2>1. restarts' \in 0..MaxRestarts
    BY Assumptions DEF Restart, KeyPoolInv, UserTypes
  <2>2. locked' \in BOOLEAN /\ crypted' \in BOOLEAN /\ (locked' => crypted') /\ (encrypting' # "no" => crypted') /\ stranded' \in BOOLEAN
        /\ interrupted' \in BOOLEAN
    BY <1>1, Zenon DEF KeyPoolInv, UserTypes
  <2>3. nIndex' \in [Users -> (Nat \ {0}) \cup {-1}]
        /\ vchPubKey' \in [Users -> (1..(nextKey' - 1)) \cup {NoKey}]
        /\ \A u \in Users : nIndex'[u] = -1 => vchPubKey'[u] = NoKey
    BY <1>1
  <2> QED
    BY <1>1, <2>1, <2>2, <2>3 DEF KeyPoolInv, UserTypes
<1>4. ASSUME ~stranded' PROVE OneUserPerIndex' /\ PoolSound(setKeyPool, disk, largest)'
  <2>1. PoolSound(setKeyPool, disk, largest) \/ (EraseSound /\ interrupted')
    BY <1>1, <1>4 DEF KeyPoolInv
  <2>2. Reserved' = {} /\ \A u \in Users : nIndex'[u] = -1
    BY <1>1 DEF Reserved
  <2>3. OneUserPerIndex'
    BY <2>2 DEF OneUserPerIndex
  <2>4. PoolSound(setKeyPool, disk, largest)'
    BY <1>1, <2>1, <2>2 DEF PoolSound, EraseSound
  <2> QED
    BY <2>3, <2>4
<1> QED
  BY <1>1, <1>2, <1>3, <1>4 DEF KeyPoolInv

\* Every step preserves the invariant.
LEMMA NextInv == KeyPoolInv /\ [Next]_vars => KeyPoolInv'
<1> SUFFICES ASSUME KeyPoolInv, [Next]_vars PROVE KeyPoolInv'
  OBVIOUS
<1>1. CASE \E u \in Users : ReserveKey(u) \/ KeepKey(u) \/ ReturnKey(u)
  BY <1>1, ReserveKeyInv, KeepKeyInv, ReturnKeyInv
<1>2. CASE \E nSize \in NewSizes \cup {0} : TopUpKeyPool(nSize)
  BY <1>2, TopUpKeyPoolInv
<1>3. CASE GetKeyFromPool
  BY <1>3, GetKeyFromPoolInv
<1>4. CASE EncryptWallet \/ ErasePool \/ ClearPool \/ WritePool \/ EncryptDone
  BY <1>4, EncryptWalletInv, ErasePoolInv, ClearPoolInv, WritePoolInv, EncryptDoneInv
<1>5. CASE LockWallet \/ UnlockWallet
  BY <1>5, LockInv
<1>6. CASE Restart
  BY <1>6, RestartInv
<1>7. CASE UNCHANGED vars
  <2>1. UNCHANGED <<setKeyPool, disk, nextKey, nIndex, vchPubKey, crypted, locked, plain,
                    restarts, used, stranded, encrypting, interrupted, largest>>
    BY <1>7 DEF vars, poolVars, userVars, lockVars
  <2>2. PoolTypes(setKeyPool, disk, nextKey)'
    BY <2>1 DEF KeyPoolInv, PoolTypes
  <2>3. UserTypes'
    BY <2>1 DEF KeyPoolInv, UserTypes
  <2>4. Reserved' = Reserved /\ (OneUserPerIndex => OneUserPerIndex')
    BY <2>1 DEF Reserved, OneUserPerIndex
  <2>5. /\ PoolSound(setKeyPool, disk, largest) => PoolSound(setKeyPool, disk, largest)'
        /\ EraseSound => EraseSound'
        /\ WriteSound => WriteSound'
    BY <2>1, <2>4 DEF PoolSound, EraseSound, WriteSound
  <2> QED
    BY <2>1, <2>2, <2>3, <2>4, <2>5 DEF KeyPoolInv
<1> QED
  BY <1>1, <1>2, <1>3, <1>4, <1>5, <1>6, <1>7 DEF Next

-----------------------------------------------------------------------------
\* The inductive invariant holds in every state.
THEOREM KeyPoolInvariant == Spec => []KeyPoolInv
BY InitInv, NextInv, PTL DEF Spec

\* Types, and the bound on the records of the wallet file: reserving, returning, restarting
\* and topping up leak none.
THEOREM TypeCorrect == Spec => []TypeOK
<1>1. KeyPoolInv => TypeOK
  <2> SUFFICES ASSUME KeyPoolInv PROVE TypeOK
    OBVIOUS
  <2>1. Range(disk) \subseteq 1..(nextKey - 1)
    BY DEF KeyPoolInv, PoolTypes, Range
  <2>2. Held \subseteq 1..(nextKey - 1)
    BY DEF KeyPoolInv, UserTypes, Held
  <2>3. used \cup plain \subseteq 1..(nextKey - 1) /\ nIndex \in [Users -> Nat \cup {-1}]
    BY DEF KeyPoolInv, UserTypes
  <2>4. ~stranded => Cardinality(DOMAIN disk) <= largest + 1 + Cardinality(Users)
    BY DEF KeyPoolInv, PoolSound, EraseSound
  <2> QED
    BY <2>1, <2>2, <2>3, <2>4 DEF KeyPoolInv, PoolTypes, UserTypes, TypeOK
<1> QED
  BY <1>1, KeyPoolInvariant, PTL

\* A key is handed out once (ReserveKeyFromKeyPool, KeepKey, TopUpKeyPool and LoadWallet).
THEOREM HandedOutOnce == Spec => []KeysHandedOutOnce
<1>1. KeyPoolInv => KeysHandedOutOnce
  <2> SUFFICES ASSUME KeyPoolInv, ~stranded
               PROVE  /\ \A u, v \in Users :
                            u # v /\ vchPubKey[u] # NoKey => vchPubKey[u] # vchPubKey[v]
                      /\ Held \cap used = {}
                      /\ Range(disk) \cap used = {}
    BY DEF KeysHandedOutOnce
  <2>0. CASE encrypting = "erase"
    <3>1. EraseSound
      BY <2>0 DEF KeyPoolInv
    <3>2. \A u \in Users : nIndex[u] = -1
      BY <3>1 DEF EraseSound, Reserved
    <3>3. Held = {} /\ \A u \in Users : vchPubKey[u] = NoKey
      BY <3>2 DEF KeyPoolInv, UserTypes, Held
    <3>4. Range(disk) \cap used = {}
      BY <3>1 DEF EraseSound, Range
    <3> QED
      BY <3>3, <3>4
  <2>9. CASE encrypting # "erase"
    <3>1. OneUserPerIndex /\ PoolSound(setKeyPool, disk, largest)
      BY <2>9 DEF KeyPoolInv
    <3>2. \A u \in Users : vchPubKey[u] # NoKey =>
             nIndex[u] # -1 /\ nIndex[u] \in DOMAIN disk /\ disk[nIndex[u]] = vchPubKey[u]
      BY <3>1 DEF KeyPoolInv, UserTypes, PoolSound, Reserved
    <3>3. Range(disk) \cap used = {} /\ Held \subseteq Range(disk)
      BY <3>1, <3>2 DEF PoolSound, Range, Held
    <3>4. ASSUME NEW u \in Users, NEW v \in Users, u # v, vchPubKey[u] # NoKey,
                 vchPubKey[u] = vchPubKey[v]
          PROVE  FALSE
      BY <3>1, <3>2, <3>4 DEF PoolSound, OneUserPerIndex
    <3> QED
      BY <3>3, <3>4
  <2> QED
    BY <2>0, <2>9
<1> QED
  BY <1>1, KeyPoolInvariant, PTL

\* ReserveKeyFromKeyPool never throws: every index of the pool has its record.
THEOREM PoolReadable == Spec => []PoolIsReadable
<1>1. KeyPoolInv => PoolIsReadable
  BY DEF KeyPoolInv, PoolIsReadable, PoolSound, EraseSound, Reserved
<1> QED
  BY <1>1, KeyPoolInvariant, PTL

\* Once NewKeyPool has erased the old records, in a process that was not stopped meanwhile,
\* no key from before the encryption is in the file or held.
THEOREM OldKeysGone == Spec => []OldKeysRetired
<1>1. KeyPoolInv => OldKeysRetired
  <2> SUFFICES ASSUME KeyPoolInv, ~stranded, ~interrupted, encrypting # "erase"
               PROVE  (Range(disk) \cup Held) \cap plain = {}
    BY DEF OldKeysRetired
  <2>1. PoolSound(setKeyPool, disk, largest)
    BY DEF KeyPoolInv
  <2>2. Held \subseteq Range(disk)
    BY <2>1 DEF KeyPoolInv, UserTypes, PoolSound, Reserved, Range, Held
  <2> QED
    BY <2>1, <2>2 DEF PoolSound, Range
<1> QED
  BY <1>1, KeyPoolInvariant, PTL
=============================================================================
