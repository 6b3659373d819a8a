------------------------------ MODULE KeyPool ------------------------------
(***************************************************************************)
(* The key pool of the wallet (wallet.cpp): keys generated ahead and       *)
(* stored in the wallet file under an index.  setKeyPool holds the indices *)
(* that may be given out.  A CReserveKey takes the lowest index out of     *)
(* memory, and either keeps the key, which erases its record, or returns   *)
(* the index.  After a restart every record in the file is in the pool.    *)
(*                                                                         *)
(* Abstractions.                                                           *)
(*  - Keys are numbers in the order in which they are generated.           *)
(*  - A write to the wallet file survives a crash of the process.          *)
(*  - EncryptWallet runs under cs_wallet: between its steps only KeepKey,   *)
(*    which takes no lock, and a crash can happen.                         *)
(*  - The default key that GetReservedKey falls back to when the pool is   *)
(*    empty is not part of the pool and is left out.                       *)
(***************************************************************************)
EXTENDS Integers, FiniteSets, FiniteSetsExt, Functions

CONSTANTS
  Users,        \* the CReserveKey objects: sender, miner, mixing, ...
  TargetSize,   \* -keypool
  NewSizes,     \* what keypoolrefill may be asked for; 0 when nothing is asked for
  NoKey,        \* vchPubKey of a CReserveKey that holds nothing
  MaxKeys,      \* bound: keys generated
  MaxRestarts   \* bound: restarts

ASSUME Assumptions ==
  /\ TargetSize \in Nat /\ MaxKeys \in Nat /\ MaxRestarts \in Nat
  /\ NewSizes \subseteq Nat
  /\ NoKey \notin Nat
  /\ IsFiniteSet(Users)

VARIABLES
  setKeyPool,   \* the indices in the pool
  disk,         \* the "pool" records of the wallet file: index -> key
  nIndex,       \* the index each user has reserved, -1 when none
  vchPubKey,    \* the key each user has reserved
  crypted,      \* the wallet is encrypted
  locked,       \* the wallet is locked
  encrypting,   \* where EncryptWallet is, after its commit: NewKeyPool erases
                \*   the old records, then writes the new ones
  nextKey,      \* the next key to be generated
  restarts,     \* restarts so far
  used,         \* history: keys that were kept or given out
  plain,        \* history: keys generated before the wallet was encrypted
  stranded,     \* history: the pool ran dry or was replaced while a key was
                \*   reserved
  interrupted,  \* history: the process stopped while EncryptWallet erased records
  largest       \* history: the largest size the pool was asked to have

poolVars == <<setKeyPool, disk, nextKey>>
userVars == <<nIndex, vchPubKey>>
lockVars == <<crypted, locked, encrypting, plain, interrupted>>
vars == <<poolVars, userVars, lockVars, restarts, used, stranded, largest>>

Init ==
  /\ setKeyPool = {} /\ disk = <<>> /\ nextKey = 1
  /\ nIndex = [u \in Users |-> -1]
  /\ vchPubKey = [u \in Users |-> NoKey]
  /\ crypted = FALSE /\ locked = FALSE /\ encrypting = "no" /\ plain = {}
  /\ restarts = 0 /\ used = {} /\ stranded = FALSE /\ interrupted = FALSE
  /\ largest = TargetSize

Reserved == {nIndex[u] : u \in Users} \ {-1}

(* The pool after NewKeys keys were added from index first on: WritePool   *)
(* overwrites the record that has the index.                               *)
Added(pool, records, first, count) ==
  LET new == first..(first + count - 1)
  IN  [pool |-> pool \cup new,
       disk |-> [i \in DOMAIN records \cup new |->
                   IF i \in new THEN nextKey + (i - first) ELSE records[i]],
       next |-> nextKey + count]

(* TopUpKeyPool: indices go on from the highest in the pool. *)
(* Mutant: the lowest index that is not in the pool. *)
LowestFree(pool) == Min((1..(Cardinality(pool) + 1)) \ pool)

FirstFree(pool) == IF pool = {} THEN 1 ELSE Max(pool) + 1

(* TopUpKeyPool(nSize): the size that is asked for, or -keypool. *)
Target(nSize) == IF nSize > 0 THEN nSize ELSE TargetSize

(* TopUpKeyPool: the pool is filled to one more than the target. *)
(* Mutant: a full set of keys is added whatever the pool holds. *)
FullSet(pool, nSize) == Target(nSize) + 1

Missing(pool, nSize) ==
  IF Cardinality(pool) > Target(nSize) THEN 0 ELSE Target(nSize) + 1 - Cardinality(pool)

ToppedUp(nSize) ==
  IF locked THEN [pool |-> setKeyPool, disk |-> disk, next |-> nextKey]
  ELSE Added(setKeyPool, disk, FirstFree(setKeyPool), Missing(setKeyPool, nSize))

(* keypoolrefill with nSize, or without one (then 0), and the calls of the *)
(* other RPCs.                                                             *)
TopUpKeyPool(nSize) ==
  /\ ~ locked /\ encrypting = "no"
  /\ ToppedUp(nSize).next <= MaxKeys
  /\ setKeyPool' = ToppedUp(nSize).pool /\ disk' = ToppedUp(nSize).disk
  /\ nextKey' = ToppedUp(nSize).next
  /\ largest' = IF nSize > largest THEN nSize ELSE largest
  /\ UNCHANGED <<userVars, lockVars, restarts, used, stranded>>

(* ReserveKeyFromKeyPool through CReserveKey::GetReservedKey.  When the    *)
(* record cannot be read the call throws, with the index already taken:    *)
(* the object still returns it later.                                      *)
ReserveKey(u) ==
  /\ nIndex[u] = -1 /\ encrypting = "no"
  /\ ToppedUp(0).next <= MaxKeys
  /\ ToppedUp(0).pool # {}
  /\ LET i == Min(ToppedUp(0).pool)
     IN  /\ setKeyPool' = ToppedUp(0).pool \ {i}
         /\ nIndex' = [nIndex EXCEPT ![u] = i]
         /\ vchPubKey' = [vchPubKey EXCEPT ![u] =
              IF i \in DOMAIN ToppedUp(0).disk THEN ToppedUp(0).disk[i] ELSE NoKey]
  /\ disk' = ToppedUp(0).disk /\ nextKey' = ToppedUp(0).next
  /\ stranded' = (stranded \/ setKeyPool' = {})
  /\ UNCHANGED <<lockVars, restarts, used, largest>>

(* Mutant: the record stays in the file. *)
WithoutRecordNever(records, i) == records

WithoutRecord(records, i) == Restrict(records, DOMAIN records \ {i})

(* Both ends of a reservation clear vchPubKey. *)
Cleared(keys, u) == [keys EXCEPT ![u] = NoKey]

(* CReserveKey::KeepKey erases the record; the key is now in use.  It does *)
(* not take cs_wallet.                                                     *)
KeepKey(u) ==
  /\ nIndex[u] # -1 /\ vchPubKey[u] # NoKey
  /\ disk' = WithoutRecord(disk, nIndex[u])
  /\ used' = used \cup {vchPubKey[u]}
  /\ nIndex' = [nIndex EXCEPT ![u] = -1]
  /\ vchPubKey' = Cleared(vchPubKey, u)
  /\ UNCHANGED <<setKeyPool, nextKey, lockVars, restarts, stranded, largest>>

(* CReserveKey::ReturnKey, also from the destructor. *)
ReturnKey(u) ==
  /\ nIndex[u] # -1 /\ encrypting = "no"
  /\ setKeyPool' = setKeyPool \cup {nIndex[u]}
  /\ nIndex' = [nIndex EXCEPT ![u] = -1]
  /\ vchPubKey' = Cleared(vchPubKey, u)
  /\ UNCHANGED <<disk, nextKey, lockVars, restarts, used, stranded, largest>>

(* GetKeyFromPool: reserve and keep under one lock.  A key that cannot be  *)
(* read is gone from the pool and the call throws.                         *)
GetKeyFromPool ==
  /\ encrypting = "no"
  /\ ToppedUp(0).next <= MaxKeys
  /\ ToppedUp(0).pool # {}
  /\ LET i == Min(ToppedUp(0).pool)
     IN  /\ setKeyPool' = ToppedUp(0).pool \ {i}
         /\ \/ /\ i \in DOMAIN ToppedUp(0).disk
               /\ disk' = WithoutRecord(ToppedUp(0).disk, i)
               /\ used' = used \cup {ToppedUp(0).disk[i]}
            \/ /\ i \notin DOMAIN ToppedUp(0).disk
               /\ disk' = ToppedUp(0).disk
               /\ used' = used
  /\ nextKey' = ToppedUp(0).next
  /\ stranded' = (stranded \/ (setKeyPool' = {} /\ Reserved # {}))
  /\ UNCHANGED <<userVars, lockVars, restarts, largest>>

(* EncryptWallet up to the commit of the encrypted keys: the old pool is   *)
(* still there, in the file as well.                                       *)
EncryptWallet ==
  /\ ~ crypted
  /\ nextKey + TargetSize <= MaxKeys
  /\ crypted' = TRUE /\ encrypting' = "erase"
  /\ plain' = 1..(nextKey - 1)
  /\ stranded' = (stranded \/ Reserved # {})
  /\ UNCHANGED <<poolVars, userVars, locked, interrupted, restarts, used, largest>>

(* Mutant: only memory is cleared. *)
Unerased(records, pool) == {}

(* The indices NewKeyPool has yet to erase; it goes up from the lowest. *)
ToErase(records, pool) == pool \cap DOMAIN records

(* NewKeyPool: one ErasePool; each is a write of its own to the file. *)
ErasePool ==
  /\ encrypting = "erase"
  /\ ToErase(disk, setKeyPool) # {}
  /\ disk' = WithoutRecord(disk, Min(ToErase(disk, setKeyPool)))
  /\ UNCHANGED <<setKeyPool, nextKey, userVars, lockVars, restarts, used, stranded, largest>>

(* NewKeyPool: setKeyPool.clear(). *)
ClearPool ==
  /\ encrypting = "erase"
  /\ ToErase(disk, setKeyPool) = {}
  /\ setKeyPool' = {} /\ encrypting' = "write"
  /\ UNCHANGED <<disk, nextKey, userVars, crypted, locked, plain, interrupted,
                 restarts, used, stranded, largest>>

(* NewKeyPool: one new key, under the index after the last one written. *)
WritePool ==
  /\ encrypting = "write"
  /\ Cardinality(setKeyPool) < TargetSize
  /\ LET new == Added(setKeyPool, disk, Cardinality(setKeyPool) + 1, 1)
     IN  setKeyPool' = new.pool /\ disk' = new.disk /\ nextKey' = new.next
  /\ UNCHANGED <<userVars, lockVars, restarts, used, stranded, largest>>

(* The pool is complete, EncryptWallet locks the wallet and returns. *)
EncryptDone ==
  /\ encrypting = "write"
  /\ Cardinality(setKeyPool) = TargetSize
  /\ encrypting' = "no" /\ locked' = TRUE
  /\ UNCHANGED <<poolVars, userVars, crypted, plain, interrupted, restarts, used, stranded, largest>>

LockWallet ==
  /\ crypted /\ ~ locked /\ encrypting = "no"
  /\ locked' = TRUE
  /\ UNCHANGED <<poolVars, userVars, crypted, encrypting, plain, interrupted,
                 restarts, used, stranded, largest>>

UnlockWallet ==
  /\ locked
  /\ locked' = FALSE
  /\ UNCHANGED <<poolVars, userVars, crypted, encrypting, plain, interrupted,
                 restarts, used, stranded, largest>>

(* A crash, or a shutdown, and LoadWallet. *)
Restart ==
  /\ restarts < MaxRestarts
  /\ restarts' = restarts + 1
  /\ setKeyPool' = DOMAIN disk
  /\ nIndex' = [u \in Users |-> -1]
  /\ vchPubKey' = [u \in Users |-> NoKey]
  /\ locked' = crypted /\ encrypting' = "no"
  /\ interrupted' = (interrupted \/ encrypting = "erase")
  /\ UNCHANGED <<disk, nextKey, crypted, plain, used, stranded, largest>>

Next ==
  \/ \E u \in Users : ReserveKey(u) \/ KeepKey(u) \/ ReturnKey(u)
  \/ \E nSize \in NewSizes \cup {0} : TopUpKeyPool(nSize)
  \/ GetKeyFromPool
  \/ EncryptWallet \/ ErasePool \/ ClearPool \/ WritePool \/ EncryptDone
  \/ LockWallet \/ UnlockWallet
  \/ Restart

Spec == Init /\ [][Next]_vars

-----------------------------------------------------------------------------
(* Properties. *)

Held == {vchPubKey[u] : u \in Users} \ {NoKey}

(* Types: indices and keys are natural numbers, only generated keys are    *)
(* stored, held or used, and a locked wallet is an encrypted one.  However *)
(* often keys are returned, the wallet restarted or the pool topped up,    *)
(* the wallet file holds at most one key more than the largest size asked  *)
(* for and one for every user: reserving and returning leaks no records.   *)
TypeOK ==
  /\ setKeyPool \subseteq Nat \ {0} /\ DOMAIN disk \subseteq Nat \ {0}
  /\ IsFiniteSet(setKeyPool)
  /\ ~ stranded =>
       Cardinality(DOMAIN disk) <= largest + 1 + Cardinality(Users)
  /\ nextKey \in Nat \ {0} /\ largest \in Nat
  /\ Range(disk) \cup Held \cup used \cup plain \subseteq 1..(nextKey - 1)
  /\ nIndex \in [Users -> Nat \cup {-1}]
  /\ \A u \in Users : nIndex[u] = -1 => vchPubKey[u] = NoKey
  /\ crypted \in BOOLEAN /\ locked \in BOOLEAN /\ (locked => crypted)
  /\ encrypting \in {"no", "erase", "write"} /\ interrupted \in BOOLEAN
  /\ restarts \in 0..MaxRestarts /\ stranded \in BOOLEAN

(* A key is handed out once: two users never hold the same key, and a key  *)
(* that was kept is never held again, nor is it in the file to be offered  *)
(* after a restart -- unless the pool ran dry, or the wallet was           *)
(* encrypted, while somebody held a key: the next top-up then starts at or *)
(* below the index that is out.                                            *)
KeysHandedOutOnce ==
  ~ stranded =>
    /\ \A u, v \in Users :
         u # v /\ vchPubKey[u] # NoKey => vchPubKey[u] # vchPubKey[v]
    /\ Held \cap used = {}
    /\ Range(disk) \cap used = {}

(* Every index in the pool has its record, and its record is nobody's:     *)
(* ReserveKeyFromKeyPool never throws, and what it reads is not held.      *)
(* While EncryptWallet erases the records nobody can read the pool.        *)
PoolIsReadable ==
  ~ stranded =>
    /\ encrypting # "erase" => setKeyPool \subseteq DOMAIN disk
    /\ setKeyPool \cap Reserved = {}
    /\ \A u \in Users : nIndex[u] # -1 =>
         nIndex[u] \in DOMAIN disk /\ disk[nIndex[u]] = vchPubKey[u]

(* "Mark old keypool keys as used": once the old records are erased no key *)
(* that was ever stored in the clear is in the file or held by anybody,    *)
(* whatever is restarted, topped up or kept afterwards -- unless somebody  *)
(* held a key then, or the process stopped between the commit and the last *)
(* erasure.                                                                *)
OldKeysRetired ==
  ~ stranded /\ ~ interrupted /\ encrypting # "erase" =>
    (Range(disk) \cup Held) \cap plain = {}

(* The same as the comment of NewKeyPool has it, "Mark old keypool keys as *)
(* used, and generate all new keys": an encrypted wallet that is not being *)
(* encrypted offers no key from before.                                    *)
EncryptedPoolIsNew ==
  crypted /\ encrypting = "no" /\ ~ stranded =>
    \A i \in setKeyPool \cap DOMAIN disk : disk[i] \notin plain
=============================================================================
