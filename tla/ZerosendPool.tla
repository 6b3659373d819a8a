----------------------------- MODULE ZerosendPool -----------------------------
(***************************************************************************)
(* The mixing pool of a blanknode: the handlers "ssa", "ssi" and "sss",    *)
(* Check, CheckTimeout and CheckForCompleteQueue of src/zerosend.cpp with  *)
(* fBlankNode set.  Clients join a session ("ssa"), are told that it is    *)
(* full, hand in their inputs and outputs ("ssi"), and sign the merged     *)
(* transaction ("sss"), which the blanknode publishes.                     *)
(*                                                                         *)
(* The clients and the chain are the environment.  A client owns one set   *)
(* of denominated inputs and stands for them.  Its messages arrive in the  *)
(* order it sent them (one TCP connection) but as late as you like: an     *)
(* "ssi" or "sss" may reach a later session than the one it was meant for, *)
(* and neither carries a session number.  Nothing in the handlers ties     *)
(* either message to a client that was asked for it, so one that nobody    *)
(* asked for may come at any time and about anybody's inputs.              *)
(***************************************************************************)
EXTENDS Integers, FiniteSets, Sequences, SequencesExt

CONSTANTS
    Client,
    Denom,                      \* values of GetDenominations other than 0
    denom,                      \* what a client's outputs are
    nInputs,                    \* how many inputs a client hands in
    GetMaxPoolTransactions,     \* 3, or 2 on the test network
    POOL_MAX_TRANSACTIONS,      \* 3
    ZEROSEND_QUEUE_TIMEOUT,     \* 240 s and 120 s, in ticks
    ZEROSEND_SIGNING_TIMEOUT,
    MaxSpent                    \* bound: other transactions spend no more clients' inputs

ASSUME PoolAssumption ==
    /\ Denom \subseteq Nat \ {0}
    /\ denom \in [Client -> Denom]
    /\ nInputs \in [Client -> Nat \ {0}]
    /\ GetMaxPoolTransactions \in Nat /\ GetMaxPoolTransactions >= 2
    /\ POOL_MAX_TRANSACTIONS \in Nat
    /\ ZEROSEND_QUEUE_TIMEOUT \in Nat \ {0}
    /\ ZEROSEND_SIGNING_TIMEOUT \in 1..ZEROSEND_QUEUE_TIMEOUT
    /\ MaxSpent \in Nat

VARIABLES
    pool,           \* CZerosendPool; quiet is the time since lastTimeChanged
    mapZerosendBroadcastTxes,   \* transactions published
    announced,      \* a session was announced: this blanknode's nLastSsq is not 0
    joined,         \* clients told BLANKNODE_ACCEPTED, waiting for the session to fill
    invited,        \* clients told that it is full, whose ssi may still come
    owed,           \* clients asked to sign: the last transaction merged, or an older one
    spent,          \* clients whose inputs are spent on the chain or in the memory pool
    charged         \* clients whose collateral is

vars == <<pool, mapZerosendBroadcastTxes, announced, joined, invited, owed, spent, charged>>

\* A signature (scriptSig) of all inputs of an entry: of the transaction merged last, or of
\* another one.  asked is history: the blanknode asked for every message about this entry.
Sig == {"none", "fresh", "stale"}
Entry == [client : Client, sig : Sig, age : 0..ZEROSEND_QUEUE_TIMEOUT + 1, asked : BOOLEAN]
Signed == [client : Client, sig : Sig]
Pool == [state : {"idle", "queue", "accepting", "signing", "transmission"},
         entries : Seq(Entry),
         finalTransaction : Seq(Signed),
         sessionDenom : Denom \cup {0},
         sessionUsers : 0..GetMaxPoolTransactions,
         vecSessionCollateral : SUBSET Client,
         quiet : 0..ZEROSEND_QUEUE_TIMEOUT]

\* CZerosendPool::SetNull leaves nothing of the session before.
SetNull ==
    [state |-> "idle", entries |-> <<>>, finalTransaction |-> <<>>, sessionDenom |-> 0,
     sessionUsers |-> 0, vecSessionCollateral |-> {}, quiet |-> 0]

Init ==
    /\ pool = SetNull
    /\ mapZerosendBroadcastTxes = {}
    /\ announced = FALSE
    /\ joined = {} /\ invited = {} /\ spent = {} /\ charged = {}
    /\ owed = [c \in Client |-> "none"]

TypeOK ==
    /\ pool \in Pool
    /\ Len(pool.entries) <= GetMaxPoolTransactions
    /\ mapZerosendBroadcastTxes \subseteq Seq(Signed)
    /\ announced \in BOOLEAN
    /\ {joined, invited, spent, charged} \subseteq SUBSET Client
    /\ owed \in [Client -> Sig]

-----------------------------------------------------------------------------
(* The session                                                             *)

Clients(s) == {s[i].client : i \in DOMAIN s}

\* A blanknode never goes to ERROR or SUCCESS: UpdateState returns early.
UpdateState(p, s) ==
    [p EXCEPT !.state = s, !.quiet = IF p.state = s THEN @ ELSE 0]

IsSessionReady(p) == p.sessionUsers >= GetMaxPoolTransactions

IsCollateralValid(c) == c \notin charged

IsCompatibleWithSession(p, c) ==
    /\ IsCollateralValid(c)
    /\ \/ p.sessionUsers = 0
       \/ /\ p.state \in {"accepting", "queue"}
          /\ ~IsSessionReady(p)
          /\ denom[c] = p.sessionDenom

\* What IsCompatibleWithSession does to the session when it returns true.
JoinSession(p, c) ==
    IF p.sessionUsers = 0
    THEN [UpdateState(p, "queue") EXCEPT
             !.sessionDenom = denom[c], !.sessionUsers = 1, !.quiet = 0, !.entries = <<>>,
             !.vecSessionCollateral = @ \cup {c}]
    ELSE [p EXCEPT !.sessionUsers = @ + 1, !.quiet = 0,
                   !.vecSessionCollateral = @ \cup {c}]

\* Every entry so far has the denominations of c.
IsCompatibleWithEntries(p, c) ==
    \A i \in DOMAIN p.entries : denom[p.entries[i].client] = denom[c]

\* Mutant: nobody looks whether the input is there already.
HasInputUnchecked(p, c) == FALSE

\* The comparison of CTxIn includes scriptSig: an input that is signed is not found.
HasInput(p, c) ==
    \E i \in DOMAIN p.entries : p.entries[i].client = c /\ p.entries[i].sig = "none"

\* Mutant: the number of entries is not limited.
AddEntryUnlimited(p, c) == ~IsCollateralValid(c) \/ HasInput(p, c)

AddEntryFails(p, c) ==
    \/ ~IsCollateralValid(c)
    \/ Len(p.entries) >= GetMaxPoolTransactions
    \/ HasInput(p, c)

AddEntry(p, c, asked) ==
    [p EXCEPT !.entries =
        Append(@, [client |-> c, sig |-> "none", age |-> 0, asked |-> asked])]

-----------------------------------------------------------------------------
(* Check                                                                   *)

\* Mutant: one entry too few is enough.
FullTooEarly(p) == p.state = "accepting" /\ Len(p.entries) >= GetMaxPoolTransactions - 1

Full(p) == p.state = "accepting" /\ Len(p.entries) >= GetMaxPoolTransactions

\* FINALIZE_TRANSACTION is left at once: the entries are merged and clients asked to sign.
Finalize(p) ==
    IF Full(p)
    THEN [UpdateState(p, "signing") EXCEPT !.finalTransaction =
             [i \in DOMAIN p.entries |->
                 [client |-> p.entries[i].client, sig |-> p.entries[i].sig]]]
    ELSE p

\* Which signatures may come after RelayFinalTransaction(p).
RelayFinalTransaction(p, due) ==
    [c \in Client |->
        CASE \E i \in DOMAIN p.finalTransaction : p.finalTransaction[i].client = c -> "fresh"
          [] OTHER -> IF due[c] = "none" THEN "none" ELSE "stale"]

SignaturesComplete(p) == \A i \in DOMAIN p.entries : p.entries[i].sig # "none"

\* AcceptToMemoryPool of the merged transaction.
Acceptable(tx) ==
    /\ \A i \in DOMAIN tx : tx[i].sig = "fresh" /\ tx[i].client \notin spent
    /\ \A i, j \in DOMAIN tx : tx[i].client = tx[j].client => i = j

\* CheckFinalTransaction: not valid; published; or valid, but the blanknode's key failed.
\* ChargeRandomFees may take the collateral of anyone in the session.
CheckFinalTransaction(p) ==
    LET tx == p.finalTransaction
    IN  IF ~Acceptable(tx)
        THEN {[pool |-> UpdateState(SetNull, "accepting"), spends |-> {},
               publishes |-> {}, charges |-> {}]}
        ELSE {[pool |-> UpdateState(p, "transmission"), spends |-> Clients(tx),
               publishes |-> {}, charges |-> {}]}
             \cup {[pool |-> SetNull, spends |-> Clients(tx), publishes |-> {tx},
                    charges |-> S] : S \in SUBSET p.vecSessionCollateral}

\* The ways Check can end, for a pool p.
Check(p) ==
    LET q == Finalize(p)
    IN  IF q.state = "signing" /\ SignaturesComplete(q) THEN CheckFinalTransaction(q)
        ELSE {[pool |-> q, spends |-> {}, publishes |-> {}, charges |-> {}]}

\* The effect of Check on everything but the waiting clients.
Checked(p, due) ==
    \E r \in Check(p) :
       /\ pool' = r.pool
       /\ spent' = spent \cup r.spends
       /\ charged' = charged \cup r.charges
       /\ mapZerosendBroadcastTxes' = mapZerosendBroadcastTxes \cup r.publishes
       /\ owed' = IF Full(p) THEN RelayFinalTransaction(Finalize(p), due) ELSE due

-----------------------------------------------------------------------------
(* Handlers                                                                *)

\* A client that sends ssa has no entry left that it could submit or sign.
Forget(c) ==
    /\ invited' = invited \ {c}
    /\ owed' = [owed EXCEPT ![c] = "none"]

\* "ssa", when the blanknode announced a session too recently: the answer is
\* BLANKNODE_ACCEPTED, and the session is left alone.  Told the state ACCEPTING_ENTRIES, the
\* client goes to wait for a session that does not count it.
AcceptTooRecent(c) ==
    /\ pool.sessionUsers = 0
    /\ announced
    /\ joined' = IF pool.state = "accepting" THEN joined \cup {c} ELSE joined \ {c}
    /\ Forget(c)
    /\ UNCHANGED <<pool, mapZerosendBroadcastTxes, announced, spent, charged>>

\* "ssa"
Accept(c) ==
    /\ IF IsCompatibleWithSession(pool, c)
       THEN /\ pool' = JoinSession(pool, c)
            /\ joined' = joined \cup {c}
            /\ announced' = (announced \/ pool.sessionUsers = 0)
       ELSE /\ joined' = joined \ {c}
            /\ UNCHANGED <<pool, announced>>
    /\ Forget(c)
    /\ UNCHANGED <<mapZerosendBroadcastTxes, spent, charged>>

\* The ssi of c itself comes after every sss that c sent.
NoneToCome(c, asked) == IF asked THEN [owed EXCEPT ![c] = "none"] ELSE owed

\* With an ssi nobody asked for, a sss of c may still be under way when its inputs enter: it
\* was made for an earlier transaction.
OldToCome(c, asked) ==
    [owed EXCEPT ![c] = IF asked \/ @ = "none" THEN "none" ELSE "stale"]

\* "ssi": refused before AddEntry, refused by AddEntry, or entered and checked.
SubmitRefused(c, asked) ==
    /\ \/ ~IsSessionReady(pool)
       \/ ~IsCompatibleWithEntries(pool, c)
       \/ c \in spent
    /\ owed' = NoneToCome(c, asked)
    /\ UNCHANGED <<pool, mapZerosendBroadcastTxes, spent, charged>>

SubmitFails(c, asked) ==
    /\ IsSessionReady(pool) /\ IsCompatibleWithEntries(pool, c) /\ c \notin spent
    /\ AddEntryFails(pool, c)
    /\ pool' = [pool EXCEPT !.sessionUsers = @ - 1]
    /\ owed' = NoneToCome(c, asked)
    /\ UNCHANGED <<mapZerosendBroadcastTxes, spent, charged>>

SubmitEntered(c, asked) ==
    /\ IsSessionReady(pool) /\ IsCompatibleWithEntries(pool, c) /\ c \notin spent
    /\ ~AddEntryFails(pool, c)
    /\ Checked(AddEntry(pool, c, asked), OldToCome(c, asked))

\* The ssi of an invited client, or one that nobody asked for.
Submit(c, asked) ==
    /\ asked => c \in invited
    /\ invited' = IF asked THEN invited \ {c} ELSE invited
    /\ SubmitRefused(c, asked) \/ SubmitFails(c, asked) \/ SubmitEntered(c, asked)
    /\ UNCHANGED <<joined, announced>>

\* AddScriptSig writes the signature into the merged transaction whether or not the entry
\* takes it; SignatureValid compares inputs with their scriptSig, finds none, and passes.
AddScriptSig(p, c, sig) ==
    [p EXCEPT !.finalTransaction =
        [i \in DOMAIN @ |-> IF @[i].client = c THEN [@[i] EXCEPT !.sig = sig] ELSE @[i]]]

\* AddSig: the first entry of c that has no signature takes it.
TakesSig(p, c, i) ==
    /\ p.entries[i].client = c /\ p.entries[i].sig = "none"
    /\ \A j \in 1..i - 1 : ~(p.entries[j].client = c /\ p.entries[j].sig = "none")

\* A signature that an entry has already, to the byte, is dropped at once ("already exists");
\* another one of the same transaction is not.
MayExist(p, c, sig) ==
    \E i \in DOMAIN p.entries : p.entries[i].client = c /\ p.entries[i].sig = sig

\* "sss" about the inputs of c, handled in every state.  Either c answers what it was asked,
\* or the message is one that nobody asked for: a signature that is not one of the merged
\* transaction, or the right one again.
Sign(c, sig) ==
    LET asked == sig = owed[c]
        p == AddScriptSig(pool, c, sig)
        q == [p EXCEPT !.entries = [i \in DOMAIN p.entries |->
                 [p.entries[i] EXCEPT !.asked = @ /\ (asked \/ p.entries[i].client # c)]]]
    IN  /\ sig = "fresh" => asked \/ c \in Clients(pool.finalTransaction)
        /\ \/ \E i \in DOMAIN q.entries :
                 /\ TakesSig(q, c, i)
                 /\ Checked([q EXCEPT !.entries[i].sig = sig], NoneToCome(c, asked))
           \/ /\ \A i \in DOMAIN q.entries : ~TakesSig(q, c, i)
              /\ pool' = q /\ owed' = NoneToCome(c, asked)
              /\ UNCHANGED <<mapZerosendBroadcastTxes, spent, charged>>
           \/ /\ MayExist(pool, c, sig)
              /\ pool' = pool /\ owed' = NoneToCome(c, asked)
              /\ UNCHANGED <<mapZerosendBroadcastTxes, spent, charged>>
        /\ UNCHANGED <<joined, invited, announced>>

-----------------------------------------------------------------------------
(* The thread                                                              *)

CheckForCompleteQueue ==
    /\ pool.state = "queue"
    /\ pool.sessionUsers = GetMaxPoolTransactions
    /\ pool' = UpdateState(pool, "accepting")
    /\ invited' = invited \cup joined
    /\ joined' = {}
    /\ UNCHANGED <<mapZerosendBroadcastTxes, announced, owed, spent, charged>>

IsExpired(e) == e.age > ZEROSEND_QUEUE_TIMEOUT

\* CheckTimeout removes one expired entry at a time, and the session with the last of them.
Expire(p) ==
    LET old == {i \in DOMAIN p.entries : IsExpired(p.entries[i])}
        i == CHOOSE k \in old : \A j \in old : k <= j
        q == [p EXCEPT !.entries = RemoveAt(@, i)]
    IN  CASE old = {} -> p
          [] old # {} /\ q.entries = <<>> -> SetNull
          [] OTHER -> q

\* Mutant: entries expire in every state.
QueueTimeoutAlways(p) ==
    LET q == Expire(p)
    IN  IF q.quiet >= ZEROSEND_QUEUE_TIMEOUT THEN SetNull ELSE q

\* Mutant: only a session that still takes entries times out.
QueueTimeoutEntriesOnly(p) ==
    LET q == IF p.state \in {"accepting", "queue"} THEN Expire(p) ELSE p
    IN  IF p.state \in {"accepting", "queue"} /\ q.quiet >= ZEROSEND_QUEUE_TIMEOUT
        THEN SetNull ELSE q

QueueTimeout(p) ==
    LET q == IF p.state \in {"accepting", "queue"} THEN Expire(p) ELSE p
    IN  IF q.quiet >= ZEROSEND_QUEUE_TIMEOUT THEN SetNull ELSE q

SigningTimedOut(p) == p.state = "signing" /\ p.quiet >= ZEROSEND_SIGNING_TIMEOUT

\* Inputs, not clients, are counted.
Offences(p) ==
    FoldLeft(LAMBDA n, e : IF e.sig = "none" THEN n + nInputs[e.client] ELSE n,
             0, p.entries)

\* Mutant: signed or not, the first entry pays.
ChargeFeesFirst(p) ==
    {c \in Client : Offences(p) < POOL_MAX_TRANSACTIONS
                    /\ p.entries # <<>> /\ p.entries[1].client = c}

\* Whose collateral ChargeFees can take: the first offender, unless there are too many.
ChargeFees(p) ==
    {c \in Client :
        /\ Offences(p) < POOL_MAX_TRANSACTIONS
        /\ \E i \in DOMAIN p.entries :
              /\ p.entries[i].client = c /\ p.entries[i].sig = "none"
              /\ \A j \in 1..i - 1 : p.entries[j].sig # "none"}

CheckTimeout ==
    LET p == QueueTimeout(pool)
    IN  /\ \/ /\ SigningTimedOut(p)
              /\ pool' = SetNull
              /\ \/ UNCHANGED charged
                 \/ \E c \in ChargeFees(p) : charged' = charged \cup {c}
           \/ /\ ~SigningTimedOut(p)
              /\ pool' = p /\ p # pool
              /\ UNCHANGED charged
        /\ UNCHANGED <<mapZerosendBroadcastTxes, announced, joined, invited, owed, spent>>

-----------------------------------------------------------------------------
(* Environment                                                             *)

\* Ages are kept up to where the code stops telling them apart.
Older(n, top) == IF n < top THEN n + 1 ELSE n

Aged(p) ==
    [p EXCEPT !.quiet = Older(p.quiet, ZEROSEND_QUEUE_TIMEOUT),
              !.entries = [i \in DOMAIN p.entries |->
                  [p.entries[i] EXCEPT !.age = Older(@, ZEROSEND_QUEUE_TIMEOUT + 1)]]]

\* A tick of the clock
Tick ==
    /\ pool' = Aged(pool)
    /\ pool' # pool
    /\ UNCHANGED <<mapZerosendBroadcastTxes, announced, joined, invited, owed, spent, charged>>

\* The inputs of a client are spent by another transaction.
Spend(c) ==
    /\ c \notin spent /\ Cardinality(spent) < MaxSpent
    /\ spent' = spent \cup {c}
    /\ UNCHANGED <<pool, mapZerosendBroadcastTxes, announced, joined, invited, owed, charged>>

\* The client makes a new collateral transaction.
NewCollateral(c) ==
    /\ c \in charged
    /\ charged' = charged \ {c}
    /\ UNCHANGED <<pool, mapZerosendBroadcastTxes, announced, joined, invited, owed, spent>>

Next ==
    \/ \E c \in Client : AcceptTooRecent(c) \/ Accept(c)
    \/ \E c \in Client, asked \in BOOLEAN : Submit(c, asked)
    \/ \E c \in Client, sig \in {"fresh", "stale"} : Sign(c, sig)
    \/ CheckForCompleteQueue \/ CheckTimeout
    \/ Tick
    \/ \E c \in Client : Spend(c) \/ NewCollateral(c)

Spec == Init /\ [][Next]_vars

\* ThreadCheckZeroSendPool runs CheckTimeout and CheckForCompleteQueue every second.
FairSpec ==
    Spec /\ WF_vars(Tick) /\ WF_vars(CheckTimeout) /\ WF_vars(CheckForCompleteQueue)

-----------------------------------------------------------------------------
(* Properties                                                              *)

\* An input is in one entry only, although AddEntry does not find inputs that are signed and
\* "sss" is handled in every state: a second entry takes the place of none for which the
\* blanknode asked for every message.  (A signature nobody asked for hides an entry.)
OneEntryPerInput ==
    \A i, j \in DOMAIN pool.entries :
        i < j /\ pool.entries[i].client = pool.entries[j].client => ~pool.entries[i].asked

\* While signatures are collected (Check, AddScriptSig) the merged transaction is the one the
\* entries describe, whatever anybody sends: no entry joins, leaves or expires, and for each
\* entry about which only messages came that were asked for, it carries exactly the signature
\* SignaturesComplete counts, which was not made for an earlier session.
SigningWhatWasMerged ==
    pool.state = "signing" =>
        /\ Len(pool.finalTransaction) = Len(pool.entries)
        /\ \A i \in DOMAIN pool.entries :
              /\ pool.finalTransaction[i].client = pool.entries[i].client
              /\ pool.entries[i].asked =>
                    /\ pool.finalTransaction[i].sig = pool.entries[i].sig
                    /\ pool.entries[i].sig # "stale"

\* Every transaction the blanknode publishes mixes GetMaxPoolTransactions different clients,
\* all with the same denominations (POOL_MAX_TRANSACTIONS: "wait for X transactions to merge
\* and publish").
PublishedIsMixed ==
    \A tx \in mapZerosendBroadcastTxes :
        /\ Len(tx) = GetMaxPoolTransactions
        /\ \A i, j \in DOMAIN tx : i # j =>
              tx[i].client # tx[j].client /\ denom[tx[i].client] = denom[tx[j].client]

\* What a session keeps, whatever arrives: only an entry that was signed can be entered
\* again; nothing is merged until the session is full, and an entry whose messages were all
\* asked for is unsigned until then; a session with entries never looks empty to "ssa"; and a
\* signature that is still to come for such an entry is one of the transaction merged last.
SessionInv ==
    /\ \A i, j \in DOMAIN pool.entries :
          i < j /\ pool.entries[i].client = pool.entries[j].client => pool.entries[i].sig # "none"
    /\ pool.state \in {"signing", "transmission"} =>
          Len(pool.entries) = GetMaxPoolTransactions
    /\ pool.state \notin {"signing", "transmission"} =>
          /\ pool.finalTransaction = <<>>
          /\ \A i \in DOMAIN pool.entries :
                pool.entries[i].asked => pool.entries[i].sig = "none"
    /\ pool.entries # <<>> => pool.sessionUsers >= GetMaxPoolTransactions - 1
    /\ \A i, j \in DOMAIN pool.entries :
          denom[pool.entries[i].client] = denom[pool.entries[j].client]
    /\ \A i \in DOMAIN pool.entries :
          pool.entries[i].asked /\ owed[pool.entries[i].client] # "none" =>
             /\ pool.state = "signing"
             /\ owed[pool.entries[i].client] = "fresh"
             /\ pool.entries[i].sig = "none"

PoolInv ==
    TypeOK /\ OneEntryPerInput /\ SigningWhatWasMerged /\ PublishedIsMixed /\ SessionInv

\* Collateral is taken (ChargeFees, ChargeRandomFees) from a client that did not sign, or
\* from a member of a session whose transaction was published in that step.
ChargedForACause ==
    [][\A c \in charged' \ charged :
          \/ \E i \in DOMAIN pool.entries :
                pool.entries[i].client = c /\ pool.entries[i].sig = "none"
          \/ mapZerosendBroadcastTxes' # mapZerosendBroadcastTxes
             /\ c \in pool.vecSessionCollateral]_vars

\* Every session ends, whatever the clients do not send: CheckTimeout, a transaction that
\* fails or one that is published leaves the pool without users, ready for the next session.
\* What keeps one going is that ssi nobody asked for come for ever: each that AddEntry refuses
\* takes a user away, the next ssa counts one more and begins the waiting time again.
SessionEnds ==
    \/ []<><<\E c \in Client : Submit(c, FALSE)>>_vars
    \/ (pool.sessionUsers # 0 ~> pool.sessionUsers = 0)
=============================================================================
