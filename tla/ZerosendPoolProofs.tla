-------------------------- MODULE ZerosendPoolProofs --------------------------
(***************************************************************************)
(* Proofs about ZerosendPool, for any number of clients, any pool size of  *)
(* at least two, any timeouts and whatever messages arrive: what is signed *)
(* is what was merged, and what is published mixes that many clients.      *)
(***************************************************************************)
EXTENDS ZerosendPool, WellFoundedInduction, SequenceTheorems, TLAPS

\* The part of PoolInv that is about the session, for a pool and the signatures still due.
SessionOK(p, due) ==
    /\ p \in Pool
    /\ Len(p.entries) <= GetMaxPoolTransactions
    /\ \A i, j \in DOMAIN p.entries : i < j /\ p.entries[i].client = p.entries[j].client =>
          ~p.entries[i].asked /\ p.entries[i].sig # "none"
    /\ p.state = "signing" =>
          /\ Len(p.finalTransaction) = Len(p.entries)
          /\ \A i \in DOMAIN p.entries :
                /\ p.finalTransaction[i].client = p.entries[i].client
                /\ p.entries[i].asked =>
                      /\ p.finalTransaction[i].sig = p.entries[i].sig
                      /\ p.entries[i].sig # "stale"
    /\ p.state \in {"signing", "transmission"} => Len(p.entries) = GetMaxPoolTransactions
    /\ p.state \notin {"signing", "transmission"} =>
          /\ p.finalTransaction = <<>>
          /\ \A i \in DOMAIN p.entries : p.entries[i].asked => p.entries[i].sig = "none"
    /\ p.entries # <<>> => p.sessionUsers >= GetMaxPoolTransactions - 1
    /\ \A i, j \in DOMAIN p.entries : denom[p.entries[i].client] = denom[p.entries[j].client]
    /\ \A i \in DOMAIN p.entries :
          p.entries[i].asked /\ due[p.entries[i].client] # "none" =>
             /\ p.state = "signing"
             /\ due[p.entries[i].client] = "fresh"
             /\ p.entries[i].sig = "none"

\* The rest of PoolInv.
RestOK ==
    /\ mapZerosendBroadcastTxes \subseteq Seq(Signed)
    /\ announced \in BOOLEAN
    /\ {joined, invited, spent, charged} \subseteq SUBSET Client
    /\ owed \in [Client -> Sig]
    /\ PublishedIsMixed

LEMMA PoolInvSplit == PoolInv <=> SessionOK(pool, owed) /\ RestOK
BY DEF PoolInv, TypeOK, OneEntryPerInput, SigningWhatWasMerged, SessionInv, SessionOK, RestOK

LEMMA PoolInvSplitNext == PoolInv' <=> SessionOK(pool', owed') /\ RestOK'
BY DEF PoolInv, TypeOK, OneEntryPerInput, SigningWhatWasMerged, SessionInv, SessionOK, RestOK

-----------------------------------------------------------------------------
(* Sequences                                                               *)

\* A set of natural numbers that is not empty has a least element.
LEMMA LeastNumber ==
    ASSUME NEW S \in SUBSET Nat, S # {}
    PROVE  \E k \in S : \A m \in S : k <= m
<1> DEFINE R == OpToRel(<, Nat)
<1>1. IsWellFoundedOn(R, Nat)
  BY NatLessThanWellFounded
<1>2. \A m, n \in Nat : m < n => <<m, n>> \in R
  BY DEF OpToRel
<1> HIDE DEF R
<1>3. PICK x \in S : \A m \in S : <<m, x>> \notin R
  BY <1>1, WFMin
<1>4. \A m \in S : ~(m < x)
  BY <1>2, <1>3
<1>5. \A m \in S : x <= m
  BY <1>4
<1> QED
  BY <1>5

\* RemoveAt keeps the other elements, in order.
LEMMA RemoveAtProperties ==
    ASSUME NEW S, NEW s \in Seq(S), NEW i \in 1..Len(s)
    PROVE  /\ RemoveAt(s, i) \in Seq(S)
           /\ Len(RemoveAt(s, i)) = Len(s) - 1
           /\ \A j \in 1..Len(s) - 1 :
                 RemoveAt(s, i)[j] = IF j < i THEN s[j] ELSE s[j + 1]
<1> DEFINE a == SubSeq(s, 1, i - 1)
           b == SubSeq(s, i + 1, Len(s))
<1>1. Len(s) \in Nat /\ i \in Nat /\ 1 <= i /\ i <= Len(s)
  BY LenProperties
<1>2. /\ a \in Seq(S)
      /\ Len(a) = i - 1
      /\ \A j \in 1..i - 1 : a[j] = s[j]
  BY <1>1, SubSeqProperties
<1>3. /\ b \in Seq(S)
      /\ Len(b) = Len(s) - i
      /\ \A j \in 1..Len(s) - i : b[j] = s[i + j]
  BY <1>1, SubSeqProperties
<1>4. RemoveAt(s, i) = a \o b
  BY DEF RemoveAt
<1> HIDE DEF a, b
<1>5. a \o b \in Seq(S) /\ Len(a \o b) = Len(a) + Len(b)
  BY <1>2, <1>3, ConcatProperties
<1>6. a \o b \in Seq(S) /\ Len(a \o b) = Len(s) - 1
  BY <1>2, <1>3, <1>1, <1>5
<1>7. ASSUME NEW j \in 1..Len(s) - 1
      PROVE  (a \o b)[j] = IF j < i THEN s[j] ELSE s[j + 1]
  <2>1. (a \o b)[j] = IF j <= Len(a) THEN a[j] ELSE b[j - Len(a)]
    BY <1>2, <1>3, <1>1, ConcatProperties
  <2>2. CASE j < i
    BY <2>1, <2>2, <1>2, <1>1
  <2>3. CASE ~(j < i)
    <3>1. j - (i - 1) \in 1..Len(s) - i
      BY <2>3, <1>1
    <3>2. (a \o b)[j] = b[j - (i - 1)]
      BY <2>1, <2>3, <1>2, <1>1
    <3>3. i + (j - (i - 1)) = j + 1
      BY <1>1
    <3>4. b[j - (i - 1)] = s[i + (j - (i - 1))]
      BY <3>1, <1>3
    <3> QED
      BY <3>2, <3>3, <3>4, <2>3
  <2> QED
    BY <2>2, <2>3
<1> QED
  BY <1>6, <1>7, <1>4

\* A function on 1..n is a sequence.
LEMMA FunctionIsSeq ==
    ASSUME NEW T, NEW n \in Nat, NEW f \in [1..n -> T]
    PROVE  f \in Seq(T) /\ Len(f) = n /\ DOMAIN f = 1..n
<1>1. f \in Seq(T)
  BY SeqDef
<1> QED
  BY <1>1, LenProperties

-----------------------------------------------------------------------------
(* What the operations on a session keep                                   *)

LEMMA EmptyOK ==
    ASSUME NEW q \in Pool, NEW due, q.entries = <<>>, q.finalTransaction = <<>>,
           q.state \notin {"signing", "transmission"}
    PROVE  SessionOK(q, due)
BY PoolAssumption DEF SessionOK

LEMMA NullOK ==
    ASSUME NEW due
    PROVE  /\ SessionOK(SetNull, due)
           /\ SessionOK(UpdateState(SetNull, "accepting"), due)
<1> DEFINE q == UpdateState(SetNull, "accepting")
<1>1. 0 \in 0..GetMaxPoolTransactions /\ 0 \in 0..ZEROSEND_QUEUE_TIMEOUT
  BY PoolAssumption
<1>2. <<>> \in Seq(Entry) /\ <<>> \in Seq(Signed)
  OBVIOUS
<1>3. SetNull \in Pool
  BY <1>1, <1>2 DEF SetNull, Pool
<1>4. q \in Pool
  BY <1>1, <1>3 DEF UpdateState, Pool
<1>5. SetNull.entries = <<>> /\ SetNull.finalTransaction = <<>> /\ SetNull.state = "idle"
  BY DEF SetNull
<1>6. q.entries = <<>> /\ q.finalTransaction = <<>> /\ q.state = "accepting"
  BY <1>3, <1>5 DEF UpdateState, Pool
<1>7. SessionOK(SetNull, due)
  BY <1>3, <1>5, EmptyOK
<1>8. SessionOK(q, due)
  BY <1>4, <1>6, EmptyOK
<1> QED
  BY <1>7, <1>8

\* Fewer signatures are to come.
LEMMA ForgetOK ==
    ASSUME NEW p, NEW due \in [Client -> Sig], NEW c \in Client, SessionOK(p, due)
    PROVE  /\ SessionOK(p, [due EXCEPT ![c] = "none"])
           /\ [due EXCEPT ![c] = "none"] \in [Client -> Sig]
BY DEF SessionOK, Sig, Pool, Entry

LEMMA LeaveOK ==
    ASSUME NEW p, NEW due \in [Client -> Sig], SessionOK(p, due), IsSessionReady(p)
    PROVE  SessionOK([p EXCEPT !.sessionUsers = @ - 1], due)
<1>1. p.sessionUsers - 1 \in 0..GetMaxPoolTransactions
      /\ p.sessionUsers - 1 >= GetMaxPoolTransactions - 1
  BY PoolAssumption DEF SessionOK, IsSessionReady, Pool
<1> QED
  BY <1>1 DEF SessionOK, Pool

LEMMA JoinOK ==
    ASSUME NEW p, NEW due \in [Client -> Sig], NEW c \in Client, SessionOK(p, due),
           IsCompatibleWithSession(p, c)
    PROVE  SessionOK(JoinSession(p, c), due)
<1> DEFINE q == JoinSession(p, c)
<1>1. CASE p.sessionUsers = 0
  <2>1. p.entries = <<>> /\ p \in Pool
    BY <1>1, PoolAssumption DEF SessionOK
  <2>2. p.state \notin {"signing", "transmission"} /\ p.finalTransaction = <<>>
    BY <2>1, PoolAssumption DEF SessionOK
  <2>3. denom[c] \in Denom \cup {0} /\ 1 \in 0..GetMaxPoolTransactions
    BY PoolAssumption
  <2>4. q \in Pool
    <3>1. q = [state |-> "queue", entries |-> <<>>, finalTransaction |-> p.finalTransaction,
               sessionDenom |-> denom[c], sessionUsers |-> 1,
               vecSessionCollateral |-> p.vecSessionCollateral \cup {c}, quiet |-> 0]
      BY <1>1, <2>1 DEF JoinSession, UpdateState, Pool
    <3>2. <<>> \in Seq(Entry) /\ 0 \in 0..ZEROSEND_QUEUE_TIMEOUT
      BY PoolAssumption
    <3> QED
      BY <3>1, <3>2, <2>1, <2>3 DEF Pool
  <2>5. q.entries = <<>> /\ q.finalTransaction = <<>> /\ q.state = "queue"
    BY <1>1, <2>1, <2>2 DEF JoinSession, UpdateState, Pool
  <2> QED
    BY <2>4, <2>5, EmptyOK
<1>2. CASE p.sessionUsers # 0
  <2>1. p \in Pool /\ p.sessionUsers \in 0..GetMaxPoolTransactions
    BY DEF SessionOK, Pool
  <2>2. ~(p.sessionUsers >= GetMaxPoolTransactions)
    BY <1>2 DEF IsCompatibleWithSession, IsSessionReady
  <2>3. /\ p.sessionUsers \in Nat /\ p \in Pool
        /\ p.sessionUsers + 1 \in 0..GetMaxPoolTransactions
    BY <2>1, <2>2, PoolAssumption
  <2>4. q \in Pool
    <3>1. 0 \in 0..ZEROSEND_QUEUE_TIMEOUT
      BY PoolAssumption
    <3> QED
      BY <1>2, <2>3, <3>1 DEF JoinSession, Pool
  <2>5. /\ q.entries = p.entries /\ q.finalTransaction = p.finalTransaction
        /\ q.state = p.state /\ q.sessionUsers = p.sessionUsers + 1
    BY <1>2, <2>3 DEF JoinSession, Pool
  <2> HIDE DEF q
  <2>6. p.entries # <<>> => q.sessionUsers >= GetMaxPoolTransactions - 1
    BY <2>3, <2>5, PoolAssumption DEF SessionOK
  <2>7. SessionOK(q, due)
    BY <2>4, <2>5, <2>6 DEF SessionOK
  <2> QED
    BY <2>7 DEF q
<1> QED
  BY <1>1, <1>2

\* An entry is added to a session that is not full, so to one that is not being signed yet.
\* If there is an entry of c already, it is signed, and not every signature was asked for.
LEMMA AddEntryOK ==
    ASSUME NEW p, NEW due \in [Client -> Sig], NEW c \in Client, NEW asked \in BOOLEAN,
           SessionOK(p, due), IsSessionReady(p), IsCompatibleWithEntries(p, c),
           ~AddEntryFails(p, c)
    PROVE  SessionOK(AddEntry(p, c, asked),
                     [due EXCEPT ![c] = IF asked \/ @ = "none" THEN "none" ELSE "stale"])
<1> DEFINE q == AddEntry(p, c, asked)
           e == [client |-> c, sig |-> "none", age |-> 0, asked |-> asked]
           n == Len(p.entries)
           new == [due EXCEPT ![c] = IF asked \/ @ = "none" THEN "none" ELSE "stale"]
<1>1. p \in Pool /\ p.entries \in Seq(Entry) /\ n \in Nat /\ DOMAIN p.entries = 1..n
  BY DEF SessionOK, Pool
<1>2. n < GetMaxPoolTransactions
  BY <1>1, PoolAssumption DEF AddEntryFails
<1>3. p.state \notin {"signing", "transmission"}
  BY <1>1, <1>2, PoolAssumption DEF SessionOK
<1>4. \A i \in 1..n : /\ p.entries[i].asked => p.entries[i].sig = "none"
                      /\ p.entries[i].client = c =>
                            p.entries[i].sig # "none" /\ ~p.entries[i].asked
  BY <1>1, <1>3 DEF SessionOK, AddEntryFails, HasInput
<1>5. e \in Entry
  BY PoolAssumption DEF Entry, Sig
<1> HIDE DEF e
<1>6. /\ Append(p.entries, e) \in Seq(Entry) /\ Len(Append(p.entries, e)) = n + 1
      /\ \A i \in 1..n : Append(p.entries, e)[i] = p.entries[i]
      /\ Append(p.entries, e)[n + 1] = e
  BY <1>1, <1>5, AppendProperties
<1>7. /\ q.entries = Append(p.entries, e) /\ q.state = p.state
      /\ q.finalTransaction = p.finalTransaction /\ q.sessionUsers = p.sessionUsers
  BY <1>1 DEF AddEntry, e, Pool
<1>8. q \in Pool
  BY <1>1, <1>6 DEF AddEntry, e, Pool
<1> HIDE DEF q
<1>9. /\ q.entries \in Seq(Entry) /\ Len(q.entries) = n + 1 /\ DOMAIN q.entries = 1..n + 1
      /\ \A i \in 1..n : q.entries[i] = p.entries[i]
      /\ q.entries[n + 1].client = c /\ q.entries[n + 1].sig = "none"
      /\ q.entries[n + 1].asked = asked
  BY <1>6, <1>7, LenProperties DEF e
<1>10. \A i \in 1..n + 1 : i \in 1..n \/ i = n + 1
  BY <1>1
<1>11. /\ asked => new[c] = "none"
       /\ \A d \in Client : d # c => new[d] = due[d]
  OBVIOUS
<1>12. \A i \in 1..n : p.entries[i].client \in Client
  <2>1. \A i \in 1..n : p.entries[i] \in Entry
    BY <1>1
  <2> QED
    BY <2>1 DEF Entry
<1> HIDE DEF n, new
<1>13. \A i \in 1..n + 1 :
          /\ q.entries[i].asked => q.entries[i].sig = "none"
          /\ q.entries[i].asked => new[q.entries[i].client] = "none"
          /\ denom[q.entries[i].client] = denom[c]
  <2> SUFFICES ASSUME NEW i \in 1..n + 1
               PROVE  /\ q.entries[i].asked => q.entries[i].sig = "none"
                      /\ q.entries[i].asked => new[q.entries[i].client] = "none"
                      /\ denom[q.entries[i].client] = denom[c]
    OBVIOUS
  <2>1. CASE i \in 1..n
    <3>1. p.entries[i].asked => due[p.entries[i].client] = "none"
      BY <2>1, <1>1, <1>3 DEF SessionOK
    <3>2. denom[p.entries[i].client] = denom[c]
      BY <2>1, <1>1 DEF IsCompatibleWithEntries
    <3>3. p.entries[i].asked => p.entries[i].client # c
      BY <2>1, <1>4
    <3> QED
      BY <2>1, <3>1, <3>2, <3>3, <1>4, <1>9, <1>11, <1>12
  <2>2. CASE i = n + 1
    BY <2>2, <1>9, <1>11
  <2> QED
    BY <2>1, <2>2, <1>10
<1>14. \A i, j \in 1..n + 1 : i < j /\ q.entries[i].client = q.entries[j].client =>
          ~q.entries[i].asked /\ q.entries[i].sig # "none"
  <2> SUFFICES ASSUME NEW i \in 1..n + 1, NEW j \in 1..n + 1, i < j,
                      q.entries[i].client = q.entries[j].client
               PROVE  ~q.entries[i].asked /\ q.entries[i].sig # "none"
    OBVIOUS
  <2>1. i \in 1..n /\ q.entries[i] = p.entries[i]
    BY <1>1, <1>9
  <2>2. CASE j = n + 1
    BY <2>1, <2>2, <1>4, <1>9
  <2>3. CASE j \in 1..n
    <3>1. p.entries[i].client = p.entries[j].client
      BY <2>1, <2>3, <1>9
    <3>2. i \in DOMAIN p.entries /\ j \in DOMAIN p.entries
      BY <2>1, <2>3, <1>1
    <3> QED
      BY <2>1, <3>1, <3>2 DEF SessionOK
  <2> QED
    BY <2>2, <2>3, <1>10
<1>15. Len(q.entries) <= GetMaxPoolTransactions
  BY <1>1, <1>2, <1>9, PoolAssumption
<1>16. q.sessionUsers >= GetMaxPoolTransactions - 1
  <2>1. p.sessionUsers \in 0..GetMaxPoolTransactions
    BY <1>1 DEF Pool
  <2> QED
    BY <2>1, <1>7, PoolAssumption DEF IsSessionReady
<1>17. q.finalTransaction = <<>> /\ q.state \notin {"signing", "transmission"}
  BY <1>3, <1>7 DEF SessionOK
<1>18. SessionOK(q, new)
  BY <1>8, <1>9, <1>13, <1>14, <1>15, <1>16, <1>17 DEF SessionOK
<1> QED
  BY <1>18 DEF q, new

\* Merging the entries of a full session asks all of its clients to sign.
LEMMA FinalizeOK ==
    ASSUME NEW p, NEW due \in [Client -> Sig], SessionOK(p, due), Full(p)
    PROVE  /\ SessionOK(Finalize(p), RelayFinalTransaction(Finalize(p), due))
           /\ Finalize(p).state = "signing"
           /\ Finalize(p).vecSessionCollateral = p.vecSessionCollateral
<1> DEFINE q == Finalize(p)
           n == Len(p.entries)
           tx == [i \in DOMAIN p.entries |->
                    [client |-> p.entries[i].client, sig |-> p.entries[i].sig]]
<1>1. /\ p \in Pool /\ p.entries \in Seq(Entry) /\ n \in Nat /\ DOMAIN p.entries = 1..n
      /\ p.state = "accepting"
  BY DEF SessionOK, Pool, Full
<1>2. n = GetMaxPoolTransactions
  BY <1>1, PoolAssumption DEF SessionOK, Full
<1>3. \A i \in 1..n : /\ p.entries[i].client \in Client /\ p.entries[i].sig \in Sig
                      /\ p.entries[i].asked => p.entries[i].sig = "none"
  <2>1. \A i \in 1..n : p.entries[i] \in Entry
    BY <1>1
  <2>2. \A i \in 1..n : p.entries[i].asked => p.entries[i].sig = "none"
    BY <1>1 DEF SessionOK
  <2> QED
    BY <2>1, <2>2 DEF Entry
<1>4. tx \in [1..n -> Signed]
  BY <1>1, <1>3 DEF Signed
<1>5. tx \in Seq(Signed) /\ Len(tx) = n /\ DOMAIN tx = 1..n
  BY <1>1, <1>4, FunctionIsSeq
<1>6. \A i \in 1..n : tx[i].client = p.entries[i].client /\ tx[i].sig = p.entries[i].sig
  BY <1>1
<1> HIDE DEF tx
<1>7. q = [UpdateState(p, "signing") EXCEPT !.finalTransaction = tx]
  BY DEF Finalize, tx
<1>8. 0 \in 0..ZEROSEND_QUEUE_TIMEOUT
  BY PoolAssumption
<1>9. q \in Pool
  BY <1>1, <1>5, <1>7, <1>8 DEF UpdateState, Pool
<1>10. /\ q.entries = p.entries /\ q.state = "signing" /\ q.finalTransaction = tx
       /\ q.sessionUsers = p.sessionUsers
       /\ q.vecSessionCollateral = p.vecSessionCollateral
  BY <1>1, <1>7 DEF UpdateState, Pool
<1> HIDE DEF q
<1> DEFINE new == RelayFinalTransaction(q, due)
<1>11. \A i \in 1..n : new[p.entries[i].client] = "fresh"
  <2> SUFFICES ASSUME NEW i \in 1..n PROVE new[p.entries[i].client] = "fresh"
    OBVIOUS
  <2>1. /\ i \in DOMAIN q.finalTransaction
        /\ q.finalTransaction[i].client = p.entries[i].client
    BY <1>5, <1>6, <1>10
  <2> QED
    BY <2>1, <1>3 DEF RelayFinalTransaction
<1> HIDE DEF new, n
<1>12. SessionOK(q, new)
  <2>1. /\ \A i, j \in DOMAIN q.entries : i < j /\ q.entries[i].client = q.entries[j].client =>
              ~q.entries[i].asked /\ q.entries[i].sig # "none"
        /\ \A i, j \in DOMAIN q.entries : denom[q.entries[i].client] = denom[q.entries[j].client]
        /\ q.entries # <<>> => q.sessionUsers >= GetMaxPoolTransactions - 1
    BY <1>10 DEF SessionOK
  <2>2. /\ Len(q.finalTransaction) = Len(q.entries)
        /\ Len(q.entries) = GetMaxPoolTransactions
    BY <1>2, <1>5, <1>10 DEF n
  <2>3. \A i \in DOMAIN q.entries :
            /\ q.finalTransaction[i].client = q.entries[i].client
            /\ q.finalTransaction[i].sig = q.entries[i].sig
            /\ q.entries[i].asked => q.entries[i].sig = "none"
            /\ new[q.entries[i].client] = "fresh"
    BY <1>1, <1>3, <1>6, <1>10, <1>11
  <2> QED
    BY <2>1, <2>2, <2>3, <1>9, <1>10, PoolAssumption DEF SessionOK
<1> QED
  BY <1>10, <1>12 DEF q, new

\* What "sss" leaves: the merged transaction with the signature, and entry k, if it is one
\* that takes it; an answer that was asked for changes nobody's history.
Heard(p, c, sig, asked, k) ==
    [p EXCEPT
        !.finalTransaction =
            [i \in DOMAIN p.finalTransaction |->
                IF p.finalTransaction[i].client = c
                THEN [p.finalTransaction[i] EXCEPT !.sig = sig]
                ELSE p.finalTransaction[i]],
        !.entries =
            [i \in DOMAIN p.entries |->
                [p.entries[i] EXCEPT
                    !.sig = IF i = k THEN sig ELSE @,
                    !.asked = @ /\ (asked \/ p.entries[i].client # c)]]]

\* Whoever signs, for an entry whose messages were asked for the entry and the merged
\* transaction change together: the entry that c is asked to sign is the only one of c that
\* is not signed.
LEMMA SignOK ==
    ASSUME NEW p, NEW due \in [Client -> Sig], NEW c \in Client, SessionOK(p, due),
           NEW sig \in {"fresh", "stale"}, NEW asked \in BOOLEAN, asked => sig = due[c],
           NEW k \in Nat,
           k \in DOMAIN p.entries => p.entries[k].client = c,
           k \in DOMAIN p.entries \/ k = 0,
           \/ k \in DOMAIN p.entries /\ TakesSig(p, c, k)
           \/ k = 0 /\ \A i \in DOMAIN p.entries : ~TakesSig(p, c, i)
    PROVE  SessionOK(Heard(p, c, sig, asked, k), IF asked THEN [due EXCEPT ![c] = "none"] ELSE due)
<1> DEFINE q == Heard(p, c, sig, asked, k)
           n == Len(p.entries)
           m == Len(p.finalTransaction)
           tx == [i \in DOMAIN p.finalTransaction |->
                    IF p.finalTransaction[i].client = c
                    THEN [p.finalTransaction[i] EXCEPT !.sig = sig]
                    ELSE p.finalTransaction[i]]
           es == [i \in DOMAIN p.entries |->
                    [p.entries[i] EXCEPT
                        !.sig = IF i = k THEN sig ELSE @,
                        !.asked = @ /\ (asked \/ p.entries[i].client # c)]]
           less == IF asked THEN [due EXCEPT ![c] = "none"] ELSE due
<1>1. /\ p \in Pool /\ p.entries \in Seq(Entry) /\ n \in Nat /\ DOMAIN p.entries = 1..n
      /\ p.finalTransaction \in Seq(Signed) /\ p.entries \in [1..n -> Entry]
      /\ m \in Nat /\ DOMAIN p.finalTransaction = 1..m
      /\ p.finalTransaction \in [1..m -> Signed]
  BY DEF SessionOK, Pool
<1>2. \A i \in 1..n : p.entries[i] \in Entry
  BY <1>1
<1>3. \A i \in 1..n : /\ es[i] \in Entry
                      /\ es[i].client = p.entries[i].client
                      /\ es[i].sig = IF i = k THEN sig ELSE p.entries[i].sig
                      /\ es[i].asked =
                            (p.entries[i].asked /\ (asked \/ p.entries[i].client # c))
  <2> SUFFICES ASSUME NEW i \in 1..n
               PROVE  /\ es[i] \in Entry
                      /\ es[i].client = p.entries[i].client
                      /\ es[i].sig = IF i = k THEN sig ELSE p.entries[i].sig
                      /\ es[i].asked =
                            (p.entries[i].asked /\ (asked \/ p.entries[i].client # c))
    OBVIOUS
  <2> DEFINE b == p.entries[i].asked /\ (asked \/ p.entries[i].client # c)
             s == IF i = k THEN sig ELSE p.entries[i].sig
  <2>1. b \in BOOLEAN /\ s \in Sig
    BY <1>2 DEF Entry, Sig
  <2> HIDE DEF b, s
  <2>2. es[i] = [p.entries[i] EXCEPT !.sig = s, !.asked = b]
    BY <1>1, <1>2 DEF b, s, Entry
  <2>3. /\ es[i] \in Entry /\ es[i].client = p.entries[i].client
        /\ es[i].sig = s /\ es[i].asked = b
    <3> HIDE DEF es
    <3> QED
      BY <1>2, <2>1, <2>2 DEF Entry
  <2> QED
    BY <2>3 DEF b, s
<1>4. tx \in [1..m -> Signed]
  BY <1>1 DEF Signed, Sig
<1>5. /\ es \in Seq(Entry) /\ Len(es) = n /\ DOMAIN es = 1..n
      /\ tx \in Seq(Signed) /\ Len(tx) = m /\ DOMAIN tx = 1..m
  <2>1. es \in [1..n -> Entry]
    BY <1>1, <1>3
  <2> HIDE DEF es, tx, n, m
  <2> QED
    BY <1>1, <1>4, <2>1, FunctionIsSeq
<1>6. \A i \in 1..m :
         /\ tx[i].client = p.finalTransaction[i].client
         /\ tx[i].sig = IF p.finalTransaction[i].client = c THEN sig
                        ELSE p.finalTransaction[i].sig
  BY <1>1 DEF Signed
<1>7. q = [p EXCEPT !.finalTransaction = tx, !.entries = es]
  BY DEF Heard
<1> HIDE DEF es, tx
<1>8. q \in Pool
  BY <1>1, <1>5, <1>7 DEF Pool
<1>9. /\ q.entries = es /\ q.finalTransaction = tx /\ q.state = p.state
      /\ q.sessionUsers = p.sessionUsers
  BY <1>1, <1>7 DEF Pool
<1> HIDE DEF q
<1>10. ASSUME NEW i \in 1..n, asked, p.entries[i].asked, p.entries[i].client = c
       PROVE  i = k /\ p.state = "signing" /\ sig = "fresh"
  <2>1. p.state = "signing" /\ sig = "fresh" /\ p.entries[i].sig = "none"
    BY <1>1, <1>10 DEF SessionOK
  <2>2. \A j \in 1..n : j < i /\ p.entries[j].client = c => p.entries[j].sig # "none"
    BY <1>1, <1>10 DEF SessionOK
  <2>3. \A j \in 1..n : i < j => p.entries[j].client # c
    BY <1>1, <1>10 DEF SessionOK
  <2>4. \A j \in 1..i - 1 : j \in 1..n /\ j < i
    BY <1>1
  <2>5. TakesSig(p, c, i)
    BY <1>10, <2>1, <2>2, <2>4 DEF TakesSig
  <2>6. k \in 1..n /\ TakesSig(p, c, k)
    BY <1>1, <2>5
  <2>7. p.entries[k].client = c /\ p.entries[k].sig = "none"
    BY <2>6 DEF TakesSig
  <2>8. ~(k < i) /\ ~(i < k)
    BY <2>2, <2>3, <2>6, <2>7
  <2> QED
    BY <2>1, <2>6, <2>8, <1>1
<1>11. k \in 1..n => p.entries[k].client = c
  BY <1>1
<1>12. \A i \in 1..n : p.entries[i].client \in Client
  BY <1>2 DEF Entry
<1>13. /\ asked => less[c] = "none"
       /\ \A d \in Client : d # c => less[d] = due[d]
  OBVIOUS
<1>14. p.state = "signing" =>
          /\ m = n
          /\ \A i \in 1..n :
                /\ p.finalTransaction[i].client = p.entries[i].client
                /\ p.entries[i].asked =>
                      p.finalTransaction[i].sig = p.entries[i].sig /\ p.entries[i].sig # "stale"
  BY <1>1 DEF SessionOK
<1>15. p.state \notin {"signing", "transmission"} => tx = <<>>
  <2> SUFFICES ASSUME p.state \notin {"signing", "transmission"} PROVE tx = <<>>
    OBVIOUS
  <2>1. p.finalTransaction = <<>>
    BY DEF SessionOK
  <2>2. m = 0
    BY <2>1, <1>1
  <2> HIDE DEF m
  <2> QED
    BY <1>5, <2>2, EmptySeq
<1>16. /\ \A i \in 1..n : p.entries[i].asked /\ due[p.entries[i].client] # "none" =>
             /\ p.state = "signing" /\ due[p.entries[i].client] = "fresh"
             /\ p.entries[i].sig = "none"
       /\ p.state \notin {"signing", "transmission"} =>
             \A i \in 1..n : p.entries[i].asked => p.entries[i].sig = "none"
       /\ \A i, j \in 1..n : i < j /\ p.entries[i].client = p.entries[j].client =>
             ~p.entries[i].asked /\ p.entries[i].sig # "none"
       /\ \A i, j \in 1..n : denom[p.entries[i].client] = denom[p.entries[j].client]
       /\ n <= GetMaxPoolTransactions
       /\ p.state \in {"signing", "transmission"} => n = GetMaxPoolTransactions
  BY <1>1 DEF SessionOK
<1>17. es # <<>> => p.sessionUsers >= GetMaxPoolTransactions - 1
  <2>1. es # <<>> => p.entries # <<>>
    <3>1. p.entries = <<>> => n = 0
      BY <1>1
    <3> HIDE DEF n
    <3> QED
      BY <3>1, <1>5, EmptySeq
  <2> QED
    BY <2>1 DEF SessionOK
<1> HIDE DEF less, n, m
<1>18. \A i, j \in 1..n : i < j /\ es[i].client = es[j].client =>
          ~es[i].asked /\ es[i].sig # "none"
  BY <1>3, <1>16
<1>19. p.state = "signing" =>
          \A i \in 1..n : /\ tx[i].client = es[i].client
                          /\ es[i].asked => tx[i].sig = es[i].sig /\ es[i].sig # "stale"
  <2> SUFFICES ASSUME p.state = "signing", NEW i \in 1..n
               PROVE  /\ tx[i].client = es[i].client
                      /\ es[i].asked => tx[i].sig = es[i].sig /\ es[i].sig # "stale"
    OBVIOUS
  <2>1. i \in 1..m /\ tx[i].client = p.entries[i].client /\ es[i].client = p.entries[i].client
    BY <1>3, <1>6, <1>14
  <2>2. es[i].asked => p.entries[i].asked
    BY <1>3
  <2>3. CASE p.entries[i].client = c /\ es[i].asked
    <3>1. asked
      BY <2>3, <1>3
    <3>2. i = k /\ sig = "fresh"
      BY <2>2, <2>3, <3>1, <1>10
    <3>3. es[i].sig = sig /\ tx[i].sig = sig
      BY <2>1, <2>3, <3>2, <1>3, <1>6
    <3> QED
      BY <2>1, <3>2, <3>3
  <2>4. CASE p.entries[i].client # c
    <3>1. i # k
      BY <2>4, <1>11
    <3>2. es[i].sig = p.entries[i].sig
      BY <3>1, <1>3
    <3>3. tx[i].sig = p.finalTransaction[i].sig
      BY <2>1, <2>4, <1>6
    <3>4. p.entries[i].asked =>
             p.finalTransaction[i].sig = p.entries[i].sig /\ p.entries[i].sig # "stale"
      BY <1>14
    <3> QED
      BY <2>1, <2>2, <3>2, <3>3, <3>4
  <2>5. CASE ~es[i].asked
    BY <2>1, <2>5
  <2> QED
    BY <2>3, <2>4, <2>5
<1>20. p.state \notin {"signing", "transmission"} =>
          \A i \in 1..n : es[i].asked => es[i].sig = "none"
  BY <1>3, <1>10, <1>11, <1>16
<1>21. \A i \in 1..n : es[i].asked /\ less[es[i].client] # "none" =>
          p.state = "signing" /\ less[es[i].client] = "fresh" /\ es[i].sig = "none"
  <2> SUFFICES ASSUME NEW i \in 1..n, es[i].asked, less[es[i].client] # "none"
               PROVE  p.state = "signing" /\ less[es[i].client] = "fresh" /\ es[i].sig = "none"
    OBVIOUS
  <2>1. p.entries[i].asked /\ es[i].client = p.entries[i].client
    BY <1>3
  <2>2. p.entries[i].client # c
    BY <2>1, <1>3, <1>13
  <2>3. i # k /\ es[i].sig = p.entries[i].sig
    BY <2>2, <1>3, <1>11
  <2>4. less[es[i].client] = due[p.entries[i].client]
    BY <2>1, <2>2, <1>12, <1>13
  <2> QED
    BY <2>1, <2>3, <2>4, <1>16
<1>22. \A i, j \in 1..n : denom[es[i].client] = denom[es[j].client]
  BY <1>3, <1>16
<1>23. SessionOK(q, less)
  BY <1>5, <1>8, <1>9, <1>14, <1>15, <1>16, <1>17, <1>18, <1>19, <1>20, <1>21, <1>22
     DEF SessionOK
<1> QED
  BY <1>23 DEF q, less

\* The entries whose clock has run out go one by one, while the session is filled.
LEMMA ExpireOK ==
    ASSUME NEW p, NEW due \in [Client -> Sig], SessionOK(p, due),
           p.state \in {"accepting", "queue"}
    PROVE  SessionOK(Expire(p), due)
<1> DEFINE n == Len(p.entries)
           old == {i \in DOMAIN p.entries : IsExpired(p.entries[i])}
           k == CHOOSE x \in old : \A j \in old : x <= j
           q == [p EXCEPT !.entries = RemoveAt(@, k)]
<1>1. p \in Pool /\ p.entries \in Seq(Entry) /\ n \in Nat /\ DOMAIN p.entries = 1..n
  BY DEF SessionOK, Pool
<1>2. CASE old = {}
  BY <1>2 DEF Expire
<1>3. CASE old # {}
  <2>1. k \in 1..n
    <3>1. old \in SUBSET Nat
      BY <1>1
    <3> HIDE DEF old
    <3>2. \E x \in old : \A j \in old : x <= j
      BY <1>3, <3>1, LeastNumber
    <3>3. k \in old
      BY <3>2
    <3> QED
      BY <3>3, <1>1 DEF old
  <2> HIDE DEF k
  <2> DEFINE es == RemoveAt(p.entries, k)
  <2>2. /\ es \in Seq(Entry) /\ Len(es) = n - 1
        /\ \A j \in 1..n - 1 : es[j] = IF j < k THEN p.entries[j] ELSE p.entries[j + 1]
    BY <1>1, <2>1, RemoveAtProperties
  <2>3. n - 1 \in Nat /\ DOMAIN es = 1..n - 1
    BY <1>1, <2>1, <2>2, LenProperties
  <2> HIDE DEF es
  <2>4. q = [p EXCEPT !.entries = es]
    BY DEF es
  <2>5. q \in Pool
    BY <1>1, <2>2, <2>4 DEF Pool
  <2>6. /\ q.entries = es /\ q.finalTransaction = p.finalTransaction /\ q.state = p.state
        /\ q.sessionUsers = p.sessionUsers
    BY <1>1, <2>4 DEF Pool
  <2> DEFINE at == [j \in 1..n - 1 |-> IF j < k THEN j ELSE j + 1]
  <2>7. /\ \A j \in 1..n - 1 : at[j] \in 1..n
        /\ \A i, j \in 1..n - 1 : i < j => at[i] < at[j]
    BY <1>1, <2>1
  <2>8. \A j \in 1..n - 1 : es[j] = p.entries[at[j]]
    BY <2>2
  <2> HIDE DEF at, n
  <2>9. /\ \A i, j \in DOMAIN es : i < j /\ es[i].client = es[j].client =>
              ~es[i].asked /\ es[i].sig # "none"
        /\ \A i, j \in DOMAIN es : denom[es[i].client] = denom[es[j].client]
        /\ \A i \in DOMAIN es : es[i].asked => es[i].sig = "none" /\ due[es[i].client] = "none"
    <3> DEFINE D == DOMAIN p.entries
               E == 1..n - 1
    <3>1. /\ \A i, j \in D : i < j /\ p.entries[i].client = p.entries[j].client =>
                ~p.entries[i].asked /\ p.entries[i].sig # "none"
          /\ \A i, j \in D : denom[p.entries[i].client] = denom[p.entries[j].client]
          /\ \A i \in D : p.entries[i].asked =>
                p.entries[i].sig = "none" /\ due[p.entries[i].client] = "none"
      BY DEF SessionOK
    <3>2. /\ DOMAIN es = E /\ \A j \in E : at[j] \in D /\ es[j] = p.entries[at[j]]
          /\ \A i, j \in E : i < j => at[i] < at[j]
      BY <1>1, <2>3, <2>7, <2>8
    <3> HIDE DEF D, E
    <3>3. \A i, j \in E : i < j /\ es[i].client = es[j].client =>
             ~es[i].asked /\ es[i].sig # "none"
      BY <3>1, <3>2
    <3>4. \A i, j \in E : denom[es[i].client] = denom[es[j].client]
      BY <3>1, <3>2
    <3>5. \A i \in E : es[i].asked => es[i].sig = "none" /\ due[es[i].client] = "none"
      BY <3>1, <3>2
    <3> QED
      BY <3>2, <3>3, <3>4, <3>5
  <2>10. p.entries # <<>>
    BY <1>1, <2>1
  <2>11. Len(es) <= GetMaxPoolTransactions /\ p.sessionUsers >= GetMaxPoolTransactions - 1
    BY <1>1, <2>2, <2>10, PoolAssumption DEF SessionOK, n
  <2>12. p.finalTransaction = <<>>
    BY DEF SessionOK
  <2> HIDE DEF q
  <2>13. SessionOK(q, due)
    BY <2>5, <2>6, <2>9, <2>11, <2>12 DEF SessionOK
  <2>14. Expire(p) = SetNull \/ Expire(p) = q
    BY <1>3 DEF Expire, q, k
  <2> QED
    BY <2>13, <2>14, NullOK
<1> QED
  BY <1>2, <1>3

\* Time passes.
LEMMA TickOK ==
    ASSUME NEW p, NEW due \in [Client -> Sig], SessionOK(p, due)
    PROVE  SessionOK(Aged(p), due)
<1> DEFINE n == Len(p.entries)
           q == Aged(p)
           m == Older(p.quiet, ZEROSEND_QUEUE_TIMEOUT)
           old(i) == Older(p.entries[i].age, ZEROSEND_QUEUE_TIMEOUT + 1)
           es == [i \in DOMAIN p.entries |-> [p.entries[i] EXCEPT !.age = old(i)]]
<1>1. /\ p \in Pool /\ p.entries \in Seq(Entry) /\ n \in Nat /\ DOMAIN p.entries = 1..n
      /\ p.entries \in [1..n -> Entry]
  BY DEF SessionOK, Pool
<1>2. m \in 0..ZEROSEND_QUEUE_TIMEOUT
  <2>1. p.quiet \in 0..ZEROSEND_QUEUE_TIMEOUT
    BY <1>1 DEF Pool
  <2> QED
    BY <2>1, PoolAssumption DEF Older
<1>3. \A i \in 1..n : old(i) \in 0..ZEROSEND_QUEUE_TIMEOUT + 1
  <2>1. \A i \in 1..n : p.entries[i].age \in 0..ZEROSEND_QUEUE_TIMEOUT + 1
    BY <1>1 DEF Entry
  <2> QED
    BY <2>1, PoolAssumption DEF Older
<1> HIDE DEF m, old
<1>4. es \in [1..n -> Entry]
  BY <1>1, <1>3 DEF Entry
<1>5. es \in Seq(Entry) /\ Len(es) = n /\ DOMAIN es = 1..n
  <2> HIDE DEF es, n
  <2> QED
    BY <1>1, <1>4, FunctionIsSeq
<1>6. \A i \in DOMAIN p.entries : /\ es[i].client = p.entries[i].client
                                  /\ es[i].sig = p.entries[i].sig
                                  /\ es[i].asked = p.entries[i].asked
  BY <1>1 DEF Entry
<1>7. DOMAIN es = DOMAIN p.entries /\ (es # <<>> => p.entries # <<>>)
  OBVIOUS
<1> HIDE DEF es
<1>8. q = [p EXCEPT !.quiet = m, !.entries = es]
  BY DEF es, Aged, m, old
<1>9. q \in Pool
  BY <1>1, <1>5, <1>8, <1>2 DEF Pool
<1>10. /\ q.entries = es /\ q.finalTransaction = p.finalTransaction /\ q.state = p.state
       /\ q.sessionUsers = p.sessionUsers
  BY <1>1, <1>8 DEF Pool
<1> HIDE DEF q
<1>11. /\ Len(q.entries) = Len(p.entries) /\ DOMAIN q.entries = DOMAIN p.entries
       /\ q.entries # <<>> => p.entries # <<>>
       /\ \A i \in DOMAIN p.entries : /\ q.entries[i].client = p.entries[i].client
                                      /\ q.entries[i].sig = p.entries[i].sig
                                      /\ q.entries[i].asked = p.entries[i].asked
  BY <1>5, <1>6, <1>7, <1>10
<1> HIDE DEF n
<1>12. /\ \A i, j \in DOMAIN q.entries : i < j /\ q.entries[i].client = q.entries[j].client =>
             ~q.entries[i].asked /\ q.entries[i].sig # "none"
       /\ \A i, j \in DOMAIN q.entries :
             denom[q.entries[i].client] = denom[q.entries[j].client]
  BY <1>11 DEF SessionOK
<1>13. /\ \A i \in DOMAIN q.entries : q.entries[i].asked /\ due[q.entries[i].client] # "none" =>
             q.state = "signing" /\ due[q.entries[i].client] = "fresh"
                                 /\ q.entries[i].sig = "none"
       /\ q.state = "signing" =>
             /\ Len(q.finalTransaction) = Len(q.entries)
             /\ \A i \in DOMAIN q.entries :
                   /\ q.finalTransaction[i].client = q.entries[i].client
                   /\ q.entries[i].asked =>
                         /\ q.finalTransaction[i].sig = q.entries[i].sig
                         /\ q.entries[i].sig # "stale"
  BY <1>10, <1>11 DEF SessionOK
<1>14. /\ Len(q.entries) <= GetMaxPoolTransactions
       /\ q.state \in {"signing", "transmission"} => Len(q.entries) = GetMaxPoolTransactions
       /\ q.state \notin {"signing", "transmission"} =>
             /\ q.finalTransaction = <<>>
             /\ \A i \in DOMAIN q.entries : q.entries[i].asked => q.entries[i].sig = "none"
       /\ q.entries # <<>> => q.sessionUsers >= GetMaxPoolTransactions - 1
  BY <1>10, <1>11 DEF SessionOK
<1>15. SessionOK(q, due)
  BY <1>9, <1>12, <1>13, <1>14 DEF SessionOK
<1> QED
  BY <1>15 DEF q

-----------------------------------------------------------------------------
(* Check                                                                   *)

\* A transaction of the pool, signed by all, that CheckFinalTransaction may publish.
Mixed(tx) ==
    /\ tx \in Seq(Signed)
    /\ Len(tx) = GetMaxPoolTransactions
    /\ \A i, j \in DOMAIN tx : i # j =>
          tx[i].client # tx[j].client /\ denom[tx[i].client] = denom[tx[j].client]

\* What Check makes of a session that is being signed.
SigningEnds(p) ==
    IF SignaturesComplete(p) THEN CheckFinalTransaction(p)
    ELSE {[pool |-> p, spends |-> {}, publishes |-> {}, charges |-> {}]}

LEMMA CheckSigningOK ==
    ASSUME NEW p, NEW due \in [Client -> Sig], SessionOK(p, due), p.state = "signing",
           NEW r \in SigningEnds(p)
    PROVE  /\ SessionOK(r.pool, due)
           /\ \A tx \in r.publishes : Mixed(tx)
           /\ r.spends \subseteq Client /\ r.charges \subseteq Client
<1> DEFINE tx == p.finalTransaction
           n == Len(p.entries)
<1>1. /\ p \in Pool /\ p.entries \in Seq(Entry) /\ n \in Nat /\ DOMAIN p.entries = 1..n
      /\ tx \in Seq(Signed) /\ p.vecSessionCollateral \subseteq Client
  BY DEF SessionOK, Pool
<1>2. Len(tx) = n /\ n = GetMaxPoolTransactions /\ DOMAIN tx = 1..n
  BY <1>1 DEF SessionOK
<1>3. Clients(tx) \subseteq Client
  <2>1. \A i \in DOMAIN tx : tx[i] \in Signed
    BY <1>1
  <2>2. \A i \in DOMAIN tx : tx[i].client \in Client
    BY <2>1 DEF Signed
  <2> QED
    BY <2>2 DEF Clients
<1>4. ASSUME Acceptable(tx) PROVE Mixed(tx)
  <2>1. \A i \in DOMAIN tx : i \in DOMAIN p.entries /\ tx[i].client = p.entries[i].client
    BY <1>1, <1>2 DEF SessionOK
  <2>2. \A i, j \in DOMAIN p.entries :
           denom[p.entries[i].client] = denom[p.entries[j].client]
    BY DEF SessionOK
  <2>3. \A i, j \in DOMAIN tx : tx[i].client = tx[j].client => i = j
    BY <1>4 DEF Acceptable
  <2> HIDE DEF tx
  <2> QED
    BY <1>1, <1>2, <2>1, <2>2, <2>3 DEF Mixed
<1>5. CASE ~SignaturesComplete(p)
  BY <1>5 DEF SigningEnds
<1>6. CASE SignaturesComplete(p)
  <2>1. r \in CheckFinalTransaction(p)
    BY <1>6 DEF SigningEnds
  <2> DEFINE t == UpdateState(p, "transmission")
  <2>2. SessionOK(t, due)
    <3>1. 0 \in 0..ZEROSEND_QUEUE_TIMEOUT
      BY PoolAssumption
    <3>2. t \in Pool
      BY <1>1, <3>1 DEF UpdateState, Pool
    <3>3. /\ t.entries = p.entries /\ t.state = "transmission"
          /\ t.finalTransaction = p.finalTransaction /\ t.sessionUsers = p.sessionUsers
      BY <1>1 DEF UpdateState, Pool
    <3>4. \A i \in DOMAIN p.entries :
             p.entries[i].asked => due[p.entries[i].client] = "none"
      BY <1>6 DEF SessionOK, SignaturesComplete
    <3> HIDE DEF t
    <3> QED
      BY <3>2, <3>3, <3>4 DEF SessionOK
  <2>3. \/ /\ r.pool = UpdateState(SetNull, "accepting")
           /\ r.spends = {} /\ r.publishes = {} /\ r.charges = {}
        \/ /\ r.pool = t
           /\ r.spends = Clients(tx) /\ r.publishes = {} /\ r.charges = {}
        \/ /\ r.pool = SetNull /\ Acceptable(tx)
           /\ r.spends = Clients(tx) /\ r.publishes = {tx}
           /\ r.charges \subseteq p.vecSessionCollateral
    BY <2>1 DEF CheckFinalTransaction
  <2> HIDE DEF t, tx
  <2> QED
    BY <2>2, <2>3, <1>1, <1>3, <1>4, NullOK
<1> QED
  BY <1>5, <1>6

\* Check of any session.
LEMMA CheckOK ==
    ASSUME NEW p, NEW due \in [Client -> Sig], SessionOK(p, due), NEW r \in Check(p)
    PROVE  /\ SessionOK(r.pool, IF Full(p) THEN RelayFinalTransaction(Finalize(p), due)
                                ELSE due)
           /\ \A tx \in r.publishes : Mixed(tx)
           /\ r.spends \subseteq Client /\ r.charges \subseteq Client
<1>1. CASE Full(p)
  <2> DEFINE q == Finalize(p)
             new == RelayFinalTransaction(q, due)
  <2>1. SessionOK(q, new) /\ q.state = "signing"
    BY <1>1, FinalizeOK
  <2>2. new \in [Client -> Sig]
    BY DEF RelayFinalTransaction, Sig
  <2>3. r \in SigningEnds(q)
    BY <2>1 DEF Check, SigningEnds
  <2> HIDE DEF q, new
  <2>4. /\ SessionOK(r.pool, new)
        /\ \A tx \in r.publishes : Mixed(tx)
        /\ r.spends \subseteq Client /\ r.charges \subseteq Client
    BY <2>1, <2>2, <2>3, CheckSigningOK
  <2> QED
    BY <1>1, <2>4 DEF q, new
<1>2. CASE ~Full(p)
  <2>1. Finalize(p) = p
    BY <1>2 DEF Finalize
  <2>2. CASE p.state = "signing"
    <3>1. r \in SigningEnds(p)
      BY <2>1, <2>2 DEF Check, SigningEnds
    <3> QED
      BY <1>2, <2>2, <3>1, CheckSigningOK
  <2>3. CASE p.state # "signing"
    <3>1. r = [pool |-> p, spends |-> {}, publishes |-> {}, charges |-> {}]
      BY <2>1, <2>3 DEF Check
    <3> QED
      BY <1>2, <3>1
  <2> QED
    BY <2>2, <2>3
<1> QED
  BY <1>1, <1>2

-----------------------------------------------------------------------------
(* The invariant                                                           *)

\* Published transactions stay mixed when mixed ones are added.
LEMMA PublishOK ==
    ASSUME RestOK, NEW new, \A tx \in new : Mixed(tx),
           mapZerosendBroadcastTxes' = mapZerosendBroadcastTxes \cup new
    PROVE  mapZerosendBroadcastTxes' \subseteq Seq(Signed) /\ PublishedIsMixed'
BY DEF RestOK, PublishedIsMixed, Mixed

LEMMA InitOK == Init => PoolInv
<1> SUFFICES ASSUME Init PROVE PoolInv
  OBVIOUS
<1>1. SessionOK(pool, owed)
  BY NullOK DEF Init
<1>2. RestOK
  BY DEF Init, RestOK, PublishedIsMixed, Sig
<1> QED
  BY <1>1, <1>2, PoolInvSplit

LEMMA AcceptOK ==
    ASSUME PoolInv, NEW c \in Client, AcceptTooRecent(c) \/ Accept(c)
    PROVE  PoolInv'
<1>1. SessionOK(pool, owed) /\ RestOK /\ owed \in [Client -> Sig]
  BY PoolInvSplit DEF RestOK
<1>2. /\ owed' = [owed EXCEPT ![c] = "none"] /\ invited' = invited \ {c}
      /\ mapZerosendBroadcastTxes' = mapZerosendBroadcastTxes
      /\ spent' = spent /\ charged' = charged
  BY DEF Accept, AcceptTooRecent, Forget
<1>3. pool' = pool \/ (IsCompatibleWithSession(pool, c) /\ pool' = JoinSession(pool, c))
  BY DEF Accept, AcceptTooRecent
<1>4. SessionOK(pool', owed)
  BY <1>1, <1>3, JoinOK
<1>5. SessionOK(pool', owed') /\ owed' \in [Client -> Sig]
  BY <1>1, <1>2, <1>4, ForgetOK
<1>6. /\ joined' \in SUBSET Client /\ announced' \in BOOLEAN
  BY <1>1 DEF Accept, AcceptTooRecent, RestOK
<1>7. RestOK'
  BY <1>1, <1>2, <1>5, <1>6 DEF RestOK, PublishedIsMixed
<1> QED
  BY <1>5, <1>7, PoolInvSplitNext

\* A step that runs Check on a session that is in order.
LEMMA CheckedOK ==
    ASSUME PoolInv, NEW p, NEW due \in [Client -> Sig], SessionOK(p, due), Checked(p, due),
           joined' = joined, announced' = announced, invited' \subseteq Client
    PROVE  PoolInv'
<1>1. RestOK
  BY PoolInvSplit
<1>2. PICK r \in Check(p) :
         /\ pool' = r.pool
         /\ spent' = spent \cup r.spends
         /\ charged' = charged \cup r.charges
         /\ mapZerosendBroadcastTxes' = mapZerosendBroadcastTxes \cup r.publishes
         /\ owed' = IF Full(p) THEN RelayFinalTransaction(Finalize(p), due) ELSE due
  BY DEF Checked
<1>3. /\ SessionOK(r.pool, IF Full(p) THEN RelayFinalTransaction(Finalize(p), due) ELSE due)
      /\ \A tx \in r.publishes : Mixed(tx)
      /\ r.spends \subseteq Client /\ r.charges \subseteq Client
  BY CheckOK
<1>4. mapZerosendBroadcastTxes' \subseteq Seq(Signed) /\ PublishedIsMixed'
  BY <1>1, <1>2, <1>3, PublishOK
<1>5. owed' \in [Client -> Sig]
  BY <1>2 DEF RelayFinalTransaction, Sig
<1>6. {joined', invited', spent', charged'} \subseteq SUBSET Client
  BY <1>1, <1>2, <1>3 DEF RestOK
<1>7. RestOK'
  BY <1>1, <1>4, <1>5, <1>6 DEF RestOK
<1>8. SessionOK(pool', owed')
  BY <1>2, <1>3
<1> QED
  BY <1>7, <1>8, PoolInvSplitNext

\* The signatures that are still to come stay in order when some are not to come any more.
LEMMA ToComeOK ==
    ASSUME PoolInv, NEW c \in Client, NEW asked \in BOOLEAN
    PROVE  SessionOK(pool, NoneToCome(c, asked)) /\ NoneToCome(c, asked) \in [Client -> Sig]
<1>1. SessionOK(pool, owed) /\ owed \in [Client -> Sig]
  BY PoolInvSplit DEF RestOK
<1> QED
  BY <1>1, ForgetOK DEF NoneToCome

LEMMA SubmitOK ==
    ASSUME PoolInv, NEW c \in Client, NEW asked \in BOOLEAN, Submit(c, asked)
    PROVE  PoolInv'
<1> DEFINE less == NoneToCome(c, asked)
<1>1. SessionOK(pool, owed) /\ RestOK /\ owed \in [Client -> Sig]
  BY PoolInvSplit DEF RestOK
<1>2. SessionOK(pool, less) /\ less \in [Client -> Sig]
  BY ToComeOK
<1>3. joined' = joined /\ announced' = announced /\ invited' \subseteq Client
  BY <1>1 DEF Submit, RestOK
<1> HIDE DEF less
<1>4. CASE SubmitRefused(c, asked)
  <2>1. /\ pool' = pool /\ owed' = less
        /\ mapZerosendBroadcastTxes' = mapZerosendBroadcastTxes
        /\ spent' = spent /\ charged' = charged
    BY <1>4 DEF SubmitRefused, less
  <2>2. RestOK'
    BY <1>1, <1>2, <1>3, <2>1 DEF RestOK, PublishedIsMixed
  <2> QED
    BY <1>2, <2>1, <2>2, PoolInvSplitNext
<1>5. CASE SubmitFails(c, asked)
  <2>1. /\ pool' = [pool EXCEPT !.sessionUsers = @ - 1] /\ owed' = less
        /\ mapZerosendBroadcastTxes' = mapZerosendBroadcastTxes
        /\ spent' = spent /\ charged' = charged
        /\ IsSessionReady(pool)
    BY <1>5 DEF SubmitFails, less
  <2>2. SessionOK(pool', owed')
    BY <1>2, <2>1, LeaveOK
  <2>3. RestOK'
    BY <1>1, <1>2, <1>3, <2>1 DEF RestOK, PublishedIsMixed
  <2> QED
    BY <2>2, <2>3, PoolInvSplitNext
<1>6. CASE SubmitEntered(c, asked)
  <2> DEFINE p == AddEntry(pool, c, asked)
             due == OldToCome(c, asked)
  <2>1. /\ IsSessionReady(pool) /\ IsCompatibleWithEntries(pool, c)
        /\ ~AddEntryFails(pool, c)
        /\ Checked(p, due)
    BY <1>6 DEF SubmitEntered
  <2>2. due = [owed EXCEPT ![c] = IF asked \/ @ = "none" THEN "none" ELSE "stale"]
    BY DEF OldToCome
  <2>3. SessionOK(p, due)
    <3>1. SessionOK(p, [owed EXCEPT ![c] = IF asked \/ @ = "none" THEN "none" ELSE "stale"])
      BY <1>1, <2>1, AddEntryOK
    <3> QED
      BY <3>1 DEF OldToCome
  <2>4. due \in [Client -> Sig]
    BY <1>1, <2>2 DEF Sig
  <2> HIDE DEF p, due
  <2> QED
    BY <1>3, <2>1, <2>3, <2>4, CheckedOK
<1> QED
  BY <1>4, <1>5, <1>6 DEF Submit

\* What the handler of "sss" works on, in the words of Sign.
Told(c, sig) ==
    LET p == AddScriptSig(pool, c, sig)
    IN  [p EXCEPT !.entries = [i \in DOMAIN p.entries |->
            [p.entries[i] EXCEPT !.asked = @ /\ (sig = owed[c] \/ p.entries[i].client # c)]]]

\* It is Heard.
LEMMA ToldIsHeard ==
    ASSUME PoolInv, NEW c \in Client, NEW sig \in {"fresh", "stale"}
    PROVE  /\ DOMAIN Told(c, sig).entries = DOMAIN pool.entries
           /\ \A i \in DOMAIN pool.entries : TakesSig(Told(c, sig), c, i) <=> TakesSig(pool, c, i)
           /\ Told(c, sig) = Heard(pool, c, sig, sig = owed[c], 0)
           /\ \A k \in DOMAIN pool.entries :
                 [Told(c, sig) EXCEPT !.entries[k].sig = sig]
                    = Heard(pool, c, sig, sig = owed[c], k)
<1> DEFINE q == Told(c, sig)
           n == Len(pool.entries)
           b(i) == pool.entries[i].asked /\ (sig = owed[c] \/ pool.entries[i].client # c)
           tx == [i \in DOMAIN pool.finalTransaction |->
                    IF pool.finalTransaction[i].client = c
                    THEN [pool.finalTransaction[i] EXCEPT !.sig = sig]
                    ELSE pool.finalTransaction[i]]
           es == [i \in DOMAIN pool.entries |-> [pool.entries[i] EXCEPT !.asked = b(i)]]
           hs(k) == [i \in DOMAIN pool.entries |->
                       [pool.entries[i] EXCEPT !.sig = IF i = k THEN sig ELSE @, !.asked = b(i)]]
<1>1. /\ pool \in Pool /\ pool.entries \in Seq(Entry) /\ DOMAIN pool.entries = 1..n /\ n \in Nat
      /\ pool.entries \in [1..n -> Entry]
  BY DEF PoolInv, TypeOK, Pool
<1>2. \A i \in 1..n : pool.entries[i] \in Entry
  BY <1>1
<1>3. AddScriptSig(pool, c, sig) = [pool EXCEPT !.finalTransaction = tx]
  BY DEF AddScriptSig
<1>4. AddScriptSig(pool, c, sig).entries = pool.entries
  <2> HIDE DEF tx
  <2> QED
    BY <1>1, <1>3 DEF Pool
<1>5. q = [AddScriptSig(pool, c, sig) EXCEPT !.entries = es]
  <2> DEFINE p == AddScriptSig(pool, c, sig)
             fs == [i \in DOMAIN p.entries |-> [p.entries[i] EXCEPT !.asked =
                       @ /\ (sig = owed[c] \/ p.entries[i].client # c)]]
  <2>1. q = [p EXCEPT !.entries = fs]
    BY DEF Told
  <2>2. fs = es
    <3>1. p.entries = pool.entries
      BY <1>4
    <3> HIDE DEF p
    <3> QED
      BY <3>1, Zenon
  <2> QED
    BY <2>1, <2>2
<1>6. \A k : Heard(pool, c, sig, sig = owed[c], k)
               = [pool EXCEPT !.finalTransaction = tx, !.entries = hs(k)]
  BY DEF Heard
<1>7. \A i \in 1..n : /\ es[i].client = pool.entries[i].client
                      /\ es[i].sig = pool.entries[i].sig
                      /\ DOMAIN es = 1..n
  <2> HIDE DEF b
  <2> QED
    BY <1>1, <1>2 DEF Entry
<1>8. hs(0) = es
  <2>1. \A i \in 1..n : i # 0
    BY <1>1
  <2>2. \A i \in 1..n : [pool.entries[i] EXCEPT !.sig = IF i = 0 THEN sig ELSE @, !.asked = b(i)]
                        = [pool.entries[i] EXCEPT !.asked = b(i)]
    <3> HIDE DEF b
    <3> QED
      BY <1>2, <2>1 DEF Entry
  <2> HIDE DEF b
  <2> QED
    BY <1>1, <2>2
<1>9. \A k \in 1..n : hs(k) = [es EXCEPT ![k].sig = sig]
  <2> SUFFICES ASSUME NEW k \in 1..n PROVE hs(k) = [es EXCEPT ![k].sig = sig]
    OBVIOUS
  <2>1. \A i \in 1..n : hs(k)[i] = [es EXCEPT ![k].sig = sig][i]
    <3> HIDE DEF b
    <3> QED
      BY <1>1, <1>2 DEF Entry
  <2> HIDE DEF b
  <2> QED
    BY <1>1, <2>1
<1>10. DOMAIN es = DOMAIN pool.entries
  OBVIOUS
<1> HIDE DEF es, hs, tx, b
<1>11. q = [pool EXCEPT !.finalTransaction = tx, !.entries = es]
  BY <1>1, <1>3, <1>5 DEF Pool
<1> HIDE DEF q
<1>12. q.entries = es
  BY <1>1, <1>11 DEF Pool
<1>13. \A i \in 1..n : TakesSig(q, c, i) <=> TakesSig(pool, c, i)
  <2> SUFFICES ASSUME NEW i \in 1..n PROVE TakesSig(q, c, i) <=> TakesSig(pool, c, i)
    OBVIOUS
  <2>1. \A j \in 1..i - 1 : j \in 1..n
    BY <1>1
  <2> QED
    BY <1>12, <1>7, <2>1 DEF TakesSig
<1>14. \A k \in 1..n : [q EXCEPT !.entries[k].sig = sig]
                         = [pool EXCEPT !.finalTransaction = tx, !.entries = hs(k)]
  <2> SUFFICES ASSUME NEW k \in 1..n
               PROVE  [q EXCEPT !.entries[k].sig = sig]
                         = [pool EXCEPT !.finalTransaction = tx, !.entries = hs(k)]
    OBVIOUS
  <2>1. [q EXCEPT !.entries[k].sig = sig] = [q EXCEPT !.entries = [es EXCEPT ![k].sig = sig]]
    BY <1>12
  <2>2. [q EXCEPT !.entries[k].sig = sig] = [q EXCEPT !.entries = hs(k)]
    BY <2>1, <1>9
  <2> QED
    BY <2>2, <1>1, <1>11 DEF Pool
<1>15. \A k \in DOMAIN pool.entries :
          [q EXCEPT !.entries[k].sig = sig] = Heard(pool, c, sig, sig = owed[c], k)
  BY <1>1, <1>6, <1>14
<1>16. q = Heard(pool, c, sig, sig = owed[c], 0)
  BY <1>6, <1>8, <1>11
<1>17. /\ DOMAIN q.entries = DOMAIN pool.entries
       /\ \A i \in DOMAIN pool.entries : TakesSig(q, c, i) <=> TakesSig(pool, c, i)
  BY <1>1, <1>10, <1>12, <1>13
<1> QED
  BY <1>15, <1>16, <1>17 DEF q

\* What is left to come after "sss".
LEMMA SignedOK ==
    ASSUME PoolInv, NEW c \in Client, NEW sig \in {"fresh", "stale"}, NEW k \in Nat,
           \/ k \in DOMAIN pool.entries /\ TakesSig(pool, c, k)
           \/ k = 0 /\ \A i \in DOMAIN pool.entries : ~TakesSig(pool, c, i)
    PROVE  SessionOK(Heard(pool, c, sig, sig = owed[c], k), NoneToCome(c, sig = owed[c]))
<1>1. SessionOK(pool, owed) /\ owed \in [Client -> Sig]
  BY PoolInvSplit DEF RestOK
<1>2. ~(0 \in DOMAIN pool.entries)
  BY <1>1 DEF SessionOK, Pool
<1>3. k \in DOMAIN pool.entries => pool.entries[k].client = c
  BY <1>2 DEF TakesSig
<1> DEFINE asked == sig = owed[c]
<1>4. asked \in BOOLEAN /\ (asked => sig = owed[c])
  OBVIOUS
<1> HIDE DEF asked
<1>5. SessionOK(Heard(pool, c, sig, asked, k),
                IF asked THEN [owed EXCEPT ![c] = "none"] ELSE owed)
  BY <1>1, <1>3, <1>4, SignOK
<1> QED
  BY <1>5 DEF asked, NoneToCome

\* The ways Sign can go, in the words of Heard.
LEMMA SignCases ==
    ASSUME PoolInv, NEW c \in Client, NEW sig \in {"fresh", "stale"}, Sign(c, sig)
    PROVE  \/ \E k \in DOMAIN pool.entries :
                 /\ TakesSig(pool, c, k)
                 /\ Checked(Heard(pool, c, sig, sig = owed[c], k), NoneToCome(c, sig = owed[c]))
           \/ /\ \A i \in DOMAIN pool.entries : ~TakesSig(pool, c, i)
              /\ pool' = Heard(pool, c, sig, sig = owed[c], 0)
              /\ owed' = NoneToCome(c, sig = owed[c])
              /\ UNCHANGED <<mapZerosendBroadcastTxes, spent, charged>>
           \/ /\ pool' = pool /\ owed' = NoneToCome(c, sig = owed[c])
              /\ UNCHANGED <<mapZerosendBroadcastTxes, spent, charged>>
<1> DEFINE q == Told(c, sig)
<1>1. \/ \E i \in DOMAIN q.entries :
            /\ TakesSig(q, c, i)
            /\ Checked([q EXCEPT !.entries[i].sig = sig], NoneToCome(c, sig = owed[c]))
      \/ /\ \A i \in DOMAIN q.entries : ~TakesSig(q, c, i)
         /\ pool' = q /\ owed' = NoneToCome(c, sig = owed[c])
         /\ UNCHANGED <<mapZerosendBroadcastTxes, spent, charged>>
      \/ /\ pool' = pool /\ owed' = NoneToCome(c, sig = owed[c])
         /\ UNCHANGED <<mapZerosendBroadcastTxes, spent, charged>>
  BY DEF Sign, Told
<1>2. /\ DOMAIN q.entries = DOMAIN pool.entries
      /\ \A i \in DOMAIN pool.entries : TakesSig(q, c, i) <=> TakesSig(pool, c, i)
      /\ q = Heard(pool, c, sig, sig = owed[c], 0)
      /\ \A k \in DOMAIN pool.entries :
            [q EXCEPT !.entries[k].sig = sig] = Heard(pool, c, sig, sig = owed[c], k)
  BY ToldIsHeard
<1> HIDE DEF q
<1>3. CASE \E i \in DOMAIN q.entries :
              /\ TakesSig(q, c, i)
              /\ Checked([q EXCEPT !.entries[i].sig = sig], NoneToCome(c, sig = owed[c]))
  <2>1. PICK k \in DOMAIN q.entries :
              /\ TakesSig(q, c, k)
              /\ Checked([q EXCEPT !.entries[k].sig = sig], NoneToCome(c, sig = owed[c]))
    BY <1>3
  <2>2. k \in DOMAIN pool.entries /\ TakesSig(pool, c, k)
    BY <1>2, <2>1
  <2>3. [q EXCEPT !.entries[k].sig = sig] = Heard(pool, c, sig, sig = owed[c], k)
    BY <1>2, <2>2
  <2>4. Checked(Heard(pool, c, sig, sig = owed[c], k), NoneToCome(c, sig = owed[c]))
    BY <2>1, <2>3
  <2> QED
    BY <2>2, <2>4
<1>4. CASE /\ \A i \in DOMAIN q.entries : ~TakesSig(q, c, i)
           /\ pool' = q /\ owed' = NoneToCome(c, sig = owed[c])
           /\ UNCHANGED <<mapZerosendBroadcastTxes, spent, charged>>
  BY <1>2, <1>4
<1> QED
  BY <1>1, <1>3, <1>4

LEMMA SignStepOK ==
    ASSUME PoolInv, NEW c \in Client, NEW sig \in {"fresh", "stale"}, Sign(c, sig)
    PROVE  PoolInv'
<1> DEFINE less == NoneToCome(c, sig = owed[c])
           q(k) == Heard(pool, c, sig, sig = owed[c], k)
<1>1. SessionOK(pool, owed) /\ RestOK /\ pool \in Pool
  BY PoolInvSplit DEF SessionOK
<1>2. less \in [Client -> Sig] /\ SessionOK(pool, less)
  BY ToComeOK
<1>3. joined' = joined /\ announced' = announced /\ invited' = invited /\ invited \subseteq Client
  BY <1>1 DEF Sign, RestOK
<1>4. DOMAIN pool.entries \subseteq Nat
  BY <1>1 DEF Pool
<1>5. \/ \E k \in DOMAIN pool.entries : TakesSig(pool, c, k) /\ Checked(q(k), less)
      \/ /\ \A i \in DOMAIN pool.entries : ~TakesSig(pool, c, i)
         /\ pool' = q(0) /\ owed' = less
         /\ UNCHANGED <<mapZerosendBroadcastTxes, spent, charged>>
      \/ /\ pool' = pool /\ owed' = less
         /\ UNCHANGED <<mapZerosendBroadcastTxes, spent, charged>>
  BY SignCases
<1>6. \A k \in Nat : \/ k \in DOMAIN pool.entries /\ TakesSig(pool, c, k)
                     \/ k = 0 /\ \A i \in DOMAIN pool.entries : ~TakesSig(pool, c, i)
                     => SessionOK(q(k), less)
  BY SignedOK
<1> HIDE DEF q, less
<1>7. ASSUME NEW k \in DOMAIN pool.entries, TakesSig(pool, c, k), Checked(q(k), less)
      PROVE  PoolInv'
  <2>1. SessionOK(q(k), less)
    BY <1>4, <1>6, <1>7
  <2> QED
    BY <1>2, <1>3, <1>7, <2>1, CheckedOK
<1>8. CASE /\ \A i \in DOMAIN pool.entries : ~TakesSig(pool, c, i)
           /\ pool' = q(0) /\ owed' = less
           /\ UNCHANGED <<mapZerosendBroadcastTxes, spent, charged>>
  <2>1. SessionOK(pool', owed')
    BY <1>6, <1>8
  <2>2. RestOK'
    BY <1>1, <1>2, <1>3, <1>8 DEF RestOK, PublishedIsMixed
  <2> QED
    BY <2>1, <2>2, PoolInvSplitNext
<1>9. CASE /\ pool' = pool /\ owed' = less
           /\ UNCHANGED <<mapZerosendBroadcastTxes, spent, charged>>
  <2>1. SessionOK(pool', owed')
    BY <1>2, <1>9
  <2>2. RestOK'
    BY <1>1, <1>2, <1>3, <1>9 DEF RestOK, PublishedIsMixed
  <2> QED
    BY <2>1, <2>2, PoolInvSplitNext
<1> QED
  BY <1>5, <1>7, <1>8, <1>9

\* CheckForCompleteQueue, CheckTimeout and the clock.
LEMMA ThreadOK ==
    ASSUME PoolInv, CheckForCompleteQueue \/ CheckTimeout \/ Tick
    PROVE  PoolInv'
<1>1. SessionOK(pool, owed) /\ RestOK /\ owed \in [Client -> Sig] /\ pool \in Pool
  BY PoolInvSplit DEF RestOK, SessionOK
<1>2. /\ owed' = owed /\ spent' = spent /\ announced' = announced
      /\ mapZerosendBroadcastTxes' = mapZerosendBroadcastTxes
  BY DEF CheckForCompleteQueue, CheckTimeout, Tick
<1>3. CASE CheckForCompleteQueue
  <2>1. 0 \in 0..ZEROSEND_QUEUE_TIMEOUT
    BY PoolAssumption
  <2>2. pool' \in Pool
    BY <1>1, <1>3, <2>1 DEF CheckForCompleteQueue, UpdateState, Pool
  <2>3. /\ pool.state = "queue" /\ pool'.state = "accepting" /\ pool'.entries = pool.entries
        /\ pool'.finalTransaction = pool.finalTransaction
        /\ pool'.sessionUsers = pool.sessionUsers
    BY <1>1, <1>3 DEF CheckForCompleteQueue, UpdateState, Pool
  <2>4. SessionOK(pool', owed)
    BY <1>1, <2>2, <2>3 DEF SessionOK
  <2>5. RestOK'
    BY <1>1, <1>2, <1>3 DEF CheckForCompleteQueue, RestOK, PublishedIsMixed
  <2> QED
    BY <1>2, <2>4, <2>5, PoolInvSplitNext
<1>4. CASE CheckTimeout
  <2> DEFINE p == QueueTimeout(pool)
             q == IF pool.state \in {"accepting", "queue"} THEN Expire(pool) ELSE pool
  <2>1. SessionOK(q, owed)
    BY <1>1, ExpireOK
  <2>2. p = SetNull \/ p = q
    BY DEF QueueTimeout
  <2>3. SessionOK(p, owed)
    BY <2>1, <2>2, NullOK
  <2>4. pool' = SetNull \/ pool' = p
    BY <1>4 DEF CheckTimeout
  <2>5. SessionOK(pool', owed)
    BY <2>3, <2>4, NullOK
  <2>6. charged' \subseteq Client /\ joined' = joined /\ invited' = invited
    BY <1>1, <1>4 DEF CheckTimeout, ChargeFees, RestOK
  <2>7. RestOK'
    BY <1>1, <1>2, <2>6 DEF RestOK, PublishedIsMixed
  <2> QED
    BY <1>2, <2>5, <2>7, PoolInvSplitNext
<1>5. CASE Tick
  <2>1. pool' = Aged(pool) /\ joined' = joined /\ invited' = invited /\ charged' = charged
    BY <1>5 DEF Tick
  <2>2. SessionOK(pool', owed)
    BY <1>1, <2>1, TickOK
  <2>3. RestOK'
    BY <1>1, <1>2, <2>1 DEF RestOK, PublishedIsMixed
  <2> QED
    BY <1>2, <2>2, <2>3, PoolInvSplitNext
<1> QED
  BY <1>3, <1>4, <1>5

LEMMA EnvironmentOK ==
    ASSUME PoolInv, NEW c \in Client, Spend(c) \/ NewCollateral(c)
    PROVE  PoolInv'
<1>1. SessionOK(pool, owed) /\ RestOK
  BY PoolInvSplit
<1>2. SessionOK(pool', owed')
  BY <1>1 DEF Spend, NewCollateral
<1>3. RestOK'
  <2>1. /\ {joined', invited', spent', charged'} \subseteq SUBSET Client
        /\ announced' = announced /\ owed' = owed
        /\ mapZerosendBroadcastTxes' = mapZerosendBroadcastTxes
    BY <1>1 DEF Spend, NewCollateral, RestOK
  <2> QED
    BY <1>1, <2>1 DEF RestOK, PublishedIsMixed
<1> QED
  BY <1>2, <1>3, PoolInvSplitNext

\* PoolInv is inductive: no message, however late, and no timeout breaks it.
THEOREM PoolInvariant == Spec => []PoolInv
<1>1. PoolInv /\ [Next]_vars => PoolInv'
  <2> SUFFICES ASSUME PoolInv, [Next]_vars PROVE PoolInv'
    OBVIOUS
  <2>1. CASE UNCHANGED vars
    BY <2>1 DEF vars, PoolInv, TypeOK, OneEntryPerInput, SigningWhatWasMerged,
                PublishedIsMixed, SessionInv
  <2>2. ASSUME NEW c \in Client, AcceptTooRecent(c) \/ Accept(c) PROVE PoolInv'
    BY <2>2, AcceptOK
  <2>3. ASSUME NEW c \in Client, NEW asked \in BOOLEAN, Submit(c, asked) PROVE PoolInv'
    BY <2>3, SubmitOK
  <2>4. ASSUME NEW c \in Client, NEW sig \in {"fresh", "stale"}, Sign(c, sig) PROVE PoolInv'
    BY <2>4, SignStepOK
  <2>5. CASE CheckForCompleteQueue \/ CheckTimeout \/ Tick
    BY <2>5, ThreadOK
  <2>6. ASSUME NEW c \in Client, Spend(c) \/ NewCollateral(c) PROVE PoolInv'
    BY <2>6, EnvironmentOK
  <2> QED
    BY <2>1, <2>2, <2>3, <2>4, <2>5, <2>6 DEF Next
<1> QED
  BY <1>1, InitOK, PTL DEF Spec

\* The pool's variables keep their types, and there are never more entries than
\* GetMaxPoolTransactions.
THEOREM PoolTypeCorrect == Spec => []TypeOK
<1>1. PoolInv => TypeOK
  BY DEF PoolInv
<1> QED
  BY <1>1, PoolInvariant, PTL

\* An input is in one entry, unless a signature nobody asked for hid the first from AddEntry.
THEOREM NoInputTwice == Spec => []OneEntryPerInput
<1>1. PoolInv => OneEntryPerInput
  BY DEF PoolInv
<1> QED
  BY <1>1, PoolInvariant, PTL

\* While the pool is signing, the merged transaction has the entries' inputs, whatever
\* arrives; and it has the signature of every entry about which only messages came that were
\* asked for, none of them left over from an earlier session.
THEOREM SignedIsMerged == Spec => []SigningWhatWasMerged
<1>1. PoolInv => SigningWhatWasMerged
  BY DEF PoolInv
<1> QED
  BY <1>1, PoolInvariant, PTL

\* The blanknode publishes only transactions that mix GetMaxPoolTransactions clients with
\* equal denominations.
THEOREM PublishedMixes == Spec => []PublishedIsMixed
<1>1. PoolInv => PublishedIsMixed
  BY DEF PoolInv
<1> QED
  BY <1>1, PoolInvariant, PTL

-----------------------------------------------------------------------------
(* Collateral                                                              *)

\* The inputs of a published transaction are spent, so it is not published again.
PublishedIsSpent == \A tx \in mapZerosendBroadcastTxes : Clients(tx) \subseteq spent

\* What Check charges for: a transaction it publishes, whose inputs were not spent before.
LEMMA CheckCharges ==
    ASSUME NEW p \in Pool, NEW r \in Check(p)
    PROVE  /\ r.charges \subseteq p.vecSessionCollateral
           /\ r.charges # {} => r.publishes # {}
           /\ \A tx \in r.publishes : Acceptable(tx) /\ Clients(tx) \subseteq r.spends
<1> DEFINE q == Finalize(p)
<1>1. q.vecSessionCollateral = p.vecSessionCollateral
  BY DEF Finalize, UpdateState, Pool
<1> HIDE DEF q
<1>2. \/ r \in CheckFinalTransaction(q)
      \/ r = [pool |-> q, spends |-> {}, publishes |-> {}, charges |-> {}]
  BY DEF Check, q
<1>3. CASE r = [pool |-> q, spends |-> {}, publishes |-> {}, charges |-> {}]
  BY <1>3
<1>4. CASE r \in CheckFinalTransaction(q)
  <2> DEFINE tx == q.finalTransaction
  <2>1. \/ r.publishes = {} /\ r.charges = {}
        \/ /\ Acceptable(tx) /\ r.publishes = {tx} /\ r.spends = Clients(tx)
           /\ r.charges \in SUBSET q.vecSessionCollateral
    BY <1>4 DEF CheckFinalTransaction
  <2> QED
    BY <1>1, <2>1
<1> QED
  BY <1>2, <1>3, <1>4

\* A step that runs Check on a pool with the collateral of the present session.
LEMMA CheckedForACause ==
    ASSUME PoolInv, PoolInv', PublishedIsSpent, NEW p \in Pool, NEW due, Checked(p, due),
           p.vecSessionCollateral = pool.vecSessionCollateral
    PROVE  /\ PublishedIsSpent'
           /\ \A c \in charged' \ charged :
                 /\ mapZerosendBroadcastTxes' # mapZerosendBroadcastTxes
                 /\ c \in pool.vecSessionCollateral
<1>1. PICK r \in Check(p) :
         /\ spent' = spent \cup r.spends
         /\ charged' = charged \cup r.charges
         /\ mapZerosendBroadcastTxes' = mapZerosendBroadcastTxes \cup r.publishes
  BY DEF Checked
<1>2. /\ r.charges \subseteq pool.vecSessionCollateral
      /\ r.charges # {} => r.publishes # {}
      /\ \A tx \in r.publishes : Acceptable(tx) /\ Clients(tx) \subseteq r.spends
  BY CheckCharges
<1>3. PublishedIsSpent'
  BY <1>1, <1>2 DEF PublishedIsSpent, Clients
<1>4. ASSUME NEW tx \in r.publishes PROVE tx \notin mapZerosendBroadcastTxes
  <2>1. SUFFICES ASSUME tx \in mapZerosendBroadcastTxes PROVE FALSE
    OBVIOUS
  <2>2. tx \in Seq(Signed) /\ Len(tx) = GetMaxPoolTransactions
    BY <2>1 DEF PoolInv, TypeOK, PublishedIsMixed
  <2>3. 1 \in DOMAIN tx
    BY <2>2, PoolAssumption
  <2>4. tx[1].client \in spent
    BY <2>1, <2>3 DEF PublishedIsSpent, Clients
  <2> QED
    BY <1>2, <2>3, <2>4 DEF Acceptable
<1>5. ASSUME NEW c \in charged' \ charged
      PROVE  /\ mapZerosendBroadcastTxes' # mapZerosendBroadcastTxes
             /\ c \in pool.vecSessionCollateral
  BY <1>1, <1>2, <1>4
<1> QED
  BY <1>3, <1>5

\* A signing pool reaches ChargeFees as it is: the queue timeout leaves it alone or ends it.
LEMMA TimedOutWhileSigning ==
    ASSUME NEW p \in Pool, SigningTimedOut(QueueTimeout(p))
    PROVE  QueueTimeout(p) = p
<1>1. SetNull.state = "idle"
  BY DEF SetNull
<1>2. CASE p.state \in {"accepting", "queue"}
  <2>1. Expire(p).state = p.state \/ Expire(p) = SetNull
    BY DEF Expire, Pool
  <2>2. QueueTimeout(p) = Expire(p) \/ QueueTimeout(p) = SetNull
    BY <1>2 DEF QueueTimeout
  <2> QED
    BY <1>1, <1>2, <2>1, <2>2 DEF SigningTimedOut
<1>3. CASE p.state \notin {"accepting", "queue"}
  <2>1. QueueTimeout(p) = p \/ QueueTimeout(p) = SetNull
    BY <1>3 DEF QueueTimeout
  <2> QED
    BY <1>1, <2>1 DEF SigningTimedOut
<1> QED
  BY <1>2, <1>3

\* Nobody loses collateral without a cause: ChargeFees takes it from a client that has not
\* signed, ChargeRandomFees from a member of the session whose transaction it publishes.
THEOREM ChargesHaveACause == Spec => ChargedForACause
<1> DEFINE Cause(c) ==
      \/ \E i \in DOMAIN pool.entries :
            pool.entries[i].client = c /\ pool.entries[i].sig = "none"
      \/ mapZerosendBroadcastTxes' # mapZerosendBroadcastTxes
         /\ c \in pool.vecSessionCollateral
<1>1. ASSUME PoolInv, PoolInv', PublishedIsSpent, [Next]_vars
      PROVE  PublishedIsSpent' /\ \A c \in charged' \ charged : Cause(c)
  <2>1. pool \in Pool /\ owed \in [Client -> Sig]
    BY <1>1 DEF PoolInv, TypeOK
  <2>2. ASSUME charged' \subseteq charged, mapZerosendBroadcastTxes' = mapZerosendBroadcastTxes,
               spent \subseteq spent'
        PROVE  PublishedIsSpent' /\ \A c \in charged' \ charged : Cause(c)
    BY <1>1, <2>2 DEF PublishedIsSpent, Clients
  <2>3. ASSUME NEW c \in Client, NEW asked \in BOOLEAN, SubmitEntered(c, asked)
        PROVE  PublishedIsSpent' /\ \A d \in charged' \ charged : Cause(d)
    <3> DEFINE p == AddEntry(pool, c, asked)
    <3>1. SessionOK(pool, owed)
      BY <1>1, PoolInvSplit
    <3>2. /\ IsSessionReady(pool) /\ IsCompatibleWithEntries(pool, c) /\ ~AddEntryFails(pool, c)
          /\ Checked(p, OldToCome(c, asked))
      BY <2>3 DEF SubmitEntered
    <3>3. p.vecSessionCollateral = pool.vecSessionCollateral
      BY <2>1 DEF AddEntry, Pool
    <3>4. p \in Pool
      BY <2>1, <3>1, <3>2, AddEntryOK DEF SessionOK
    <3> HIDE DEF p
    <3> QED
      BY <1>1, <3>2, <3>3, <3>4, CheckedForACause
  <2>4. ASSUME NEW c \in Client, NEW sig \in {"fresh", "stale"}, Sign(c, sig)
        PROVE  PublishedIsSpent' /\ \A d \in charged' \ charged : Cause(d)
    <3>1. CASE UNCHANGED <<mapZerosendBroadcastTxes, spent, charged>>
      BY <2>2, <3>1
    <3>2. ASSUME NEW k \in DOMAIN pool.entries, TakesSig(pool, c, k),
                 Checked(Heard(pool, c, sig, sig = owed[c], k), NoneToCome(c, sig = owed[c]))
          PROVE  PublishedIsSpent' /\ \A d \in charged' \ charged : Cause(d)
      <4> DEFINE q == Heard(pool, c, sig, sig = owed[c], k)
      <4>1. q.vecSessionCollateral = pool.vecSessionCollateral
        BY <2>1 DEF Heard, AddScriptSig, Pool
      <4>2. k \in Nat
        BY <2>1 DEF Pool
      <4>3. q \in Pool
        BY <1>1, <3>2, <4>2, SignedOK DEF SessionOK
      <4> HIDE DEF q
      <4> QED
        BY <1>1, <3>2, <4>1, <4>3, CheckedForACause DEF q
    <3> QED
      BY <1>1, <2>4, <3>1, <3>2, SignCases
  <2>5. CASE CheckTimeout
    <3> DEFINE p == QueueTimeout(pool)
    <3>1. CASE UNCHANGED charged
      BY <2>2, <2>5, <3>1 DEF CheckTimeout
    <3>2. ASSUME SigningTimedOut(p), NEW d \in ChargeFees(p), charged' = charged \cup {d}
          PROVE  PublishedIsSpent' /\ \A c \in charged' \ charged : Cause(c)
      <4>1. p = pool
        BY <2>1, <3>2, TimedOutWhileSigning
      <4>2. \E i \in DOMAIN pool.entries : pool.entries[i].client = d /\ pool.entries[i].sig = "none"
        BY <3>2, <4>1 DEF ChargeFees
      <4>3. PublishedIsSpent'
        BY <1>1, <2>5 DEF CheckTimeout, PublishedIsSpent, Clients
      <4> QED
        BY <3>2, <4>2, <4>3
    <3> QED
      BY <2>5, <3>1, <3>2 DEF CheckTimeout
  <2>6. ASSUME NEW c \in Client, NEW asked \in BOOLEAN, Submit(c, asked)
        PROVE  PublishedIsSpent' /\ \A d \in charged' \ charged : Cause(d)
    BY <2>2, <2>3, <2>6 DEF Submit, SubmitRefused, SubmitFails
  <2>7. ASSUME NEW c \in Client, AcceptTooRecent(c) \/ Accept(c) \/ Spend(c) \/ NewCollateral(c)
        PROVE  PublishedIsSpent' /\ \A d \in charged' \ charged : Cause(d)
    BY <2>2, <2>7 DEF AcceptTooRecent, Accept, Spend, NewCollateral
  <2>8. CASE CheckForCompleteQueue \/ Tick \/ UNCHANGED vars
    BY <2>2, <2>8 DEF CheckForCompleteQueue, Tick, vars
  <2> HIDE DEF Cause
  <2> QED
    BY <1>1, <2>4, <2>5, <2>6, <2>7, <2>8 DEF Next
<1>2. Init => PublishedIsSpent
  BY DEF Init, PublishedIsSpent
<1>3. ASSUME \A c \in charged' \ charged : Cause(c)
      PROVE  [\A c \in charged' \ charged :
                 \/ \E i \in DOMAIN pool.entries :
                       pool.entries[i].client = c /\ pool.entries[i].sig = "none"
                 \/ mapZerosendBroadcastTxes' # mapZerosendBroadcastTxes
                    /\ c \in pool.vecSessionCollateral]_vars
  BY <1>3
<1>4. PoolInv /\ PoolInv' /\ PublishedIsSpent /\ [Next]_vars
        => /\ PublishedIsSpent'
           /\ [\A c \in charged' \ charged :
                 \/ \E i \in DOMAIN pool.entries :
                       pool.entries[i].client = c /\ pool.entries[i].sig = "none"
                 \/ mapZerosendBroadcastTxes' # mapZerosendBroadcastTxes
                    /\ c \in pool.vecSessionCollateral]_vars
  BY <1>1, <1>3
<1> HIDE DEF Cause
<1> QED
  BY <1>2, <1>4, PoolInvariant, PTL DEF Spec, ChargedForACause
=============================================================================
