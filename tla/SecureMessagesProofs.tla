----------------------- MODULE SecureMessagesProofs -----------------------
(***************************************************************************)
(* Proofs about SecureMessages, for any nodes, messages, buckets, bunch    *)
(* sizes and lock times, and any number of messages under way: the tokens  *)
(* of a node describe its files, a bucket is asked for once at a time, and *)
(* what has expired stays out.                                             *)
(***************************************************************************)
EXTENDS SecureMessages, FiniteSetTheorems, SequenceTheorems, TLAPS

USE DEF timeVars

(* What travels on a connection. *)
Announcements == UNION {[S -> SUBSET Messages] : S \in SUBSET Buckets}

InvWire   == [type : {"smsgInv"}, inv : Announcements]
ShowWire  == [type : {"smsgShow"}, show : SUBSET Buckets]
HaveWire  == [type : {"smsgHave"}, bucket : Buckets, have : SUBSET Messages]
WantWire  == [type : {"smsgWant"}, bucket : Buckets, want : SUBSET Messages]
MatchWire == [type : {"smsgMatch"}, later : SUBSET Buckets]
PlainWire == [type : {"smsgPing", "smsgPong", "smsgDisabled", "smsgIgnore"}]
MsgWire   == {x \in [type : {"smsgMsg"}, bucket : Buckets, bunch : Seq(Messages)] :
                \A i \in DOMAIN x.bunch : BucketOf[x.bunch[i]] = x.bucket}

Wire == InvWire \cup ShowWire \cup HaveWire \cup WantWire \cup MatchWire
          \cup PlainWire \cup MsgWire

Links == [Nodes -> [Nodes -> Seq(Wire)]]

SecMsgNodes == [seen : BOOLEAN, enabled : BOOLEAN, fresh : SUBSET Buckets,
                ignoring : BOOLEAN]

(* The tokens of a node: offsets of messages. *)
Offsets(o) == DOMAIN o \subseteq Messages /\ o \in [DOMAIN o -> Nat \ {0}]

(* The files of a node: every record is in the file of its bucket. *)
Files == {f \in [Buckets -> Seq(Messages)] :
            \A b \in Buckets : \A i \in DOMAIN f[b] : BucketOf[f[b][i]] = b}

MessageTypes ==
  /\ on \in [Nodes -> BOOLEAN]
  /\ DOMAIN offset = Nodes /\ \A n \in Nodes : Offsets(offset[n])
  /\ file \in [Nodes -> Files]
  /\ lock \in [Nodes -> [Buckets -> Nat]]
  /\ queue \in [Nodes -> SUBSET Messages]
  /\ pow \in [Nodes -> Messages \cup {NoMessage}]
  /\ peer \in [Nodes -> [Nodes -> SecMsgNodes]]
  /\ chan \in Links
  /\ expired \subseteq Buckets /\ unsent \subseteq Messages

(* The tokens o describe the files f. *)
Describes(o, f) ==
  \A b \in Buckets :
    /\ Range(f[b]) = {m \in DOMAIN o : BucketOf[m] = b}
    /\ \A m \in DOMAIN o : BucketOf[m] = b =>
         o[m] <= Len(f[b]) /\ f[b][o[m]] = m

NoRecordTwice(f) == \A b \in Buckets : IsInjective(f[b])

StoreInv ==
  \A n \in Nodes \ scanned :
    NoRecordTwice(file[n]) /\ (on[n] => Describes(offset[n], file[n]))

(* The message x from a to d is a request of n for bucket b, or its answer.*)
Counts(x, n, b, a, d) ==
  \/ a = n /\ x.type = "smsgWant" /\ x.bucket = b
  \/ d = n /\ x.type = "smsgMsg" /\ x.bucket = b

(* The i-th message from a to d on the links c is one. *)
Item(c, n, b, a, d, i) ==
  a # d /\ i \in DOMAIN c[a][d] /\ Counts(c[a][d][i], n, b, a, d)

NoItem(c, n, b) == \A a, d \in Nodes : \A i \in DOMAIN c[a][d] : ~ Item(c, n, b, a, d, i)

OneItem(c, n, b) ==
  \A a, d, x, y \in Nodes : \A i \in DOMAIN c[a][d] : \A j \in DOMAIN c[x][y] :
    Item(c, n, b, a, d, i) /\ Item(c, n, b, x, y, j) => a = x /\ d = y /\ i = j

(* A bucket that is neither locked nor expired was not asked for, and no   *)
(* bucket twice.                                                           *)
LockInv ==
  \A n \in Nodes \ gaveUp : \A b \in Buckets :
    /\ OneItem(chan, n, b)
    /\ lock[n][b] = 0 /\ b \notin expired => NoItem(chan, n, b)

(* The inductive invariant. *)
MessageInv == MessageTypes /\ StoreInv /\ LockInv

-----------------------------------------------------------------------------
(* Sets of numbers. *)

LEMMA LeastOne ==
  ASSUME NEW S \in SUBSET Nat, S # {}
  PROVE  Min(S) \in S /\ \A y \in S : Min(S) <= y
<1> DEFINE R == OpToRel(<, Nat)
<1>1. IsWellFoundedOn(R, Nat)
  BY NatLessThanWellFounded
<1>2. \A x, y \in Nat : x < y => <<x, y>> \in R
  BY DEF OpToRel
<1> HIDE DEF R
<1>3. PICK x \in S : \A y \in S : ~ (<<y, x>> \in R)
  BY <1>1, WFMin
<1>4. ASSUME NEW y \in S PROVE x <= y
  <2>1. x \in Nat /\ y \in Nat /\ ~ (y < x)
    BY <1>2, <1>3
  <2> QED
    BY <2>1
<1> QED
  BY <1>3, <1>4 DEF Min

(* Sorted lists a set, each element once. *)
LEMMA SortedSet ==
  ASSUME NEW S \in SUBSET Nat, IsFiniteSet(S)
  PROVE  /\ Sorted(S) \in Seq(S) /\ DOMAIN Sorted(S) = 1..Cardinality(S)
         /\ Cardinality(S) \in Nat
         /\ IsInjective(Sorted(S)) /\ Range(Sorted(S)) = S
<1> DEFINE Below(m) == {x \in S : x < m}
           c == Cardinality(S)
           rank == [m \in S |-> Cardinality(Below(m))]
<1>1. c \in Nat
  BY FS_CardinalityType
<1>2. ASSUME NEW m \in S
      PROVE  IsFiniteSet(Below(m)) /\ rank[m] \in 0..(c - 1)
  <2>1. IsFiniteSet(S \ {m}) /\ Cardinality(S \ {m}) = c - 1
    BY FS_RemoveElement
  <2>2. Below(m) \in SUBSET (S \ {m})
    OBVIOUS
  <2> HIDE DEF Below, c
  <2>3. IsFiniteSet(Below(m)) /\ Cardinality(Below(m)) <= c - 1
    BY <2>1, <2>2, FS_Subset
  <2>4. Cardinality(Below(m)) \in Nat
    BY <2>3, FS_CardinalityType
  <2> QED
    BY <1>1, <2>3, <2>4
<1>3. ASSUME NEW m \in S, NEW k \in S, m < k
      PROVE  rank[m] < rank[k]
  <2>1. m \notin Below(m) /\ Below(m) \cup {m} \in SUBSET Below(k)
    <3>1. m \in Nat /\ k \in Nat /\ \A x \in S : x \in Nat
      OBVIOUS
    <3>2. \A x \in S : x < m => x < k
      BY <1>3, <3>1
    <3>3. ~ (m < m)
      BY <3>1
    <3> QED
      BY <1>3, <3>2, <3>3
  <2> HIDE DEF Below
  <2>2. /\ IsFiniteSet(Below(m) \cup {m})
        /\ Cardinality(Below(m) \cup {m}) = Cardinality(Below(m)) + 1
    BY <1>2, <2>1, FS_AddElement
  <2>3. Cardinality(Below(m) \cup {m}) <= Cardinality(Below(k))
    BY <1>2, <2>1, FS_Subset
  <2>4. Cardinality(Below(m)) \in Nat /\ Cardinality(Below(k)) \in Nat
    BY <1>2, FS_CardinalityType
  <2> QED
    BY <2>2, <2>3, <2>4
<1> HIDE DEF Below, c
<1>4. rank \in [S -> 0..(c - 1)]
  BY <1>2
<1>5. \A m, k \in S : rank[m] = rank[k] => m = k
  <2> SUFFICES ASSUME NEW m \in S, NEW k \in S, rank[m] = rank[k], m # k
               PROVE  FALSE
    OBVIOUS
  <2>1. rank[m] \in Nat /\ rank[k] \in Nat
    BY <1>1, <1>2
  <2>2. m < k \/ k < m
    OBVIOUS
  <2> QED
    BY <1>3, <2>1, <2>2
<1>6. \A i \in 0..(c - 1) : \E m \in S : rank[m] = i
  <2>1. rank \in Injection(S, 0..(c - 1))
    BY <1>4, <1>5 DEF Injection, IsInjective
  <2>2. IsFiniteSet(0..(c - 1)) /\ Cardinality(0..(c - 1)) = c
    BY <1>1, FS_Interval
  <2> HIDE DEF rank
  <2>3. rank \in Surjection(S, 0..(c - 1))
    BY <2>1, <2>2, FS_Injection DEF c
  <2> QED
    BY <2>3 DEF Surjection
<1>7. Sorted(S) = [i \in 1..c |-> CHOOSE m \in S : Cardinality(Below(m)) = i - 1]
  BY DEF Sorted, Below, c
<1>8. ASSUME NEW i \in 1..c
      PROVE  Sorted(S)[i] \in S /\ rank[Sorted(S)[i]] = i - 1
  <2>1. i - 1 \in 0..(c - 1)
    BY <1>1
  <2>2. \E m \in S : Cardinality(Below(m)) = i - 1
    BY <1>6, <2>1
  <2> QED
    BY <1>7, <2>2
<1>9. DOMAIN Sorted(S) = 1..c /\ Sorted(S) \in Seq(S)
  <2>1. Sorted(S) \in [1..c -> S]
    BY <1>7, <1>8
  <2> QED
    BY <1>1, <2>1, SeqDef
<1> HIDE DEF rank
<1>10. IsInjective(Sorted(S))
  BY <1>1, <1>8, <1>9 DEF IsInjective
<1>11. ASSUME NEW m \in S PROVE \E i \in 1..c : Sorted(S)[i] = m
  <2>1. rank[m] \in Nat /\ rank[m] + 1 \in 1..c /\ (rank[m] + 1) - 1 = rank[m]
    BY <1>1, <1>4
  <2>2. Sorted(S)[rank[m] + 1] \in S /\ rank[Sorted(S)[rank[m] + 1]] = rank[m]
    BY <1>8, <2>1
  <2> QED
    BY <1>5, <2>1, <2>2
<1>12. Range(Sorted(S)) = S
  BY <1>8, <1>9, <1>11 DEF Range
<1> QED
  BY <1>1, <1>9, <1>10, <1>12 DEF c

-----------------------------------------------------------------------------
(* The store. *)

(* What SecureMsgStore takes of a bunch: a part without repetitions that   *)
(* has nothing the node has and nothing with a timestamp that is too old.  *)
LEMMA AcceptedPart ==
  ASSUME NEW n, NEW s \in Seq(Messages)
  PROVE  /\ Accepted(n, s) \in Seq(Messages)
         /\ IsInjective(Accepted(n, s))
         /\ \A i \in DOMAIN Accepted(n, s) :
              /\ Accepted(n, s)[i] \notin past \cup DOMAIN offset[n]
              /\ i \in DOMAIN s /\ Accepted(n, s)[i] = s[i]
<1> DEFINE refused(i) == \/ s[i] \in past
                         \/ s[i] \in DOMAIN offset[n]
                         \/ \E j \in 1..(i - 1) : s[j] = s[i]
           bad == {Len(s) + 1} \cup {i \in DOMAIN s : refused(i)}
           r == FirstRefused(n, s)
           new == Accepted(n, s)
<1>1. Len(s) \in Nat /\ DOMAIN s = 1..Len(s) /\ \A i \in 1..Len(s) : s[i] \in Messages
  BY LenProperties
<1>2. bad \in SUBSET Nat /\ bad # {}
  BY <1>1
<1>3. r = Min(bad)
  BY DEF FirstRefused
<1>4. r \in bad /\ \A y \in bad : r <= y
  <2> HIDE DEF bad, r
  <2> QED
    BY <1>2, <1>3, LeastOne
<1>5. r \in 1..(Len(s) + 1) /\ \A i \in 1..(r - 1) : i \in 1..Len(s) /\ ~ refused(i)
  BY <1>1, <1>4
<1> HIDE DEF r, refused
<1>6. /\ new \in Seq(Messages) /\ Len(new) = r - 1
      /\ \A i \in 1..(r - 1) : new[i] = s[i]
  <2>1. new = SubSeq(s, 1, r - 1)
    BY DEF Accepted, r
  <2>2. \A i \in 1..(r - 1) : s[i] \in Messages
    BY <1>1, <1>5
  <2> HIDE DEF new
  <2>3. 1 \in Int /\ r - 1 \in Int
    BY <1>5
  <2>4. /\ new \in Seq(Messages) /\ Len(new) = IF 1 <= r - 1 THEN (r - 1) - 1 + 1 ELSE 0
        /\ \A i \in 1..((r - 1) - 1 + 1) : new[i] = s[1 + i - 1]
    BY <2>1, <2>2, <2>3, SubSeqProperties
  <2> QED
    BY <1>1, <1>5, <2>4
<1> HIDE DEF new
<1>7. DOMAIN new = 1..(r - 1)
  BY <1>6
<1>8. ASSUME NEW i \in 1..(r - 1), NEW j \in 1..(r - 1), new[i] = new[j], i < j
      PROVE  FALSE
  <2>1. i \in 1..(j - 1) /\ s[i] = s[j]
    BY <1>5, <1>6, <1>8
  <2> QED
    BY <1>5, <2>1 DEF refused
<1>9. IsInjective(new)
  <2> SUFFICES ASSUME NEW i \in 1..(r - 1), NEW j \in 1..(r - 1), new[i] = new[j], i # j
               PROVE  FALSE
    BY <1>7 DEF IsInjective
  <2>1. i < j \/ j < i
    OBVIOUS
  <2> QED
    BY <1>8, <2>1
<1>10. \A i \in DOMAIN new :
         new[i] \notin past \cup DOMAIN offset[n] /\ i \in DOMAIN s /\ new[i] = s[i]
  BY <1>1, <1>5, <1>6, <1>7 DEF refused
<1> QED
  BY <1>6, <1>9, <1>10 DEF new

(* Appending records and entering their tokens. *)
Grown(f, b, new) == [f EXCEPT ![b] = @ \o new]

Entered(o, len, new) ==
  [m \in DOMAIN o \cup Range(new) |->
     IF m \in DOMAIN o THEN o[m] ELSE len + CHOOSE i \in DOMAIN new : new[i] = m]

LEMMA GrownStore ==
  ASSUME NEW o, Offsets(o), NEW f \in Files, NEW b \in Buckets,
         NEW new \in Seq(Messages), IsInjective(new),
         \A i \in DOMAIN new : new[i] \notin DOMAIN o /\ BucketOf[new[i]] = b
  PROVE  /\ Grown(f, b, new) \in Files
         /\ Offsets(Entered(o, Len(f[b]), new))
         /\ NoRecordTwice(f) /\ Describes(o, f) =>
              /\ NoRecordTwice(Grown(f, b, new))
              /\ Describes(Entered(o, Len(f[b]), new), Grown(f, b, new))
         /\ \A m \in DOMAIN Entered(o, Len(f[b]), new) : BucketOf[m] # b => m \in DOMAIN o
<1> DEFINE g == Grown(f, b, new)
           len == Len(f[b])
           e == Entered(o, len, new)
<1>1. /\ f \in [Buckets -> Seq(Messages)]
      /\ \A c \in Buckets : \A i \in DOMAIN f[c] : BucketOf[f[c][i]] = c
  BY DEF Files
<1>2. /\ len \in Nat /\ DOMAIN f[b] = 1..len /\ f[b] \in Seq(Messages)
      /\ \A i \in 1..len : f[b][i] \in Messages
  BY <1>1, LenProperties
<1>3. /\ Len(new) \in Nat /\ DOMAIN new = 1..Len(new)
      /\ \A i \in DOMAIN new : new[i] \in Messages
  BY LenProperties
<1>4. /\ f[b] \o new \in Seq(Messages) /\ DOMAIN (f[b] \o new) = 1..(len + Len(new))
      /\ \A i \in 1..(len + Len(new)) :
           (f[b] \o new)[i] = IF i <= len THEN f[b][i] ELSE new[i - len]
  BY <1>2, <1>3, ConcatProperties, LenProperties
<1>5. /\ g \in [Buckets -> Seq(Messages)] /\ g[b] = f[b] \o new
      /\ \A c \in Buckets : c # b => g[c] = f[c]
  BY <1>1, <1>4 DEF Grown
<1> HIDE DEF g
<1>6. /\ DOMAIN g[b] = 1..(len + Len(new))
      /\ \A i \in 1..len : g[b][i] = f[b][i]
      /\ \A i \in DOMAIN new : len + i \in 1..(len + Len(new)) /\ g[b][len + i] = new[i]
      /\ \A i \in 1..(len + Len(new)) : i \in 1..len \/ i - len \in DOMAIN new
      /\ Len(g[b]) = len + Len(new)
  BY <1>2, <1>3, <1>4, <1>5
<1> HIDE DEF len
<1>7. g \in Files
  <2>1. ASSUME NEW i \in DOMAIN g[b] PROVE BucketOf[g[b][i]] = b
    <3>1. CASE i \in 1..len
      BY <1>1, <1>2, <1>6, <3>1
    <3>2. CASE i - len \in DOMAIN new
      <4>1. i = len + (i - len)
        BY <1>2, <1>6
      <4>2. g[b][i] = new[i - len]
        BY <1>6, <3>2, <4>1
      <4> QED
        BY <3>2, <4>2
    <3> QED
      BY <1>6, <3>1, <3>2
  <2> QED
    BY <1>1, <1>5, <2>1 DEF Files
<1>8. \A m \in Range(new) : m \notin DOMAIN o /\ m \in Messages /\ BucketOf[m] = b
  BY <1>3 DEF Range
<1>9. DOMAIN e = DOMAIN o \cup Range(new) /\ \A m \in DOMAIN o : e[m] = o[m]
  BY DEF Entered
<1>10. ASSUME NEW m \in Range(new)
       PROVE  \E i \in DOMAIN new : new[i] = m /\ e[m] = len + i
  <2>1. \E i \in DOMAIN new : new[i] = m
    BY DEF Range
  <2> DEFINE j == CHOOSE i \in DOMAIN new : new[i] = m
  <2>2. j \in DOMAIN new /\ new[j] = m
    BY <2>1
  <2>3. e[m] = len + j
    BY <1>8 DEF Entered
  <2> QED
    BY <2>2, <2>3
<1> HIDE DEF e
<1>11. Offsets(e)
  <2>1. DOMAIN e \subseteq Messages
    BY <1>8, <1>9 DEF Offsets
  <2>2. ASSUME NEW m \in DOMAIN e PROVE e[m] \in Nat \ {0}
    <3>1. CASE m \in DOMAIN o
      BY <1>9, <3>1 DEF Offsets
    <3>2. CASE m \in Range(new)
      BY <1>2, <1>3, <1>10, <3>2
    <3> QED
      BY <1>9, <3>1, <3>2
  <2>3. e = [m \in DOMAIN e |-> e[m]]
    BY DEF e, Entered
  <2> QED
    BY <2>1, <2>2, <2>3 DEF Offsets
<1>12. ASSUME NoRecordTwice(f), Describes(o, f)
       PROVE  NoRecordTwice(g) /\ Describes(e, g)
  <2>1. Range(f[b]) = {m \in DOMAIN o : BucketOf[m] = b}
    BY <1>12 DEF Describes
  <2>2. ASSUME NEW i \in 1..len, NEW j \in DOMAIN new, f[b][i] = new[j] PROVE FALSE
    <3>1. new[j] \in Range(f[b])
      BY <1>2, <2>2 DEF Range
    <3> QED
      BY <2>1, <3>1
  <2>3. IsInjective(g[b])
    <3> SUFFICES ASSUME NEW i \in 1..(len + Len(new)), NEW j \in 1..(len + Len(new)),
                        g[b][i] = g[b][j]
                 PROVE  i = j
      BY <1>6 DEF IsInjective
    <3>1. i = len + (i - len) /\ j = len + (j - len)
      BY <1>2, <1>3
    <3>2. CASE i \in 1..len /\ j \in 1..len
      <4>1. f[b][i] = f[b][j]
        BY <1>6, <3>2
      <4> QED
        BY <1>2, <1>12, <3>2, <4>1 DEF NoRecordTwice, IsInjective
    <3>3. CASE i \in 1..len /\ j - len \in DOMAIN new
      <4>1. f[b][i] = new[j - len]
        BY <1>6, <3>1, <3>3
      <4> QED
        BY <2>2, <3>3, <4>1
    <3>4. CASE i - len \in DOMAIN new /\ j \in 1..len
      <4>1. f[b][j] = new[i - len]
        BY <1>6, <3>1, <3>4
      <4> QED
        BY <2>2, <3>4, <4>1
    <3>5. CASE i - len \in DOMAIN new /\ j - len \in DOMAIN new
      <4>1. new[i - len] = new[j - len]
        BY <1>6, <3>1, <3>5
      <4>2. i - len = j - len
        BY <3>5, <4>1 DEF IsInjective
      <4> QED
        BY <1>2, <1>3, <4>2
    <3> QED
      BY <1>6, <3>2, <3>3, <3>4, <3>5
  <2>4. NoRecordTwice(g)
    BY <1>5, <1>12, <2>3 DEF NoRecordTwice
  <2>5. Range(g[b]) = Range(f[b]) \cup Range(new)
    BY <1>2, <1>5, RangeConcatenation
  <2>6. Range(g[b]) = {m \in DOMAIN e : BucketOf[m] = b}
    BY <1>8, <1>9, <2>1, <2>5
  <2>7. ASSUME NEW m \in DOMAIN e, BucketOf[m] = b
        PROVE  e[m] <= Len(g[b]) /\ g[b][e[m]] = m
    <3>1. CASE m \in DOMAIN o
      <4>1. o[m] <= len /\ f[b][o[m]] = m /\ o[m] \in Nat \ {0}
        BY <1>12, <2>7, <3>1 DEF Describes, Offsets, len
      <4>2. o[m] \in 1..len /\ o[m] <= len + Len(new)
        BY <1>2, <1>3, <4>1
      <4> QED
        BY <1>6, <1>9, <3>1, <4>1, <4>2
    <3>2. CASE m \in Range(new)
      <4>1. PICK i \in DOMAIN new : new[i] = m /\ e[m] = len + i
        BY <1>10, <3>2
      <4> QED
        BY <1>2, <1>3, <1>6, <4>1
    <3> QED
      BY <1>9, <3>1, <3>2
  <2>8. ASSUME NEW c \in Buckets, c # b
        PROVE  /\ Range(g[c]) = {m \in DOMAIN e : BucketOf[m] = c}
               /\ \A m \in DOMAIN e : BucketOf[m] = c =>
                    e[m] <= Len(g[c]) /\ g[c][e[m]] = m
    <3>1. {m \in DOMAIN e : BucketOf[m] = c} = {m \in DOMAIN o : BucketOf[m] = c}
      BY <1>8, <1>9, <2>8
    <3>2. \A m \in DOMAIN e : BucketOf[m] = c => m \in DOMAIN o /\ e[m] = o[m]
      BY <1>8, <1>9, <2>8
    <3> QED
      BY <1>5, <1>12, <2>8, <3>1, <3>2 DEF Describes
  <2> QED
    BY <2>4, <2>6, <2>7, <2>8 DEF Describes
<1>13. \A m \in DOMAIN e : BucketOf[m] # b => m \in DOMAIN o
  BY <1>8, <1>9
<1> QED
  BY <1>7, <1>11, <1>12, <1>13 DEF g, e, len

(* SecureMsgStore as a step: only node n changes, and it stays in order if *)
(* it was; no token of another bucket appears.                             *)
LEMMA StoreStep ==
  ASSUME MessageTypes, NEW n \in Nodes, NEW b \in Buckets, NEW s \in Seq(Messages),
         \A i \in DOMAIN s : BucketOf[s[i]] = b, SecureMsgStore(n, b, s)
  PROVE  /\ file' \in [Nodes -> Files]
         /\ DOMAIN offset' = Nodes /\ \A k \in Nodes : Offsets(offset'[k])
         /\ \A k \in Nodes : k # n => file'[k] = file[k] /\ offset'[k] = offset[k]
         /\ NoRecordTwice(file[n]) /\ Describes(offset[n], file[n]) =>
              NoRecordTwice(file'[n]) /\ Describes(offset'[n], file'[n])
         /\ \A m \in DOMAIN offset'[n] : BucketOf[m] # b => m \in DOMAIN offset[n]
<1> DEFINE new == Accepted(n, s)
           f == file[n]
           o == offset[n]
<1>1. /\ new \in Seq(Messages) /\ IsInjective(new)
      /\ \A i \in DOMAIN new : new[i] \notin DOMAIN o /\ BucketOf[new[i]] = b
  BY AcceptedPart
<1>2. f \in Files /\ Offsets(o) /\ DOMAIN offset = Nodes /\ file \in [Nodes -> Files]
  BY DEF MessageTypes
<1>3. file' = [file EXCEPT ![n] = Grown(f, b, new)]
  BY <1>2 DEF SecureMsgStore, Grown
<1>4. offset' = [offset EXCEPT ![n] = Entered(o, Len(f[b]), new)]
  BY DEF SecureMsgStore, Entered
<1> HIDE DEF new
<1>5. /\ Grown(f, b, new) \in Files
      /\ Offsets(Entered(o, Len(f[b]), new))
      /\ NoRecordTwice(f) /\ Describes(o, f) =>
           /\ NoRecordTwice(Grown(f, b, new))
           /\ Describes(Entered(o, Len(f[b]), new), Grown(f, b, new))
      /\ \A m \in DOMAIN Entered(o, Len(f[b]), new) : BucketOf[m] # b => m \in DOMAIN o
  <2> HIDE DEF f, o
  <2> QED
    BY <1>1, <1>2, GrownStore
<1>6. /\ file'[n] = Grown(f, b, new) /\ offset'[n] = Entered(o, Len(f[b]), new)
      /\ \A k \in Nodes : k # n => file'[k] = file[k] /\ offset'[k] = offset[k]
      /\ file' \in [Nodes -> Files] /\ DOMAIN offset' = Nodes
  BY <1>2, <1>3, <1>4, <1>5
<1> QED
  BY <1>5, <1>6 DEF MessageTypes

(* The tokens built from files describe them. *)
LEMMA BuiltTokens ==
  ASSUME NEW f \in Files
  PROVE  /\ Offsets(TokensOf(f)) /\ Describes(TokensOf(f), f)
         /\ DOMAIN TokensOf(f) = UNION {Range(f[b]) : b \in Buckets}
<1> DEFINE o == TokensOf(f)
           all == UNION {Range(f[b]) : b \in Buckets}
<1>1. /\ \A b \in Buckets : f[b] \in Seq(Messages) /\ DOMAIN f[b] = 1..Len(f[b])
                            /\ Len(f[b]) \in Nat
      /\ \A b \in Buckets : \A i \in DOMAIN f[b] : BucketOf[f[b][i]] = b /\ f[b][i] \in Messages
  BY LenProperties DEF Files
<1>2. DOMAIN o = all /\ o = [m \in DOMAIN o |-> o[m]]
  BY DEF TokensOf
<1>3. ASSUME NEW m \in all
      PROVE  /\ m \in Messages /\ BucketOf[m] \in Buckets
             /\ o[m] \in DOMAIN f[BucketOf[m]] /\ f[BucketOf[m]][o[m]] = m
  <2>1. PICK b \in Buckets : \E i \in DOMAIN f[b] : f[b][i] = m
    BY DEF Range
  <2>2. m \in Messages /\ BucketOf[m] = b
    BY <1>1, <2>1
  <2>3. o[m] = CHOOSE i \in DOMAIN f[b] : f[b][i] = m
    BY <2>2 DEF TokensOf
  <2> QED
    BY <2>1, <2>2, <2>3
<1>4. ASSUME NEW b \in Buckets PROVE Range(f[b]) = {m \in all : BucketOf[m] = b}
  <2>1. \A m \in Range(f[b]) : m \in all /\ BucketOf[m] = b
    BY <1>1 DEF Range
  <2>2. \A m \in all : BucketOf[m] = b => m \in Range(f[b])
    BY <1>3 DEF Range
  <2> QED
    BY <2>1, <2>2
<1> HIDE DEF o, all
<1>5. Offsets(o)
  <2>1. \A m \in DOMAIN o : o[m] \in Nat \ {0}
    BY <1>1, <1>2, <1>3
  <2> QED
    BY <1>2, <1>3, <2>1 DEF Offsets
<1>6. Describes(o, f)
  <2>1. \A m \in DOMAIN o : o[m] <= Len(f[BucketOf[m]]) /\ f[BucketOf[m]][o[m]] = m
    BY <1>1, <1>2, <1>3
  <2> QED
    BY <1>2, <1>4, <2>1 DEF Describes
<1> QED
  BY <1>2, <1>5, <1>6 DEF o, all

(* Dropping whole buckets from files. *)
Dropped(f, S) == [b \in Buckets |-> IF b \in S THEN <<>> ELSE f[b]]

LEMMA DroppedFiles ==
  ASSUME NEW f \in Files, NEW S
  PROVE  /\ Dropped(f, S) \in Files
         /\ NoRecordTwice(f) => NoRecordTwice(Dropped(f, S))
<1>1. <<>> \in Seq(Messages) /\ DOMAIN <<>> = {} /\ IsInjective(<<>>)
  BY DEF IsInjective
<1>2. Dropped(f, S) \in [Buckets -> Seq(Messages)]
  BY <1>1 DEF Dropped, Files
<1>3. \A b \in Buckets : Dropped(f, S)[b] = <<>> \/ Dropped(f, S)[b] = f[b]
  BY DEF Dropped
<1>4. Dropped(f, S) \in Files
  <2>1. ASSUME NEW b \in Buckets, NEW i \in DOMAIN Dropped(f, S)[b]
        PROVE  BucketOf[Dropped(f, S)[b][i]] = b
    <3>1. Dropped(f, S)[b] = f[b]
      BY <1>1, <1>3, <2>1
    <3> QED
      BY <2>1, <3>1 DEF Files
  <2> QED
    BY <1>2, <2>1 DEF Files
<1>5. NoRecordTwice(f) => NoRecordTwice(Dropped(f, S))
  BY <1>1, <1>3 DEF NoRecordTwice
<1> QED
  BY <1>4, <1>5

(* Dropping the tokens too. *)
LEMMA DroppedTokens ==
  ASSUME NEW f \in Files, NEW o, Offsets(o), NEW S,
         NEW e, e = [m \in {x \in DOMAIN o : BucketOf[x] \notin S} |-> o[m]]
  PROVE  Offsets(e) /\ (Describes(o, f) => Describes(e, Dropped(f, S)))
<1>1. /\ DOMAIN e = {x \in DOMAIN o : BucketOf[x] \notin S}
      /\ \A m \in DOMAIN e : m \in DOMAIN o /\ e[m] = o[m] /\ BucketOf[m] \notin S
  OBVIOUS
<1>2. Offsets(e)
  BY <1>1 DEF Offsets
<1>3. ASSUME Describes(o, f), NEW b \in Buckets
      PROVE  /\ Range(Dropped(f, S)[b]) = {m \in DOMAIN e : BucketOf[m] = b}
             /\ \A m \in DOMAIN e : BucketOf[m] = b =>
                  e[m] <= Len(Dropped(f, S)[b]) /\ Dropped(f, S)[b][e[m]] = m
  <2>1. CASE b \in S
    <3>1. Dropped(f, S)[b] = <<>> /\ Range(<<>>) = {}
      BY <2>1 DEF Dropped, Range
    <3>2. \A m \in DOMAIN e : BucketOf[m] # b
      BY <1>1, <2>1
    <3> QED
      BY <3>1, <3>2
  <2>2. CASE b \notin S
    <3>1. Dropped(f, S)[b] = f[b]
      BY <2>2 DEF Dropped
    <3>2. {m \in DOMAIN e : BucketOf[m] = b} = {m \in DOMAIN o : BucketOf[m] = b}
      BY <1>1, <2>2
    <3> QED
      BY <1>1, <1>3, <3>1, <3>2 DEF Describes
  <2> QED
    BY <2>1, <2>2
<1> QED
  BY <1>2, <1>3 DEF Describes

(* SecureMsgBuildBucketSet at node n. *)
LEMMA BuildStep ==
  ASSUME MessageTypes, NEW n \in Nodes, BuildBucketSet(n)
  PROVE  /\ file' \in [Nodes -> Files]
         /\ DOMAIN offset' = Nodes /\ \A k \in Nodes : Offsets(offset'[k])
         /\ \A k \in Nodes : k # n => file'[k] = file[k] /\ offset'[k] = offset[k]
         /\ NoRecordTwice(file[n]) => NoRecordTwice(file'[n])
         /\ Describes(offset'[n], file'[n])
         /\ \A m \in DOMAIN offset'[n] : BucketOf[m] \notin expired
<1> DEFINE kept == Dropped(file[n], expired)
<1>1. file' = [file EXCEPT ![n] = kept] /\ offset' = [offset EXCEPT ![n] = TokensOf(kept)]
  BY DEF BuildBucketSet, Dropped
<1>2. file[n] \in Files /\ DOMAIN offset = Nodes /\ file \in [Nodes -> Files]
  BY DEF MessageTypes
<1>3. kept \in Files /\ (NoRecordTwice(file[n]) => NoRecordTwice(kept))
  BY <1>2, DroppedFiles
<1>4. /\ Offsets(TokensOf(kept)) /\ Describes(TokensOf(kept), kept)
      /\ DOMAIN TokensOf(kept) = UNION {Range(kept[b]) : b \in Buckets}
  <2> HIDE DEF kept
  <2> QED
    BY <1>3, BuiltTokens
<1>5. ASSUME NEW m \in DOMAIN TokensOf(kept) PROVE BucketOf[m] \notin expired
  <2>1. PICK b \in Buckets : \E i \in DOMAIN kept[b] : kept[b][i] = m
    BY <1>4 DEF Range
  <2>2. BucketOf[m] = b
    BY <1>3, <2>1 DEF Files
  <2>3. b \notin expired
    BY <2>1 DEF Dropped
  <2> QED
    BY <2>2, <2>3
<1> HIDE DEF kept
<1>6. /\ file'[n] = kept /\ offset'[n] = TokensOf(kept)
      /\ \A k \in Nodes : k # n => file'[k] = file[k] /\ offset'[k] = offset[k]
      /\ file' \in [Nodes -> Files] /\ DOMAIN offset' = Nodes
  BY <1>1, <1>2, <1>3
<1> QED
  BY <1>3, <1>4, <1>5, <1>6 DEF MessageTypes

-----------------------------------------------------------------------------
(* Messages and connections. *)

LEMMA WireFacts ==
  ASSUME NEW x \in Wire
  PROVE  /\ x.type = "smsgInv" => x \in InvWire
         /\ x.type = "smsgShow" => x \in ShowWire
         /\ x.type = "smsgHave" => x \in HaveWire
         /\ x.type = "smsgWant" => x \in WantWire
         /\ x.type = "smsgMatch" => x \in MatchWire
         /\ x.type = "smsgMsg" => x \in MsgWire
<1>1. CASE x \in InvWire
  BY <1>1 DEF InvWire
<1>2. CASE x \in ShowWire
  BY <1>2 DEF ShowWire
<1>3. CASE x \in HaveWire
  BY <1>3 DEF HaveWire
<1>4. CASE x \in WantWire
  BY <1>4 DEF WantWire
<1>5. CASE x \in MatchWire
  BY <1>5 DEF MatchWire
<1>6. CASE x \in PlainWire
  BY <1>6 DEF PlainWire
<1>7. CASE x \in MsgWire
  BY <1>7 DEF MsgWire
<1> QED
  BY <1>1, <1>2, <1>3, <1>4, <1>5, <1>6, <1>7 DEF Wire

(* A message that is neither a request nor an answer to one. *)
Neutral(x) == x.type \notin {"smsgWant", "smsgMsg"}

(* The queue t has the messages of s at their places, and neutral ones. *)
Harmless(s, t) ==
  \A i \in DOMAIN t : (i \in DOMAIN s /\ t[i] = s[i]) \/ Neutral(t[i])

LEMMA Sent ==
  ASSUME NEW s \in Seq(Wire), NEW x \in Seq(Wire), \A i \in DOMAIN x : Neutral(x[i])
  PROVE  s \o x \in Seq(Wire) /\ Harmless(s, s \o x)
<1>1. /\ Len(s) \in Nat /\ DOMAIN s = 1..Len(s)
      /\ Len(x) \in Nat /\ DOMAIN x = 1..Len(x)
  BY LenProperties
<1>2. /\ s \o x \in Seq(Wire) /\ DOMAIN (s \o x) = 1..(Len(s) + Len(x))
      /\ \A i \in 1..(Len(s) + Len(x)) :
           (s \o x)[i] = IF i <= Len(s) THEN s[i] ELSE x[i - Len(s)]
  BY <1>1, ConcatProperties, LenProperties
<1>3. ASSUME NEW i \in 1..(Len(s) + Len(x))
      PROVE  (i \in DOMAIN s /\ (s \o x)[i] = s[i]) \/ Neutral((s \o x)[i])
  <2>1. CASE i <= Len(s)
    BY <1>1, <1>2, <2>1
  <2>2. CASE ~ (i <= Len(s))
    <3>1. i - Len(s) \in DOMAIN x /\ (s \o x)[i] = x[i - Len(s)]
      BY <1>1, <1>2, <2>2
    <3> QED
      BY <3>1
  <2> QED
    BY <2>1, <2>2
<1> QED
  BY <1>2, <1>3 DEF Harmless

LEMMA SentOne ==
  ASSUME NEW s \in Seq(Wire), NEW x \in Wire, Neutral(x)
  PROVE  Append(s, x) \in Seq(Wire) /\ Harmless(s, Append(s, x))
<1>1. Len(s) \in Nat /\ DOMAIN s = 1..Len(s)
  BY LenProperties
<1>2. /\ Append(s, x) \in Seq(Wire) /\ DOMAIN Append(s, x) = 1..(Len(s) + 1)
      /\ \A i \in 1..Len(s) : Append(s, x)[i] = s[i]
      /\ Append(s, x)[Len(s) + 1] = x
  BY <1>1, AppendProperties, LenProperties
<1>3. \A i \in 1..(Len(s) + 1) : i \in 1..Len(s) \/ i = Len(s) + 1
  BY <1>1
<1> QED
  BY <1>1, <1>2, <1>3 DEF Harmless

(* Every item of e is an item of c, on the link from p to q one place      *)
(* further up if the first message there was taken (k = 1).                *)
Kept(c, e, p, q, k, n, b) ==
  \A a, d \in Nodes : \A i \in DOMAIN e[a][d] :
    Item(e, n, b, a, d, i) =>
      Item(c, n, b, a, d, IF a = p /\ d = q THEN i + k ELSE i)

LEMMA ItemsKept ==
  ASSUME NEW c, NEW e \in Links, NEW p, NEW q, NEW k \in Nat, NEW n, NEW b,
         Kept(c, e, p, q, k, n, b)
  PROVE  /\ NoItem(c, n, b) => NoItem(e, n, b)
         /\ OneItem(c, n, b) => OneItem(e, n, b)
<1> DEFINE at(a, d, i) == IF a = p /\ d = q THEN i + k ELSE i
<1>1. \A a, d \in Nodes : \A i \in DOMAIN e[a][d] : i \in Nat
  <2> SUFFICES ASSUME NEW a \in Nodes, NEW d \in Nodes, NEW i \in DOMAIN e[a][d]
               PROVE  i \in Nat
    OBVIOUS
  <2>1. e[a][d] \in Seq(Wire)
    BY DEF Links
  <2> QED
    BY <2>1, LenProperties
<1>2. \A a, d \in Nodes : \A i \in DOMAIN e[a][d] :
        Item(e, n, b, a, d, i) =>
          at(a, d, i) \in DOMAIN c[a][d] /\ Item(c, n, b, a, d, at(a, d, i))
  BY DEF Kept, Item
<1>3. \A a, d \in Nodes : \A i, j \in DOMAIN e[a][d] : at(a, d, i) = at(a, d, j) => i = j
  BY <1>1
<1> HIDE DEF at
<1>4. NoItem(c, n, b) => NoItem(e, n, b)
  BY <1>2 DEF NoItem
<1>5. OneItem(c, n, b) => OneItem(e, n, b)
  <2> SUFFICES ASSUME OneItem(c, n, b),
                      NEW a \in Nodes, NEW d \in Nodes, NEW x \in Nodes, NEW y \in Nodes,
                      NEW i \in DOMAIN e[a][d], NEW j \in DOMAIN e[x][y],
                      Item(e, n, b, a, d, i), Item(e, n, b, x, y, j)
               PROVE  a = x /\ d = y /\ i = j
    BY DEF OneItem
  <2>1. a = x /\ d = y /\ at(a, d, i) = at(x, y, j)
    BY <1>2 DEF OneItem
  <2> QED
    BY <1>3, <2>1
<1> QED
  BY <1>4, <1>5

LEMMA HarmlessKept ==
  ASSUME NEW c, NEW e \in Links,
         \A a, d \in Nodes : Harmless(c[a][d], e[a][d])
  PROVE  \A n, b : /\ NoItem(c, n, b) => NoItem(e, n, b)
                   /\ OneItem(c, n, b) => OneItem(e, n, b)
<1> SUFFICES ASSUME NEW n, NEW b
             PROVE  /\ NoItem(c, n, b) => NoItem(e, n, b)
                    /\ OneItem(c, n, b) => OneItem(e, n, b)
  OBVIOUS
<1>1. ASSUME NEW a \in Nodes, NEW d \in Nodes, NEW i \in DOMAIN e[a][d],
             Item(e, n, b, a, d, i)
      PROVE  Item(c, n, b, a, d, i)
  <2>1. ~ Neutral(e[a][d][i])
    BY <1>1 DEF Item, Counts, Neutral
  <2>2. i \in DOMAIN c[a][d] /\ e[a][d][i] = c[a][d][i]
    BY <1>1, <2>1 DEF Harmless
  <2> QED
    BY <1>1, <2>2 DEF Item
<1>2. \A a, d \in Nodes : \A i \in DOMAIN e[a][d] : i = IF a = n /\ d = n THEN i + 0 ELSE i
  <2> SUFFICES ASSUME NEW a \in Nodes, NEW d \in Nodes, NEW i \in DOMAIN e[a][d]
               PROVE  i = IF a = n /\ d = n THEN i + 0 ELSE i
    OBVIOUS
  <2>1. e[a][d] \in Seq(Wire)
    BY DEF Links
  <2>2. i \in Nat
    BY <2>1, LenProperties
  <2> QED
    BY <2>2
<1>3. Kept(c, e, n, n, 0, n, b)
  BY <1>1, <1>2 DEF Kept
<1> QED
  BY <1>3, ItemsKept

(* Answer takes the first message from p to n and sends out from n to p. *)
LEMMA AnswerLinks ==
  ASSUME chan \in Links, NEW n \in Nodes, NEW p \in Nodes, n # p,
         chan[p][n] # <<>>, NEW out \in Seq(Wire)
  PROVE  /\ Answer(n, p, out) \in Links
         /\ \A i \in DOMAIN Answer(n, p, out)[p][n] :
              /\ i \in Nat \ {0} /\ i + 1 \in DOMAIN chan[p][n]
              /\ Answer(n, p, out)[p][n][i] = chan[p][n][i + 1]
         /\ \A i \in DOMAIN Answer(n, p, out)[n][p] :
              \/ i \in DOMAIN chan[n][p] /\ Answer(n, p, out)[n][p][i] = chan[n][p][i]
              \/ /\ i - Len(chan[n][p]) \in DOMAIN out
                 /\ Answer(n, p, out)[n][p][i] = out[i - Len(chan[n][p])]
         /\ \A a, d \in Nodes :
              <<a, d>> # <<p, n>> /\ <<a, d>> # <<n, p>> =>
                Answer(n, p, out)[a][d] = chan[a][d]
<1> DEFINE e == Answer(n, p, out)
           s == chan[p][n]
           t == chan[n][p]
<1>1. s \in Seq(Wire) /\ t \in Seq(Wire) /\ s # <<>>
  BY DEF Links
<1>2. /\ Len(s) \in Nat \ {0} /\ DOMAIN s = 1..Len(s)
      /\ Len(t) \in Nat /\ DOMAIN t = 1..Len(t)
      /\ Len(out) \in Nat /\ DOMAIN out = 1..Len(out)
  BY <1>1, LenProperties, EmptySeq
<1>3. e[p][n] = Tail(s) /\ e[n][p] = t \o out
  BY DEF Answer, Links
<1>4. \A a, d \in Nodes : <<a, d>> # <<p, n>> /\ <<a, d>> # <<n, p>> => e[a][d] = chan[a][d]
  BY DEF Answer, Links
<1>5. /\ Tail(s) \in Seq(Wire) /\ DOMAIN Tail(s) = 1..(Len(s) - 1)
      /\ \A i \in 1..(Len(s) - 1) : Tail(s)[i] = s[i + 1]
  BY <1>1, <1>2, HeadTailProperties, LenProperties
<1>6. /\ t \o out \in Seq(Wire) /\ DOMAIN (t \o out) = 1..(Len(t) + Len(out))
      /\ \A i \in 1..(Len(t) + Len(out)) :
           (t \o out)[i] = IF i <= Len(t) THEN t[i] ELSE out[i - Len(t)]
  BY <1>1, <1>2, ConcatProperties, LenProperties
<1>7. e \in Links
  <2>1. /\ DOMAIN e = Nodes /\ \A a \in Nodes : DOMAIN e[a] = Nodes
        /\ e = [a \in Nodes |-> e[a]] /\ \A a \in Nodes : e[a] = [d \in Nodes |-> e[a][d]]
    BY DEF Answer, Links
  <2>2. \A a, d \in Nodes : e[a][d] \in Seq(Wire)
    <3> SUFFICES ASSUME NEW a \in Nodes, NEW d \in Nodes PROVE e[a][d] \in Seq(Wire)
      OBVIOUS
    <3>1. chan[a][d] \in Seq(Wire)
      BY DEF Links
    <3> HIDE DEF e
    <3> QED
      BY <1>3, <1>4, <1>5, <1>6, <3>1
  <2> HIDE DEF e
  <2> QED
    BY <2>1, <2>2 DEF Links
<1> HIDE DEF e
<1>8. \A i \in DOMAIN e[p][n] :
        i \in Nat \ {0} /\ i + 1 \in DOMAIN s /\ e[p][n][i] = s[i + 1]
  BY <1>2, <1>3, <1>5
<1>9. \A i \in DOMAIN e[n][p] :
        \/ i \in DOMAIN t /\ e[n][p][i] = t[i]
        \/ i - Len(t) \in DOMAIN out /\ e[n][p][i] = out[i - Len(t)]
  BY <1>2, <1>3, <1>6
<1> QED
  BY <1>4, <1>7, <1>8, <1>9 DEF e

(* An answer in which no message counts for k and b keeps their items; one *)
(* that takes their only item leaves none, or the one it sends.            *)
LEMMA AnswerItems ==
  ASSUME chan \in Links, NEW n \in Nodes, NEW p \in Nodes, n # p,
         chan[p][n] # <<>>, NEW out \in Seq(Wire), NEW k, NEW b
  PROVE  /\ (\A j \in DOMAIN out : ~ Counts(out[j], k, b, n, p)) =>
              /\ NoItem(chan, k, b) => NoItem(Answer(n, p, out), k, b)
              /\ OneItem(chan, k, b) => OneItem(Answer(n, p, out), k, b)
         /\ OneItem(chan, k, b) /\ Item(chan, k, b, p, n, 1) /\ out = <<>> =>
              NoItem(Answer(n, p, out), k, b)
         /\ /\ OneItem(chan, k, b)
            /\ Item(chan, k, b, p, n, 1) \/ NoItem(chan, k, b)
            /\ DOMAIN out \subseteq {1}
            => OneItem(Answer(n, p, out), k, b)
<1> DEFINE e == Answer(n, p, out)
           at(a, d, i) == IF a = p /\ d = n THEN i + 1 ELSE i
           sent(a, d, i) == a = n /\ d = p /\ i - Len(chan[n][p]) \in DOMAIN out
                            /\ e[n][p][i] = out[i - Len(chan[n][p])]
<1>1. e \in Links
  BY AnswerLinks
<1>2. /\ \A i \in DOMAIN e[p][n] : i \in Nat \ {0} /\ i + 1 \in DOMAIN chan[p][n]
                                   /\ e[p][n][i] = chan[p][n][i + 1]
      /\ \A i \in DOMAIN e[n][p] :
           (i \in DOMAIN chan[n][p] /\ e[n][p][i] = chan[n][p][i]) \/ sent(n, p, i)
      /\ \A a, d \in Nodes : <<a, d>> # <<p, n>> /\ <<a, d>> # <<n, p>> => e[a][d] = chan[a][d]
  BY AnswerLinks
<1> HIDE DEF e
<1>3. \A a, d \in Nodes : \A i \in DOMAIN e[a][d] :
        Item(e, k, b, a, d, i) => Item(chan, k, b, a, d, at(a, d, i)) \/ sent(a, d, i)
  <2> SUFFICES ASSUME NEW a \in Nodes, NEW d \in Nodes, NEW i \in DOMAIN e[a][d],
                      Item(e, k, b, a, d, i), ~ sent(a, d, i)
               PROVE  Item(chan, k, b, a, d, at(a, d, i))
    OBVIOUS
  <2>1. at(a, d, i) \in DOMAIN chan[a][d] /\ e[a][d][i] = chan[a][d][at(a, d, i)]
    <3>1. CASE a = p /\ d = n
      BY <1>2, <3>1
    <3>2. CASE a = n /\ d = p
      BY <1>2, <3>2
    <3>3. CASE <<a, d>> # <<p, n>> /\ <<a, d>> # <<n, p>>
      BY <1>2, <3>3
    <3> QED
      BY <3>1, <3>2, <3>3
  <2> QED
    BY <2>1 DEF Item
<1>4. \A a, d \in Nodes : \A i \in DOMAIN e[a][d] :
        i \in Nat \ {0} /\ (at(a, d, i) = 1 => ~ (a = p /\ d = n))
  <2> SUFFICES ASSUME NEW a \in Nodes, NEW d \in Nodes, NEW i \in DOMAIN e[a][d]
               PROVE  i \in Nat \ {0} /\ (at(a, d, i) = 1 => ~ (a = p /\ d = n))
    OBVIOUS
  <2>1. e[a][d] \in Seq(Wire)
    BY <1>1 DEF Links
  <2>2. i \in Nat \ {0}
    BY <2>1, LenProperties
  <2> QED
    BY <2>2
<1>5. ASSUME \A j \in DOMAIN out : ~ Counts(out[j], k, b, n, p)
      PROVE  /\ NoItem(chan, k, b) => NoItem(e, k, b)
             /\ OneItem(chan, k, b) => OneItem(e, k, b)
  <2>1. ASSUME NEW a \in Nodes, NEW d \in Nodes, NEW i \in DOMAIN e[a][d],
               Item(e, k, b, a, d, i)
        PROVE  Item(chan, k, b, a, d, at(a, d, i))
    <3>1. ~ sent(a, d, i)
      BY <1>5, <2>1 DEF Item
    <3> QED
      BY <1>3, <2>1, <3>1
  <2>2. Kept(chan, e, p, n, 1, k, b)
    BY <2>1 DEF Kept
  <2> QED
    BY <1>1, <2>2, ItemsKept
<1>6. ASSUME OneItem(chan, k, b), Item(chan, k, b, p, n, 1) \/ NoItem(chan, k, b),
             NEW a \in Nodes, NEW d \in Nodes, NEW i \in DOMAIN e[a][d],
             Item(e, k, b, a, d, i)
      PROVE  sent(a, d, i)
  <2> SUFFICES ASSUME Item(chan, k, b, a, d, at(a, d, i)) PROVE FALSE
    BY <1>3, <1>6
  <2>1. at(a, d, i) \in DOMAIN chan[a][d]
    BY DEF Item
  <2> HIDE DEF at
  <2>2. CASE NoItem(chan, k, b)
    BY <2>1, <2>2 DEF NoItem
  <2>3. CASE Item(chan, k, b, p, n, 1)
    <3>1. 1 \in DOMAIN chan[p][n]
      BY <2>3 DEF Item
    <3>2. a = p /\ d = n /\ at(a, d, i) = 1
      BY <1>6, <2>1, <2>3, <3>1 DEF OneItem
    <3> QED
      BY <1>4, <3>2
  <2> QED
    BY <1>6, <2>2, <2>3
<1>7. ASSUME OneItem(chan, k, b), Item(chan, k, b, p, n, 1), out = <<>>
      PROVE  NoItem(e, k, b)
  BY <1>6, <1>7 DEF NoItem
<1>8. ASSUME OneItem(chan, k, b), Item(chan, k, b, p, n, 1) \/ NoItem(chan, k, b),
             DOMAIN out \subseteq {1}
      PROVE  OneItem(e, k, b)
  <2> SUFFICES ASSUME NEW a \in Nodes, NEW d \in Nodes, NEW x \in Nodes, NEW y \in Nodes,
                      NEW i \in DOMAIN e[a][d], NEW j \in DOMAIN e[x][y],
                      Item(e, k, b, a, d, i), Item(e, k, b, x, y, j)
               PROVE  a = x /\ d = y /\ i = j
    BY DEF OneItem
  <2>1. sent(a, d, i) /\ sent(x, y, j)
    BY <1>6, <1>8
  <2>2. a = n /\ d = p /\ x = n /\ y = p
    BY <2>1
  <2>3. i - Len(chan[n][p]) = 1 /\ j - Len(chan[n][p]) = 1
    BY <1>8, <2>1
  <2>4. Len(chan[n][p]) \in Nat /\ i \in Nat /\ j \in Nat
    <3>1. chan[n][p] \in Seq(Wire)
      BY DEF Links
    <3>2. i \in Nat /\ j \in Nat
      BY <1>4
    <3> QED
      BY <3>1, <3>2, LenProperties
  <2> QED
    BY <2>2, <2>3, <2>4
<1> QED
  BY <1>5, <1>7, <1>8 DEF e

(* Stamped changes nothing but what smsgMatch messages carry. *)
LEMMA StampedLinks ==
  ASSUME NEW c \in Links, NEW n \in Nodes, NEW b \in Buckets
  PROVE  /\ Stamped(c, n, b) \in Links
         /\ \A a, d \in Nodes : Harmless(c[a][d], Stamped(c, n, b)[a][d])
<1> DEFINE e == Stamped(c, n, b)
           st(x) == Overtaken(x, b)
<1>1. ASSUME NEW x \in Wire
      PROVE  st(x) \in Wire /\ (st(x) = x \/ Neutral(st(x)))
  <2>1. CASE x.type = "smsgMatch"
    <3>1. x \in MatchWire
      BY <2>1, WireFacts
    <3>2. st(x) \in MatchWire
      BY <2>1, <3>1 DEF MatchWire, Overtaken
    <3> HIDE DEF st
    <3>3. Neutral(st(x))
      BY <3>2 DEF MatchWire, Neutral
    <3> QED
      BY <3>2, <3>3 DEF Wire
  <2>2. CASE x.type # "smsgMatch"
    BY <2>2 DEF Overtaken
  <2> QED
    BY <2>1, <2>2
<1>2. ASSUME NEW a \in Nodes
      PROVE  /\ e[a][n] = [i \in DOMAIN c[a][n] |-> st(c[a][n][i])]
             /\ \A d \in Nodes : d # n => e[a][d] = c[a][d]
             /\ e[a] = [d \in Nodes |-> e[a][d]]
  BY DEF Stamped, Links
<1>3. e = [a \in Nodes |-> e[a]]
  BY DEF Stamped
<1> HIDE DEF e, st
<1>4. ASSUME NEW a \in Nodes, NEW d \in Nodes
      PROVE  e[a][d] \in Seq(Wire) /\ Harmless(c[a][d], e[a][d])
  <2>1. c[a][d] \in Seq(Wire)
    BY DEF Links
  <2>2. /\ Len(c[a][d]) \in Nat /\ DOMAIN c[a][d] = 1..Len(c[a][d])
        /\ \A i \in DOMAIN c[a][d] : c[a][d][i] \in Wire
    BY <2>1, LenProperties
  <2>3. CASE d = n
    <3>0. e[a][d] = [i \in 1..Len(c[a][d]) |-> st(c[a][d][i])]
      BY <1>2, <2>2, <2>3
    <3>1. /\ e[a][d] \in [1..Len(c[a][d]) -> Wire]
          /\ DOMAIN e[a][d] = DOMAIN c[a][d]
          /\ \A i \in DOMAIN c[a][d] : e[a][d][i] = c[a][d][i] \/ Neutral(e[a][d][i])
      BY <1>1, <2>2, <3>0
    <3>2. e[a][d] \in Seq(Wire)
      BY <2>2, <3>1, SeqDef
    <3> QED
      BY <3>1, <3>2 DEF Harmless
  <2>4. CASE d # n
    BY <1>2, <2>1, <2>4 DEF Harmless
  <2> QED
    BY <2>3, <2>4
<1>5. e \in Links
  BY <1>2, <1>3, <1>4 DEF Links
<1> QED
  BY <1>4, <1>5 DEF e

(* Links without some of the connections. *)
Without(c, S) == [n \in Nodes |-> [p \in Nodes |-> IF <<n, p>> \in S THEN <<>> ELSE c[n][p]]]

LEMMA WithoutLinks ==
  ASSUME NEW c \in Links, NEW S
  PROVE  /\ Without(c, S) \in Links
         /\ \A a, d \in Nodes : Harmless(c[a][d], Without(c, S)[a][d])
<1>1. <<>> \in Seq(Wire) /\ DOMAIN <<>> = {}
  OBVIOUS
<1>2. \A a, d \in Nodes : Without(c, S)[a][d] = <<>> \/ Without(c, S)[a][d] = c[a][d]
  BY DEF Without
<1>3. \A a, d \in Nodes : c[a][d] \in Seq(Wire)
  BY DEF Links
<1>4. Without(c, S) \in Links
  BY <1>1, <1>3 DEF Without, Links
<1>5. \A a, d \in Nodes : Harmless(c[a][d], Without(c, S)[a][d])
  BY <1>1, <1>2 DEF Harmless
<1> QED
  BY <1>4, <1>5

(* One node sends: its row of the links is replaced. *)
LEMMA RowLinks ==
  ASSUME NEW c \in Links, NEW n \in Nodes, NEW r \in [Nodes -> Seq(Wire)],
         \A p \in Nodes : Harmless(c[n][p], r[p]),
         NEW e, e = [c EXCEPT ![n] = r]
  PROVE  e \in Links /\ \A a, d \in Nodes : Harmless(c[a][d], e[a][d])
<1>1. e \in Links
  BY DEF Links
<1>2. e[n] = r /\ \A a \in Nodes : a # n => e[a] = c[a]
  BY DEF Links
<1>3. \A a, d \in Nodes : Harmless(c[a][d], e[a][d])
  <2> SUFFICES ASSUME NEW a \in Nodes, NEW d \in Nodes PROVE Harmless(c[a][d], e[a][d])
    OBVIOUS
  <2>1. CASE a = n
    BY <1>2, <2>1
  <2>2. CASE a # n
    BY <1>2, <2>2 DEF Harmless
  <2> QED
    BY <2>1, <2>2
<1> QED
  BY <1>1, <1>3

(* A step that adds no request or answer, and unlocks no bucket except by  *)
(* giving up.                                                              *)
LEMMA LocksKept ==
  ASSUME LockInv, chan' \in Links,
         \A n, b : /\ NoItem(chan, n, b) => NoItem(chan', n, b)
                   /\ OneItem(chan, n, b) => OneItem(chan', n, b),
         gaveUp \subseteq gaveUp', expired \subseteq expired',
         \A n \in Nodes \ gaveUp' : \A b \in Buckets \ expired' :
           lock'[n][b] = 0 => lock[n][b] = 0
  PROVE  LockInv'
<1> SUFFICES ASSUME NEW n \in Nodes \ gaveUp', NEW b \in Buckets
             PROVE  /\ OneItem(chan', n, b)
                    /\ lock'[n][b] = 0 /\ b \notin expired' => NoItem(chan', n, b)
  BY DEF LockInv, OneItem, NoItem, Item
<1>1. /\ OneItem(chan, n, b)
      /\ lock[n][b] = 0 /\ b \notin expired => NoItem(chan, n, b)
  BY DEF LockInv
<1> QED
  BY <1>1

-----------------------------------------------------------------------------
(* The steps: receiving. *)

LEMMA TakenMessage ==
  ASSUME chan \in Links, NEW n \in Nodes, NEW p \in Nodes, chan[p][n] # <<>>
  PROVE  /\ Head(chan[p][n]) \in Wire /\ Head(chan[p][n]) = chan[p][n][1]
         /\ 1 \in DOMAIN chan[p][n]
<1>1. chan[p][n] \in Seq(Wire)
  BY DEF Links
<1> QED
  BY <1>1, LenProperties, EmptySeq, HeadTailProperties

(* The store does not change. *)
LEMMA StoreKept ==
  ASSUME StoreInv, UNCHANGED <<on, offset, file, scanned>>
  PROVE  StoreInv'
BY DEF StoreInv

(* A message is answered by neutral ones. *)
LEMMA NeutralAnswer ==
  ASSUME MessageInv, NEW n \in Nodes, NEW p \in Nodes, n # p, chan[p][n] # <<>>,
         NEW out \in Seq(Wire), \A j \in DOMAIN out : Neutral(out[j]),
         chan' = Answer(n, p, out), UNCHANGED <<lock, expired, gaveUp>>
  PROVE  chan' \in Links /\ LockInv'
<1>1. chan \in Links /\ LockInv
  BY DEF MessageInv, MessageTypes
<1>2. chan' \in Links
  BY <1>1, AnswerLinks
<1>3. ASSUME NEW k, NEW b
      PROVE  /\ NoItem(chan, k, b) => NoItem(chan', k, b)
             /\ OneItem(chan, k, b) => OneItem(chan', k, b)
  <2>1. \A j \in DOMAIN out : ~ Counts(out[j], k, b, n, p)
    BY DEF Neutral, Counts
  <2> QED
    BY <1>1, <2>1, AnswerItems
<1>4. LockInv'
  BY <1>1, <1>2, <1>3, LocksKept
<1> QED
  BY <1>2, <1>4

LEMMA OneNeutral ==
  ASSUME NEW x \in Wire, Neutral(x)
  PROVE  <<x>> \in Seq(Wire) /\ \A j \in DOMAIN <<x>> : Neutral(<<x>>[j])
<1>1. DOMAIN <<x>> = {1} /\ <<x>>[1] = x
  OBVIOUS
<1> QED
  BY <1>1

LEMMA NothingSent ==
  <<>> \in Seq(Wire) /\ \A j \in DOMAIN <<>> : Neutral(<<>>[j])
OBVIOUS

LEMMA PlainFacts ==
  ASSUME NEW t \in {"smsgPing", "smsgPong", "smsgDisabled", "smsgIgnore"}
  PROVE  [type |-> t] \in Wire /\ Neutral([type |-> t])
BY DEF Wire, PlainWire, Neutral

(* A step on the connections only. *)
LEMMA NetworkStep ==
  ASSUME MessageInv, UNCHANGED <<nodeVars, expired, boundVars, histVars>>,
         chan' \in Links, LockInv', peer' \in [Nodes -> [Nodes -> SecMsgNodes]]
  PROVE  MessageInv'
<1>1. MessageTypes'
  BY DEF MessageInv, MessageTypes, nodeVars, boundVars
<1>2. StoreInv'
  BY StoreKept DEF MessageInv, nodeVars, histVars
<1> QED
  BY <1>1, <1>2 DEF MessageInv

(* The message of p is taken and answered by neutral ones. *)
LEMMA QuietStep ==
  ASSUME MessageInv, NEW n \in Nodes, NEW p \in Nodes, n # p, chan[p][n] # <<>>,
         NEW out \in Seq(Wire), \A j \in DOMAIN out : Neutral(out[j]),
         chan' = Answer(n, p, out),
         UNCHANGED <<nodeVars, expired, boundVars, histVars>>,
         peer' \in [Nodes -> [Nodes -> SecMsgNodes]]
  PROVE  MessageInv'
<1>1. chan' \in Links /\ LockInv'
  BY NeutralAnswer DEF nodeVars, histVars
<1> QED
  BY <1>1, NetworkStep

LEMMA RecvInvInv ==
  ASSUME MessageInv, NEW n \in Nodes, NEW p \in Nodes, n # p, RecvInv(n, p)
  PROVE  MessageInv'
<1>1. /\ chan \in Links /\ peer \in [Nodes -> [Nodes -> SecMsgNodes]]
      /\ chan[p][n] # <<>> /\ Head(chan[p][n]).type = "smsgInv"
      /\ UNCHANGED <<nodeVars, expired, boundVars, histVars>> /\ peer' = peer
  BY DEF MessageInv, MessageTypes, RecvInv, Incoming
<1>2. Head(chan[p][n]) \in InvWire
  BY <1>1, TakenMessage, WireFacts
<1>3. DOMAIN Head(chan[p][n]).inv \subseteq Buckets
  <2>1. Head(chan[p][n]).inv \in Announcements
    BY <1>2 DEF InvWire
  <2> QED
    BY <2>1 DEF Announcements
<1>4. \A S \in SUBSET Buckets :
        /\ [type |-> "smsgShow", show |-> S] \in Wire
        /\ Neutral([type |-> "smsgShow", show |-> S])
  <2> SUFFICES ASSUME NEW S \in SUBSET Buckets
               PROVE  /\ [type |-> "smsgShow", show |-> S] \in Wire
                      /\ Neutral([type |-> "smsgShow", show |-> S])
    OBVIOUS
  <2>1. [type |-> "smsgShow", show |-> S] \in ShowWire
    BY DEF ShowWire
  <2> QED
    BY <2>1 DEF Wire, Neutral
<1>5. \A S \in SUBSET Buckets :
        /\ [type |-> "smsgMatch", later |-> S] \in Wire
        /\ Neutral([type |-> "smsgMatch", later |-> S])
  <2> SUFFICES ASSUME NEW S \in SUBSET Buckets
               PROVE  /\ [type |-> "smsgMatch", later |-> S] \in Wire
                      /\ Neutral([type |-> "smsgMatch", later |-> S])
    OBVIOUS
  <2>1. [type |-> "smsgMatch", later |-> S] \in MatchWire
    BY DEF MatchWire
  <2> QED
    BY <2>1 DEF Wire, Neutral
<1>6. \E out \in Seq(Wire) :
        (\A j \in DOMAIN out : Neutral(out[j])) /\ chan' = Answer(n, p, out)
  <2>1. CASE chan' = Taken(n, p)
    BY <2>1, NothingSent DEF Taken
  <2>2. CASE \E S \in SUBSET Buckets :
               chan' = Answer(n, p, <<[type |-> "smsgShow", show |-> S]>>)
    BY <1>4, <2>2, OneNeutral
  <2>3. CASE \E S \in SUBSET Buckets :
               chan' = Answer(n, p, <<[type |-> "smsgMatch", later |-> S]>>)
    BY <1>5, <2>3, OneNeutral
  <2>4. peer[p][n].fresh \in SUBSET Buckets
    BY <1>1 DEF SecMsgNodes
  <2> QED
    BY <1>3, <2>1, <2>2, <2>3, <2>4 DEF RecvInv
<1> QED
  BY <1>1, <1>6, QuietStep

LEMMA RecvShowInv ==
  ASSUME MessageInv, NEW n \in Nodes, NEW p \in Nodes, n # p, RecvShow(n, p)
  PROVE  MessageInv'
<1> DEFINE show == {b \in Head(chan[p][n]).show : Tokens(n, b) # {}}
           have == [i \in 1..Cardinality(show) |->
                      [type |-> "smsgHave", bucket |-> Sorted(show)[i],
                       have |-> Tokens(n, Sorted(show)[i])]]
<1>1. /\ chan \in Links /\ peer \in [Nodes -> [Nodes -> SecMsgNodes]]
      /\ chan[p][n] # <<>> /\ Head(chan[p][n]).type = "smsgShow"
      /\ UNCHANGED <<nodeVars, expired, boundVars, histVars>> /\ peer' = peer
      /\ chan' = Answer(n, p, have) /\ Offsets(offset[n])
  BY DEF MessageInv, MessageTypes, RecvShow, Incoming
<1>2. show \in SUBSET Buckets
  <2>1. Head(chan[p][n]) \in ShowWire
    BY <1>1, TakenMessage, WireFacts
  <2> QED
    BY <2>1 DEF ShowWire
<1> HIDE DEF show
<1>3. show \in SUBSET Nat /\ IsFiniteSet(show)
  BY <1>2, Assumptions, FS_Subset
<1>4. /\ Cardinality(show) \in Nat
      /\ \A i \in 1..Cardinality(show) : Sorted(show)[i] \in Buckets
  <2>1. /\ Sorted(show) \in Seq(show) /\ DOMAIN Sorted(show) = 1..Cardinality(show)
        /\ Cardinality(show) \in Nat
    BY <1>3, SortedSet
  <2>2. \A i \in DOMAIN Sorted(show) : Sorted(show)[i] \in show
    BY <2>1, LenProperties
  <2> QED
    BY <1>2, <2>1, <2>2
<1>5. \A b : Tokens(n, b) \in SUBSET Messages
  BY <1>1 DEF Tokens, Offsets
<1>6. ASSUME NEW i \in 1..Cardinality(show)
      PROVE  have[i] \in Wire /\ Neutral(have[i])
  <2>1. have[i] \in HaveWire /\ have[i].type = "smsgHave"
    BY <1>4, <1>5 DEF HaveWire
  <2> QED
    BY <2>1 DEF Wire, Neutral
<1>7. DOMAIN have = 1..Cardinality(show) /\ have \in [1..Cardinality(show) -> Wire]
  BY <1>6
<1> HIDE DEF have
<1>8. have \in Seq(Wire)
  BY <1>4, <1>7, SeqDef
<1> QED
  BY <1>1, <1>6, <1>7, <1>8, QuietStep

(* Changing one field of what is known of a peer. *)
LEMMA NodeFields ==
  ASSUME NEW r \in SecMsgNodes, NEW v \in BOOLEAN, NEW S \in SUBSET Buckets
  PROVE  /\ [r EXCEPT !.seen = v] \in SecMsgNodes
         /\ [r EXCEPT !.enabled = v] \in SecMsgNodes
         /\ [r EXCEPT !.ignoring = v] \in SecMsgNodes
         /\ [r EXCEPT !.fresh = S] \in SecMsgNodes
         /\ Freshened(r, S) \in SecMsgNodes
<1>1. [r EXCEPT !.seen = v] \in SecMsgNodes
  BY DEF SecMsgNodes
<1>2. [r EXCEPT !.enabled = v] \in SecMsgNodes
  BY DEF SecMsgNodes
<1>3. [r EXCEPT !.ignoring = v] \in SecMsgNodes
  BY DEF SecMsgNodes
<1>4. [r EXCEPT !.fresh = S] \in SecMsgNodes
  BY DEF SecMsgNodes
<1>5. Freshened(r, S) \in SecMsgNodes
  <2>1. r.fresh \cup S \in SUBSET Buckets
    BY DEF SecMsgNodes
  <2>2. Freshened(r, S) = [r EXCEPT !.fresh = r.fresh \cup S]
    BY DEF Freshened
  <2> QED
    BY <2>1, <2>2 DEF SecMsgNodes
<1> QED
  BY <1>1, <1>2, <1>3, <1>4, <1>5

LEMMA PeerFields ==
  ASSUME peer \in [Nodes -> [Nodes -> SecMsgNodes]], NEW n \in Nodes, NEW p \in Nodes,
         NEW v \in BOOLEAN, NEW S \in SUBSET Buckets
  PROVE  /\ [peer EXCEPT ![n][p].seen = v] \in [Nodes -> [Nodes -> SecMsgNodes]]
         /\ [peer EXCEPT ![n][p].enabled = v] \in [Nodes -> [Nodes -> SecMsgNodes]]
         /\ [peer EXCEPT ![n][p].ignoring = v] \in [Nodes -> [Nodes -> SecMsgNodes]]
         /\ [peer EXCEPT ![n][p].fresh = S] \in [Nodes -> [Nodes -> SecMsgNodes]]
<1> DEFINE r == peer[n][p]
<1>1. r \in SecMsgNodes
  OBVIOUS
<1>2. \A q \in SecMsgNodes : [peer EXCEPT ![n][p] = q] \in [Nodes -> [Nodes -> SecMsgNodes]]
  OBVIOUS
<1>3. /\ [peer EXCEPT ![n][p].seen = v] = [peer EXCEPT ![n][p] = [r EXCEPT !.seen = v]]
      /\ [peer EXCEPT ![n][p].enabled = v] = [peer EXCEPT ![n][p] = [r EXCEPT !.enabled = v]]
      /\ [peer EXCEPT ![n][p].ignoring = v] = [peer EXCEPT ![n][p] = [r EXCEPT !.ignoring = v]]
      /\ [peer EXCEPT ![n][p].fresh = S] = [peer EXCEPT ![n][p] = [r EXCEPT !.fresh = S]]
  OBVIOUS
<1> HIDE DEF r
<1>4. /\ [r EXCEPT !.seen = v] \in SecMsgNodes
      /\ [r EXCEPT !.enabled = v] \in SecMsgNodes
      /\ [r EXCEPT !.ignoring = v] \in SecMsgNodes
      /\ [r EXCEPT !.fresh = S] \in SecMsgNodes
  BY <1>1, NodeFields
<1> QED
  BY <1>2, <1>3, <1>4

(* The handlers that change at most what is known of the peer. *)
LEMMA RecvSmallInv ==
  ASSUME MessageInv, NEW n \in Nodes, NEW p \in Nodes, n # p,
         \/ RecvMatch(n, p) \/ RecvPing(n, p) \/ RecvPong(n, p)
         \/ RecvDisabled(n, p) \/ RecvIgnore(n, p) \/ RecvWhileOff(n, p)
  PROVE  MessageInv'
<1>1. /\ chan \in Links /\ peer \in [Nodes -> [Nodes -> SecMsgNodes]]
      /\ chan[p][n] # <<>>
      /\ UNCHANGED <<nodeVars, expired, boundVars, histVars>>
  BY DEF MessageInv, MessageTypes, RecvMatch, RecvPing, RecvPong, RecvDisabled,
         RecvIgnore, RecvWhileOff, Incoming
<1>2. \E out \in Seq(Wire) :
        (\A j \in DOMAIN out : Neutral(out[j])) /\ chan' = Answer(n, p, out)
  <2>1. CASE chan' = Taken(n, p)
    BY <2>1, NothingSent DEF Taken
  <2>2. CASE chan' = Answer(n, p, <<[type |-> "smsgPong"]>>)
    BY <2>2, PlainFacts, OneNeutral
  <2> QED
    BY <2>1, <2>2 DEF RecvMatch, RecvPing, RecvPong, RecvDisabled, RecvIgnore, RecvWhileOff
<1>3. peer' \in [Nodes -> [Nodes -> SecMsgNodes]]
  <2>1. CASE RecvMatch(n, p)
    <3>1. Head(chan[p][n]) \in MatchWire
      BY <1>1, <2>1, TakenMessage, WireFacts DEF RecvMatch, Incoming
    <3>2. Head(chan[p][n]).later \in SUBSET Buckets
      BY <3>1 DEF MatchWire
    <3> QED
      BY <1>1, <2>1, <3>2, PeerFields DEF RecvMatch
  <2>2. CASE RecvPong(n, p)
    BY <1>1, <2>2, PeerFields DEF RecvPong
  <2>3. CASE RecvDisabled(n, p)
    BY <1>1, <2>3, PeerFields DEF RecvDisabled
  <2>4. CASE RecvIgnore(n, p)
    BY <1>1, <2>4, PeerFields DEF RecvIgnore
  <2>5. CASE RecvPing(n, p) \/ RecvWhileOff(n, p)
    BY <1>1, <2>5 DEF RecvPing, RecvWhileOff
  <2> QED
    BY <2>1, <2>2, <2>3, <2>4, <2>5
<1> QED
  BY <1>1, <1>2, <1>3, QuietStep

(* A bucket is asked for when it is not locked, hence nothing of it is     *)
(* under way.                                                              *)
LEMMA RecvHaveInv ==
  ASSUME MessageInv, NEW n \in Nodes, NEW p \in Nodes, n # p, RecvHave(n, p)
  PROVE  MessageInv'
<1> DEFINE x == Head(chan[p][n])
           b == x.bucket
           missing == x.have \ Tokens(n, b)
           want == [type |-> "smsgWant", bucket |-> b, want |-> missing]
<1>1. /\ chan \in Links /\ peer \in [Nodes -> [Nodes -> SecMsgNodes]]
      /\ lock \in [Nodes -> [Buckets -> Nat]]
      /\ chan[p][n] # <<>> /\ x.type = "smsgHave" /\ MessageTypes /\ LockInv /\ StoreInv
      /\ UNCHANGED <<on, offset, file, queue, pow, peer, expired, unsent, scanned, gaveUp>>
  BY DEF MessageInv, MessageTypes, RecvHave, Incoming, boundVars, histVars
<1>2. b \in Buckets /\ x.have \in SUBSET Messages
  <2>1. x \in HaveWire
    BY <1>1, TakenMessage, WireFacts
  <2> QED
    BY <2>1 DEF HaveWire
<1>3. StoreInv'
  BY <1>1, StoreKept
<1>4. CASE ~ (MayAsk(n, b) /\ missing # {})
  <2>1. chan' = Answer(n, p, <<>>) /\ lock' = lock
    BY <1>4 DEF RecvHave, Taken
  <2>2. chan' \in Links /\ LockInv'
    BY <1>1, <2>1, NothingSent, NeutralAnswer
  <2>3. MessageTypes'
    BY <1>1, <2>1, <2>2 DEF MessageTypes
  <2> QED
    BY <1>3, <2>2, <2>3 DEF MessageInv
<1>5. CASE MayAsk(n, b) /\ missing # {}
  <2>1. /\ chan' = Answer(n, p, <<want>>)
        /\ lock' = [lock EXCEPT ![n][b] = LockTicks]
    BY <1>5 DEF RecvHave
  <2>2. lock[n][b] = 0 /\ b \notin expired
    BY <1>5 DEF MayAsk, TooOld
  <2>3. want \in Wire /\ want.type = "smsgWant" /\ want.bucket = b
    <3>1. want \in WantWire
      BY <1>2 DEF WantWire
    <3> QED
      BY <3>1 DEF Wire
  <2>4. <<want>> \in Seq(Wire) /\ DOMAIN <<want>> = {1} /\ <<want>>[1] = want
    BY <2>3
  <2> HIDE DEF want, b, missing, x
  <2>5. chan' \in Links
    BY <1>1, <2>1, <2>4, AnswerLinks
  <2>6. /\ lock' \in [Nodes -> [Buckets -> Nat]] /\ lock'[n][b] # 0
        /\ \A k \in Nodes : \A c \in Buckets : k # n \/ c # b => lock'[k][c] = lock[k][c]
    <3>1. LockTicks \in Nat \ {0}
      BY Assumptions
    <3> QED
      BY <1>1, <1>2, <2>1, <3>1
  <2>7. LockInv'
    <3> SUFFICES ASSUME NEW k \in Nodes \ gaveUp', NEW c \in Buckets
                 PROVE  /\ OneItem(chan', k, c)
                        /\ lock'[k][c] = 0 /\ c \notin expired' => NoItem(chan', k, c)
      BY DEF LockInv, OneItem, NoItem, Item
    <3>1. /\ OneItem(chan, k, c)
          /\ lock[k][c] = 0 /\ c \notin expired => NoItem(chan, k, c)
      BY <1>1 DEF LockInv
    <3>2. CASE k = n /\ c = b
      <4>1. NoItem(chan, k, c)
        BY <2>2, <3>1, <3>2
      <4>2. OneItem(chan', k, c)
        BY <1>1, <2>1, <2>4, <3>1, <4>1, AnswerItems
      <4> QED
        BY <2>6, <3>2, <4>2
    <3>3. CASE k # n \/ c # b
      <4>1. \A j \in DOMAIN <<want>> : ~ Counts(<<want>>[j], k, c, n, p)
        BY <2>3, <2>4, <3>3 DEF Counts
      <4>2. /\ NoItem(chan, k, c) => NoItem(chan', k, c)
            /\ OneItem(chan, k, c) => OneItem(chan', k, c)
        BY <1>1, <2>1, <2>4, <4>1, AnswerItems
      <4> QED
        BY <1>1, <2>6, <3>1, <3>3, <4>2
    <3> QED
      BY <3>2, <3>3
  <2>8. MessageTypes'
    BY <1>1, <2>5, <2>6 DEF MessageTypes
  <2> QED
    BY <1>3, <2>7, <2>8 DEF MessageInv
<1> QED
  BY <1>4, <1>5

(* A request is replaced by its answer. *)
LEMMA RecvWantInv ==
  ASSUME MessageInv, NEW n \in Nodes, NEW p \in Nodes, n # p, RecvWant(n, p)
  PROVE  MessageInv'
<1> DEFINE x == Head(chan[p][n])
           b == x.bucket
           sought == {m \in x.want \cap Tokens(n, b) : Retrieves(n, m)}
           found == Sorted(sought)
           len == Min({Len(found), MaxBunch})
           bunch == [i \in 1..len |-> Retrieve(n, found[i])]
           msg == [type |-> "smsgMsg", bucket |-> b, bunch |-> bunch]
           out == IF bunch = <<>> THEN <<>> ELSE <<msg>>
<1>1. /\ chan \in Links /\ peer \in [Nodes -> [Nodes -> SecMsgNodes]]
      /\ file[n] \in Files /\ Offsets(offset[n])
      /\ chan[p][n] # <<>> /\ x.type = "smsgWant" /\ MessageTypes /\ LockInv
      /\ UNCHANGED <<nodeVars, peer, expired, boundVars, histVars>>
      /\ chan' = Answer(n, p, out)
  BY DEF MessageInv, MessageTypes, RecvWant, Incoming
<1>2. b \in Buckets /\ x.want \in SUBSET Messages
  <2>1. x \in WantWire
    BY <1>1, TakenMessage, WireFacts
  <2> QED
    BY <2>1 DEF WantWire
<1>3. x = chan[p][n][1] /\ 1 \in DOMAIN chan[p][n]
  BY <1>1, TakenMessage
<1>4. ASSUME NEW m \in sought PROVE Retrieve(n, m) \in Messages /\ BucketOf[Retrieve(n, m)] = b
  <2>1. m \in DOMAIN offset[n] /\ BucketOf[m] = b /\ offset[n][m] <= Len(file[n][b])
    BY DEF Tokens, Retrieves
  <2>2. offset[n][m] \in Nat \ {0}
    BY <1>1, <2>1 DEF Offsets
  <2>3. file[n][b] \in Seq(Messages)
    BY <1>1, <1>2 DEF Files
  <2>4. /\ offset[n][m] \in DOMAIN file[n][b]
        /\ \A i \in DOMAIN file[n][b] : file[n][b][i] \in Messages
    BY <2>1, <2>2, <2>3, LenProperties
  <2>5. Retrieve(n, m) = file[n][b][offset[n][m]]
    BY <2>1 DEF Retrieve
  <2>6. \A i \in DOMAIN file[n][b] : BucketOf[file[n][b][i]] = b
    BY <1>1, <1>2 DEF Files
  <2> HIDE DEF b
  <2> QED
    BY <2>4, <2>5, <2>6
<1>5. sought \in SUBSET Messages
  BY <1>2
<1> HIDE DEF sought
<1>6. /\ found \in Seq(sought) /\ Len(found) \in Nat
      /\ \A i \in 1..Len(found) : found[i] \in sought
  <2>1. sought \in SUBSET Nat /\ IsFiniteSet(sought)
    BY <1>5, Assumptions, FS_Subset
  <2> QED
    BY <2>1, SortedSet, LenProperties
<1> HIDE DEF found
<1>7. len \in Nat /\ len <= Len(found)
  <2> DEFINE two == {Len(found), MaxBunch}
  <2>1. two \in SUBSET Nat /\ two # {} /\ Len(found) \in two
    BY <1>6, Assumptions
  <2> HIDE DEF two
  <2>2. Min(two) \in two /\ \A y \in two : Min(two) <= y
    BY <2>1, LeastOne
  <2> QED
    BY <2>1, <2>2 DEF two
<1> HIDE DEF len
<1>8. /\ \A i \in 1..len : bunch[i] \in Messages /\ BucketOf[bunch[i]] = b
      /\ DOMAIN bunch = 1..len /\ bunch \in [1..len -> Messages]
  <2>1. \A i \in 1..len : found[i] \in sought
    BY <1>6, <1>7
  <2> QED
    BY <1>4, <2>1
<1> HIDE DEF bunch
<1>9. msg \in Wire /\ msg.type = "smsgMsg" /\ msg.bucket = b
  <2>1. bunch \in Seq(Messages)
    BY <1>7, <1>8, SeqDef
  <2>2. /\ msg \in [type : {"smsgMsg"}, bucket : Buckets, bunch : Seq(Messages)]
        /\ msg.bunch = bunch /\ msg.bucket = b
    BY <1>2, <2>1
  <2> HIDE DEF msg
  <2>3. msg \in MsgWire
    BY <1>8, <2>2 DEF MsgWire
  <2> QED
    BY <2>2, <2>3 DEF Wire
<1> HIDE DEF msg
<1>10. out \in Seq(Wire) /\ DOMAIN out \subseteq {1} /\ \A j \in DOMAIN out : out[j] = msg
  <2>1. CASE bunch = <<>>
    BY <2>1
  <2>2. CASE bunch # <<>>
    <3>1. out = <<msg>> /\ DOMAIN <<msg>> = {1} /\ <<msg>>[1] = msg
      BY <2>2
    <3> QED
      BY <1>9, <3>1
  <2> QED
    BY <2>1, <2>2
<1> HIDE DEF out
<1>11. chan' \in Links
  BY <1>1, <1>10, AnswerLinks
<1>12. LockInv'
  <2> SUFFICES ASSUME NEW k \in Nodes \ gaveUp', NEW c \in Buckets
               PROVE  /\ OneItem(chan', k, c)
                      /\ lock'[k][c] = 0 /\ c \notin expired' => NoItem(chan', k, c)
    BY DEF LockInv, OneItem, NoItem, Item
  <2>0. UNCHANGED <<lock, expired, gaveUp>>
    BY <1>1 DEF nodeVars, histVars
  <2>1. /\ OneItem(chan, k, c)
        /\ lock[k][c] = 0 /\ c \notin expired => NoItem(chan, k, c)
    BY <1>1, <2>0 DEF LockInv
  <2>2. CASE k = p /\ c = b
    <3>1. Item(chan, k, c, p, n, 1)
      BY <1>1, <1>3, <2>2 DEF Item, Counts
    <3>2. ~ NoItem(chan, k, c)
      BY <1>3, <3>1 DEF NoItem
    <3>3. OneItem(chan', k, c)
      BY <1>1, <1>10, <2>1, <3>1, AnswerItems
    <3> QED
      BY <2>0, <2>1, <3>2, <3>3
  <2>3. CASE k # p \/ c # b
    <3>1. \A j \in DOMAIN out : ~ Counts(out[j], k, c, n, p)
      BY <1>9, <1>10, <2>3 DEF Counts
    <3>2. /\ NoItem(chan, k, c) => NoItem(chan', k, c)
          /\ OneItem(chan, k, c) => OneItem(chan', k, c)
      BY <1>1, <1>10, <3>1, AnswerItems
    <3> QED
      BY <2>0, <2>1, <3>2
  <2> QED
    BY <2>2, <2>3
<1> QED
  BY <1>1, <1>11, <1>12, NetworkStep

(* A running node stores messages. *)
LEMMA StoredInv ==
  ASSUME MessageInv, NEW n \in Nodes, NEW b \in Buckets, NEW s \in Seq(Messages),
         \A i \in DOMAIN s : BucketOf[s[i]] = b, SecureMsgStore(n, b, s), on[n],
         UNCHANGED <<on, scanned>>
  PROVE  StoreInv'
<1>1. /\ \A k \in Nodes : k # n => file'[k] = file[k] /\ offset'[k] = offset[k]
      /\ NoRecordTwice(file[n]) /\ Describes(offset[n], file[n]) =>
           NoRecordTwice(file'[n]) /\ Describes(offset'[n], file'[n])
  BY StoreStep DEF MessageInv
<1> SUFFICES ASSUME NEW k \in Nodes \ scanned
             PROVE  NoRecordTwice(file'[k]) /\ (on[k] => Describes(offset'[k], file'[k]))
  BY DEF StoreInv, NoRecordTwice, Describes
<1>2. NoRecordTwice(file[k]) /\ (on[k] => Describes(offset[k], file[k]))
  BY DEF MessageInv, StoreInv
<1>3. CASE k = n
  BY <1>1, <1>2, <1>3
<1>4. CASE k # n
  BY <1>1, <1>2, <1>4
<1> QED
  BY <1>3, <1>4

LEMMA RehashedPeers ==
  ASSUME peer \in [Nodes -> [Nodes -> SecMsgNodes]], NEW n \in Nodes, NEW b \in Buckets
  PROVE  Rehashed(n, b) \in [Nodes -> [Nodes -> SecMsgNodes]]
<1>1. \A p \in Nodes : Freshened(peer[n][p], {b}) \in SecMsgNodes
  BY NodeFields
<1> QED
  BY <1>1 DEF Rehashed

(* The answer is taken and the lock released: nothing of the bucket is     *)
(* under way.                                                              *)
LEMMA RecvMsgInv ==
  ASSUME MessageInv, NEW n \in Nodes, NEW p \in Nodes, n # p, RecvMsg(n, p)
  PROVE  MessageInv'
<1> DEFINE x == Head(chan[p][n])
           b == x.bucket
           e == Answer(n, p, <<>>)
<1>1. /\ chan \in Links /\ peer \in [Nodes -> [Nodes -> SecMsgNodes]]
      /\ lock \in [Nodes -> [Buckets -> Nat]] /\ on[n]
      /\ chan[p][n] # <<>> /\ x.type = "smsgMsg" /\ MessageTypes /\ LockInv /\ StoreInv
      /\ UNCHANGED <<on, queue, pow, expired, unsent, scanned, gaveUp>>
  BY DEF MessageInv, MessageTypes, RecvMsg, Incoming, boundVars, histVars
<1>2. /\ b \in Buckets /\ x.bunch \in Seq(Messages)
      /\ \A i \in DOMAIN x.bunch : BucketOf[x.bunch[i]] = b
  <2>1. x \in MsgWire
    BY <1>1, TakenMessage, WireFacts
  <2> QED
    BY <2>1 DEF MsgWire
<1>3. x = chan[p][n][1] /\ 1 \in DOMAIN chan[p][n]
  BY <1>1, TakenMessage
<1>4. e \in Links
  BY <1>1, NothingSent, AnswerLinks
<1>5. CASE TooOld(b) /\ chan' = e /\ UNCHANGED <<offset, file, lock, lockPeer, peer>>
  <2>1. chan' \in Links /\ LockInv'
    BY <1>1, <1>5, NothingSent, NeutralAnswer
  <2>2. StoreInv'
    BY <1>1, <1>5, StoreKept
  <2>3. MessageTypes'
    BY <1>1, <1>5, <2>1 DEF MessageTypes
  <2> QED
    BY <2>1, <2>2, <2>3 DEF MessageInv
<1>6. CASE /\ SecureMsgStore(n, b, x.bunch)
           /\ lock' = [lock EXCEPT ![n][b] = 0]
           /\ peer' = Rehashed(n, b) /\ chan' = Stamped(e, n, b)
  <2> HIDE DEF x, b, e
  <2>1. /\ chan' \in Links
        /\ \A k, c : /\ NoItem(e, k, c) => NoItem(chan', k, c)
                     /\ OneItem(e, k, c) => OneItem(chan', k, c)
    <3>1. chan' \in Links /\ \A a, d \in Nodes : Harmless(e[a][d], chan'[a][d])
      BY <1>2, <1>4, <1>6, StampedLinks
    <3> QED
      BY <3>1, HarmlessKept
  <2>2. /\ lock' \in [Nodes -> [Buckets -> Nat]]
        /\ \A k \in Nodes : \A c \in Buckets : k # n \/ c # b => lock'[k][c] = lock[k][c]
    BY <1>1, <1>2, <1>6
  <2>3. LockInv'
    <3> SUFFICES ASSUME NEW k \in Nodes \ gaveUp', NEW c \in Buckets
                 PROVE  /\ OneItem(chan', k, c)
                        /\ lock'[k][c] = 0 /\ c \notin expired' => NoItem(chan', k, c)
      BY DEF LockInv, OneItem, NoItem, Item
    <3>1. /\ OneItem(chan, k, c)
          /\ lock[k][c] = 0 /\ c \notin expired => NoItem(chan, k, c)
      BY <1>1 DEF LockInv
    <3>2. /\ NoItem(chan, k, c) => NoItem(e, k, c)
          /\ OneItem(chan, k, c) => OneItem(e, k, c)
      <4>1. <<>> \in Seq(Wire) /\ \A j \in DOMAIN <<>> : ~ Counts(<<>>[j], k, c, n, p)
        OBVIOUS
      <4> QED
        BY <1>1, <4>1, AnswerItems DEF e
    <3>3. CASE k = n /\ c = b
      <4>1. Item(chan, k, c, p, n, 1)
        BY <1>1, <1>3, <3>3 DEF Item, Counts, b
      <4>2. NoItem(e, k, c)
        BY <1>1, <3>1, <4>1, AnswerItems, NothingSent DEF e
      <4> QED
        BY <2>1, <3>1, <3>2, <4>2
    <3>4. CASE k # n \/ c # b
      BY <1>1, <2>1, <2>2, <3>1, <3>2, <3>4
    <3> QED
      BY <3>3, <3>4
  <2>4. StoreInv'
    BY <1>1, <1>2, <1>6, StoredInv
  <2>5. /\ file' \in [Nodes -> Files] /\ DOMAIN offset' = Nodes
        /\ \A k \in Nodes : Offsets(offset'[k])
    BY <1>1, <1>2, <1>6, StoreStep
  <2>6. peer' \in [Nodes -> [Nodes -> SecMsgNodes]]
    BY <1>1, <1>2, <1>6, RehashedPeers
  <2>7. MessageTypes'
    <3>1. (\A k \in Nodes : Offsets(offset[k]))'
      BY <2>5 DEF Offsets
    <3> QED
      BY <1>1, <2>1, <2>2, <2>5, <2>6, <3>1 DEF MessageTypes
  <2> QED
    BY <2>3, <2>4, <2>7 DEF MessageInv
<1> QED
  BY <1>5, <1>6 DEF RecvMsg, Taken

LEMMA ReceiveInv ==
  ASSUME MessageInv, NEW n \in Nodes, NEW p \in Nodes \ {n}, SecureMsgReceiveData(n, p)
  PROVE  MessageInv'
<1>1. n # p
  OBVIOUS
<1> QED
  BY <1>1, RecvInvInv, RecvShowInv, RecvHaveInv, RecvWantInv, RecvMsgInv, RecvSmallInv
  DEF SecureMsgReceiveData

-----------------------------------------------------------------------------
(* The steps: sending and the connections. *)

(* A step that sends neutral messages, or loses some. *)
LEMMA HarmlessStep ==
  ASSUME MessageInv, chan' \in Links,
         \A a, d \in Nodes : Harmless(chan[a][d], chan'[a][d]),
         gaveUp \subseteq gaveUp', expired \subseteq expired',
         \A n \in Nodes \ gaveUp' : \A b \in Buckets \ expired' :
           lock'[n][b] = 0 => lock[n][b] = 0
  PROVE  LockInv'
<1>1. \A n, b : /\ NoItem(chan, n, b) => NoItem(chan', n, b)
                /\ OneItem(chan, n, b) => OneItem(chan', n, b)
  BY HarmlessKept
<1> QED
  BY <1>1, LocksKept DEF MessageInv

LEMMA SameLinks ==
  ASSUME MessageInv, chan' = chan,
         gaveUp \subseteq gaveUp', expired \subseteq expired',
         \A n \in Nodes \ gaveUp' : \A b \in Buckets \ expired' :
           lock'[n][b] = 0 => lock[n][b] = 0
  PROVE  chan' \in Links /\ LockInv'
<1>1. chan' \in Links
  BY DEF MessageInv, MessageTypes
<1> QED
  BY <1>1, HarmlessStep DEF Harmless

(* One message is sent. *)
LEMMA SendOneInv ==
  ASSUME MessageInv, NEW n \in Nodes, NEW p \in Nodes, NEW x \in Wire, Neutral(x),
         chan' = [chan EXCEPT ![n][p] = Append(@, x)],
         UNCHANGED <<nodeVars, expired, boundVars, histVars>>,
         peer' \in [Nodes -> [Nodes -> SecMsgNodes]]
  PROVE  MessageInv'
<1> DEFINE r == [chan[n] EXCEPT ![p] = Append(@, x)]
<1>1. chan \in Links
  BY DEF MessageInv, MessageTypes
<1>2. chan' = [chan EXCEPT ![n] = r]
  BY <1>1 DEF Links
<1>3. Append(chan[n][p], x) \in Seq(Wire) /\ Harmless(chan[n][p], Append(chan[n][p], x))
  BY <1>1, SentOne DEF Links
<1>4. r \in [Nodes -> Seq(Wire)] /\ \A q \in Nodes : Harmless(chan[n][q], r[q])
  BY <1>1, <1>3 DEF Links, Harmless
<1> HIDE DEF r
<1>5. chan' \in Links /\ \A a, d \in Nodes : Harmless(chan[a][d], chan'[a][d])
  BY <1>1, <1>2, <1>4, RowLinks
<1>6. LockInv'
  BY <1>5, HarmlessStep DEF nodeVars, histVars
<1> QED
  BY <1>5, <1>6, NetworkStep

LEMMA SendInv ==
  ASSUME MessageInv, NEW n \in Nodes, NEW p \in Nodes, NEW wake \in BOOLEAN,
         SendPing(n, p) \/ SecureMsgSendData(n, p, wake) \/ IgnoreEnds(n, p)
  PROVE  MessageInv'
<1>1. /\ peer \in [Nodes -> [Nodes -> SecMsgNodes]] /\ Offsets(offset[n])
      /\ UNCHANGED <<nodeVars, expired, boundVars, histVars>>
  BY DEF MessageInv, MessageTypes, SendPing, SecureMsgSendData, IgnoreEnds
<1>2. ASSUME chan' = chan, peer' \in [Nodes -> [Nodes -> SecMsgNodes]] PROVE MessageInv'
  <2>1. chan' \in Links /\ LockInv'
    BY <1>1, <1>2, SameLinks DEF nodeVars, histVars
  <2> QED
    BY <1>1, <1>2, <2>1, NetworkStep
<1>3. CASE SendPing(n, p)
  <2>1. peer' \in [Nodes -> [Nodes -> SecMsgNodes]]
    BY <1>1, <1>3, PeerFields DEF SendPing
  <2> QED
    BY <1>1, <1>3, <2>1, PlainFacts, SendOneInv DEF SendPing
<1>4. CASE SecureMsgSendData(n, p, wake)
  <2> DEFINE shown == {b \in Announced(n, p, wake) : Tokens(n, b) # {}}
             inv == [type |-> "smsgInv", inv |-> [b \in shown |-> Tokens(n, b)]]
  <2>1. /\ chan' = IF shown = {} THEN chan ELSE [chan EXCEPT ![n][p] = Append(@, inv)]
        /\ peer' = [peer EXCEPT ![n][p].fresh = Announced(n, p, wake)]
    BY <1>4 DEF SecureMsgSendData
  <2>2. Announced(n, p, wake) \in SUBSET Buckets
    BY <1>1 DEF Announced, SecMsgNodes
  <2>3. peer' \in [Nodes -> [Nodes -> SecMsgNodes]]
    BY <1>1, <2>1, <2>2, PeerFields
  <2>4. shown \in SUBSET Buckets /\ \A b : Tokens(n, b) \in SUBSET Messages
    BY <1>1, <2>2 DEF Tokens, Offsets
  <2> HIDE DEF shown
  <2>5. inv \in Wire /\ Neutral(inv)
    <3>1. [b \in shown |-> Tokens(n, b)] \in Announcements
      BY <2>4 DEF Announcements
    <3>2. inv \in InvWire
      BY <3>1 DEF InvWire
    <3> QED
      BY <3>2 DEF Wire, Neutral
  <2> HIDE DEF inv
  <2> QED
    BY <1>1, <1>2, <2>1, <2>3, <2>5, SendOneInv
<1>5. CASE IgnoreEnds(n, p)
  <2>1. peer' \in [Nodes -> [Nodes -> SecMsgNodes]]
    BY <1>1, <1>5, PeerFields DEF IgnoreEnds
  <2> QED
    BY <1>2, <1>5, <2>1 DEF IgnoreEnds
<1> QED
  BY <1>3, <1>4, <1>5

-----------------------------------------------------------------------------
(* The steps: threads, commands and the environment. *)

(* Some rows of the store change; each stays in order. *)
LEMMA StoreChanged ==
  ASSUME StoreInv, scanned \subseteq scanned',
         \A n \in Nodes \ scanned' :
           /\ NoRecordTwice(file[n]) => NoRecordTwice(file'[n])
           /\ on'[n] => \/ Describes(offset'[n], file'[n])
                        \/ on[n] /\ (Describes(offset[n], file[n]) =>
                                       Describes(offset'[n], file'[n]))
  PROVE  StoreInv'
<1> SUFFICES ASSUME NEW n \in Nodes \ scanned'
             PROVE  NoRecordTwice(file'[n]) /\ (on'[n] => Describes(offset'[n], file'[n]))
  BY DEF StoreInv, NoRecordTwice, Describes
<1>1. NoRecordTwice(file[n]) /\ (on[n] => Describes(offset[n], file[n]))
  BY DEF StoreInv
<1> QED
  BY <1>1

LEMMA ThreadInv ==
  ASSUME MessageInv, NEW n \in Nodes, ThreadSecureMsg(n)
  PROVE  MessageInv'
<1>1. /\ chan \in Links /\ peer \in [Nodes -> [Nodes -> SecMsgNodes]]
      /\ lock \in [Nodes -> [Buckets -> Nat]] /\ file \in [Nodes -> Files]
      /\ DOMAIN offset = Nodes /\ \A k \in Nodes : Offsets(offset[k])
      /\ MessageTypes /\ LockInv /\ StoreInv
      /\ UNCHANGED <<on, queue, pow, expired, unsent, scanned>>
  BY DEF MessageInv, MessageTypes, ThreadSecureMsg, boundVars
<1>2. PICK visited :
        LET erased == visited \cap expired
            ticked == {b \in visited \ expired : lock[n][b] > 0}
            late == {b \in ticked : LockLeft(n, b) = 0}
            silent == {lockPeer[n][b] : b \in late} \cap {c[2] : c \in {d \in up : d[1] = n}}
        IN  /\ offset' = [offset EXCEPT ![n] =
                 [m \in {x \in DOMAIN @ : BucketOf[x] \notin erased} |-> @[m]]]
            /\ file' = [file EXCEPT ![n] =
                 [b \in Buckets |-> IF b \in erased THEN <<>> ELSE @[b]]]
            /\ lock' = [lock EXCEPT ![n] =
                 [b \in Buckets |-> CASE b \in erased -> 0
                                      [] b \in ticked -> LockLeft(n, b)
                                      [] OTHER -> @[b]]]
            /\ peer' = [peer EXCEPT ![n] = [p \in Nodes |->
                 IF p \in silent THEN [@[p] EXCEPT !.ignoring = TRUE] ELSE @[p]]]
            /\ chan' = [chan EXCEPT ![n] = [p \in Nodes |->
                 IF p \in silent THEN Append(@[p], [type |-> "smsgIgnore"])
                 ELSE @[p]]]
            /\ gaveUp' = IF late = {} THEN gaveUp ELSE gaveUp \cup {n}
  BY DEF ThreadSecureMsg
<1> DEFINE erased == visited \cap expired
           ticked == {b \in visited \ expired : lock[n][b] > 0}
           late == {b \in ticked : LockLeft(n, b) = 0}
           silent == {lockPeer[n][b] : b \in late} \cap {c[2] : c \in {d \in up : d[1] = n}}
           o == [m \in {x \in DOMAIN offset[n] : BucketOf[x] \notin erased} |-> offset[n][m]]
           r == [p \in Nodes |-> IF p \in silent THEN Append(chan[n][p], [type |-> "smsgIgnore"])
                                 ELSE chan[n][p]]
           w == [p \in Nodes |-> IF p \in silent THEN [peer[n][p] EXCEPT !.ignoring = TRUE]
                                 ELSE peer[n][p]]
           left == [b \in Buckets |-> CASE b \in erased -> 0
                                        [] b \in ticked -> LockLeft(n, b)
                                        [] OTHER -> lock[n][b]]
<1>3. /\ offset' = [offset EXCEPT ![n] = o]
      /\ file' = [file EXCEPT ![n] = Dropped(file[n], erased)]
      /\ lock' = [lock EXCEPT ![n] = left]
      /\ peer' = [peer EXCEPT ![n] = w]
      /\ chan' = [chan EXCEPT ![n] = r]
      /\ gaveUp' = IF late = {} THEN gaveUp ELSE gaveUp \cup {n}
  BY <1>2 DEF Dropped
<1>4. Offsets(o) /\ (Describes(offset[n], file[n]) => Describes(o, Dropped(file[n], erased)))
  <2> HIDE DEF erased
  <2> QED
    BY <1>1, DroppedTokens
<1>5. /\ Dropped(file[n], erased) \in Files
      /\ NoRecordTwice(file[n]) => NoRecordTwice(Dropped(file[n], erased))
  <2> HIDE DEF erased
  <2> QED
    BY <1>1, DroppedFiles
<1>6. left \in [Buckets -> Nat]
  <2> HIDE DEF erased, ticked
  <2>1. \A b \in Buckets : lock[n][b] \in Nat /\ LockLeft(n, b) \in Nat
    BY <1>1 DEF LockLeft
  <2> QED
    BY <2>1
<1>7. ASSUME NEW b \in Buckets \ expired, left[b] = 0, late = {}
      PROVE  lock[n][b] = 0
  <2>1. b \notin erased /\ lock[n][b] \in Nat
    BY <1>1
  <2>2. CASE b \in ticked
    <3>1. left[b] = LockLeft(n, b)
      BY <2>1, <2>2
    <3>2. b \in late
      BY <1>7, <2>2, <3>1
    <3> QED
      BY <1>7, <3>2
  <2>3. CASE b \notin ticked
    <3>1. left[b] = lock[n][b]
      BY <2>1, <2>3
    <3> QED
      BY <1>7, <3>1
  <2> QED
    BY <2>2, <2>3
<1> HIDE DEF late, left, ticked
<1>8. w \in [Nodes -> SecMsgNodes]
  <2> HIDE DEF silent
  <2>1. \A p \in Nodes : [peer[n][p] EXCEPT !.ignoring = TRUE] \in SecMsgNodes
    <3> SUFFICES ASSUME NEW q \in SecMsgNodes
                 PROVE  [q EXCEPT !.ignoring = TRUE] \in SecMsgNodes
      BY <1>1
    <3> QED
      BY DEF SecMsgNodes
  <2> QED
    BY <1>1, <2>1
<1>9. r \in [Nodes -> Seq(Wire)] /\ \A p \in Nodes : Harmless(chan[n][p], r[p])
  <2> HIDE DEF silent
  <2>1. ASSUME NEW p \in Nodes
        PROVE  /\ Append(chan[n][p], [type |-> "smsgIgnore"]) \in Seq(Wire)
               /\ Harmless(chan[n][p], Append(chan[n][p], [type |-> "smsgIgnore"]))
               /\ chan[n][p] \in Seq(Wire) /\ Harmless(chan[n][p], chan[n][p])
    <3>1. chan[n][p] \in Seq(Wire)
      BY <1>1 DEF Links
    <3>2. [type |-> "smsgIgnore"] \in Wire /\ Neutral([type |-> "smsgIgnore"])
      BY PlainFacts
    <3> QED
      BY <3>1, <3>2, SentOne DEF Harmless
  <2> QED
    BY <2>1
<1> HIDE DEF silent, o, r, w, erased
<1>10. /\ offset'[n] = o /\ file'[n] = Dropped(file[n], erased) /\ lock'[n] = left
       /\ \A k \in Nodes : k # n => /\ offset'[k] = offset[k] /\ file'[k] = file[k]
                                    /\ lock'[k] = lock[k]
       /\ DOMAIN offset' = Nodes /\ file' \in [Nodes -> Files]
       /\ lock' \in [Nodes -> [Buckets -> Nat]]
       /\ peer' \in [Nodes -> [Nodes -> SecMsgNodes]]
  BY <1>1, <1>3, <1>5, <1>6, <1>8
<1>11. chan' \in Links /\ \A a, d \in Nodes : Harmless(chan[a][d], chan'[a][d])
  BY <1>1, <1>3, <1>9, RowLinks
<1>12. LockInv'
  <2>1. gaveUp \subseteq gaveUp' /\ (n \notin gaveUp' => late = {})
    BY <1>3
  <2>2. \A k \in Nodes \ gaveUp' : \A b \in Buckets \ expired' :
          lock'[k][b] = 0 => lock[k][b] = 0
    BY <1>1, <1>7, <1>10, <2>1
  <2> QED
    BY <1>1, <1>11, <2>1, <2>2, HarmlessStep
<1>13. StoreInv'
  <2>1. \A k \in Nodes \ scanned' :
          /\ NoRecordTwice(file[k]) => NoRecordTwice(file'[k])
          /\ on'[k] => on[k] /\ (Describes(offset[k], file[k]) =>
                                   Describes(offset'[k], file'[k]))
    BY <1>1, <1>4, <1>5, <1>10
  <2> QED
    BY <1>1, <2>1, StoreChanged
<1>14. MessageTypes'
  <2>1. (\A k \in Nodes : Offsets(offset[k]))'
    BY <1>1, <1>4, <1>10 DEF Offsets
  <2> QED
    BY <1>1, <1>10, <1>11, <2>1 DEF MessageTypes
<1> QED
  BY <1>12, <1>13, <1>14 DEF MessageInv

(* The send queue and the proof-of-work thread. *)
LEMMA QueueInv ==
  ASSUME MessageInv, NEW n \in Nodes, NEW m,
         SecureMsgSend(n, m) \/ PowTake(n) \/ PowFails(n) \/ PowStoreFails(n)
  PROVE  MessageInv'
<1>1. UNCHANGED <<on, offset, file, lock, chan, peer, expired, scanned, gaveUp>>
  BY DEF SecureMsgSend, PowTake, PowFails, PowStoreFails, netVars, histVars
<1>2. chan' \in Links /\ LockInv'
  BY <1>1, SameLinks
<1>3. StoreInv'
  BY <1>1, StoreKept DEF MessageInv
<1>4. /\ queue' \in [Nodes -> SUBSET Messages] /\ unsent' \subseteq Messages
      /\ pow' \in [Nodes -> Messages \cup {NoMessage}]
  <2>1. /\ queue \in [Nodes -> SUBSET Messages] /\ unsent \subseteq Messages
        /\ pow \in [Nodes -> Messages \cup {NoMessage}]
    BY DEF MessageInv, MessageTypes
  <2>2. CASE SecureMsgSend(n, m)
    BY <2>1, <2>2 DEF SecureMsgSend
  <2>3. CASE PowTake(n) \/ PowFails(n)
    <3>1. queue[n] \in SUBSET Nat /\ queue[n] # {}
      BY <2>1, <2>3, Assumptions DEF PowTake, PowFails
    <3>2. Min(queue[n]) \in Messages
      BY <2>1, <3>1, LeastOne
    <3> QED
      BY <2>1, <2>3, <3>2 DEF PowTake, PowFails, boundVars
  <2>4. CASE PowStoreFails(n)
    BY <2>1, <2>4 DEF PowStoreFails
  <2> QED
    BY <2>2, <2>3, <2>4
<1>5. MessageTypes'
  BY <1>1, <1>2, <1>4 DEF MessageInv, MessageTypes
<1> QED
  BY <1>2, <1>3, <1>5 DEF MessageInv

LEMMA PowStoreInv ==
  ASSUME MessageInv, NEW n \in Nodes, PowStore(n)
  PROVE  MessageInv'
<1> DEFINE m == pow[n]
           b == BucketOf[m]
<1>1. /\ chan \in Links /\ peer \in [Nodes -> [Nodes -> SecMsgNodes]]
      /\ pow \in [Nodes -> Messages \cup {NoMessage}] /\ on[n] /\ m # NoMessage
      /\ MessageTypes /\ LockInv /\ StoreInv
      /\ UNCHANGED <<on, lock, queue, expired, unsent, scanned, gaveUp>>
      /\ pow' = [pow EXCEPT ![n] = NoMessage]
  BY DEF MessageInv, MessageTypes, PowStore, boundVars, histVars
<1>2. m \in Messages /\ b \in Buckets
  BY <1>1, Assumptions
<1>3. pow' \in [Nodes -> Messages \cup {NoMessage}]
  BY <1>1
<1>4. CASE UNCHANGED <<offset, file, peer, chan>>
  <2>1. chan' \in Links /\ LockInv'
    BY <1>1, <1>4, SameLinks
  <2>2. StoreInv'
    BY <1>1, <1>4, StoreKept
  <2>3. MessageTypes'
    BY <1>1, <1>3, <1>4, <2>1 DEF MessageTypes
  <2> QED
    BY <2>1, <2>2, <2>3 DEF MessageInv
<1>5. CASE /\ SecureMsgStore(n, b, <<m>>)
           /\ peer' = Rehashed(n, b) /\ chan' = Stamped(chan, n, b)
  <2>1. <<m>> \in Seq(Messages) /\ \A i \in DOMAIN <<m>> : BucketOf[<<m>>[i]] = b
    <3>1. DOMAIN <<m>> = {1} /\ <<m>>[1] = m
      OBVIOUS
    <3> QED
      BY <1>2, <3>1
  <2> HIDE DEF m, b
  <2>2. chan' \in Links /\ \A a, d \in Nodes : Harmless(chan[a][d], chan'[a][d])
    BY <1>1, <1>2, <1>5, StampedLinks
  <2>3. LockInv'
    BY <1>1, <2>2, HarmlessStep
  <2>4. StoreInv'
    BY <1>1, <1>2, <1>5, <2>1, StoredInv
  <2>5. /\ file' \in [Nodes -> Files] /\ DOMAIN offset' = Nodes
        /\ \A k \in Nodes : Offsets(offset'[k])
    BY <1>1, <1>2, <1>5, <2>1, StoreStep
  <2>6. peer' \in [Nodes -> [Nodes -> SecMsgNodes]]
    BY <1>1, <1>2, <1>5, RehashedPeers
  <2>7. MessageTypes'
    <3>1. (\A k \in Nodes : Offsets(offset[k]))'
      BY <2>5 DEF Offsets
    <3> QED
      BY <1>1, <1>3, <2>2, <2>5, <2>6, <3>1 DEF MessageTypes
  <2> QED
    BY <2>3, <2>4, <2>7 DEF MessageInv
<1> QED
  BY <1>4, <1>5 DEF PowStore

(* SecureMsgDisable gives up the locks it finds. *)
LEMMA DisableInv ==
  ASSUME MessageInv, NEW n \in Nodes, SecureMsgDisable(n)
  PROVE  MessageInv'
<1> DEFINE r == [p \in Nodes |-> IF peer[n][p].enabled
                                 THEN Append(chan[n][p], [type |-> "smsgDisabled"])
                                 ELSE chan[n][p]]
           w == [p \in Nodes |-> [peer[n][p] EXCEPT !.enabled = FALSE]]
<1>1. /\ chan \in Links /\ peer \in [Nodes -> [Nodes -> SecMsgNodes]]
      /\ lock \in [Nodes -> [Buckets -> Nat]] /\ on \in [Nodes -> BOOLEAN]
      /\ DOMAIN offset = Nodes /\ \A k \in Nodes : Offsets(offset[k])
      /\ MessageTypes /\ LockInv /\ StoreInv
      /\ UNCHANGED <<file, queue, pow, expired, unsent, scanned>>
  BY DEF MessageInv, MessageTypes, SecureMsgDisable
<1>2. /\ on' = [on EXCEPT ![n] = FALSE] /\ offset' = [offset EXCEPT ![n] = <<>>]
      /\ lock' = [lock EXCEPT ![n] = [b \in Buckets |-> 0]]
      /\ chan' = [chan EXCEPT ![n] = r] /\ peer' = [peer EXCEPT ![n] = w]
      /\ gaveUp' = IF \E b \in Buckets : lock[n][b] > 0 THEN gaveUp \cup {n} ELSE gaveUp
  BY DEF SecureMsgDisable, NoLocks
<1>3. w \in [Nodes -> SecMsgNodes]
  <2>1. \A q \in SecMsgNodes : [q EXCEPT !.enabled = FALSE] \in SecMsgNodes
    BY DEF SecMsgNodes
  <2> QED
    BY <1>1, <2>1
<1>4. r \in [Nodes -> Seq(Wire)] /\ \A p \in Nodes : Harmless(chan[n][p], r[p])
  <2>1. ASSUME NEW p \in Nodes
        PROVE  /\ Append(chan[n][p], [type |-> "smsgDisabled"]) \in Seq(Wire)
               /\ Harmless(chan[n][p], Append(chan[n][p], [type |-> "smsgDisabled"]))
               /\ chan[n][p] \in Seq(Wire) /\ Harmless(chan[n][p], chan[n][p])
    <3>1. chan[n][p] \in Seq(Wire)
      BY <1>1 DEF Links
    <3>2. [type |-> "smsgDisabled"] \in Wire /\ Neutral([type |-> "smsgDisabled"])
      BY PlainFacts
    <3> QED
      BY <3>1, <3>2, SentOne DEF Harmless
  <2> QED
    BY <2>1
<1> HIDE DEF r, w
<1>5. chan' \in Links /\ \A a, d \in Nodes : Harmless(chan[a][d], chan'[a][d])
  BY <1>1, <1>2, <1>4, RowLinks
<1>6. LockInv'
  <2>1. gaveUp \subseteq gaveUp' /\ (n \notin gaveUp' => \A b \in Buckets : lock[n][b] = 0)
    BY <1>1, <1>2
  <2>2. \A k \in Nodes : k # n => lock'[k] = lock[k]
    BY <1>1, <1>2
  <2>3. \A k \in Nodes \ gaveUp' : \A b \in Buckets \ expired' :
          lock'[k][b] = 0 => lock[k][b] = 0
    BY <2>1, <2>2
  <2> QED
    BY <1>1, <1>5, <2>1, <2>3, HarmlessStep
<1>7. Offsets(<<>>)
  <2>1. DOMAIN <<>> = {} /\ <<>> = [m \in {} |-> 1]
    OBVIOUS
  <2> QED
    BY <2>1 DEF Offsets
<1>8. /\ on' \in [Nodes -> BOOLEAN] /\ on'[n] = FALSE
      /\ DOMAIN offset' = Nodes /\ offset'[n] = <<>>
      /\ \A k \in Nodes : k # n => on'[k] = on[k] /\ offset'[k] = offset[k]
      /\ lock' \in [Nodes -> [Buckets -> Nat]]
      /\ peer' \in [Nodes -> [Nodes -> SecMsgNodes]]
  BY <1>1, <1>2, <1>3
<1>9. StoreInv'
  BY <1>1, <1>8, StoreChanged
<1>10. MessageTypes'
  <2>1. (\A k \in Nodes : Offsets(offset[k]))'
    <3>1. \A k \in Nodes : Offsets(offset'[k])
      BY <1>1, <1>7, <1>8
    <3> QED
      BY <3>1 DEF Offsets
  <2> QED
    BY <1>1, <1>5, <1>8, <2>1 DEF MessageTypes
<1> QED
  BY <1>6, <1>9, <1>10 DEF MessageInv

LEMMA EnableInv ==
  ASSUME MessageInv, NEW n \in Nodes, SecureMsgEnable(n)
  PROVE  MessageInv'
<1> DEFINE greeting == <<[type |-> "smsgPing"], [type |-> "smsgPong"]>>
           r == [p \in Nodes |-> IF <<n, p>> \in up THEN chan[n][p] \o greeting ELSE chan[n][p]]
           w == [p \in Nodes |-> Freshened(peer[n][p], Buckets)]
<1>1. /\ chan \in Links /\ peer \in [Nodes -> [Nodes -> SecMsgNodes]]
      /\ on \in [Nodes -> BOOLEAN]
      /\ MessageTypes /\ LockInv /\ StoreInv
      /\ UNCHANGED <<lock, queue, pow, expired, unsent, scanned, gaveUp>>
  BY DEF MessageInv, MessageTypes, SecureMsgEnable, boundVars, histVars
<1>2. /\ on' = [on EXCEPT ![n] = TRUE] /\ BuildBucketSet(n)
      /\ chan' = [chan EXCEPT ![n] = r] /\ peer' = [peer EXCEPT ![n] = w]
  BY DEF SecureMsgEnable
<1>3. w \in [Nodes -> SecMsgNodes]
  <2>1. TRUE \in BOOLEAN /\ Buckets \in SUBSET Buckets
    OBVIOUS
  <2>2. \A p \in Nodes : Freshened(peer[n][p], Buckets) \in SecMsgNodes
    BY <1>1, <2>1, NodeFields
  <2> QED
    BY <2>2
<1>4. greeting \in Seq(Wire) /\ \A i \in DOMAIN greeting : Neutral(greeting[i])
  <2>1. DOMAIN greeting = {1, 2} /\ greeting[1] = [type |-> "smsgPing"]
        /\ greeting[2] = [type |-> "smsgPong"]
    OBVIOUS
  <2>2. /\ [type |-> "smsgPing"] \in Wire /\ Neutral([type |-> "smsgPing"])
        /\ [type |-> "smsgPong"] \in Wire /\ Neutral([type |-> "smsgPong"])
    BY PlainFacts
  <2> QED
    BY <2>1, <2>2
<1> HIDE DEF greeting
<1>5. r \in [Nodes -> Seq(Wire)] /\ \A p \in Nodes : Harmless(chan[n][p], r[p])
  <2>1. ASSUME NEW p \in Nodes
        PROVE  /\ chan[n][p] \o greeting \in Seq(Wire)
               /\ Harmless(chan[n][p], chan[n][p] \o greeting)
               /\ chan[n][p] \in Seq(Wire) /\ Harmless(chan[n][p], chan[n][p])
    <3>1. chan[n][p] \in Seq(Wire)
      BY <1>1 DEF Links
    <3> QED
      BY <1>4, <3>1, Sent DEF Harmless
  <2> QED
    BY <2>1
<1> HIDE DEF r, w
<1>6. chan' \in Links /\ \A a, d \in Nodes : Harmless(chan[a][d], chan'[a][d])
  BY <1>1, <1>2, <1>5, RowLinks
<1>7. LockInv'
  BY <1>1, <1>6, HarmlessStep
<1>8. /\ file' \in [Nodes -> Files]
      /\ DOMAIN offset' = Nodes /\ \A k \in Nodes : Offsets(offset'[k])
      /\ \A k \in Nodes : k # n => file'[k] = file[k] /\ offset'[k] = offset[k]
      /\ NoRecordTwice(file[n]) => NoRecordTwice(file'[n])
      /\ Describes(offset'[n], file'[n])
  BY <1>1, <1>2, BuildStep
<1>9. /\ on' \in [Nodes -> BOOLEAN] /\ \A k \in Nodes : k # n => on'[k] = on[k]
      /\ peer' \in [Nodes -> [Nodes -> SecMsgNodes]]
  BY <1>1, <1>2, <1>3
<1>10. StoreInv'
  BY <1>1, <1>8, <1>9, StoreChanged
<1>11. MessageTypes'
  <2>1. (\A k \in Nodes : Offsets(offset[k]))'
    BY <1>8 DEF Offsets
  <2> QED
    BY <1>1, <1>6, <1>8, <1>9, <2>1 DEF MessageTypes
<1> QED
  BY <1>7, <1>10, <1>11 DEF MessageInv

LEMMA ScanInv ==
  ASSUME MessageInv, NEW n \in Nodes, SecureMsgScanBuckets(n)
  PROVE  MessageInv'
<1>1. /\ UNCHANGED <<on, offset, lock, queue, pow, chan, peer, expired, unsent, gaveUp>>
      /\ file' = [file EXCEPT ![n] = Dropped(file[n], Buckets)]
      /\ scanned' = scanned \cup {n}
  BY DEF SecureMsgScanBuckets, netVars, Dropped
<1>2. file \in [Nodes -> Files] /\ Dropped(file[n], Buckets) \in Files
  BY DroppedFiles DEF MessageInv, MessageTypes
<1>3. file' \in [Nodes -> Files] /\ \A k \in Nodes : k # n => file'[k] = file[k]
  BY <1>1, <1>2
<1>4. chan' \in Links /\ LockInv'
  BY <1>1, SameLinks
<1>5. StoreInv'
  BY <1>1, <1>3, StoreChanged DEF MessageInv
<1>6. MessageTypes'
  BY <1>1, <1>3, <1>4 DEF MessageInv, MessageTypes
<1> QED
  BY <1>4, <1>5, <1>6 DEF MessageInv

LEMMA ExpireInv ==
  ASSUME MessageInv, NEW b \in Buckets, Expire(b)
  PROVE  MessageInv'
<1>1. /\ UNCHANGED <<on, offset, file, lock, queue, pow, chan, peer, unsent, scanned, gaveUp>>
      /\ expired' = expired \cup {b}
  BY DEF Expire, nodeVars, netVars, boundVars, histVars
<1>2. chan' \in Links /\ LockInv'
  BY <1>1, SameLinks
<1>3. StoreInv'
  BY <1>1, StoreKept DEF MessageInv
<1>4. MessageTypes'
  BY <1>1, <1>2 DEF MessageInv, MessageTypes
<1> QED
  BY <1>2, <1>3, <1>4 DEF MessageInv

LEMMA PassInv ==
  ASSUME MessageInv, NEW m \in Messages, Pass(m)
  PROVE  MessageInv'
<1>1. UNCHANGED <<on, offset, file, lock, queue, pow, chan, peer, expired, unsent,
                  scanned, gaveUp>>
  BY DEF Pass, nodeVars, netVars, boundVars, histVars
<1>2. chan' \in Links /\ LockInv'
  BY <1>1, SameLinks
<1>3. StoreInv'
  BY <1>1, StoreKept DEF MessageInv
<1>4. MessageTypes'
  BY <1>1, <1>2 DEF MessageInv, MessageTypes
<1> QED
  BY <1>2, <1>3, <1>4 DEF MessageInv

(* Connections that are cut lose what they carry. *)
LEMMA CutLinks ==
  ASSUME MessageInv, NEW S, Cut(S)
  PROVE  /\ chan' \in Links /\ \A a, d \in Nodes : Harmless(chan[a][d], chan'[a][d])
         /\ \A a, d \in Nodes : <<a, d>> \in S => chan'[a][d] = <<>>
         /\ peer' \in [Nodes -> [Nodes -> SecMsgNodes]]
<1>1. chan \in Links /\ peer \in [Nodes -> [Nodes -> SecMsgNodes]]
  BY DEF MessageInv, MessageTypes
<1>2. chan' = Without(chan, S)
  BY DEF Cut, Without
<1>3. \A a, d \in Nodes : <<a, d>> \in S => chan'[a][d] = <<>>
  BY <1>2 DEF Without
<1>4. SecMsgNode \in SecMsgNodes
  BY DEF SecMsgNode, SecMsgNodes
<1>5. peer' \in [Nodes -> [Nodes -> SecMsgNodes]]
  BY <1>1, <1>4 DEF Cut
<1> QED
  BY <1>1, <1>2, <1>3, <1>5, WithoutLinks

LEMMA ConnectionInv ==
  ASSUME MessageInv, NEW n \in Nodes, NEW p \in Nodes, Disconnect(n, p) \/ Connect(n, p)
  PROVE  MessageInv'
<1>1. CASE Disconnect(n, p)
  <2>1. /\ UNCHANGED <<nodeVars, expired, unsent, histVars>>
        /\ Cut({<<n, p>>, <<p, n>>})
    BY <1>1 DEF Disconnect
  <2>2. /\ chan' \in Links /\ \A a, d \in Nodes : Harmless(chan[a][d], chan'[a][d])
        /\ peer' \in [Nodes -> [Nodes -> SecMsgNodes]]
    BY <2>1, CutLinks
  <2>3. LockInv'
    BY <2>1, <2>2, HarmlessStep DEF nodeVars, histVars
  <2>4. StoreInv'
    BY <2>1, StoreKept DEF MessageInv, nodeVars, histVars
  <2>5. MessageTypes'
    BY <2>1, <2>2 DEF MessageInv, MessageTypes, nodeVars
  <2> QED
    BY <2>3, <2>4, <2>5 DEF MessageInv
<1>2. CASE Connect(n, p)
  <2>1. UNCHANGED <<nodeVars, peer, chan, expired, boundVars, histVars>>
    BY <1>2 DEF Connect
  <2>2. chan' \in Links /\ LockInv'
    BY <2>1, SameLinks DEF nodeVars, histVars
  <2>3. peer' \in [Nodes -> [Nodes -> SecMsgNodes]]
    BY <2>1 DEF MessageInv, MessageTypes
  <2> QED
    BY <2>1, <2>2, <2>3, NetworkStep
<1> QED
  BY <1>1, <1>2

(* A process that dies forgets its locks and loses its connections with    *)
(* all that was under way.                                                 *)
LEMMA RestartInv ==
  ASSUME MessageInv, NEW n \in Nodes, Restart(n)
  PROVE  MessageInv'
<1> DEFINE S == {c \in Pairs : n \in {c[1], c[2]}}
<1>1. /\ MessageTypes /\ LockInv /\ StoreInv
      /\ lock \in [Nodes -> [Buckets -> Nat]] /\ on \in [Nodes -> BOOLEAN]
      /\ pow \in [Nodes -> Messages \cup {NoMessage}]
      /\ UNCHANGED <<queue, expired, unsent, gaveUp, scanned>>
  BY DEF MessageInv, MessageTypes, Restart
<1>2. /\ on' = [on EXCEPT ![n] = TRUE] /\ BuildBucketSet(n)
      /\ lock' = [lock EXCEPT ![n] = [b \in Buckets |-> 0]]
      /\ pow' = [pow EXCEPT ![n] = NoMessage] /\ Cut(S)
  BY DEF Restart, NoLocks
<1>3. \A a, d \in Nodes : a # d /\ (a = n \/ d = n) => <<a, d>> \in S
  BY DEF Pairs
<1> HIDE DEF S
<1>4. /\ chan' \in Links /\ \A a, d \in Nodes : Harmless(chan[a][d], chan'[a][d])
      /\ \A a, d \in Nodes : <<a, d>> \in S => chan'[a][d] = <<>>
      /\ peer' \in [Nodes -> [Nodes -> SecMsgNodes]]
  BY <1>2, CutLinks
<1>5. LockInv'
  <2> SUFFICES ASSUME NEW k \in Nodes \ gaveUp', NEW b \in Buckets
               PROVE  /\ OneItem(chan', k, b)
                      /\ lock'[k][b] = 0 /\ b \notin expired' => NoItem(chan', k, b)
    BY DEF LockInv, OneItem, NoItem, Item
  <2>1. /\ OneItem(chan, k, b)
        /\ lock[k][b] = 0 /\ b \notin expired => NoItem(chan, k, b)
    BY <1>1 DEF LockInv
  <2>2. /\ NoItem(chan, k, b) => NoItem(chan', k, b)
        /\ OneItem(chan, k, b) => OneItem(chan', k, b)
    BY <1>4, HarmlessKept
  <2>3. CASE k = n
    <3>1. NoItem(chan', k, b)
      <4> SUFFICES ASSUME NEW a \in Nodes, NEW d \in Nodes, NEW i \in DOMAIN chan'[a][d],
                          Item(chan', k, b, a, d, i)
                   PROVE  FALSE
        BY DEF NoItem
      <4>1. a # d /\ (a = n \/ d = n)
        BY <2>3 DEF Item, Counts
      <4>2. chan'[a][d] = <<>>
        BY <1>3, <1>4, <4>1
      <4> QED
        BY <4>2
    <3> QED
      BY <2>1, <2>2, <3>1
  <2>4. CASE k # n
    <3>1. lock'[k] = lock[k]
      BY <1>1, <1>2, <2>4
    <3> QED
      BY <1>1, <2>1, <2>2, <3>1
  <2> QED
    BY <2>3, <2>4
<1>6. /\ file' \in [Nodes -> Files]
      /\ DOMAIN offset' = Nodes /\ \A k \in Nodes : Offsets(offset'[k])
      /\ \A k \in Nodes : k # n => file'[k] = file[k] /\ offset'[k] = offset[k]
      /\ NoRecordTwice(file[n]) => NoRecordTwice(file'[n])
      /\ Describes(offset'[n], file'[n])
  BY <1>1, <1>2, BuildStep
<1>7. /\ on' \in [Nodes -> BOOLEAN] /\ \A k \in Nodes : k # n => on'[k] = on[k]
      /\ lock' \in [Nodes -> [Buckets -> Nat]]
      /\ pow' \in [Nodes -> Messages \cup {NoMessage}]
  BY <1>1, <1>2
<1>8. StoreInv'
  BY <1>1, <1>6, <1>7, StoreChanged
<1>9. MessageTypes'
  <2>1. (\A k \in Nodes : Offsets(offset[k]))'
    BY <1>6 DEF Offsets
  <2> QED
    BY <1>1, <1>4, <1>6, <1>7, <2>1 DEF MessageTypes
<1> QED
  BY <1>5, <1>8, <1>9 DEF MessageInv

-----------------------------------------------------------------------------
(* The theorems. *)

LEMMA InitMessages ==
  ASSUME Init
  PROVE  MessageInv
<1> DEFINE stored(n, b) == {m \in Stored[n] : BucketOf[m] = b}
<1>1. ASSUME NEW n \in Nodes, NEW b \in Buckets
      PROVE  /\ Sorted(stored(n, b)) \in Seq(Messages) /\ IsInjective(Sorted(stored(n, b)))
             /\ \A i \in DOMAIN Sorted(stored(n, b)) : BucketOf[Sorted(stored(n, b))[i]] = b
  <2> DEFINE S == stored(n, b)
  <2>1. S \in SUBSET Messages /\ \A m \in S : BucketOf[m] = b
    BY Assumptions
  <2> HIDE DEF S
  <2>2. S \in SUBSET Nat /\ IsFiniteSet(S)
    BY <2>1, Assumptions, FS_Subset
  <2>3. Sorted(S) \in Seq(S) /\ IsInjective(Sorted(S))
    BY <2>2, SortedSet
  <2>4. \A i \in DOMAIN Sorted(S) : Sorted(S)[i] \in S
    BY <2>3, LenProperties
  <2>5. Sorted(S) \in Seq(Messages)
    <3>1. Len(Sorted(S)) \in Nat /\ Sorted(S) \in [1..Len(Sorted(S)) -> S]
      BY <2>3, LenProperties
    <3>2. Sorted(S) \in [1..Len(Sorted(S)) -> Messages]
      BY <2>1, <3>1
    <3> QED
      BY <3>1, <3>2, SeqDef
  <2> QED
    BY <2>1, <2>3, <2>4, <2>5 DEF S
<1>2. \A n \in Nodes : file[n] = [b \in Buckets |-> Sorted(stored(n, b))]
  BY DEF Init
<1> HIDE DEF stored
<1>3. ASSUME NEW n \in Nodes PROVE file[n] \in Files /\ NoRecordTwice(file[n])
  <2>1. \A b \in Buckets : file[n][b] = Sorted(stored(n, b))
    BY <1>2
  <2>2. file[n] \in [Buckets -> Seq(Messages)]
    BY <1>1, <1>2
  <2> QED
    BY <1>1, <2>1, <2>2 DEF Files, NoRecordTwice
<1>4. file \in [Nodes -> Files]
  <2>1. DOMAIN file = Nodes /\ file = [n \in Nodes |-> file[n]]
    BY DEF Init
  <2> QED
    BY <1>3, <2>1
<1>5. ASSUME NEW n \in Nodes
      PROVE  Offsets(offset[n]) /\ Describes(offset[n], file[n])
  <2>1. offset[n] = TokensOf(file[n])
    BY DEF Init
  <2> QED
    BY <1>3, <2>1, BuiltTokens
<1>6. peer \in [Nodes -> [Nodes -> SecMsgNodes]]
  <2>1. SecMsgNode \in SecMsgNodes
    BY DEF SecMsgNode, SecMsgNodes
  <2>2. \A g \in BOOLEAN :
          [SecMsgNode EXCEPT !.seen = g, !.enabled = g] \in SecMsgNodes
    BY DEF SecMsgNode, SecMsgNodes
  <2>3. [SecMsgNode EXCEPT !.seen = Greeted, !.enabled = Greeted] \in SecMsgNodes
    <3>1. Greeted \in BOOLEAN
      BY Assumptions
    <3> QED
      BY <2>2, <3>1, Zenon
  <2> QED
    BY <2>3 DEF Init
<1>7. chan \in Links /\ \A a, d \in Nodes : chan[a][d] = <<>>
  BY DEF Init, Links
<1>8. MessageTypes
  <2>1. /\ on \in [Nodes -> BOOLEAN] /\ DOMAIN offset = Nodes
        /\ lock \in [Nodes -> [Buckets -> Nat]]
        /\ queue \in [Nodes -> SUBSET Messages]
        /\ pow \in [Nodes -> Messages \cup {NoMessage}]
        /\ expired \subseteq Buckets /\ unsent \subseteq Messages
    BY Assumptions DEF Init
  <2> QED
    BY <1>4, <1>5, <1>6, <1>7, <2>1 DEF MessageTypes
<1>9. StoreInv
  BY <1>3, <1>5 DEF StoreInv
<1>10. LockInv
  <2>1. \A n, b : OneItem(chan, n, b) /\ NoItem(chan, n, b)
    BY <1>7 DEF OneItem, NoItem
  <2> QED
    BY <2>1 DEF LockInv
<1> QED
  BY <1>8, <1>9, <1>10 DEF MessageInv

LEMMA NextMessages ==
  ASSUME MessageInv, Next
  PROVE  MessageInv'
<1>1. ASSUME NEW n \in Nodes, NEW p \in Nodes \ {n}, NEW wake \in BOOLEAN,
             \/ SecureMsgReceiveData(n, p) \/ SendPing(n, p)
             \/ SecureMsgSendData(n, p, wake) \/ IgnoreEnds(n, p)
             \/ Disconnect(n, p) \/ Connect(n, p)
      PROVE  MessageInv'
  <2>1. CASE SecureMsgReceiveData(n, p)
    BY <2>1, ReceiveInv
  <2>2. CASE SendPing(n, p) \/ SecureMsgSendData(n, p, wake) \/ IgnoreEnds(n, p)
    BY <2>2, SendInv
  <2>3. CASE Disconnect(n, p) \/ Connect(n, p)
    BY <2>3, ConnectionInv
  <2> QED
    BY <1>1, <2>1, <2>2, <2>3
<1>2. ASSUME NEW n \in Nodes, NEW m \in Messages, SecureMsgSend(n, m) PROVE MessageInv'
  BY <1>2, QueueInv
<1>3. ASSUME NEW n \in Nodes, PowTake(n) \/ PowFails(n) \/ PowStoreFails(n)
      PROVE  MessageInv'
  BY <1>3, QueueInv
<1>4. TRUE \in BOOLEAN
  OBVIOUS
<1>5. CASE \E n \in Nodes : \E p \in Nodes \ {n} :
             \/ SecureMsgReceiveData(n, p) \/ SendPing(n, p)
             \/ \E wake \in BOOLEAN : SecureMsgSendData(n, p, wake)
             \/ IgnoreEnds(n, p) \/ Disconnect(n, p) \/ Connect(n, p)
  BY <1>1, <1>4, <1>5
<1>6. CASE \E n \in Nodes : \E m \in Messages : SecureMsgSend(n, m)
  BY <1>2, <1>6
<1>7. CASE \E n \in Nodes :
             \/ ThreadSecureMsg(n)
             \/ PowTake(n) \/ PowFails(n) \/ PowStore(n) \/ PowStoreFails(n)
             \/ SecureMsgDisable(n) \/ SecureMsgEnable(n)
             \/ SecureMsgScanBuckets(n) \/ Restart(n)
  BY <1>3, <1>7, ThreadInv, PowStoreInv, DisableInv, EnableInv, ScanInv, RestartInv
<1>8. CASE \E b \in Buckets : Expire(b)
  BY <1>8, ExpireInv
<1>9. CASE \E m \in Messages : Pass(m)
  BY <1>9, PassInv
<1> QED
  BY <1>5, <1>6, <1>7, <1>8, <1>9 DEF Next

(* The inductive invariant of SecureMessages: the types, the tokens and    *)
(* records of every node, and the requests under way.                      *)
THEOREM MessageInvariant == Spec => []MessageInv
<1>1. Init => MessageInv
  BY InitMessages
<1>2. MessageInv /\ [Next]_vars => MessageInv'
  <2>1. CASE Next
    BY <2>1, NextMessages
  <2>2. CASE UNCHANGED vars
    <3>1. UNCHANGED <<on, offset, file, lock, queue, pow, peer, chan, expired, unsent,
                      scanned, gaveUp>>
      BY <2>2 DEF vars, nodeVars, netVars, boundVars, histVars
    <3> QED
      BY <3>1 DEF MessageInv, MessageTypes, StoreInv, LockInv, OneItem, NoItem, Item
  <2> QED
    BY <2>1, <2>2
<1> QED
  BY <1>1, <1>2, PTL DEF Spec

(* The memory of a running node describes its files, and no file has a     *)
(* record twice, across repeated deliveries, expiry, disabling and crashes *)
(* (SecureMsgStore, SecureMsgBuildBucketSet, ThreadSecureMsg).             *)
THEOREM TokensLeadToRecords == Spec => []TokensDescribeFiles
<1>1. MessageInv => TokensDescribeFiles
  <2> SUFFICES ASSUME MessageInv, NEW n \in Nodes \ scanned, NEW b \in Buckets
               PROVE  /\ IsInjective(file[n][b])
                      /\ on[n] =>
                           /\ Range(file[n][b]) = Tokens(n, b)
                           /\ \A m \in Tokens(n, b) : Retrieves(n, m) /\ Retrieve(n, m) = m
    BY DEF TokensDescribeFiles
  <2>1. NoRecordTwice(file[n]) /\ (on[n] => Describes(offset[n], file[n]))
    BY DEF MessageInv, StoreInv
  <2>2. IsInjective(file[n][b])
    BY <2>1 DEF NoRecordTwice
  <2>3. ASSUME on[n]
        PROVE  /\ Range(file[n][b]) = Tokens(n, b)
               /\ \A m \in Tokens(n, b) : Retrieves(n, m) /\ Retrieve(n, m) = m
    BY <2>1, <2>3 DEF Describes, Tokens, Retrieves, Retrieve
  <2> QED
    BY <2>2, <2>3
<1> QED
  BY <1>1, MessageInvariant, PTL

(* The lock of a bucket (nLockCount) keeps a node from asking twice: unless*)
(* it gave up a lock, at most one smsgWant or smsgMsg of it is under way,  *)
(* over all its peers.                                                     *)
THEOREM AskedForOnce == Spec => []OneRequestPerBucket
<1>1. MessageInv => OneRequestPerBucket
  <2> SUFFICES ASSUME MessageInv, NEW n \in Nodes \ gaveUp, NEW b \in Buckets
               PROVE  Cardinality(Requests(n, b)) + Cardinality(Deliveries(n, b)) <= 1
    BY DEF OneRequestPerBucket
  <2>1. OneItem(chan, n, b)
    BY DEF MessageInv, LockInv
  <2>2. ASSUME NEW x \in Requests(n, b)
        PROVE  \E p \in Nodes : \E i \in DOMAIN chan[n][p] :
                 x = <<p, i>> /\ p # n /\ Item(chan, n, b, n, p, i)
    <3>1. PICK p \in Nodes \ {n} : \E i \in DOMAIN chan[n][p] :
                 x = <<p, i>> /\ chan[n][p][i].type = "smsgWant" /\ chan[n][p][i].bucket = b
      BY DEF Requests
    <3> QED
      BY <3>1 DEF Item, Counts
  <2>3. ASSUME NEW x \in Deliveries(n, b)
        PROVE  \E p \in Nodes : \E i \in DOMAIN chan[p][n] :
                 x = <<p, i>> /\ p # n /\ Item(chan, n, b, p, n, i)
    <3>1. PICK p \in Nodes \ {n} : \E i \in DOMAIN chan[p][n] :
                 x = <<p, i>> /\ chan[p][n][i].type = "smsgMsg" /\ chan[p][n][i].bucket = b
      BY DEF Deliveries
    <3> QED
      BY <3>1 DEF Item, Counts
  <2> DEFINE R == Requests(n, b)
             D == Deliveries(n, b)
  <2> HIDE DEF R, D
  <2>4. \A x, y \in R : x = y
    BY <2>1, <2>2 DEF OneItem, R
  <2>5. \A x, y \in D : x = y
    BY <2>1, <2>3 DEF OneItem, D
  <2>6. ASSUME NEW x \in R, NEW y \in D PROVE FALSE
    <3>1. PICK p \in Nodes : \E i \in DOMAIN chan[n][p] :
                 p # n /\ Item(chan, n, b, n, p, i)
      BY <2>2 DEF R
    <3>2. PICK q \in Nodes : \E j \in DOMAIN chan[q][n] :
                 q # n /\ Item(chan, n, b, q, n, j)
      BY <2>3 DEF D
    <3> QED
      BY <2>1, <3>1, <3>2 DEF OneItem
  <2>7. \A S : S = {} => Cardinality(S) = 0
    BY FS_EmptySet
  <2>8. \A x : Cardinality({x}) = 1
    BY FS_Singleton
  <2>9. R = {} \/ D = {}
    BY <2>6
  <2>10. (R = {} \/ \E x : R = {x}) /\ (D = {} \/ \E x : D = {x})
    BY <2>4, <2>5
  <2>11. /\ Cardinality(R) = 0 \/ Cardinality(R) = 1
         /\ Cardinality(D) = 0 \/ Cardinality(D) = 1
         /\ Cardinality(R) = 0 \/ Cardinality(D) = 0
    BY <2>7, <2>8, <2>9, <2>10
  <2>12. Cardinality(R) + Cardinality(D) <= 1
    BY <2>11
  <2> QED
    BY <2>12 DEF R, D
<1> QED
  BY <1>1, MessageInvariant, PTL

(* A token that a step adds is of a bucket that has not expired, or that   *)
(* of the message in the hands of the proof-of-work thread, whose own      *)
(* timestamp is not too old.                                               *)
LEMMA OnlyFreshTokens ==
  ASSUME MessageInv, Next, NEW n \in Nodes, NEW m \in DOMAIN offset'[n],
         BucketOf[m] \in expired, m \notin DOMAIN offset[n]
  PROVE  m = pow[n] /\ m \notin past
<1>0. MessageTypes /\ DOMAIN offset = Nodes
  BY DEF MessageInv, MessageTypes
<1>1. offset' # offset
  OBVIOUS
<1>2. ASSUME NEW k \in Nodes, NEW b \in Buckets \ expired, NEW s \in Seq(Messages),
             \A i \in DOMAIN s : BucketOf[s[i]] = b, SecureMsgStore(k, b, s)
      PROVE  FALSE
  <2>1. /\ \A j \in Nodes : j # k => offset'[j] = offset[j]
        /\ \A x \in DOMAIN offset'[k] : BucketOf[x] # b => x \in DOMAIN offset[k]
    BY <1>0, <1>2, StoreStep
  <2> QED
    BY <2>1
<1>3. ASSUME NEW k \in Nodes, BuildBucketSet(k)
      PROVE  FALSE
  <2>1. /\ \A j \in Nodes : j # k => offset'[j] = offset[j]
        /\ \A x \in DOMAIN offset'[k] : BucketOf[x] \notin expired
    BY <1>0, <1>3, BuildStep
  <2> QED
    BY <2>1
<1>4. ASSUME NEW k \in Nodes, NEW p \in Nodes, RecvMsg(k, p)
      PROVE  FALSE
  <2> DEFINE x == Head(chan[p][k])
  <2>1. x \in MsgWire
    BY <1>0, <1>4, TakenMessage, WireFacts DEF RecvMsg, Incoming, MessageTypes
  <2>2. /\ x.bucket \in Buckets /\ x.bunch \in Seq(Messages)
        /\ \A i \in DOMAIN x.bunch : BucketOf[x.bunch[i]] = x.bucket
    BY <2>1 DEF MsgWire
  <2>3. \/ offset' = offset
        \/ x.bucket \notin expired /\ SecureMsgStore(k, x.bucket, x.bunch)
    BY <1>4 DEF RecvMsg, TooOld
  <2> QED
    BY <1>1, <1>2, <2>2, <2>3
<1>5. ASSUME NEW k \in Nodes, PowStore(k)
      PROVE  m = pow[n] /\ m \notin past
  <2> DEFINE new == Accepted(k, <<pow[k]>>)
  <2>1. SecureMsgStore(k, BucketOf[pow[k]], <<pow[k]>>)
    BY <1>1, <1>5 DEF PowStore
  <2>2. pow[k] \in Messages
    BY <1>0, <1>5 DEF PowStore, MessageTypes
  <2>3. <<pow[k]>> \in Seq(Messages) /\ DOMAIN <<pow[k]>> = {1} /\ <<pow[k]>>[1] = pow[k]
    BY <2>2
  <2>4. \A i \in DOMAIN new : new[i] = pow[k] /\ new[i] \notin past
    <3> DEFINE s == <<pow[k]>>
    <3>1. \A i \in DOMAIN Accepted(k, s) :
            Accepted(k, s)[i] \notin past /\ i \in DOMAIN s /\ Accepted(k, s)[i] = s[i]
      <4> HIDE DEF s
      <4> QED
        BY <2>3, AcceptedPart DEF s
    <3> QED
      BY <2>3, <3>1
  <2>5. /\ \A j \in Nodes : j # k => offset'[j] = offset[j]
        /\ DOMAIN offset'[k] = DOMAIN offset[k] \cup Range(new)
    BY <1>0, <2>1 DEF SecureMsgStore
  <2> HIDE DEF new
  <2>6. n = k /\ m \in Range(new)
    BY <2>5
  <2> QED
    BY <2>4, <2>6 DEF Range
<1>6. ASSUME NEW k \in Nodes, ThreadSecureMsg(k)
      PROVE  FALSE
  <2>1. \E S : offset' = [offset EXCEPT ![k] =
                 [y \in {x \in DOMAIN @ : BucketOf[x] \notin S} |-> @[y]]]
    BY <1>6 DEF ThreadSecureMsg
  <2> QED
    BY <1>0, <2>1
<1>7. ASSUME NEW k \in Nodes, SecureMsgDisable(k)
      PROVE  FALSE
  <2>1. offset' = [offset EXCEPT ![k] = <<>>] /\ DOMAIN <<>> = {}
    BY <1>7 DEF SecureMsgDisable
  <2> QED
    BY <1>0, <2>1
<1>8. ASSUME NEW k \in Nodes, NEW p \in Nodes, SecureMsgReceiveData(k, p)
      PROVE  FALSE
  <2>1. offset' = offset \/ RecvMsg(k, p)
    BY <1>8 DEF SecureMsgReceiveData, RecvInv, RecvShow, RecvHave, RecvWant, RecvMatch,
                RecvPing, RecvPong, RecvDisabled, RecvIgnore, RecvWhileOff, nodeVars
  <2> QED
    BY <1>1, <1>4, <2>1
<1>9. ASSUME NEW k \in Nodes,
             \/ PowTake(k) \/ PowFails(k) \/ PowStoreFails(k)
             \/ SecureMsgScanBuckets(k) \/ \E x \in Messages : SecureMsgSend(k, x)
      PROVE  offset' = offset
  BY <1>9 DEF PowTake, PowFails, PowStoreFails, SecureMsgScanBuckets, SecureMsgSend
<1>10. ASSUME NEW k \in Nodes, NEW p \in Nodes,
              \/ SendPing(k, p) \/ IgnoreEnds(k, p) \/ Disconnect(k, p) \/ Connect(k, p)
              \/ \E wake \in BOOLEAN : SecureMsgSendData(k, p, wake)
       PROVE  offset' = offset
  BY <1>10 DEF SendPing, SecureMsgSendData, IgnoreEnds, Disconnect, Connect, nodeVars
<1>11. ASSUME (\E b \in Buckets : Expire(b)) \/ (\E x \in Messages : Pass(x))
       PROVE  offset' = offset
  BY <1>11 DEF Expire, Pass, nodeVars
<1>12. ASSUME NEW k \in Nodes, SecureMsgEnable(k) \/ Restart(k) PROVE BuildBucketSet(k)
  BY <1>12 DEF SecureMsgEnable, Restart
<1>13. CASE \E k \in Nodes : \E p \in Nodes \ {k} :
              \/ SecureMsgReceiveData(k, p) \/ SendPing(k, p)
              \/ \E wake \in BOOLEAN : SecureMsgSendData(k, p, wake)
              \/ IgnoreEnds(k, p) \/ Disconnect(k, p) \/ Connect(k, p)
  BY <1>1, <1>8, <1>10, <1>13
<1>14. CASE \E k \in Nodes :
              \/ ThreadSecureMsg(k)
              \/ PowTake(k) \/ PowFails(k) \/ PowStore(k) \/ PowStoreFails(k)
              \/ SecureMsgDisable(k) \/ SecureMsgEnable(k)
              \/ SecureMsgScanBuckets(k) \/ Restart(k)
              \/ \E x \in Messages : SecureMsgSend(k, x)
  BY <1>1, <1>3, <1>5, <1>6, <1>7, <1>9, <1>12, <1>14
<1> QED
  BY <1>1, <1>11, <1>13, <1>14 DEF Next


(* What a node has dropped as too old does not come back with a late       *)
(* smsgMsg or from a file (the checks of the time of the bucket); out of   *)
(* the send queue it comes back only while the timestamp of the message    *)
(* itself is not too old (the check of SecureMsgStore).                    *)
THEOREM ExpiredNeverReturns == Spec => ExpiredStaysOut
<1>1. ASSUME MessageInv, [Next]_vars
      PROVE  [\A n \in Nodes : \A m \in Messages :
                /\ BucketOf[m] \in expired
                /\ m \notin DOMAIN offset[n] /\ m \in DOMAIN offset'[n]
                => m = pow[n] /\ m \notin past]_vars
  <2>1. CASE UNCHANGED vars
    BY <2>1
  <2>2. CASE Next
    BY <1>1, <2>2, OnlyFreshTokens
  <2> QED
    BY <1>1, <2>1, <2>2
<1> QED
  BY <1>1, MessageInvariant, PTL DEF Spec, ExpiredStaysOut
=============================================================================
