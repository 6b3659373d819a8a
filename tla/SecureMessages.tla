--------------------------- MODULE SecureMessages ---------------------------
(***************************************************************************)
(* The exchange of secure messages between nodes (smessage.cpp).           *)
(*                                                                         *)
(* Messages live in buckets of ten minutes.  A node keeps, per bucket, the *)
(* set of tokens of its messages in memory and the messages themselves in  *)
(* a file; a token remembers the offset of its record.  Peers announce     *)
(* their buckets (smsgInv), ask for the tokens of a bucket (smsgShow,      *)
(* smsgHave), lock the bucket and ask for what is missing (smsgWant,       *)
(* smsgMsg).  A lock that is not answered in time is dropped and the peer  *)
(* is ignored for a while (smsgIgnore).  An announcement that has nothing  *)
(* new is answered by smsgMatch, and is then not repeated until the bucket *)
(* changes or the wake counter runs out.                                   *)
(*                                                                         *)
(* Abstractions.                                                           *)
(*  - Messages and buckets are numbers, in the order of their times.  The  *)
(*    hash of a bucket is its set of tokens; all records have one length,  *)
(*    so an offset is an index.                                            *)
(*  - The clocks of the nodes agree.  Of the times in the code only their  *)
(*    order is kept: "fresh" is the set of buckets with timeChanged >=     *)
(*    lastMatched; a bucket, and later each of its messages, is older than *)
(*    SMSG_RETENTION or not; a peer is ignored or not.                     *)
(*  - nWakeCounter is a choice: any SecureMsgSendData may be the one that  *)
(*    finds it at zero.                                                    *)
(*  - Decryption, the in-box and the proof of work itself are left out;    *)
(*    all messages are valid.                                              *)
(***************************************************************************)
EXTENDS Naturals, FiniteSets, Sequences, FiniteSetsExt, Functions

CONSTANTS
  Nodes,          \* the nodes
  Messages,       \* the messages: numbers, in token order
  Buckets,        \* the buckets: numbers, oldest first
  BucketOf,       \* the bucket of each message
  LockTicks,      \* rounds of ThreadSecureMsg a lock survives (3 in the code)
  MaxBunch,       \* messages in one smsgMsg (500 in the code)
  NoNode,         \* nLockPeerId of a bucket that is not locked
  NoMessage,      \* the proof-of-work thread holds nothing
  MaxInFlight,    \* bound: a node announces when nothing of it is under way
                  \*   and fewer messages than this come from the peer
  Faults,         \* what may happen of crashes, lost connections, failures
                  \*   of the proof-of-work thread and the commands
                  \*   smsgdisable and smsgscanbuckets
  MaxFaults,      \* bound: how often
  Stored,         \* the messages in the files of each node when it starts
  Greeted,        \* the first connections have exchanged ping and pong
  Unsent          \* bound: the messages that may be written

ASSUME Assumptions ==
  /\ Messages \subseteq Nat \ {0} /\ IsFiniteSet(Messages)
  /\ Buckets \subseteq Nat /\ IsFiniteSet(Buckets)
  /\ BucketOf \in [Messages -> Buckets]
  /\ LockTicks \in Nat \ {0} /\ MaxBunch \in Nat \ {0}
  /\ NoNode \notin Nodes /\ NoMessage \notin Messages
  /\ Unsent \subseteq Messages /\ Stored \in [Nodes -> SUBSET Messages]
  /\ Greeted \in BOOLEAN /\ {MaxInFlight, MaxFaults} \subseteq Nat

VARIABLES
  on,         \* fSecMsgEnabled
  offset,     \* setTokens of all buckets: message -> offset of its record
  file,       \* smsgStore: the records of each bucket's file
  lock,       \* nLockCount of each bucket
  lockPeer,   \* nLockPeerId of each bucket
  queue,      \* the send queue in the database ("qm")
  pow,        \* what ThreadSecureMsgPow has taken from the queue
  peer,       \* smsgData of each connection
  up,         \* the connections, as ordered pairs
  chan,       \* chan[n][p]: messages on their way from n to p
  expired,    \* buckets older than SMSG_RETENTION
  past,       \* messages whose own timestamp is older than SMSG_RETENTION
  unsent,     \* messages not yet written
  faults,     \* how many of MaxFaults have happened
  gaveUp,     \* history: nodes that gave up a lock
  scanned,    \* history: nodes that ran smsgscanbuckets
  lost        \* history: messages erased from the queue and not stored, because
              \*   the process died, or the proof of work or the writing failed

nodeVars == <<on, offset, file, lock, lockPeer, queue, pow>>
netVars == <<peer, up, chan>>
timeVars == <<expired, past>>
boundVars == <<unsent, faults>>
histVars == <<gaveUp, scanned, lost>>
vars == <<nodeVars, netVars, timeVars, boundVars, histVars>>

Pairs == {c \in Nodes \X Nodes : c[1] # c[2]}

SecMsgNode == [seen |-> FALSE, enabled |-> FALSE, fresh |-> Buckets,
               ignoring |-> FALSE]

Tokens(n, b) == {m \in DOMAIN offset[n] : BucketOf[m] = b}

(* The elements of a set of numbers, each after those below it. *)
Sorted(S) ==
  [i \in 1..Cardinality(S) |->
     CHOOSE m \in S : Cardinality({x \in S : x < m}) = i - 1]

(* SecureMsgBuildBucketSet: the tokens of every record in the files f. *)
TokensOf(f) ==
  [m \in UNION {Range(f[b]) : b \in Buckets} |->
     CHOOSE i \in DOMAIN f[BucketOf[m]] : f[BucketOf[m]][i] = m]

Init ==
  /\ on = [n \in Nodes |-> TRUE]
  /\ file = [n \in Nodes |-> [b \in Buckets |->
               Sorted({m \in Stored[n] : BucketOf[m] = b})]]
  /\ offset = [n \in Nodes |-> TokensOf(file[n])]
  /\ lock = [n \in Nodes |-> [b \in Buckets |-> 0]]
  /\ lockPeer = [n \in Nodes |-> [b \in Buckets |-> NoNode]]
  /\ queue = [n \in Nodes |-> {}]
  /\ pow = [n \in Nodes |-> NoMessage]
  /\ peer = [n \in Nodes |-> [p \in Nodes |->
               [SecMsgNode EXCEPT !.seen = Greeted, !.enabled = Greeted]]]
  /\ up = Pairs
  /\ chan = [n \in Nodes |-> [p \in Nodes |-> <<>>]]
  /\ expired = {} /\ past = {}
  /\ unsent = Unsent /\ faults = 0
  /\ gaveUp = {} /\ scanned = {} /\ lost = {}

Happens(fault) == fault \in Faults /\ faults < MaxFaults

-----------------------------------------------------------------------------
(* Messages travel in order on a connection. *)

Incoming(n, p, type) ==
  /\ chan[p][n] # <<>>
  /\ Head(chan[p][n]).type = type

(* n takes the message of p it is handling and sends p the messages out. *)
Answer(n, p, out) ==
  [chan EXCEPT ![p][n] = Tail(@), ![n][p] = @ \o out]

Taken(n, p) == Answer(n, p, <<>>)

(* hashBucket sets timeChanged: the bucket is announced again to every     *)
(* peer, also when a smsgMatch that is older than the change is on its way.*)
Freshened(node, S) == [node EXCEPT !.fresh = @ \cup S]

Overtaken(x, b) ==
  IF x.type = "smsgMatch" THEN [x EXCEPT !.later = @ \cup {b}] ELSE x

Rehashed(n, b) ==
  [peer EXCEPT ![n] = [p \in Nodes |-> Freshened(@[p], {b})]]

Stamped(c, n, b) ==
  [p \in Nodes |-> [c[p] EXCEPT ![n] =
     [i \in DOMAIN @ |-> Overtaken(@[i], b)]]]

-----------------------------------------------------------------------------
(* The store. *)

(* SecureMsgRetrieve: the record at the token's offset, whatever it is. *)
Retrieves(n, m) == offset[n][m] <= Len(file[n][BucketOf[m]])
Retrieve(n, m) == file[n][BucketOf[m]][offset[n][m]]

(* SecureMsgStore of the messages s, all of bucket b: a message that is    *)
(* too old by its own timestamp, or that it has already, is an error, which *)
(* ends the loop of SecureMsgReceive.                                      *)
(* Mutant: a message that is there already is stored again. *)
FirstRefusedNever(n, s) ==
  Min({Len(s) + 1} \cup {i \in DOMAIN s : s[i] \in past})

FirstRefused(n, s) ==
  Min({Len(s) + 1} \cup
      {i \in DOMAIN s : \/ s[i] \in past
                        \/ s[i] \in DOMAIN offset[n]
                        \/ \E j \in 1..(i - 1) : s[j] = s[i]})

(* Mutant: nothing is stored while a peer has the lock of the bucket. *)
AcceptedUnlocked(n, s) ==
  IF lock[n][BucketOf[s[1]]] > 0 THEN <<>> ELSE SubSeq(s, 1, FirstRefused(n, s) - 1)

Accepted(n, s) == SubSeq(s, 1, FirstRefused(n, s) - 1)

SecureMsgStore(n, b, s) ==
  LET new == Accepted(n, s)
      len == Len(file[n][b])
  IN  /\ file' = [file EXCEPT ![n][b] = @ \o new]
      /\ offset' = [offset EXCEPT ![n] =
           [m \in DOMAIN @ \cup Range(new) |->
              IF m \in DOMAIN @ THEN @[m]
              ELSE len + CHOOSE i \in DOMAIN new : new[i] = m]]

(* The checks of the time of a bucket against now - SMSG_RETENTION. *)
(* Mutant: old messages are taken. *)
NeverTooOld(b) == FALSE

TooOld(b) == b \in expired

-----------------------------------------------------------------------------
(* SecureMsgReceiveData, one action per message type. *)

(* p's announcement: ask for buckets in which p has more, or as many but   *)
(* others; tell p when there is none.                                      *)
Wanted(n, inv, b) ==
  LET mine == Tokens(n, b)
  IN  \/ Cardinality(mine) < Cardinality(inv[b])
      \/ /\ Cardinality(mine) = Cardinality(inv[b])
         /\ mine # inv[b]

RecvInv(n, p) ==
  /\ on[n] /\ Incoming(n, p, "smsgInv")
  /\ LET inv == Head(chan[p][n]).inv
         valid == {b \in DOMAIN inv : ~ TooOld(b)}
         locked == {b \in valid : lock[n][b] > 0}
         show == {b \in valid \ locked : Wanted(n, inv, b)}
     IN  \/ /\ peer[n][p].ignoring
            /\ chan' = Taken(n, p)
         \/ /\ ~ peer[n][p].ignoring
            /\ show # {}
            /\ chan' = Answer(n, p, <<[type |-> "smsgShow", show |-> show]>>)
         \/ /\ ~ peer[n][p].ignoring
            /\ show = {} /\ locked # {}
            /\ chan' = Taken(n, p)
         \/ /\ ~ peer[n][p].ignoring
            /\ show = {} /\ locked = {}
            /\ \E sameSecond \in SUBSET peer[p][n].fresh :
                 chan' = Answer(n, p, <<[type |-> "smsgMatch",
                                         later |-> sameSecond]>>)
  /\ UNCHANGED <<nodeVars, peer, up, timeVars, boundVars, histVars>>

RecvShow(n, p) ==
  /\ on[n] /\ Incoming(n, p, "smsgShow")
  /\ LET show == {b \in Head(chan[p][n]).show : Tokens(n, b) # {}}
         have == [i \in 1..Cardinality(show) |->
                    [type |-> "smsgHave", bucket |-> Sorted(show)[i],
                     have |-> Tokens(n, Sorted(show)[i])]]
     IN  chan' = Answer(n, p, have)
  /\ UNCHANGED <<nodeVars, peer, up, timeVars, boundVars, histVars>>

(* What p has and n lacks is asked for, and the bucket is locked for p. *)
(* Mutant: the lock is not looked at. *)
MayAskAlways(n, b) == ~ TooOld(b)

MayAsk(n, b) == ~ TooOld(b) /\ lock[n][b] = 0

RecvHave(n, p) ==
  /\ on[n] /\ Incoming(n, p, "smsgHave")
  /\ LET b == Head(chan[p][n]).bucket
         missing == Head(chan[p][n]).have \ Tokens(n, b)
     IN  IF MayAsk(n, b) /\ missing # {}
         THEN /\ lock' = [lock EXCEPT ![n][b] = LockTicks]
              /\ lockPeer' = [lockPeer EXCEPT ![n][b] = p]
              /\ chan' = Answer(n, p, <<[type |-> "smsgWant", bucket |-> b,
                                         want |-> missing]>>)
         ELSE /\ chan' = Taken(n, p)
              /\ UNCHANGED <<lock, lockPeer>>
  /\ UNCHANGED <<on, offset, file, queue, pow, peer, up, timeVars, boundVars,
                 histVars>>

(* At most MaxBunch of the wanted messages are sent. *)
RecvWant(n, p) ==
  /\ on[n] /\ Incoming(n, p, "smsgWant")
  /\ LET b == Head(chan[p][n]).bucket
         found == Sorted({m \in Head(chan[p][n]).want \cap Tokens(n, b) :
                            Retrieves(n, m)})
         bunch == [i \in 1..Min({Len(found), MaxBunch}) |->
                     Retrieve(n, found[i])]
     IN  chan' = Answer(n, p, IF bunch = <<>> THEN <<>>
                              ELSE <<[type |-> "smsgMsg", bucket |-> b,
                                      bunch |-> bunch]>>)
  /\ UNCHANGED <<nodeVars, peer, up, timeVars, boundVars, histVars>>

(* SecureMsgReceive: whoever sent it and whether or not it was still       *)
(* waited for, the bunch is stored, the lock released and the bucket       *)
(* hashed.                                                                 *)
RecvMsg(n, p) ==
  /\ on[n] /\ Incoming(n, p, "smsgMsg")
  /\ LET b == Head(chan[p][n]).bucket
     IN  \/ /\ TooOld(b)
            /\ chan' = Taken(n, p)
            /\ UNCHANGED <<offset, file, lock, lockPeer, peer>>
         \/ /\ ~ TooOld(b)
            /\ SecureMsgStore(n, b, Head(chan[p][n]).bunch)
            /\ lock' = [lock EXCEPT ![n][b] = 0]
            /\ lockPeer' = [lockPeer EXCEPT ![n][b] = NoNode]
            /\ peer' = Rehashed(n, b)
            /\ chan' = Stamped(Taken(n, p), n, b)
  /\ UNCHANGED <<on, queue, pow, up, timeVars, boundVars, histVars>>

RecvMatch(n, p) ==
  /\ on[n] /\ Incoming(n, p, "smsgMatch")
  /\ peer' = [peer EXCEPT ![n][p].fresh = Head(chan[p][n]).later]
  /\ chan' = Taken(n, p)
  /\ UNCHANGED <<nodeVars, up, timeVars, boundVars, histVars>>

RecvPing(n, p) ==
  /\ on[n] /\ Incoming(n, p, "smsgPing")
  /\ chan' = Answer(n, p, <<[type |-> "smsgPong"]>>)
  /\ UNCHANGED <<nodeVars, peer, up, timeVars, boundVars, histVars>>

RecvPong(n, p) ==
  /\ on[n] /\ Incoming(n, p, "smsgPong")
  /\ peer' = [peer EXCEPT ![n][p].enabled = TRUE]
  /\ chan' = Taken(n, p)
  /\ UNCHANGED <<nodeVars, up, timeVars, boundVars, histVars>>

RecvDisabled(n, p) ==
  /\ on[n] /\ Incoming(n, p, "smsgDisabled")
  /\ peer' = [peer EXCEPT ![n][p].enabled = FALSE]
  /\ chan' = Taken(n, p)
  /\ UNCHANGED <<nodeVars, up, timeVars, boundVars, histVars>>

RecvIgnore(n, p) ==
  /\ on[n] /\ Incoming(n, p, "smsgIgnore")
  /\ peer' = [peer EXCEPT ![n][p].ignoring = TRUE]
  /\ chan' = Taken(n, p)
  /\ UNCHANGED <<nodeVars, up, timeVars, boundVars, histVars>>

(* ProcessMessage passes nothing on while secure messaging is disabled. *)
RecvWhileOff(n, p) ==
  /\ ~ on[n] /\ chan[p][n] # <<>>
  /\ chan' = Taken(n, p)
  /\ UNCHANGED <<nodeVars, peer, up, timeVars, boundVars, histVars>>

SecureMsgReceiveData(n, p) ==
  \/ RecvInv(n, p) \/ RecvShow(n, p) \/ RecvHave(n, p)
  \/ RecvWant(n, p) \/ RecvMsg(n, p) \/ RecvMatch(n, p)
  \/ RecvPing(n, p) \/ RecvPong(n, p) \/ RecvDisabled(n, p)
  \/ RecvIgnore(n, p) \/ RecvWhileOff(n, p)

-----------------------------------------------------------------------------
(* SecureMsgSendData. *)

Room(n, p) == chan[n][p] = <<>> /\ Len(chan[p][n]) < MaxInFlight

SendPing(n, p) ==
  /\ on[n] /\ <<n, p>> \in up /\ ~ peer[n][p].seen
  /\ peer' = [peer EXCEPT ![n][p].seen = TRUE]
  /\ chan' = [chan EXCEPT ![n][p] = Append(@, [type |-> "smsgPing"])]
  /\ UNCHANGED <<nodeVars, up, timeVars, boundVars, histVars>>

(* Mutant: lastMatched is not reset when the wake counter is at zero. *)
AnnouncedFresh(n, p, wake) == peer[n][p].fresh

(* When the wake counter is at zero everything is announced again. *)
Announced(n, p, wake) == IF wake THEN Buckets ELSE peer[n][p].fresh

SecureMsgSendData(n, p, wake) ==
  /\ on[n] /\ <<n, p>> \in up /\ Room(n, p)
  /\ peer[n][p].seen /\ peer[n][p].enabled /\ ~ peer[n][p].ignoring
  /\ LET shown == {b \in Announced(n, p, wake) : Tokens(n, b) # {}}
         inv == [type |-> "smsgInv", inv |-> [b \in shown |-> Tokens(n, b)]]
     IN  chan' = IF shown = {} THEN chan
                 ELSE [chan EXCEPT ![n][p] = Append(@, inv)]
  /\ peer' = [peer EXCEPT ![n][p].fresh = Announced(n, p, wake)]
  /\ UNCHANGED <<nodeVars, up, timeVars, boundVars, histVars>>

IgnoreEnds(n, p) ==
  /\ peer[n][p].ignoring
  /\ peer' = [peer EXCEPT ![n][p].ignoring = FALSE]
  /\ UNCHANGED <<nodeVars, up, chan, timeVars, boundVars, histVars>>

-----------------------------------------------------------------------------
(* ThreadSecureMsg: drop expired buckets, count the locks down, and ignore *)
(* the peers whose locks ran out.  The loop increments an iterator it has  *)
(* erased, so after an erasure it may also end early.                      *)
Held(n) == {b \in Buckets : Tokens(n, b) # {} \/ lock[n][b] > 0}

Visits(n) ==
  {Buckets} \cup (SUBSET (expired \cap Held(n)) \ {{}})

LockLeft(n, b) == IF lock[n][b] = 0 THEN 0 ELSE lock[n][b] - 1

ThreadSecureMsg(n) ==
  /\ on[n]
  /\ \E visited \in Visits(n) :
     LET erased == visited \cap expired
         ticked == {b \in visited \ expired : lock[n][b] > 0}
         late == {b \in ticked : LockLeft(n, b) = 0}
         silent == {lockPeer[n][b] : b \in late} \cap {c[2] : c \in {d \in up : d[1] = n}}
     IN  /\ offset' = [offset EXCEPT ![n] =
              [m \in {x \in DOMAIN @ : BucketOf[x] \notin erased} |-> @[m]]]
         /\ file' = [file EXCEPT ![n] =
              [b \in Buckets |-> IF b \in erased THEN <<>> ELSE @[b]]]
         /\ lock' = [lock EXCEPT ![n] =
              [b \in Buckets |-> CASE b \in erased -> 0
                                   [] b \in ticked -> LockLeft(n, b)
                                   [] OTHER -> @[b]]]
         /\ lockPeer' = [lockPeer EXCEPT ![n] =
              [b \in Buckets |-> IF b \in erased \cup late THEN NoNode ELSE @[b]]]
         /\ peer' = [peer EXCEPT ![n] = [p \in Nodes |->
              IF p \in silent THEN [@[p] EXCEPT !.ignoring = TRUE] ELSE @[p]]]
         /\ chan' = [chan EXCEPT ![n] = [p \in Nodes |->
              IF p \in silent THEN Append(@[p], [type |-> "smsgIgnore"])
              ELSE @[p]]]
         /\ gaveUp' = IF late = {} THEN gaveUp ELSE gaveUp \cup {n}
  /\ UNCHANGED <<on, queue, pow, up, timeVars, boundVars, scanned, lost>>

-----------------------------------------------------------------------------
(* Sending: the queue in the database, and ThreadSecureMsgPow, which takes *)
(* the oldest message out of it before it stores the message.              *)

SecureMsgSend(n, m) ==
  /\ on[n] /\ m \in unsent /\ BucketOf[m] \notin expired
  /\ queue' = [queue EXCEPT ![n] = @ \cup {m}]
  /\ unsent' = unsent \ {m}
  /\ UNCHANGED <<on, offset, file, lock, lockPeer, pow, netVars, timeVars,
                 faults, histVars>>

PowTake(n) ==
  /\ on[n] /\ pow[n] = NoMessage /\ queue[n] # {}
  /\ pow' = [pow EXCEPT ![n] = Min(queue[n])]
  /\ queue' = [queue EXCEPT ![n] = @ \ {Min(@)}]
  /\ UNCHANGED <<on, offset, file, lock, lockPeer, netVars, timeVars,
                 boundVars, histVars>>

(* SecureMsgSetHash gives up: the message has left the queue for good. *)
PowFails(n) ==
  /\ on[n] /\ pow[n] = NoMessage /\ queue[n] # {} /\ Happens("pow")
  /\ queue' = [queue EXCEPT ![n] = @ \ {Min(@)}]
  /\ lost' = lost \cup {Min(queue[n])}
  /\ faults' = faults + 1
  /\ UNCHANGED <<on, offset, file, lock, lockPeer, pow, netVars, timeVars,
                 unsent, gaveUp, scanned>>

(* Nobody looks at the time of the bucket here: a message that is not too  *)
(* old itself makes a bucket that was dropped anew.                        *)
PowStore(n) ==
  /\ on[n] /\ pow[n] # NoMessage
  /\ LET b == BucketOf[pow[n]]
     IN  \/ /\ Accepted(n, <<pow[n]>>) # <<>>
            /\ SecureMsgStore(n, b, <<pow[n]>>)
            /\ peer' = Rehashed(n, b)
            /\ chan' = Stamped(chan, n, b)
         \/ /\ Accepted(n, <<pow[n]>>) = <<>>
            /\ UNCHANGED <<offset, file, peer, chan>>
  /\ pow' = [pow EXCEPT ![n] = NoMessage]
  /\ UNCHANGED <<on, lock, lockPeer, queue, up, timeVars, boundVars, histVars>>

(* The file cannot be opened: the message is in no bucket and no queue. *)
PowStoreFails(n) ==
  /\ on[n] /\ pow[n] # NoMessage /\ Happens("pow")
  /\ pow' = [pow EXCEPT ![n] = NoMessage]
  /\ lost' = lost \cup {pow[n]}
  /\ faults' = faults + 1
  /\ UNCHANGED <<on, offset, file, lock, lockPeer, queue, netVars, timeVars,
                 unsent, gaveUp, scanned>>

-----------------------------------------------------------------------------
(* Starting, stopping and scanning. *)

(* The files that are not expired are read, the others removed. *)
BuildBucketSet(n) ==
  LET kept == [b \in Buckets |-> IF b \in expired THEN <<>> ELSE file[n][b]]
  IN  /\ file' = [file EXCEPT ![n] = kept]
      /\ offset' = [offset EXCEPT ![n] = TokensOf(kept)]

NoLocks(n) ==
  /\ lock' = [lock EXCEPT ![n] = [b \in Buckets |-> 0]]
  /\ lockPeer' = [lockPeer EXCEPT ![n] = [b \in Buckets |-> NoNode]]

(* SecureMsgDisable: the buckets leave memory, the files stay, the peers   *)
(* that are known to be enabled are told.  The call waits for the threads. *)
SecureMsgDisable(n) ==
  /\ on[n] /\ pow[n] = NoMessage /\ Happens("disable")
  /\ on' = [on EXCEPT ![n] = FALSE]
  /\ offset' = [offset EXCEPT ![n] = <<>>]
  /\ NoLocks(n)
  /\ chan' = [chan EXCEPT ![n] = [p \in Nodes |->
       IF peer[n][p].enabled THEN Append(@[p], [type |-> "smsgDisabled"])
       ELSE @[p]]]
  /\ peer' = [peer EXCEPT ![n] = [p \in Nodes |->
       [@[p] EXCEPT !.enabled = FALSE]]]
  /\ gaveUp' = IF \E b \in Buckets : lock[n][b] > 0 THEN gaveUp \cup {n}
               ELSE gaveUp
  /\ faults' = faults + 1
  /\ UNCHANGED <<file, queue, pow, up, timeVars, unsent, scanned, lost>>

(* SecureMsgEnable: a ping, and a pong for the ping that was missed. *)
SecureMsgEnable(n) ==
  /\ ~ on[n]
  /\ on' = [on EXCEPT ![n] = TRUE]
  /\ BuildBucketSet(n)
  /\ chan' = [chan EXCEPT ![n] = [p \in Nodes |->
       IF <<n, p>> \in up
       THEN @[p] \o <<[type |-> "smsgPing"], [type |-> "smsgPong"]>>
       ELSE @[p]]]
  /\ peer' = [peer EXCEPT ![n] = [p \in Nodes |-> Freshened(@[p], Buckets)]]
  /\ UNCHANGED <<lock, lockPeer, queue, pow, up, timeVars, boundVars, histVars>>

(* SecureMsgScanBuckets reads every file for messages to this node and     *)
(* removes each file it has read; the tokens stay.                         *)
SecureMsgScanBuckets(n) ==
  /\ on[n] /\ Happens("scan")
  /\ file' = [file EXCEPT ![n] = [b \in Buckets |-> <<>>]]
  /\ scanned' = scanned \cup {n}
  /\ faults' = faults + 1
  /\ UNCHANGED <<on, offset, lock, lockPeer, queue, pow, netVars, timeVars,
                 unsent, gaveUp, lost>>

-----------------------------------------------------------------------------
(* The environment: time, connections, crashes. *)

(* SecureMsgStore will look at the timestamp of m. *)
Waiting(m) == \E n \in Nodes : m \in queue[n] \cup {pow[n]}

Expire(b) ==
  /\ b \notin expired /\ \A c \in Buckets \ expired : b <= c
  /\ \A m \in Messages : BucketOf[m] \in expired /\ Waiting(m) => m \in past
  /\ expired' = expired \cup {b}
  /\ UNCHANGED <<nodeVars, netVars, past, boundVars, histVars>>

(* A timestamp is not before the time of its bucket, and before the time   *)
(* of the next.                                                            *)
Pass(m) ==
  /\ m \notin past /\ BucketOf[m] \in expired /\ Waiting(m)
  /\ \A x \in Messages :
       BucketOf[x] = BucketOf[m] /\ x < m /\ Waiting(x) => x \in past
  /\ past' = past \cup {m}
  /\ UNCHANGED <<nodeVars, netVars, expired, boundVars, histVars>>

Cut(S) ==
  /\ up' = up \ S
  /\ chan' = [n \in Nodes |-> [p \in Nodes |->
                IF <<n, p>> \in S THEN <<>> ELSE chan[n][p]]]
  /\ peer' = [n \in Nodes |-> [p \in Nodes |->
                IF <<n, p>> \in S THEN SecMsgNode ELSE peer[n][p]]]

Disconnect(n, p) ==
  /\ <<n, p>> \in up /\ Happens("disconnect")
  /\ Cut({<<n, p>>, <<p, n>>})
  /\ faults' = faults + 1
  /\ UNCHANGED <<nodeVars, timeVars, unsent, histVars>>

Connect(n, p) ==
  /\ <<n, p>> \notin up
  /\ up' = up \cup {<<n, p>>, <<p, n>>}
  /\ UNCHANGED <<nodeVars, peer, chan, timeVars, boundVars, histVars>>

(* A crash and the start that follows (SecureMsgStart). *)
Restart(n) ==
  /\ Happens("crash")
  /\ on' = [on EXCEPT ![n] = TRUE]
  /\ BuildBucketSet(n)
  /\ NoLocks(n)
  /\ pow' = [pow EXCEPT ![n] = NoMessage]
  /\ lost' = lost \cup ({pow[n]} \ {NoMessage})
  /\ Cut({c \in Pairs : n \in {c[1], c[2]}})
  /\ faults' = faults + 1
  /\ UNCHANGED <<queue, timeVars, unsent, gaveUp, scanned>>

Next ==
  \/ \E n \in Nodes :
       \/ ThreadSecureMsg(n)
       \/ PowTake(n) \/ PowFails(n) \/ PowStore(n) \/ PowStoreFails(n)
       \/ SecureMsgDisable(n) \/ SecureMsgEnable(n)
       \/ SecureMsgScanBuckets(n) \/ Restart(n)
       \/ \E m \in Messages : SecureMsgSend(n, m)
       \/ \E p \in Nodes \ {n} :
            \/ SecureMsgReceiveData(n, p) \/ SendPing(n, p)
            \/ \E wake \in BOOLEAN : SecureMsgSendData(n, p, wake)
            \/ IgnoreEnds(n, p) \/ Disconnect(n, p) \/ Connect(n, p)
  \/ \E b \in Buckets : Expire(b)
  \/ \E m \in Messages : Pass(m)

(* The message thread visits every connection, the two threads run while   *)
(* messaging is enabled, time passes; the wake counter of a connection     *)
(* that is visited again and again runs out again and again.               *)
Fairness ==
  \A n \in Nodes :
    /\ WF_vars(ThreadSecureMsg(n))
    /\ WF_vars(PowTake(n)) /\ WF_vars(PowStore(n))
    /\ \A p \in Nodes \ {n} :
         /\ WF_vars(SecureMsgReceiveData(n, p))
         /\ WF_vars(SendPing(n, p))
         /\ WF_vars(IgnoreEnds(n, p))
         /\ SF_vars(SecureMsgSendData(n, p, TRUE))

Spec == Init /\ [][Next]_vars

FairSpec == Spec /\ Fairness

-----------------------------------------------------------------------------
(* Properties. *)

(* The memory of a node describes its files: every file holds each message *)
(* once, the tokens of a running node are the records of its files, and a  *)
(* token leads to its own record -- across repeated deliveries, expiry,    *)
(* disabling and crashes, as long as smsgscanbuckets was not called.       *)
TokensDescribeFiles ==
  \A n \in Nodes \ scanned : \A b \in Buckets :
    /\ IsInjective(file[n][b])
    /\ on[n] => /\ Range(file[n][b]) = Tokens(n, b)
                /\ \A m \in Tokens(n, b) : Retrieves(n, m) /\ Retrieve(n, m) = m

(* The lock of a bucket does its work: unless a lock was given up, a node  *)
(* has at most one request for a bucket under way, over all its peers.     *)
Requests(n, b) ==
  UNION {{p} \X {i \in DOMAIN chan[n][p] :
                   chan[n][p][i].type = "smsgWant" /\ chan[n][p][i].bucket = b} :
         p \in Nodes \ {n}}

Deliveries(n, b) ==
  UNION {{p} \X {i \in DOMAIN chan[p][n] :
                   chan[p][n][i].type = "smsgMsg" /\ chan[p][n][i].bucket = b} :
         p \in Nodes \ {n}}

OneRequestPerBucket ==
  \A n \in Nodes \ gaveUp : \A b \in Buckets :
    Cardinality(Requests(n, b)) + Cardinality(Deliveries(n, b)) <= 1

(* What a node has dropped because it is too old does not come back with   *)
(* a late smsgMsg or from a file.  Out of its own send queue it may: there *)
(* SecureMsgStore looks at the timestamp of the message, not at the bucket *)
(* it is in, and so only until that timestamp is too old as well.          *)
ExpiredStaysOut ==
  [][\A n \in Nodes : \A m \in Messages :
       /\ BucketOf[m] \in expired
       /\ m \notin DOMAIN offset[n] /\ m \in DOMAIN offset'[n]
       => m = pow[n] /\ m \notin past]_vars

(* A message that a node holds reaches every node it stays connected to    *)
(* before it expires, in spite of lock time-outs, ignored announcements    *)
(* and matches that were overtaken by a change.                            *)
Apart(n, p) ==
  \/ <<n, p>> \notin up \/ ~ on[n] \/ ~ on[p] \/ {n, p} \cap scanned # {}

Converges ==
  \A n \in Nodes : \A p \in Nodes \ {n} : \A m \in Messages :
    m \in DOMAIN offset[n]
      ~> (m \in DOMAIN offset[p] \/ BucketOf[m] \in expired \/ Apart(n, p))

(* A message that was queued is stored before it expires, in spite of      *)
(* locks and late bunches, unless the process dies between the erasure     *)
(* from the queue and SecureMsgStore, or one of the two steps around it    *)
(* fails: ThreadSecureMsgPow removes the message "no matter what".         *)
QueuedIsStored ==
  \A n \in Nodes : \A m \in Messages :
    m \in queue[n]
      ~> (m \in DOMAIN offset[n] \cup lost \/ BucketOf[m] \in expired \/ ~ on[n])
=============================================================================
