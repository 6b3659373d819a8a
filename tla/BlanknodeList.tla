--------------------------- MODULE BlanknodeList ---------------------------
(***************************************************************************)
(* The list of blanknodes (blanknodeman.cpp, blanknode.cpp) that every     *)
(* node keeps, followed for one blanknode: the host announces itself       *)
(* (ssee), pings (sseep), stops or dies (activeblanknode.cpp); the others  *)
(* add, refresh, expire and remove its entry, pass on what they hear, and  *)
(* ask each other (sseg) for an entry they miss.                           *)
(*                                                                         *)
(* Abstractions.                                                           *)
(*  - A tick is longer than the minute between two calls of ManageStatus   *)
(*    and of CheckAndRemove: both happen at every node in every tick.      *)
(*  - Times are ages in ticks, as far as they can be told apart.  The      *)
(*    sigTime of an announcement is its number.                            *)
(*  - A link delivers in any order what was sent on it.                    *)
(*  - Signatures, addresses and protocol versions are right, the host has  *)
(*    its collateral in its own wallet, and nobody else is in the list.    *)
(*  - The calls of Check from elsewhere, between two calls of              *)
(*    CheckAndRemove, are left out: they do no more than the next one.     *)
(*  - A scanning error or success concerns a new block height.             *)
(*  - A host that has died does not come back; one that stopped may.       *)
(***************************************************************************)
EXTENDS Integers, FiniteSets

CONSTANTS
  Nodes, Host,      \* the nodes, and the one that is the blanknode
  Peers,            \* Peers[n]: the nodes n is connected to
  NoEntry,          \* no entry for the blanknode in vBlanknodes
  MinSsee,          \* BLANKNODE_MIN_SSEE_SECONDS
  MinSseep,         \* BLANKNODE_MIN_SSEEP_SECONDS
  PingWindow,       \* the hour within which a ping is accepted
  Expiration,       \* BLANKNODE_EXPIRATION_SECONDS
  Removal,          \* BLANKNODE_REMOVAL_SECONDS
  ErrorThreshold,   \* BLANKNODE_SCANNING_ERROR_THESHOLD
  MaxSigned,        \* bound: announcements of the host
  Spendable,        \* the collateral may be spent
  MaxFaults         \* bound: restarts, scanning errors, and ticks that pass
                    \*   while a message is under way

ASSUME Assumptions ==
  /\ Host \in Nodes
  /\ Peers \in [Nodes -> SUBSET Nodes]
  /\ \A m, n \in Nodes : m \in Peers[n] <=> n \in Peers[m]
  /\ MinSsee \in Nat /\ MinSseep \in Nat /\ PingWindow \in Nat
  /\ Expiration \in Nat /\ Removal \in Nat /\ ErrorThreshold \in Nat
  /\ 0 < MinSsee /\ MinSsee < MinSseep /\ MinSseep < PingWindow
  /\ PingWindow < Expiration /\ Expiration < Removal /\ 0 < ErrorThreshold
  /\ Spendable \in BOOLEAN /\ MaxSigned \in Nat /\ MaxFaults \in Nat

VARIABLES
  entry,      \* entry[n]: what n's vBlanknodes holds of the blanknode
  asked,      \* asked[n]: ticks for which mWeAskedForBlanknodeListEntry holds
  cache,      \* cache[n]: both, as n's sncache.dat holds them
  knowsSpent, \* the nodes for which the collateral is spent
  net,        \* net[m][n]: the messages under way from m to n
  status,     \* activeBlanknode.status of the host, "DEAD" when it is down
  signed,     \* announcements the host has signed
  faults,     \* faults so far
  pinged,     \* the host has signed something in this tick
  silence     \* ticks since the host last signed anything, or a node last
              \*   started with an enabled entry it could not check

hostVars == <<status, signed, pinged, silence>>
vars == <<entry, asked, cache, knowsSpent, net, hostVars, faults>>

(* lastTimeSeen is 0: older than any age, and sent as 0. *)
Never == Removal + 1

SilenceCap == Expiration + MaxFaults + 1

(* An entry has the number of its announcement (reg), the ages of          *)
(* lastTimeSeen (seen) and of the last ping (ping), its activeState and    *)
(* nScanningErrorCount.  A message is an announcement "ssee" (new when     *)
(* count is -1), a ping "sseep" with its age, or a request "sseg".         *)

NoCache == [n \in Nodes |-> [entry |-> NoEntry, asked |-> 0]]

Init ==
  /\ entry = [n \in Nodes |-> NoEntry]
  /\ asked = [n \in Nodes |-> 0]
  /\ cache = NoCache
  /\ knowsSpent = {}
  /\ net = [m \in Nodes |-> [n \in Nodes |-> {}]]
  /\ status = "NOT_PROCESSED" /\ signed = 0 /\ pinged = FALSE /\ silence = 0
  /\ faults = 0

Up(n) == n # Host \/ status # "DEAD"

Running == status \in {"IS_CAPABLE", "REMOTELY_ENABLED"}

(* PushMessage to every peer; what is sent to a dead host is lost. *)
ToPeers(network, n, msg) ==
  [network EXCEPT ![n] = [p \in Nodes |->
     IF p \in Peers[n] /\ Up(p) THEN @[p] \cup {msg} ELSE @[p]]]

Send(network, n, p, msg) ==
  IF Up(p) THEN [network EXCEPT ![n][p] = @ \cup {msg}] ELSE network

(* CBlanknode::UpdatedWithin. *)
UpdatedWithin(e, ticks) == e.seen < ticks

(* The entry after CBlanknode::Check, where AcceptableInputs finds the      *)
(* collateral spent or not.                                                *)
(* Mutant: the collateral is not looked at again. *)
CheckedUnspent(e, spent) ==
  [e EXCEPT !.state =
     CASE e.errors >= ErrorThreshold    -> "POS_ERROR"
       [] ~ UpdatedWithin(e, Removal)    -> "REMOVE"
       [] ~ UpdatedWithin(e, Expiration) -> "EXPIRED"
       [] OTHER                          -> "ENABLED"]

Checked(e, spent) ==
  [e EXCEPT !.state =
     IF e.errors >= ErrorThreshold THEN "POS_ERROR"
     ELSE IF e.state = "VIN_SPENT" THEN "VIN_SPENT"
     ELSE IF ~ UpdatedWithin(e, Removal) THEN "REMOVE"
     ELSE IF ~ UpdatedWithin(e, Expiration) THEN "EXPIRED"
     ELSE IF spent THEN "VIN_SPENT" ELSE "ENABLED"]

(* Check gives up when cs_main is held by another thread. *)
Checks(e, n) == {e, Checked(e, n \in knowsSpent)}

Enabled(n) == entry[n] # NoEntry /\ entry[n].state = "ENABLED"

-----------------------------------------------------------------------------
(* Messages. *)

Receive(m, n, msg) == Up(n) /\ msg \in net[m][n]

Taken(m, n, msg) == [net EXCEPT ![m][n] = @ \ {msg}]

(* UpdateLastSeen(lastUpdated): 0 stands for now. *)
(* Mutant: a new entry was seen now. *)
SeenNow(msg) == 0

SeenThen(msg) == IF msg.seen = Never THEN 0 ELSE msg.seen

(* A new entry, passed on when it is a broadcast.  The host is activated   *)
(* by an entry that has its key.                                           *)
Add(n, msg, network) ==
  /\ entry' = [entry EXCEPT ![n] =
       [reg |-> msg.reg, seen |-> SeenThen(msg), ping |-> PingWindow,
        state |-> "ENABLED", errors |-> 0]]
  /\ status' = IF n = Host THEN "REMOTELY_ENABLED" ELSE status
  /\ net' = IF msg.new THEN ToPeers(network, n, msg) ELSE network

(* ssee for a blanknode that is not in the list. *)
SseeAdd(m, n) == \E msg \in net[m][n] :
  /\ Receive(m, n, msg) /\ msg.type = "ssee" /\ entry[n] = NoEntry
  /\ IF n \in knowsSpent
     THEN net' = Taken(m, n, msg) /\ UNCHANGED <<entry, status>>
     ELSE Add(n, msg, Taken(m, n, msg))
  /\ UNCHANGED <<cache, asked, knowsSpent, signed, pinged, silence, faults>>

(* ssee for a blanknode that is in the list: only a broadcast counts, and  *)
(* only after five minutes; a newer one replaces the entry and goes on.    *)
GoesOn(e, msg) == e.reg < msg.reg

SseeUpdate(m, n) == \E msg \in net[m][n] :
  /\ Receive(m, n, msg) /\ msg.type = "ssee" /\ entry[n] # NoEntry
  /\ \/ /\ ~ msg.new \/ UpdatedWithin(entry[n], MinSsee)
        /\ net' = Taken(m, n, msg) /\ UNCHANGED entry
     \/ /\ msg.new /\ ~ UpdatedWithin(entry[n], MinSsee)
        /\ IF GoesOn(entry[n], msg)
           THEN \E e \in Checks([entry[n] EXCEPT !.seen = 0, !.reg = msg.reg], n) :
                  /\ entry' = [entry EXCEPT ![n] = e]
                  /\ net' = IF e.state = "ENABLED"
                            THEN ToPeers(Taken(m, n, msg), n, msg)
                            ELSE Taken(m, n, msg)
           ELSE /\ entry' = [entry EXCEPT ![n].seen = 0]
                /\ net' = Taken(m, n, msg)
  /\ UNCHANGED <<cache, asked, knowsSpent, hostVars, faults>>

(* sseep for a blanknode that is in the list. *)
Accepted(msg) == msg.age < PingWindow

SseepKnown(m, n) == \E msg \in net[m][n] :
  /\ Receive(m, n, msg) /\ msg.type = "sseep" /\ entry[n] # NoEntry
  /\ LET e    == entry[n]
         rest == Taken(m, n, msg)
         heard == [e EXCEPT !.ping = msg.age]
     IN  \/ /\ ~ Accepted(msg) \/ e.ping <= msg.age
            /\ net' = rest /\ UNCHANGED entry
         \/ /\ Accepted(msg) /\ e.ping > msg.age
            /\ UpdatedWithin(e, MinSseep)
            /\ entry' = [entry EXCEPT ![n] = heard] /\ net' = rest
         \/ /\ Accepted(msg) /\ e.ping > msg.age
            /\ ~ UpdatedWithin(e, MinSseep) /\ msg.stop
            /\ entry' = [entry EXCEPT ![n] = [heard EXCEPT !.seen = Never]]
            /\ net' = ToPeers(rest, n, msg)
         \/ /\ Accepted(msg) /\ e.ping > msg.age
            /\ ~ UpdatedWithin(e, MinSseep) /\ ~ msg.stop
            /\ \E f \in Checks([heard EXCEPT !.seen = 0], n) :
                 /\ entry' = [entry EXCEPT ![n] = f]
                 /\ net' = IF f.state = "ENABLED" THEN ToPeers(rest, n, msg)
                           ELSE rest
  /\ UNCHANGED <<cache, asked, knowsSpent, hostVars, faults>>

(* sseep for a blanknode that is not: ask the sender for the entry, unless *)
(* it was asked for in the last half hour.                                 *)
(* Mutant: the entry is not asked for. *)
MayAskNever(n) == FALSE

MayAsk(n) == asked[n] = 0

SseepUnknown(m, n) == \E msg \in net[m][n] :
  /\ Receive(m, n, msg) /\ msg.type = "sseep" /\ entry[n] = NoEntry
  /\ IF Accepted(msg) /\ MayAsk(n)
     THEN /\ net' = Send(Taken(m, n, msg), n, m, [type |-> "sseg"])
          /\ asked' = [asked EXCEPT ![n] = MinSseep]
     ELSE net' = Taken(m, n, msg) /\ UNCHANGED asked
  /\ UNCHANGED <<cache, entry, knowsSpent, hostVars, faults>>

(* sseg: answer with an entry that is enabled. *)
Sseg(m, n) == \E msg \in net[m][n] :
  /\ Receive(m, n, msg) /\ msg.type = "sseg"
  /\ net' = IF Enabled(n)
            THEN Send(Taken(m, n, msg), n, m,
                      [type |-> "ssee", new |-> FALSE,
                       reg |-> entry[n].reg, seen |-> entry[n].seen])
            ELSE Taken(m, n, msg)
  /\ UNCHANGED <<cache, entry, asked, knowsSpent, hostVars, faults>>

Deliver(m, n) ==
  \/ SseeAdd(m, n) \/ SseeUpdate(m, n)
  \/ SseepKnown(m, n) \/ SseepUnknown(m, n) \/ Sseg(m, n)

-----------------------------------------------------------------------------
(* The list. *)

(* snodeman.CheckAndRemove, every minute.  ThreadCheckZeroSendPool holds   *)
(* cs_main, a recursive lock, around it, so Check always gets it.          *)
Removed(e) ==
  IF e # NoEntry /\ e.state \in {"REMOVE", "VIN_SPENT"} THEN NoEntry ELSE e

Swept(e, spent) == IF e = NoEntry THEN NoEntry ELSE Removed(Checked(e, spent))

CheckAndRemove(n) ==
  /\ Up(n) /\ entry' = [entry EXCEPT ![n] = Swept(@, n \in knowsSpent)]
  /\ UNCHANGED <<cache, asked, knowsSpent, net, hostVars, faults>>

(* A fault.  The files are of no more use when it is the last one. *)
Fault(files) ==
  /\ faults < MaxFaults /\ faults' = faults + 1
  /\ cache' = IF faults' = MaxFaults THEN NoCache ELSE files

(* ApplyScanningError. *)
ScanFailed(n) ==
  /\ Up(n) /\ entry[n] # NoEntry /\ Fault(cache)
  /\ entry' = [entry EXCEPT ![n].errors =
                 IF @ < 2 * ErrorThreshold THEN @ + 1 ELSE @]
  /\ UNCHANGED <<asked, knowsSpent, net, hostVars>>

ScanSucceeded(n) ==
  /\ Up(n) /\ entry[n] # NoEntry /\ entry[n].errors > 0
  /\ entry' = [entry EXCEPT ![n].errors = @ - 1]
  /\ UNCHANGED <<cache, asked, knowsSpent, net, hostVars, faults>>

(* A node connects or learns from its pool that the collateral is spent.   *)
LearnSpent(n) ==
  /\ Spendable /\ n \notin knowsSpent /\ signed > 0
  /\ knowsSpent' = knowsSpent \cup {n}
  /\ UNCHANGED <<cache, entry, asked, net, hostVars, faults>>

-----------------------------------------------------------------------------
(* The host. *)

(* CActiveBlanknode::Register: an entry that is there is left alone. *)
Register ==
  /\ signed < MaxSigned
  /\ signed' = signed + 1 /\ status' = "IS_CAPABLE"
  /\ pinged' = TRUE /\ silence' = 0
  /\ entry' = IF entry[Host] # NoEntry THEN entry
              ELSE [entry EXCEPT ![Host] =
                      [reg |-> signed + 1, seen |-> 0, ping |-> PingWindow,
                       state |-> "ENABLED", errors |-> 0]]
  /\ net' = ToPeers(net, Host, [type |-> "ssee", new |-> TRUE,
                                reg |-> signed + 1, seen |-> 0])

(* CActiveBlanknode::Sseep: without an entry of its own the host gives up  *)
(* and registers again the next time.                                      *)
Ping ==
  /\ signed' = signed
  /\ IF entry[Host] = NoEntry
     THEN status' = "NOT_CAPABLE" /\ UNCHANGED <<entry, net, pinged, silence>>
     ELSE /\ entry' = [entry EXCEPT ![Host].seen = 0]
          /\ net' = ToPeers(net, Host, [type |-> "sseep", age |-> 0, stop |-> FALSE])
          /\ pinged' = TRUE /\ silence' = 0
          /\ UNCHANGED status

(* CActiveBlanknode::ManageStatus, every minute. *)
ManageStatus ==
  /\ \/ /\ status \in {"NOT_PROCESSED", "NOT_CAPABLE"} /\ Host \notin knowsSpent
        /\ Register
     \/ /\ status \in {"NOT_PROCESSED", "NOT_CAPABLE"} /\ Host \in knowsSpent
        /\ status' = "NOT_CAPABLE"
        /\ UNCHANGED <<entry, net, signed, pinged, silence>>
     \/ Running /\ ~ pinged /\ Ping
  /\ UNCHANGED <<cache, asked, knowsSpent, faults>>

(* RPC "blanknode stop": remove the own entry, tell the peers.  Without an *)
(* own entry nobody is told.                                               *)
StopBlankNode ==
  /\ Running
  /\ IF entry[Host] = NoEntry
     THEN status' = "NOT_CAPABLE" /\ UNCHANGED <<entry, net, pinged, silence>>
     ELSE /\ status' = "STOPPED"
          /\ entry' = [entry EXCEPT ![Host] = NoEntry]
          /\ net' = ToPeers(net, Host, [type |-> "sseep", age |-> 0, stop |-> TRUE])
          /\ pinged' = TRUE /\ silence' = 0
  /\ UNCHANGED <<cache, asked, knowsSpent, signed, faults>>

(* RPC "blanknode start": ManageStatus as for a host that is new. *)
StartBlankNode ==
  /\ status = "STOPPED"
  /\ \/ Host \notin knowsSpent /\ Register
     \/ /\ Host \in knowsSpent /\ status' = "NOT_CAPABLE"
        /\ UNCHANGED <<entry, net, signed, pinged, silence>>
  /\ UNCHANGED <<cache, asked, knowsSpent, faults>>

-----------------------------------------------------------------------------
(* Faults and time. *)

HostDies ==
  /\ status # "DEAD"
  /\ status' = "DEAD"
  /\ entry' = [entry EXCEPT ![Host] = NoEntry]
  /\ net' = [m \in Nodes |-> [n \in Nodes |->
               IF Host \in {m, n} THEN {} ELSE net[m][n]]]
  /\ UNCHANGED <<cache, asked, knowsSpent, signed, pinged, silence, faults>>

(* DumpBlanknodes, every quarter of an hour and at a shutdown; what is     *)
(* written matters as long as a restart may come.                          *)
DumpBlanknodes(n) ==
  /\ n # Host /\ faults < MaxFaults
  /\ cache' = [cache EXCEPT ![n] = [entry |-> entry[n], asked |-> asked[n]]]
  /\ UNCHANGED <<entry, asked, knowsSpent, net, hostVars, faults>>

(* A node crashes or shuts down and starts again.  It asks a peer for its  *)
(* list; one that was asked before it stopped does not answer.             *)
Reconnect(n) ==
  LET cut == [a \in Nodes |-> [b \in Nodes |->
                IF n \in {a, b} THEN {} ELSE net[a][b]]]
  IN  \/ net' = cut
      \/ \E p \in Peers[n] : net' = Send(cut, n, p, [type |-> "sseg"])

(* It has the list of its sncache.dat, swept, or none when the file cannot *)
(* be read.  The memory pool starts empty: a spend in no block is unknown. *)
Restart(n) ==
  /\ n # Host /\ Fault(cache)
  /\ \E spent \in BOOLEAN :
       /\ spent => n \in knowsSpent
       /\ knowsSpent' = IF spent THEN knowsSpent ELSE knowsSpent \ {n}
       /\ \/ /\ entry' = [entry EXCEPT ![n] = Swept(cache[n].entry, spent)]
             /\ asked' = [asked EXCEPT ![n] = cache[n].asked]
          \/ /\ entry' = [entry EXCEPT ![n] = NoEntry]
             /\ asked' = [asked EXCEPT ![n] = 0]
  /\ Reconnect(n)
  /\ UNCHANGED hostVars

(* The same, while the import thread has cs_main: Check gives up, and the  *)
(* entry stays as it was dumped until the first sweep.                     *)
RestartUnchecked(n) ==
  /\ n # Host /\ Fault(cache)
  /\ knowsSpent' \in {knowsSpent, knowsSpent \ {n}}
  /\ entry' = [entry EXCEPT ![n] = Removed(cache[n].entry)]
  /\ asked' = [asked EXCEPT ![n] = cache[n].asked]
  /\ Reconnect(n)
  /\ silence' = IF Enabled(n)' THEN 0 ELSE silence
  /\ UNCHANGED <<status, signed, pinged>>

Older(age, cap) == IF age < cap THEN age + 1 ELSE age

OlderEntry(e) ==
  IF e = NoEntry THEN e
  ELSE [e EXCEPT !.seen = Older(@, Removal), !.ping = Older(@, PingWindow)]

OlderMessage(msg) ==
  CASE msg.type = "ssee"  -> [msg EXCEPT !.seen = Older(@, Removal)]
    [] msg.type = "sseep" -> [msg EXCEPT !.age = Older(@, PingWindow)]
    [] OTHER              -> msg

Shorter(wait) == IF wait > 0 THEN wait - 1 ELSE 0

Quiet == \A m, n \in Nodes : net[m][n] = {}

Tick ==
  /\ \A n \in Nodes : Up(n) => entry[n] = Swept(entry[n], n \in knowsSpent)
  /\ Running => pinged
  /\ status \in {"NOT_PROCESSED", "NOT_CAPABLE"} =>
       Host \in knowsSpent \/ signed = MaxSigned
  /\ LET files == [n \in Nodes |-> [entry |-> OlderEntry(cache[n].entry),
                                     asked |-> Shorter(cache[n].asked)]]
     IN  IF Quiet THEN cache' = files /\ UNCHANGED faults ELSE Fault(files)
  /\ entry' = [n \in Nodes |-> OlderEntry(entry[n])]
  /\ net' = [m \in Nodes |-> [n \in Nodes |-> {OlderMessage(x) : x \in net[m][n]}]]
  /\ asked' = [n \in Nodes |-> Shorter(asked[n])]
  /\ pinged' = FALSE /\ silence' = Older(silence, SilenceCap)
  /\ UNCHANGED <<knowsSpent, status, signed>>

Next ==
  \/ \E m, n \in Nodes : Deliver(m, n)
  \/ \E n \in Nodes :
       \/ CheckAndRemove(n) \/ ScanFailed(n) \/ ScanSucceeded(n)
       \/ LearnSpent(n) \/ DumpBlanknodes(n)
       \/ Restart(n) \/ RestartUnchecked(n)
  \/ ManageStatus \/ StopBlankNode \/ StartBlankNode \/ HostDies
  \/ Tick

Spec == Init /\ [][Next]_vars

(* Messages are delivered, the thread of every node runs, time passes. *)
Fairness ==
  /\ \A m, n \in Nodes : WF_vars(Deliver(m, n))
  /\ \A n \in Nodes : WF_vars(CheckAndRemove(n))
  /\ WF_vars(ManageStatus) /\ WF_vars(Tick)

FairSpec == Spec /\ Fairness

-----------------------------------------------------------------------------
(* Properties. *)

(* A blanknode that is silent, because it stopped, died or lost its        *)
(* collateral, is enabled in no list once the expiry time is over, and one *)
(* tick for each fault: no exchange of entries (sseg), no echo of an       *)
(* announcement and no stop ping that is read as "seen now" can keep it    *)
(* there.  A start whose Check did not get cs_main makes the time count    *)
(* anew when it brings back an enabled entry.                              *)
SilentIsNotEnabled ==
  silence = SilenceCap => \A n \in Nodes : ~ Enabled(n)

(* At a node that knows the collateral is spent, a blanknode that is not   *)
(* enabled is never enabled again, whatever pings, announcements, answers, *)
(* scanning results and files come in and whether a handler's Check gets   *)
(* the lock or not.  Only a start whose Check does not get it can bring it *)
(* back, until the first sweep.                                            *)
SpentStaysOut ==
  [][\A n \in knowsSpent :
       n \in knowsSpent' /\ ~ Enabled(n) => ~ Enabled(n)' \/ RestartUnchecked(n)]_vars

(* The scanning errors of the blanknode are counted at n. *)
Suspect(n) == entry[n] # NoEntry /\ entry[n].errors > 0

(* A blanknode that keeps running is enabled again and again in every      *)
(* list, also in the one of a node that does not hear it directly, that    *)
(* has restarted without a list or missed the announcement -- as long as   *)
(* nobody has scanned it in vain and its collateral is unspent.            *)
AliveIsListed ==
  (<>[]Running /\ [](knowsSpent = {} /\ \A n \in Nodes : ~ Suspect(n)))
    => \A n \in Nodes : []<>Enabled(n)
=============================================================================
