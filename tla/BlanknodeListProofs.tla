-------------------------- MODULE BlanknodeListProofs --------------------------
(***************************************************************************)
(* Proofs about BlanknodeList, for any network of nodes, any times in the  *)
(* order the code gives them, and any number of late messages: a blanknode *)
(* that falls silent leaves every list, and one whose collateral is spent  *)
(* does not come back.                                                     *)
(***************************************************************************)
EXTENDS BlanknodeList, TLAPS

States == {"ENABLED", "EXPIRED", "REMOVE", "VIN_SPENT", "POS_ERROR"}

Entry == [reg : Nat, seen : Nat, ping : Nat, state : States, errors : Nat]

Ssee  == [type : {"ssee"}, new : BOOLEAN, reg : Nat, seen : Nat]
Sseep == [type : {"sseep"}, age : Nat, stop : BOOLEAN]
SsegMessage == [type |-> "sseg"]
Message == Ssee \cup Sseep \cup {SsegMessage}

MaybeEntry == Entry \cup {NoEntry}
Network == [Nodes -> [Nodes -> SUBSET Message]]

ListTypes ==
  /\ entry \in [Nodes -> MaybeEntry]
  /\ asked \in [Nodes -> Nat]
  /\ cache \in [Nodes -> [entry : MaybeEntry, asked : Nat]]
  /\ net \in Network
  /\ signed \in Nat /\ silence \in Nat /\ faults \in 0..MaxFaults

(* An age is at least as long as the host has been silent, less one tick   *)
(* for each message that was late, or too long to be counted.              *)
Late(age, quiet, delays) == quiet - delays <= age \/ Removal <= age

(* What is under way from the host itself, and an age that will be read as *)
(* "now", is no older than the delays; an announcement of any kind comes   *)
(* from a node where the host was enabled when it was sent.                *)
MessageInv(msg, quiet, delays) ==
  /\ msg.type = "sseep" => quiet <= delays
  /\ msg.type = "ssee" =>
       /\ msg.new \/ msg.seen = Never => quiet <= delays
       /\ Late(msg.seen, quiet, delays)
       /\ quiet <= delays + Expiration

EntryInv(e, quiet, delays) ==
  e # NoEntry =>
    /\ Late(e.seen, quiet, delays)
    /\ e.state = "ENABLED" => quiet <= delays + Expiration
    /\ e.state = "ENABLED" /\ e.seen = Never => quiet <= delays

CachedInv(e, quiet, delays) == e # NoEntry => Late(e.seen, quiet, delays)

NetInv(network, quiet, delays) ==
  \A m, n \in Nodes : \A msg \in network[m][n] : MessageInv(msg, quiet, delays)

EntriesInv(entries, quiet, delays) ==
  \A n \in Nodes : EntryInv(entries[n], quiet, delays)

FilesInv(files, quiet, delays) ==
  \A n \in Nodes : CachedInv(files[n].entry, quiet, delays)

SilenceInv ==
  /\ NetInv(net, silence, faults)
  /\ EntriesInv(entry, silence, faults)
  /\ FilesInv(cache, silence, faults)
  /\ status = "DEAD" => entry[Host] = NoEntry

(* The inductive invariant. *)
ListInv == ListTypes /\ SilenceInv

-----------------------------------------------------------------------------
(* Entries. *)

(* Nothing is required of a blanknode that was heard as lately as the      *)
(* delays allow.                                                           *)
LEMMA FreshEntry ==
  ASSUME NEW e \in Entry, NEW q \in Nat, NEW d \in Nat, q <= d
  PROVE  EntryInv(e, q, d)
<1>1. e.seen \in Nat
  BY DEF Entry
<1>2. q - d <= e.seen /\ q <= d + Expiration
  BY <1>1, Assumptions
<1> QED
  BY <1>2 DEF EntryInv, Late

(* What Check makes of an entry. *)
LEMMA CheckedEntry ==
  ASSUME NEW e \in Entry, NEW spent
  PROVE  /\ Checked(e, spent) \in Entry
         /\ Checked(e, spent).seen = e.seen
         /\ Checked(e, spent).state = "ENABLED" => e.seen < Expiration /\ ~ spent
<1> DEFINE s == IF e.errors >= ErrorThreshold THEN "POS_ERROR"
     ELSE IF e.state = "VIN_SPENT" THEN "VIN_SPENT"
     ELSE IF ~ UpdatedWithin(e, Removal) THEN "REMOVE"
     ELSE IF ~ UpdatedWithin(e, Expiration) THEN "EXPIRED"
     ELSE IF spent THEN "VIN_SPENT" ELSE "ENABLED"
<1>1. s \in States /\ (s = "ENABLED" => UpdatedWithin(e, Expiration) /\ ~ spent)
  BY DEF States
<1>2. Checked(e, spent) = [e EXCEPT !.state = s]
  BY DEF Checked
<1> HIDE DEF s
<1>3. /\ Checked(e, spent) \in Entry /\ Checked(e, spent).seen = e.seen
      /\ Checked(e, spent).state = s
  BY <1>1, <1>2 DEF Entry
<1> QED
  BY <1>1, <1>3 DEF UpdatedWithin

LEMMA CheckedKeeps ==
  ASSUME NEW e \in Entry, NEW spent, NEW q \in Nat, NEW d \in Nat, Late(e.seen, q, d)
  PROVE  EntryInv(Checked(e, spent), q, d)
<1>1. e.seen \in Nat
  BY DEF Entry
<1>2. e.seen < Expiration => q <= d + Expiration /\ e.seen # Never
  BY <1>1, Assumptions DEF Late, Never
<1> QED
  BY <1>2, CheckedEntry DEF EntryInv

LEMMA SweptKeeps ==
  ASSUME NEW e \in MaybeEntry, NEW spent, NEW q \in Nat, NEW d \in Nat, CachedInv(e, q, d)
  PROVE  Swept(e, spent) \in MaybeEntry /\ EntryInv(Swept(e, spent), q, d)
<1>1. CASE Swept(e, spent) = NoEntry
  BY <1>1 DEF MaybeEntry, EntryInv
<1>2. CASE Swept(e, spent) # NoEntry
  <2>1. e \in Entry /\ e # NoEntry /\ Swept(e, spent) = Checked(e, spent)
    BY <1>2 DEF Swept, Removed, MaybeEntry
  <2> QED
    BY <2>1, CheckedEntry, CheckedKeeps DEF MaybeEntry, CachedInv
<1> QED
  BY <1>1, <1>2

(* An entry that is enabled after a sweep was heard before its expiry, and *)
(* its collateral is not known to be spent.                                *)
LEMMA SweptEnabled ==
  ASSUME NEW e \in MaybeEntry, NEW spent, Swept(e, spent) # NoEntry,
         Swept(e, spent).state = "ENABLED"
  PROVE  /\ e \in Entry /\ Swept(e, spent).seen = e.seen
         /\ e.seen < Expiration /\ ~ spent
<1>1. e \in Entry /\ Swept(e, spent) = Checked(e, spent)
  BY DEF Swept, Removed, MaybeEntry
<1> QED
  BY <1>1, CheckedEntry

LEMMA EntryIsCached ==
  ASSUME NEW e, NEW q, NEW d, EntryInv(e, q, d)
  PROVE  CachedInv(e, q, d)
  BY DEF EntryInv, CachedInv

(* More faults only weaken what is required. *)
LEMMA MoreDelays ==
  ASSUME NEW q \in Nat, NEW d \in Nat, ListTypes
  PROVE  /\ NetInv(net, q, d) => NetInv(net, q, d + 1)
         /\ EntriesInv(entry, q, d) => EntriesInv(entry, q, d + 1)
         /\ FilesInv(cache, q, d) => FilesInv(cache, q, d + 1)
<1>1. \A a \in Nat : Late(a, q, d) => Late(a, q, d + 1)
  BY Assumptions DEF Late
<1>2. q <= d => q <= d + 1
  OBVIOUS
<1>3. q <= d + Expiration => q <= (d + 1) + Expiration
  BY Assumptions
<1>4. \A msg \in Message : MessageInv(msg, q, d) => MessageInv(msg, q, d + 1)
  <2> SUFFICES ASSUME NEW msg \in Message, MessageInv(msg, q, d)
               PROVE  MessageInv(msg, q, d + 1)
    OBVIOUS
  <2>1. msg.type = "ssee" => msg.seen \in Nat
    BY DEF Message, Ssee, Sseep, SsegMessage
  <2> QED
    BY <1>1, <1>2, <1>3, <2>1, Zenon DEF MessageInv
<1>5. \A e \in MaybeEntry : /\ EntryInv(e, q, d) => EntryInv(e, q, d + 1)
                            /\ CachedInv(e, q, d) => CachedInv(e, q, d + 1)
  <2> SUFFICES ASSUME NEW e \in MaybeEntry
               PROVE  /\ EntryInv(e, q, d) => EntryInv(e, q, d + 1)
                      /\ CachedInv(e, q, d) => CachedInv(e, q, d + 1)
    OBVIOUS
  <2>1. e # NoEntry => e.seen \in Nat
    BY DEF MaybeEntry, Entry
  <2> QED
    BY <1>1, <1>2, <1>3, <2>1, Zenon DEF EntryInv, CachedInv
<1>6. ASSUME NEW m \in Nodes, NEW n \in Nodes
      PROVE  net[m][n] \subseteq Message
  BY DEF ListTypes, Network
<1>7. ASSUME NEW n \in Nodes
      PROVE  entry[n] \in MaybeEntry /\ cache[n].entry \in MaybeEntry
  BY DEF ListTypes
<1> QED
  BY <1>4, <1>5, <1>6, <1>7 DEF NetInv, EntriesInv, FilesInv

-----------------------------------------------------------------------------
(* Messages. *)

LEMMA FreshMessage ==
  ASSUME NEW msg \in Message, NEW q \in Nat, NEW d \in Nat, q <= d
  PROVE  MessageInv(msg, q, d)
<1>1. msg.type = "ssee" => msg.seen \in Nat
  BY DEF Message, Ssee, Sseep, SsegMessage
<1>2. msg.type = "ssee" => q - d <= msg.seen /\ q <= d + Expiration
  BY <1>1, Assumptions
<1> QED
  BY <1>2 DEF MessageInv, Late

(* Taking a message, sending one, sending one to every peer. *)
LEMMA TakenKeeps ==
  ASSUME ListTypes, NEW q, NEW d, NetInv(net, q, d),
         NEW m \in Nodes, NEW n \in Nodes, NEW msg
  PROVE  Taken(m, n, msg) \in Network /\ NetInv(Taken(m, n, msg), q, d)
<1>1. Taken(m, n, msg) \in Network
  BY DEF Taken, ListTypes, Network
<1>2. \A a, b \in Nodes : Taken(m, n, msg)[a][b] \subseteq net[a][b]
  BY DEF Taken, ListTypes, Network
<1> QED
  BY <1>1, <1>2 DEF NetInv

LEMMA SendKeeps ==
  ASSUME NEW network \in Network, NEW q, NEW d, NetInv(network, q, d),
         NEW n \in Nodes, NEW p \in Nodes, NEW msg \in Message, MessageInv(msg, q, d)
  PROVE  Send(network, n, p, msg) \in Network /\ NetInv(Send(network, n, p, msg), q, d)
<1>1. Send(network, n, p, msg) \in Network
  BY DEF Send, Network
<1>2. \A a, b \in Nodes : Send(network, n, p, msg)[a][b] \subseteq network[a][b] \cup {msg}
  BY DEF Send, Network
<1> QED
  BY <1>1, <1>2 DEF NetInv

LEMMA ToPeersKeeps ==
  ASSUME NEW network \in Network, NEW q, NEW d, NetInv(network, q, d),
         NEW n \in Nodes, NEW msg \in Message, MessageInv(msg, q, d)
  PROVE  ToPeers(network, n, msg) \in Network /\ NetInv(ToPeers(network, n, msg), q, d)
<1>1. ToPeers(network, n, msg) \in Network
  BY DEF ToPeers, Network
<1>2. \A a, b \in Nodes : ToPeers(network, n, msg)[a][b] \subseteq network[a][b] \cup {msg}
  BY DEF ToPeers, Network
<1> QED
  BY <1>1, <1>2 DEF NetInv

-----------------------------------------------------------------------------
(* Every action. *)

LEMMA InitList == Init => ListInv
  BY Assumptions DEF Init, ListInv, ListTypes, MaybeEntry, Network, NoCache,
     SilenceInv, NetInv, EntriesInv, FilesInv, EntryInv, CachedInv

(* An action that leaves the clocks and the files alone has to answer for  *)
(* the entries, for the messages and for a dead host.                      *)
LEMMA SameSilence ==
  ASSUME ListInv, silence' = silence, faults' = faults, cache' = cache,
         asked' \in [Nodes -> Nat], signed' \in Nat,
         entry' \in [Nodes -> MaybeEntry], EntriesInv(entry', silence, faults),
         net' \in Network, NetInv(net', silence, faults),
         status' = "DEAD" => entry'[Host] = NoEntry
  PROVE  ListInv'
  BY DEF ListInv, ListTypes, SilenceInv

LEMMA EntryReplaced ==
  ASSUME ListTypes, NEW q, NEW d, EntriesInv(entry, q, d),
         NEW n \in Nodes, NEW e \in MaybeEntry, EntryInv(e, q, d)
  PROVE  /\ [entry EXCEPT ![n] = e] \in [Nodes -> MaybeEntry]
         /\ EntriesInv([entry EXCEPT ![n] = e], q, d)
  BY DEF ListTypes, EntriesInv

(* An announcement for a blanknode that is not listed. *)
LEMMA SseeAddStep ==
  ASSUME ListInv, NEW m \in Nodes, NEW n \in Nodes, SseeAdd(m, n)
  PROVE  ListInv'
<1>1. PICK msg \in net[m][n] :
        /\ Receive(m, n, msg) /\ msg.type = "ssee" /\ entry[n] = NoEntry
        /\ IF n \in knowsSpent
           THEN net' = Taken(m, n, msg) /\ UNCHANGED <<entry, status>>
           ELSE Add(n, msg, Taken(m, n, msg))
        /\ UNCHANGED <<cache, asked, knowsSpent, signed, silence, faults>>
  BY DEF SseeAdd
<1>2. /\ ListTypes /\ silence \in Nat /\ faults \in Nat /\ msg \in Ssee /\ msg \in Message
      /\ NetInv(net, silence, faults) /\ EntriesInv(entry, silence, faults)
      /\ MessageInv(msg, silence, faults)
      /\ status = "DEAD" => entry[Host] = NoEntry
  BY <1>1, Assumptions DEF ListInv, ListTypes, SilenceInv, NetInv, Network, Message, Sseep, SsegMessage
<1>3. Taken(m, n, msg) \in Network /\ NetInv(Taken(m, n, msg), silence, faults)
  BY <1>2, TakenKeeps
<1>4. CASE n \in knowsSpent
  BY <1>1, <1>2, <1>3, <1>4, SameSilence DEF ListTypes
<1>5. CASE n \notin knowsSpent
  <2> DEFINE e == [reg |-> msg.reg, seen |-> SeenThen(msg), ping |-> PingWindow,
                   state |-> "ENABLED", errors |-> 0]
  <2>1. /\ entry' = [entry EXCEPT ![n] = e]
        /\ status' = IF n = Host THEN "REMOTELY_ENABLED" ELSE status
        /\ net' = IF msg.new THEN ToPeers(Taken(m, n, msg), n, msg) ELSE Taken(m, n, msg)
    BY <1>1, <1>5 DEF Add
  <2>2. msg.reg \in Nat /\ msg.seen \in Nat
    BY <1>2 DEF Ssee
  <2>3. e \in Entry
    BY <2>2, Assumptions DEF Entry, States, SeenThen
  <2>4. EntryInv(e, silence, faults)
    <3>1. e.seen = SeenThen(msg) /\ e.state = "ENABLED"
      OBVIOUS
    <3>2. Late(SeenThen(msg), silence, faults)
      BY <1>1, <1>2, <2>2 DEF MessageInv, Late, SeenThen
    <3>3. silence <= faults + Expiration /\ SeenThen(msg) # Never
      BY <1>1, <1>2, <2>2, Assumptions DEF MessageInv, SeenThen, Never
    <3> QED
      BY <3>1, <3>2, <3>3 DEF EntryInv
  <2> HIDE DEF e
  <2>5. net' \in Network /\ NetInv(net', silence, faults)
    BY <1>2, <1>3, <2>1, ToPeersKeeps
  <2>6. entry' \in [Nodes -> MaybeEntry] /\ EntriesInv(entry', silence, faults)
    BY <1>2, <2>1, <2>3, <2>4, EntryReplaced DEF MaybeEntry
  <2>7. status' = "DEAD" => entry'[Host] = NoEntry
    BY <1>2, <2>1, Assumptions DEF ListTypes
  <2> QED
    BY <1>1, <1>2, <2>5, <2>6, <2>7, SameSilence DEF ListTypes
<1> QED
  BY <1>4, <1>5

(* What is heard from the host, directly or passed on, was sent no longer  *)
(* ago than the delays: whatever a node makes of it is in order.           *)
LEMMA HeardStep ==
  ASSUME ListInv, NEW m \in Nodes, NEW n \in Nodes, NEW msg \in net[m][n],
         Receive(m, n, msg), silence <= faults,
         NEW e \in MaybeEntry, entry' = [entry EXCEPT ![n] = e],
         \/ net' = Taken(m, n, msg)
         \/ net' = ToPeers(Taken(m, n, msg), n, msg),
         UNCHANGED <<cache, asked, knowsSpent, hostVars, faults>>
  PROVE  ListInv'
<1>1. /\ ListTypes /\ silence \in Nat /\ faults \in Nat /\ msg \in Message
      /\ NetInv(net, silence, faults) /\ EntriesInv(entry, silence, faults)
      /\ status = "DEAD" => entry[Host] = NoEntry
  BY Assumptions DEF ListInv, ListTypes, SilenceInv, Network
<1>2. Taken(m, n, msg) \in Network /\ NetInv(Taken(m, n, msg), silence, faults)
  BY <1>1, TakenKeeps
<1>3. net' \in Network /\ NetInv(net', silence, faults)
  BY <1>1, <1>2, ToPeersKeeps, FreshMessage
<1>4. EntryInv(e, silence, faults)
  BY <1>1, FreshEntry DEF MaybeEntry, EntryInv
<1>5. entry' \in [Nodes -> MaybeEntry] /\ EntriesInv(entry', silence, faults)
  BY <1>1, <1>4, EntryReplaced
<1>6. status' = "DEAD" => entry'[Host] = NoEntry
  BY <1>1, Assumptions DEF ListTypes, Receive, Up, hostVars
<1> QED
  BY <1>1, <1>3, <1>5, <1>6, SameSilence DEF ListTypes, hostVars

(* A message that is dropped. *)
LEMMA DroppedStep ==
  ASSUME ListInv, NEW m \in Nodes, NEW n \in Nodes, NEW msg,
         net' = Taken(m, n, msg),
         UNCHANGED <<entry, cache, asked, knowsSpent, hostVars, faults>>
  PROVE  ListInv'
<1>1. ListTypes /\ NetInv(net, silence, faults)
  BY DEF ListInv, SilenceInv
<1>2. Taken(m, n, msg) \in Network /\ NetInv(Taken(m, n, msg), silence, faults)
  BY <1>1, TakenKeeps
<1> QED
  BY <1>1, <1>2, SameSilence DEF ListInv, ListTypes, SilenceInv, hostVars

LEMMA SseeUpdateStep ==
  ASSUME ListInv, NEW m \in Nodes, NEW n \in Nodes, SseeUpdate(m, n)
  PROVE  ListInv'
<1>1. PICK msg \in net[m][n] :
        /\ Receive(m, n, msg) /\ msg.type = "ssee" /\ entry[n] # NoEntry
        /\ \/ /\ ~ msg.new \/ UpdatedWithin(entry[n], MinSsee)
              /\ net' = Taken(m, n, msg) /\ UNCHANGED entry
           \/ /\ msg.new /\ ~ UpdatedWithin(entry[n], MinSsee)
              /\ IF GoesOn(entry[n], msg)
                 THEN \E e \in Checks([entry[n] EXCEPT !.seen = 0, !.reg = msg.reg], n) :
                        /\ entry' = [entry EXCEPT ![n] = e]
                        /\ net' = IF e.state = "ENABLED"
                                  THEN ToPeers(Taken(m, n, msg), n, msg)
                                  ELSE Taken(m, n, msg)
                 ELSE /\ entry' = [entry EXCEPT ![n].seen = 0]
                      /\ net' = Taken(m, n, msg)
  BY DEF SseeUpdate
<1>2. UNCHANGED <<cache, asked, knowsSpent, hostVars, faults>>
  BY DEF SseeUpdate
<1>3. /\ entry[n] \in Entry /\ entry \in [Nodes -> MaybeEntry]
      /\ msg \in Ssee /\ MessageInv(msg, silence, faults)
  BY <1>1 DEF ListInv, ListTypes, MaybeEntry, SilenceInv, NetInv, Network, Message, Sseep, SsegMessage
<1>4. CASE net' = Taken(m, n, msg) /\ UNCHANGED entry
  BY <1>2, <1>4, DroppedStep
<1>5. CASE msg.new /\ GoesOn(entry[n], msg) /\
        \E e \in Checks([entry[n] EXCEPT !.seen = 0, !.reg = msg.reg], n) :
              /\ entry' = [entry EXCEPT ![n] = e]
              /\ net' = IF e.state = "ENABLED"
                        THEN ToPeers(Taken(m, n, msg), n, msg)
                        ELSE Taken(m, n, msg)
  <2> DEFINE f == [entry[n] EXCEPT !.seen = 0, !.reg = msg.reg]
  <2>1. PICK e \in Checks(f, n) :
              /\ entry' = [entry EXCEPT ![n] = e]
              /\ net' = IF e.state = "ENABLED"
                        THEN ToPeers(Taken(m, n, msg), n, msg)
                        ELSE Taken(m, n, msg)
    BY <1>5
  <2>2. f \in Entry
    BY <1>3 DEF Entry, Ssee
  <2> HIDE DEF f
  <2>3. e \in MaybeEntry
    BY <2>1, <2>2, CheckedEntry DEF Checks, MaybeEntry
  <2>4. silence <= faults
    BY <1>1, <1>3, <1>5 DEF MessageInv
  <2>5. net' = Taken(m, n, msg) \/ net' = ToPeers(Taken(m, n, msg), n, msg)
    BY <2>1
  <2> QED
    BY <1>1, <1>2, <2>1, <2>3, <2>4, <2>5, HeardStep
<1>6. CASE /\ msg.new
           /\ entry' = [entry EXCEPT ![n].seen = 0] /\ net' = Taken(m, n, msg)
  <2> DEFINE e == [entry[n] EXCEPT !.seen = 0]
  <2>1. e \in MaybeEntry /\ entry' = [entry EXCEPT ![n] = e]
    BY <1>3, <1>6 DEF Entry, MaybeEntry
  <2> HIDE DEF e
  <2>2. silence <= faults
    BY <1>1, <1>3, <1>6 DEF MessageInv
  <2> QED
    BY <1>1, <1>2, <1>6, <2>1, <2>2, HeardStep
<1> QED
  BY <1>1, <1>4, <1>5, <1>6

LEMMA SseepKnownStep ==
  ASSUME ListInv, NEW m \in Nodes, NEW n \in Nodes, SseepKnown(m, n)
  PROVE  ListInv'
<1>1. PICK msg \in net[m][n] :
        /\ Receive(m, n, msg) /\ msg.type = "sseep" /\ entry[n] # NoEntry
        /\ LET e    == entry[n]
               rest == Taken(m, n, msg)
               heard == [e EXCEPT !.ping = msg.age]
           IN  \/ net' = rest /\ UNCHANGED entry
               \/ entry' = [entry EXCEPT ![n] = heard] /\ net' = rest
               \/ /\ entry' = [entry EXCEPT ![n] = [heard EXCEPT !.seen = Never]]
                  /\ net' = ToPeers(rest, n, msg)
               \/ \E f \in Checks([heard EXCEPT !.seen = 0], n) :
                    /\ entry' = [entry EXCEPT ![n] = f]
                    /\ net' = IF f.state = "ENABLED" THEN ToPeers(rest, n, msg)
                              ELSE rest
  BY DEF SseepKnown
<1>2. UNCHANGED <<cache, asked, knowsSpent, hostVars, faults>>
  BY DEF SseepKnown
<1>3. /\ entry[n] \in Entry /\ entry \in [Nodes -> MaybeEntry]
      /\ msg \in Sseep /\ MessageInv(msg, silence, faults)
  BY <1>1 DEF ListInv, ListTypes, MaybeEntry, SilenceInv, NetInv, Network, Message, Ssee, SsegMessage
<1>4. silence <= faults
  BY <1>1, <1>3 DEF MessageInv
<1> DEFINE heard == [entry[n] EXCEPT !.ping = msg.age]
           rest  == Taken(m, n, msg)
           gone  == [heard EXCEPT !.seen = Never]
           now   == [heard EXCEPT !.seen = 0]
<1>5. heard \in Entry /\ gone \in Entry /\ now \in Entry
  <2>1. heard \in Entry
    BY <1>3 DEF Entry, Sseep
  <2>2. Never \in Nat
    BY Assumptions DEF Never
  <2> HIDE DEF heard
  <2> QED
    BY <2>1, <2>2 DEF Entry
<1>6. \/ net' = rest /\ UNCHANGED entry
      \/ entry' = [entry EXCEPT ![n] = heard] /\ net' = rest
      \/ entry' = [entry EXCEPT ![n] = gone] /\ net' = ToPeers(rest, n, msg)
      \/ \E f \in Checks(now, n) :
           /\ entry' = [entry EXCEPT ![n] = f]
           /\ net' = IF f.state = "ENABLED" THEN ToPeers(rest, n, msg) ELSE rest
  BY <1>1
<1> HIDE DEF heard, gone, now
<1>7. CASE net' = rest /\ UNCHANGED entry
  BY <1>2, <1>7, DroppedStep
<1>8. CASE entry' = [entry EXCEPT ![n] = heard] /\ net' = rest
  BY <1>1, <1>2, <1>4, <1>5, <1>8, HeardStep DEF MaybeEntry
<1>9. CASE entry' = [entry EXCEPT ![n] = gone] /\ net' = ToPeers(rest, n, msg)
  BY <1>1, <1>2, <1>4, <1>5, <1>9, HeardStep DEF MaybeEntry
<1>10. CASE \E f \in Checks(now, n) :
           /\ entry' = [entry EXCEPT ![n] = f]
           /\ net' = IF f.state = "ENABLED" THEN ToPeers(rest, n, msg) ELSE rest
  <2>1. PICK f \in Checks(now, n) :
           /\ entry' = [entry EXCEPT ![n] = f]
           /\ net' = IF f.state = "ENABLED" THEN ToPeers(rest, n, msg) ELSE rest
    BY <1>10
  <2>2. f \in MaybeEntry
    BY <1>5, <2>1, CheckedEntry DEF Checks, MaybeEntry
  <2>3. net' = rest \/ net' = ToPeers(rest, n, msg)
    BY <2>1
  <2> QED
    BY <1>1, <1>2, <1>4, <2>1, <2>2, <2>3, HeardStep
<1> QED
  BY <1>6, <1>7, <1>8, <1>9, <1>10

LEMMA SseepUnknownStep ==
  ASSUME ListInv, NEW m \in Nodes, NEW n \in Nodes, SseepUnknown(m, n)
  PROVE  ListInv'
<1>1. PICK msg \in net[m][n] :
        \/ net' = Send(Taken(m, n, msg), n, m, SsegMessage) /\ asked' = [asked EXCEPT ![n] = MinSseep]
        \/ net' = Taken(m, n, msg) /\ UNCHANGED asked
  BY DEF SseepUnknown, SsegMessage
<1>2. UNCHANGED <<cache, entry, knowsSpent, hostVars, faults>>
  BY DEF SseepUnknown
<1>3. ListTypes /\ NetInv(net, silence, faults)
  BY DEF ListInv, SilenceInv
<1>4. Taken(m, n, msg) \in Network /\ NetInv(Taken(m, n, msg), silence, faults)
  BY <1>3, TakenKeeps
<1>5. SsegMessage \in Message /\ MessageInv(SsegMessage, silence, faults)
  BY DEF Message, SsegMessage, MessageInv
<1>6. net' \in Network /\ NetInv(net', silence, faults)
  BY <1>1, <1>4, <1>5, SendKeeps
<1>7. asked' \in [Nodes -> Nat]
  BY <1>1, <1>3, Assumptions DEF ListTypes
<1> QED
  BY <1>2, <1>6, <1>7, SameSilence DEF ListInv, ListTypes, SilenceInv, hostVars

(* The answer to a request says of the host what the node's entry says. *)
LEMMA SsegStep ==
  ASSUME ListInv, NEW m \in Nodes, NEW n \in Nodes, Sseg(m, n)
  PROVE  ListInv'
<1> DEFINE answer == [type |-> "ssee", new |-> FALSE,
                      reg |-> entry[n].reg, seen |-> entry[n].seen]
<1>1. PICK msg \in net[m][n] :
        net' = IF Enabled(n) THEN Send(Taken(m, n, msg), n, m, answer)
               ELSE Taken(m, n, msg)
  BY DEF Sseg
<1>2. UNCHANGED <<cache, entry, asked, knowsSpent, hostVars, faults>>
  BY DEF Sseg
<1>3. ListTypes /\ NetInv(net, silence, faults) /\ EntriesInv(entry, silence, faults)
  BY DEF ListInv, SilenceInv
<1>4. Taken(m, n, msg) \in Network /\ NetInv(Taken(m, n, msg), silence, faults)
  BY <1>3, TakenKeeps
<1>5. Enabled(n) => answer \in Message
  BY <1>3 DEF Enabled, ListTypes, MaybeEntry, Entry, Message, Ssee
<1>6. Enabled(n) => MessageInv(answer, silence, faults)
  BY <1>3 DEF Enabled, EntriesInv, EntryInv, MessageInv
<1> HIDE DEF answer
<1>7. net' \in Network /\ NetInv(net', silence, faults)
  BY <1>1, <1>4, <1>5, <1>6, SendKeeps
<1> QED
  BY <1>2, <1>7, SameSilence DEF ListInv, ListTypes, SilenceInv, hostVars

LEMMA DeliverStep ==
  ASSUME ListInv, NEW m \in Nodes, NEW n \in Nodes, Deliver(m, n)
  PROVE  ListInv'
  BY SseeAddStep, SseeUpdateStep, SseepKnownStep, SseepUnknownStep, SsegStep DEF Deliver

LEMMA CheckAndRemoveStep ==
  ASSUME ListInv, NEW n \in Nodes, CheckAndRemove(n)
  PROVE  ListInv'
<1> DEFINE e == Swept(entry[n], n \in knowsSpent)
<1>1. /\ ListTypes /\ EntriesInv(entry, silence, faults) /\ entry[n] \in MaybeEntry
      /\ CachedInv(entry[n], silence, faults) /\ silence \in Nat /\ faults \in Nat
  BY Assumptions, EntryIsCached DEF ListInv, ListTypes, SilenceInv, EntriesInv
<1>2. e \in MaybeEntry /\ EntryInv(e, silence, faults)
  BY <1>1, SweptKeeps
<1>3. entry' = [entry EXCEPT ![n] = e] /\ Up(n)
  BY <1>1 DEF CheckAndRemove, ListTypes
<1>4. UNCHANGED <<cache, asked, knowsSpent, net, hostVars, faults>>
  BY DEF CheckAndRemove
<1> HIDE DEF e
<1>5. entry' \in [Nodes -> MaybeEntry] /\ EntriesInv(entry', silence, faults)
  BY <1>1, <1>2, <1>3, EntryReplaced
<1>6. status' = "DEAD" => entry'[Host] = NoEntry
  BY <1>1, <1>3, <1>4, Assumptions DEF ListInv, SilenceInv, ListTypes, Up, hostVars
<1> QED
  BY <1>4, <1>5, <1>6, SameSilence DEF ListInv, ListTypes, SilenceInv, hostVars

(* A fault. *)
LEMMA FaultCounts ==
  ASSUME ListTypes, NEW files \in [Nodes -> [entry : MaybeEntry, asked : Nat]],
         Fault(files), NEW q, FilesInv(files, q, faults + 1)
  PROVE  /\ faults' = faults + 1 /\ faults' \in 0..MaxFaults
         /\ cache' \in [Nodes -> [entry : MaybeEntry, asked : Nat]]
         /\ FilesInv(cache', q, faults')
<1>1. /\ NoCache \in [Nodes -> [entry : MaybeEntry, asked : Nat]]
      /\ FilesInv(NoCache, q, faults + 1)
  BY DEF NoCache, MaybeEntry, FilesInv, CachedInv
<1>2. faults' = faults + 1 /\ faults' \in 0..MaxFaults
  BY Assumptions DEF Fault, ListTypes
<1>3. cache' = NoCache \/ cache' = files
  BY DEF Fault
<1> QED
  BY <1>1, <1>2, <1>3

(* The scanning errors of an entry say nothing about when it was seen. *)
LEMMA OtherErrors ==
  ASSUME NEW e \in Entry, NEW k \in Nat, NEW q, NEW d, EntryInv(e, q, d), e # NoEntry
  PROVE  /\ [e EXCEPT !.errors = k] \in Entry
         /\ EntryInv([e EXCEPT !.errors = k], q, d)
<1> DEFINE f == [e EXCEPT !.errors = k]
<1>1. f \in Entry /\ f.seen = e.seen /\ f.state = e.state
  BY DEF Entry
<1> HIDE DEF f
<1>2. EntryInv(f, q, d)
  BY <1>1, Zenon DEF EntryInv
<1> QED
  BY <1>1, <1>2 DEF f

LEMMA ScanFailedStep ==
  ASSUME ListInv, NEW n \in Nodes, ScanFailed(n)
  PROVE  ListInv'
<1> DEFINE old == entry[n].errors
           k == IF old < 2 * ErrorThreshold THEN old + 1 ELSE old
           e == [entry[n] EXCEPT !.errors = k]
<1>1. /\ ListTypes /\ NetInv(net, silence, faults) /\ EntriesInv(entry, silence, faults)
      /\ FilesInv(cache, silence, faults) /\ silence \in Nat /\ faults \in Nat
      /\ entry[n] \in Entry /\ entry[n] # NoEntry /\ Up(n) /\ Fault(cache)
      /\ cache \in [Nodes -> [entry : MaybeEntry, asked : Nat]]
  BY Assumptions DEF ListInv, ListTypes, SilenceInv, ScanFailed, MaybeEntry
<1>2. entry' = [entry EXCEPT ![n] = e] /\ UNCHANGED <<asked, knowsSpent, net, hostVars>>
  BY <1>1 DEF ScanFailed, ListTypes
<1>3. NetInv(net, silence, faults + 1) /\ EntriesInv(entry, silence, faults + 1)
      /\ FilesInv(cache, silence, faults + 1)
  BY <1>1, MoreDelays
<1>4. k \in Nat
  BY <1>1, Assumptions DEF Entry
<1> HIDE DEF k
<1>5. e \in MaybeEntry /\ EntryInv(e, silence, faults + 1)
  BY <1>1, <1>3, <1>4, OtherErrors DEF EntriesInv, MaybeEntry
<1> HIDE DEF e
<1>6. entry' \in [Nodes -> MaybeEntry] /\ EntriesInv(entry', silence, faults + 1)
  BY <1>1, <1>2, <1>3, <1>5, EntryReplaced
<1>7. /\ faults' = faults + 1 /\ faults' \in 0..MaxFaults
      /\ cache' \in [Nodes -> [entry : MaybeEntry, asked : Nat]]
      /\ FilesInv(cache', silence, faults')
  BY <1>1, <1>3, FaultCounts
<1>8. status' = "DEAD" => entry'[Host] = NoEntry
  BY <1>1, <1>2, Assumptions DEF ListInv, SilenceInv, ListTypes, Up, hostVars
<1> QED
  BY <1>2, <1>3, <1>6, <1>7, <1>8 DEF ListInv, ListTypes, SilenceInv, hostVars

LEMMA ScanSucceededStep ==
  ASSUME ListInv, NEW n \in Nodes, ScanSucceeded(n)
  PROVE  ListInv'
<1> DEFINE k == entry[n].errors - 1
           e == [entry[n] EXCEPT !.errors = k]
<1>1. /\ ListTypes /\ EntriesInv(entry, silence, faults)
      /\ entry[n] \in Entry /\ entry[n] # NoEntry /\ Up(n) /\ entry[n].errors > 0
  BY DEF ListInv, ListTypes, SilenceInv, ScanSucceeded, MaybeEntry
<1>2. entry' = [entry EXCEPT ![n] = e] /\ UNCHANGED <<cache, asked, knowsSpent, net, hostVars, faults>>
  BY <1>1 DEF ScanSucceeded, ListTypes
<1>3. k \in Nat
  BY <1>1 DEF Entry
<1> HIDE DEF k
<1>4. e \in MaybeEntry /\ EntryInv(e, silence, faults)
  BY <1>1, <1>3, OtherErrors DEF EntriesInv, MaybeEntry
<1> HIDE DEF e
<1>5. entry' \in [Nodes -> MaybeEntry] /\ EntriesInv(entry', silence, faults)
  BY <1>1, <1>2, <1>4, EntryReplaced
<1>6. status' = "DEAD" => entry'[Host] = NoEntry
  BY <1>1, <1>2, Assumptions DEF ListInv, SilenceInv, ListTypes, Up, hostVars
<1> QED
  BY <1>2, <1>5, <1>6, SameSilence DEF ListInv, ListTypes, SilenceInv, hostVars

LEMMA LearnSpentStep ==
  ASSUME ListInv, NEW n \in Nodes, LearnSpent(n)
  PROVE  ListInv'
  BY DEF ListInv, ListTypes, SilenceInv, LearnSpent, hostVars

LEMMA DumpStep ==
  ASSUME ListInv, NEW n \in Nodes, DumpBlanknodes(n)
  PROVE  ListInv'
<1>1. /\ cache' = [cache EXCEPT ![n] = [entry |-> entry[n], asked |-> asked[n]]]
      /\ UNCHANGED <<entry, asked, knowsSpent, net, hostVars, faults>>
  BY DEF DumpBlanknodes
<1>2. cache' \in [Nodes -> [entry : MaybeEntry, asked : Nat]]
  BY <1>1 DEF ListInv, ListTypes
<1>3. FilesInv(cache', silence, faults)
  BY <1>1, EntryIsCached DEF ListInv, ListTypes, SilenceInv, EntriesInv, FilesInv
<1> QED
  BY <1>1, <1>2, <1>3 DEF ListInv, ListTypes, SilenceInv, hostVars

(* Cutting every link of a node. *)
LEMMA CutKeeps ==
  ASSUME ListTypes, NEW q, NEW d, NetInv(net, q, d), NEW n
  PROVE  LET cut == [a \in Nodes |-> [b \in Nodes |->
                       IF n \in {a, b} THEN {} ELSE net[a][b]]]
         IN  cut \in Network /\ NetInv(cut, q, d)
<1> DEFINE cut == [a \in Nodes |-> [b \in Nodes |->
                     IF n \in {a, b} THEN {} ELSE net[a][b]]]
<1>1. cut \in Network
  BY DEF ListTypes, Network
<1>2. \A a, b \in Nodes : cut[a][b] \subseteq net[a][b]
  OBVIOUS
<1>3. NetInv(cut, q, d)
  BY <1>2 DEF NetInv
<1> QED
  BY <1>1, <1>3

LEMMA ReconnectKeeps ==
  ASSUME ListTypes, NEW q, NEW d, NetInv(net, q, d), NEW n \in Nodes, Reconnect(n)
  PROVE  net' \in Network /\ NetInv(net', q, d)
<1> DEFINE cut == [a \in Nodes |-> [b \in Nodes |->
                     IF n \in {a, b} THEN {} ELSE net[a][b]]]
<1>1. net' = cut \/ \E p \in Peers[n] : net' = Send(cut, n, p, SsegMessage)
  BY DEF Reconnect, SsegMessage
<1>2. cut \in Network /\ NetInv(cut, q, d)
  BY CutKeeps
<1> HIDE DEF cut
<1>3. SsegMessage \in Message /\ MessageInv(SsegMessage, q, d)
  BY DEF Message, SsegMessage, MessageInv
<1>4. Peers[n] \subseteq Nodes
  BY Assumptions
<1> QED
  BY <1>1, <1>2, <1>3, <1>4, SendKeeps

LEMMA RestartStep ==
  ASSUME ListInv, NEW n \in Nodes, Restart(n)
  PROVE  ListInv'
<1>1. /\ ListTypes /\ NetInv(net, silence, faults) /\ EntriesInv(entry, silence, faults)
      /\ FilesInv(cache, silence, faults) /\ silence \in Nat /\ faults \in Nat
      /\ cache \in [Nodes -> [entry : MaybeEntry, asked : Nat]]
      /\ n # Host /\ Fault(cache) /\ Reconnect(n) /\ UNCHANGED hostVars
  BY Assumptions DEF ListInv, ListTypes, SilenceInv, Restart
<1>2. NetInv(net, silence, faults + 1) /\ EntriesInv(entry, silence, faults + 1)
      /\ FilesInv(cache, silence, faults + 1)
  BY <1>1, MoreDelays
<1>3. /\ faults' = faults + 1 /\ faults' \in 0..MaxFaults
      /\ cache' \in [Nodes -> [entry : MaybeEntry, asked : Nat]]
      /\ FilesInv(cache', silence, faults')
  BY <1>1, <1>2, FaultCounts
<1>4. CachedInv(cache[n].entry, silence, faults + 1) /\ cache[n].entry \in MaybeEntry
  BY <1>1, <1>2 DEF FilesInv
<1>5. PICK spent :
        \/ /\ entry' = [entry EXCEPT ![n] = Swept(cache[n].entry, spent)]
           /\ asked' = [asked EXCEPT ![n] = cache[n].asked]
        \/ entry' = [entry EXCEPT ![n] = NoEntry] /\ asked' = [asked EXCEPT ![n] = 0]
  BY DEF Restart
<1> DEFINE e == Swept(cache[n].entry, spent)
<1>6. e \in MaybeEntry /\ EntryInv(e, silence, faults + 1)
  BY <1>1, <1>4, SweptKeeps
<1> HIDE DEF e
<1>7. NoEntry \in MaybeEntry /\ EntryInv(NoEntry, silence, faults + 1)
  BY DEF MaybeEntry, EntryInv
<1>8. entry' \in [Nodes -> MaybeEntry] /\ EntriesInv(entry', silence, faults + 1)
  BY <1>1, <1>2, <1>5, <1>6, <1>7, EntryReplaced DEF e
<1>9. asked' \in [Nodes -> Nat]
  BY <1>1, <1>5 DEF ListTypes
<1>10. net' \in Network /\ NetInv(net', silence, faults + 1)
  BY <1>1, <1>2, ReconnectKeeps
<1>11. status' = "DEAD" => entry'[Host] = NoEntry
  BY <1>1, <1>5, Assumptions DEF ListInv, SilenceInv, ListTypes, hostVars
<1> QED
  BY <1>1, <1>3, <1>8, <1>9, <1>10, <1>11 DEF ListInv, ListTypes, SilenceInv, hostVars

(* When silence starts anew nothing is late. *)
LEMMA NothingLate ==
  ASSUME NEW d \in Nat
  PROVE  /\ \A e \in [Nodes -> MaybeEntry] : EntriesInv(e, 0, d)
         /\ \A c \in [Nodes -> [entry : MaybeEntry, asked : Nat]] : FilesInv(c, 0, d)
         /\ \A w \in Network : NetInv(w, 0, d)
<1>1. \A e \in MaybeEntry : EntryInv(e, 0, d) /\ CachedInv(e, 0, d)
  BY FreshEntry, EntryIsCached DEF MaybeEntry, EntryInv, CachedInv
<1>2. \A msg \in Message : MessageInv(msg, 0, d)
  BY FreshMessage
<1> QED
  BY <1>1, <1>2 DEF EntriesInv, FilesInv, NetInv, Network

(* A start whose Check does not get the lock. *)
LEMMA RestartUncheckedStep ==
  ASSUME ListInv, NEW n \in Nodes, RestartUnchecked(n)
  PROVE  ListInv'
<1> DEFINE e == Removed(cache[n].entry)
<1>1. /\ ListTypes /\ NetInv(net, silence, faults) /\ EntriesInv(entry, silence, faults)
      /\ FilesInv(cache, silence, faults) /\ silence \in Nat /\ faults \in Nat
      /\ cache \in [Nodes -> [entry : MaybeEntry, asked : Nat]]
      /\ n # Host /\ Fault(cache) /\ Reconnect(n) /\ UNCHANGED <<status, signed>>
      /\ entry' = [entry EXCEPT ![n] = e] /\ asked' = [asked EXCEPT ![n] = cache[n].asked]
      /\ silence' = IF Enabled(n)' THEN 0 ELSE silence
  BY Assumptions DEF ListInv, ListTypes, SilenceInv, RestartUnchecked
<1>2. NetInv(net, silence, faults + 1) /\ EntriesInv(entry, silence, faults + 1)
      /\ FilesInv(cache, silence, faults + 1)
  BY <1>1, MoreDelays
<1>3. /\ faults' = faults + 1 /\ faults' \in 0..MaxFaults
      /\ cache' \in [Nodes -> [entry : MaybeEntry, asked : Nat]]
      /\ FilesInv(cache', silence, faults')
  BY <1>1, <1>2, FaultCounts
<1>4. e \in MaybeEntry /\ CachedInv(e, silence, faults + 1)
  BY <1>1, <1>2 DEF FilesInv, Removed, MaybeEntry, CachedInv
<1> HIDE DEF e
<1>5. entry' \in [Nodes -> MaybeEntry] /\ entry'[n] = e /\ asked' \in [Nodes -> Nat]
  BY <1>1, <1>4 DEF ListTypes
<1>6. net' \in Network /\ NetInv(net', silence, faults + 1)
  BY <1>1, <1>2, ReconnectKeeps
<1>7. status' = "DEAD" => entry'[Host] = NoEntry
  BY <1>1, Assumptions DEF ListInv, SilenceInv, ListTypes
<1>8. CASE Enabled(n)'
  <2>1. /\ NetInv(net', 0, faults + 1) /\ EntriesInv(entry', 0, faults + 1)
        /\ FilesInv(cache', 0, faults + 1)
    <3>1. faults + 1 \in Nat
      BY <1>1
    <3> QED
      BY <1>3, <1>5, <1>6, <3>1, NothingLate
  <2> QED
    BY <1>1, <1>3, <1>5, <1>6, <1>7, <1>8, <2>1 DEF ListInv, ListTypes, SilenceInv
<1>9. CASE ~ Enabled(n)'
  <2>1. EntryInv(e, silence, faults + 1)
    BY <1>4, <1>5, <1>9 DEF EntryInv, CachedInv, Enabled
  <2>2. EntriesInv(entry', silence, faults + 1)
    BY <1>1, <1>2, <1>4, <2>1, EntryReplaced
  <2> QED
    BY <1>1, <1>3, <1>5, <1>6, <1>7, <1>9, <2>2 DEF ListInv, ListTypes, SilenceInv
<1> QED
  BY <1>8, <1>9

(* When the host signs something nothing is late. *)
LEMMA Signed ==
  ASSUME ListInv, silence' = 0, UNCHANGED <<cache, asked, faults>>, signed' \in Nat,
         entry' \in [Nodes -> MaybeEntry], net' \in Network, status' # "DEAD"
  PROVE  ListInv'
<1>1. faults \in Nat /\ cache \in [Nodes -> [entry : MaybeEntry, asked : Nat]]
  BY Assumptions DEF ListInv, ListTypes
<1>2. NetInv(net', 0, faults) /\ EntriesInv(entry', 0, faults) /\ FilesInv(cache, 0, faults)
  BY <1>1, NothingLate
<1> QED
  BY <1>2 DEF ListInv, ListTypes, SilenceInv

LEMMA ToPeersType ==
  ASSUME NEW network \in Network, NEW n \in Nodes, NEW msg \in Message
  PROVE  ToPeers(network, n, msg) \in Network
  BY DEF ToPeers, Network

LEMMA RegisterStep ==
  ASSUME ListInv, Register, UNCHANGED <<cache, asked, knowsSpent, faults>>
  PROVE  ListInv'
<1> DEFINE new == [type |-> "ssee", new |-> TRUE, reg |-> signed + 1, seen |-> 0]
           e == [reg |-> signed + 1, seen |-> 0, ping |-> PingWindow,
                 state |-> "ENABLED", errors |-> 0]
<1>1. signed + 1 \in Nat /\ entry \in [Nodes -> MaybeEntry] /\ net \in Network
  BY DEF ListInv, ListTypes
<1>2. new \in Message /\ e \in MaybeEntry
  BY <1>1, Assumptions DEF Message, Ssee, MaybeEntry, Entry, States
<1>3. /\ net' = ToPeers(net, Host, new) /\ silence' = 0 /\ signed' = signed + 1
      /\ status' = "IS_CAPABLE"
      /\ entry' = entry \/ entry' = [entry EXCEPT ![Host] = e]
  BY DEF Register
<1> HIDE DEF new, e
<1>4. net' \in Network /\ entry' \in [Nodes -> MaybeEntry]
  BY <1>1, <1>2, <1>3, Assumptions, ToPeersType
<1> QED
  BY <1>1, <1>3, <1>4, Signed

LEMMA SameLists ==
  ASSUME ListInv, UNCHANGED <<entry, net, silence, cache, asked, faults>>,
         signed' \in Nat, status' = "DEAD" => status = "DEAD"
  PROVE  ListInv'
  BY DEF ListInv, ListTypes, SilenceInv

LEMMA PingStep ==
  ASSUME ListInv, Running, Ping, UNCHANGED <<cache, asked, knowsSpent, faults>>
  PROVE  ListInv'
<1>1. signed' \in Nat /\ entry \in [Nodes -> MaybeEntry] /\ net \in Network
  BY DEF ListInv, ListTypes, Ping
<1>2. CASE entry[Host] = NoEntry
  BY <1>1, <1>2, SameLists DEF Ping
<1>3. CASE entry[Host] # NoEntry
  <2> DEFINE ping == [type |-> "sseep", age |-> 0, stop |-> FALSE]
             e == [entry[Host] EXCEPT !.seen = 0]
  <2>1. /\ entry' = [entry EXCEPT ![Host] = e] /\ net' = ToPeers(net, Host, ping)
        /\ silence' = 0 /\ status' = status
    BY <1>1, <1>3 DEF Ping
  <2>2. entry[Host] \in Entry
    BY <1>1, <1>3, Assumptions DEF MaybeEntry
  <2>3. e \in MaybeEntry /\ ping \in Message
    BY <2>2 DEF MaybeEntry, Entry, Message, Sseep
  <2> HIDE DEF e, ping
  <2>4. net' \in Network /\ entry' \in [Nodes -> MaybeEntry]
    BY <1>1, <2>1, <2>3, Assumptions, ToPeersType
  <2> QED
    BY <1>1, <2>1, <2>4, Signed DEF Running
<1> QED
  BY <1>2, <1>3

LEMMA ManageStatusStep ==
  ASSUME ListInv, ManageStatus
  PROVE  ListInv'
<1>1. UNCHANGED <<cache, asked, knowsSpent, faults>>
  BY DEF ManageStatus
<1>2. CASE Register
  BY <1>1, <1>2, RegisterStep
<1>3. CASE status' = "NOT_CAPABLE" /\ UNCHANGED <<entry, net, signed, silence>>
  BY <1>1, <1>3, SameLists DEF ListInv, ListTypes
<1>4. CASE Running /\ Ping
  BY <1>1, <1>4, PingStep
<1> QED
  BY <1>2, <1>3, <1>4 DEF ManageStatus

LEMMA StopStep ==
  ASSUME ListInv, StopBlankNode
  PROVE  ListInv'
<1>1. UNCHANGED <<cache, asked, knowsSpent, signed, faults>>
  BY DEF StopBlankNode
<1>2. signed' \in Nat /\ entry \in [Nodes -> MaybeEntry] /\ net \in Network
  BY <1>1 DEF ListInv, ListTypes
<1>3. CASE entry[Host] = NoEntry
  BY <1>1, <1>2, <1>3, SameLists DEF StopBlankNode
<1>4. CASE entry[Host] # NoEntry
  <2> DEFINE ping == [type |-> "sseep", age |-> 0, stop |-> TRUE]
  <2>1. /\ entry' = [entry EXCEPT ![Host] = NoEntry] /\ net' = ToPeers(net, Host, ping)
        /\ silence' = 0 /\ status' = "STOPPED"
    BY <1>4 DEF StopBlankNode
  <2>2. ping \in Message /\ NoEntry \in MaybeEntry
    BY DEF MaybeEntry, Message, Sseep
  <2> HIDE DEF ping
  <2>3. net' \in Network /\ entry' \in [Nodes -> MaybeEntry]
    BY <1>2, <2>1, <2>2, Assumptions, ToPeersType
  <2> QED
    BY <1>1, <1>2, <2>1, <2>3, Signed
<1> QED
  BY <1>3, <1>4

LEMMA StartStep ==
  ASSUME ListInv, StartBlankNode
  PROVE  ListInv'
<1>1. UNCHANGED <<cache, asked, knowsSpent, faults>>
  BY DEF StartBlankNode
<1>2. CASE Register
  BY <1>1, <1>2, RegisterStep
<1>3. CASE status' = "NOT_CAPABLE" /\ UNCHANGED <<entry, net, signed, silence>>
  BY <1>1, <1>3, SameLists DEF ListInv, ListTypes
<1> QED
  BY <1>2, <1>3 DEF StartBlankNode

LEMMA HostDiesStep ==
  ASSUME ListInv, HostDies
  PROVE  ListInv'
<1>1. /\ ListTypes /\ NetInv(net, silence, faults) /\ EntriesInv(entry, silence, faults)
      /\ entry \in [Nodes -> MaybeEntry]
  BY DEF ListInv, ListTypes, SilenceInv
<1>2. NoEntry \in MaybeEntry /\ EntryInv(NoEntry, silence, faults)
  BY DEF MaybeEntry, EntryInv
<1>3. entry' = [entry EXCEPT ![Host] = NoEntry]
      /\ UNCHANGED <<cache, asked, knowsSpent, signed, silence, faults>>
  BY DEF HostDies
<1>4. entry' \in [Nodes -> MaybeEntry] /\ EntriesInv(entry', silence, faults)
  BY <1>1, <1>2, <1>3, Assumptions, EntryReplaced
<1>5. net' \in Network /\ NetInv(net', silence, faults)
  BY <1>1, CutKeeps DEF HostDies
<1>6. entry'[Host] = NoEntry
  BY <1>1, <1>3, Assumptions
<1> QED
  BY <1>3, <1>4, <1>5, <1>6, SameSilence DEF ListInv, ListTypes

(* Time. *)

LEMMA OlderAge ==
  ASSUME NEW a \in Nat, NEW q \in Nat, NEW d \in Nat,
         NEW r \in Nat, NEW c \in Nat, r <= q + 1, d <= c, Late(a, q, d)
  PROVE  /\ Older(a, Removal) \in Nat
         /\ Late(Older(a, Removal), r, c)
         /\ Older(a, Removal) = Never => a = Never
         /\ a < Expiration => r <= c + Expiration /\ Older(a, Removal) # Never
  BY Assumptions DEF Older, Late, Never

LEMMA OlderEntryType ==
  ASSUME NEW e \in MaybeEntry
  PROVE  /\ OlderEntry(e) \in MaybeEntry
         /\ e # NoEntry => /\ OlderEntry(e) \in Entry /\ e \in Entry
                           /\ OlderEntry(e).seen = Older(e.seen, Removal)
                           /\ OlderEntry(e).state = e.state
<1>1. CASE e = NoEntry
  BY <1>1 DEF OlderEntry, MaybeEntry
<1>2. CASE e # NoEntry
  <2>1. e \in Entry /\ OlderEntry(e) =
          [e EXCEPT !.seen = Older(e.seen, Removal), !.ping = Older(e.ping, PingWindow)]
    BY <1>2 DEF OlderEntry, MaybeEntry, Entry
  <2>2. Older(e.seen, Removal) \in Nat /\ Older(e.ping, PingWindow) \in Nat
    BY <2>1, Assumptions DEF Entry, Older
  <2> QED
    BY <2>1, <2>2 DEF Entry, MaybeEntry
<1> QED
  BY <1>1, <1>2

(* A message gets older by a tick that costs a fault. *)
LEMMA OlderMessageKeeps ==
  ASSUME NEW msg \in Message, NEW q \in Nat, NEW d \in Nat, NEW r \in Nat,
         r <= q + 1, MessageInv(msg, q, d)
  PROVE  OlderMessage(msg) \in Message /\ MessageInv(OlderMessage(msg), r, d + 1)
<1>1. CASE msg \in Ssee
  <2> DEFINE a == Older(msg.seen, Removal)
             x == [msg EXCEPT !.seen = a]
  <2>1. msg.type = "ssee" /\ msg.seen \in Nat
    BY <1>1 DEF Ssee
  <2>2. OlderMessage(msg) = x
    BY <2>1 DEF OlderMessage
  <2>3. /\ msg.new \/ msg.seen = Never => q <= d
        /\ Late(msg.seen, q, d) /\ q <= d + Expiration
    BY <2>1 DEF MessageInv
  <2>4. a \in Nat /\ Late(a, r, d + 1) /\ (a = Never => msg.seen = Never)
    BY <2>1, <2>3, OlderAge
  <2> HIDE DEF a
  <2>5. x \in Ssee /\ x.type = "ssee" /\ x.new = msg.new /\ x.seen = a
    BY <1>1, <2>4 DEF Ssee
  <2>6. r <= d + 1 + Expiration /\ (q <= d => r <= d + 1)
    BY <2>3, Assumptions
  <2>7. x.new \/ x.seen = Never => r <= d + 1
    BY <2>3, <2>4, <2>5, <2>6, Zenon
  <2> QED
    BY <2>2, <2>4, <2>5, <2>6, <2>7 DEF MessageInv, Message
<1>2. CASE msg \in Sseep
  <2> DEFINE a == Older(msg.age, PingWindow)
             x == [msg EXCEPT !.age = a]
  <2>1. msg.type = "sseep" /\ a \in Nat /\ q <= d
    BY <1>2, Assumptions DEF Sseep, Older, MessageInv
  <2>2. OlderMessage(msg) = x
    BY <2>1 DEF OlderMessage
  <2> HIDE DEF a
  <2>3. x \in Sseep /\ x.type = "sseep" /\ r <= d + 1
    BY <1>2, <2>1 DEF Sseep
  <2> QED
    BY <2>2, <2>3 DEF MessageInv, Message
<1>3. CASE msg = SsegMessage
  BY <1>3 DEF SsegMessage, OlderMessage, MessageInv, Message
<1> QED
  BY <1>1, <1>2, <1>3 DEF Message

LEMMA TickStep ==
  ASSUME ListInv, Tick
  PROVE  ListInv'
<1> DEFINE files == [n \in Nodes |-> [entry |-> OlderEntry(cache[n].entry),
                                     asked |-> Shorter(cache[n].asked)]]
           aged == [m \in Nodes |-> [n \in Nodes |-> {OlderMessage(x) : x \in net[m][n]}]]
           r == Older(silence, SilenceCap)
<1>1. /\ ListTypes /\ NetInv(net, silence, faults) /\ EntriesInv(entry, silence, faults)
      /\ FilesInv(cache, silence, faults) /\ silence \in Nat /\ faults \in Nat
      /\ status = "DEAD" => entry[Host] = NoEntry
      /\ entry \in [Nodes -> MaybeEntry]
      /\ cache \in [Nodes -> [entry : MaybeEntry, asked : Nat]]
      /\ asked \in [Nodes -> Nat] /\ faults \in 0..MaxFaults
  BY Assumptions DEF ListInv, ListTypes, SilenceInv
<1>2. /\ \A n \in Nodes : Up(n) => entry[n] = Swept(entry[n], n \in knowsSpent)
      /\ IF Quiet THEN cache' = files /\ UNCHANGED faults ELSE Fault(files)
      /\ entry' = [n \in Nodes |-> OlderEntry(entry[n])]
      /\ net' = aged /\ silence' = r
      /\ asked' = [n \in Nodes |-> Shorter(asked[n])]
      /\ UNCHANGED <<knowsSpent, status, signed>>
  BY DEF Tick
<1>3. r \in Nat /\ r <= silence + 1
  BY <1>1, Assumptions DEF Older, SilenceCap
<1> HIDE DEF r
<1>4. asked' \in [Nodes -> Nat]
  BY <1>1, <1>2 DEF Shorter
<1>5. files \in [Nodes -> [entry : MaybeEntry, asked : Nat]]
  BY <1>1, OlderEntryType DEF Shorter
<1>6. ASSUME NEW c \in Nat, faults <= c
      PROVE  FilesInv(files, r, c)
  <2> SUFFICES ASSUME NEW n \in Nodes, files[n].entry # NoEntry
               PROVE  Late(files[n].entry.seen, r, c)
    BY DEF FilesInv, CachedInv
  <2> DEFINE e == cache[n].entry
  <2>1. e \in MaybeEntry /\ files[n].entry = OlderEntry(e) /\ CachedInv(e, silence, faults)
    BY <1>1 DEF FilesInv
  <2> HIDE DEF e, files
  <2>2. e # NoEntry
    BY <2>1 DEF OlderEntry
  <2>3. e \in Entry /\ OlderEntry(e).seen = Older(e.seen, Removal) /\ Late(e.seen, silence, faults)
    BY <2>1, <2>2, OlderEntryType DEF CachedInv
  <2>4. e.seen \in Nat
    BY <2>3 DEF Entry
  <2> QED
    BY <1>1, <1>3, <1>6, <2>1, <2>3, <2>4, OlderAge
<1>7. ASSUME NEW c \in Nat, faults <= c
      PROVE  EntriesInv(entry', r, c)
  <2> SUFFICES ASSUME NEW n \in Nodes PROVE EntryInv(OlderEntry(entry[n]), r, c)
    BY <1>2 DEF EntriesInv
  <2> DEFINE e == entry[n]
  <2>0. e \in MaybeEntry /\ EntryInv(e, silence, faults)
    BY <1>1 DEF EntriesInv
  <2>1. CASE e = NoEntry
    BY <2>1 DEF OlderEntry, EntryInv
  <2>2. CASE e # NoEntry
    <3>1. Up(n) /\ e = Swept(e, n \in knowsSpent)
      BY <1>1, <1>2, <2>2 DEF Up
    <3>2. e.state = "ENABLED" => e.seen < Expiration
      BY <2>0, <2>2, <3>1, SweptEnabled
    <3> HIDE DEF e
    <3>3. /\ e \in Entry /\ OlderEntry(e).seen = Older(e.seen, Removal)
          /\ OlderEntry(e).state = e.state /\ Late(e.seen, silence, faults)
      BY <2>0, <2>2, OlderEntryType DEF EntryInv
    <3>4. e.seen \in Nat
      BY <3>3 DEF Entry
    <3>5. /\ Late(Older(e.seen, Removal), r, c)
          /\ e.seen < Expiration => r <= c + Expiration /\ Older(e.seen, Removal) # Never
      BY <1>1, <1>3, <1>7, <3>3, <3>4, OlderAge
    <3>6. EntryInv(OlderEntry(e), r, c)
      BY <3>2, <3>3, <3>5, Zenon DEF EntryInv
    <3> QED
      BY <3>6 DEF e
  <2> QED
    BY <2>1, <2>2
<1>8. entry' \in [Nodes -> MaybeEntry]
  BY <1>1, <1>2, OlderEntryType
<1>9. aged \in Network /\ NetInv(aged, r, faults + 1)
  <2>1. ASSUME NEW m \in Nodes, NEW n \in Nodes, NEW x \in net[m][n]
        PROVE  OlderMessage(x) \in Message /\ MessageInv(OlderMessage(x), r, faults + 1)
    <3>1. x \in Message /\ MessageInv(x, silence, faults)
      BY <1>1 DEF ListTypes, Network, NetInv
    <3> QED
      BY <1>1, <1>3, <3>1, OlderMessageKeeps
  <2> QED
    BY <2>1 DEF Network, NetInv
<1>0. status' = "DEAD" => entry'[Host] = NoEntry
  BY <1>1, <1>2, Assumptions DEF OlderEntry
<1>10. CASE Quiet
  <2>1. cache' = files /\ faults' = faults
    BY <1>2, <1>10
  <2>2. NetInv(aged, r, faults)
    BY <1>10 DEF Quiet, NetInv
  <2>3. FilesInv(cache', r, faults') /\ EntriesInv(entry', r, faults') /\ NetInv(net', r, faults')
    BY <1>1, <1>2, <1>6, <1>7, <2>1, <2>2
  <2> HIDE DEF files, aged
  <2> QED
    BY <1>0, <1>1, <1>2, <1>3, <1>4, <1>5, <1>8, <1>9, <2>1, <2>3
       DEF ListInv, ListTypes, SilenceInv
<1>11. CASE ~ Quiet
  <2>1. faults + 1 \in Nat /\ faults <= faults + 1 /\ Fault(files)
    BY <1>1, <1>2, <1>11
  <2>2. FilesInv(files, r, faults + 1) /\ EntriesInv(entry', r, faults + 1)
    BY <1>6, <1>7, <2>1
  <2> HIDE DEF files, aged
  <2>3. /\ faults' = faults + 1 /\ faults' \in 0..MaxFaults
        /\ cache' \in [Nodes -> [entry : MaybeEntry, asked : Nat]]
        /\ FilesInv(cache', r, faults')
    BY <1>1, <1>5, <2>1, <2>2, FaultCounts
  <2> QED
    BY <1>0, <1>1, <1>2, <1>3, <1>4, <1>8, <1>9, <2>2, <2>3
       DEF ListInv, ListTypes, SilenceInv
<1> QED
  BY <1>10, <1>11

LEMMA ListStep ==
  ASSUME ListInv, [Next]_vars
  PROVE  ListInv'
<1>1. CASE \E m, n \in Nodes : Deliver(m, n)
  BY <1>1, DeliverStep
<1>2. CASE \E n \in Nodes :
        \/ CheckAndRemove(n) \/ ScanFailed(n) \/ ScanSucceeded(n)
        \/ LearnSpent(n) \/ DumpBlanknodes(n) \/ Restart(n) \/ RestartUnchecked(n)
  BY <1>2, CheckAndRemoveStep, ScanFailedStep, ScanSucceededStep, LearnSpentStep,
     DumpStep, RestartStep, RestartUncheckedStep
<1>3. CASE ManageStatus \/ StopBlankNode \/ StartBlankNode \/ HostDies \/ Tick
  BY <1>3, ManageStatusStep, StopStep, StartStep, HostDiesStep, TickStep
<1>4. CASE UNCHANGED vars
  BY <1>4 DEF vars, hostVars, ListInv, ListTypes, SilenceInv
<1> QED
  BY <1>1, <1>2, <1>3, <1>4 DEF Next

-----------------------------------------------------------------------------
(* The results. *)

(* The ages in every list, file and message are as long as the host has    *)
(* been silent, but for the delays.                                        *)
THEOREM ListInvariant == Spec => []ListInv
  BY InitList, ListStep, PTL DEF Spec

(* A silent blanknode leaves every list: when the host has signed nothing  *)
(* and no node has loaded it unchecked for the expiry time and a tick for  *)
(* each fault (SilenceCap), no node has it enabled, whatever was passed    *)
(* on, asked for, dumped, loaded, scanned and lost on the way              *)
(* (CBlanknode::Check, blanknodeman.cpp).                                  *)
THEOREM SilentLeaves == Spec => []SilentIsNotEnabled
<1>1. ListInv => SilentIsNotEnabled
  <2> SUFFICES ASSUME ListInv, silence = SilenceCap, NEW n \in Nodes, Enabled(n)
               PROVE  FALSE
    BY DEF SilentIsNotEnabled
  <2>1. silence <= faults + Expiration
    BY DEF ListInv, SilenceInv, EntriesInv, EntryInv, Enabled
  <2> QED
    BY <2>1, Assumptions DEF SilenceCap, ListInv, ListTypes
<1> QED
  BY <1>1, ListInvariant, PTL

(* A list with one entry replaced by one that is not enabled. *)
LEMMA ReplacedStaysOut ==
  ASSUME ListTypes, NEW i \in Nodes, ~ Enabled(i), NEW n \in Nodes, NEW e,
         entry' = [entry EXCEPT ![n] = e],
         n = i => e = NoEntry \/ e.state # "ENABLED"
  PROVE  ~ Enabled(i)'
  BY DEF ListTypes, Enabled

LEMMA ChecksStayOut ==
  ASSUME NEW e \in Entry, NEW n \in knowsSpent, e.state # "ENABLED", NEW f \in Checks(e, n)
  PROVE  f.state # "ENABLED"
  BY CheckedEntry DEF Checks

LEMMA DeliverStaysOut ==
  ASSUME ListInv, NEW i \in Nodes, i \in knowsSpent, ~ Enabled(i),
         NEW m \in Nodes, NEW n \in Nodes, Deliver(m, n)
  PROVE  ~ Enabled(i)'
<1>1. ListTypes /\ entry \in [Nodes -> MaybeEntry]
  BY DEF ListInv, ListTypes
<1>2. CASE SseeAdd(m, n)
  BY <1>1, <1>2 DEF SseeAdd, Add, Enabled
<1>3. CASE SseeUpdate(m, n)
  <2>1. PICK msg \in net[m][n] :
          /\ entry[n] # NoEntry
          /\ \/ UNCHANGED entry
             \/ \E e \in Checks([entry[n] EXCEPT !.seen = 0, !.reg = msg.reg], n) :
                  entry' = [entry EXCEPT ![n] = e]
             \/ entry' = [entry EXCEPT ![n].seen = 0]
          /\ msg.type = "ssee"
    BY <1>3 DEF SseeUpdate
  <2> DEFINE f == [entry[n] EXCEPT !.seen = 0, !.reg = msg.reg]
             g == [entry[n] EXCEPT !.seen = 0]
  <2>2. entry[n] \in Entry /\ msg \in Ssee
    <3>1. entry[n] \in Entry
      BY <1>1, <2>1 DEF MaybeEntry
    <3>2. msg \in Message /\ msg.type = "ssee"
      BY <1>1, <2>1 DEF ListTypes, Network
    <3>3. msg \in Ssee
      BY <3>2 DEF Message, Sseep, SsegMessage
    <3> QED
      BY <3>1, <3>3
  <2>3. /\ f \in Entry /\ f.state = entry[n].state
        /\ g \in Entry /\ g.state = entry[n].state
    BY <2>2 DEF Entry, Ssee
  <2>4. n = i => entry[n].state # "ENABLED"
    BY <2>1 DEF Enabled
  <2>5. CASE UNCHANGED entry
    BY <2>5 DEF Enabled
  <2>6. CASE \E e \in Checks(f, n) : entry' = [entry EXCEPT ![n] = e]
    <3> HIDE DEF f
    <3>1. PICK e \in Checks(f, n) : entry' = [entry EXCEPT ![n] = e]
      BY <2>6
    <3>2. n = i => e.state # "ENABLED"
      BY <2>3, <2>4, <3>1, ChecksStayOut
    <3> QED
      BY <1>1, <3>1, <3>2, ReplacedStaysOut
  <2>7. CASE entry' = [entry EXCEPT ![n].seen = 0]
    <3>1. entry' = [entry EXCEPT ![n] = g]
      BY <2>7
    <3> HIDE DEF g
    <3> QED
      BY <1>1, <2>3, <2>4, <3>1, ReplacedStaysOut
  <2> QED
    BY <2>1, <2>5, <2>6, <2>7
<1>4. CASE SseepKnown(m, n)
  <2>1. PICK msg \in net[m][n] :
          /\ entry[n] # NoEntry /\ msg.type = "sseep"
          /\ LET heard == [entry[n] EXCEPT !.ping = msg.age]
             IN  \/ UNCHANGED entry
                 \/ entry' = [entry EXCEPT ![n] = heard]
                 \/ entry' = [entry EXCEPT ![n] = [heard EXCEPT !.seen = Never]]
                 \/ \E f \in Checks([heard EXCEPT !.seen = 0], n) :
                      entry' = [entry EXCEPT ![n] = f]
    BY <1>4 DEF SseepKnown
  <2> DEFINE heard == [entry[n] EXCEPT !.ping = msg.age]
             gone  == [heard EXCEPT !.seen = Never]
             now   == [heard EXCEPT !.seen = 0]
  <2>2. entry[n] \in Entry /\ msg \in Sseep
    <3>1. entry[n] \in Entry
      BY <1>1, <2>1 DEF MaybeEntry
    <3>2. msg \in Message /\ msg.type = "sseep"
      BY <1>1, <2>1 DEF ListTypes, Network
    <3>3. msg \in Sseep
      BY <3>2 DEF Message, Ssee, SsegMessage
    <3> QED
      BY <3>1, <3>3
  <2>3. heard \in Entry /\ heard.state = entry[n].state
    BY <2>2 DEF Entry, Sseep
  <2>4. /\ now \in Entry /\ now.state = entry[n].state
        /\ gone.state = entry[n].state
    <3> HIDE DEF heard
    <3> QED
      BY <2>3 DEF Entry
  <2>5. n = i => entry[n].state # "ENABLED"
    BY <2>1 DEF Enabled
  <2>6. \/ UNCHANGED entry
        \/ entry' = [entry EXCEPT ![n] = heard]
        \/ entry' = [entry EXCEPT ![n] = gone]
        \/ \E f \in Checks(now, n) : entry' = [entry EXCEPT ![n] = f]
    BY <2>1
  <2> HIDE DEF heard, gone, now
  <2>7. CASE UNCHANGED entry
    BY <2>7 DEF Enabled
  <2>8. CASE entry' = [entry EXCEPT ![n] = heard] \/ entry' = [entry EXCEPT ![n] = gone]
    BY <1>1, <2>3, <2>4, <2>5, <2>8, ReplacedStaysOut
  <2>9. CASE \E f \in Checks(now, n) : entry' = [entry EXCEPT ![n] = f]
    <3>1. PICK f \in Checks(now, n) : entry' = [entry EXCEPT ![n] = f]
      BY <2>9
    <3>2. n = i => f.state # "ENABLED"
      BY <2>4, <2>5, <3>1, ChecksStayOut
    <3> QED
      BY <1>1, <3>1, <3>2, ReplacedStaysOut
  <2> QED
    BY <2>6, <2>7, <2>8, <2>9
<1>5. CASE SseepUnknown(m, n) \/ Sseg(m, n)
  BY <1>5 DEF SseepUnknown, Sseg, Enabled
<1> QED
  BY <1>2, <1>3, <1>4, <1>5 DEF Deliver

LEMMA ListStaysOut ==
  ASSUME ListInv, NEW i \in Nodes, i \in knowsSpent, ~ Enabled(i), NEW n \in Nodes,
         \/ CheckAndRemove(n) \/ ScanFailed(n) \/ ScanSucceeded(n)
         \/ LearnSpent(n) \/ DumpBlanknodes(n) \/ Restart(n),
         i \in knowsSpent'
  PROVE  ~ Enabled(i)'
<1>1. ListTypes /\ entry \in [Nodes -> MaybeEntry]
      /\ cache \in [Nodes -> [entry : MaybeEntry, asked : Nat]]
  BY DEF ListInv, ListTypes
<1>2. ASSUME NEW e \in MaybeEntry, NEW spent, spent
      PROVE  Swept(e, spent) = NoEntry \/ Swept(e, spent).state # "ENABLED"
  BY <1>2, SweptEnabled
<1>3. CASE CheckAndRemove(n)
  <2>1. entry' = [entry EXCEPT ![n] = Swept(entry[n], n \in knowsSpent)]
    BY <1>1, <1>3 DEF CheckAndRemove
  <2>2. n = i => \/ Swept(entry[n], n \in knowsSpent) = NoEntry
                 \/ Swept(entry[n], n \in knowsSpent).state # "ENABLED"
    BY <1>1, <1>2
  <2> QED
    BY <1>1, <2>1, <2>2, ReplacedStaysOut
<1>4. CASE ScanFailed(n) \/ ScanSucceeded(n)
  <2>1. PICK k : entry' = [entry EXCEPT ![n] = [entry[n] EXCEPT !.errors = k]]
    <3>1. CASE ScanFailed(n)
      BY <1>1, <3>1 DEF ScanFailed
    <3>2. CASE ScanSucceeded(n)
      BY <1>1, <3>2 DEF ScanSucceeded
    <3> QED
      BY <1>4, <3>1, <3>2
  <2> DEFINE f == [entry[n] EXCEPT !.errors = k]
  <2>2. entry[n] \in Entry /\ entry[n] # NoEntry
    BY <1>1, <1>4 DEF ScanFailed, ScanSucceeded, MaybeEntry
  <2>3. f.state = entry[n].state
    BY <2>2 DEF Entry
  <2> HIDE DEF f
  <2>4. n = i => f.state # "ENABLED"
    BY <2>2, <2>3 DEF Enabled
  <2> QED
    BY <1>1, <2>1, <2>4, ReplacedStaysOut DEF f
<1>5. CASE LearnSpent(n) \/ DumpBlanknodes(n)
  BY <1>5 DEF LearnSpent, DumpBlanknodes, Enabled
<1>6. CASE Restart(n)
  <2>1. PICK spent \in BOOLEAN :
          /\ knowsSpent' = IF spent THEN knowsSpent ELSE knowsSpent \ {n}
          /\ \/ entry' = [entry EXCEPT ![n] = Swept(cache[n].entry, spent)]
             \/ entry' = [entry EXCEPT ![n] = NoEntry]
    BY <1>6 DEF Restart
  <2> DEFINE e == Swept(cache[n].entry, spent)
  <2>2. n = i => spent
    BY <2>1
  <2>3. n = i => e = NoEntry \/ e.state # "ENABLED"
    BY <1>1, <1>2, <2>2
  <2> HIDE DEF e
  <2>4. CASE entry' = [entry EXCEPT ![n] = e]
    BY <1>1, <2>3, <2>4, ReplacedStaysOut
  <2>5. CASE entry' = [entry EXCEPT ![n] = NoEntry]
    BY <1>1, <2>5, ReplacedStaysOut
  <2> QED
    BY <2>1, <2>4, <2>5 DEF e
<1> QED
  BY <1>3, <1>4, <1>5, <1>6

LEMMA HostStaysOut ==
  ASSUME ListInv, NEW i \in Nodes, i \in knowsSpent, ~ Enabled(i),
         ManageStatus \/ StopBlankNode \/ StartBlankNode \/ HostDies \/ Tick
  PROVE  ~ Enabled(i)'
<1>1. ListTypes /\ entry \in [Nodes -> MaybeEntry] /\ Host \in Nodes
  BY Assumptions DEF ListInv, ListTypes
<1>2. CASE Host \notin knowsSpent /\ Register
  BY <1>1, <1>2 DEF Register, Enabled
<1>3. CASE Ping /\ entry[Host] # NoEntry
  <2> DEFINE e == [entry[Host] EXCEPT !.seen = 0]
  <2>1. entry' = [entry EXCEPT ![Host] = e]
    BY <1>1, <1>3 DEF Ping
  <2>2. entry[Host] \in Entry
    BY <1>1, <1>3 DEF MaybeEntry
  <2>3. e.state = entry[Host].state
    BY <2>2 DEF Entry
  <2> HIDE DEF e
  <2>4. Host = i => e.state # "ENABLED"
    BY <1>3, <2>3 DEF Enabled
  <2> QED
    BY <1>1, <2>1, <2>4, ReplacedStaysOut
<1>4. CASE UNCHANGED entry
  BY <1>4 DEF Enabled
<1>5. CASE entry' = [entry EXCEPT ![Host] = NoEntry]
  BY <1>1, <1>5, ReplacedStaysOut
<1>6. CASE Tick
  <2>1. entry'[i] = OlderEntry(entry[i]) /\ entry[i] \in MaybeEntry
    BY <1>1, <1>6 DEF Tick
  <2> QED
    BY <2>1, OlderEntryType DEF Enabled, OlderEntry
<1> QED
  BY <1>2, <1>3, <1>4, <1>5, <1>6 DEF ManageStatus, StopBlankNode, StartBlankNode, HostDies, Ping

(* Only nodes learn that the collateral is spent. *)
LEMMA KnownByNodes == Spec => [](knowsSpent \subseteq Nodes)
<1>1. Init => knowsSpent \subseteq Nodes
  BY DEF Init
<1>2. ASSUME NEW m \in Nodes, NEW n \in Nodes, Deliver(m, n)
      PROVE  UNCHANGED knowsSpent
  <2>1. SseeAdd(m, n) => UNCHANGED knowsSpent
    BY DEF SseeAdd
  <2>2. SseeUpdate(m, n) => UNCHANGED knowsSpent
    BY DEF SseeUpdate
  <2>3. SseepKnown(m, n) => UNCHANGED knowsSpent
    BY DEF SseepKnown
  <2>4. SseepUnknown(m, n) \/ Sseg(m, n) => UNCHANGED knowsSpent
    BY DEF SseepUnknown, Sseg
  <2> QED
    BY <1>2, <2>1, <2>2, <2>3, <2>4 DEF Deliver
<1>3. ASSUME NEW n \in Nodes,
             \/ CheckAndRemove(n) \/ ScanFailed(n) \/ ScanSucceeded(n)
             \/ LearnSpent(n) \/ DumpBlanknodes(n) \/ Restart(n) \/ RestartUnchecked(n)
      PROVE  knowsSpent' \subseteq knowsSpent \cup Nodes
  <2>1. CheckAndRemove(n) \/ ScanFailed(n) \/ ScanSucceeded(n) => UNCHANGED knowsSpent
    BY DEF CheckAndRemove, ScanFailed, ScanSucceeded
  <2>2. DumpBlanknodes(n) \/ Restart(n) \/ RestartUnchecked(n)
          => knowsSpent' \subseteq knowsSpent
    BY DEF DumpBlanknodes, Restart, RestartUnchecked
  <2>3. LearnSpent(n) => knowsSpent' = knowsSpent \cup {n}
    BY DEF LearnSpent
  <2> QED
    BY <1>3, <2>1, <2>2, <2>3
<1>4. ManageStatus \/ StopBlankNode \/ StartBlankNode \/ HostDies \/ Tick
        => UNCHANGED knowsSpent
  BY DEF ManageStatus, StopBlankNode, StartBlankNode, HostDies, Tick
<1>5. knowsSpent \subseteq Nodes /\ [Next]_vars => (knowsSpent \subseteq Nodes)'
  BY <1>2, <1>3, <1>4 DEF Next, vars
<1> QED
  BY <1>1, <1>5, PTL DEF Spec

(* A blanknode that is not enabled at a node that knows its collateral to  *)
(* be spent is never enabled there again: no announcement, ping, answer,   *)
(* scanning result or file brings it back, and a handler's Check that does *)
(* not get the lock leaves it as it is (CBlanknode::Check,                 *)
(* blanknodeman.cpp); only a start whose Check does not get it may.        *)
THEOREM SpentIsOut == Spec => SpentStaysOut
<1>1. ASSUME ListInv, knowsSpent \subseteq Nodes, [Next]_vars,
             NEW i \in knowsSpent, i \in knowsSpent', ~ Enabled(i)
      PROVE  ~ Enabled(i)' \/ RestartUnchecked(i)
  <2>1. i \in Nodes /\ ListTypes
    BY <1>1 DEF ListInv
  <2>2. CASE \E m, n \in Nodes : Deliver(m, n)
    BY <1>1, <2>1, <2>2, DeliverStaysOut
  <2>3. CASE \E n \in Nodes :
        \/ CheckAndRemove(n) \/ ScanFailed(n) \/ ScanSucceeded(n)
        \/ LearnSpent(n) \/ DumpBlanknodes(n) \/ Restart(n)
    BY <1>1, <2>1, <2>3, ListStaysOut
  <2>4. CASE ManageStatus \/ StopBlankNode \/ StartBlankNode \/ HostDies \/ Tick
    BY <1>1, <2>1, <2>4, HostStaysOut
  <2>5. CASE UNCHANGED vars
    BY <1>1, <2>5 DEF vars, Enabled
  <2>6. ASSUME NEW n \in Nodes, RestartUnchecked(n), n # i PROVE ~ Enabled(i)'
    BY <1>1, <2>1, <2>6 DEF RestartUnchecked, Enabled, ListTypes
  <2> QED
    BY <1>1, <2>2, <2>3, <2>4, <2>5, <2>6 DEF Next
<1>2. ListInv /\ knowsSpent \subseteq Nodes /\ [Next]_vars
        => [\A n \in knowsSpent :
              n \in knowsSpent' /\ ~ Enabled(n) => ~ Enabled(n)' \/ RestartUnchecked(n)]_vars
  BY <1>1
<1> QED
  BY <1>2, ListInvariant, KnownByNodes, PTL DEF Spec, SpentStaysOut
=============================================================================
