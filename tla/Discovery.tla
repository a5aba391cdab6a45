------------------------------- MODULE Discovery --------------------------------
(* librfs's Discovery: nodes that multicast where they can be reached and keep   *)
(* a map of the peers they hear from, which expire when they fall silent.        *)
(*                                                                               *)
(* A node's handlers run one at a time on its io_service; what happens between   *)
(* two of them is another node's step, the network's, or the clock's.  UDP loses *)
(* datagrams, delivers them late, twice and out of order.                        *)
(*                                                                               *)
(* Abstractions.  An advertisement is its list of addresses, a datagram has the  *)
(* size SizeOf gives it, and the port, which a node never changes, is left out.  *)
(* Time is a tick that all nodes see; lastSeen is kept as the ticks since, and   *)
(* counted no further than makes a difference.  A handler that runs with an      *)
(* error re-arms itself and changes nothing, so it is not a step.                *)
EXTENDS Integers, Sequences

CONSTANTS
  Nodes,
  AddrLists,           \* the lists getifaddrs may yield
  SizeOf,              \* the size of the datagram that carries a list
  Looped,              \* the nodes to which the network brings their own datagrams
  Mortal, Movable,     \* the nodes that may stop or crash, and whose addresses may change
  Foreign,             \* datagrams of other programs: a subset of "unparsable", "badid"
  MaxMessageSize, MaxPeerTimeoutTime, PeerIdleCheckTime, NetworkUpdateTime,
  None

ASSUME ListsAssumption == /\ \A l \in AddrLists : l \in Seq(STRING)
                          /\ SizeOf \in [AddrLists -> Nat]
ASSUME TimesAssumption == MaxPeerTimeoutTime \in Nat /\ PeerIdleCheckTime \in Nat
                          /\ NetworkUpdateTime \in Nat /\ MaxMessageSize \in Nat
ASSUME NetworkAssumption == /\ Looped \subseteq Nodes /\ Mortal \subseteq Nodes /\ Movable \subseteq Nodes
                            /\ Foreign \subseteq {"unparsable", "badid"}

VARIABLES
  phase,   \* of each node: "new", "up", "stopped"; "aborted" by an assert, "undefined"
           \* behaviour, an exception "threw" out of a handler, stop() "failed"; "crashed"
  addrs,   \* the addresses of each node's interfaces
  peers_,  \* the list each node has for each other one, None if it has no entry
  age,     \* the ticks since lastSeen of each entry
  uptime,  \* the ticks since each node was constructed
  update,  \* updateTimer_'s loop: in a "wait" for the timer, or in a "send"
  net,     \* the datagrams on their way to each node
  inbox,   \* the datagram of a receive that completed and whose handler is yet to run
  said     \* every list a node has sent

vars == <<phase, addrs, peers_, age, uptime, update, net, inbox, said>>
------------------------------------------------------------------------------
Datagram == [from : Nodes, addrs : AddrLists]

ASSUME NoneAssumption == None \notin AddrLists /\ None \notin Datagram

\* Equality that takes lists of one length for the same.
SamePeerByLength(p, q) == Len(p) = Len(q)

\* Peer::operator==: lists of one length, each address of the left one in the right one.
SamePeer(p, q) ==
  /\ Len(p) = Len(q)
  /\ \A i \in 1..Len(p) : \E j \in 1..Len(q) : p[i] = q[j]

\* The handlers of a node still run after stop(), whose socket is closed.
Running(n) == phase[n] \in {"up", "stopped"}

Expired(n) == {m \in Nodes : peers_[n][m] # None /\ age[n][m] > MaxPeerTimeoutTime}
------------------------------------------------------------------------------
(* start, stop, and the end of a node *)

Start(n) ==
  /\ phase[n] = "new"
  /\ phase' = [phase EXCEPT ![n] = "up"]
  /\ UNCHANGED <<addrs, peers_, age, uptime, update, net, inbox, said>>

\* Closing the socket drops what the kernel holds for it, but not a receive that already
\* completed.  On a socket that is not open socket_.cancel() throws.
Stop(n) ==
  /\ n \in Mortal /\ phase[n] \in {"new", "up", "stopped"}
  /\ phase' = [phase EXCEPT ![n] = IF phase[n] = "up" THEN "stopped" ELSE "failed"]
  /\ net' = [net EXCEPT ![n] = {}]
  /\ UNCHANGED <<addrs, peers_, age, uptime, update, inbox, said>>

Crash(n) ==
  /\ n \in Mortal /\ phase[n] = "up"
  /\ phase' = [phase EXCEPT ![n] = "crashed"]
  /\ net' = [net EXCEPT ![n] = {}]
  /\ inbox' = [inbox EXCEPT ![n] = None]
  /\ UNCHANGED <<addrs, peers_, age, uptime, update, said>>
------------------------------------------------------------------------------
(* doReceive *)

\* The kernel completes the receive; the datagram may come again.
Arrive(n, d) ==
  /\ phase[n] = "up" /\ inbox[n] = None /\ d \in net[n]
  /\ inbox' = [inbox EXCEPT ![n] = d]
  /\ \/ net' = [net EXCEPT ![n] = @ \ {d}]
     \/ net' = net
  /\ UNCHANGED <<phase, addrs, peers_, age, uptime, update, said>>

\* A datagram longer than the buffer is cut to MaxMessageSize bytes.
TooLong(d) == SizeOf[d.addrs] >= MaxMessageSize

\* A receive that takes the node's own advertisement for a peer's.
DoReceiveOwn(n) ==
  LET d == inbox[n] IN
  /\ Running(n) /\ d # None
  /\ inbox' = [inbox EXCEPT ![n] = None]
  /\ peers_' = [peers_ EXCEPT ![n][d.from] = d.addrs]
  /\ age' = [age EXCEPT ![n][d.from] = 0]
  /\ UNCHANGED <<phase, addrs, uptime, update, net, said>>

\* A receive that only ever adds.
DoReceiveAddsOnly(n) ==
  LET d == inbox[n] IN
  /\ Running(n) /\ d # None
  /\ inbox' = [inbox EXCEPT ![n] = None]
  /\ IF d.from # n /\ peers_[n][d.from] = None
     THEN peers_' = [peers_ EXCEPT ![n][d.from] = d.addrs] ELSE peers_' = peers_
  /\ age' = [age EXCEPT ![n][d.from] = 0]
  /\ UNCHANGED <<phase, addrs, uptime, update, net, said>>

\* doReceive, with its data or after stop().  The entry takes the received list only if
\* the received one differs from it, in operator=='s sense.
DoReceive(n) ==
  LET d == inbox[n]
      old == peers_[n][d.from]
  IN
  /\ Running(n) /\ d # None
  /\ inbox' = [inbox EXCEPT ![n] = None]
  /\ \/ /\ TooLong(d)
        /\ phase' = [phase EXCEPT ![n] = "aborted"]
        /\ UNCHANGED <<peers_, age>>
     \/ /\ ~TooLong(d) /\ d.from = n
        /\ UNCHANGED <<phase, peers_, age>>
     \/ /\ ~TooLong(d) /\ d.from # n
        /\ peers_' = IF old = None \/ ~SamePeer(d.addrs, old)
                     THEN [peers_ EXCEPT ![n][d.from] = d.addrs] ELSE peers_
        /\ age' = [age EXCEPT ![n][d.from] = 0]
        /\ UNCHANGED phase
  /\ UNCHANGED <<addrs, uptime, update, net, said>>

\* What is not a proto::Peer is dropped; isValid does not look at the id or the addresses,
\* whose conversion then throws before the next receive is set up.
DoReceiveForeign(n, f) ==
  /\ phase[n] = "up" /\ inbox[n] = None
  /\ phase' = [phase EXCEPT ![n] = IF f = "badid" THEN "threw" ELSE "up"]
  /\ UNCHANGED <<addrs, peers_, age, uptime, update, net, inbox, said>>
------------------------------------------------------------------------------
(* The two timers, whose expiry is set once and for all by the constructor: once it has *)
(* passed, every wait for it is over at once.                                           *)

\* A check that also forgets that an expired peer may come back.
DoPeerTimeoutCheckDrops(n) ==
  /\ Running(n) /\ uptime[n] >= PeerIdleCheckTime /\ Expired(n) # {}
  /\ peers_' = [peers_ EXCEPT ![n] = [m \in Nodes |-> IF m \in Expired(n) THEN None ELSE @[m]]]
  /\ age' = [age EXCEPT ![n] = [m \in Nodes \ Expired(n) |-> @[m]]]
  /\ UNCHANGED <<phase, addrs, uptime, update, net, inbox, said>>

\* doPeerTimeoutCheck erases the entry under its iterator and then advances it: the loop
\* goes on as meant, ends early, or runs into memory that is not an entry.
DoPeerTimeoutCheck(n) ==
  /\ Running(n) /\ uptime[n] >= PeerIdleCheckTime
  /\ \E gone \in SUBSET Expired(n) :
       /\ gone # {}
       /\ peers_' = [peers_ EXCEPT ![n] = [m \in Nodes |-> IF m \in gone THEN None ELSE @[m]]]
       /\ age' = [age EXCEPT ![n] = [m \in Nodes |-> IF m \in gone THEN 0 ELSE @[m]]]
  /\ \/ UNCHANGED phase
     \/ phase' = [phase EXCEPT ![n] = "undefined"]
  /\ UNCHANGED <<addrs, uptime, update, net, inbox, said>>

\* The sockets a datagram of n reaches: those that have joined the group.
Listeners(n) == {m \in Nodes : phase[m] = "up" /\ (m = n => n \in Looped)}

SentBy(n) == [m \in Nodes |-> IF m \in Listeners(n)
               THEN net[m] \cup {[from |-> n, addrs |-> addrs[n]]} ELSE net[m]]

\* An update that still goes out when the node has been stopped.
DoNetworkUpdateAlways(n) ==
  /\ Running(n) /\ uptime[n] >= NetworkUpdateTime /\ update[n] # "send"
  /\ update' = [update EXCEPT ![n] = "send"]
  /\ net' = SentBy(n)
  /\ said' = [said EXCEPT ![n] = @ \cup {addrs[n]}]
  /\ UNCHANGED <<phase, addrs, peers_, age, uptime, inbox>>

\* doNetworkUpdate: the datagram goes to all listeners; on a closed socket the send fails.
DoNetworkUpdate(n) ==
  /\ Running(n) /\ uptime[n] >= NetworkUpdateTime /\ update[n] # "send"
  /\ \/ /\ SizeOf[addrs[n]] > MaxMessageSize
        /\ phase' = [phase EXCEPT ![n] = "aborted"]
        /\ UNCHANGED <<update, net, said>>
     \/ /\ SizeOf[addrs[n]] <= MaxMessageSize
        /\ update' = [update EXCEPT ![n] = "send"]
        /\ IF phase[n] = "up"
           THEN /\ net' = SentBy(n)
                /\ said' = [said EXCEPT ![n] = @ \cup {addrs[n]}]
           ELSE UNCHANGED <<net, said>>
        /\ UNCHANGED phase
  /\ UNCHANGED <<addrs, peers_, age, uptime, inbox>>

\* onSendComplete, whatever became of the send.
OnSendComplete(n) ==
  /\ Running(n) /\ update[n] = "send"
  /\ update' = [update EXCEPT ![n] = "wait"]
  /\ UNCHANGED <<phase, addrs, peers_, age, uptime, net, inbox, said>>
------------------------------------------------------------------------------
(* The network, the interfaces and the clock *)

Lose(n, d) ==
  /\ d \in net[n]
  /\ net' = [net EXCEPT ![n] = @ \ {d}]
  /\ UNCHANGED <<phase, addrs, peers_, age, uptime, update, inbox, said>>

Readdress(n) ==
  /\ n \in Movable /\ phase[n] = "up"
  /\ \E l \in AddrLists \ {addrs[n]} : addrs' = [addrs EXCEPT ![n] = l]
  /\ UNCHANGED <<phase, peers_, age, uptime, update, net, inbox, said>>

UpTo(k, bound) == IF k < bound THEN k + 1 ELSE bound

Tick ==
  /\ age' = [n \in Nodes |-> [m \in Nodes |->
               IF peers_[n][m] = None THEN 0 ELSE UpTo(age[n][m], MaxPeerTimeoutTime + 1)]]
  /\ uptime' = [n \in Nodes |-> UpTo(uptime[n], PeerIdleCheckTime + NetworkUpdateTime)]
  /\ UNCHANGED <<phase, addrs, peers_, update, net, inbox, said>>
------------------------------------------------------------------------------
Init ==
  /\ phase = [n \in Nodes |-> "new"]
  /\ addrs \in [Nodes -> AddrLists]
  /\ peers_ = [n \in Nodes |-> [m \in Nodes |-> None]]
  /\ age = [n \in Nodes |-> [m \in Nodes |-> 0]]
  /\ uptime = [n \in Nodes |-> 0]
  /\ update = [n \in Nodes |-> "wait"]
  /\ net = [n \in Nodes |-> {}]
  /\ inbox = [n \in Nodes |-> None]
  /\ said = [n \in Nodes |-> {}]

Next ==
  \/ \E n \in Nodes : \/ Start(n) \/ Stop(n) \/ Crash(n) \/ Readdress(n)
                       \/ DoReceive(n) \/ DoPeerTimeoutCheck(n)
                       \/ DoNetworkUpdate(n) \/ OnSendComplete(n)
  \/ \E n \in Nodes, d \in Datagram : Arrive(n, d) \/ Lose(n, d)
  \/ \E n \in Nodes, f \in Foreign : DoReceiveForeign(n, f)
  \/ Tick

ArriveFrom(n, m) == \E d \in Datagram : d.from = m /\ Arrive(n, d) /\ d \notin net'[n]

\* What one node sends another again and again arrives again and again.
FairLink(n, m) ==
  []<>(phase[n] = "up" /\ \E d \in net[n] : d.from = m) => []<><<ArriveFrom(n, m)>>_vars

\* Each node's io_service runs the handlers that are ready, time goes by, and no link
\* loses everything.
Fairness ==
  /\ \A n \in Nodes : /\ WF_vars(DoReceive(n)) /\ WF_vars(DoPeerTimeoutCheck(n))
                      /\ WF_vars(DoNetworkUpdate(n)) /\ WF_vars(OnSendComplete(n))
                      /\ \A m \in Nodes \ {n} : FairLink(n, m)
  /\ WF_vars(Tick)

Spec == Init /\ [][Next]_vars

FairSpec == Spec /\ Fairness
------------------------------------------------------------------------------
(* Properties *)

\* Every variable has its type.
TypeOK ==
  /\ phase \in [Nodes -> {"new", "up", "stopped", "failed", "crashed",
                          "aborted", "undefined", "threw"}]
  /\ addrs \in [Nodes -> AddrLists]
  /\ peers_ \in [Nodes -> [Nodes -> AddrLists \cup {None}]]
  /\ age \in [Nodes -> [Nodes -> Nat]]
  /\ uptime \in [Nodes -> Nat]
  /\ update \in [Nodes -> {"wait", "send"}]
  /\ net \in [Nodes -> SUBSET Datagram]
  /\ inbox \in [Nodes -> Datagram \cup {None}]
  /\ said \in [Nodes -> SUBSET AddrLists]

\* A node's map holds other nodes only, each with a list that node did send, however late,
\* twice or out of order the datagrams came and though a node hears its own.
PeersAreOthersAds ==
  \A n, m \in Nodes : peers_[n][m] # None => n # m /\ peers_[n][m] \in said[m]

AddressesOf(list) == {list[i] : i \in 1..Len(list)}

\* After a datagram of a peer is handled, the peer's entry has the addresses it carried.
\* Discovery.hpp:50, of the comparison that decides it: "true if equal (address ordering
\* is ignored)".
EntryFollowsDatagram ==
  [][\A n \in Nodes : LET d == inbox[n] IN
       d # None /\ inbox'[n] = None /\ d.from # n /\ phase'[n] \in {"up", "stopped"} =>
         AddressesOf(peers_'[n][d.from]) = AddressesOf(d.addrs)]_vars

\* Of two nodes that stay up, each learns the addresses at which the other stays, and
\* learns them again whenever late datagrams or an expiry undid it.
PeersLearned ==
  \A n, m \in Nodes, l \in AddrLists : n # m =>
    (<>[](phase[n] = "up" /\ phase[m] = "up" /\ addrs[m] = l) =>
       []<>(peers_[n][m] # None /\ AddressesOf(peers_[n][m]) = AddressesOf(l)))

\* A peer that stopped or died is dropped for good, unless the dropping takes the node down
\* that does it.
GoneForgotten ==
  \A n, m \in Nodes : n # m =>
    (<>[](Running(n) /\ phase[m] # "up") => <>[](peers_[n][m] = None))

\* Discovery.hpp:27: "if a peer hasn't advertised in a specified amount of time there will
\* be a callback": the check that drops one expired peer drops each, and is survived.
CheckReportsExpired ==
  [][\A n \in Nodes :
       (\E m \in Nodes : peers_[n][m] # None /\ peers_'[n][m] = None) =>
         phase'[n] = phase[n] /\ \A m \in Expired(n) : peers_'[n][m] = None]_vars
==============================================================================
