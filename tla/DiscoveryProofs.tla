---------------------------- MODULE DiscoveryProofs -----------------------------
(* What the nodes of Discovery know of each other, for any number of nodes, any  *)
(* address lists and any times, over a network that loses, delays, repeats and   *)
(* reorders.                                                                     *)
EXTENDS Discovery, FiniteSetTheorems, TLAPS

\* Whatever is on its way, or received and not yet handled, was sent by whom it names.
DatagramsAreSaid ==
  /\ \A n \in Nodes : \A d \in net[n] : d.addrs \in said[d.from]
  /\ \A n \in Nodes : inbox[n] # None => inbox[n].addrs \in said[inbox[n].from]

IInv == TypeOK /\ DatagramsAreSaid /\ PeersAreOthersAds

\* The invariant holds before any node has started.
LEMMA InitIInv == Init => IInv
<1> SUFFICES ASSUME Init PROVE IInv
  OBVIOUS
<1>1. TypeOK
  BY DEF Init, TypeOK
<1>2. DatagramsAreSaid /\ PeersAreOthersAds
  BY DEF Init, DatagramsAreSaid, PeersAreOthersAds
<1> QED
  BY <1>1, <1>2 DEF IInv

\* A step that brings no new datagram, reads none and adds no entry.
LEMMA LosingStep ==
  ASSUME IInv, TypeOK',
         \A n \in Nodes : net'[n] \subseteq net[n],
         \A n \in Nodes : inbox'[n] = inbox[n] \/ inbox'[n] = None,
         \A n, m \in Nodes : peers_'[n][m] = peers_[n][m] \/ peers_'[n][m] = None,
         said' = said
  PROVE  IInv'
  BY DEF IInv, DatagramsAreSaid, PeersAreOthersAds

\* What a receive brings was on its way.
LEMMA ArriveIInv ==
  ASSUME IInv, NEW n \in Nodes, NEW d \in Datagram, Arrive(n, d)
  PROVE  IInv'
<1> USE DEF IInv
<1>1. /\ d \in net[n]
      /\ inbox' = [inbox EXCEPT ![n] = d]
      /\ \A m \in Nodes : net'[m] \subseteq net[m]
      /\ UNCHANGED <<phase, addrs, peers_, age, uptime, update, said>>
  BY DEF Arrive, TypeOK
<1>2. TypeOK'
  <2>1. net' \in [Nodes -> SUBSET Datagram]
    BY DEF Arrive, TypeOK
  <2> QED
    BY <1>1, <2>1 DEF TypeOK
<1>3. DatagramsAreSaid'
  BY <1>1 DEF DatagramsAreSaid, TypeOK
<1> QED
  BY <1>1, <1>2, <1>3 DEF PeersAreOthersAds

\* One entry of a map of maps may be replaced by a value of the same type.
LEMMA EntryUpdate ==
  ASSUME NEW S, NEW f \in [Nodes -> [Nodes -> S]], NEW n \in Nodes, NEW m \in Nodes,
         NEW v \in S
  PROVE  [f EXCEPT ![n][m] = v] \in [Nodes -> [Nodes -> S]]
<1>1. [f[n] EXCEPT ![m] = v] \in [Nodes -> S]
  OBVIOUS
<1> QED
  BY <1>1

\* doReceive adds an entry only from the datagram, and never for the node itself.
LEMMA DoReceiveIInv ==
  ASSUME IInv, NEW n \in Nodes, DoReceive(n)
  PROVE  IInv'
<1> DEFINE d == inbox[n]
<1> USE DEF IInv
<1>1. /\ d \in Datagram /\ d # None
      /\ inbox' = [inbox EXCEPT ![n] = None]
      /\ UNCHANGED <<addrs, uptime, update, net, said>>
  BY DEF DoReceive, TypeOK
<1>2. d.from \in Nodes /\ d.addrs \in AddrLists /\ d.addrs \in said[d.from]
  BY <1>1 DEF Datagram, DatagramsAreSaid
<1>3. phase' = phase \/ phase' = [phase EXCEPT ![n] = "aborted"]
  BY DEF DoReceive
<1>4. \/ peers_' = peers_ /\ (age' = age \/ age' = [age EXCEPT ![n][d.from] = 0])
      \/ /\ d.from # n
         /\ peers_' = [peers_ EXCEPT ![n][d.from] = d.addrs]
         /\ age' = [age EXCEPT ![n][d.from] = 0]
  BY DEF DoReceive
<1> HIDE DEF d
<1>5. TypeOK'
  <2>1. peers_' \in [Nodes -> [Nodes -> AddrLists \cup {None}]]
    <3>1. peers_ \in [Nodes -> [Nodes -> AddrLists \cup {None}]]
      BY DEF TypeOK
    <3>2. [peers_ EXCEPT ![n][d.from] = d.addrs]
            \in [Nodes -> [Nodes -> AddrLists \cup {None}]]
      BY <1>2, <3>1, EntryUpdate
    <3> QED
      BY <1>4, <3>1, <3>2
  <2>2. age' \in [Nodes -> [Nodes -> Nat]]
    <3>1. age \in [Nodes -> [Nodes -> Nat]]
      BY DEF TypeOK
    <3>2. [age EXCEPT ![n][d.from] = 0] \in [Nodes -> [Nodes -> Nat]]
      BY <1>2, <3>1, EntryUpdate
    <3> QED
      BY <1>4, <3>1, <3>2
  <2>3. phase' \in [Nodes -> {"new", "up", "stopped", "failed", "crashed",
                              "aborted", "undefined", "threw"}]
    BY <1>3 DEF TypeOK
  <2> QED
    BY <1>1, <2>1, <2>2, <2>3 DEF TypeOK
<1>6. DatagramsAreSaid'
  BY <1>1 DEF DatagramsAreSaid, TypeOK
<1>7. PeersAreOthersAds'
  <2>1. ASSUME NEW p \in Nodes, NEW q \in Nodes, peers_'[p][q] # None
        PROVE  p # q /\ peers_'[p][q] \in said'[q]
    <3>1. CASE peers_'[p][q] = peers_[p][q]
      BY <1>1, <2>1, <3>1 DEF PeersAreOthersAds
    <3>2. CASE peers_'[p][q] # peers_[p][q]
      <4>1. p = n /\ q = d.from /\ d.from # n /\ peers_'[p][q] = d.addrs
        BY <1>2, <1>4, <3>2 DEF TypeOK
      <4> QED
        BY <1>1, <1>2, <4>1
    <3> QED
      BY <3>1, <3>2
  <2> QED
    BY <2>1 DEF PeersAreOthersAds
<1> QED
  BY <1>5, <1>6, <1>7

\* doNetworkUpdate sends what the node's interfaces say, and says it in its own name.
LEMMA DoNetworkUpdateIInv ==
  ASSUME IInv, NEW n \in Nodes, DoNetworkUpdate(n)
  PROVE  IInv'
<1> USE DEF IInv
<1>1. UNCHANGED <<addrs, peers_, age, uptime, inbox>>
  BY DEF DoNetworkUpdate
<1>2. CASE UNCHANGED <<net, said>>
  <2>1. TypeOK'
    BY <1>1, <1>2 DEF DoNetworkUpdate, TypeOK
  <2> QED
    BY <1>1, <1>2, <2>1, LosingStep
<1>3. CASE ~UNCHANGED <<net, said>>
  <2>1. /\ net' = SentBy(n)
        /\ said' = [said EXCEPT ![n] = @ \cup {addrs[n]}]
        /\ update' = [update EXCEPT ![n] = "send"]
        /\ phase' = phase
    BY <1>3 DEF DoNetworkUpdate
  <2>2. addrs[n] \in AddrLists
    BY DEF TypeOK
  <2>3. [from |-> n, addrs |-> addrs[n]] \in Datagram
    BY <2>2 DEF Datagram
  <2>4. net' \in [Nodes -> SUBSET Datagram]
    BY <2>1, <2>3 DEF SentBy, TypeOK
  <2>5. said' \in [Nodes -> SUBSET AddrLists]
    BY <2>1, <2>2 DEF TypeOK
  <2>6. TypeOK'
    BY <1>1, <2>1, <2>4, <2>5 DEF TypeOK
  <2>7. \A m \in Nodes : said[m] \subseteq said'[m]
    BY <2>1 DEF TypeOK
  <2>8. addrs[n] \in said'[n]
    BY <2>1 DEF TypeOK
  <2>9. ASSUME NEW m \in Nodes, NEW d \in net'[m]
        PROVE  d.addrs \in said'[d.from]
    <3>1. d \in net[m] \/ d = [from |-> n, addrs |-> addrs[n]]
      BY <2>1, <2>9 DEF SentBy
    <3>2. CASE d \in net[m]
      <4>1. d.from \in Nodes /\ d.addrs \in said[d.from]
        BY <3>2 DEF TypeOK, Datagram, DatagramsAreSaid
      <4> QED
        BY <2>7, <4>1
    <3>3. CASE d = [from |-> n, addrs |-> addrs[n]]
      BY <2>8, <3>3
    <3> QED
      BY <3>1, <3>2, <3>3
  <2>10. \A m \in Nodes : inbox[m] # None => inbox[m].addrs \in said'[inbox[m].from]
    BY <2>7 DEF TypeOK, Datagram, DatagramsAreSaid
  <2>11. PeersAreOthersAds'
    BY <1>1, <2>7 DEF PeersAreOthersAds
  <2> QED
    BY <1>1, <2>6, <2>9, <2>10, <2>11 DEF DatagramsAreSaid
<1> QED
  BY <1>2, <1>3

\* The check only takes entries away.
LEMMA DoPeerTimeoutCheckIInv ==
  ASSUME IInv, NEW n \in Nodes, DoPeerTimeoutCheck(n)
  PROVE  IInv'
<1> USE DEF IInv
<1>1. PICK gone \in SUBSET Expired(n) :
        /\ peers_' = [peers_ EXCEPT ![n] = [m \in Nodes |-> IF m \in gone THEN None ELSE @[m]]]
        /\ age' = [age EXCEPT ![n] = [m \in Nodes |-> IF m \in gone THEN 0 ELSE @[m]]]
  BY DEF DoPeerTimeoutCheck
<1>2. /\ phase' = phase \/ phase' = [phase EXCEPT ![n] = "undefined"]
      /\ UNCHANGED <<addrs, uptime, update, net, inbox, said>>
  BY DEF DoPeerTimeoutCheck
<1>3. \A p, q \in Nodes : peers_'[p][q] = peers_[p][q] \/ peers_'[p][q] = None
  BY <1>1 DEF TypeOK
<1>4. TypeOK'
  <2>1. peers_' \in [Nodes -> [Nodes -> AddrLists \cup {None}]]
    BY <1>1 DEF TypeOK
  <2>2. age' \in [Nodes -> [Nodes -> Nat]]
    BY <1>1 DEF TypeOK
  <2> QED
    BY <1>2, <2>1, <2>2 DEF TypeOK
<1> QED
  BY <1>2, <1>3, <1>4, LosingStep

\* Time changes ages only.
LEMMA TickIInv ==
  ASSUME IInv, Tick
  PROVE  IInv'
<1>1. TypeOK'
  BY TimesAssumption DEF IInv, Tick, UpTo, TypeOK
<1> QED
  BY <1>1, LosingStep DEF Tick, IInv

\* The rest neither send nor receive.
LEMMA OtherIInv ==
  ASSUME IInv, NEW n \in Nodes,
         \/ Start(n) \/ Stop(n) \/ Crash(n) \/ Readdress(n) \/ OnSendComplete(n)
         \/ \E d \in Datagram : Lose(n, d)
         \/ \E f \in Foreign : DoReceiveForeign(n, f)
  PROVE  IInv'
<1>1. TypeOK'
  <2>1. CASE Start(n)
    BY <2>1 DEF IInv, TypeOK, Start
  <2>2. CASE Stop(n)
    BY <2>2 DEF IInv, TypeOK, Stop
  <2>3. CASE Crash(n)
    BY <2>3 DEF IInv, TypeOK, Crash
  <2>4. CASE Readdress(n)
    BY <2>4 DEF IInv, TypeOK, Readdress
  <2>5. CASE OnSendComplete(n)
    BY <2>5 DEF IInv, TypeOK, OnSendComplete
  <2>6. CASE \E d \in Datagram : Lose(n, d)
    BY <2>6 DEF IInv, TypeOK, Lose
  <2>7. CASE \E f \in Foreign : DoReceiveForeign(n, f)
    BY <2>7 DEF IInv, TypeOK, DoReceiveForeign
  <2> QED
    BY <2>1, <2>2, <2>3, <2>4, <2>5, <2>6, <2>7
<1>2. /\ \A m \in Nodes : net'[m] \subseteq net[m]
      /\ \A m \in Nodes : inbox'[m] = inbox[m] \/ inbox'[m] = None
      /\ peers_' = peers_ /\ said' = said
  BY DEF IInv, TypeOK, Start, Stop, Crash, Readdress, OnSendComplete, Lose, DoReceiveForeign
<1> QED
  BY <1>1, <1>2, LosingStep

\* Every step preserves the invariant.
LEMMA StepIInv == IInv /\ [Next]_vars => IInv'
<1> SUFFICES ASSUME IInv, [Next]_vars PROVE IInv'
  OBVIOUS
<1>1. CASE UNCHANGED vars
  BY <1>1 DEF vars, IInv, TypeOK, DatagramsAreSaid, PeersAreOthersAds
<1> QED
  BY <1>1, ArriveIInv, DoReceiveIInv, DoNetworkUpdateIInv, DoPeerTimeoutCheckIInv,
     TickIInv, OtherIInv DEF Next

\* The invariant holds in every state, whatever the network does.
THEOREM Invariance == Spec => []IInv
<1> QED
  BY InitIInv, StepIInv, PTL DEF Spec

\* Every variable keeps its type, for any network and any times.
THEOREM DiscoveryTypeCorrect == Spec => []TypeOK
<1>1. IInv => TypeOK
  BY DEF IInv
<1> QED
  BY <1>1, Invariance, PTL

\* No node ever lists itself, or an address list that its peer never sent.
THEOREM OnlyOthersAdsAreListed == Spec => []PeersAreOthersAds
<1>1. IInv => PeersAreOthersAds
  BY DEF IInv
<1> QED
  BY <1>1, Invariance, PTL
------------------------------------------------------------------------------
\* No two interfaces of a node share an address.
Distinct(l) == \A i, j \in 1..Len(l) : l[i] = l[j] => i = j

\* A list of distinct addresses has as many addresses as it is long.
LEMMA DistinctCount ==
  ASSUME NEW l \in Seq(STRING), Distinct(l)
  PROVE  IsFiniteSet(AddressesOf(l)) /\ Cardinality(AddressesOf(l)) = Len(l)
<1> DEFINE S == 1..Len(l)
<1>1. Len(l) \in Nat /\ IsFiniteSet(S) /\ Cardinality(S) = Len(l)
  <2>1. Len(l) \in Nat /\ 1 \in Int /\ Len(l) \in Int
    OBVIOUS
  <2>2. IsFiniteSet(1..Len(l))
        /\ Cardinality(1..Len(l)) = IF 1 > Len(l) THEN 0 ELSE Len(l) - 1 + 1
    BY <2>1, FS_Interval, Zenon
  <2> QED
    BY <2>1, <2>2
<1>2. l \in [S -> AddressesOf(l)]
  BY DEF AddressesOf
<1>3. l \in Surjection(S, AddressesOf(l))
  BY <1>2 DEF Surjection, AddressesOf
<1>4. l \in Injection(S, AddressesOf(l))
  BY <1>2 DEF Injection, IsInjective, Distinct
<1> QED
  BY <1>1, <1>3, <1>4, FS_Surjection

\* operator==, which compares lengths and looks each address of one list up in the other,
\* is equality up to order where no address is listed twice.
LEMMA SamePeerIgnoresOrder ==
  ASSUME NEW p \in Seq(STRING), NEW q \in Seq(STRING), Distinct(p), Distinct(q),
         SamePeer(p, q)
  PROVE  AddressesOf(p) = AddressesOf(q)
<1>1. AddressesOf(p) \subseteq AddressesOf(q)
  BY DEF SamePeer, AddressesOf
<1>2. Len(p) = Len(q)
  BY DEF SamePeer
<1> QED
  BY <1>1, <1>2, DistinctCount, FS_Subset

\* And the other way about: lists of the same addresses are never taken for different.
LEMMA SamePeerIsSetEquality ==
  ASSUME NEW p \in Seq(STRING), NEW q \in Seq(STRING), Distinct(p), Distinct(q)
  PROVE  SamePeer(p, q) <=> AddressesOf(p) = AddressesOf(q)
<1>1. ASSUME AddressesOf(p) = AddressesOf(q) PROVE SamePeer(p, q)
  <2>1. Len(p) = Len(q)
    BY <1>1, DistinctCount
  <2>2. ASSUME NEW i \in 1..Len(p) PROVE \E j \in 1..Len(q) : p[i] = q[j]
    <3>1. p[i] \in AddressesOf(q)
      BY <1>1 DEF AddressesOf
    <3> QED
      BY <3>1 DEF AddressesOf
  <2> QED
    BY <2>1, <2>2 DEF SamePeer
<1> QED
  BY <1>1, SamePeerIgnoresOrder

\* Where no node lists an address twice, an entry has, after each datagram of its peer, the
\* addresses the datagram carried.
THEOREM EntriesFollowDatagrams ==
  ASSUME \A l \in AddrLists : Distinct(l)
  PROVE  Spec => EntryFollowsDatagram
<1> DEFINE Follows(n) ==
      LET d == inbox[n] IN
      d # None /\ inbox'[n] = None /\ d.from # n /\ phase'[n] \in {"up", "stopped"} =>
        AddressesOf(peers_'[n][d.from]) = AddressesOf(d.addrs)
<1>1. ASSUME IInv, NEW n \in Nodes, [Next]_vars
      PROVE  Follows(n)
  <2> DEFINE d == inbox[n]
  <2> SUFFICES ASSUME d # None, inbox'[n] = None, d.from # n,
                      phase'[n] \in {"up", "stopped"}
               PROVE  AddressesOf(peers_'[n][d.from]) = AddressesOf(d.addrs)
    OBVIOUS
  <2>1. d \in Datagram /\ d.from \in Nodes /\ d.addrs \in AddrLists
    BY <1>1 DEF IInv, TypeOK, Datagram
  <2>2. inbox \in [Nodes -> Datagram \cup {None}] /\ DOMAIN phase = Nodes
    BY <1>1 DEF IInv, TypeOK
  <2>3. ~Crash(n)
    <3>1. SUFFICES ASSUME Crash(n) PROVE phase'[n] = "crashed"
      OBVIOUS
    <3> QED
      BY <1>1, <3>1 DEF Crash, IInv, TypeOK
  <2>4. ~\E m \in Nodes, e \in Datagram : Arrive(m, e) /\ inbox'[n] = None
    BY <2>2, NoneAssumption DEF Arrive
  <2>5. DoReceive(n)
    <3>1. \A m \in Nodes : m # n => ~Crash(m) /\ ~DoReceive(m)
      BY <2>2 DEF Crash, DoReceive
    <3> QED
      BY <1>1, <2>2, <2>3, <2>4, <3>1
         DEF Next, Start, Stop, Readdress, DoPeerTimeoutCheck, DoNetworkUpdate, OnSendComplete,
             Lose, DoReceiveForeign, Tick, vars
  <2>6. phase'[n] # "aborted"
    OBVIOUS
  <2>7. ~TooLong(d)
    BY <1>1, <2>5, <2>6 DEF DoReceive, IInv, TypeOK
  <2> DEFINE old == peers_[n][d.from]
  <2>8. peers_' = IF old = None \/ ~SamePeer(d.addrs, old)
                  THEN [peers_ EXCEPT ![n][d.from] = d.addrs] ELSE peers_
    BY <2>5, <2>7 DEF DoReceive
  <2>9. CASE old = None \/ ~SamePeer(d.addrs, old)
    BY <1>1, <2>1, <2>8, <2>9 DEF IInv, TypeOK
  <2>10. CASE old # None /\ SamePeer(d.addrs, old)
    <3>1. old \in AddrLists /\ peers_'[n][d.from] = old
      BY <1>1, <2>1, <2>8, <2>10 DEF IInv, TypeOK
    <3> QED
      BY <2>1, <2>10, <3>1, ListsAssumption, SamePeerIgnoresOrder
  <2> QED
    BY <2>9, <2>10
<1>2. IInv /\ [Next]_vars => \A n \in Nodes : Follows(n)
  BY <1>1
<1> QED
  BY <1>2, Invariance, PTL DEF Spec, EntryFollowsDatagram
------------------------------------------------------------------------------
(* What becomes of a peer that is gone *)

\* m has been up and is no more, and n has no entry of it and nothing that it sent.
Forgotten(n, m) ==
  /\ phase[m] \notin {"new", "up"} /\ peers_[n][m] = None
  /\ \A d \in net[n] : d.from # m
  /\ inbox[n] # None => inbox[n].from # m

\* Nobody speaks for m, and n makes entries of what it receives only.
LEMMA ForgottenStep ==
  ASSUME IInv, NEW n \in Nodes, NEW m \in Nodes, Forgotten(n, m), [Next]_vars
  PROVE  Forgotten(n, m)'
<1> USE DEF IInv
<1>1. ASSUME phase'[m] \notin {"new", "up"}, peers_'[n][m] = None, net'[n] \subseteq net[n],
             inbox'[n] \in {inbox[n], None} \cup net[n]
      PROVE  Forgotten(n, m)'
  BY <1>1 DEF Forgotten
<1>2. CASE UNCHANGED vars
  BY <1>1, <1>2 DEF vars, Forgotten
<1>3. ASSUME NEW k \in Nodes, Start(k) \/ Stop(k) \/ Crash(k) \/ Readdress(k) \/ OnSendComplete(k)
      PROVE  Forgotten(n, m)'
  <2>1. phase'[m] \notin {"new", "up"}
    BY <1>3 DEF Start, Stop, Crash, Readdress, OnSendComplete, Forgotten, TypeOK
  <2>2. peers_' = peers_ /\ net'[n] \subseteq net[n] /\ inbox'[n] \in {inbox[n], None}
    BY <1>3 DEF Start, Stop, Crash, Readdress, OnSendComplete, TypeOK
  <2> QED
    BY <1>1, <2>1, <2>2 DEF Forgotten
<1>4. ASSUME NEW k \in Nodes, DoReceive(k)
      PROVE  Forgotten(n, m)'
  <2>1. phase'[m] \notin {"new", "up"} /\ net' = net /\ inbox'[n] \in {inbox[n], None}
    BY <1>4 DEF DoReceive, Forgotten, TypeOK
  <2>2. peers_'[n][m] = None
    <3>1. CASE k # n
      BY <1>4, <3>1 DEF DoReceive, Forgotten, TypeOK
    <3>2. CASE k = n
      <4>1. inbox[n] # None /\ inbox[n].from # m
        BY <1>4, <3>2 DEF DoReceive, Forgotten
      <4>2. \/ peers_' = peers_
            \/ peers_' = [peers_ EXCEPT ![n][inbox[n].from] = inbox[n].addrs]
        BY <1>4, <3>2 DEF DoReceive
      <4> QED
        BY <4>1, <4>2 DEF Forgotten, TypeOK
    <3> QED
      BY <3>1, <3>2
  <2> QED
    BY <1>1, <2>1, <2>2
<1>5. ASSUME NEW k \in Nodes, DoPeerTimeoutCheck(k)
      PROVE  Forgotten(n, m)'
  <2>1. phase'[m] \notin {"new", "up"} /\ net' = net /\ inbox' = inbox
    BY <1>5 DEF DoPeerTimeoutCheck, Forgotten, TypeOK
  <2>2. peers_'[n][m] = None
    BY <1>5 DEF DoPeerTimeoutCheck, Forgotten, TypeOK
  <2> QED
    BY <1>1, <2>1, <2>2
<1>6. ASSUME NEW k \in Nodes, DoNetworkUpdate(k)
      PROVE  Forgotten(n, m)'
  <2>1. phase'[m] \notin {"new", "up"} /\ UNCHANGED <<peers_, inbox>>
    BY <1>6 DEF DoNetworkUpdate, Forgotten, TypeOK
  <2>2. CASE net' = net
    BY <1>1, <2>1, <2>2 DEF Forgotten
  <2>3. CASE net' # net
    <3>1. phase[k] = "up" /\ net' = SentBy(k)
      BY <1>6, <2>3 DEF DoNetworkUpdate
    <3>2. k # m
      BY <3>1 DEF Forgotten
    <3>3. \A d \in net'[n] : d.from # m
      BY <3>1, <3>2 DEF SentBy, Forgotten
    <3> QED
      BY <2>1, <3>3 DEF Forgotten
  <2> QED
    BY <2>2, <2>3
<1>7. ASSUME NEW k \in Nodes, NEW d \in Datagram, Arrive(k, d) \/ Lose(k, d)
      PROVE  Forgotten(n, m)'
  <2>1. UNCHANGED <<phase, peers_>>
    BY <1>7 DEF Arrive, Lose
  <2>2. net'[n] \subseteq net[n] /\ inbox'[n] \in {inbox[n]} \cup net[n]
    BY <1>7 DEF Arrive, Lose, TypeOK
  <2> QED
    BY <1>1, <2>1, <2>2 DEF Forgotten
<1>8. ASSUME NEW k \in Nodes, NEW f \in Foreign, DoReceiveForeign(k, f)
      PROVE  Forgotten(n, m)'
  <2>1. phase[k] = "up" /\ phase' = [phase EXCEPT ![k] = IF f = "badid" THEN "threw" ELSE "up"]
        /\ UNCHANGED <<peers_, net, inbox>>
    BY <1>8 DEF DoReceiveForeign
  <2>2. phase'[m] = phase[m]
    BY <2>1 DEF Forgotten, TypeOK
  <2> QED
    BY <1>1, <2>1, <2>2 DEF Forgotten
<1>9. CASE Tick
  BY <1>1, <1>9 DEF Tick, Forgotten
<1> QED
  BY <1>2, <1>3, <1>4, <1>5, <1>6, <1>7, <1>8, <1>9 DEF Next

\* However late and often datagrams come: a peer that is gone does not come back from the
\* dead once its entry has expired and the last of its datagrams has arrived or got lost.
THEOREM ForgottenForGood ==
  ASSUME NEW n \in Nodes, NEW m \in Nodes
  PROVE  Spec => [](Forgotten(n, m) => []Forgotten(n, m))
<1>1. IInv /\ Forgotten(n, m) /\ [Next]_vars => Forgotten(n, m)'
  BY ForgottenStep
<1> QED
  BY <1>1, Invariance, PTL DEF Spec
==============================================================================
