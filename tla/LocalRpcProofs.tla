---------------------------- MODULE LocalRpcProofs -----------------------------
(* How far a process's clients get with the proxy they share, for any number of   *)
(* them.                                                                          *)
EXTENDS LocalRpc, TLAPS

\* The places a client does come to.
Before == {"idle", "get", "run", "threw"}

\* Whoever runs the io_service does so with the mutex, while asio refuses to accept: there
\* is always a handler left to run.
IInv ==
  /\ at \in [Clients -> Before \cup {"serve"}]
  /\ accept \in {"none", "refused"} /\ channels = 0
  /\ \A c \in Clients : at[c] = "serve" => mtx_ = c /\ accept = "refused"

\* Every step of a client keeps the invariant.
LEMMA StepIInv == None \notin Clients /\ IInv /\ [Next]_vars => IInv'
<1> SUFFICES ASSUME None \notin Clients, IInv, [Next]_vars PROVE IInv'
  OBVIOUS
<1> USE DEF IInv, Before, Goes
<1>1. CASE UNCHANGED vars
  BY <1>1 DEF vars
<1>2. ASSUME NEW c \in Clients, Connect(c) \/ Get(c) PROVE IInv'
  BY <1>2 DEF Connect, Get
<1>3. ASSUME NEW c \in Clients, Run(c) PROVE IInv'
  BY <1>3 DEF Run, SetupNextAccept
<1>4. ASSUME NEW c \in Clients, DoAccept(c) PROVE IInv'
  BY <1>4 DEF DoAccept
<1>5. ASSUME NEW c \in Clients, RunReturns(c) \/ GetPath(c) \/ ConnectSocket(c) PROVE FALSE
  BY <1>5 DEF RunReturns, GetPath, ConnectSocket
<1> QED
  BY <1>1, <1>2, <1>3, <1>4, <1>5 DEF Next, Client

\* The invariant holds in every state of every process.
LEMMA Invariance ==
  ASSUME None \notin Clients
  PROVE  Spec => []IInv
<1>1. Init => IInv
  BY DEF Init, IInv, Before
<1>2. IInv /\ [Next]_vars => IInv'
  BY StepIInv
<1> QED
  BY <1>1, <1>2, PTL DEF Spec

\* No client is past its wait for the proxy, and no channel was made for one.
NobodyConnected ==
  (\A c \in Clients : at[c] \notin {"getPath", "connect", "connected", "failed"}) /\ channels = 0

\* The thread that starts the proxy becomes the proxy, and those that follow wait for its
\* mutex: of any number of clients none comes to connect its socket, to be told of success
\* or of failure.
THEOREM NobodyConnects ==
  ASSUME None \notin Clients
  PROVE  Spec => []NobodyConnected
<1>1. IInv => NobodyConnected
  BY DEF IInv, NobodyConnected, Before
<1> QED
  BY <1>1, Invariance, PTL

\* One client serves, with the mutex, and the others have not gone past it.
AlonePast(c) == at[c] = "serve" /\ mtx_ = c /\ \A d \in Clients \ {c} : at[d] \in Before

\* ProxyThread::run() holds mtx_ as long as the io_service runs, which is for ever: whoever
\* gets to serve has no company, and no client ever goes past the mutex again.
THEOREM ServesForEver ==
  ASSUME None \notin Clients, NEW c \in Clients
  PROVE  Spec => [](at[c] = "serve" => []AlonePast(c))
<1>1. IInv /\ at[c] = "serve" => AlonePast(c)
  BY DEF IInv, AlonePast, Before
<1>2. IInv /\ IInv' /\ AlonePast(c) /\ [Next]_vars => AlonePast(c)'
  <2> SUFFICES ASSUME IInv, IInv', AlonePast(c), [Next]_vars PROVE AlonePast(c)'
    OBVIOUS
  <2>1. at'[c] = "serve"
    <3>1. CASE UNCHANGED vars
      BY <3>1 DEF vars, AlonePast
    <3>2. ASSUME NEW d \in Clients, Connect(d) \/ Client(d)
          PROVE  at'[c] = "serve"
      BY <3>2 DEF Connect, Client, Get, Run, DoAccept, RunReturns, GetPath, ConnectSocket, Goes,
                  AlonePast, IInv
    <3> QED
      BY <3>1, <3>2 DEF Next
  <2> QED
    BY <2>1 DEF IInv, AlonePast, Before
<1> QED
  BY <1>1, <1>2, Invariance, PTL DEF Spec
==============================================================================
