------------------------------- MODULE LocalRpc --------------------------------
(* Client::connect, ProxyThread, Proxy and LocalListener: a process's clients and *)
(* the proxy they share, which the first of them is to start.                     *)
(*                                                                                *)
(* Threads of one process each have a Client.  What follows a connection (the     *)
(* exchange of execCmd, Peer's answers) is not modelled: no client gets there.    *)
EXTENDS Integers

CONSTANTS
  Clients,
  None

VARIABLES
  at,        \* where each client is: "idle", "get", "run", "serve", "getPath", "connect",
             \* "connected", "failed" or "threw"
  instance,  \* whether ProxyThread's static object is there
  mtx_,      \* the client that holds ProxyThread's mutex, or None
  accept,    \* asio's async_accept: "none", "under way", "refused" or "accepted"
  channels,  \* how many channels peer_ was given
  status     \* "up" or "aborted"

vars == <<at, instance, mtx_, accept, channels, status>>
------------------------------------------------------------------------------
Goes(c, from, to) == status = "up" /\ at[c] = from /\ at' = [at EXCEPT ![c] = to]

Connect(c) ==
  /\ Goes(c, "idle", "get")
  /\ UNCHANGED <<instance, mtx_, accept, channels, status>>

\* The first get() makes the Proxy, whose acceptor binds /tmp/rfs_<pid>; that throws if a
\* process that had the number before has left the file, and the next get() tries again.
Get(c) ==
  /\ \/ Goes(c, "get", "run") /\ instance' = TRUE
     \/ Goes(c, "get", "threw") /\ ~instance /\ UNCHANGED instance
  /\ UNCHANGED <<mtx_, accept, channels, status>>

\* The new Channel's constructor has opened its socket, into which asio accepts nothing.
SetupNextAccept == accept' = "refused"

\* running_ is false for ever.  The io_service runs in this thread, with the mutex held.
Run(c) ==
  /\ Goes(c, "run", "serve")
  /\ mtx_ = None /\ mtx_' = c
  /\ SetupNextAccept
  /\ UNCHANGED <<instance, channels, status>>

DoAccept(c) ==
  /\ status = "up" /\ at[c] = "serve"
  /\ \/ /\ accept = "refused"
        /\ status' = "aborted"
        /\ UNCHANGED <<accept, channels>>
     \/ /\ accept = "accepted"
        /\ channels' = channels + 1
        /\ SetupNextAccept
        /\ UNCHANGED status
  /\ UNCHANGED <<at, instance, mtx_>>

\* run() returns when the io_service has nothing left to do.
RunReturns(c) ==
  /\ Goes(c, "serve", "getPath")
  /\ accept = "none"
  /\ mtx_' = None
  /\ UNCHANGED <<instance, accept, channels, status>>

GetPath(c) ==
  /\ Goes(c, "getPath", "connect")
  /\ mtx_ = None
  /\ UNCHANGED <<instance, mtx_, accept, channels, status>>

\* The acceptor listens, so that ::connect() does not wait for an accept.
ConnectSocket(c) ==
  /\ \/ /\ Goes(c, "connect", "connected")
        /\ accept' = IF accept = "under way" THEN "accepted" ELSE accept
     \/ Goes(c, "connect", "failed") /\ UNCHANGED accept
  /\ UNCHANGED <<instance, mtx_, channels, status>>
------------------------------------------------------------------------------
Init ==
  /\ at = [c \in Clients |-> "idle"]
  /\ instance = FALSE /\ mtx_ = None /\ accept = "none" /\ channels = 0
  /\ status = "up"

Client(c) == Get(c) \/ Run(c) \/ DoAccept(c) \/ RunReturns(c) \/ GetPath(c) \/ ConnectSocket(c)

Next == \E c \in Clients : Connect(c) \/ Client(c)

Spec == Init /\ [][Next]_vars

\* Every thread that can go on does.
FairSpec == Spec /\ \A c \in Clients : WF_vars(Client(c))
------------------------------------------------------------------------------
(* Properties *)

\* Client.cpp:30: "This can safely be called multiple times; only the first time will cause
\* the thread to run."  A client that connects is connected, or told that it is not,
\* whichever other clients connect at the time.
ConnectReturns == \A c \in Clients : at[c] = "get" ~> at[c] \in {"connected", "failed", "threw"}
==============================================================================
