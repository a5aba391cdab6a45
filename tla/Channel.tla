-------------------------------- MODULE Channel ---------------------------------
(* Channel: the writing side of one connection.  send() queues a message and      *)
(* starts an async_write if none is under way; the write's completion handler,    *)
(* doNextWrite, starts the next.  One thread runs the io_service, so that handlers*)
(* and calls do not interrupt each other, but between the end of a write and its  *)
(* handler anything may be called.                                                *)
(*                                                                                *)
(* Nothing in the repository starts the first read of a Channel, so doHeaderRead  *)
(* and doPayloadRead never run.  A message that cannot be serialized is dropped   *)
(* before anything changes.                                                       *)
EXTENDS Integers, Sequences

CONSTANTS
  Msgs,    \* the serialized messages
  MaxSent  \* bound: how many messages are sent

ASSUME MaxSentAssumption == MaxSent \in Nat

VARIABLES
  writeMsgs_,
  ops,      \* the async_writes whose handler has not run: message and progress
  socket_,  \* "open" or "closed"
  closed,   \* how often closeCb_ was called
  wire,     \* the first and last byte of each message, in the order they left
  sent      \* history: the messages send() took

vars == <<writeMsgs_, ops, socket_, closed, wire, sent>>
------------------------------------------------------------------------------
Progress == {"none", "begun", "ended", "failed"}

\* async_write of the queue's front.
Write(queue) == [msg |-> Head(queue), at |-> "none"]

\* A send that always starts a write.
SendAlwaysWrites(m) ==
  /\ Len(sent) < MaxSent
  /\ writeMsgs_' = Append(writeMsgs_, m)
  /\ ops' = Append(ops, Write(writeMsgs_'))
  /\ sent' = Append(sent, m)
  /\ UNCHANGED <<socket_, closed, wire>>

\* A send that asks for a write under way rather than for a queue that is not empty.
SendByWrites(m) ==
  /\ Len(sent) < MaxSent
  /\ writeMsgs_' = Append(writeMsgs_, m)
  /\ ops' = IF \E i \in DOMAIN ops : ops[i].at \in {"none", "begun"}
            THEN ops ELSE Append(ops, Write(writeMsgs_'))
  /\ sent' = Append(sent, m)
  /\ UNCHANGED <<socket_, closed, wire>>

Send(m) ==
  /\ Len(sent) < MaxSent
  /\ writeMsgs_' = Append(writeMsgs_, m)
  /\ ops' = IF writeMsgs_ = <<>> THEN Append(ops, Write(writeMsgs_')) ELSE ops
  /\ sent' = Append(sent, m)
  /\ UNCHANGED <<socket_, closed, wire>>

Close ==
  /\ socket_ = "open"
  /\ socket_' = "closed"
  /\ UNCHANGED <<writeMsgs_, ops, closed, wire, sent>>
------------------------------------------------------------------------------
(* asio and the socket *)

Begin(i) ==
  /\ socket_ = "open" /\ ops[i].at = "none"
  /\ ops' = [ops EXCEPT ![i].at = "begun"]
  /\ wire' = Append(wire, [msg |-> ops[i].msg, part |-> "first"])
  /\ UNCHANGED <<writeMsgs_, socket_, closed, sent>>

End(i) ==
  /\ socket_ = "open" /\ ops[i].at = "begun"
  /\ ops' = [ops EXCEPT ![i].at = "ended"]
  /\ wire' = Append(wire, [msg |-> ops[i].msg, part |-> "last"])
  /\ UNCHANGED <<writeMsgs_, socket_, closed, sent>>

\* The connection is reset, or the socket is not open any more.
Fail(i) ==
  /\ ops[i].at \in {"none", "begun"}
  /\ ops' = [ops EXCEPT ![i].at = "failed"]
  /\ UNCHANGED <<writeMsgs_, socket_, closed, wire, sent>>
------------------------------------------------------------------------------
\* A handler that lets the next message follow a failed one.
DoNextWriteGoesOn ==
  /\ ops # <<>> /\ ops[1].at \in {"ended", "failed"}
  /\ closed' = IF ops[1].at = "failed" THEN closed + 1 ELSE closed
  /\ writeMsgs_' = Tail(writeMsgs_)
  /\ ops' = IF writeMsgs_' = <<>> THEN Tail(ops) ELSE Append(Tail(ops), Write(writeMsgs_'))
  /\ UNCHANGED <<socket_, wire, sent>>

\* A handler that takes the newest message off the queue.
DoNextWritePopsBack ==
  /\ ops # <<>> /\ ops[1].at \in {"ended", "failed"}
  /\ IF ops[1].at = "failed"
     THEN closed' = closed + 1 /\ ops' = Tail(ops) /\ UNCHANGED writeMsgs_
     ELSE /\ writeMsgs_' = SubSeq(writeMsgs_, 1, Len(writeMsgs_) - 1)
          /\ ops' = IF writeMsgs_' = <<>> THEN Tail(ops) ELSE Append(Tail(ops), Write(writeMsgs_'))
          /\ UNCHANGED closed
  /\ UNCHANGED <<socket_, wire, sent>>

\* A handler that leaves what was queued meanwhile to the next send.
DoNextWriteStops ==
  /\ ops # <<>> /\ ops[1].at \in {"ended", "failed"}
  /\ ops' = Tail(ops)
  /\ IF ops[1].at = "failed" THEN closed' = closed + 1 /\ UNCHANGED writeMsgs_
     ELSE writeMsgs_' = Tail(writeMsgs_) /\ UNCHANGED closed
  /\ UNCHANGED <<socket_, wire, sent>>

DoNextWrite ==
  /\ ops # <<>>
  /\ \/ /\ ops[1].at = "failed"
        /\ closed' = closed + 1
        /\ ops' = Tail(ops)
        /\ UNCHANGED writeMsgs_
     \/ /\ ops[1].at = "ended"
        /\ writeMsgs_' = Tail(writeMsgs_)
        /\ ops' = IF writeMsgs_' = <<>> THEN Tail(ops) ELSE Append(Tail(ops), Write(writeMsgs_'))
        /\ UNCHANGED closed
  /\ UNCHANGED <<socket_, wire, sent>>
------------------------------------------------------------------------------
Init ==
  /\ writeMsgs_ = <<>> /\ ops = <<>> /\ sent = <<>> /\ wire = <<>>
  /\ socket_ = "open" /\ closed = 0

Asio == \E i \in DOMAIN ops : Begin(i) \/ End(i) \/ Fail(i)

Next == (\E m \in Msgs : Send(m)) \/ Close \/ Asio \/ DoNextWrite

Spec == Init /\ [][Next]_vars

\* The other side reads or breaks the connection, and the io_service runs what is ready.
FairSpec == Spec /\ WF_vars(Asio) /\ WF_vars(DoNextWrite)
------------------------------------------------------------------------------
(* Properties *)

\* Every variable has its type.
TypeOK ==
  /\ writeMsgs_ \in Seq(Msgs)
  /\ ops \in Seq([msg : Msgs, at : Progress])
  /\ socket_ \in {"open", "closed"}
  /\ closed \in Nat
  /\ wire \in Seq([msg : Msgs, part : {"first", "last"}])
  /\ sent \in Seq(Msgs)

\* async_write is given the queue's front itself and not a copy, and asio allows one
\* async_write at a time on a stream: there is one, and its buffer stays at the front until
\* its handler has run, whatever is sent meanwhile.
OneWriteOfTheFront ==
  /\ Len(ops) <= 1
  /\ \A i \in DOMAIN ops : writeMsgs_ # <<>> /\ ops[i].msg = Head(writeMsgs_)

\* What left the socket is what was sent, in order, and no message inside another.
InOrder ==
  /\ (Len(wire) + 1) \div 2 <= Len(sent)
  /\ \A k \in DOMAIN wire :
       wire[k] = [msg |-> sent[(k + 1) \div 2], part |-> IF k % 2 = 1 THEN "first" ELSE "last"]

\* The close callback is called once, however often a write could fail.
CloseReportedOnce == closed <= 1

\* The messages of which the last byte has left.
Delivered == [j \in 1..(Len(wire) \div 2) |-> wire[2 * j].msg]

\* What is sent leaves in order until closeCb_ is called, and nothing leaves after that.
Connection == INSTANCE Pipe WITH accepted <- sent, delivered <- Delivered, broken <- (closed > 0)
ImplementsPipe == Connection!Spec

\* Every message that was sent leaves, or the user is told that the connection is gone.
WrittenOrClosed ==
  \A n \in 1..MaxSent : Len(sent) >= n ~> Len(wire) >= 2 * n \/ closed > 0
==============================================================================
