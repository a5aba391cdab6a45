----------------------------- MODULE ChannelProofs ------------------------------
(* Theorems about WireHeader, Addresses and Channel. *)
EXTENDS Channel, Addresses, SequenceTheorems, TLAPS

\* A number whose highest digit is not 0 is larger.
LEMMA HighDigit ==
  ASSUME NEW a \in Nat \ {0}, NEW b \in Nat, NEW c \in Nat, NEW d \in Nat
  PROVE  d + Base * (c + Base * (b + Base * a)) > MaxMessageSize
BY SMT DEF Base, MaxMessageSize

\* WireHeader writes its size in the host's order and reads it in the network's: of the sizes
\* up to MaxMessageSize the only one, but 0, that comes back as itself is 0x010100.
THEOREM HeadersComeBackReversed ==
  ASSUME NEW bytes \in Bytes, Host(bytes) <= MaxMessageSize, Host(bytes) # 0
  PROVE  Deserialize(Serialize(bytes)) = Host(bytes)
           <=> bytes[1] = 0 /\ bytes[2] = 1 /\ bytes[3] = 1 /\ bytes[4] = 0
<1>1. PICK a \in Int, b \in Int, c \in Int, d \in Int :
        /\ bytes[1] = a /\ 0 <= a /\ a < Base
        /\ bytes[2] = b /\ 0 <= b /\ b < Base
        /\ bytes[3] = c /\ 0 <= c /\ c < Base
        /\ bytes[4] = d /\ 0 <= d /\ d < Base
  <2>1. /\ bytes[1] \in Int /\ 0 <= bytes[1] /\ bytes[1] < Base
        /\ bytes[2] \in Int /\ 0 <= bytes[2] /\ bytes[2] < Base
        /\ bytes[3] \in Int /\ 0 <= bytes[3] /\ bytes[3] < Base
        /\ bytes[4] \in Int /\ 0 <= bytes[4] /\ bytes[4] < Base
    BY SMTT(40) DEF Bytes, Base
  <2> QED
    BY <2>1, Zenon
<1>2. Host(bytes) = a + Base * (b + Base * (c + Base * d))
  BY <1>1, Zenon DEF Host
<1>3. Deserialize(Serialize(bytes)) = d + Base * (c + Base * (b + Base * a))
  BY <1>1, Zenon DEF Network, Serialize, Deserialize
<1> USE DEF Base
<1>4. d = 0
  BY <1>1, <1>2, SMT DEF MaxMessageSize
<1>5. ASSUME Deserialize(Serialize(bytes)) = Host(bytes)
      PROVE  a = 0 /\ b = 1 /\ c = 1 /\ d = 0
  <2>1. a = 0
    BY <1>1, <1>2, <1>3, <1>4, <1>5, SMT
  <2>2. b = c
    BY <1>1, <1>2, <1>3, <1>4, <1>5, <2>1, SMT
  <2>3. b = 1
    BY <1>1, <1>2, <1>4, <2>1, <2>2, SMT DEF MaxMessageSize
  <2> QED
    BY <1>4, <2>1, <2>2, <2>3, SMT
<1>6. ASSUME a = 0 /\ b = 1 /\ c = 1 /\ d = 0
      PROVE  Deserialize(Serialize(bytes)) = Host(bytes)
  BY <1>2, <1>3, <1>6, SMT
<1> QED
  BY <1>1, <1>5, <1>6, SMT

\* Channel compares its limit with the size that was read: a message whose size is no multiple
\* of 256 ends the channel, as if it were too long.
THEOREM HeadersEndChannels ==
  ASSUME NEW bytes \in Bytes, bytes[1] # 0
  PROVE  HeaderRead(Serialize(bytes)) = [ends |-> TRUE, payload |-> 0]
<1>1. bytes[1] \in Nat \ {0} /\ bytes[2] \in Nat /\ bytes[3] \in Nat /\ bytes[4] \in Nat
  BY DEF Bytes, Base
<1>2. bytes[4] + Base * (bytes[3] + Base * (bytes[2] + Base * bytes[1])) > MaxMessageSize
  BY <1>1, HighDigit, Zenon
<1>3. Deserialize(Serialize(bytes)) > MaxMessageSize
  BY <1>2, Zenon DEF Network, Serialize, Deserialize
<1> QED
  BY <1>3, Zenon DEF HeaderRead

\* IpAddress::parse() leaves the kind of the address as it was, and SocketAddress::parse() asks
\* a new one for it: whatever the text, it is told that this is no Internet address.
THEOREM InternetTextsRefused ==
  ASSUME NEW type \in {"Internet", "Internet6"}, NEW text \in SocketTexts
  PROVE  SocketParsed(type, text) = Refused
<1>1. Parsed(Empty, text.host).ip.t_ = "Empty"
  BY DEF Parsed, Empty
<1>2. ParsedInternet("V4", text) = Refused /\ ParsedInternet("V6", text) = Refused
  BY <1>1, Zenon DEF ParsedInternet
<1> QED
  BY <1>2 DEF SocketParsed

\* A number's highest digit says between which multiples it is.
LEMMA TopDigit ==
  ASSUME NEW a \in Int, NEW b \in Int, NEW c \in Int, NEW d \in Int,
         0 <= a, a < Base, 0 <= b, b < Base, 0 <= c, c < Base, NEW k \in 0..Base
  PROVE  /\ k * (Base * (Base * Base)) <= a + Base * (b + Base * (c + Base * d)) <=> k <= d
         /\ a + Base * (b + Base * (c + Base * d)) < k * (Base * (Base * Base)) <=> d < k
BY SMT DEF Base

\* The macros get the bytes in the wrong order: of an IPv4 address isMulticast() and isLoopback()
\* look at the last byte instead of the first.
THEOREM LastByteDecides ==
  ASSUME NEW bytes \in Bytes
  PROVE  /\ IsMulticast([t_ |-> "V4", addr_ |-> bytes]) <=> bytes[4] \in 224..239
         /\ IsLoopback([t_ |-> "V4", addr_ |-> bytes]) <=> bytes[4] = 127
<1>1. /\ bytes[1] \in Int /\ 0 <= bytes[1] /\ bytes[1] < Base
      /\ bytes[2] \in Int /\ 0 <= bytes[2] /\ bytes[2] < Base
      /\ bytes[3] \in Int /\ 0 <= bytes[3] /\ bytes[3] < Base
      /\ bytes[4] \in Int
  BY SMT DEF Bytes, Base
<1>2. 224 \in 0..Base /\ 240 \in 0..Base /\ 127 \in 0..Base /\ 128 \in 0..Base
  BY SMT DEF Base
<1>3. ASSUME NEW k \in 0..Base
      PROVE  /\ k * (Base * (Base * Base)) <= Host(bytes) <=> k <= bytes[4]
             /\ Host(bytes) < k * (Base * (Base * Base)) <=> bytes[4] < k
  BY <1>1, TopDigit, Zenon DEF Host
<1>4. InMulticast(Host(bytes)) <=> 224 <= bytes[4] /\ bytes[4] < 240
  BY <1>2, <1>3, Zenon DEF InMulticast
<1>5. InLoopback(Host(bytes)) <=> 127 <= bytes[4] /\ bytes[4] < 128
  BY <1>2, <1>3, Zenon DEF InLoopback
<1>6. /\ IsMulticast([t_ |-> "V4", addr_ |-> bytes]) <=> InMulticast(Host(bytes))
      /\ IsLoopback([t_ |-> "V4", addr_ |-> bytes]) <=> InLoopback(Host(bytes))
  BY DEF IsMulticast, IsLoopback
<1> QED
  BY <1>1, <1>4, <1>5, <1>6, SMT

\* How many messages have been written and taken off the queue.
Handled == Len(sent) - Len(writeMsgs_)

\* The queue is the end of what was sent.
QueueIsRest ==
  /\ Len(writeMsgs_) <= Len(sent)
  /\ \A k \in 1..Len(writeMsgs_) : writeMsgs_[k] = sent[Handled + k]

\* Where the one write is, what has left is the handled messages and as much of the front.
WriteUnderWay ==
  ops # <<>> =>
    /\ Len(ops) = 1 /\ closed = 0 /\ writeMsgs_ # <<>> /\ ops[1].msg = writeMsgs_[1]
    /\ ops[1].at = "none" => Len(wire) = 2 * Handled
    /\ ops[1].at = "begun" => Len(wire) = 2 * Handled + 1
    /\ ops[1].at = "ended" => Len(wire) = 2 * Handled + 2
    /\ ops[1].at = "failed" => Len(wire) \in {2 * Handled, 2 * Handled + 1}

\* Without a write either everything has left or the channel has reported its end.
NoWrite ==
  ops = <<>> =>
    \/ closed = 0 /\ writeMsgs_ = <<>> /\ Len(wire) = 2 * Handled
    \/ closed = 1 /\ writeMsgs_ # <<>> /\ Len(wire) \in {2 * Handled, 2 * Handled + 1}

IInv == TypeOK /\ QueueIsRest /\ WriteUnderWay /\ NoWrite /\ InOrder

\* The initial state.
LEMMA InitIInv == Init => IInv
BY DEF Init, IInv, TypeOK, QueueIsRest, WriteUnderWay, NoWrite, InOrder, Handled

\* A message that is queued behind others waits, any other is written at once.
LEMMA SendIInv ==
  ASSUME IInv, NEW m \in Msgs, Send(m)
  PROVE  IInv'
<1> USE DEF IInv, TypeOK
<1>1. /\ writeMsgs_' = Append(writeMsgs_, m) /\ sent' = Append(sent, m)
      /\ UNCHANGED <<socket_, closed, wire>>
      /\ ops' = IF writeMsgs_ = <<>> THEN Append(ops, Write(writeMsgs_')) ELSE ops
  BY DEF Send
<1>2. /\ Len(writeMsgs_') = Len(writeMsgs_) + 1 /\ Len(sent') = Len(sent) + 1
      /\ writeMsgs_' \in Seq(Msgs) /\ sent' \in Seq(Msgs) /\ writeMsgs_' # <<>>
      /\ \A k \in 1..Len(writeMsgs_) : writeMsgs_'[k] = writeMsgs_[k]
      /\ \A k \in 1..Len(sent) : sent'[k] = sent[k]
      /\ writeMsgs_'[Len(writeMsgs_) + 1] = m /\ sent'[Len(sent) + 1] = m
  BY <1>1
<1>3. Handled' = Handled /\ Handled \in Nat
  BY <1>2 DEF Handled, QueueIsRest
<1>4. QueueIsRest'
  <2> SUFFICES ASSUME NEW k \in 1..(Len(writeMsgs_) + 1)
               PROVE  writeMsgs_'[k] = sent'[Handled + k]
    BY <1>2, <1>3 DEF QueueIsRest
  <2>1. CASE k = Len(writeMsgs_) + 1
    BY <1>2, <2>1 DEF Handled
  <2>2. CASE k \in 1..Len(writeMsgs_)
    <3>1. Handled + k \in 1..Len(sent)
      BY <1>3, <2>2 DEF Handled, QueueIsRest
    <3> QED
      BY <1>2, <2>2, <3>1 DEF QueueIsRest
  <2> QED
    BY <2>1, <2>2
<1>5. InOrder'
  <2>1. \A k \in DOMAIN wire : (k + 1) \div 2 \in 1..Len(sent)
    BY DEF InOrder
  <2> QED
    BY <1>1, <1>2, <2>1 DEF InOrder
<1>6. TypeOK' /\ WriteUnderWay' /\ NoWrite'
  <2>1. CASE writeMsgs_ = <<>>
    <3>1. ops = <<>> /\ closed = 0 /\ Len(wire) = 2 * Handled
      BY <2>1 DEF WriteUnderWay, NoWrite
    <3>2. Write(writeMsgs_') = [msg |-> m, at |-> "none"] /\ writeMsgs_'[1] = m
      BY <1>2, <2>1 DEF Write
    <3>3. ops' = <<[msg |-> m, at |-> "none"]>>
      BY <1>1, <2>1, <3>1, <3>2
    <3> QED
      BY <1>1, <1>2, <1>3, <3>1, <3>2, <3>3 DEF WriteUnderWay, NoWrite, Progress
  <2>2. CASE writeMsgs_ # <<>>
    <3>1. ops' = ops /\ writeMsgs_'[1] = writeMsgs_[1]
      BY <1>1, <1>2, <2>2
    <3> QED
      BY <1>1, <1>2, <1>3, <2>2, <3>1 DEF WriteUnderWay, NoWrite
  <2> QED
    BY <2>1, <2>2
<1> QED
  BY <1>4, <1>5, <1>6

\* The next byte in order may leave.
LEMMA WireGrows ==
  ASSUME TypeOK, InOrder, sent' = sent, NEW h \in Nat, NEW b \in {0, 1}, NEW part,
         (b = 0 /\ part = "first") \/ (b = 1 /\ part = "last"),
         Len(wire) = 2 * h + b, h + 1 <= Len(sent),
         wire' = Append(wire, [msg |-> sent[h + 1], part |-> part])
  PROVE  InOrder'
<1>1. /\ DOMAIN wire = 1..(2 * h + b) /\ DOMAIN wire' = 1..(2 * h + b + 1)
      /\ Len(wire') = 2 * h + b + 1 /\ Len(sent) \in Nat
      /\ \A k \in DOMAIN wire : wire'[k] = wire[k]
      /\ wire'[2 * h + b + 1] = [msg |-> sent[h + 1], part |-> part]
  BY DEF TypeOK
<1>2. /\ (2 * h + b + 1 + 1) \div 2 = h + 1
      /\ part = IF (2 * h + b + 1) % 2 = 1 THEN "first" ELSE "last"
  <2>1. CASE b = 0
    BY <2>1
  <2>2. CASE b = 1
    BY <2>2
  <2> QED
    BY <2>1, <2>2
<1>3. ASSUME NEW k \in DOMAIN wire'
      PROVE  wire'[k] = [msg |-> sent[(k + 1) \div 2], part |-> IF k % 2 = 1 THEN "first" ELSE "last"]
  <2>1. CASE k = 2 * h + b + 1
    BY <1>1, <1>2, <2>1
  <2>2. CASE k \in DOMAIN wire
    BY <1>1, <2>2 DEF InOrder
  <2> QED
    BY <1>1, <2>1, <2>2
<1> QED
  BY <1>1, <1>2, <1>3 DEF InOrder

\* The write under way goes on.
LEMMA AsioIInv ==
  ASSUME IInv, NEW i \in DOMAIN ops, Begin(i) \/ End(i) \/ Fail(i)
  PROVE  IInv'
<1> USE DEF IInv, TypeOK
<1>1. i = 1 /\ ops # <<>> /\ Len(ops) = 1 /\ ops[1] \in [msg : Msgs, at : Progress]
  <2>1. ops # <<>> /\ DOMAIN ops = 1..Len(ops)
    OBVIOUS
  <2>2. Len(ops) = 1
    BY <2>1 DEF WriteUnderWay
  <2>3. i = 1
    BY <2>1, <2>2
  <2>4. ops[i] \in [msg : Msgs, at : Progress]
    BY <2>1, ElementOfSeq
  <2> QED
    BY <2>1, <2>2, <2>3, <2>4
<1>2. /\ Handled \in Nat /\ Handled + 1 <= Len(sent) /\ Len(wire) \in Nat
      /\ ops[1].msg = sent[Handled + 1] /\ closed = 0 /\ writeMsgs_ # <<>>
  <2>1. closed = 0 /\ writeMsgs_ # <<>> /\ ops[1].msg = writeMsgs_[1]
    BY <1>1 DEF WriteUnderWay
  <2>2. Len(writeMsgs_) \in Nat \ {0} /\ Len(sent) \in Nat /\ Len(wire) \in Nat
    BY <2>1
  <2>3. Handled \in Nat /\ Handled + 1 <= Len(sent)
    BY <2>2 DEF Handled, QueueIsRest
  <2>4. 1 \in 1..Len(writeMsgs_)
    BY <2>2
  <2>5. writeMsgs_[1] = sent[Handled + 1]
    BY <2>4 DEF QueueIsRest
  <2> QED
    BY <2>1, <2>2, <2>3, <2>5
<1>3. UNCHANGED <<writeMsgs_, socket_, closed, sent>> /\ Handled' = Handled
  BY DEF Begin, End, Fail, Handled
<1>4. CASE Begin(i)
  <2>1. /\ ops' = [ops EXCEPT ![1].at = "begun"] /\ ops[1].at = "none"
        /\ wire' = Append(wire, [msg |-> ops[1].msg, part |-> "first"])
    BY <1>1, <1>4 DEF Begin
  <2>2. ops' \in Seq([msg : Msgs, at : Progress]) /\ Len(ops') = 1 /\ ops' # <<>>
        /\ ops'[1].msg = ops[1].msg /\ ops'[1].at = "begun"
    BY <1>1, <2>1 DEF Progress
  <2>3. Len(wire) = 2 * Handled
    BY <1>1, <2>1 DEF WriteUnderWay
  <2>4. /\ wire' \in Seq([msg : Msgs, part : {"first", "last"}]) /\ Len(wire') = 2 * Handled + 1
        /\ \A k \in DOMAIN wire : wire'[k] = wire[k]
        /\ wire'[2 * Handled + 1] = [msg |-> sent[Handled + 1], part |-> "first"]
    BY <1>1, <1>2, <2>1, <2>3
  <2>5. InOrder'
    BY <1>2, <1>3, <2>1, <2>3, WireGrows, SMTT(40)
  <2> QED
    BY <1>1, <1>2, <1>3, <2>2, <2>4, <2>5 DEF WriteUnderWay, NoWrite, QueueIsRest
<1>5. CASE End(i)
  <2>1. /\ ops' = [ops EXCEPT ![1].at = "ended"] /\ ops[1].at = "begun"
        /\ wire' = Append(wire, [msg |-> ops[1].msg, part |-> "last"])
    BY <1>1, <1>5 DEF End
  <2>2. ops' \in Seq([msg : Msgs, at : Progress]) /\ Len(ops') = 1 /\ ops' # <<>>
        /\ ops'[1].msg = ops[1].msg /\ ops'[1].at = "ended"
    BY <1>1, <2>1 DEF Progress
  <2>3. Len(wire) = 2 * Handled + 1
    BY <1>1, <2>1 DEF WriteUnderWay
  <2>4. /\ wire' \in Seq([msg : Msgs, part : {"first", "last"}]) /\ Len(wire') = 2 * Handled + 2
        /\ \A k \in DOMAIN wire : wire'[k] = wire[k]
        /\ wire'[2 * Handled + 2] = [msg |-> sent[Handled + 1], part |-> "last"]
    BY <1>1, <1>2, <2>1, <2>3
  <2>5. InOrder'
    BY <1>2, <1>3, <2>1, <2>3, WireGrows
  <2> QED
    BY <1>1, <1>2, <1>3, <2>2, <2>4, <2>5 DEF WriteUnderWay, NoWrite, QueueIsRest
<1>6. CASE Fail(i)
  <2>1. /\ ops' = [ops EXCEPT ![1].at = "failed"] /\ ops[1].at \in {"none", "begun"} /\ wire' = wire
    BY <1>1, <1>6 DEF Fail
  <2>2. ops' \in Seq([msg : Msgs, at : Progress]) /\ Len(ops') = 1 /\ ops' # <<>>
        /\ ops'[1].msg = ops[1].msg /\ ops'[1].at = "failed"
    BY <1>1, <2>1 DEF Progress
  <2>3. Len(wire) \in {2 * Handled, 2 * Handled + 1}
    BY <1>1, <2>1 DEF WriteUnderWay
  <2> QED
    BY <1>1, <1>2, <1>3, <2>1, <2>2, <2>3 DEF WriteUnderWay, NoWrite, QueueIsRest, InOrder
<1> QED
  BY <1>4, <1>5, <1>6

\* The front leaves the queue when its write has ended, and stays when it failed.
LEMMA DoNextWriteIInv ==
  ASSUME IInv, DoNextWrite
  PROVE  IInv'
<1> USE DEF IInv, TypeOK
<1>1. /\ Len(ops) = 1 /\ ops # <<>> /\ closed = 0 /\ writeMsgs_ # <<>> /\ Tail(ops) = <<>>
      /\ UNCHANGED <<socket_, wire, sent>>
  <2>1. Len(ops) = 1 /\ ops # <<>> /\ closed = 0 /\ writeMsgs_ # <<>>
    BY DEF DoNextWrite, WriteUnderWay
  <2>2. Tail(ops) \in Seq([msg : Msgs, at : Progress]) /\ Len(Tail(ops)) = 0
    BY <2>1
  <2>3. UNCHANGED <<socket_, wire, sent>>
    BY DEF DoNextWrite
  <2> QED
    BY <2>1, <2>2, <2>3, EmptySeq
<1>2. InOrder'
  BY <1>1 DEF InOrder
<1>3. CASE ops[1].at = "failed" /\ closed' = closed + 1 /\ ops' = Tail(ops) /\ UNCHANGED writeMsgs_
  BY <1>1, <1>2, <1>3 DEF WriteUnderWay, NoWrite, QueueIsRest, Handled
<1>4. CASE /\ ops[1].at = "ended" /\ writeMsgs_' = Tail(writeMsgs_) /\ UNCHANGED closed
           /\ ops' = IF writeMsgs_' = <<>> THEN Tail(ops) ELSE Append(Tail(ops), Write(writeMsgs_'))
  <2>1. /\ writeMsgs_' \in Seq(Msgs) /\ Len(writeMsgs_') = Len(writeMsgs_) - 1
        /\ \A k \in 1..Len(writeMsgs_') : writeMsgs_'[k] = writeMsgs_[k + 1]
    BY <1>1, <1>4
  <2>2. Handled' = Handled + 1 /\ Handled \in Nat /\ Len(wire) = 2 * Handled'
    BY <1>1, <1>4, <2>1 DEF Handled, QueueIsRest, WriteUnderWay
  <2>3. QueueIsRest'
    BY <1>1, <2>1, <2>2 DEF QueueIsRest, Handled
  <2>4. CASE writeMsgs_' = <<>>
    BY <1>1, <1>2, <1>4, <2>1, <2>2, <2>3, <2>4 DEF WriteUnderWay, NoWrite
  <2>5. CASE writeMsgs_' # <<>>
    <3>1. Head(writeMsgs_') = writeMsgs_'[1] /\ writeMsgs_'[1] \in Msgs
      BY <2>1, <2>5
    <3>2. ops' = Append(<<>>, [msg |-> writeMsgs_'[1], at |-> "none"])
      BY <1>1, <1>4, <2>5, <3>1 DEF Write
    <3>3. /\ ops' \in Seq([msg : Msgs, at : Progress]) /\ Len(ops') = 1 /\ ops' # <<>>
          /\ ops'[1] = [msg |-> writeMsgs_'[1], at |-> "none"]
      BY <3>1, <3>2 DEF Progress
    <3>4. /\ ops'[1].msg = writeMsgs_'[1] /\ ops'[1].at = "none"
          /\ closed' = 0 /\ Len(wire') = 2 * Handled'
      <4>1. ops'[1].msg = writeMsgs_'[1] /\ ops'[1].at = "none"
        BY <3>3
      <4>2. closed' = 0
        BY <1>1, <1>4
      <4>3. Len(wire') = 2 * Handled'
        BY <1>1, <2>2
      <4> QED
        BY <4>1, <4>2, <4>3
    <3>5. WriteUnderWay' /\ NoWrite'
      BY <2>5, <3>3, <3>4 DEF WriteUnderWay, NoWrite
    <3> QED
      BY <1>1, <1>2, <1>4, <2>1, <2>3, <3>3, <3>5
  <2> QED
    BY <2>4, <2>5
<1> QED
  BY <1>1, <1>3, <1>4 DEF DoNextWrite

\* Every step preserves the invariant.
LEMMA StepIInv == IInv /\ [Next]_vars => IInv'
<1> SUFFICES ASSUME IInv, [Next]_vars PROVE IInv'
  OBVIOUS
<1>1. CASE UNCHANGED vars
  BY <1>1 DEF vars, IInv, TypeOK, QueueIsRest, WriteUnderWay, NoWrite, InOrder, Handled
<1>2. CASE Close
  BY <1>2 DEF Close, IInv, TypeOK, QueueIsRest, WriteUnderWay, NoWrite, InOrder, Handled
<1> QED
  BY <1>1, <1>2, SendIInv, AsioIInv, DoNextWriteIInv DEF Next, Asio

\* The invariant holds in every state.
THEOREM Invariance == Spec => []IInv
<1> QED
  BY InitIInv, StepIInv, PTL DEF Spec

\* There is one write at a time, of a buffer that stays where it is.
THEOREM WritesDoNotOverlap == Spec => []OneWriteOfTheFront
<1>1. IInv => OneWriteOfTheFront
  <2> SUFFICES ASSUME IInv PROVE OneWriteOfTheFront
    OBVIOUS
  <2>1. CASE ops = <<>>
    BY <2>1 DEF OneWriteOfTheFront
  <2>2. CASE ops # <<>>
    <3>1. Len(ops) = 1 /\ writeMsgs_ # <<>> /\ ops[1].msg = writeMsgs_[1]
      BY <2>2 DEF IInv, WriteUnderWay
    <3>2. DOMAIN ops = {1} /\ Head(writeMsgs_) = writeMsgs_[1]
      BY <3>1 DEF IInv, TypeOK
    <3> QED
      BY <3>1, <3>2 DEF OneWriteOfTheFront
  <2> QED
    BY <2>1, <2>2
<1> QED
  BY <1>1, Invariance, PTL

\* What leaves is what was sent, in order and whole.
THEOREM SentInOrder == Spec => []InOrder
<1>1. IInv => InOrder
  BY DEF IInv
<1> QED
  BY <1>1, Invariance, PTL

\* The end of the channel is reported once, however often a write could fail.
THEOREM EndReportedOnce == Spec => []CloseReportedOnce
<1>1. IInv => CloseReportedOnce
  BY DEF IInv, WriteUnderWay, NoWrite, CloseReportedOnce
<1> QED
  BY <1>1, Invariance, PTL

\* What has been delivered is a prefix of what was sent.
DeliveredIsPrefix ==
  /\ Delivered \in Seq(Msgs) /\ Len(Delivered) = Len(wire) \div 2
  /\ Len(wire) \div 2 <= Len(sent)
  /\ \A j \in 1..(Len(wire) \div 2) : Delivered[j] = sent[j]

\* It follows from the order on the wire.
LEMMA DeliveredPrefix == TypeOK /\ InOrder => DeliveredIsPrefix
<1> SUFFICES ASSUME TypeOK, InOrder PROVE DeliveredIsPrefix
  OBVIOUS
<1>1. Len(wire) \in Nat /\ Len(sent) \in Nat /\ Len(wire) \div 2 \in Nat
  BY DEF TypeOK
<1>2. Len(wire) \div 2 <= Len(sent)
  BY <1>1 DEF InOrder
<1>3. ASSUME NEW j \in 1..(Len(wire) \div 2)
      PROVE  wire[2 * j].msg = sent[j] /\ sent[j] \in Msgs
  <2>1. 2 * j \in DOMAIN wire /\ (2 * j + 1) \div 2 = j
    BY <1>1 DEF TypeOK
  <2>2. wire[2 * j] = [msg |-> sent[j], part |-> IF (2 * j) % 2 = 1 THEN "first" ELSE "last"]
    BY <2>1 DEF InOrder
  <2>3. j \in 1..Len(sent)
    BY <1>1, <1>2
  <2>4. sent[j] \in Msgs
    BY <2>3 DEF TypeOK
  <2> QED
    BY <2>2, <2>4
<1>4. \A j \in 1..(Len(wire) \div 2) : wire[2 * j].msg \in Msgs
  BY <1>3
<1>5. [j \in 1..(Len(wire) \div 2) |-> wire[2 * j].msg] \in Seq(Msgs)
  BY <1>1, <1>4
<1>6. Delivered \in Seq(Msgs) /\ Len(Delivered) = Len(wire) \div 2
  BY <1>1, <1>5 DEF Delivered
<1>7. \A j \in 1..(Len(wire) \div 2) : Delivered[j] = sent[j]
  BY <1>3 DEF Delivered
<1> QED
  BY <1>2, <1>6, <1>7 DEF DeliveredIsPrefix

\* A channel with no write under way that has not reported its end has nothing to write: not
\* one message, whenever it was sent, waits for a write that nobody would start.
NothingLeftBehind == ops = <<>> /\ closed = 0 => Delivered = sent

\* send() leaves a message to the handler of the write under way, and the handler starts the
\* next write or finds the queue empty: none falls between the two.
THEOREM NoneLeftBehind == Spec => []NothingLeftBehind
<1>1. IInv => NothingLeftBehind
  <2> SUFFICES ASSUME IInv, ops = <<>>, closed = 0 PROVE Delivered = sent
    BY DEF NothingLeftBehind
  <2>1. Len(sent) \in Nat /\ sent \in Seq(Msgs) /\ Len(wire) = 2 * Len(sent)
    <3>1. writeMsgs_ = <<>> /\ Len(wire) = 2 * Handled
      BY DEF IInv, NoWrite
    <3> QED
      BY <3>1 DEF Handled, IInv, TypeOK
  <2>2. /\ Delivered \in Seq(Msgs) /\ Len(Delivered) = Len(sent)
        /\ \A j \in 1..Len(sent) : Delivered[j] = sent[j]
    BY <2>1, DeliveredPrefix DEF IInv, DeliveredIsPrefix
  <2> QED
    BY <2>1, <2>2, SeqEqual
<1> QED
  BY <1>1, Invariance, PTL

\* The channel has reported its end, the message that could not be written is in front, and
\* the wire has got n bytes.
EndedAt(n) == closed = 1 /\ ops = <<>> /\ writeMsgs_ # <<>> /\ Len(wire) = n

\* The handler of the failed write leaves its message in the queue, and send() starts a write
\* only where the queue was empty: once the end was reported, no byte leaves any more, and
\* what is sent joins the queue for nothing.
THEOREM SilentAfterTheEnd ==
  ASSUME NEW n \in Nat
  PROVE  Spec => [](closed > 0 /\ Len(wire) = n => []EndedAt(n))
<1>1. IInv /\ closed > 0 /\ Len(wire) = n => EndedAt(n)
  BY DEF IInv, TypeOK, WriteUnderWay, NoWrite, EndedAt
<1>2. IInv /\ EndedAt(n) /\ [Next]_vars => EndedAt(n)'
  <2> SUFFICES ASSUME IInv, EndedAt(n), [Next]_vars PROVE EndedAt(n)'
    OBVIOUS
  <2>1. DOMAIN ops = {}
    BY DEF EndedAt
  <2>2. ASSUME NEW m \in Msgs, Send(m) PROVE EndedAt(n)'
    <3>1. writeMsgs_' # <<>>
      BY <2>2 DEF Send, IInv, TypeOK
    <3> QED
      BY <2>2, <3>1 DEF Send, EndedAt
  <2>3. CASE Close \/ UNCHANGED vars
    BY <2>3 DEF Close, vars, EndedAt
  <2>4. ~DoNextWrite /\ ~Asio
    BY <2>1 DEF DoNextWrite, Asio, EndedAt
  <2> QED
    BY <2>2, <2>3, <2>4 DEF Next
<1> QED
  BY <1>1, <1>2, Invariance, PTL DEF Spec

\* The last byte of a message that leaves is its delivery.
LEMMA EndDelivers ==
  ASSUME IInv, IInv', NEW i \in DOMAIN ops, End(i)
  PROVE  Connection!Deliver
<1> USE DEF IInv
<1>1. Len(ops) = 1 /\ i = 1 /\ ops # <<>> /\ ops[1].at = "begun" /\ closed = 0
  <2>1. ops # <<>> /\ DOMAIN ops = 1..Len(ops)
    BY DEF TypeOK
  <2> QED
    BY <2>1 DEF WriteUnderWay, End
<1>2. Len(wire) = 2 * Handled + 1 /\ Handled \in Nat /\ Handled + 1 <= Len(sent)
  BY <1>1 DEF WriteUnderWay, QueueIsRest, Handled, TypeOK
<1>3. Len(wire') = 2 * Handled + 2 /\ UNCHANGED <<sent, closed>>
  BY <1>2, SMTT(40) DEF End, TypeOK
<1>4. Len(wire) \div 2 = Handled /\ Len(wire') \div 2 = Handled + 1
  BY <1>2, <1>3
<1>5. /\ Delivered \in Seq(Msgs) /\ Len(Delivered) = Handled
      /\ \A j \in 1..Handled : Delivered[j] = sent[j]
  BY <1>4, DeliveredPrefix DEF DeliveredIsPrefix
<1>6. /\ Delivered' \in Seq(Msgs) /\ Len(Delivered') = Handled + 1
      /\ \A j \in 1..(Handled + 1) : Delivered'[j] = sent[j]
  <2>1. (TypeOK /\ InOrder => DeliveredIsPrefix)'
    BY DeliveredPrefix, PTL
  <2> QED
    BY <1>3, <1>4, <2>1 DEF DeliveredIsPrefix
<1>7. sent[Handled + 1] \in Msgs
  BY <1>2 DEF TypeOK
<1>8. /\ Append(Delivered, sent[Handled + 1]) \in Seq(Msgs)
      /\ Len(Append(Delivered, sent[Handled + 1])) = Handled + 1
      /\ \A j \in 1..(Handled + 1) : Append(Delivered, sent[Handled + 1])[j] = sent[j]
  BY <1>2, <1>5, <1>7
<1>9. Delivered' = Append(Delivered, sent[Handled + 1])
  BY <1>6, <1>8, SeqEqual
<1> QED
  BY <1>1, <1>2, <1>3, <1>5, <1>9 DEF Connection!Deliver

\* No other step of asio, and no handler after a write that ended, is seen from outside.
LEMMA NothingDelivered ==
  ASSUME wire' = wire \/ (Len(wire) % 2 = 0 /\ \E x : wire' = Append(wire, x)), TypeOK
  PROVE  Delivered' = Delivered
<1>1. CASE wire' = wire
  BY <1>1 DEF Delivered
<1>2. CASE Len(wire) % 2 = 0 /\ \E x : wire' = Append(wire, x)
  <2>1. /\ Len(wire) \in Nat /\ Len(wire') = Len(wire) + 1
        /\ \A k \in 1..Len(wire) : wire'[k] = wire[k]
    BY <1>2 DEF TypeOK
  <2>2. Len(wire') \div 2 = Len(wire) \div 2
    BY <1>2, <2>1
  <2>3. \A j \in 1..(Len(wire) \div 2) : wire'[2 * j].msg = wire[2 * j].msg
    BY <2>1
  <2> QED
    BY <2>2, <2>3 DEF Delivered
<1> QED
  BY <1>1, <1>2

\* Every step is one of Pipe's or none.
LEMMA StepConnection == IInv /\ IInv' /\ [Next]_vars => [Connection!Next]_(Connection!vars)
<1> SUFFICES ASSUME IInv, IInv', [Next]_vars
             PROVE  Connection!Next \/ UNCHANGED Connection!vars
  BY DEF Connection!vars
<1> USE DEF IInv
<1>1. ASSUME NEW m \in Msgs, Send(m) PROVE Connection!Accept(m)
  <2>1. sent' = Append(sent, m) /\ UNCHANGED <<closed, wire>>
    BY <1>1 DEF Send
  <2> QED
    BY <2>1, NothingDelivered DEF Connection!Accept
<1>2. ASSUME NEW i \in DOMAIN ops, Begin(i) PROVE UNCHANGED Connection!vars
  <2>1. UNCHANGED <<sent, closed>> /\ \E x : wire' = Append(wire, x)
    BY <1>2 DEF Begin
  <2>2. Len(wire) % 2 = 0
    <3>1. ops # <<>> /\ DOMAIN ops = 1..Len(ops)
      BY DEF TypeOK
    <3>2. Len(wire) = 2 * Handled /\ Handled \in Int
      BY <1>2, <3>1 DEF Begin, WriteUnderWay, Handled, TypeOK
    <3> QED
      BY <3>2
  <2> QED
    BY <2>1, <2>2, NothingDelivered DEF Connection!vars
<1>3. ASSUME NEW i \in DOMAIN ops, Fail(i) PROVE UNCHANGED Connection!vars
  <2>1. UNCHANGED <<sent, closed, wire>>
    BY <1>3 DEF Fail
  <2> QED
    BY <2>1, NothingDelivered DEF Connection!vars
<1>4. CASE DoNextWrite
  <2>1. UNCHANGED <<sent, wire>> /\ closed' \in {closed, closed + 1}
    BY <1>4 DEF DoNextWrite
  <2>2. Delivered' = Delivered
    BY <2>1, NothingDelivered
  <2>3. CASE closed' = closed
    BY <2>1, <2>2, <2>3 DEF Connection!vars
  <2>4. CASE closed' = closed + 1
    <3>1. closed' > 0
      BY <2>4 DEF TypeOK
    <3> QED
      BY <2>1, <2>2, <3>1 DEF Connection!Next, Connection!Break
  <2> QED
    BY <2>1, <2>3, <2>4
<1>5. CASE Close \/ UNCHANGED vars
  <2>1. UNCHANGED <<sent, closed, wire>>
    BY <1>5 DEF Close, vars
  <2> QED
    BY <2>1, NothingDelivered DEF Connection!vars
<1> QED
  BY <1>1, <1>2, <1>3, <1>4, <1>5, EndDelivers DEF Next, Asio, Connection!Next

\* A channel is one direction of a connection: what is sent is delivered in order until the
\* connection breaks, and nothing after that.
THEOREM KeepsOrder == Spec => ImplementsPipe
<1>1. Init => Connection!Init
  BY DEF Init, Connection!Init, Delivered
<1> QED
  BY <1>1, StepConnection, Invariance, PTL DEF Spec, ImplementsPipe, Connection!Spec
==============================================================================
