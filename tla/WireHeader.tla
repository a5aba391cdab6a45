------------------------------ MODULE WireHeader -------------------------------
(* WireHeader, and what a Channel makes of one: the four bytes that go ahead of  *)
(* each message and say how long it is.  No state.  Hosts are little-endian.      *)
EXTENDS Integers

MaxMessageSize == 1024 * 128

Base == 256

Bytes == [1..4 -> 0..(Base - 1)]

\* The number that four bytes are in a host's memory, the lowest first, and in network order.
Host(bytes) == bytes[1] + Base * (bytes[2] + Base * (bytes[3] + Base * bytes[4]))
Network(bytes) == bytes[4] + Base * (bytes[3] + Base * (bytes[2] + Base * bytes[1]))
------------------------------------------------------------------------------
\* serialize() copies the bytes that size has in memory.
Serialize(bytes) == bytes

\* deserialize() takes them for network order.
Deserialize(bytes) == Network(bytes)

\* Channel::doHeaderRead: how many bytes the payload is to have, or the end of the channel.
HeaderRead(bytes) ==
  IF Deserialize(bytes) > MaxMessageSize THEN [ends |-> TRUE, payload |-> 0]
  ELSE [ends |-> FALSE, payload |-> Deserialize(bytes)]
==============================================================================
