------------------------------- MODULE Addresses -------------------------------
(* IpAddress and SocketAddress: what they make of texts and of addresses.  No     *)
(* state.                                                                         *)
(*                                                                                *)
(* A text is what its parts are: whether it has a colon, and the bytes inet_pton  *)
(* reads in it, none if it is no address.  Scopes, flows and the brackets around  *)
(* an IPv6 address are left out; so are the addresses of data links, which are    *)
(* only written.                                                                  *)
EXTENDS WireHeader, Sequences

Texts == [colon : BOOLEAN, bytes : Seq(0..(Base - 1))]

\* A text with a port: what stands before its last colon, and the number after it, or -1.
SocketTexts == [colon : BOOLEAN, host : Texts, port : Nat \cup {-1},
                path : Seq(0..(Base - 1))]
------------------------------------------------------------------------------
(* IpAddress *)

\* IpAddress()
Empty == [t_ |-> "Empty", addr_ |-> <<>>]

\* parse() fills the address in, and returns whether it could.
Parsed(ip, text) ==
  [ret |-> text.bytes # <<>>,
   ip |-> IF text.bytes = <<>> THEN ip ELSE [ip EXCEPT !.addr_ = text.bytes]]

\* The C library's macros take a number in the order of the host.
InMulticast(n) == 224 * (Base * (Base * Base)) <= n /\ n < 240 * (Base * (Base * Base))
InLoopback(n) == 127 * (Base * (Base * Base)) <= n /\ n < 128 * (Base * (Base * Base))

\* The bytes of s_addr are in network order, whatever the host's.
IsMulticast(ip) ==
  \/ ip.t_ = "V4" /\ InMulticast(Host(ip.addr_))
  \/ ip.t_ = "V6" /\ ip.addr_[1] = 255

IsLoopback(ip) ==
  \/ ip.t_ = "V4" /\ InLoopback(Host(ip.addr_))
  \/ ip.t_ = "V6" /\ ip.addr_ = [i \in 1..16 |-> IF i = 16 THEN 1 ELSE 0]
------------------------------------------------------------------------------
(* SocketAddress *)

\* strlcpy() copies what there is room for.
MaxPath == 103

Refused == [ret |-> "false", addr |-> <<>>, port |-> 0]

\* parse(): stoi() throws where no number follows the colon, and the number becomes 16 bits wide.
ParsedInternet(kind, text) ==
  LET p == Parsed(Empty, text.host)
  IN IF ~text.colon \/ ~p.ret \/ p.ip.t_ # kind THEN Refused
     ELSE IF text.port = -1 THEN [Refused EXCEPT !.ret = "threw"]
     ELSE [ret |-> "true", addr |-> p.ip.addr_, port |-> text.port % (Base * Base)]

SocketParsed(type, text) ==
  CASE type = "Internet" -> ParsedInternet("V4", text)
    [] type = "Internet6" -> ParsedInternet("V6", text)
    [] type = "Local" -> [ret |-> "true", port |-> 0,
                            addr |-> IF Len(text.path) <= MaxPath THEN text.path
                                     ELSE SubSeq(text.path, 1, MaxPath)]
==============================================================================
