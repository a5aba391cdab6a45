------------------------------ MODULE MCDiscovery -------------------------------
(* Small networks for Discovery.                                                 *)
EXTENDS Discovery, TLC

\* As long as each other, with an address in common.
Overlapping == {<<"a", "b">>, <<"b", "c">>}

\* A list just short enough to be sent and read.
OverlappingSize == [l \in Overlapping |-> Len(l)]
==============================================================================
