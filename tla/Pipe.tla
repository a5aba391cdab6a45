--------------------------------- MODULE Pipe ----------------------------------
(* What one direction of a connection promises: what is accepted is delivered in *)
(* the order it was accepted, until the connection breaks; then nothing is.      *)
EXTENDS Naturals, Sequences

CONSTANT Msgs

VARIABLES accepted, delivered, broken

vars == <<accepted, delivered, broken>>

Init == accepted = <<>> /\ delivered = <<>> /\ broken = FALSE

Accept(m) ==
  /\ accepted' = Append(accepted, m)
  /\ UNCHANGED <<delivered, broken>>

Deliver ==
  /\ ~broken /\ Len(delivered) < Len(accepted)
  /\ delivered' = Append(delivered, accepted[Len(delivered) + 1])
  /\ UNCHANGED <<accepted, broken>>

Break ==
  /\ broken' = TRUE
  /\ UNCHANGED <<accepted, delivered>>

Next == Deliver \/ Break \/ \E m \in Msgs : Accept(m)

Spec == Init /\ [][Next]_vars
==============================================================================
