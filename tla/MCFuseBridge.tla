----------------------------- MODULE MCFuseBridge ------------------------------
(* Two users that getpwuid() knows and one it does not. *)
EXTENDS FuseBridge, TLC

MCUids == {0, 1000, 2000}
MCUserName == 0 :> "root" @@ 1000 :> "alice"
MCNumeral == 0 :> "0" @@ 1000 :> "1000" @@ 2000 :> "2000"
MCPerms == {{9, 8, 5}}

\* No step follows a state in which the process has ended.
Running == status = "up"

Symmetry ==
  Permutations(Threads) \cup Permutations(Descriptors) \cup Permutations(Addrs)
    \cup Permutations(Fids) \cup Permutations(Paths)
==============================================================================
