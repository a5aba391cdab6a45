----------------------------- MODULE MCModuleFile ------------------------------
(* Two names of one X10 unit, one of another, one of none, a bulb and the clock. *)
EXTENDS ModuleFile, TLC

CONSTANTS a1, A1, b2, q3, bulb, clock

MCFiles == {a1, A1, b2, q3, bulb, clock}
MCKindOf == [f \in MCFiles |-> IF f = bulb THEN "liteBrite" ELSE IF f = clock THEN "time" ELSE "x10"]
MCNameEnd ==
  a1 :> <<97, 49>> @@ A1 :> <<65, 49>> @@ b2 :> <<98, 50>> @@ q3 :> <<113, 51>>
    @@ bulb :> <<116, 101>> @@ clock :> <<109, 101>>

Symmetry == Permutations(Threads)
===============================================================================
