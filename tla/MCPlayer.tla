------------------------------- MODULE MCPlayer -------------------------------
(* Chains of each kind of effect, and of composites of up to three children. *)
EXTENDS Player

Plain        == [kind |-> "plain", kids |-> 0]
Scripted     == [kind |-> "scripted", kids |-> 0]
Composite(n) == [kind |-> "composite", kids |-> n]

SomeChains ==
  {<<Plain, Scripted>>, <<Composite(0), Composite(3)>>, <<Scripted, Composite(1), Plain>>}

===============================================================================
