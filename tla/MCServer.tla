------------------------------- MODULE MCServer -------------------------------
(* Server on small instances: interchangeable peers for the safety runs. *)
EXTENDS Server, TLC

AllFaults == FaultKinds
NoFaults == {}
SomeFaults == {"poll", "thread"}

Symmetry == Permutations(Peers)

===============================================================================
