------------------------------ MODULE MCMessageIO ------------------------------
(* MessageIO on small instances. *)
EXTENDS MessageIO

AllFaults == FaultKinds
NoFaults == {}
EveryLeftover == {"positive", "negative"}

===============================================================================
