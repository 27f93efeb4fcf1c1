------------------------------- MODULE MCClient -------------------------------
(* Client on small instances. *)
EXTENDS Client

AllFaults == FaultKinds
NoFaults == {}

===============================================================================
