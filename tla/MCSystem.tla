------------------------------- MODULE MCSystem -------------------------------
(* System on a small instance. *)
EXTENDS System

NoFaults == {}
SomeClientFaults == {"epoll", "reject"}

===============================================================================
