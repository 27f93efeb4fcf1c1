------------------------------- MODULE Sessions -------------------------------
(***************************************************************************)
(* What the server promises of the connections that reach it: they wait,   *)
(* are served one at a time, each at most once, and one whose session has  *)
(* begun is served to the end before the next one is.                      *)
(***************************************************************************)
CONSTANTS Peers, NoPeer

VARIABLES
    waiting,   \* connections in the queue
    current,   \* the one being served
    over       \* those that were served, or have left the queue

vars == <<waiting, current, over>>

Init == waiting = {} /\ current = NoPeer /\ over = {}

Arrive(p) ==
    /\ p \notin waiting \cup over /\ p # current
    /\ waiting' = waiting \cup {p}
    /\ UNCHANGED <<current, over>>

Leave(p) ==
    /\ p \in waiting
    /\ waiting' = waiting \ {p}
    /\ over' = over \cup {p}
    /\ UNCHANGED current

Begin(p) ==
    /\ current = NoPeer
    /\ p \in waiting
    /\ current' = p
    /\ waiting' = waiting \ {p}
    /\ UNCHANGED over

End ==
    /\ current # NoPeer
    /\ current' = NoPeer
    /\ over' = over \cup {current}
    /\ UNCHANGED waiting

Next == End \/ \E p \in Peers : Arrive(p) \/ Leave(p) \/ Begin(p)

Spec == Init /\ [][Next]_vars

===============================================================================
