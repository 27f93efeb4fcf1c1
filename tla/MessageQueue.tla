---------------------------- MODULE MessageQueue ----------------------------
(***************************************************************************)
(* What a caller of send_message and receive_message expects of one        *)
(* direction of a connection: messages arrive whole, in order, each once.  *)
(* The promise ends when a call has left part of a message behind; nothing *)
(* then restores it.                                                       *)
(***************************************************************************)
EXTENDS Naturals, Sequences

CONSTANT Messages   \* numbered in the order they are sent in

VARIABLES
    posted,    \* the messages that have left the sender whole
    fetched,   \* what receive_message has returned
    mode       \* "whole", or "partial" once a part of a message was left behind

vars == <<posted, fetched, mode>>

\* Two ends that disagree about the length of a message begin in mode "partial".
Init == posted = <<>> /\ fetched = <<>> /\ mode \in {"whole", "partial"}

\* Message m leaves whole, and later than every other one.
Post ==
    /\ mode = "whole"
    /\ \E m \in Messages :
          /\ \A k \in DOMAIN posted : posted[k] < m
          /\ posted' = Append(posted, m)
    /\ UNCHANGED <<fetched, mode>>

\* The oldest message not yet fetched is fetched.
Fetch ==
    /\ mode = "whole"
    /\ Len(fetched) < Len(posted)
    /\ fetched' = Append(fetched, posted[Len(fetched) + 1])
    /\ UNCHANGED <<posted, mode>>

\* A call ends having moved a part of a message only.
LeavePart == mode' = "partial" /\ UNCHANGED <<posted, fetched>>

\* Nothing more is promised, except of what is past.
AfterPart ==
    /\ mode = "partial"
    /\ mode' = "partial"
    /\ Len(fetched') >= Len(fetched)
    /\ SubSeq(fetched', 1, Len(fetched)) = fetched

Next == Post \/ Fetch \/ LeavePart \/ AfterPart

Spec == Init /\ [][Next]_vars

=============================================================================
