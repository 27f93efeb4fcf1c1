------------------------------- MODULE MCStartup -------------------------------
(* Startup with scaled-down widths and command lines of every length up to 11. *)
EXTENDS Startup

Word(text) == [text |-> text, number |-> 0, tail |-> "some"]

\* Such as 192.168.248.131, whose leading number is 192.
Address == [text |-> "address", number |-> 12, tail |-> "some"]

Number(n, tail) == [text |-> "number", number |-> n, tail |-> tail]

\* Around every power of two that is the width of something, and below zero.
Ports ==
    {Number(n, "none") : n \in {0, 1, 7, 8, 9, 15, 16, 31, 32, 40, -1, -9, -31, -40}}
        \cup {Number(5, "some"), Address, Word("other")}

FewPorts == {Number(6, "none"), Number(23, "none"), Number(-3, "none"), Address}

Places == {Address, Number(6, "none")}

Roles == {Word("-c"), Word("-s"), Word("other")}
Protocols == {Word("-tcp"), Word("-sctp"), Word("other")}
Flag == Word("other")

\* The lines as main's comment writes them, cut or prolonged to length n.
Lines(n) ==
    {SubSeq(full, 1, n) : full \in
        {<<first, second, Flag, src, Flag, sport, Flag, dest, Flag, dport, Flag>> :
            first \in Protocols, second \in Roles, src \in Places,
            sport \in IF n = 6 THEN Ports ELSE FewPorts,
            dest \in IF n = 10 THEN Places ELSE {Address},
            dport \in IF n = 10 THEN Ports ELSE {Address}}}

AllLines == UNION {Lines(n) : n \in 0..11}

AllFaults == {"socket", "bind", "thread"}

===============================================================================
