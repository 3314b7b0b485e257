---------------------------- MODULE MCRequests ----------------------------
(* Requests laid out in the ways clients lay them out. *)
EXTENDS Requests

Quoted(s) == <<"\"">> \o s \o <<"\"">>

Key(k) == {Quoted(k), k \o <<" ">>}
Number(n) == {DigitsOf[n], <<" ">> \o Quoted(DigitsOf[n])}
Separator == {<<",">>, <<" ", ",", "\n">>, <<" ">>}

(* Members the server does not ask for, some with the names it asks for    *)
(* inside, and a second member of the same name.                           *)
Noise ==
    {<<"\"", "x", "\"", ":">> \o v : v \in {
        <<"{", "n", "a", ":", "3", ",", "n", "b", ":", "3", "}">>,
        <<"[", "]">>,
        <<"[", "{", "n", "a", ":", "3", "}", ",", "3", "]">>,
        <<"{", "d", ":", "{", "n", "a", ":", "[", "3", "]", "}", "}">>,
        <<"\"", "\\", "\"", ",", "n", "a", ":", "\\", "\\", "\"">>,
        <<"\"", "}", "\\", "u", "0", "0", "2", "f", "\"">>,
        <<"n", "u", "l", "l">>, <<"t", "r", "u", "e">>, <<"f", "a", "l", "s", "e">>,
        <<"-", "1", ".", "5", "e", "+", "2">>}}
    \union {<<"\"", "n", "\"", ":", "4">>, <<"n", "a", "x", ":", "4">>}

Join(a, b, c, sep) == <<"{">> \o a \o sep \o b \o sep \o c \o <<"}">>

Layouts(ka, kb, na, nb, noise, sep) ==
    LET a == ka \o <<":">> \o na
        b == kb \o <<":">> \o nb
    IN  {Join(a, b, noise, sep), Join(b, noise, a, sep), Join(noise, a, b, sep),
         Join(a, b, Quoted(NODE_A_ID) \o <<":", "4">>, sep)}

Uris == {<<"/", "a", "p", "i", "/", "g", "e", " ", "/", "x">>,
         <<"/", "a", "p", "i", "/", "x", "/", "g", "e", " ">>}

Plain(a, b) == <<"{">> \o Quoted(NODE_A_ID) \o <<":">> \o DigitsOf[a] \o <<",">>
               \o Quoted(NODE_B_ID) \o <<":">> \o DigitsOf[b] \o <<"}">>

Line == <<"/", "a", "p", "i", "/", "g", "e", " ">>

PlainWanted == {[from |-> a, to |-> b, uri |-> Line, body |-> Plain(a, b)] : a, b \in Id}

LaidOut ==
    UNION {{[from |-> 1, to |-> 2, uri |-> u, body |-> t] : t \in Layouts(ka, kb, na, nb, m, sep)} :
        u \in Uris, ka \in Key(NODE_A_ID), kb \in Key(NODE_B_ID), na \in Number(1),
        nb \in Number(2), m \in Noise, sep \in Separator}

MCWanted == PlainWanted \union LaidOut

(* All stores for the plain requests, one for the others. *)
OneStore == 1 :> {2} @@ 2 :> {1}
MCReceive ==
    /\ want \in Wanted
    /\ g \in IF want \in LaidOut THEN {OneStore} ELSE Stores
    /\ Receive
MCSpec == MCReceive /\ [][Handle]_rvars /\ WF_rvars(Handle)
=============================================================================
