------------------------ MODULE MCGameCardOperaciones ------------------------
(* Instances of GameCardOperaciones for TLC: the messages that arrive.     *)
EXTENDS GameCardOperaciones

Mensaje(op, p, pos, n) == [op |-> op, pokemon |-> p, pos |-> pos, cantidad |-> n]

ConPikachu == <<"pikachu">>
SinArchivos == <<>>

\* Pikachu has a file: two NEW, a CATCH and a GET of it, while a file is
\* created for another pokemon.
Mensajes ==
    [n1 |-> Mensaje("NEW", "pikachu", Primera.pos, 1),
     n2 |-> Mensaje("NEW", "pikachu", CHOOSE q \in Posiciones : q # Primera.pos, 2),
     c1 |-> Mensaje("CATCH", "pikachu", Primera.pos, 1),
     g1 |-> Mensaje("GET", "pikachu", Primera.pos, 1),
     n3 |-> Mensaje("NEW", "onix", Primera.pos, 1)]

\* Two NEW of a pokemon that has no file.
DosNuevos ==
    [n1 |-> Mensaje("NEW", "pikachu", Primera.pos, 1),
     n2 |-> Mensaje("NEW", "pikachu", CHOOSE q \in Posiciones : q # Primera.pos, 1)]
=============================================================================
