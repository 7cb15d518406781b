------------------------------- MODULE MCTeam -------------------------------
(* Instances of Team for TLC: trainers, their pokemons and the messages.   *)
EXTENDS Team

SinPokemones == <<<<>>, <<>>>>

\* Each of two trainers is near the pokemon the other one wants.
Cruzados == <<<<"onix">>, <<"pikachu">>>>
DosLugares == <<<<0, 0>>, <<2, 0>>>>

Aparicion(tipo, p, lugares) == [tipo |-> tipo, pokemon |-> p, posiciones |-> lugares]

Con(hay, tipoA, tipoL, lugares) ==
    [a |-> Aparicion(IF hay THEN tipoA ELSE "GAMEBOY", "pikachu", <<<<1, 0>>>>),
     l |-> Aparicion(IF hay THEN tipoL ELSE "GAMEBOY", "onix", lugares)]

UnoDeCadaUno ==
    [b \in BOOLEAN |-> Con(b, "APPEARED", "LOCALIZED", <<<<2, 1>>>>)]

\* The broker changes under one algorithm: what a CATCH finds does not depend on it.
SoloFifo(n) == [a \in Algoritmos |-> IF a = "FIFO" THEN n ELSE 0]
Ninguno == SoloFifo(0)
UnCambio == SoloFifo(1)
DosCambios == SoloFifo(2)
=============================================================================
