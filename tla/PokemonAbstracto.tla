--------------------------- MODULE PokemonAbstracto ---------------------------
(***************************************************************************)
(* What the GameCard promises: how many pokemon of each kind there are at  *)
(* each position, and messages that change or read that in one step each.  *)
(* An answer is decided in that step and sent later; a message that fails  *)
(* in between, with the disk full, takes what there was of its pokemon     *)
(* with it.                                                                *)
(***************************************************************************)
EXTENDS Integers, FiniteSets

CONSTANTS
    Ids,             \* the messages
    Pokemones,
    Posiciones,
    msj,             \* [op, pokemon, pos, cantidad] of each message
    Inicial          \* pokemon at each position at the start

VARIABLES
    contenido,       \* pokemon at each position
    resultado,       \* what each message was found to be worth
    enviada,         \* messages whose answer was handed to the connection
    fallidas         \* messages that found the disk full

vars == <<contenido, resultado, enviada, fallidas>>

SinCoord == [q \in Posiciones |-> 0]
Pendiente == [tipo |-> "pendiente", coord |-> SinCoord]

Init ==
    /\ contenido = Inicial
    /\ resultado = [i \in Ids |-> Pendiente]
    /\ enviada = {}
    /\ fallidas = {}

Perdido(p) == \E i \in fallidas : msj[i].pokemon = p

Decide(i, tipo, coord) ==
    /\ ~Perdido(msj[i].pokemon)
    /\ resultado[i] = Pendiente
    /\ resultado' = [resultado EXCEPT ![i] = [tipo |-> tipo, coord |-> coord]]
    /\ UNCHANGED <<enviada, fallidas>>

\* NEW: so many pokemon more.
Nuevo(i) ==
    /\ msj[i].op = "NEW"
    /\ Decide(i, "APPEARED", SinCoord)
    /\ contenido' = [contenido EXCEPT ![msj[i].pokemon][msj[i].pos] = @ + msj[i].cantidad]

\* CATCH: one pokemon less, when there is one.
Atrapar(i) ==
    /\ msj[i].op = "CATCH"
    /\ Decide(i, "OK", SinCoord)
    /\ contenido[msj[i].pokemon][msj[i].pos] > 0
    /\ contenido' = [contenido EXCEPT ![msj[i].pokemon][msj[i].pos] = @ - 1]

NoAtrapar(i) ==
    /\ msj[i].op = "CATCH"
    /\ Decide(i, "FAIL", SinCoord)
    /\ contenido[msj[i].pokemon][msj[i].pos] = 0
    /\ UNCHANGED contenido

\* GET: each position with a pokemon, once.
Consultar(i) ==
    /\ msj[i].op = "GET"
    /\ resultado'[i] # Pendiente
    /\ LET donde == [q \in Posiciones |-> IF contenido[msj[i].pokemon][q] > 0 THEN 1 ELSE 0]
       IN  Decide(i, IF donde = SinCoord THEN "VACIO" ELSE "LOCALIZED", donde)
    /\ UNCHANGED contenido

Responder(i) ==
    /\ resultado[i] # Pendiente
    /\ resultado[i].tipo # "VACIO"
    /\ i \notin enviada \cup fallidas
    /\ enviada' = enviada \cup {i}
    /\ UNCHANGED <<contenido, resultado, fallidas>>

\* The disk is full when the message is to be stored: it is never answered.
Fallar(i) ==
    /\ resultado[i] # Pendiente
    /\ i \notin enviada \cup fallidas
    /\ fallidas' = fallidas \cup {i}
    /\ contenido' = [contenido EXCEPT ![msj[i].pokemon] = SinCoord]
    /\ UNCHANGED <<resultado, enviada>>

Next == \E i \in Ids :
    Nuevo(i) \/ Atrapar(i) \/ NoAtrapar(i) \/ Consultar(i) \/ Responder(i)
    \/ Fallar(i)

Spec == Init /\ [][Next]_vars
=============================================================================
