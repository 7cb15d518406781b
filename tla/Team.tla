-------------------------------- MODULE Team --------------------------------
(***************************************************************************)
(* The Team with its messages: the planners and the trainers of            *)
(* TeamPlanificadores, the threads that send GET and CATCH, and one thread *)
(* per APPEARED, LOCALIZED and CAUGHT that arrives.                        *)
(*                                                                         *)
(* A CATCH has the id the broker gave it.  A CAUGHT for the CATCH of       *)
(* another Team reaches this one too, since the broker sends every message *)
(* of a queue to every subscriber.                                         *)
(*                                                                         *)
(* The broker falls and comes back at any moment: every CATCH connects     *)
(* anew, so one may find it and the next one not.                          *)
(***************************************************************************)
EXTENDS TeamPlanificadores

CONSTANTS
    Llegadas,            \* with the broker and without it, the messages by id:
                         \* [tipo, pokemon, posiciones]
    Brokers,             \* the broker is there at the start, or not
    Cambios,             \* bound on the times the broker falls or comes back, by algorithm
    MaxCatch,            \* bound on the CATCH sent: one that is retried may be so for ever
    LargoDelError,       \* bytes of the text with which the broker refuses a message
    Resultados,          \* results of a CATCH: "OK", "FAIL"
    Ajenos               \* CATCH of other Teams the broker has yet to answer

Ids == DOMAIN Llegadas[TRUE]

ASSUME TeamAssumption ==
    /\ DOMAIN Llegadas = BOOLEAN /\ DOMAIN Llegadas[FALSE] = Ids
    /\ \A m \in Ids : /\ Llegadas[TRUE][m].tipo \in {"APPEARED", "GAMEBOY", "LOCALIZED"}
                      /\ Llegadas[FALSE][m].tipo = "GAMEBOY"
                      /\ \A b \in BOOLEAN : /\ Llegadas[b][m].pokemon \in Especies
                                            /\ Llegadas[b][m].posiciones \in Seq(Int \X Int) \ {<<>>}
    /\ Brokers \subseteq BOOLEAN
    /\ Resultados \subseteq {"OK", "FAIL"}
    /\ Ajenos \cap Nat = {}
    /\ Cambios \in [Algoritmos -> Nat]
    /\ MaxCatch \in Nat
    /\ LargoDelError \in Nat

VARIABLES
    broker,              \* is it there; next id; CATCH to be answered; those that never
                         \* will; was it there at the start; times it changed
    mutex_idCorrelativos,
    idCorrelativosCatch,
    gets,                \* the GET of each species
    llegados,            \* pokemonesLlegadosDelBroker
    mensaje,             \* the threads of APPEARED and LOCALIZED
    caughts              \* the threads of CAUGHT

recepVars == <<broker, mutex_idCorrelativos, idCorrelativosCatch, gets, llegados, mensaje,
               caughts>>
vars == <<planVars, recepVars>>

Llega(m) == Llegadas[broker.inicial][m]

NombresDe(lista) == {lista[i].pokemon : i \in DOMAIN lista}
Objetivo == NombresDe(cargar_objetivo_global)

Init ==
    /\ PlanInit
    /\ \E v \in Brokers :
          broker = [inicial |-> v, vivo |-> v, id |-> 1, pendientes |-> Ajenos, perdidos |-> {},
                    cambios |-> 0]
    /\ mutex_idCorrelativos = 1
    /\ idCorrelativosCatch = <<>>
    /\ gets = [p \in Objetivo |-> "lanzado"]
    /\ llegados = {}
    /\ mensaje = [m \in Ids |-> [pc |-> "fuera", i |-> 1]]
    /\ caughts = {}
-----------------------------------------------------------------------------
(* What the Team needs. *)

necesitoPokemon(p) ==
    list_buscar(atrapados, p) < list_buscar(cargar_objetivo_global, p)

\* The names are compared as pointers: of the free pokemons only those of the
\* same LOCALIZED share theirs, and a reserved one has a name of its own.
cantidadLibres(m) == Cardinality({i \in DOMAIN libres : libres[i].de = m})
cantidadEnReservados(m) == 0

necesitoIrAAtraparlo(m) ==
    LET p == Llega(m).pokemon IN
    /\ necesitoPokemon(p)
    /\ cantidadEnReservados(m) + cantidadLibres(m)
         < list_buscar(cargar_objetivo_global, p) - list_buscar(atrapados, p)
-----------------------------------------------------------------------------
(* APPEARED and LOCALIZED. *)

Pc(m, pc) == mensaje' = [mensaje EXCEPT ![m].pc = pc]

LibreNuevo(m) == [pokemon |-> Llega(m).pokemon,
                  posicion |-> Llega(m).posiciones[mensaje[m].i], de |-> m]

Aparece(m) ==
    /\ mensaje[m].pc = "fuera"
    /\ IF necesitoPokemon(Llega(m).pokemon)
       THEN /\ llegados' = llegados \cup {Llega(m).pokemon}
            /\ Pc(m, "mapa")
       ELSE Pc(m, "fin") /\ UNCHANGED llegados
    /\ UNCHANGED <<planVars, broker, mutex_idCorrelativos, idCorrelativosCatch, gets, caughts>>

procesar_msg_appeared(m) == Llega(m).tipo = "APPEARED" /\ Aparece(m)
process_msjs_gameboy(m) == Llega(m).tipo = "GAMEBOY" /\ Aparece(m)

\* With no free pokemon the new one is always announced.
ApMapa(m) ==
    /\ mensaje[m].pc = "mapa"
    /\ IF libres = <<>>
       THEN /\ libres' = <<LibreNuevo(m)>>
            /\ sem' = Post("hay", 1)
            /\ Pc(m, "activa")
       ELSE Pc(m, "evalua") /\ UNCHANGED <<libres, sem>>
    /\ UNCHANGED <<algoritmo, entrenador, hilo, colas, semEntrenador, trabada, cp, mp, glob,
                   reservados, atrapados, envios, vivo, broker, mutex_idCorrelativos,
                   idCorrelativosCatch, gets, llegados, caughts>>

\* The free pokemon is added anyway; it is announced only if it is needed.
Evaluar(m) ==
    /\ mensaje[m].pc = "evalua"
    /\ Pc(m, IF necesitoIrAAtraparlo(m) THEN "avisa" ELSE "agrega")
    /\ UNCHANGED <<planVars, broker, mutex_idCorrelativos, idCorrelativosCatch, gets, llegados,
                   caughts>>

ApAgrega(m) ==
    /\ Llega(m).tipo # "LOCALIZED"
    /\ mensaje[m].pc \in {"avisa", "agrega"}
    /\ libres' = Append(libres, LibreNuevo(m))
    /\ sem' = Post("hay", IF mensaje[m].pc = "avisa" THEN 1 ELSE 0)
    /\ Pc(m, "activa")
    /\ UNCHANGED <<algoritmo, entrenador, hilo, colas, semEntrenador, trabada, cp, mp, glob,
                   reservados, atrapados, envios, vivo, broker, mutex_idCorrelativos,
                   idCorrelativosCatch, gets, llegados, caughts>>

\* The length of BLOCKED is read with no mutex.  Only the first signal counts,
\* and before it nothing moves in the queue.
Activar(m) ==
    /\ mensaje[m].pc = "activa"
    /\ sem' = Post("activacion", IF Len(colaBlocked) = cantidadDeEntrenadores THEN 1 ELSE 0)
    /\ llegados' = llegados \cup {Llega(m).pokemon}
    /\ Pc(m, "fin")
    /\ UNCHANGED <<algoritmo, entrenador, hilo, colas, semEntrenador, trabada, cp, mp, glob,
                   mapa, envios, vivo, broker, mutex_idCorrelativos, idCorrelativosCatch, gets,
                   caughts>>

\* A LOCALIZED answers a GET: its id must be in the list, and no message of
\* the species may have come before.
procesar_msg_localized(m) ==
    /\ Llega(m).tipo = "LOCALIZED"
    /\ mensaje[m].pc = "fuera"
    /\ gets[Llega(m).pokemon] \in {"enviado", "anotado"}
    /\ Pc(m, IF /\ gets[Llega(m).pokemon] = "anotado"
                /\ Llega(m).pokemon \notin llegados
             THEN "evalua" ELSE "fin")
    /\ UNCHANGED <<planVars, broker, mutex_idCorrelativos, idCorrelativosCatch, gets, llegados,
                   caughts>>

\* agregarPokemonesDelLocalized: each pokemon is announced first and added later.
LocAvisa(m) ==
    /\ Llega(m).tipo = "LOCALIZED"
    /\ mensaje[m].pc = "avisa"
    /\ sem' = Post("hay", 1)
    /\ Pc(m, "agrega")
    /\ UNCHANGED <<algoritmo, entrenador, hilo, colas, semEntrenador, trabada, cp, mp, glob,
                   mapa, envios, vivo, broker, mutex_idCorrelativos, idCorrelativosCatch, gets,
                   llegados, caughts>>

LocAgrega(m) ==
    /\ Llega(m).tipo = "LOCALIZED"
    /\ mensaje[m].pc = "agrega"
    /\ libres' = Append(libres, LibreNuevo(m))
    /\ mensaje' = [mensaje EXCEPT ![m] =
          IF @.i < Len(Llega(m).posiciones) THEN [pc |-> "evalua", i |-> @.i + 1]
          ELSE [@ EXCEPT !.pc = "activa"]]
    /\ UNCHANGED <<algoritmo, entrenador, hilo, colas, sem, semEntrenador, trabada, cp, mp,
                   glob, reservados, atrapados, envios, vivo, broker, mutex_idCorrelativos,
                   idCorrelativosCatch, gets, llegados, caughts>>

Llegada(m) ==
    \/ procesar_msg_appeared(m) \/ process_msjs_gameboy(m) \/ procesar_msg_localized(m)
    \/ ApMapa(m) \/ Evaluar(m) \/ ApAgrega(m) \/ LocAvisa(m) \/ LocAgrega(m) \/ Activar(m)
-----------------------------------------------------------------------------
(* GET and CATCH. *)

\* The broker has the GET, and may answer it, before its id is in the list.  One that
\* does not find it is sent again after the reconnection.  A GET that no LOCALIZED
\* will answer changes nothing and is left out.
GetEnvia(p) ==
    /\ gets[p] = "lanzado"
    /\ broker.vivo
    /\ \E m \in Ids : Llega(m).tipo = "LOCALIZED" /\ Llega(m).pokemon = p
    /\ gets' = [gets EXCEPT ![p] = "enviado"]
    /\ UNCHANGED <<planVars, broker, mutex_idCorrelativos, idCorrelativosCatch, llegados, mensaje,
                   caughts>>

GetAnota(p) ==
    /\ gets[p] = "enviado"
    /\ gets' = [gets EXCEPT ![p] = "anotado"]
    /\ UNCHANGED <<planVars, broker, mutex_idCorrelativos, idCorrelativosCatch, llegados, mensaje,
                   caughts>>

\* A CATCH in the hands of the broker: its answer is to come.
Aceptado == [broker EXCEPT !.id = @ + 1, !.pendientes = @ \cup {broker.id},
                           !.perdidos = @ \ {broker.id}]

\* A thread that sends a CATCH, in another stage of it.
Pasa(en, pc, id) == (envios \ {en}) \cup {[en EXCEPT !.pc = pc, !.id = id]}

\* Mutant: the CATCH is sent with no mutex.
CatchEnviaSinMutex(en) ==
    /\ en.pc = "conectado"
    /\ broker' = Aceptado
    /\ glob' = [glob EXCEPT !.rta_catch = broker.id]
    /\ sem' = Post("mutex_catch", 1)
    /\ envios' = Pasa(en, "anota", broker.id)
    /\ UNCHANGED <<algoritmo, entrenador, hilo, colas, semEntrenador, trabada, cp, mp, mapa,
                   vivo, mutex_idCorrelativos, idCorrelativosCatch, gets, llegados, mensaje,
                   caughts>>

CatchConecta(en) ==
    /\ en.pc = "conecta"
    /\ broker.vivo
    /\ Len(idCorrelativosCatch) < MaxCatch
    /\ envios' = Pasa(en, "conectado", en.id)
    /\ UNCHANGED <<algoritmo, entrenador, hilo, colas, sem, semEntrenador, trabada, cp, mp, glob,
                   mapa, vivo, recepVars>>

\* mutex_idCorrelativos is held from the send until the id is in the list.
CatchEnvia(en) ==
    /\ en.pc = "conectado"
    /\ mutex_idCorrelativos > 0
    /\ mutex_idCorrelativos' = mutex_idCorrelativos - 1
    /\ broker' = Aceptado
    /\ glob' = [glob EXCEPT !.rta_catch = broker.id]
    /\ sem' = Post("mutex_catch", 1)
    /\ envios' = Pasa(en, "anota", broker.id)
    /\ UNCHANGED <<algoritmo, entrenador, hilo, colas, semEntrenador, trabada, cp, mp, mapa,
                   vivo, idCorrelativosCatch, gets, llegados, mensaje, caughts>>

\* A CATCH that exceeds the cache, which depends on its name and on the config of
\* the broker, is refused with a text, whose length is taken for the id: the
\* trainer waits for an answer to it.
CatchRechazado(en) ==
    /\ en.pc = "conectado"
    /\ mutex_idCorrelativos > 0
    /\ mutex_idCorrelativos' = mutex_idCorrelativos - 1
    /\ broker' = [broker EXCEPT !.perdidos = @ \cup {LargoDelError}]
    /\ glob' = [glob EXCEPT !.rta_catch = LargoDelError]
    /\ sem' = Post("mutex_catch", 1)
    /\ envios' = Pasa(en, "anota", LargoDelError)
    /\ UNCHANGED <<algoritmo, entrenador, hilo, colas, semEntrenador, trabada, cp, mp, mapa,
                   vivo, idCorrelativosCatch, gets, llegados, mensaje, caughts>>

\* The broker fell after the connection: the mutex is taken, but no id comes.
CatchCortado(en) ==
    /\ en.pc = "cortado"
    /\ mutex_idCorrelativos > 0
    /\ mutex_idCorrelativos' = mutex_idCorrelativos - 1
    /\ sem' = Post("mutex_catch", 1)
    /\ envios' = Pasa(en, "anota", en.id)
    /\ UNCHANGED <<algoritmo, entrenador, hilo, colas, semEntrenador, trabada, cp, mp, glob,
                   mapa, vivo, broker, idCorrelativosCatch, gets, llegados, mensaje, caughts>>

\* No connection: the mutex is not taken.  rta_catch keeps the value it had.
CatchSinBroker(en) ==
    /\ en.pc = "conecta"
    /\ ~broker.vivo
    /\ Len(idCorrelativosCatch) < MaxCatch
    /\ sem' = Post("mutex_catch", 1)
    /\ envios' = Pasa(en, "anota", en.id)
    /\ UNCHANGED <<algoritmo, entrenador, hilo, colas, semEntrenador, trabada, cp, mp, glob,
                   mapa, vivo, recepVars>>

\* The mutex is freed even if it was never taken.
CatchAnota(en) ==
    /\ en.pc = "anota"
    /\ idCorrelativosCatch' = Append(idCorrelativosCatch, [id |-> en.id, entrenador |-> en.entrenador])
    /\ mutex_idCorrelativos' = mutex_idCorrelativos + 1
    /\ envios' = envios \ {en}
    /\ UNCHANGED <<algoritmo, entrenador, hilo, colas, sem, semEntrenador, trabada, cp, mp, glob,
                   mapa, vivo, broker, gets, llegados, mensaje, caughts>>

Envio(en) ==
    \/ CatchConecta(en) \/ CatchEnvia(en) \/ CatchRechazado(en) \/ CatchCortado(en)
    \/ CatchSinBroker(en) \/ CatchAnota(en)
-----------------------------------------------------------------------------
(* CAUGHT. *)

Caught(id, r) == [id |-> id, resultado |-> r, pc |-> "busca", reserva |-> Nadie, para |-> Nadie]

\* The answer to a CATCH, of this Team or of another one.
BrokerResponde(id) ==
    /\ broker.vivo
    /\ id \in broker.pendientes
    /\ broker' = [broker EXCEPT !.pendientes = @ \ {id}]
    /\ \E r \in Resultados : caughts' = caughts \cup {Caught(id, r)}
    /\ UNCHANGED <<planVars, mutex_idCorrelativos, idCorrelativosCatch, gets, llegados, mensaje>>

\* Whether the id is in the list is one thing; idAux is then the last of the list.
CaBusca(c) ==
    /\ c.pc = "busca"
    /\ mutex_idCorrelativos > 0
    /\ LET q == idCorrelativosCatch IN
       IF \E i \in DOMAIN q : q[i].id = c.id
       THEN /\ caughts' = (caughts \ {c}) \cup
                          {[c EXCEPT !.pc = "entrenador", !.reserva = q[Len(q)].entrenador]}
            /\ UNCHANGED sem
       ELSE /\ caughts' = caughts \ {c}
            /\ sem' = Post("esperar_caught", 1)
    /\ UNCHANGED <<algoritmo, entrenador, hilo, colas, semEntrenador, trabada, cp, mp, glob, mapa,
                   envios, vivo, broker, mutex_idCorrelativos, idCorrelativosCatch, gets,
                   llegados, mensaje>>

\* A trainer that is not in BLOCKED is taken to be the one that executes.
buscarEntrenadorDeLaReserva(e) ==
    IF \E i \in DOMAIN colaBlocked : colaBlocked[i] = e THEN e ELSE glob.enEjecucion

CaEntrenador(c) ==
    /\ c.pc = "entrenador"
    /\ ~trabada
    /\ caughts' = (caughts \ {c}) \cup
                  {[c EXCEPT !.pc = "aplica", !.para = buscarEntrenadorDeLaReserva(c.reserva)]}
    /\ UNCHANGED <<planVars, broker, mutex_idCorrelativos, idCorrelativosCatch, gets, llegados,
                   mensaje>>

\* Mutants: a FAIL keeps the reservation; a FAIL does not wake the trainer.
CaAplicaFallo(c, quita, avisa) ==
    LET i == buscarPokemonReservado(c.reserva)
        p == reservados[i].pokemon
        ok == c.resultado = "OK"
    IN /\ c.pc = "aplica"
       /\ IF i = 0
          THEN Caerse /\ UNCHANGED <<reservados, atrapados, entrenador, sem>>
          ELSE /\ reservados' = IF ok \/ quita THEN SinReserva(i) ELSE reservados
               /\ atrapados' = IF ok THEN agregarPokemon(atrapados, p) ELSE atrapados
               /\ entrenador' = [entrenador EXCEPT
                     ![c.para].obtenidos = IF ok THEN agregarPokemon(@, p) ELSE @,
                     ![c.para].estado = IF ok THEN "RECIBIO_RESPUESTA_OK" ELSE "MOVERSE_A_POKEMON"]
               /\ sem' = Post("esperar_caught", IF ok \/ avisa THEN 1 ELSE 0)
               /\ UNCHANGED vivo
       /\ caughts' = caughts \ {c}
       /\ UNCHANGED <<algoritmo, hilo, colas, semEntrenador, trabada, cp, mp, glob, libres,
                      envios, broker, mutex_idCorrelativos, idCorrelativosCatch, gets,
                      llegados, mensaje>>

CaAplicaSinQuitar(c) == CaAplicaFallo(c, FALSE, TRUE)
CaAplicaSinAvisar(c) == CaAplicaFallo(c, TRUE, FALSE)

\* The reservation is removed; with OK the pokemon is the trainer's, with FAIL
\* it goes back to look for another one.
CaAplica(c) ==
    /\ c.pc = "aplica"
    /\ LET i == buscarPokemonReservado(c.reserva) IN
       IF i = 0
       THEN Caerse /\ UNCHANGED <<reservados, atrapados, entrenador, sem>>
       ELSE LET p == reservados[i].pokemon IN
            /\ reservados' = SinReserva(i)
            /\ IF c.resultado = "OK"
               THEN /\ atrapados' = agregarPokemon(atrapados, p)
                    /\ entrenador' = [entrenador EXCEPT
                          ![c.para].obtenidos = agregarPokemon(@, p),
                          ![c.para].estado = "RECIBIO_RESPUESTA_OK"]
                    /\ sem' = Post("esperar_caught", 1)
               ELSE /\ entrenador' = [entrenador EXCEPT ![c.para].estado = "MOVERSE_A_POKEMON"]
                    /\ sem' = [sem EXCEPT !.esperar_caught = @ + 1,
                                          !.hay = IF p \in NombresDe(libres) THEN @ + 1 ELSE @]
                    /\ UNCHANGED atrapados
            /\ UNCHANGED vivo
    /\ caughts' = caughts \ {c}
    /\ UNCHANGED <<algoritmo, hilo, colas, semEntrenador, trabada, cp, mp, glob, libres, envios,
                   broker, mutex_idCorrelativos, idCorrelativosCatch, gets, llegados, mensaje>>

procesar_msg_caught(c) == CaBusca(c) \/ CaEntrenador(c) \/ CaAplica(c)
-----------------------------------------------------------------------------
(* The broker falls and comes back. *)

\* What it kept is lost, its counter of ids too.  A CATCH the GameCard had
\* already got is answered later, through the broker that comes back.
BrokerCae ==
    /\ broker.vivo
    /\ broker.cambios < Cambios[algoritmo]
    /\ \E P \in SUBSET broker.pendientes :
          broker' = [broker EXCEPT !.vivo = FALSE, !.id = 1, !.pendientes = P, !.cambios = @ + 1,
                                   !.perdidos = @ \cup (broker.pendientes \ P)]
    /\ envios' = {IF en.pc = "conectado" THEN [en EXCEPT !.pc = "cortado"] ELSE en : en \in envios}
    /\ UNCHANGED <<algoritmo, entrenador, hilo, colas, sem, semEntrenador, trabada, cp, mp, glob,
                   mapa, vivo, mutex_idCorrelativos, idCorrelativosCatch, gets, llegados, mensaje,
                   caughts>>

\* The thread of reconnection finds it: the subscriptions and the GET are sent again.
BrokerVuelve ==
    /\ ~broker.vivo
    /\ broker.cambios < Cambios[algoritmo]
    /\ broker' = [broker EXCEPT !.vivo = TRUE, !.cambios = @ + 1]
    /\ UNCHANGED <<planVars, mutex_idCorrelativos, idCorrelativosCatch, gets, llegados, mensaje,
                   caughts>>
-----------------------------------------------------------------------------
Corriendo == vivo /\ mp.pc # "fin"

Plan == PlanNext /\ UNCHANGED recepVars

Next ==
    /\ Corriendo
    /\ \/ Plan
       \/ \E m \in Ids : Llegada(m)
       \/ \E p \in Objetivo : GetEnvia(p) \/ GetAnota(p)
       \/ \E en \in envios : Envio(en)
       \/ \E id \in broker.pendientes : BrokerResponde(id)
       \/ \E c \in caughts : procesar_msg_caught(c)
       \/ BrokerCae \/ BrokerVuelve

Spec == Init /\ [][Next]_vars

\* While a thread can go on, some thread does: the steps between two messages
\* are few, so that none is left out for ever.  The broker answers every CATCH.
\* No message has to come.
EnCurso(m) == mensaje[m].pc # "fuera" /\ Llegada(m)

Avanza ==
    /\ Corriendo
    /\ \/ Plan
       \/ \E m \in Ids : EnCurso(m)
       \/ \E en \in envios : Envio(en)
       \/ \E id \in broker.pendientes : BrokerResponde(id)
       \/ \E c \in caughts : procesar_msg_caught(c)

FairSpec == Spec /\ WF_vars(Avanza)
-----------------------------------------------------------------------------
(* Properties. *)

\* Trainers, semaphores and the threads of the messages hold values of their kinds
\* (iniciar_variables_globales).
TypeOK ==
    /\ algoritmo \in Algoritmos
    /\ \A e \in Entrenadores : /\ Estado(e) \in Estados
                               /\ hilo[e].pc \in {"espera", "mueve", "envia", "caught", "fin"}
                               /\ entrenador[e].quantum \in 0..QUANTUM
                               /\ NombresUnicos(entrenador[e].obtenidos)
    /\ \A s \in DOMAIN sem : sem[s] \in Nat
    /\ semEntrenador \in [Entrenadores -> {0, 1}]
    /\ mutex_idCorrelativos \in Nat
    /\ glob.esLAPrimeraVez \in 0..2
    /\ \A m \in Ids : mensaje[m].i \in DOMAIN Llega(m).posiciones

\* Some CATCH got no id: it found no broker, or the broker fell before it answered.
FalloConexion ==
    \/ \E i \in DOMAIN idCorrelativosCatch : idCorrelativosCatch[i].id = -1
    \/ \E en \in envios : en.pc = "anota" /\ en.id = -1

\* ... and another one got its id.
Mezcla == FalloConexion /\ glob.rta_catch # -1

\* No pointer that is NULL or was never set is followed: the short term
\* planner never finds READY empty, and a trainer always finds its reservation
\* and the trainer to exchange with.  When a CATCH got no id and another one did it
\* is not so: the list of ids may end with another trainer.
SinPunteroNulo == vivo \/ Mezcla

Veces(q, e) == Cardinality({i \in DOMAIN q : q[i] = e})
EnCpu(e) == cp.pc = "turno" /\ cp.entrenador = e

\* Every trainer is in one place: READY, BLOCKED, EXIT or the CPU, and once.
EntrenadorEnUnLugar ==
    \A e \in Entrenadores :
        Veces(colaReady, e) + Veces(colaBlocked, e) + Veces(colaExit, e)
            + (IF EnCpu(e) THEN 1 ELSE 0) = 1

ConReserva(e) == buscarPokemonReservado(e) # 0

\* A trainer has one reservation at most; one that goes for a pokemon has it,
\* and one that waits for pokemons to appear has none.
ReservaDeSuEntrenador ==
    /\ \A i, j \in DOMAIN reservados : reservados[i].id = reservados[j].id => i = j
    /\ \A e \in Entrenadores :
          /\ Veces(colaReady, e) = 1 =>
                (ConReserva(e) <=> Estado(e) \in {"MOVERSE_A_POKEMON", "SEGUIR_MOVIENDOSE", "ATRAPAR"})
          /\ Veces(colaBlocked, e) = 1 =>
                (ConReserva(e) <=> Estado(e) \in {"SEGUIR_MOVIENDOSE", "ATRAPAR"})

\* The pokemons caught by the Team are those of its trainers, exchanges included.
AtrapadosExactos ==
    \A p \in Especies :
        LET hasta[e \in 0..cantidadDeEntrenadores] ==
                IF e = 0 THEN 0 ELSE hasta[e - 1] + list_buscar(entrenador[e].obtenidos, p)
        IN list_buscar(atrapados, p) = hasta[cantidadDeEntrenadores]

\* A trainer in EXIT has all it wants: no exchange takes it back.
SaleCompleto ==
    \A i \in DOMAIN colaExit :
        LET t == entrenador[colaExit[i]] IN pokemonesPendientes(t.obtenidos, t.objetivo) = {}

\* The answer to a CATCH is looked for only when its id is in the list, while no
\* CATCH failed: one that finds no broker frees a mutex it does not have, and from then
\* on an answer may be looked for, and discarded, before its id is listed.
RespuestaReconocida ==
    FalloConexion \/ \A c \in caughts :
        c.pc = "busca" /\ c.id \notin Ajenos /\ mutex_idCorrelativos > 0 =>
            \E i \in DOMAIN idCorrelativosCatch : idCorrelativosCatch[i].id = c.id

\* No answer will come to the id in rta_catch: the broker lost or refused that CATCH, or
\* is down and owes it; or some CATCH got no id, so that rta_catch may be of an earlier
\* one, and no answer is on its way.
EsperaEnVano ==
    \/ glob.rta_catch \in broker.perdidos
    \/ glob.rta_catch \in broker.pendientes /\ ~broker.vivo
    \/ glob.rta_catch \notin broker.pendientes /\ FalloConexion /\ caughts = {}

\* A trainer that waits for the answer to its CATCH gets it, unless none will come, or the
\* medium term planner waits for pokemons with sem_cola_blocked taken.
CatchTerminaSiNoEspera ==
    []<>(\/ ~Corriendo \/ mp.pc = "pokemon" \/ EsperaEnVano
         \/ \A e \in Entrenadores : hilo[e].pc # "caught")

\* Both planners wait, no end was asked for and no other thread is at work.
Quietos ==
    /\ cp.pc = "espera" /\ sem.cplazoReady = 0
    /\ mp.pc = "espera" /\ sem.mplazo = 0
    /\ ~glob.finalizarProceso /\ ~trabada
    /\ \A m \in Ids : mensaje[m].pc \in {"fuera", "fin"}
    /\ caughts = {} /\ envios = {}

\* A trainer in READY is never left there with both planners asleep: the medium term
\* planner signals the short term one for each it sends (planificadorMedianoPlazo).
SinReadyOlvidado == Quietos => colaReady = <<>>
=============================================================================
