-------------------------- MODULE TeamPlanificadores --------------------------
(***************************************************************************)
(* The short and medium term planners of the Team and the threads of its   *)
(* trainers, tied by semaphores.                                           *)
(*                                                                         *)
(* The semaphores that guard one list each are taken and freed within a    *)
(* step and are left out, and so is the mutex of each trainer, which only  *)
(* its own thread takes while it executes.  sem_cola_blocked is kept: the  *)
(* medium term planner waits for pokemons while it holds it.               *)
(***************************************************************************)
EXTENDS TeamEntrenador

CONSTANTS
    cantidadDeEntrenadores,
    Objetivos,           \* OBJETIVOS_ENTRENADORES of the config: names, by trainer
    Obtenidos,           \* POKEMON_ENTRENADORES, likewise
    Posiciones,          \* POSICIONES_ENTRENADORES
    Algoritmos,          \* values of ALGORITMO_PLANIFICACION to start with
    QUANTUM,
    ESTIMACION_INICIAL

Entrenadores == 1..cantidadDeEntrenadores

ASSUME PlanificadoresAssumption ==
    /\ cantidadDeEntrenadores \in Nat \ {0}
    /\ Algoritmos \subseteq {"FIFO", "RR", "SJF-SD", "SJF-CD"}
    /\ QUANTUM \in Nat \ {0}
    /\ ESTIMACION_INICIAL \in Nat
    /\ \A e \in Entrenadores : /\ Objetivos[e] \in Seq(Especies) /\ Obtenidos[e] \in Seq(Especies)
                               /\ Posiciones[e] \in Int \X Int

VARIABLES
    algoritmo,
    entrenador,          \* the trainers, by id
    hilo,                \* the thread of each trainer
    colaReady, colaBlocked, colaExit,
    sem,                 \* the semaphores that count
    semEntrenador,       \* sem_entrenador of each trainer
    trabada,             \* the medium term planner holds sem_cola_blocked
    cp, mp,              \* the two planners
    glob,                \* esLAPrimeraVez, noEstimar, entroUnoAReady, finalizarProceso,
                         \* rta_catch and entrenadorEnEjecucion
    libres, reservados, atrapados,
    envios,              \* threads that send a CATCH
    vivo                 \* FALSE once a NULL or wild pointer is dereferenced

colas == <<colaReady, colaBlocked, colaExit>>
mapa == <<libres, reservados, atrapados>>
planVars == <<algoritmo, entrenador, hilo, colas, sem, semEntrenador, trabada, cp, mp,
              glob, mapa, envios, vivo>>

Estados == {"MOVERSE_A_POKEMON", "MOVERSE_A_ENTRENADOR", "ATRAPAR", "INTERCAMBIAR",
            "ACABO_INTERCAMBIO", "RECIBIO_RESPUESTA_OK", "ESPERAR_CAUGHT", "DEADLOCK",
            "EXIT", "SEGUIR_MOVIENDOSE"}

Nadie == 0

\* The names of a trainer in the config, with one record per species.
extraer_pokemones_entrenadores(nombres) ==
    LET hasta[i \in 0..Len(nombres)] ==
            IF i = 0 THEN <<>> ELSE agregarPokemon(hasta[i - 1], nombres[i])
    IN hasta[Len(nombres)]

agregarATodos(lista, mas) ==
    LET hasta[i \in 0..Len(mas)] ==
            IF i = 0 THEN lista
            ELSE LET r == mas[i] IN
                 IF list_buscar(hasta[i - 1], r.pokemon) > 0
                 THEN Sumar(hasta[i - 1], r.pokemon, r.cantidad)
                 ELSE Append(hasta[i - 1], r)
    IN hasta[Len(mas)]

Acumulados(listas) ==
    LET hasta[e \in 0..cantidadDeEntrenadores] ==
            IF e = 0 THEN <<>> ELSE agregarATodos(hasta[e - 1], extraer_pokemones_entrenadores(listas[e]))
    IN hasta[cantidadDeEntrenadores]

cargar_objetivo_global == Acumulados(Objetivos)
cargar_obtenidos_global == Acumulados(Obtenidos)

HiloQuieto == [pc |-> "espera", meta |-> <<0, 0>>, pasos |-> 0]

iniciar_entrenador(e) ==
    [posicion |-> Posiciones[e],
     objetivo |-> extraer_pokemones_entrenadores(Objetivos[e]),
     obtenidos |-> extraer_pokemones_entrenadores(Obtenidos[e]),
     estado |-> "MOVERSE_A_POKEMON", quantum |-> QUANTUM, hayQueDesalojar |-> FALSE,
     actual |-> ESTIMACION_INICIAL * Escala, real |-> ESTIMACION_INICIAL * Escala,
     instruccion |-> 0]

PlanInit ==
    /\ algoritmo \in Algoritmos
    /\ entrenador = [e \in Entrenadores |-> iniciar_entrenador(e)]
    /\ hilo = [e \in Entrenadores |-> HiloQuieto]
    /\ colaReady = <<>>
    /\ colaBlocked = [e \in Entrenadores |-> e]
    /\ colaExit = <<>>
    /\ sem = [cplazoReady |-> 0, cplazoEntrenador |-> 0, mplazo |-> 1, hay |-> 0,
              activacion |-> 0, terminar |-> 0, esperar_caught |-> 0, mutex_catch |-> 0]
    /\ semEntrenador = [e \in Entrenadores |-> 0]
    /\ trabada = FALSE
    /\ cp = [pc |-> "espera", entrenador |-> Nadie, primera |-> TRUE]
    /\ mp = [pc |-> "inicio", cola |-> 0, entrenadores |-> 0, pokemones |-> 0, encontre |-> 0]
    /\ glob = [esLAPrimeraVez |-> 2, noEstimar |-> 1, entroUnoAReady |-> 0,
               finalizarProceso |-> FALSE, rta_catch |-> -1, enEjecucion |-> Nadie]
    /\ libres = <<>>
    /\ reservados = <<>>
    /\ atrapados = cargar_obtenidos_global
    /\ envios = {}
    /\ vivo = TRUE

Post(s, n) == [sem EXCEPT ![s] = @ + n]
esSJF == algoritmo \in {"SJF-CD", "SJF-SD"}
Estado(e) == entrenador[e].estado

\* A pointer that is NULL or was never set is followed.
Caerse == vivo' = FALSE
-----------------------------------------------------------------------------
(* The short term planner. *)

CpTermina ==
    /\ cp.pc = "espera"
    /\ glob.finalizarProceso
    /\ cp' = [cp EXCEPT !.pc = "fin"]
    /\ sem' = Post("terminar", 1)
    /\ UNCHANGED <<algoritmo, entrenador, hilo, colas, semEntrenador, trabada, mp, glob,
                   mapa, envios, vivo>>

\* A stable sort by estimacion_real.
ordenar_cola_ready_estimacion(cola) ==
    LET real(i) == entrenador[cola[i]].real
        orden == {r \in (DOMAIN cola) \X (DOMAIN cola) :
                     \/ real(r[1]) < real(r[2])
                     \/ real(r[1]) = real(r[2]) /\ r[1] <= r[2]}
    IN [k \in DOMAIN cola |-> cola[Ordenados(DOMAIN cola, orden)[k]]]

Rotada(cola) == IF cola = <<>> THEN <<>> ELSE Append(Tail(cola), Head(cola))

\* The order in which READY is served now.
ReadyOrdenada ==
    LET q == IF glob.esLAPrimeraVez = 1 THEN Rotada(colaReady) ELSE colaReady
    IN IF esSJF /\ ~cp.primera THEN ordenar_cola_ready_estimacion(q) ELSE q

CpElige ==
    /\ cp.pc = "espera"
    /\ ~glob.finalizarProceso
    /\ sem.cplazoReady > 0
    /\ sem' = Post("cplazoReady", -1)
    /\ IF colaReady = <<>>
       THEN /\ Caerse
            /\ UNCHANGED <<cp, glob, colaReady, semEntrenador>>
       ELSE LET q == ReadyOrdenada IN
            /\ colaReady' = Tail(q)
            /\ semEntrenador' = [semEntrenador EXCEPT ![Head(q)] = @ + 1]
            /\ cp' = [pc |-> "turno", entrenador |-> Head(q), primera |-> cp.primera /\ ~esSJF]
            /\ glob' = [glob EXCEPT !.esLAPrimeraVez = IF @ = 1 THEN 0 ELSE @,
                                    !.entroUnoAReady = Len(q) - 1,
                                    !.enEjecucion = Head(q)]
            /\ UNCHANGED vivo
    /\ UNCHANGED <<algoritmo, entrenador, hilo, colaBlocked, colaExit, trabada, mp, mapa, envios>>

CpDevuelve ==
    /\ cp.pc = "turno"
    /\ sem.cplazoEntrenador > 0
    /\ ~trabada
    /\ colaBlocked' = Append(colaBlocked, cp.entrenador)
    /\ sem' = [sem EXCEPT !.cplazoEntrenador = @ - 1, !.mplazo = @ + 1]
    /\ cp' = [cp EXCEPT !.pc = "espera"]
    /\ UNCHANGED <<algoritmo, entrenador, hilo, colaReady, colaExit, semEntrenador, trabada,
                   mp, glob, mapa, envios, vivo>>

CortoPlazo == CpTermina \/ CpElige \/ CpDevuelve
-----------------------------------------------------------------------------
(* The medium term planner. *)

MpActiva ==
    /\ mp.pc = "inicio"
    /\ sem.activacion > 0
    /\ sem' = Post("activacion", -1)
    /\ mp' = [mp EXCEPT !.pc = "espera"]
    /\ UNCHANGED <<algoritmo, entrenador, hilo, colas, semEntrenador, trabada, cp, glob,
                   mapa, envios, vivo>>

MpEspera ==
    /\ mp.pc = "espera"
    /\ ~glob.finalizarProceso
    /\ sem.mplazo > 0
    /\ sem' = Post("mplazo", -1)
    /\ mp' = [mp EXCEPT !.pc = "revisa", !.cola = Len(colaBlocked)]
    /\ UNCHANGED <<algoritmo, entrenador, hilo, colas, semEntrenador, trabada, cp, glob,
                   mapa, envios, vivo>>

\* One trainer of BLOCKED: the ones that exchanged or caught get a new state.
MpRevisa ==
    /\ mp.pc = "revisa"
    /\ mp.cola > 0
    /\ LET e == Head(colaBlocked)
           cambia == Estado(e) \in {"ACABO_INTERCAMBIO", "RECIBIO_RESPUESTA_OK"}
           nuevo == IF cambia THEN verificarYCambiarEstadoEntrenador(entrenador[e]) ELSE Estado(e)
           sale == cambia /\ nuevo = "EXIT"
       IN /\ entrenador' = [entrenador EXCEPT ![e].estado = nuevo]
          /\ colaBlocked' = IF sale THEN Tail(colaBlocked) ELSE Rotada(colaBlocked)
          /\ colaExit' = IF sale THEN Append(colaExit, e) ELSE colaExit
          /\ semEntrenador' = IF sale THEN [semEntrenador EXCEPT ![e] = @ + 1] ELSE semEntrenador
    /\ mp' = [mp EXCEPT !.cola = @ - 1]
    /\ UNCHANGED <<algoritmo, hilo, colaReady, sem, trabada, cp, glob, mapa, envios, vivo>>

MpTodosEnExit ==
    /\ mp.pc = "revisa"
    /\ mp.cola = 0
    /\ Len(colaExit) = cantidadDeEntrenadores
    /\ glob' = [glob EXCEPT !.finalizarProceso = TRUE]
    /\ sem' = Post("cplazoReady", 1)
    /\ mp' = [mp EXCEPT !.pc = "espera"]
    /\ UNCHANGED <<algoritmo, entrenador, hilo, colas, semEntrenador, trabada, cp, mapa,
                   envios, vivo>>

\* Where the trainers in some states are in BLOCKED.
Quieren(estados) == {i \in DOMAIN colaBlocked : Estado(colaBlocked[i]) \in estados}

todosQuierenMoverseAPokemon ==
    Quieren(Estados \ {"DEADLOCK", "ESPERAR_CAUGHT", "MOVERSE_A_POKEMON"}) = {}

todosEstanBloqueados == Quieren(Estados \ {"DEADLOCK"}) = {}

\* sem_cola_blocked is taken, and what follows is chosen.
MpMira ==
    /\ mp.pc = "revisa"
    /\ mp.cola = 0
    /\ Len(colaExit) < cantidadDeEntrenadores
    /\ trabada' = TRUE
    /\ LET n == Cardinality(Quieren({"MOVERSE_A_POKEMON"}))
           pokemon == n # 0 /\ todosQuierenMoverseAPokemon /\ ~todosEstanBloqueados
       IN mp' = [mp EXCEPT !.pc = IF pokemon THEN "pokemon" ELSE "otro",
                           !.entrenadores = n, !.encontre = 0]
    /\ UNCHANGED <<algoritmo, entrenador, hilo, colas, sem, semEntrenador, cp, glob, mapa,
                   envios, vivo>>

MpPokemon ==
    /\ mp.pc = "pokemon"
    /\ sem.hay > 0
    /\ sem' = Post("hay", -1)
    /\ mp' = [mp EXCEPT !.pc = "asigna", !.pokemones = Len(libres)]
    /\ UNCHANGED <<algoritmo, entrenador, hilo, colas, semEntrenador, trabada, cp, glob, mapa,
                   envios, vivo>>

\* Where the trainer of BLOCKED that is nearest to a place is, the first one of equals.
buscarEntrenadorMasConvenienteEnColaRancio(lugar) ==
    LET hay == Quieren({"MOVERSE_A_POKEMON"})
        lejos(i) == calcularDistancia(entrenador[colaBlocked[i]].posicion, lugar)
    IN CHOOSE i \in hay : \A j \in hay :
          lejos(i) < lejos(j) \/ (lejos(i) = lejos(j) /\ i <= j)

moverPokemonAReservados(pokemon, e) ==
    /\ reservados' = Append(reservados, [id |-> e, pokemon |-> pokemon.pokemon,
                                         posicion |-> pokemon.posicion])
    /\ libres' = Tail(libres)

\* A trainer that goes to READY under SJF, and noEstimar after it.
Estimado(e) ==
    IF ~esSJF THEN entrenador[e]
    ELSE IF entrenador[e].hayQueDesalojar THEN [entrenador[e] EXCEPT !.hayQueDesalojar = FALSE]
    ELSE IF glob.noEstimar = 1 THEN entrenador[e]
    ELSE [entrenador[e] EXCEPT !.real = Estimacion(entrenador[e]),
                               !.actual = Estimacion(entrenador[e]),
                               !.instruccion = 0]

estimar_entrenador(e) ==
    /\ entrenador' = [entrenador EXCEPT ![e] = Estimado(e)]
    /\ glob' = IF esSJF /\ ~entrenador[e].hayQueDesalojar
               THEN [glob EXCEPT !.noEstimar = 0] ELSE glob

MpAsigna ==
    /\ mp.pc = "asigna"
    /\ mp.entrenadores # 0
    /\ mp.pokemones # 0
    /\ LET i == buscarEntrenadorMasConvenienteEnColaRancio(Head(libres).posicion)
           e == colaBlocked[i]
       IN /\ moverPokemonAReservados(Head(libres), e)
          /\ colaBlocked' = EnPosiciones(colaBlocked, Quieren(Estados \ {"MOVERSE_A_POKEMON"}))
                            \o EnPosiciones(colaBlocked, Quieren({"MOVERSE_A_POKEMON"}) \ {i})
          /\ estimar_entrenador(e)
          /\ colaReady' = Append(colaReady, e)
    /\ mp' = [mp EXCEPT !.entrenadores = @ - 1, !.pokemones = @ - 1, !.encontre = @ + 1]
    /\ UNCHANGED <<algoritmo, hilo, colaExit, sem, semEntrenador, trabada, cp, atrapados,
                   envios, vivo>>

\* Mutant: always one signal more.
MpAvisaDeMas ==
    /\ mp.pc = "asigna"
    /\ mp.entrenadores = 0 \/ mp.pokemones = 0
    /\ sem' = Post("cplazoReady", mp.encontre + 1)
    /\ mp' = [mp EXCEPT !.pc = IF mp.encontre = 0 THEN "otro" ELSE "detecta"]
    /\ trabada' = (mp.encontre = 0)
    /\ UNCHANGED <<algoritmo, entrenador, hilo, colas, semEntrenador, cp, glob, mapa, envios,
                   vivo>>

\* One signal per trainer sent to READY, and one more while esLAPrimeraVez is 1.
MpAvisa ==
    /\ mp.pc = "asigna"
    /\ mp.entrenadores = 0 \/ mp.pokemones = 0
    /\ sem' = Post("cplazoReady", mp.encontre + (IF glob.esLAPrimeraVez = 1 THEN 1 ELSE 0))
    /\ mp' = [mp EXCEPT !.pc = IF mp.encontre = 0 THEN "otro" ELSE "detecta"]
    /\ trabada' = (mp.encontre = 0)
    /\ UNCHANGED <<algoritmo, entrenador, hilo, colas, semEntrenador, cp, glob, mapa, envios,
                   vivo>>

Otros == Quieren(Estados \ {"DEADLOCK", "ESPERAR_CAUGHT", "MOVERSE_A_POKEMON"})

\* A trainer with something else to do goes to READY; while esLAPrimeraVez is
\* 1 the planner signals itself and not the short term one.
MpOtro ==
    /\ mp.pc = "otro"
    /\ IF Otros = {}
       THEN UNCHANGED <<colaReady, colaBlocked, entrenador, glob, sem>>
       ELSE LET i == Primera(Otros)
                e == colaBlocked[i] IN
            /\ colaBlocked' = SinPosicion(colaBlocked, i)
            /\ estimar_entrenador(e)
            /\ colaReady' = Append(colaReady, e)
            /\ sem' = Post(IF glob.esLAPrimeraVez = 1 THEN "mplazo" ELSE "cplazoReady", 1)
    /\ trabada' = FALSE
    /\ mp' = [mp EXCEPT !.pc = "detecta"]
    /\ UNCHANGED <<algoritmo, hilo, colaExit, semEntrenador, cp, mapa, envios, vivo>>

MpDetecta ==
    /\ mp.pc = "detecta"
    /\ LET deadlock == /\ todosEstanBloqueados
                       /\ Len(colaBlocked) = cantidadDeEntrenadores - Len(colaExit)
       IN mp' = [mp EXCEPT !.pc = IF deadlock THEN "deadlock" ELSE "espera"]
    /\ UNCHANGED <<algoritmo, entrenador, hilo, colas, sem, semEntrenador, trabada, cp, glob,
                   mapa, envios, vivo>>

\* Mutant: the trainer stays in BLOCKED.
MpDeadlockSinSacar ==
    /\ mp.pc = "deadlock"
    /\ LET e == colaBlocked[Primera(Quieren({"DEADLOCK"}))] IN
       /\ entrenador' = [entrenador EXCEPT ![e].estado = "MOVERSE_A_ENTRENADOR"]
       /\ colaReady' = Append(colaReady, e)
       /\ sem' = Post("cplazoReady", 1)
    /\ mp' = [mp EXCEPT !.pc = "espera"]
    /\ UNCHANGED <<algoritmo, hilo, colaBlocked, colaExit, semEntrenador, trabada, cp, glob,
                   mapa, envios, vivo>>

\* The first trainer in DEADLOCK goes for an exchange.
MpDeadlock ==
    /\ mp.pc = "deadlock"
    /\ IF Quieren({"DEADLOCK"}) = {}
       THEN Caerse /\ UNCHANGED <<entrenador, colaBlocked, colaReady, sem>>
       ELSE LET i == Primera(Quieren({"DEADLOCK"}))
                e == colaBlocked[i] IN
            /\ entrenador' = [entrenador EXCEPT ![e].estado = "MOVERSE_A_ENTRENADOR"]
            /\ colaBlocked' = SinPosicion(colaBlocked, i)
            /\ colaReady' = Append(colaReady, e)
            /\ sem' = Post("cplazoReady", 1)
            /\ UNCHANGED vivo
    /\ mp' = [mp EXCEPT !.pc = "espera"]
    /\ UNCHANGED <<algoritmo, hilo, colaExit, semEntrenador, trabada, cp, glob, mapa, envios>>

\* Everything is freed: nothing of the Team runs any more.
liberar_variables_globales == mp' = [mp EXCEPT !.pc = "fin"]

\* The planner waits for the short term one and ends the Team.
MpTermina ==
    /\ mp.pc = "espera"
    /\ glob.finalizarProceso
    /\ sem.terminar > 0
    /\ sem' = Post("terminar", -1)
    /\ liberar_variables_globales
    /\ UNCHANGED <<algoritmo, entrenador, hilo, colas, semEntrenador, trabada, cp, glob, mapa,
                   envios, vivo>>

MedianoPlazo ==
    \/ MpActiva \/ MpEspera \/ MpRevisa \/ MpTodosEnExit \/ MpMira \/ MpPokemon
    \/ MpAsigna \/ MpAvisa \/ MpOtro \/ MpDetecta \/ MpDeadlock \/ MpTermina
-----------------------------------------------------------------------------
(* The thread of a trainer. *)

buscarPokemonReservado(e) ==
    LET suyos == {i \in DOMAIN reservados : reservados[i].id = e}
    IN IF suyos = {} THEN 0 ELSE Primera(suyos)

SinReserva(i) == SinPosicion(reservados, i)

\* Where the trainers one can exchange with are in BLOCKED.
Candidatos(e) ==
    {i \in Quieren({"DEADLOCK"}) : puedoIntercambiar(entrenador[e], entrenador[colaBlocked[i]])}

\* A turn starts: the CPU is given to the thread.  A state with no action below
\* has no case in the code either: its turn tells nobody and never ends.
Turno(e, estados) ==
    /\ hilo[e].pc = "espera"
    /\ semEntrenador[e] > 0
    /\ Estado(e) \in estados
    /\ semEntrenador' = [semEntrenador EXCEPT ![e] = @ - 1]

IrHacia(e, lugar) ==
    hilo' = [hilo EXCEPT ![e] = [pc |-> "mueve", meta |-> lugar,
                                 pasos |-> calcularDistancia(entrenador[e].posicion, lugar)]]

TurnoAPokemon(e) ==
    /\ Turno(e, {"MOVERSE_A_POKEMON", "SEGUIR_MOVIENDOSE"})
    /\ IF buscarPokemonReservado(e) = 0 THEN Caerse /\ UNCHANGED hilo
       ELSE /\ IrHacia(e, reservados[buscarPokemonReservado(e)].posicion)
            /\ UNCHANGED vivo
    /\ UNCHANGED <<algoritmo, entrenador, colas, sem, trabada, cp, mp, glob, mapa, envios>>

\* buscarEntrenadorAMoverse: the first trainer to exchange with.
TurnoAEntrenador(e) ==
    /\ Turno(e, {"MOVERSE_A_ENTRENADOR"})
    /\ ~trabada
    /\ IF Candidatos(e) = {} THEN Caerse /\ UNCHANGED hilo
       ELSE /\ IrHacia(e, entrenador[colaBlocked[Primera(Candidatos(e))]].posicion)
            /\ UNCHANGED vivo
    /\ UNCHANGED <<algoritmo, entrenador, colas, sem, trabada, cp, mp, glob, mapa, envios>>

HaciaPokemon(e) == Estado(e) # "MOVERSE_A_ENTRENADOR"

\* Mutant: the quantum is not looked at.
SigueSinQuantum(e) ==
    /\ hilo[e].pasos > 0
    /\ ~(algoritmo = "SJF-CD" /\ HaciaPokemon(e) /\ entrenador[e].hayQueDesalojar)

\* The loop over the distance goes on.
SigueMoviendose(e) ==
    /\ hilo[e].pasos > 0
    /\ ~(algoritmo = "RR" /\ entrenador[e].quantum = 0)
    /\ ~(algoritmo = "SJF-CD" /\ HaciaPokemon(e) /\ entrenador[e].hayQueDesalojar)

\* Under SJF each cycle looks for a trainer that came to READY with less to do.
Desalojado(e) ==
    /\ glob.entroUnoAReady < Len(colaReady)
    /\ \E i \in DOMAIN colaReady :
          entrenador[e].actual - Escala > entrenador[colaReady[i]].real

Ciclo(e) ==
    LET t == entrenador[e] IN
    IF esSJF
    THEN [t EXCEPT !.instruccion = @ + 1, !.actual = @ - Escala,
                   !.hayQueDesalojar = @ \/ Desalojado(e)]
    ELSE IF algoritmo = "RR" THEN [t EXCEPT !.quantum = @ - 1]
    ELSE t

Mover(e) ==
    /\ hilo[e].pc = "mueve"
    /\ SigueMoviendose(e)
    /\ entrenador' = [entrenador EXCEPT ![e] =
          [Ciclo(e) EXCEPT !.posicion = moverEntrenador(@, hilo[e].meta)]]
    /\ hilo' = [hilo EXCEPT ![e].pasos = @ - 1]
    /\ UNCHANGED <<algoritmo, colas, sem, semEntrenador, trabada, cp, mp, glob, mapa, envios,
                   vivo>>

Llego(e) == calcularDistancia(entrenador[e].posicion, hilo[e].meta) = 0

\* Only RR and SJF-CD look whether the trainer arrived.
TrasMover(e) ==
    LET mira == algoritmo \in {"RR", "SJF-CD"} IN
    IF HaciaPokemon(e)
    THEN IF ~mira \/ Llego(e) THEN "ATRAPAR" ELSE "SEGUIR_MOVIENDOSE"
    ELSE IF algoritmo # "RR" \/ Llego(e) THEN "INTERCAMBIAR" ELSE Estado(e)

DejarDeMover(e) ==
    /\ hilo[e].pc = "mueve"
    /\ ~SigueMoviendose(e)
    /\ entrenador' = [entrenador EXCEPT ![e].estado = TrasMover(e),
                                        ![e].quantum = IF algoritmo = "RR" THEN QUANTUM ELSE @]
    /\ glob' = IF Estado(e) = "MOVERSE_A_POKEMON" /\ glob.esLAPrimeraVez = 2
               THEN [glob EXCEPT !.esLAPrimeraVez = 1] ELSE glob
    /\ hilo' = [hilo EXCEPT ![e] = HiloQuieto]
    /\ sem' = Post("cplazoEntrenador", 1)
    /\ UNCHANGED <<algoritmo, colas, semEntrenador, trabada, cp, mp, mapa, envios, vivo>>

\* The CATCH is handed to a thread of its own.
intentarAtraparPokemon(e) ==
    /\ Turno(e, {"ATRAPAR"})
    /\ IF buscarPokemonReservado(e) = 0
       THEN Caerse /\ UNCHANGED <<hilo, envios>>
       ELSE /\ hilo' = [hilo EXCEPT ![e].pc = "envia"]
            /\ envios' = envios \cup {[entrenador |-> e, pc |-> "conecta", id |-> -1]}
            /\ UNCHANGED vivo
    /\ UNCHANGED <<algoritmo, entrenador, colas, sem, trabada, cp, mp, glob, mapa>>

CicloDeCatch(e) ==
    IF esSJF THEN [entrenador[e] EXCEPT !.instruccion = @ + 1, !.actual = @ - Escala]
    ELSE entrenador[e]

\* rta_catch is -1: the pokemon is taken as caught, with no answer to wait for.
AtraparPorDefecto(e) ==
    /\ hilo[e].pc = "envia"
    /\ sem.mutex_catch > 0
    /\ glob.rta_catch = -1
    /\ LET i == buscarPokemonReservado(e) IN
       /\ reservados' = SinReserva(i)
       /\ atrapados' = agregarPokemon(atrapados, reservados[i].pokemon)
       /\ entrenador' = [entrenador EXCEPT ![e] =
             [CicloDeCatch(e) EXCEPT !.estado = "RECIBIO_RESPUESTA_OK",
                                     !.obtenidos = agregarPokemon(@, reservados[i].pokemon)]]
    /\ sem' = [sem EXCEPT !.mutex_catch = @ - 1, !.cplazoEntrenador = @ + 1]
    /\ hilo' = [hilo EXCEPT ![e].pc = "espera"]
    /\ UNCHANGED <<algoritmo, colas, semEntrenador, trabada, cp, mp, glob, libres, envios, vivo>>

EsperarCaught(e) ==
    /\ hilo[e].pc = "envia"
    /\ sem.mutex_catch > 0
    /\ glob.rta_catch # -1
    /\ sem' = Post("mutex_catch", -1)
    /\ entrenador' = [entrenador EXCEPT ![e] = CicloDeCatch(e)]
    /\ hilo' = [hilo EXCEPT ![e].pc = "caught"]
    /\ UNCHANGED <<algoritmo, colas, semEntrenador, trabada, cp, mp, glob, mapa, envios, vivo>>

LlegoCaught(e) ==
    /\ hilo[e].pc = "caught"
    /\ sem.esperar_caught > 0
    /\ sem' = [sem EXCEPT !.esperar_caught = @ - 1, !.cplazoEntrenador = @ + 1]
    /\ hilo' = [hilo EXCEPT ![e].pc = "espera"]
    /\ UNCHANGED <<algoritmo, entrenador, colas, semEntrenador, trabada, cp, mp, glob, mapa,
                   envios, vivo>>

\* buscarEntrenadorDelIntercambio: the last trainer to exchange with that is
\* in the same place.  The pointer is not set when there is none.
Intercambiar(e) ==
    /\ Turno(e, {"INTERCAMBIAR"})
    /\ ~trabada
    /\ LET aca == {i \in Candidatos(e) : calcularDistancia(entrenador[e].posicion,
                                               entrenador[colaBlocked[i]].posicion) = 0}
       IN IF aca = {} THEN Caerse /\ UNCHANGED <<entrenador, sem>>
          ELSE LET otro == colaBlocked[CHOOSE i \in aca : \A j \in aca : j <= i]
                   listas == intercambiarNormalPokemon(entrenador[e], entrenador[otro])
               IN /\ entrenador' = [entrenador EXCEPT
                        ![e].obtenidos = listas.uno, ![otro].obtenidos = listas.otro,
                        ![e].estado = "ACABO_INTERCAMBIO", ![otro].estado = "ACABO_INTERCAMBIO",
                        ![e].instruccion = IF esSJF THEN @ + 5 ELSE @,
                        ![e].actual = IF esSJF THEN @ - 5 * Escala ELSE @]
                  /\ sem' = Post("cplazoEntrenador", 1)
                  /\ UNCHANGED vivo
    /\ UNCHANGED <<algoritmo, hilo, colas, trabada, cp, mp, glob, mapa, envios>>

TerminarHilo(e) ==
    /\ hilo[e].pc = "espera"
    /\ Estado(e) = "EXIT"
    /\ hilo' = [hilo EXCEPT ![e].pc = "fin"]
    /\ UNCHANGED <<algoritmo, entrenador, colas, sem, semEntrenador, trabada, cp, mp, glob,
                   mapa, envios, vivo>>

Entrenador(e) ==
    \/ TurnoAPokemon(e) \/ TurnoAEntrenador(e) \/ Mover(e) \/ DejarDeMover(e)
    \/ intentarAtraparPokemon(e) \/ AtraparPorDefecto(e) \/ EsperarCaught(e)
    \/ LlegoCaught(e) \/ Intercambiar(e) \/ TerminarHilo(e)

PlanNext == CortoPlazo \/ MedianoPlazo \/ \E e \in Entrenadores : Entrenador(e)
=============================================================================
