-------------------------- MODULE GameCardSuscripcion --------------------------
(***************************************************************************)
(* The GameCard and the broker: the threads that subscribe to the three    *)
(* queues, the one that subscribes again, the end of the subscriptions by  *)
(* a signal, the GameBoy's connections and the answers.                    *)
(*                                                                         *)
(* g_mutex_envio is locked by whoever creates a subscription thread and    *)
(* unlocked by that thread once its connection is made or refused.  One    *)
(* flag, status_conexion_broker, speaks for the three subscriptions.       *)
(***************************************************************************)
EXTENDS Integers, FiniteSets, Sequences

CONSTANTS
    Cola,             \* the queues, in the order iniciar_suscripciones_broker_gc takes them
    Hilos,            \* bound: <<queue, n>>, the threads of each queue alive at a time
    Envios,           \* threads that answer a message
    MaxEventos        \* bound: messages, falls of the broker, signals and GameBoy
                      \* connections together

Colas == {Cola[n] : n \in DOMAIN Cola}

ASSUME SuscripcionAssumption ==
    /\ Cola \in Seq(Colas) /\ Cola # <<>>
    /\ Hilos \subseteq Colas \X Nat
    /\ MaxEventos \in Nat

VARIABLES
    broker,                   \* external: up or down
    g_mutex_envio,            \* TRUE when locked
    g_mutex_recepcion,
    status_conexion_broker,
    lanzador,                 \* main and the reconnection thread: [pc, cola]
    hilo,                     \* subscription threads: [pc, cnt], cnt the counter just read
    g_cnt_msjs,               \* messages counted for each queue
    recibidos,                \* messages received on each queue
    fin,                      \* the threads of FIN_SUSCRIPCION, one for each queue
    terminada,                \* queues whose SUSCRIP_END is on its way
    envio,                    \* the threads of enviar_*_pokemon_broker
    gameboy,                  \* the GameBoy connection being attended
    gamecard,                 \* "vivo", or "caido" after reading a buffer nobody sent
    eventos                   \* how many of the bounded events have happened

conexion == <<status_conexion_broker, lanzador, hilo>>
cuentas  == <<g_cnt_msjs, recibidos>>
pedidos  == <<fin, terminada>>
respuestas == <<g_mutex_recepcion, envio, gameboy>>
vars == <<broker, g_mutex_envio, conexion, cuentas, pedidos, respuestas, gamecard, eventos>>

Lanzadores == {"main", "reconexion"}

HilosDe(c) == {h \in Hilos : h[1] = c}

Libre == [pc |-> "libre", cnt |-> 0]

Init ==
    /\ broker = "arriba"
    /\ g_mutex_envio = FALSE
    /\ g_mutex_recepcion = FALSE
    /\ status_conexion_broker = TRUE
    /\ lanzador = [main |-> [pc |-> "suscribir", cola |-> 1],
                   reconexion |-> [pc |-> "fuera", cola |-> 1]]
    /\ hilo = [h \in Hilos |-> Libre]
    /\ g_cnt_msjs = [c \in Colas |-> 0]
    /\ recibidos = [c \in Colas |-> 0]
    /\ fin = [c \in Colas |-> "fuera"]
    /\ terminada = {}
    /\ envio = [e \in Envios |-> "trabar"]
    /\ gameboy = "fuera"
    /\ gamecard = "vivo"
    /\ eventos = 0

Vivo == gamecard = "vivo" /\ UNCHANGED gamecard
UnEvento == eventos < MaxEventos /\ eventos' = eventos + 1

TomarEnvio == ~g_mutex_envio /\ g_mutex_envio' = TRUE
SoltarEnvio == g_mutex_envio' = FALSE

(***************************************************************************)
(* Who starts the subscriptions                                            *)
(***************************************************************************)
TrasLanzar(l) ==
    LET s == lanzador[l]
    IN  CASE s.cola < Len(Cola) -> [s EXCEPT !.cola = @ + 1]
          [] s.cola = Len(Cola) /\ l = "main" -> [pc |-> "reconectar", cola |-> 1]
          [] s.cola = Len(Cola) /\ l = "reconexion" -> [pc |-> "dormir", cola |-> 1]

\* iniciar_suscripcion_cola_gc: the mutex is locked for the thread it creates.
\* With every thread of the bound alive no other one is created.
Suscribir(l) ==
    LET c == Cola[lanzador[l].cola]
    IN
    /\ Vivo
    /\ lanzador[l].pc = "suscribir"
    /\ \/ \E h \in HilosDe(c) :
            /\ hilo[h] = Libre
            /\ TomarEnvio
            /\ hilo' = [hilo EXCEPT ![h].pc = "conectar"]
       \/ /\ \A h \in HilosDe(c) : hilo[h] # Libre
          /\ UNCHANGED <<g_mutex_envio, hilo>>
    /\ lanzador' = [lanzador EXCEPT ![l] = TrasLanzar(l)]
    /\ UNCHANGED <<broker, status_conexion_broker, cuentas, pedidos, respuestas, eventos>>

\* lanzar_reconexion_broker_gc.
LanzarReconexion ==
    /\ Vivo
    /\ lanzador["main"].pc = "reconectar"
    /\ TomarEnvio
    /\ lanzador' = [main |-> [pc |-> "servir", cola |-> 1],
                    reconexion |-> [pc |-> "empezar", cola |-> 1]]
    /\ UNCHANGED <<broker, status_conexion_broker, hilo, cuentas, pedidos, respuestas, eventos>>

EmpezarReconexion ==
    /\ Vivo
    /\ lanzador["reconexion"].pc = "empezar"
    /\ SoltarEnvio
    /\ lanzador' = [lanzador EXCEPT !["reconexion"].pc = "dormir"]
    /\ UNCHANGED <<broker, status_conexion_broker, hilo, cuentas, pedidos, respuestas, eventos>>

\* After the interval: the three queues again, those still subscribed included.
Reconectar ==
    /\ Vivo
    /\ lanzador["reconexion"].pc = "dormir"
    /\ ~status_conexion_broker
    /\ lanzador' = [lanzador EXCEPT !["reconexion"].pc = "suscribir"]
    /\ UNCHANGED <<broker, g_mutex_envio, status_conexion_broker, hilo, cuentas, pedidos, respuestas, eventos>>

(***************************************************************************)
(* A subscription: suscripcion_gc                                          *)
(***************************************************************************)
IrA(h, pc) == hilo' = [hilo EXCEPT ![h] = [pc |-> pc, cnt |-> 0]]

\* crear_conexion, and the mutex its creator locked is freed.
Conectar(h) ==
    /\ Vivo
    /\ hilo[h].pc = "conectar"
    /\ SoltarEnvio
    /\ IrA(h, IF broker = "arriba" THEN "conectado" ELSE "rechazado")
    /\ UNCHANGED <<broker, status_conexion_broker, lanzador, cuentas, pedidos, respuestas, eventos>>

\* Mutant: the flag is not set when the connection is made.
MarcarSinConexion(h) ==
    /\ Vivo
    /\ hilo[h].pc \in {"conectado", "rechazado"}
    /\ status_conexion_broker' = TRUE
    /\ IrA(h, IF hilo[h].pc = "conectado" THEN "escuchar" ELSE "libre")
    /\ UNCHANGED <<broker, g_mutex_envio, lanzador, cuentas, pedidos, respuestas, eventos>>

MarcarConexion(h) ==
    /\ Vivo
    /\ hilo[h].pc \in {"conectado", "rechazado"}
    /\ status_conexion_broker' = (hilo[h].pc = "conectado")
    /\ IrA(h, IF hilo[h].pc = "conectado" THEN "escuchar" ELSE "libre")
    /\ UNCHANGED <<broker, g_mutex_envio, lanzador, cuentas, pedidos, respuestas, eventos>>

\* The code of a message, or of COLA_VACIA, arrives.
Llega(h) ==
    /\ Vivo
    /\ hilo[h].pc = "escuchar"
    /\ broker = "arriba"
    /\ UnEvento
    /\ IrA(h, "trabar")
    /\ UNCHANGED <<broker, g_mutex_envio, status_conexion_broker, lanzador, cuentas, pedidos, respuestas>>

\* Mutant: a message is received without g_mutex_envio.
RecibirSinMutex(h) ==
    /\ Vivo
    /\ hilo[h].pc = "trabar"
    /\ hilo' = [hilo EXCEPT ![h] = [pc |-> "contar", cnt |-> g_cnt_msjs[h[1]]]]
    /\ UNCHANGED <<broker, g_mutex_envio, status_conexion_broker, lanzador, cuentas, pedidos, respuestas, eventos>>

\* rcv_msjs_broker_gc reads the counter ...
RecibirMensaje(h) ==
    /\ Vivo
    /\ hilo[h].pc = "trabar"
    /\ TomarEnvio
    /\ hilo' = [hilo EXCEPT ![h] = [pc |-> "contar", cnt |-> g_cnt_msjs[h[1]]]]
    /\ UNCHANGED <<broker, status_conexion_broker, lanzador, cuentas, pedidos, respuestas, eventos>>

\* ... writes it, hands the message to its thread and frees the mutex.
Contar(h) ==
    /\ Vivo
    /\ hilo[h].pc = "contar"
    /\ g_cnt_msjs' = [g_cnt_msjs EXCEPT ![h[1]] = hilo[h].cnt + 1]
    /\ recibidos' = [recibidos EXCEPT ![h[1]] = @ + 1]
    /\ SoltarEnvio
    /\ IrA(h, "escuchar")
    /\ UNCHANGED <<broker, status_conexion_broker, lanzador, pedidos, respuestas, eventos>>

\* COLA_VACIA, received under the same mutex, is no message of the queue: the global
\* counter stays as it is.
RecibirVacia(h) ==
    /\ Vivo
    /\ hilo[h].pc = "trabar"
    /\ TomarEnvio
    /\ IrA(h, "vacia")
    /\ UNCHANGED <<broker, status_conexion_broker, lanzador, cuentas, pedidos, respuestas, eventos>>

SoltarVacia(h) ==
    /\ Vivo
    /\ hilo[h].pc = "vacia"
    /\ SoltarEnvio
    /\ IrA(h, "escuchar")
    /\ UNCHANGED <<broker, status_conexion_broker, lanzador, cuentas, pedidos, respuestas, eventos>>

\* recv gets nothing: rcv_codigo_operacion returns a variable nobody has set.
\* It is no code of the GameCard's, or it looks like one and a buffer that was
\* never sent is read.
PerderConexion(h) ==
    /\ gamecard = "vivo"
    /\ hilo[h].pc = "escuchar"
    /\ broker = "abajo"
    /\ \/ /\ status_conexion_broker' = FALSE
          /\ IrA(h, "cerrar")
          /\ UNCHANGED gamecard
       \/ /\ gamecard' = "caido"
          /\ UNCHANGED <<status_conexion_broker, hilo>>
    /\ UNCHANGED <<broker, g_mutex_envio, lanzador, cuentas, pedidos, respuestas, eventos>>

\* SUSCRIP_END with the id of this process.  With another id the thread would end
\* with the connection open and the flag TRUE (suscripcion.c:72); the broker's thread
\* sends the id of the process it serves, and Mensajes checks that no process fails.
RecibirFin(h) ==
    /\ Vivo
    /\ hilo[h].pc = "escuchar"
    /\ broker = "arriba"
    /\ h[1] \in terminada
    /\ terminada' = terminada \ {h[1]}
    /\ IrA(h, "cerrar")
    /\ UNCHANGED <<broker, g_mutex_envio, status_conexion_broker, lanzador, cuentas, fin, respuestas, eventos>>

Cerrar(h) ==
    /\ Vivo
    /\ hilo[h].pc = "cerrar"
    /\ status_conexion_broker' = FALSE
    /\ IrA(h, "libre")
    /\ UNCHANGED <<broker, g_mutex_envio, lanzador, cuentas, pedidos, respuestas, eventos>>

(***************************************************************************)
(* The end of the subscriptions: a signal, taken by the main thread        *)
(***************************************************************************)
Senal ==
    /\ Vivo
    /\ lanzador["main"].pc = "servir"
    /\ UnEvento
    /\ lanzador' = [lanzador EXCEPT !["main"] = [pc |-> "finalizar", cola |-> 1]]
    /\ UNCHANGED <<broker, g_mutex_envio, status_conexion_broker, hilo, cuentas, pedidos, respuestas>>

\* enviar_end_suscripcion_broker, for one queue after another.
PedirFin ==
    LET s == lanzador["main"]
    IN
    /\ Vivo
    /\ s.pc = "finalizar"
    /\ fin[Cola[s.cola]] = "fuera"
    /\ TomarEnvio
    /\ fin' = [fin EXCEPT ![Cola[s.cola]] = "conectar"]
    /\ lanzador' = [lanzador EXCEPT !["main"] =
                      IF s.cola < Len(Cola) THEN [s EXCEPT !.cola = @ + 1] ELSE [pc |-> "servir", cola |-> 1]]
    /\ UNCHANGED <<broker, status_conexion_broker, hilo, cuentas, terminada, respuestas, eventos>>

ConectarFin(c) ==
    /\ Vivo
    /\ fin[c] = "conectar"
    /\ IF broker = "arriba"
       THEN fin' = [fin EXCEPT ![c] = "confirmar"] /\ UNCHANGED g_mutex_envio
       ELSE fin' = [fin EXCEPT ![c] = "fuera"] /\ SoltarEnvio
    /\ UNCHANGED <<broker, conexion, cuentas, terminada, respuestas, eventos>>

\* The broker confirms and tells the subscription, or goes down meanwhile; the
\* mutex is freed either way.
ConfirmarFin(c) ==
    /\ Vivo
    /\ fin[c] = "confirmar"
    /\ fin' = [fin EXCEPT ![c] = "fuera"]
    /\ SoltarEnvio
    /\ terminada' = IF broker = "arriba" THEN terminada \cup {c} ELSE terminada
    /\ UNCHANGED <<broker, conexion, cuentas, respuestas, eventos>>

(***************************************************************************)
(* Under g_mutex_recepcion: answers and the GameBoy                        *)
(***************************************************************************)
\* enviar_appeared, _localized and _caught_pokemon_broker.
TrabarEnvio(e) ==
    /\ Vivo
    /\ envio[e] = "trabar"
    /\ ~g_mutex_recepcion
    /\ g_mutex_recepcion' = TRUE
    /\ envio' = [envio EXCEPT ![e] = "enviar"]
    /\ UNCHANGED <<broker, g_mutex_envio, conexion, cuentas, pedidos, gameboy, eventos>>

Enviar(e) ==
    /\ Vivo
    /\ envio[e] = "enviar"
    /\ envio' = [envio EXCEPT ![e] = IF broker = "arriba" THEN "id" ELSE "perdida"]
    /\ g_mutex_recepcion' = (broker = "arriba")
    /\ UNCHANGED <<broker, g_mutex_envio, conexion, cuentas, pedidos, gameboy, eventos>>

\* ID_MENSAJE comes, or the connection is lost.
RecibirId(e) ==
    /\ Vivo
    /\ envio[e] = "id"
    /\ g_mutex_recepcion' = FALSE
    /\ envio' = [envio EXCEPT ![e] = IF broker = "arriba" THEN "enviada" ELSE "perdida"]
    /\ UNCHANGED <<broker, g_mutex_envio, conexion, cuentas, pedidos, gameboy, eventos>>

AtenderGameboy ==
    /\ Vivo
    /\ lanzador["main"].pc = "servir"
    /\ gameboy = "fuera"
    /\ ~g_mutex_recepcion
    /\ UnEvento
    /\ g_mutex_recepcion' = TRUE
    /\ gameboy' = "recibir"
    /\ UNCHANGED <<broker, g_mutex_envio, conexion, cuentas, pedidos, envio>>

\* Mutant: the mutex is not freed once the message is confirmed.
RecibirGameboySinSoltar ==
    /\ Vivo
    /\ gameboy = "recibir"
    /\ gameboy' = "fuera"
    /\ UNCHANGED <<broker, g_mutex_envio, g_mutex_recepcion, conexion, cuentas, pedidos, envio, eventos>>

\* A message of the GameCard: it is confirmed and the mutex freed.
RecibirGameboy ==
    /\ Vivo
    /\ gameboy = "recibir"
    /\ g_mutex_recepcion' = FALSE
    /\ gameboy' = "fuera"
    /\ UNCHANGED <<broker, g_mutex_envio, conexion, cuentas, pedidos, envio, eventos>>

\* Any other code: the thread ends without freeing the mutex.
RecibirEquivocado ==
    /\ Vivo
    /\ gameboy = "recibir"
    /\ gameboy' = "trabado"
    /\ UNCHANGED <<broker, g_mutex_envio, g_mutex_recepcion, conexion, cuentas, pedidos, envio, eventos>>

(***************************************************************************)
(* The broker: external                                                    *)
(***************************************************************************)
BrokerCae ==
    /\ Vivo
    /\ broker = "arriba"
    /\ UnEvento
    /\ broker' = "abajo"
    /\ terminada' = {}
    /\ UNCHANGED <<g_mutex_envio, conexion, cuentas, fin, respuestas>>

BrokerVuelve ==
    /\ Vivo
    /\ broker = "abajo"
    /\ broker' = "arriba"
    /\ UNCHANGED <<g_mutex_envio, conexion, cuentas, pedidos, respuestas, eventos>>

Principal == Suscribir("main") \/ LanzarReconexion \/ PedirFin
Reconexion == Suscribir("reconexion") \/ EmpezarReconexion \/ Reconectar
Suscripcion(h) ==
    Conectar(h) \/ MarcarConexion(h) \/ RecibirMensaje(h) \/ Contar(h)
    \/ RecibirVacia(h) \/ SoltarVacia(h)
    \/ PerderConexion(h) \/ RecibirFin(h) \/ Cerrar(h)
Fin(c) == ConectarFin(c) \/ ConfirmarFin(c)
Envia(e) == TrabarEnvio(e) \/ Enviar(e) \/ RecibirId(e)

Next ==
    \/ Principal \/ Reconexion
    \/ \E h \in Hilos : Suscripcion(h) \/ Llega(h)
    \/ Senal
    \/ \E c \in Colas : Fin(c)
    \/ \E e \in Envios : Envia(e)
    \/ AtenderGameboy \/ RecibirGameboy \/ RecibirEquivocado
    \/ BrokerCae \/ BrokerVuelve

\* Threads run on their own, and a broker that is down comes back.  Nothing
\* obliges a message, a signal or a GameBoy to come.
Fairness ==
    /\ WF_vars(Principal) /\ WF_vars(Reconexion)
    /\ \A h \in Hilos : WF_vars(Suscripcion(h))
    /\ \A c \in Colas : WF_vars(Fin(c))
    /\ \A e \in Envios : WF_vars(Envia(e))
    /\ WF_vars(RecibirGameboy \/ RecibirEquivocado)
    /\ WF_vars(BrokerVuelve)

Spec == Init /\ [][Next]_vars
FairSpec == Spec /\ Fairness

(***************************************************************************)
(* Properties                                                              *)
(***************************************************************************)
\* Who owes the release of g_mutex_envio: a subscription connecting or receiving, a
\* request of FIN, the reconnection thread when it starts.
HilosDeudores == {h \in Hilos : hilo[h].pc \in {"conectar", "contar", "vacia"}}
FinesDeudores == {c \in Colas : fin[c] # "fuera"}
ReconexionDebe == lanzador["reconexion"].pc = "empezar"

\* Though it is freed by threads that did not lock it, g_mutex_envio is locked
\* exactly while one thread owes its release: no thread frees it under another
\* (iniciar_suscripcion_cola_gc, enviar_end_suscripcion_broker).
EnvioDeUno ==
    /\ g_mutex_envio <=> HilosDeudores # {} \/ FinesDeudores # {} \/ ReconexionDebe
    /\ \A h, g \in HilosDeudores : h = g
    /\ \A c, d \in FinesDeudores : c = d
    /\ HilosDeudores # {} => FinesDeudores = {} /\ ~ReconexionDebe
    /\ FinesDeudores # {} => ~ReconexionDebe

\* The count the end of a subscription reports is that of the messages received,
\* duplicate connections of one queue included (rcv_msjs_broker_gc).
CuentaExacta == g_cnt_msjs = recibidos

\* An answer is sent or found lost, whatever the GameBoy and the other answers do,
\* unless a wrong code has left g_mutex_recepcion locked
\* (enviar_*_pokemon_broker, atender_gameboy_gc).
SeEnvia ==
    \A e \in Envios :
        <>(envio[e] \in {"enviada", "perdida"} \/ gamecard = "caido" \/ gameboy = "trabado")

\* Some subscription is listening from some time on, or again and again, while
\* the process lives: a loss of all of them is always noticed
\* (funciones_reconexion_gc).
SiempreVuelveUna == []<>(gamecard = "caido" \/ \E h \in Hilos : hilo[h].pc \in {"escuchar", "trabar", "contar", "vacia"})
=============================================================================
