---------------------------- MODULE BrokerDelivery ----------------------------
(***************************************************************************)
(* One queue of the broker and the threads around it: one thread for each  *)
(* connection that publishes or ends a subscription (atender_publicacion), *)
(* one for each subscription (atender_suscripcion), the subscribed         *)
(* processes at the other end, and what they share: the messages and the   *)
(* subscribers of the queue, the semaphore of each subscriber, the id      *)
(* counter and g_mutex_msjs.                                               *)
(*                                                                         *)
(* The mutexes are default ones: pthread_mutex_unlock frees them whoever   *)
(* holds them, so g_mutex_msjs is a flag.  The cache is reduced to what    *)
(* the queue sees of it: storing a message in a full cache evicts the      *)
(* oldest one.                                                             *)
(***************************************************************************)
EXTENDS Integers, SequencesExt

CONSTANTS
    Publicadores,     \* connections that publish or send FIN_SUSCRIPCION
    Suscriptores,     \* id_suscriptor of each subscribed process: a number
    MaxConexiones,    \* bound: subscriptions each process makes to the queue
    MaxMensajes,      \* bound: publications in a behaviour
    MaxFines,         \* bound: FIN_SUSCRIPCION requests in a behaviour
    Capacidad,        \* messages the cache holds
    AltasAntes        \* scenario: nothing is published until every process has
                      \* subscribed once and its thread is past the alta

ASSUME DeliveryAssumption ==
    /\ Suscriptores \subseteq Nat \ {0}
    /\ MaxConexiones \in Nat \ {0}
    /\ MaxMensajes \in Nat
    /\ MaxFines \in Nat
    /\ Capacidad \in Nat \ {0}
    /\ AltasAntes \in BOOLEAN

\* The n-th subscription of process s.
Conexiones == Suscriptores \X (1 .. MaxConexiones)

Nadie == <<0, 0>>      \* no subscription
Nada  == [tipo |-> "nada", id |-> 0]

VARIABLES
    g_mutex_msjs,     \* TRUE when locked
    g_msg_counter,
    mensajes_cola,    \* messages of the queue: [id_mensaje, sended_suscriptors]
    suscriptores,     \* records of the queue, each named by the subscription that added it
    sem_cont_msjs,    \* the semaphore of each record
    enabled,          \* the flag of each record
    publicacion,      \* the threads of atender_publicacion: [pc, op, id]
    hilo,             \* the threads of atender_suscripcion
    cliente,          \* the process at the other end of a subscription
    canal,            \* what is in flight on its socket
    recibidos,        \* ids received on each subscription, in order
    pedidos,          \* requests made: [mensajes, fines]
    broker            \* "vivo", or "caido" after a NULL dereference

mutexYCola == <<g_mutex_msjs, g_msg_counter, mensajes_cola>>
registros  == <<suscriptores, sem_cont_msjs, enabled>>
clientes   == <<cliente, canal, recibidos>>

vars == <<mutexYCola, registros, publicacion, hilo, clientes, pedidos, broker>>

Mensaje == [id_mensaje : Nat \ {0}, sended_suscriptors : SUBSET Suscriptores]

Paquete == [tipo : {"nada", "mensaje", "vacia", "ack"}, id : Nat]

Init ==
    /\ g_mutex_msjs = FALSE
    /\ g_msg_counter = 1
    /\ mensajes_cola = <<>>
    /\ suscriptores = <<>>
    /\ sem_cont_msjs = [c \in Conexiones |-> 0]
    /\ enabled = [c \in Conexiones |-> FALSE]
    /\ publicacion = [p \in Publicadores |-> [pc |-> "fuera", op |-> 0, id |-> 0]]
    /\ hilo = [c \in Conexiones |->
                 [pc |-> "fuera", reg |-> Nadie, ult_id_recibido |-> 0,
                  cant_msjs_sem |-> 0, abierto |-> FALSE]]
    /\ cliente = [c \in Conexiones |-> "fuera"]
    /\ canal = [c \in Conexiones |-> Nada]
    /\ recibidos = [c \in Conexiones |-> <<>>]
    /\ pedidos = [mensajes |-> 0, fines |-> 0]
    /\ broker = "vivo"

(***************************************************************************)
(* Helpers                                                                 *)
(***************************************************************************)
es_msj_sin_enviar(m, s) == s \notin m.sended_suscriptors

\* Position of get_msg_sin_enviar's message: the first not sent to s, 0 if none.
get_msg_sin_enviar(s) == SelectInSeq(mensajes_cola, LAMBDA m : es_msj_sin_enviar(m, s))

cant_msjs_sin_enviar(s) ==
    Cardinality({i \in DOMAIN mensajes_cola : es_msj_sin_enviar(mensajes_cola[i], s)})

\* Mutant: every message is marked, as set_mensaje_enviado_a_suscriptor_cola does.
MarcarTodos(cola, s, id) ==
    [i \in DOMAIN cola |->
        [cola[i] EXCEPT !.sended_suscriptors = @ \cup (IF id = 0 THEN {} ELSE {s})]]

\* The queue once the message id, if it is still there, is marked as sent to s.
set_msg_enviado_a_suscriptor(cola, s, id) ==
    [i \in DOMAIN cola |->
        IF i = SelectInSeq(cola, LAMBDA m : m.id_mensaje = id)
        THEN [cola[i] EXCEPT !.sended_suscriptors = @ \cup {s}]
        ELSE cola[i]]

\* Position of the record obtengo_suscriptor_cola finds: the first with the id.
PosicionRegistro(s) == SelectInSeq(suscriptores, LAMBDA c : c[1] = s)

obtengo_suscriptor_cola(s) ==
    IF PosicionRegistro(s) = 0 THEN Nadie ELSE suscriptores[PosicionRegistro(s)]

\* The record is still in the list: quitar_suscriptor_cola has not freed it.
EnUso(reg) == \E i \in DOMAIN suscriptores : suscriptores[i] = reg

\* Mutant: only the first subscriber of the queue is told of a message.
AvisoAlPrimero(sems, lista) ==
    [c \in Conexiones |-> IF lista # <<>> /\ c = lista[1] THEN sems[c] + 1 ELSE sems[c]]

\* incremento_sem_cont_suscriptor on every subscriber of the list.
Aviso(sems, lista) ==
    [c \in Conexiones |-> IF c \in ToSet(lista) THEN sems[c] + 1 ELSE sems[c]]

\* Nothing runs once the broker is down.
SigueVivo == broker = "vivo" /\ UNCHANGED broker

(***************************************************************************)
(* atender_publicacion: a message, or the end of the subscription of s.    *)
(***************************************************************************)
IrA(p, pc) == publicacion' = [publicacion EXCEPT ![p].pc = pc]

\* The connection arrives and its thread gets g_mutex_msjs to receive the request.
RecibirPublicacion(p) ==
    /\ publicacion[p].pc = "fuera"
    /\ pedidos.mensajes < MaxMensajes
    /\ AltasAntes => \A s \in Suscriptores :
                        hilo[<<s, 1>>].pc \notin {"fuera", "handshake", "alta"}
    /\ ~g_mutex_msjs
    /\ g_mutex_msjs' = TRUE
    /\ publicacion' = [publicacion EXCEPT ![p] = [pc |-> "recibiendo", op |-> 0, id |-> 0]]
    /\ pedidos' = [pedidos EXCEPT !.mensajes = @ + 1]
    /\ UNCHANGED <<g_msg_counter, mensajes_cola, registros, hilo, clientes>>
    /\ SigueVivo

\* A subscribed process was told to stop: finalizar_suscripciones, on a signal.
RecibirFin(p, s) ==
    /\ publicacion[p].pc = "fuera"
    /\ pedidos.fines < MaxFines
    /\ \E n \in 1 .. MaxConexiones : cliente[<<s, n>>] = "suscripto"
    /\ ~g_mutex_msjs
    /\ g_mutex_msjs' = TRUE
    /\ publicacion' = [publicacion EXCEPT ![p] = [pc |-> "recibiendo", op |-> s, id |-> 0]]
    /\ pedidos' = [pedidos EXCEPT !.fines = @ + 1]
    /\ UNCHANGED <<g_msg_counter, mensajes_cola, registros, hilo, clientes>>
    /\ SigueVivo

SoltarTrasRecibir(p) ==
    /\ publicacion[p].pc = "recibiendo"
    /\ g_mutex_msjs' = FALSE
    /\ IrA(p, IF publicacion[p].op = 0 THEN "publicar" ELSE "deshabilitar")
    /\ UNCHANGED <<g_msg_counter, mensajes_cola, registros, hilo, clientes, pedidos>>
    /\ SigueVivo

\* enqueue_msg_X begins: the lock, and the id generar_nuevo_mensaje_cola reads.
TomarId(p) ==
    /\ publicacion[p].pc = "publicar"
    /\ ~g_mutex_msjs
    /\ g_mutex_msjs' = TRUE
    /\ publicacion' = [publicacion EXCEPT ![p].pc = "encolar", ![p].id = g_msg_counter]
    /\ UNCHANGED <<g_msg_counter, mensajes_cola, registros, hilo, clientes, pedidos>>
    /\ SigueVivo

\* Mutant: nothing is evicted.
SinDesalojo(cola) == cola

\* A full cache gives the place of its oldest message.
HacerLugar(cola) == IF Len(cola) = Capacidad THEN Tail(cola) ELSE cola

\* poner_datos_msj_en_particion_cache and poner_msj_en_cola, with the mutex of the queue.
Encolar(p) ==
    /\ publicacion[p].pc = "encolar"
    /\ mensajes_cola' =
          Append(HacerLugar(mensajes_cola),
                 [id_mensaje |-> publicacion[p].id, sended_suscriptors |-> {}])
    /\ sem_cont_msjs' = Aviso(sem_cont_msjs, suscriptores)
    /\ IrA(p, "contar")
    /\ UNCHANGED <<g_mutex_msjs, g_msg_counter, suscriptores, enabled, hilo, clientes, pedidos>>
    /\ SigueVivo

incremento_cnt_id_mensajes(n) == n + 1

Contar(p) ==
    /\ publicacion[p].pc = "contar"
    /\ g_msg_counter' = incremento_cnt_id_mensajes(g_msg_counter)
    /\ g_mutex_msjs' = FALSE
    /\ IrA(p, "fuera")
    /\ UNCHANGED <<mensajes_cola, registros, hilo, clientes, pedidos>>
    /\ SigueVivo

\* Mutant: the thread that waits for a message is not woken up.
DeshabilitarSinAviso(n) == n

\* The semaphore after deshabilitar_suscriptor_cola: the thread must not stay asleep.
SemaforoTrasFin(n) == IF n = 0 THEN 1 ELSE n

\* deshabilitar_suscriptor_cola, with the mutex of the queue.
Deshabilitar(p) ==
    LET r == obtengo_suscriptor_cola(publicacion[p].op)
    IN  /\ publicacion[p].pc = "deshabilitar"
        /\ r # Nadie
        /\ enabled' = [enabled EXCEPT ![r] = FALSE]
        /\ sem_cont_msjs' = [sem_cont_msjs EXCEPT ![r] = SemaforoTrasFin(@)]
        /\ IrA(p, "confirmar")
        /\ UNCHANGED <<mutexYCola, suscriptores, hilo, clientes, pedidos>>
        /\ SigueVivo

\* obtengo_suscriptor_cola found no record, and its result is dereferenced.
DeshabilitarInexistente(p) ==
    /\ publicacion[p].pc = "deshabilitar"
    /\ obtengo_suscriptor_cola(publicacion[p].op) = Nadie
    /\ broker = "vivo"
    /\ broker' = "caido"
    /\ UNCHANGED <<mutexYCola, registros, publicacion, hilo, clientes, pedidos>>

Confirmar(p) ==
    /\ publicacion[p].pc = "confirmar"
    /\ ~g_mutex_msjs
    /\ g_mutex_msjs' = TRUE
    /\ IrA(p, "confirmando")
    /\ UNCHANGED <<g_msg_counter, mensajes_cola, registros, hilo, clientes, pedidos>>
    /\ SigueVivo

\* enviar_msg_confirmed is done.
FinConfirmar(p) ==
    /\ publicacion[p].pc = "confirmando"
    /\ g_mutex_msjs' = FALSE
    /\ IrA(p, "fuera")
    /\ UNCHANGED <<g_msg_counter, mensajes_cola, registros, hilo, clientes, pedidos>>
    /\ SigueVivo

(***************************************************************************)
(* atender_suscripcion.  Its recursion through atender_cliente_broker is a *)
(* loop: the innermost call, the one that received the last handshake, is  *)
(* the only one that runs, and it ends in pthread_exit.                    *)
(***************************************************************************)
Pasar(c, pc) == hilo' = [hilo EXCEPT ![c].pc = pc]

\* The process subscribes: its first handshake (msjs_recibidos = 0) is sent.  It
\* subscribes again once it has lost the previous connection.
Suscribir(c) ==
    /\ cliente[c] = "fuera"
    /\ \A n \in 1 .. c[2] - 1 : cliente[<<c[1], n>>] \in {"desconectado", "terminado"}
    /\ cliente' = [cliente EXCEPT ![c] = "suscripto"]
    /\ hilo' = [hilo EXCEPT ![c].pc = "handshake", ![c].abierto = TRUE]
    /\ UNCHANGED <<mutexYCola, registros, publicacion, canal, recibidos, pedidos>>
    /\ SigueVivo

\* The handshake is received, g_mutex_msjs unlocked though this thread does not
\* hold it, and the unsent messages counted.
ContarSinEnviar(c) ==
    /\ hilo[c].pc = "handshake"
    /\ g_mutex_msjs' = FALSE
    /\ hilo' = [hilo EXCEPT ![c].pc = "alta", ![c].cant_msjs_sem = cant_msjs_sin_enviar(c[1])]
    /\ UNCHANGED <<g_msg_counter, mensajes_cola, registros, publicacion, clientes, pedidos>>
    /\ SigueVivo

\* The rest of alta_suscriptor_cola, and the record the thread will use: the
\* first one with this id_suscriptor.
alta_suscriptor_cola(c) ==
    LET r == obtengo_suscriptor_cola(c[1])
    IN  /\ hilo[c].pc = "alta"
        /\ suscriptores' = Append(suscriptores, c)
        /\ sem_cont_msjs' = [sem_cont_msjs EXCEPT ![c] = hilo[c].cant_msjs_sem]
        /\ enabled' = [enabled EXCEPT ![c] = TRUE]
        /\ hilo' = [hilo EXCEPT ![c].pc = "lazo", ![c].reg = IF r = Nadie THEN c ELSE r]
        /\ UNCHANGED <<mutexYCola, publicacion, clientes, pedidos>>
        /\ SigueVivo

\* The loop goes on: the message of the last handshake is marked as sent.
Continuar(c) ==
    /\ hilo[c].pc = "lazo"
    /\ EnUso(hilo[c].reg)
    /\ enabled[hilo[c].reg]
    /\ mensajes_cola' =
          set_msg_enviado_a_suscriptor(mensajes_cola, c[1], hilo[c].ult_id_recibido)
    /\ Pasar(c, "esperar")
    /\ UNCHANGED <<g_mutex_msjs, g_msg_counter, registros, publicacion, clientes, pedidos>>
    /\ SigueVivo

\* sem_wait.  On a record that is gone the thread sleeps for good.
Despertar(c) ==
    /\ hilo[c].pc = "esperar"
    /\ EnUso(hilo[c].reg)
    /\ sem_cont_msjs[hilo[c].reg] > 0
    /\ sem_cont_msjs' = [sem_cont_msjs EXCEPT ![hilo[c].reg] = @ - 1]
    /\ Pasar(c, "trabar")
    /\ UNCHANGED <<mutexYCola, suscriptores, enabled, publicacion, clientes, pedidos>>
    /\ SigueVivo

TrabarParaEnviar(c) ==
    /\ hilo[c].pc = "trabar"
    /\ ~g_mutex_msjs
    /\ g_mutex_msjs' = TRUE
    /\ Pasar(c, "enviar")
    /\ UNCHANGED <<g_msg_counter, mensajes_cola, registros, publicacion, clientes, pedidos>>
    /\ SigueVivo

\* Mutant: the last message not sent to s is taken.
UltimoSinEnviar(s) ==
    LET i == SelectLastInSeq(mensajes_cola, LAMBDA m : es_msj_sin_enviar(m, s))
    IN  IF i = 0 THEN [tipo |-> "vacia", id |-> s]
        ELSE [tipo |-> "mensaje", id |-> mensajes_cola[i].id_mensaje]

\* What despachar_msjs_X sends: the first message not sent to s, or COLA_VACIA.
Despacho(s) ==
    IF get_msg_sin_enviar(s) = 0 THEN [tipo |-> "vacia", id |-> s]
    ELSE [tipo |-> "mensaje", id |-> mensajes_cola[get_msg_sin_enviar(s)].id_mensaje]

\* The send succeeds; a process that is gone does not get it.
Enviar(c) ==
    /\ hilo[c].pc = "enviar"
    /\ hilo[c].abierto
    /\ canal' = [canal EXCEPT ![c] = IF cliente[c] = "suscripto" THEN Despacho(c[1]) ELSE Nada]
    /\ g_mutex_msjs' = FALSE
    /\ Pasar(c, "ack")
    /\ UNCHANGED <<g_msg_counter, mensajes_cola, registros, publicacion, cliente,
                   recibidos, pedidos>>
    /\ SigueVivo

\* The socket was closed, or the connection reset: sent_bytes = -1, the subscriber
\* is down.
EnviarACerrado(c) ==
    /\ hilo[c].pc = "enviar"
    /\ ~hilo[c].abierto \/ cliente[c] = "desconectado"
    /\ g_mutex_msjs' = FALSE
    /\ enabled' = IF EnUso(hilo[c].reg) THEN [enabled EXCEPT ![hilo[c].reg] = FALSE] ELSE enabled
    /\ Pasar(c, "baja")
    /\ UNCHANGED <<g_msg_counter, mensajes_cola, suscriptores, sem_cont_msjs, publicacion,
                   clientes, pedidos>>
    /\ SigueVivo

\* The next handshake: g_mutex_msjs is unlocked again, and the record looked up.
RecibirAck(c) ==
    /\ hilo[c].pc = "ack"
    /\ canal[c].tipo = "ack"
    /\ obtengo_suscriptor_cola(c[1]) # Nadie
    /\ g_mutex_msjs' = FALSE
    /\ canal' = [canal EXCEPT ![c] = Nada]
    /\ hilo' = [hilo EXCEPT ![c].pc = "lazo", ![c].ult_id_recibido = canal[c].id,
                            ![c].reg = obtengo_suscriptor_cola(c[1])]
    /\ UNCHANGED <<g_msg_counter, mensajes_cola, registros, publicacion, cliente,
                   recibidos, pedidos>>
    /\ SigueVivo

\* recv finds the connection closed: the thread closes its socket and goes on with
\* the loop of atender_suscripcion, with the same record and ult_id_recibido.
PerderConexion(c) ==
    /\ hilo[c].pc = "ack"
    /\ cliente[c] = "desconectado"
    /\ canal[c] = Nada
    /\ hilo' = [hilo EXCEPT ![c].pc = "lazo", ![c].abierto = FALSE]
    /\ UNCHANGED <<mutexYCola, registros, publicacion, clientes, pedidos>>
    /\ SigueVivo

\* The flag was lowered by deshabilitar_suscriptor_cola, or by another thread.
Terminar(c) ==
    /\ hilo[c].pc = "lazo"
    /\ EnUso(hilo[c].reg)
    /\ ~enabled[hilo[c].reg]
    /\ cliente' = [cliente EXCEPT ![c] = IF @ = "suscripto" THEN "terminado" ELSE @]
    /\ Pasar(c, "baja")
    /\ UNCHANGED <<mutexYCola, registros, publicacion, canal, recibidos, pedidos>>
    /\ SigueVivo

\* eliminar_suscriptor_por_id: the first record with the id leaves the list.
eliminar_suscriptor_por_id(c) ==
    /\ hilo[c].pc = "baja"
    /\ PosicionRegistro(c[1]) # 0
    /\ suscriptores' = RemoveAt(suscriptores, PosicionRegistro(c[1]))
    /\ Pasar(c, "fin")
    /\ UNCHANGED <<mutexYCola, sem_cont_msjs, enabled, publicacion, clientes, pedidos>>
    /\ SigueVivo

(***************************************************************************)
(* The subscribed process (suscripcion_gc and its likes).                  *)
(***************************************************************************)

\* It receives what is in flight and sends a handshake with the id: that of the
\* message, or the one a COLA_VACIA carries, which is its own id_suscriptor.
Recibir(c) ==
    /\ cliente[c] = "suscripto"
    /\ canal[c].tipo \in {"mensaje", "vacia"}
    /\ recibidos' = IF canal[c].tipo = "mensaje"
                    THEN [recibidos EXCEPT ![c] = Append(@, canal[c].id)] ELSE recibidos
    /\ canal' = [canal EXCEPT ![c].tipo = "ack"]
    /\ UNCHANGED <<mutexYCola, registros, publicacion, hilo, cliente, pedidos>>
    /\ SigueVivo

\* It dies, or its network does: what it had not received is lost.
Desconectar(c) ==
    /\ cliente[c] = "suscripto"
    /\ cliente' = [cliente EXCEPT ![c] = "desconectado"]
    /\ canal' = [canal EXCEPT ![c] = IF @.tipo = "ack" THEN @ ELSE Nada]
    /\ UNCHANGED <<mutexYCola, registros, publicacion, hilo, recibidos, pedidos>>
    /\ SigueVivo

PasoPublicacion(p) ==
    \/ SoltarTrasRecibir(p)
    \/ TomarId(p)
    \/ Encolar(p)
    \/ Contar(p)
    \/ Deshabilitar(p)
    \/ DeshabilitarInexistente(p)
    \/ Confirmar(p)
    \/ FinConfirmar(p)

PasoHilo(c) ==
    \/ ContarSinEnviar(c)
    \/ alta_suscriptor_cola(c)
    \/ Continuar(c)
    \/ Despertar(c)
    \/ TrabarParaEnviar(c)
    \/ Enviar(c)
    \/ EnviarACerrado(c)
    \/ RecibirAck(c)
    \/ PerderConexion(c)
    \/ Terminar(c)
    \/ eliminar_suscriptor_por_id(c)

Next ==
    \/ \E p \in Publicadores :
          \/ RecibirPublicacion(p)
          \/ \E s \in Suscriptores : RecibirFin(p, s)
          \/ PasoPublicacion(p)
    \/ \E c \in Conexiones :
          \/ Suscribir(c)
          \/ PasoHilo(c)
          \/ Recibir(c)
          \/ Desconectar(c)

Spec == Init /\ [][Next]_vars

\* Every thread that can run is run, and a connected process keeps receiving.
FairSpec ==
    /\ Spec
    /\ \A p \in Publicadores : WF_vars(PasoPublicacion(p))
    /\ \A c \in Conexiones : /\ WF_vars(PasoHilo(c))
                             /\ WF_vars(Recibir(c))

(***************************************************************************)
(* Properties                                                              *)
(***************************************************************************)
TypeOK ==
    /\ g_mutex_msjs \in BOOLEAN
    /\ g_msg_counter \in Nat \ {0}
    /\ mensajes_cola \in Seq(Mensaje)
    /\ Len(mensajes_cola) <= Capacidad
    /\ suscriptores \in Seq(Conexiones)
    /\ sem_cont_msjs \in [Conexiones -> Nat]
    /\ enabled \in [Conexiones -> BOOLEAN]
    /\ publicacion \in [Publicadores ->
          [pc : {"fuera", "recibiendo", "publicar", "encolar", "contar", "deshabilitar",
                 "confirmar", "confirmando"},
           op : Suscriptores \cup {0}, id : Nat]]
    /\ hilo \in [Conexiones ->
          [pc : {"fuera", "handshake", "alta", "lazo", "esperar", "trabar", "enviar", "ack",
                 "baja", "fin"},
           reg : Conexiones \cup {Nadie}, ult_id_recibido : Nat, cant_msjs_sem : Nat,
           abierto : BOOLEAN]]
    /\ cliente \in [Conexiones -> {"fuera", "suscripto", "desconectado", "terminado"}]
    /\ canal \in [Conexiones -> Paquete]
    /\ recibidos \in [Conexiones -> Seq(Nat)]
    /\ pedidos \in [mensajes : Nat, fines : Nat]
    /\ broker \in {"vivo", "caido"}

\* A process receives the messages of the queue in the order of their ids and, on
\* one subscription, none twice, whatever was evicted or acknowledged in between.
EntregaEnOrden ==
    \A c \in Conexiones : \A i, j \in DOMAIN recibidos[c] :
        i < j => recibidos[c][i] < recibidos[c][j]

\* A message is marked as sent to a process only if the process received it on
\* one of its subscriptions: whatever is lost on the way is sent again.
MarcadoEsRecibido ==
    \A i \in DOMAIN mensajes_cola : \A s \in mensajes_cola[i].sended_suscriptors :
        \E n \in 1 .. MaxConexiones :
            mensajes_cola[i].id_mensaje \in ToSet(recibidos[<<s, n>>])

\* The thread of a connected process sleeps on its semaphore only when the process
\* has been sent every message of the queue.
EsperaSoloSiRecibioTodo ==
    \A c \in Conexiones :
        /\ hilo[c].pc = "esperar"
        /\ cliente[c] = "suscripto"
        /\ sem_cont_msjs[hilo[c].reg] = 0
        => cant_msjs_sin_enviar(c[1]) = 0

Pendiente(c, id) ==
    /\ broker = "vivo"
    /\ cliente[c] = "suscripto"
    /\ enabled[c]
    /\ \E i \in DOMAIN mensajes_cola : mensajes_cola[i].id_mensaje = id
    /\ id \notin ToSet(recibidos[c])

\* A message that stays in the queue reaches every subscribed process in the end.
SeEntrega ==
    \A c \in Conexiones, id \in 1 .. MaxMensajes :
        Pendiente(c, id) ~> ~Pendiente(c, id)

\* A subscription that was told to end does end, asleep or not, its process
\* connected or gone.
FinTermina ==
    \A c \in Conexiones :
        EnUso(c) /\ ~enabled[c] ~> hilo[c].pc = "fin" \/ broker = "caido"
=============================================================================
