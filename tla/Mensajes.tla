------------------------------- MODULE Mensajes -------------------------------
(***************************************************************************)
(* The way of a message, byte by byte: a GameBoy (or a GameCard) that      *)
(* publishes it, the thread of the broker that receives it, the cache,     *)
(* the thread of a subscription, and the GameBoy that is subscribed.  A    *)
(* GameBoy also talks to a GameCard or a Team directly.                    *)
(*                                                                         *)
(* A connection is two streams of bytes: what is sent stays there until    *)
(* the other side reads it, four bytes of code, four of size, then the     *)
(* data.  The formats are those of Serializacion.  Every message stays in  *)
(* the cache: the evictions are the subject of BrokerPartitions.           *)
(***************************************************************************)
EXTENDS Serializacion, SequencesExt

CONSTANTS
    Publicadores,       \* processes that publish, one message each
    Escenarios,         \* what the processes are told to do: records [orden, suscripcion]
    tamano_memoria,     \* cache of the broker, in bytes
    tamano_minimo_particion,
    coord_x_max, coord_y_max, cant_max_pokemon, time_suscrip_max,   \* gameboy.config
    id_mensaje_unico,
    id_suscriptor

ASSUME MensajesAssumption ==
    /\ {tamano_memoria, tamano_minimo_particion, time_suscrip_max} \subseteq Nat \ {0}
    /\ {coord_x_max, coord_y_max, cant_max_pokemon, id_mensaje_unico} \subseteq Nat
    /\ id_suscriptor \in Nat \ {0}

\* The connection of the subscriber, and the one that ends the subscription.
Conexiones == Publicadores \cup {"sus", "fin"}

VARIABLES
    escenario,        \* one of Escenarios
    cliente,          \* each process: "inicio", "espera", "fin", "rechazado", "caido", "falla"
    respuesta,        \* what a publisher was answered: [codigo, valor]
    ida, vuelta,      \* the streams to the server and from it
    g_mutex_msjs,     \* TRUE when locked
    g_msg_counter,
    mensajes_cola,    \* the messages of every queue, in order of arrival
    cache,            \* partitions, by address
    suscriptor,       \* the record of the subscriber in its queue
    hilo,             \* the threads of the broker
    recibidos,        \* messages got by the subscriber or a direct server
    g_rcv_msg_qty,    \* what the subscriber has received, COLA_VACIA included
    broker            \* "vivo" or "caido"

broker_vars == <<g_mutex_msjs, g_msg_counter, mensajes_cola, cache, suscriptor, hilo, broker>>

vars == <<escenario, cliente, respuesta, ida, vuelta, recibidos, g_rcv_msg_qty, broker_vars>>

Init ==
    /\ escenario \in Escenarios
    /\ cliente = [c \in Conexiones |-> "inicio"]
    /\ respuesta = [p \in Publicadores |-> [codigo |-> 0, valor |-> 0]]
    /\ ida = [c \in Conexiones |-> <<>>]
    /\ vuelta = [c \in Conexiones |-> <<>>]
    /\ g_mutex_msjs = FALSE
    /\ g_msg_counter = 1
    /\ mensajes_cola = <<>>
    /\ cache = <<>>
    /\ suscriptor = [existe |-> FALSE, enabled |-> FALSE, sem_cont_msjs |-> 0]
    /\ hilo = [c \in Conexiones |->
                 [pc |-> "fuera", codigo |-> 0, msg |-> <<>>, id |-> 0, cant_msg |-> 0]]
    /\ recibidos = <<>>
    /\ g_rcv_msg_qty = 0
    /\ broker = "vivo"

(***************************************************************************)
(* Streams                                                                 *)
(***************************************************************************)

\* A whole packet can be read: until then recv waits.
HayPaquete(s) == Len(s) >= 8 /\ Len(s) >= 8 + LeerEntero(s, 4)

rcv_codigo_operacion(s) == LeerEntero(s, 0)

recibir_buffer(s) == SubSeq(s, 9, 8 + LeerEntero(s, 4))

QuitarPaquete(s) == Desde(s, 8 + LeerEntero(s, 4))

EnviarA(c, p) == ida' = [ida EXCEPT ![c] = @ \o serializar_paquete(p)]

Responder(c, p) == vuelta' = [vuelta EXCEPT ![c] = @ \o serializar_paquete(p)]

(***************************************************************************)
(* The command line of GameBoy.  An order has the words of the line:       *)
(* proceso, tipo, and argumentos, each with its text and what atoi makes   *)
(* of it.  A word that is missing is a NULL.                               *)
(***************************************************************************)
Orden(p) == escenario.orden[p]

\* Each check gives "bien", "mal", or "nulo": it hands a NULL to atoi or strcmp.
Si(b) == IF b THEN "bien" ELSE "mal"

Falta(as, is) == \E i \in is : i + 1 > Len(as)

Valor(as, i) == as[i + 1].valor

EnRango(v, primero, ultimo) == primero <= v /\ v <= ultimo

\* The coordinate is read in order: a bad X ends the check before Y is looked at.
validar_coordXY(as, index1, index2) ==
    IF Falta(as, {index1}) THEN "nulo"
    ELSE IF ~EnRango(Valor(as, index1), 0, coord_x_max) THEN "mal"
    ELSE IF Falta(as, {2}) THEN "nulo"
    ELSE IF ~EnRango(Valor(as, 2), 0, coord_y_max) THEN "mal"
    ELSE IF index2 = 2 THEN "bien"
    ELSE IF Falta(as, {3}) THEN "nulo"
    ELSE Si(EnRango(Valor(as, 3), 1, cant_max_pokemon))

validar_id_mensaje(as, index) == Si(EnRango(Valor(as, index), 1, 9999))

validar_tiempo(as) == Si(EnRango(Valor(as, 0), 1, time_suscrip_max))

validar_resultado_caught(as, index) == Si(as[index + 1].texto \in {"OK", "FAIL"})

\* && of the checks, left to right.
Ambos(a, b) == IF a = "bien" THEN b ELSE a

validar_argumentos(o) ==
    LET as == o.argumentos
        n  == Len(as)
    IN  CASE o.proceso = "SUSCRIPTOR" /\ o.tipo # "UNKNOWN_QUEUE" /\ n = 1 -> validar_tiempo(as)
          [] o.proceso = "BROKER" /\ o.tipo = "NEW_POKEMON" ->
                Ambos(validar_coordXY(as, 1, 3), Si(n = 4))
          [] o.proceso = "GAMECARD" /\ o.tipo = "NEW_POKEMON" /\ n = 5 ->
                Ambos(validar_coordXY(as, 1, 3), validar_id_mensaje(as, 4))
          [] o.proceso = "BROKER" /\ o.tipo = "APPEARED_POKEMON" /\ n = 4 ->
                Ambos(validar_coordXY(as, 1, 2), validar_id_mensaje(as, 3))
          [] o.proceso = "TEAM" /\ o.tipo = "APPEARED_POKEMON" /\ n = 3 -> validar_coordXY(as, 1, 2)
          [] o.proceso = "BROKER" /\ o.tipo = "CATCH_POKEMON" /\ n = 3 -> validar_coordXY(as, 1, 2)
          [] o.proceso = "GAMECARD" /\ o.tipo = "CATCH_POKEMON" /\ n = 4 ->
                Ambos(validar_coordXY(as, 1, 2), validar_id_mensaje(as, 3))
          [] o.proceso = "BROKER" /\ o.tipo = "CAUGHT_POKEMON" /\ n = 2 ->
                Ambos(validar_id_mensaje(as, 0), validar_resultado_caught(as, 1))
          [] o.proceso = "BROKER" /\ o.tipo = "GET_POKEMON" /\ n = 1 -> "bien"
          [] o.proceso = "GAMECARD" /\ o.tipo = "GET_POKEMON" /\ n = 2 -> validar_id_mensaje(as, 1)
          [] OTHER -> "mal"

\* construir_mensaje: an unknown process ends GameBoy before the type is looked at.
construir_mensaje(o) ==
    CASE o.proceso = "UNKNOWN_PROC" -> "fin"
      [] o.tipo = "NULL"            -> "caido"
      [] OTHER -> CASE validar_argumentos(o) = "bien" -> "espera"
                    [] validar_argumentos(o) = "mal"  -> "rechazado"
                    [] validar_argumentos(o) = "nulo" -> "caido"

codificar_resultado_caught(texto) ==
    IF texto = "OK" THEN t_result_caught.OK ELSE t_result_caught.FAIL

\* The message the arguments make: the name is copied with its '\0'.
Pokemon(as) == [size_pokemon |-> Len(as[1].letras), pokemon |-> as[1].letras]

Coord(as) == [coord |-> [pos_x |-> Valor(as, 1), pos_y |-> Valor(as, 2)]]

send_msg(o) ==
    LET as == o.argumentos
        m(t, p) == o.tipo = t /\ o.proceso = p
    IN  CASE m("NEW_POKEMON", "BROKER") ->
                Coord(as) @@ [cantidad |-> Valor(as, 3)] @@ Pokemon(as)
          [] m("NEW_POKEMON", "GAMECARD") ->
                Coord(as) @@ [cantidad |-> Valor(as, 3), id_mensaje |-> Valor(as, 4)] @@ Pokemon(as)
          [] m("CATCH_POKEMON", "BROKER") -> Coord(as) @@ Pokemon(as)
          [] m("CATCH_POKEMON", "GAMECARD") ->
                Coord(as) @@ [id_mensaje |-> Valor(as, 3)] @@ Pokemon(as)
          [] m("GET_POKEMON", "BROKER") -> Pokemon(as)
          [] m("GET_POKEMON", "GAMECARD") -> [id_mensaje |-> Valor(as, 1)] @@ Pokemon(as)
          [] m("CAUGHT_POKEMON", "BROKER") ->
                [id_correlativo |-> Valor(as, 0),
                 resultado |-> codificar_resultado_caught(as[2].texto)]
          [] m("APPEARED_POKEMON", "BROKER") ->
                Coord(as) @@ [id_correlativo |-> Valor(as, 3)] @@ Pokemon(as)
          [] m("APPEARED_POKEMON", "TEAM") ->
                Coord(as) @@ [id_mensaje |-> id_mensaje_unico,
                              id_correlativo |-> id_mensaje_unico + 1] @@ Pokemon(as)

\* The message of GameCard's answer to a GET, with the positions of the pokemon.
enviar_localized_pokemon_broker(o) ==
    [id_correlativo |-> o.id_correlativo, posiciones |-> o.posiciones,
     size_pokemon |-> Len(o.pokemon), pokemon |-> o.pokemon]

EsDeGameCard(o) == o.proceso = "GAMECARD_CLIENTE"

Contenido(o) == IF EsDeGameCard(o) THEN enviar_localized_pokemon_broker(o) ELSE send_msg(o)

Destino(o) == IF EsDeGameCard(o) THEN "BROKER" ELSE o.proceso

enviar_mensaje_gameboy(o) ==
    LET m == Contenido(o)
    IN  CASE Destino(o) = "BROKER" /\ o.tipo = "NEW_POKEMON" -> empaquetar_msg_new_broker(m)
          [] Destino(o) = "BROKER" /\ o.tipo = "CATCH_POKEMON" -> empaquetar_msg_catch_broker(m)
          [] Destino(o) = "BROKER" /\ o.tipo = "GET_POKEMON" -> empaquetar_msg_get_broker(m)
          [] Destino(o) = "BROKER" /\ o.tipo = "APPEARED_POKEMON" ->
                empaquetar_msg_appeared_broker(m)
          [] o.tipo = "CAUGHT_POKEMON" -> empaquetar_msg_caught_broker(m)
          [] o.tipo = "LOCALIZED_POKEMON" -> empaquetar_msg_localized_broker(m)
          [] Destino(o) = "GAMECARD" /\ o.tipo = "NEW_POKEMON" -> empaquetar_msg_new_gamecard(m)
          [] Destino(o) = "GAMECARD" /\ o.tipo = "CATCH_POKEMON" -> empaquetar_msg_catch_gamecard(m)
          [] Destino(o) = "GAMECARD" /\ o.tipo = "GET_POKEMON" -> empaquetar_msg_get_gamecard(m)
          [] Destino(o) = "TEAM" -> empaquetar_msg_appeared_team(m)

(***************************************************************************)
(* The processes that publish                                              *)
(***************************************************************************)
\* The message is built and checked, and sent on a new connection.
Publicar(p) ==
    LET r == IF EsDeGameCard(Orden(p)) THEN "espera" ELSE construir_mensaje(Orden(p))
    IN  /\ cliente[p] = "inicio"
        /\ cliente' = [cliente EXCEPT ![p] = r]
        /\ IF r = "espera" THEN EnviarA(p, enviar_mensaje_gameboy(Orden(p))) ELSE UNCHANGED ida
        /\ UNCHANGED <<escenario, respuesta, vuelta, recibidos, g_rcv_msg_qty, broker_vars>>

\* esperar_rta_servidor: MSG_CONFIRMED, MSG_ERROR with a text, or ID_MENSAJE.
esperar_rta_servidor(p) ==
    /\ cliente[p] = "espera"
    /\ HayPaquete(vuelta[p])
    /\ cliente' = [cliente EXCEPT ![p] = "fin"]
    /\ respuesta' = [respuesta EXCEPT ![p] =
                        [codigo |-> rcv_codigo_operacion(vuelta[p]), valor |-> LeerEntero(vuelta[p], 8)]]
    /\ vuelta' = [vuelta EXCEPT ![p] = QuitarPaquete(@)]
    /\ UNCHANGED <<escenario, ida, recibidos, g_rcv_msg_qty, broker_vars>>

(***************************************************************************)
(* GameBoy as a subscriber of one queue                                    *)
(***************************************************************************)
g_suscript_queue == t_tipo_mensaje[escenario.suscripcion.tipo]

enviar_msj_suscripcion_broker(id_recibido, qty) ==
    EnviarA("sus", empaquetar_msg_handshake_suscript(
                [id_suscriptor |-> id_suscriptor, id_recibido |-> id_recibido,
                 cola_id |-> g_suscript_queue, msjs_recibidos |-> qty]))

\* The line SUSCRIPTOR is read, and the first handshake sent.
Suscribir ==
    LET r == construir_mensaje(escenario.suscripcion)
    IN  /\ cliente["sus"] = "inicio"
        /\ cliente' = [cliente EXCEPT !["sus"] = r]
        /\ IF r = "espera" THEN enviar_msj_suscripcion_broker(0, g_rcv_msg_qty) ELSE UNCHANGED ida
        /\ UNCHANGED <<escenario, respuesta, vuelta, recibidos, g_rcv_msg_qty, broker_vars>>

Deserializar(codigo, d) ==
    CASE codigo = op_code.NEW_BROKER       -> deserializar_msg_new_broker(d)
      [] codigo = op_code.APPEARED_BROKER  -> deserializar_msg_appeared_broker(d)
      [] codigo = op_code.CATCH_BROKER     -> deserializar_msg_catch_broker(d)
      [] codigo = op_code.CAUGHT_BROKER    -> deserializar_msg_caught_broker(d)
      [] codigo = op_code.GET_BROKER       -> deserializar_msg_get_broker(d)
      [] codigo = op_code.LOCALIZED_BROKER -> deserializar_msg_localized_broker(d)
      [] codigo = op_code.NEW_GAMECARD     -> deserializar_msg_new_gamecard(d)
      [] codigo = op_code.CATCH_GAMECARD   -> deserializar_msg_catch_gamecard(d)
      [] codigo = op_code.GET_GAMECARD     -> deserializar_msg_get_gamecard(d)
      [] codigo = op_code.APPEARED_TEAM    -> deserializar_msg_appeared_team(d)
      [] codigo = op_code.CAUGHT_TEAM      -> deserializar_msg_caught_team(d)
      [] codigo = op_code.LOCALIZED_TEAM   -> deserializar_msg_localized_team(d)
      [] OTHER                             -> deserializar_handshake_suscriptor(d)

\* A message, or COLA_VACIA: counted, and acknowledged with its id.
rcv_mensaje_publisher ==
    LET codigo == rcv_codigo_operacion(vuelta["sus"])
        datos  == recibir_buffer(vuelta["sus"])
    IN  /\ cliente["sus"] = "espera"
        /\ HayPaquete(vuelta["sus"])
        /\ codigo # op_code.SUSCRIP_END
        /\ vuelta' = [vuelta EXCEPT !["sus"] = QuitarPaquete(@)]
        /\ g_rcv_msg_qty' = g_rcv_msg_qty + 1
        /\ IF codigo = op_code.COLA_VACIA
           THEN /\ enviar_msj_suscripcion_broker(LeerEntero(datos, 0), g_rcv_msg_qty')
                /\ UNCHANGED recibidos
           ELSE LET msg == Deserializar(codigo, datos)
                IN  /\ enviar_msj_suscripcion_broker(msg.id_mensaje, g_rcv_msg_qty')
                    /\ recibidos' = Append(recibidos, [de |-> "BROKER", msg |-> msg])
        /\ UNCHANGED <<escenario, cliente, respuesta, broker_vars>>

\* SUSCRIP_END with the id of this process ends it; with another it is a failure.
rcv_msg_suscrip_end ==
    /\ cliente["sus"] = "espera"
    /\ HayPaquete(vuelta["sus"])
    /\ rcv_codigo_operacion(vuelta["sus"]) = op_code.SUSCRIP_END
    /\ vuelta' = [vuelta EXCEPT !["sus"] = QuitarPaquete(@)]
    /\ cliente' = [cliente EXCEPT !["sus"] =
                      IF LeerEntero(vuelta["sus"], 8) = id_suscriptor THEN "fin" ELSE "falla"]
    /\ UNCHANGED <<escenario, respuesta, ida, recibidos, g_rcv_msg_qty, broker_vars>>

\* end_suscript, once its time is over: FIN_SUSCRIPCION on a connection of its own.
end_suscript ==
    /\ cliente["sus"] = "espera"
    /\ cliente["fin"] = "inicio"
    /\ cliente' = [cliente EXCEPT !["fin"] = "espera"]
    /\ EnviarA("fin", empaquetar_fin_suscripcion(
                   [id_suscriptor |-> id_suscriptor, id_recibido |-> g_rcv_msg_qty,
                    cola_id |-> g_suscript_queue, msjs_recibidos |-> g_rcv_msg_qty]))
    /\ UNCHANGED <<escenario, respuesta, vuelta, recibidos, g_rcv_msg_qty, broker_vars>>

\* Anything but MSG_CONFIRMED with RESPUESTA_OK ends the process with a failure.
rcv_msg_confirmed ==
    /\ cliente["fin"] = "espera"
    /\ HayPaquete(vuelta["fin"])
    /\ vuelta' = [vuelta EXCEPT !["fin"] = QuitarPaquete(@)]
    /\ cliente' = [cliente EXCEPT !["fin"] =
                      IF /\ rcv_codigo_operacion(vuelta["fin"]) = op_code.MSG_CONFIRMED
                         /\ LeerEntero(vuelta["fin"], 8) = RESPUESTA_OK
                      THEN "fin" ELSE "falla"]
    /\ UNCHANGED <<escenario, respuesta, ida, recibidos, g_rcv_msg_qty, broker_vars>>

(***************************************************************************)
(* GameCard and Team as servers of a GameBoy.  A message of the other      *)
(* process is not read: the connection is left open.                       *)
(***************************************************************************)
CodigosDirectos == [GAMECARD |-> {op_code.NEW_GAMECARD, op_code.CATCH_GAMECARD, op_code.GET_GAMECARD},
                    TEAM     |-> {op_code.APPEARED_TEAM}]

atender_gameboy(p) ==
    LET codigo == rcv_codigo_operacion(ida[p])
        de     == Destino(Orden(p))
    IN  /\ de \in {"GAMECARD", "TEAM"}
        /\ HayPaquete(ida[p])
        /\ codigo \in CodigosDirectos[de]
        /\ recibidos' = Append(recibidos,
                              [de |-> de, msg |-> Deserializar(codigo, recibir_buffer(ida[p]))])
        /\ ida' = [ida EXCEPT ![p] = QuitarPaquete(@)]
        /\ Responder(p, empaquetar_msg_confirmed)
        /\ UNCHANGED <<escenario, cliente, respuesta, g_rcv_msg_qty, broker_vars>>

(***************************************************************************)
(* The broker: a thread for each connection                                *)
(***************************************************************************)
procesos == <<escenario, cliente, respuesta, recibidos, g_rcv_msg_qty>>

Pasar(c, pc) == hilo' = [hilo EXCEPT ![c].pc = pc]

codigo_operacion_valido_broker(codigo) ==
    codigo \in {op_code.NEW_BROKER, op_code.GET_BROKER, op_code.CATCH_BROKER,
               op_code.APPEARED_BROKER, op_code.CAUGHT_BROKER, op_code.LOCALIZED_BROKER,
               op_code.SUSCRIBER_ACK, op_code.FIN_SUSCRIPCION}

AlBroker == {"sus", "fin"} \cup {p \in Publicadores : Destino(Orden(p)) = "BROKER"}

\* A new connection, or the next handshake of a subscription.
atender_cliente_broker(c) ==
    LET codigo == rcv_codigo_operacion(ida[c])
    IN  /\ broker = "vivo"
        /\ c \in AlBroker
        /\ hilo[c].pc = "fuera"
        /\ HayPaquete(ida[c])
        /\ hilo' = [hilo EXCEPT ![c].codigo = codigo,
                               ![c].pc = IF ~codigo_operacion_valido_broker(codigo) THEN "cerrado"
                                         ELSE IF codigo < op_code.SUSCRIBER_ACK THEN "trabar"
                                         ELSE "handshake"]
        /\ UNCHANGED <<procesos, ida, vuelta, g_mutex_msjs, g_msg_counter, mensajes_cola,
                       cache, suscriptor, broker>>

Trabar(c, de, a) ==
    /\ broker = "vivo"
    /\ hilo[c].pc = de
    /\ ~g_mutex_msjs
    /\ g_mutex_msjs' = TRUE
    /\ Pasar(c, a)
    /\ UNCHANGED <<procesos, ida, vuelta, g_msg_counter, mensajes_cola, cache, suscriptor, broker>>

espacio_cache(codigo, m) ==
    CASE codigo = op_code.NEW_BROKER       -> espacio_cache_msg_new(m)
      [] codigo = op_code.APPEARED_BROKER  -> espacio_cache_msg_appeared(m)
      [] codigo = op_code.CATCH_BROKER     -> espacio_cache_msg_catch(m)
      [] codigo = op_code.CAUGHT_BROKER    -> espacio_cache_msg_caught
      [] codigo = op_code.GET_BROKER       -> espacio_cache_msg_get(m)
      [] codigo = op_code.LOCALIZED_BROKER -> espacio_cache_msg_localized(m)

cache_espacio_suficiente(data_size) ==
    tamano_memoria >= (IF data_size > tamano_minimo_particion THEN data_size
                       ELSE tamano_minimo_particion)

\* The message is read with the mutex held, and looked at without it.
RecibirMensaje(c) ==
    LET datos == recibir_buffer(ida[c])
        cabe  == cache_espacio_suficiente(espacio_cache(hilo[c].codigo,
                                                        Deserializar(hilo[c].codigo, datos)))
    IN  /\ broker = "vivo"
        /\ hilo[c].pc = "recibir"
        /\ ida' = [ida EXCEPT ![c] = QuitarPaquete(@)]
        /\ g_mutex_msjs' = FALSE
        /\ hilo' = [hilo EXCEPT ![c].msg = datos,
                               ![c].pc = IF hilo[c].codigo = op_code.FIN_SUSCRIPCION
                                         THEN "deshabilitar"
                                         ELSE IF cabe THEN "publicar" ELSE "sin_espacio"]
        /\ UNCHANGED <<procesos, vuelta, g_msg_counter, mensajes_cola, cache, suscriptor, broker>>

enviar_mensaje_cache_sin_espacio(c) ==
    /\ broker = "vivo"
    /\ hilo[c].pc = "sin_espacio"
    /\ Responder(c, empaquetar_msg_fail(<< <<1, 0>>, <<0, 0>> >>))
    /\ Pasar(c, "cerrado")
    /\ UNCHANGED <<procesos, ida, g_mutex_msjs, g_msg_counter, mensajes_cola, cache,
                   suscriptor, broker>>

Cola(codigo) ==
    CASE codigo = op_code.NEW_BROKER       -> t_tipo_mensaje.NEW_POKEMON
      [] codigo = op_code.APPEARED_BROKER  -> t_tipo_mensaje.APPEARED_POKEMON
      [] codigo = op_code.CATCH_BROKER     -> t_tipo_mensaje.CATCH_POKEMON
      [] codigo = op_code.CAUGHT_BROKER    -> t_tipo_mensaje.CAUGHT_POKEMON
      [] codigo = op_code.GET_BROKER       -> t_tipo_mensaje.GET_POKEMON
      [] codigo = op_code.LOCALIZED_BROKER -> t_tipo_mensaje.LOCALIZED_POKEMON

serializar_msg(codigo, m) ==
    CASE codigo = op_code.NEW_BROKER       -> serializar_msg_new(m)
      [] codigo = op_code.APPEARED_BROKER  -> serializar_msg_appeared(m)
      [] codigo = op_code.CATCH_BROKER     -> serializar_msg_catch(m)
      [] codigo = op_code.CAUGHT_BROKER    -> serializar_msg_caught(m)
      [] codigo = op_code.GET_BROKER       -> serializar_msg_get(m)
      [] codigo = op_code.LOCALIZED_BROKER -> serializar_msg_localized(m)

\* Only an answer to another message has a correlative id.
Correlativo(m) == IF "id_correlativo" \in DOMAIN m THEN m.id_correlativo ELSE 0

\* enqueue_msg_X begins: the lock, and the id generar_nuevo_mensaje_cola reads.
TomarId(c) ==
    /\ broker = "vivo"
    /\ hilo[c].pc = "publicar"
    /\ ~g_mutex_msjs
    /\ g_mutex_msjs' = TRUE
    /\ hilo' = [hilo EXCEPT ![c].pc = "encolar", ![c].id = g_msg_counter]
    /\ UNCHANGED <<procesos, ida, vuelta, g_msg_counter, mensajes_cola, cache, suscriptor, broker>>

\* The bytes go to the cache; what the queue keeps is their size.
enqueue_msg(c) ==
    LET m      == Deserializar(hilo[c].codigo, hilo[c].msg)
        stream == serializar_msg(hilo[c].codigo, m)
        cola   == Cola(hilo[c].codigo)
    IN  /\ broker = "vivo"
        /\ hilo[c].pc = "encolar"
        /\ cache' = Append(cache, [id_mensaje |-> hilo[c].id, data_size |-> stream.size,
                                  data |-> stream.data])
        /\ mensajes_cola' = Append(mensajes_cola,
                [id_mensaje |-> hilo[c].id, id_correlativo |-> Correlativo(m),
                 tipo_mensaje |-> cola, size |-> stream.size, enviado |-> FALSE])
        /\ suscriptor' = [suscriptor EXCEPT !.sem_cont_msjs =
                             IF suscriptor.existe /\ cola = g_suscript_queue THEN @ + 1 ELSE @]
        /\ Pasar(c, "responder")
        /\ UNCHANGED <<procesos, ida, vuelta, g_mutex_msjs, g_msg_counter, broker>>

\* Mutant: the counter goes up before the publisher is answered.
IdTrasIncremento(c) == g_msg_counter + 1

IdRespondido(c) == hilo[c].id

\* enviar_id_mensaje, the increment of the counter and the end of the connection.
enviar_id_mensaje(c) ==
    /\ broker = "vivo"
    /\ hilo[c].pc = "responder"
    /\ Responder(c, empaquetar_id_mensaje(IdRespondido(c)))
    /\ g_msg_counter' = g_msg_counter + 1
    /\ g_mutex_msjs' = FALSE
    /\ Pasar(c, "cerrado")
    /\ UNCHANGED <<procesos, ida, mensajes_cola, cache, suscriptor, broker>>

\* Mutant: nobody wakes the thread that waits.
FinSinAviso(n) == n

SemaforoTrasFin(n) == IF n = 0 THEN 1 ELSE n

\* With no record, its NULL is dereferenced.
deshabilitar_suscriptor_cola(c) ==
    /\ broker = "vivo"
    /\ hilo[c].pc = "deshabilitar"
    /\ IF suscriptor.existe
       THEN /\ suscriptor' = [suscriptor EXCEPT !.enabled = FALSE,
                                               !.sem_cont_msjs = SemaforoTrasFin(@)]
            /\ Pasar(c, "confirmar")
            /\ UNCHANGED broker
       ELSE /\ broker' = "caido"
            /\ UNCHANGED <<suscriptor, hilo>>
    /\ UNCHANGED <<procesos, ida, vuelta, g_mutex_msjs, g_msg_counter, mensajes_cola, cache>>

\* The lock, the answer, the unlock.
enviar_msg_confirmed(c) ==
    /\ broker = "vivo"
    /\ hilo[c].pc = "confirmar"
    /\ ~g_mutex_msjs
    /\ Responder(c, empaquetar_msg_confirmed)
    /\ Pasar(c, "cerrado")
    /\ UNCHANGED <<procesos, ida, g_mutex_msjs, g_msg_counter, mensajes_cola, cache, suscriptor,
                   broker>>

(***************************************************************************)
(* atender_suscripcion                                                     *)
(***************************************************************************)
EsDeLaCola(m) == m.tipo_mensaje = g_suscript_queue

cant_msjs_sin_enviar ==
    Cardinality({i \in DOMAIN mensajes_cola :
                    EsDeLaCola(mensajes_cola[i]) /\ ~mensajes_cola[i].enviado})

\* The handshake is read and the mutex unlocked, held or not by this thread.  The
\* first handshake goes on to alta_suscriptor_cola with the unsent messages counted;
\* a later one marks its message as sent when the loop goes on.
RecibirHandshake(c) ==
    LET h == deserializar_handshake_suscriptor(recibir_buffer(ida[c]))
    IN  /\ broker = "vivo"
        /\ hilo[c].pc = "handshake"
        /\ ida' = [ida EXCEPT ![c] = QuitarPaquete(@)]
        /\ g_mutex_msjs' = FALSE
        /\ hilo' = [hilo EXCEPT ![c].pc = IF h.msjs_recibidos = 0 THEN "alta" ELSE "lazo",
                               ![c].id = h.id_recibido,
                               ![c].cant_msg = cant_msjs_sin_enviar]
        /\ UNCHANGED <<procesos, vuelta, g_msg_counter, mensajes_cola, cache, suscriptor, broker>>

alta_suscriptor_cola(c) ==
    /\ broker = "vivo"
    /\ hilo[c].pc = "alta"
    /\ suscriptor' = [existe |-> TRUE, enabled |-> TRUE, sem_cont_msjs |-> hilo[c].cant_msg]
    /\ Pasar(c, "lazo")
    /\ UNCHANGED <<procesos, ida, vuelta, g_mutex_msjs, g_msg_counter, mensajes_cola, cache,
                   broker>>

\* The first message of the queue with the id.
set_msg_enviado_a_suscriptor(id) ==
    [i \in DOMAIN mensajes_cola |->
        IF i = SelectInSeq(mensajes_cola, LAMBDA m : EsDeLaCola(m) /\ m.id_mensaje = id)
        THEN [mensajes_cola[i] EXCEPT !.enviado = TRUE] ELSE mensajes_cola[i]]

Continuar(c) ==
    /\ broker = "vivo"
    /\ hilo[c].pc = "lazo"
    /\ suscriptor.enabled
    /\ mensajes_cola' = set_msg_enviado_a_suscriptor(hilo[c].id)
    /\ Pasar(c, "esperar")
    /\ UNCHANGED <<procesos, ida, vuelta, g_mutex_msjs, g_msg_counter, cache, suscriptor, broker>>

\* sem_wait
Despertar(c) ==
    /\ broker = "vivo"
    /\ hilo[c].pc = "esperar"
    /\ suscriptor.sem_cont_msjs > 0
    /\ suscriptor' = [suscriptor EXCEPT !.sem_cont_msjs = @ - 1]
    /\ Pasar(c, "despachar")
    /\ UNCHANGED <<procesos, ida, vuelta, g_mutex_msjs, g_msg_counter, mensajes_cola, cache,
                   broker>>

ConIds(m, msg) ==
    IF m.tipo_mensaje \in {t_tipo_mensaje.APPEARED_POKEMON, t_tipo_mensaje.CAUGHT_POKEMON,
                          t_tipo_mensaje.LOCALIZED_POKEMON}
    THEN [id_mensaje |-> m.id_mensaje, id_correlativo |-> m.id_correlativo] @@ msg
    ELSE [id_mensaje |-> m.id_mensaje] @@ msg

\* The packet of the message m with the bytes d of its partition.
PaqueteDe(m, d) ==
    CASE m.tipo_mensaje = t_tipo_mensaje.NEW_POKEMON ->
            empaquetar_msg_new_gamecard(ConIds(m, deserializar_msg_new(d)))
      [] m.tipo_mensaje = t_tipo_mensaje.CATCH_POKEMON ->
            empaquetar_msg_catch_gamecard(ConIds(m, deserializar_msg_catch(d)))
      [] m.tipo_mensaje = t_tipo_mensaje.GET_POKEMON ->
            empaquetar_msg_get_gamecard(ConIds(m, deserializar_msg_get(d)))
      [] m.tipo_mensaje = t_tipo_mensaje.APPEARED_POKEMON ->
            empaquetar_msg_appeared_team(ConIds(m, deserializar_msg_appeared(d)))
      [] m.tipo_mensaje = t_tipo_mensaje.CAUGHT_POKEMON ->
            empaquetar_msg_caught_team(ConIds(m, deserializar_msg_caught(d)))
      [] m.tipo_mensaje = t_tipo_mensaje.LOCALIZED_POKEMON ->
            empaquetar_msg_localized_team(ConIds(m, deserializar_msg_localized(d)))

get_msg_sin_enviar == SelectInSeq(mensajes_cola, LAMBDA m : EsDeLaCola(m) /\ ~m.enviado)

\* obtener_datos_msj_de_particion_cache: the first partition with the id.
Particion(id) == cache[SelectInSeq(cache, LAMBDA x : x.id_mensaje = id)]

\* despachar_msjs_X, from the lock to the unlock: the first message not sent, or
\* COLA_VACIA.  A partition of another size ends the thread, both mutexes locked.
Despachar(c) ==
    LET i == get_msg_sin_enviar
        x == Particion(mensajes_cola[i].id_mensaje)
    IN  /\ broker = "vivo"
        /\ hilo[c].pc = "despachar"
        /\ ~g_mutex_msjs
        /\ IF i # 0 /\ x.data_size # mensajes_cola[i].size
           THEN g_mutex_msjs' = TRUE /\ Pasar(c, "muerto") /\ UNCHANGED vuelta
           ELSE /\ Responder(c, IF i = 0 THEN empaquetar_msj_cola_vacia(id_suscriptor)
                                ELSE PaqueteDe(mensajes_cola[i], x.data))
                /\ Pasar(c, "fuera")
                /\ UNCHANGED g_mutex_msjs
        /\ UNCHANGED <<procesos, ida, g_msg_counter, mensajes_cola, cache, suscriptor, broker>>

\* Mutant: the number of messages goes where the id of the subscriber should.
CantidadDeMensajes(c) == hilo[c].cant_msg

IdDelFin(c) == id_suscriptor

\* The flag is down: SUSCRIP_END is sent and the record leaves the list.
enviar_msj_suscript_end(c) ==
    /\ broker = "vivo"
    /\ hilo[c].pc = "lazo"
    /\ ~suscriptor.enabled
    /\ Responder(c, empaquetar_msj_suscript_end(IdDelFin(c)))
    /\ suscriptor' = [suscriptor EXCEPT !.existe = FALSE]
    /\ Pasar(c, "cerrado")
    /\ UNCHANGED <<procesos, ida, g_mutex_msjs, g_msg_counter, mensajes_cola, cache, broker>>

PasoHilo(c) ==
    \/ atender_cliente_broker(c)
    \/ Trabar(c, "trabar", "recibir")
    \/ RecibirMensaje(c)
    \/ enviar_mensaje_cache_sin_espacio(c)
    \/ TomarId(c)
    \/ enqueue_msg(c)
    \/ enviar_id_mensaje(c)
    \/ deshabilitar_suscriptor_cola(c)
    \/ enviar_msg_confirmed(c)
    \/ RecibirHandshake(c)
    \/ alta_suscriptor_cola(c)
    \/ Continuar(c)
    \/ Despertar(c)
    \/ Despachar(c)
    \/ enviar_msj_suscript_end(c)

PasoPublicador(p) == Publicar(p) \/ esperar_rta_servidor(p) \/ atender_gameboy(p)

PasoSuscriptor ==
    \/ Suscribir
    \/ rcv_mensaje_publisher
    \/ rcv_msg_suscrip_end
    \/ end_suscript
    \/ rcv_msg_confirmed

Next ==
    \/ \E p \in Publicadores : PasoPublicador(p)
    \/ PasoSuscriptor
    \/ \E c \in Conexiones : PasoHilo(c)

Spec == Init /\ [][Next]_vars

(***************************************************************************)
(* Properties                                                              *)
(***************************************************************************)

\* No two messages of the queues share an id: what a handshake that unlocks the
\* mutex of a publisher can break (see SinParticionInvalida).
IdsUnicos == IsInjective([i \in DOMAIN cache |-> cache[i].id_mensaje])

\* The publishers whose line was accepted.
Publicaron == {p \in Publicadores :
                 EsDeGameCard(Orden(p)) \/ construir_mensaje(Orden(p)) = "espera"}

SinId(m) == [k \in DOMAIN m \ {"id_mensaje"} |-> m[k]]

\* What a process receives is what some process was told to publish: in its queue,
\* field by field, after the packet of the publisher, the cache of the broker and
\* the packet of the broker; or directly, with its id.
LlegaLoPublicado ==
    IdsUnicos =>
        \A r \in ToSet(recibidos) : \E p \in Publicaron :
            /\ Destino(Orden(p)) = r.de
            /\ IF r.de = "BROKER"
               THEN /\ Orden(p).tipo = escenario.suscripcion.tipo
                    /\ SinId(r.msg) = Contenido(Orden(p))
               ELSE r.msg = Contenido(Orden(p))

\* The id a publisher is answered is the one its message is received with: Team and
\* GameCard pair an answer with its request by it.
SuRespuesta ==
    IdsUnicos =>
        \A p \in Publicaron, r \in ToSet(recibidos) :
            (/\ respuesta[p].codigo = op_code.ID_MENSAJE
             /\ r.de = "BROKER"
             /\ r.msg.id_mensaje = respuesta[p].valor)
            => SinId(r.msg) = Contenido(Orden(p))

\* No GameBoy whose line was accepted ends with EXIT_FAILURE: every packet it reads
\* is one it expects, and the last one carries its id.
SinFallo == \A c \in Conexiones : cliente[c] # "falla"

\* What a thread of the broker waits for is there.
PuedeSeguir(c) ==
    CASE hilo[c].pc = "fuera" -> c \in AlBroker /\ HayPaquete(ida[c])
      [] hilo[c].pc \in {"trabar", "publicar", "confirmar", "despachar"} -> ~g_mutex_msjs
      [] hilo[c].pc = "esperar" -> suscriptor.sem_cont_msjs > 0
      [] hilo[c].pc \in {"cerrado", "muerto"} -> FALSE
      [] OTHER -> TRUE

\* Every process and every thread waits for another: nobody has anything to read.
TodosEsperan ==
    /\ broker = "vivo"
    /\ \A c \in Conexiones : ~PuedeSeguir(c) /\ ~HayPaquete(vuelta[c])
    /\ \A p \in Publicadores : cliente[p] # "inicio" /\ (p \notin AlBroker => ida[p] = <<>>)
    /\ cliente["sus"] # "inicio"
    /\ cliente["sus"] = "espera" => cliente["fin"] # "inicio"

\* When everyone waits, everyone has ended: each publisher was answered, with an id
\* or an error, and the subscription that was told to end got there.  Ids that
\* repeat are left out (see SinParticionInvalida).
NadieQuedaEsperando ==
    TodosEsperan /\ IdsUnicos =>
        \A c \in Conexiones : cliente[c] # "espera"

\* The partition found for a message is its own: the thread of a subscription does
\* not end on an invalid one with g_mutex_msjs locked.
SinParticionInvalida == hilo["sus"].pc # "muerto"
=============================================================================
