---------------------------- MODULE Serializacion ----------------------------
(***************************************************************************)
(* The bytes of the messages: what each process writes into a packet and   *)
(* reads from it (serializaciones.c), and what the broker writes into its  *)
(* cache and reads back (broker_serializ.c).                               *)
(*                                                                         *)
(* A byte is a pair.  <<v, i>> is the i-th of the four bytes of a uint32_t *)
(* or enum of value v, <<l, 0>> is the letter l of a name, <<0, 0>> its    *)
(* final '\0'.  The size of a packet is computed apart from what is        *)
(* written into it, as in the code, and a read at a wrong offset gives     *)
(* Basura.                                                                 *)
(***************************************************************************)
EXTENDS Integers, Sequences, TLC

Basura == -1

op_code == [ID_MENSAJE |-> 10, MSG_CONFIRMED |-> 11, MSG_ERROR |-> 12, FIN_SUSCRIPCION |-> 13,
            NEW_BROKER |-> 20, APPEARED_BROKER |-> 21, CATCH_BROKER |-> 22,
            CAUGHT_BROKER |-> 23, GET_BROKER |-> 24, LOCALIZED_BROKER |-> 25,
            NEW_GAMECARD |-> 40, CATCH_GAMECARD |-> 41, GET_GAMECARD |-> 42,
            APPEARED_TEAM |-> 80, CAUGHT_TEAM |-> 81, LOCALIZED_TEAM |-> 82,
            SUSCRIBER_ACK |-> 120, SUSCRIP_END |-> 121, COLA_VACIA |-> 122]

t_tipo_mensaje == [UNKNOWN_QUEUE |-> 399, NEW_POKEMON |-> 400, APPEARED_POKEMON |-> 401,
                   CATCH_POKEMON |-> 402, CAUGHT_POKEMON |-> 403, GET_POKEMON |-> 404,
                   LOCALIZED_POKEMON |-> 405]

t_result_caught == [FAIL |-> 1000, OK |-> 1001]

RESPUESTA_OK == 1001

(***************************************************************************)
(* Memory                                                                  *)
(***************************************************************************)
Entero(v) == << <<v, 1>>, <<v, 2>>, <<v, 3>>, <<v, 4>> >>

\* n bytes of a buffer: those never written are garbage.
Bytes(d, n) ==
    SubSeq(d, 1, IF n <= Len(d) THEN n ELSE Len(d)) \o [i \in 1 .. n - Len(d) |-> <<Basura, 0>>]

Desde(d, o) == SubSeq(d, o + 1, Len(d))

LeerEntero(d, o) ==
    IF o + 4 <= Len(d) /\ SubSeq(d, o + 1, o + 4) = Entero(d[o + 1][1])
    THEN d[o + 1][1] ELSE Basura

LeerLetras(d, o, n) == Bytes(Desde(d, o), n)

Coordenada(c) == Entero(c.pos_x) \o Entero(c.pos_y)

LeerCoordenada(d, o) == [pos_x |-> LeerEntero(d, o), pos_y |-> LeerEntero(d, o + 4)]

\* The list of positions, one coordinate after another.
Coordenadas(ps) ==
    [i \in 1 .. 8 * Len(ps) |-> Coordenada(ps[((i - 1) \div 8) + 1])[((i - 1) % 8) + 1]]

LeerCoordenadas(d, o, n) == [i \in 1 .. n |-> LeerCoordenada(d, o + 8 * (i - 1))]

\* A name with its size before it.
Nombre(m) == Entero(m.size_pokemon) \o Bytes(m.pokemon, m.size_pokemon)

(***************************************************************************)
(* Packets                                                                 *)
(***************************************************************************)
Paquete(codigo, size, data) == [codigo_operacion |-> codigo, size |-> size, data |-> data]

serializar_paquete(p) == Entero(p.codigo_operacion) \o Entero(p.size) \o Bytes(p.data, p.size)

empaquetar_msj_cola_vacia(id) == Paquete(op_code.COLA_VACIA, 4, Entero(id))

empaquetar_msj_suscript_end(id) == Paquete(op_code.SUSCRIP_END, 4, Entero(id))

empaquetar_msg_new_gamecard(m) ==
    Paquete(op_code.NEW_GAMECARD, 5 * 4 + m.size_pokemon,
            Entero(m.id_mensaje) \o Coordenada(m.coord) \o Entero(m.cantidad) \o Nombre(m))

empaquetar_msg_get_gamecard(m) ==
    Paquete(op_code.GET_GAMECARD, 2 * 4 + m.size_pokemon, Entero(m.id_mensaje) \o Nombre(m))

empaquetar_msg_get_broker(m) == Paquete(op_code.GET_BROKER, m.size_pokemon + 4, Nombre(m))

empaquetar_msg_new_broker(m) ==
    Paquete(op_code.NEW_BROKER, 4 * 4 + m.size_pokemon,
            Coordenada(m.coord) \o Entero(m.cantidad) \o Nombre(m))

empaquetar_msg_catch_gamecard(m) ==
    Paquete(op_code.CATCH_GAMECARD, 4 * 4 + m.size_pokemon,
            Entero(m.id_mensaje) \o Coordenada(m.coord) \o Nombre(m))

empaquetar_msg_appeared_team(m) ==
    Paquete(op_code.APPEARED_TEAM, 5 * 4 + m.size_pokemon,
            Entero(m.id_mensaje) \o Entero(m.id_correlativo) \o Coordenada(m.coord) \o Nombre(m))

empaquetar_msg_caught_team(m) ==
    Paquete(op_code.CAUGHT_TEAM, 2 * 4 + 4,
            Entero(m.id_mensaje) \o Entero(m.id_correlativo) \o Entero(m.resultado))

\* Mutant: the room of one word is forgotten.
LocalizedSinUnaPalabra(m) ==
    Paquete(op_code.LOCALIZED_TEAM, (Len(m.posiciones) * 2 + 3) * 4 + m.size_pokemon,
            Entero(m.id_mensaje) \o Entero(m.id_correlativo) \o Entero(Len(m.posiciones))
                \o Coordenadas(m.posiciones) \o Nombre(m))

empaquetar_msg_localized_team(m) ==
    Paquete(op_code.LOCALIZED_TEAM, (Len(m.posiciones) * 2 + 4) * 4 + m.size_pokemon,
            Entero(m.id_mensaje) \o Entero(m.id_correlativo) \o Entero(Len(m.posiciones))
                \o Coordenadas(m.posiciones) \o Nombre(m))

empaquetar_msg_appeared_broker(m) ==
    Paquete(op_code.APPEARED_BROKER, 4 * 4 + m.size_pokemon,
            Entero(m.id_correlativo) \o Coordenada(m.coord) \o Nombre(m))

empaquetar_msg_confirmed == Paquete(op_code.MSG_CONFIRMED, 4, Entero(RESPUESTA_OK))

\* The text of an error is one letter and its '\0'.
empaquetar_msg_fail(texto) == Paquete(op_code.MSG_ERROR, Len(texto), texto)

empaquetar_msg_caught_broker(m) ==
    Paquete(op_code.CAUGHT_BROKER, 4 + 4, Entero(m.id_correlativo) \o Entero(m.resultado))

empaquetar_msg_localized_broker(m) ==
    Paquete(op_code.LOCALIZED_BROKER, (3 + Len(m.posiciones) * 2) * 4 + m.size_pokemon,
            Entero(m.id_correlativo) \o Entero(Len(m.posiciones))
                \o Coordenadas(m.posiciones) \o Nombre(m))

empaquetar_msg_catch_broker(m) ==
    Paquete(op_code.CATCH_BROKER, 3 * 4 + m.size_pokemon, Coordenada(m.coord) \o Nombre(m))

Handshake(h) ==
    Entero(h.id_suscriptor) \o Entero(h.id_recibido) \o Entero(h.cola_id)
        \o Entero(h.msjs_recibidos)

empaquetar_msg_handshake_suscript(h) == Paquete(op_code.SUSCRIBER_ACK, 3 * 4 + 4, Handshake(h))

empaquetar_fin_suscripcion(h) == Paquete(op_code.FIN_SUSCRIPCION, 3 * 4 + 4, Handshake(h))

empaquetar_id_mensaje(id) == Paquete(op_code.ID_MENSAJE, 4, Entero(id))

(***************************************************************************)
(* What a process reads from the data of a packet                          *)
(***************************************************************************)
ConNombre(d, o) ==
    [size_pokemon |-> LeerEntero(d, o), pokemon |-> LeerLetras(d, o + 4, LeerEntero(d, o))]

deserializar_msg_new_broker(d) ==
    [coord |-> LeerCoordenada(d, 0), cantidad |-> LeerEntero(d, 8)] @@ ConNombre(d, 12)

deserializar_msg_catch_broker(d) == [coord |-> LeerCoordenada(d, 0)] @@ ConNombre(d, 8)

deserializar_msg_get_broker(d) == ConNombre(d, 0)

deserializar_msg_caught_broker(d) ==
    [id_correlativo |-> LeerEntero(d, 0), resultado |-> LeerEntero(d, 4)]

deserializar_msg_appeared_broker(d) ==
    [id_correlativo |-> LeerEntero(d, 0), coord |-> LeerCoordenada(d, 4)] @@ ConNombre(d, 12)

\* The positions of a list whose length is at o, and the name after them.
ConPosiciones(d, o) ==
    LET n == LeerEntero(d, o)
    IN  [posiciones |-> LeerCoordenadas(d, o + 4, n)] @@ ConNombre(d, o + 4 + 8 * n)

deserializar_msg_localized_broker(d) ==
    [id_correlativo |-> LeerEntero(d, 0)] @@ ConPosiciones(d, 4)

deserializar_handshake_suscriptor(d) ==
    [id_suscriptor |-> LeerEntero(d, 0), id_recibido |-> LeerEntero(d, 4),
     cola_id |-> LeerEntero(d, 8), msjs_recibidos |-> LeerEntero(d, 12)]

deserializar_msg_new_gamecard(d) ==
    [id_mensaje |-> LeerEntero(d, 0), coord |-> LeerCoordenada(d, 4),
     cantidad |-> LeerEntero(d, 12)] @@ ConNombre(d, 16)

deserializar_msg_catch_gamecard(d) ==
    [id_mensaje |-> LeerEntero(d, 0), coord |-> LeerCoordenada(d, 4)] @@ ConNombre(d, 12)

deserializar_msg_get_gamecard(d) == [id_mensaje |-> LeerEntero(d, 0)] @@ ConNombre(d, 4)

deserializar_msg_caught_team(d) ==
    [id_mensaje |-> LeerEntero(d, 0), id_correlativo |-> LeerEntero(d, 4),
     resultado |-> LeerEntero(d, 8)]

deserializar_msg_appeared_team(d) ==
    [id_mensaje |-> LeerEntero(d, 0), id_correlativo |-> LeerEntero(d, 4),
     coord |-> LeerCoordenada(d, 8)] @@ ConNombre(d, 16)

deserializar_msg_localized_team(d) ==
    [id_mensaje |-> LeerEntero(d, 0), id_correlativo |-> LeerEntero(d, 4)] @@ ConPosiciones(d, 8)

(***************************************************************************)
(* The cache of the broker keeps the letters of a name without the '\0',   *)
(* which is written again when the message is read.                        *)
(***************************************************************************)
espacio_cache_msg_get(m) == 4 + m.size_pokemon - 1
espacio_cache_msg_new(m) == 4 * 4 + m.size_pokemon - 1
espacio_cache_msg_catch(m) == 3 * 4 + m.size_pokemon - 1
espacio_cache_msg_appeared(m) == 3 * 4 + m.size_pokemon - 1
espacio_cache_msg_caught == 4
espacio_cache_msg_localized(m) == (2 + 2 * Len(m.posiciones)) * 4 + m.size_pokemon - 1

Stream(size, data) == [size |-> size, data |-> Bytes(data, size)]

Letras(m) ==
    LET cant_letras == m.size_pokemon - 1
    IN  Entero(cant_letras) \o Bytes(m.pokemon, cant_letras)

LeerConLetras(d, o) ==
    LET cant_letras == LeerEntero(d, o)
    IN  [size_pokemon |-> cant_letras + 1,
         pokemon |-> LeerLetras(d, o + 4, cant_letras) \o << <<0, 0>> >>]

serializar_msg_get(m) == Stream(espacio_cache_msg_get(m), Letras(m))

deserializar_msg_get(d) == LeerConLetras(d, 0)

serializar_msg_new(m) ==
    Stream(espacio_cache_msg_new(m), Coordenada(m.coord) \o Entero(m.cantidad) \o Letras(m))

deserializar_msg_new(d) ==
    [coord |-> LeerCoordenada(d, 0), cantidad |-> LeerEntero(d, 8)] @@ LeerConLetras(d, 12)

serializar_msg_catch(m) == Stream(espacio_cache_msg_catch(m), Coordenada(m.coord) \o Letras(m))

deserializar_msg_catch(d) == [coord |-> LeerCoordenada(d, 0)] @@ LeerConLetras(d, 8)

serializar_msg_appeared(m) ==
    Stream(espacio_cache_msg_appeared(m), Coordenada(m.coord) \o Letras(m))

deserializar_msg_appeared(d) == [coord |-> LeerCoordenada(d, 0)] @@ LeerConLetras(d, 8)

serializar_msg_caught(m) == Stream(espacio_cache_msg_caught, Entero(m.resultado))

deserializar_msg_caught(d) == [resultado |-> LeerEntero(d, 0)]

serializar_msg_localized(m) ==
    Stream(espacio_cache_msg_localized(m),
           Entero(Len(m.posiciones)) \o Coordenadas(m.posiciones) \o Letras(m))

deserializar_msg_localized(d) ==
    LET n == LeerEntero(d, 0)
    IN  [posiciones |-> LeerCoordenadas(d, 4, n)] @@ LeerConLetras(d, 4 + 8 * n)
=============================================================================
