------------------------------ MODULE BrokerBuddy ------------------------------
(***************************************************************************)
(* The broker's message cache under ALGORITMO_MEMORIA=BS: a buddy system   *)
(* (broker_oper.c, broker_utils.c).                                        *)
(*                                                                         *)
(* Each order has a bitmap with one bit for each block of its size and a   *)
(* count of the clear ones.  Storing a message sets the bits of the blocks *)
(* above and below its own, freeing it clears them, both by arithmetic on  *)
(* indices alone: buddy_table, the list of the occupied blocks, is never   *)
(* looked at to do it.                                                     *)
(*                                                                         *)
(* Everything here runs with g_mutex_msjs held: one message is stored at a *)
(* time, in one step for each victim it takes.                             *)
(***************************************************************************)
EXTENDS Integers, FiniteSetsExt

CONSTANTS
    TamanoMemoria,        \* TAMANO_MEMORIA: bytes of the cache
    TamanoMinimo,         \* TAMANO_MINIMO_PARTICION
    MaxBitarrays,         \* MAX_BITARRAYS_BS: orders, at most
    AlgoritmoReemplazo,   \* "FIFO" or "LRU"
    Colas,                \* the queues messages are published to
    Tamanos,              \* sizes of the serialized messages
    MaxMensajes,          \* bound: messages published in a behaviour
    MaxLecturas           \* bound: reads of the cache in a behaviour

ASSUME BuddyAssumption ==
    /\ TamanoMinimo \in Nat \ {0}
    /\ TamanoMemoria \in Nat
    /\ TamanoMemoria >= TamanoMinimo
    /\ MaxBitarrays \in Nat \ {0}
    /\ AlgoritmoReemplazo \in {"FIFO", "LRU"}
    /\ Tamanos \subseteq Nat \ {0}
    /\ MaxMensajes \in Nat
    /\ MaxLecturas \in Nat

VARIABLES
    bitmap_buddy,      \* bits set, for each order; an index may be past the last block
    free_buddys,       \* for each order
    buddy_table,       \* set of the occupied buddies
    used_space,
    cnt_order_fifo,
    cnt_order_lru,
    mensajes_cola,     \* messages held by the queues: [id, cola, size]
    g_msg_counter,     \* id of the next message
    pc,                \* where the thread that stores a message stands
    msg,               \* the message being stored
    lecturas           \* reads done, for MaxLecturas

bitmaps == <<bitmap_buddy, free_buddys>>

vars == <<bitmaps, buddy_table, used_space, cnt_order_fifo, cnt_order_lru, mensajes_cola,
          g_msg_counter, pc, msg, lecturas>>

(***************************************************************************)
(* Orders and blocks                                                       *)
(***************************************************************************)
\* pow(2, n).
pow2[n \in Nat] == IF n = 0 THEN 1 ELSE 2 * pow2[n - 1]

Exponente ==
    CHOOSE e \in 0 .. TamanoMinimo : pow2[e] <= TamanoMinimo /\ TamanoMinimo < pow2[e + 1]

buddy_size(o) == pow2[Exponente + o]

Ordenes == {o \in 0 .. MaxBitarrays - 1 : buddy_size(o) <= TamanoMemoria}

cant_buddys(o) == TamanoMemoria \div buddy_size(o)

UltimoOrden == Max(Ordenes)

\* Bytes of the block with index i of order o.
Bloque(o, i) == i * buddy_size(o) .. (i + 1) * buddy_size(o) - 1

Mensaje == [id : Nat \ {0}, cola : Colas, size : Nat \ {0}]

SinMensaje == [id |-> 0]

Particion ==
    [posicion : Nat, orden : Ordenes, data_size : Nat, id_mensaje : Nat, id_cola : Colas,
     orden_fifo : Nat, last_used : Nat]

Bytes(b) == b.posicion .. b.posicion + buddy_size(b.orden) - 1

(***************************************************************************)
(* Helpers                                                                 *)
(***************************************************************************)
Espacio(size) == IF size > TamanoMinimo THEN size ELSE TamanoMinimo

cache_espacio_suficiente(size) == buddy_size(UltimoOrden) >= Espacio(size)

\* The order of obtengo_tamano_buddy's size: the first one that is large enough.
obtengo_tamano_buddy(size) == Min({o \in Ordenes : buddy_size(o) >= Espacio(size)})

\* Index of the block of order k that contains the block i of order o, k >= o.
Indice(o, i, k) == i \div pow2[k - o]

\* The bits of the blocks of order k inside the block i of order o, k <= o.
Interiores(o, i, k) == i * pow2[o - k] .. (i + 1) * pow2[o - k] - 1

\* Mutant: the loop stops one order too early.
HastaElUno(o, i) == {k \in Ordenes : k > o /\ Indice(o, i, k) > 0}

\* Orders set_bits_bitmaps_superiores goes through: up to the one whose index is 1.
set_bits_bitmaps_superiores(o, i) ==
    {k \in Ordenes : k > o /\ \A j \in o + 1 .. k - 1 : Indice(o, i, j) # 1}

\* The bitmaps with the block i of order o, those above it and those inside it set.
set_bits_bitmaps_buddy_system(bits, o, i) ==
    [k \in Ordenes |->
        CASE k = o -> bits[k] \cup {i}
          [] k \in set_bits_bitmaps_superiores(o, i) -> bits[k] \cup {Indice(o, i, k)}
          [] k < o -> bits[k] \cup Interiores(o, i, k)
          [] OTHER -> bits[k]]

Vecino(i) == IF i % 2 = 0 THEN i + 1 ELSE i - 1

\* The bit of the other half, but for the last index of an order: the one before it.
tiene_su_propio_buddy_ocupado(bits, o, i) ==
    /\ cant_buddys(o) # 1
    /\ CASE i = 0                  -> 1 \in bits[o]
         [] i = cant_buddys(o) - 1 -> cant_buddys(o) - 2 \in bits[o]
         [] OTHER                  -> Vecino(i) \in bits[o]

\* Mutant: the larger blocks are cleared without a look at their other half.
LimpiarTodosLosSuperiores(bits, o, i) ==
    IF tiene_su_propio_buddy_ocupado(bits, o, i) THEN {} ELSE {k \in Ordenes : k > o}

\* Orders clean_bits_bitmaps_superiores goes through, if it is called at all: up to
\* the one in which the neighbour is set.
clean_bits_bitmaps_superiores(bits, o, i) ==
    IF tiene_su_propio_buddy_ocupado(bits, o, i) THEN {}
    ELSE {k \in Ordenes : k > o /\ \A j \in o + 1 .. k - 1 : Vecino(Indice(o, i, j)) \notin bits[j]}

\* Mutant: what is inside the block stays set.
SinLimpiarInferiores(bits, o, i) ==
    [k \in Ordenes |->
        IF k \in clean_bits_bitmaps_superiores(bits, o, i) THEN bits[k] \ {Indice(o, i, k)}
                                                          ELSE bits[k]]

\* The bitmaps with the blocks above and below the block i of order o clear.
clean_bits_bitmaps_buddy_system(bits, o, i) ==
    [k \in Ordenes |->
        CASE k \in clean_bits_bitmaps_superiores(bits, o, i) -> bits[k] \ {Indice(o, i, k)}
          [] k < o -> bits[k] \ Interiores(o, i, k)
          [] OTHER -> bits[k]]

liberar_posicion_buddy_ocupada(bits, o, i) ==
    clean_bits_bitmaps_buddy_system([bits EXCEPT ![o] = @ \ {i}], o, i)

\* Mutant: only the block itself is counted.
CuentaSoloElBloque(cuenta, antes, despues) ==
    [o \in Ordenes |-> IF antes[o] = despues[o] THEN cuenta[o]
                       ELSE IF antes[o] \subseteq despues[o] THEN cuenta[o] - 1 ELSE cuenta[o] + 1]

\* free_buddys once the bits have gone from antes to despues: each bit set or
\* cleared that was not so before is counted.
Cuenta(cuenta, antes, despues) ==
    [o \in Ordenes |-> cuenta[o] + Cardinality(antes[o] \ despues[o])
                                 - Cardinality(despues[o] \ antes[o])]

HayLugar(cuenta, o) == cuenta[o] > 0

Claros(bits, o) == {i \in 0 .. cant_buddys(o) - 1 : i \notin bits[o]}

\* Index of the block given when HayLugar: the first one that is clear.  If the count
\* promised one and there is none, a negative index, which TypeOK would show.
obtengo_posicion_buddy_libre(bits, o) ==
    IF Claros(bits, o) = {} THEN -1 ELSE Min(Claros(bits, o))

Sello(b) == IF AlgoritmoReemplazo = "FIFO" THEN b.orden_fifo ELSE b.last_used

\* b is buddy_proxima_victima(0).
EsVictima(b) ==
    /\ b \in buddy_table
    /\ \A q \in buddy_table : Sello(b) <= Sello(q)

(***************************************************************************)
(* obtengo_particion_buddy_libre when there is a place, with               *)
(* insertar_en_buddy_table, poner_msj_en_cola and                          *)
(* incremento_cnt_id_mensajes, after an eviction or without one.           *)
(***************************************************************************)
Guardar(bits, cuenta, tabla, m, usado, cola) ==
    LET o     == obtengo_tamano_buddy(m.size)
        i     == obtengo_posicion_buddy_libre(bits, o)
        nuevo == set_bits_bitmaps_buddy_system(bits, o, i)
    IN  /\ bitmap_buddy' = nuevo
        /\ free_buddys' = Cuenta(cuenta, bits, nuevo)
        /\ buddy_table' = tabla \cup
              {[posicion |-> i * buddy_size(o), orden |-> o, data_size |-> m.size,
                id_mensaje |-> m.id, id_cola |-> m.cola, orden_fifo |-> cnt_order_fifo,
                last_used |-> cnt_order_lru]}
        /\ used_space' = usado + buddy_size(o)
        /\ cnt_order_fifo' = cnt_order_fifo + 1
        /\ cnt_order_lru' = cnt_order_lru + 1
        /\ mensajes_cola' = cola \cup {m}
        /\ g_msg_counter' = m.id + 1

\* The code starts cnt_order_lru at the time of day; only the order of its values counts.
Init ==
    /\ bitmap_buddy = [o \in Ordenes |-> {}]
    /\ free_buddys = [o \in Ordenes |-> cant_buddys(o)]
    /\ buddy_table = {}
    /\ used_space = 0
    /\ cnt_order_fifo = 1
    /\ cnt_order_lru = 1
    /\ mensajes_cola = {}
    /\ g_msg_counter = 1
    /\ pc = "libre"
    /\ msg = SinMensaje
    /\ lecturas = 0

(***************************************************************************)
(* A publication that the broker accepts.                                  *)
(***************************************************************************)
Admisible(m) ==
    /\ pc = "libre"
    /\ m.id = g_msg_counter
    /\ m.id <= MaxMensajes
    /\ cache_espacio_suficiente(m.size)

Publicar(m) ==
    /\ Admisible(m)
    /\ HayLugar(free_buddys, obtengo_tamano_buddy(m.size))
    /\ Guardar(bitmap_buddy, free_buddys, buddy_table, m, used_space, mensajes_cola)
    /\ UNCHANGED <<pc, msg, lecturas>>

\* reemplazar_particion_buddy begins, or goes on.  With nothing left in the table,
\* buddy_proxima_victima returns NULL and the broker dereferences it.
BuscarVictima(tabla) == IF tabla = {} THEN "caido" ELSE "reemplazar"

PublicarSinLugar(m) ==
    /\ Admisible(m)
    /\ ~HayLugar(free_buddys, obtengo_tamano_buddy(m.size))
    /\ msg' = m
    /\ pc' = BuscarVictima(buddy_table)
    /\ UNCHANGED <<bitmaps, buddy_table, used_space, cnt_order_fifo, cnt_order_lru,
                   mensajes_cola, g_msg_counter, lecturas>>

\* Mutant: the buddy leaves the table, its message stays in the queue.
DesalojoSinCola(b) ==
    LET bits == liberar_posicion_buddy_ocupada(bitmap_buddy, b.orden,
                                               b.posicion \div buddy_size(b.orden))
    IN  [bits   |-> bits,
         cuenta |-> Cuenta(free_buddys, bitmap_buddy, bits),
         tabla  |-> buddy_table \ {b},
         usado  |-> used_space - buddy_size(b.orden),
         cola   |-> mensajes_cola]

(***************************************************************************)
(* One turn of reemplazar_particion_buddy: eliminar_mensaje_por_id on the  *)
(* victim b, and another search.                                           *)
(***************************************************************************)
Desalojo(b) ==
    LET bits == liberar_posicion_buddy_ocupada(bitmap_buddy, b.orden,
                                               b.posicion \div buddy_size(b.orden))
    IN  [bits   |-> bits,
         cuenta |-> Cuenta(free_buddys, bitmap_buddy, bits),
         tabla  |-> buddy_table \ {b},
         usado  |-> used_space - buddy_size(b.orden),
         cola   |-> {m \in mensajes_cola : m.id # b.id_mensaje \/ m.cola # b.id_cola}]

ReemplazarYGuardar(b) ==
    LET d == Desalojo(b)
    IN  /\ pc = "reemplazar"
        /\ EsVictima(b)
        /\ HayLugar(d.cuenta, obtengo_tamano_buddy(msg.size))
        /\ Guardar(d.bits, d.cuenta, d.tabla, msg, d.usado, d.cola)
        /\ pc' = "libre"
        /\ msg' = SinMensaje
        /\ UNCHANGED lecturas

ReemplazarOtra(b) ==
    LET d == Desalojo(b)
    IN  /\ pc = "reemplazar"
        /\ EsVictima(b)
        /\ ~HayLugar(d.cuenta, obtengo_tamano_buddy(msg.size))
        /\ bitmap_buddy' = d.bits
        /\ free_buddys' = d.cuenta
        /\ buddy_table' = d.tabla
        /\ used_space' = d.usado
        /\ mensajes_cola' = d.cola
        /\ pc' = BuscarVictima(d.tabla)
        /\ UNCHANGED <<cnt_order_fifo, cnt_order_lru, g_msg_counter, msg, lecturas>>

(***************************************************************************)
(* obtener_datos_msj_de_particion_cache: a read by a subscriber's thread.  *)
(* g_mutex_msjs is taken to exclude: that a handshake may unlock it under  *)
(* a store (broker_utils.c:195), and the exit of the thread on a buddy of  *)
(* another size (broker_oper.c:390), are in Mensajes.                      *)
(***************************************************************************)
Leer(m) ==
    /\ pc = "libre"
    /\ lecturas < MaxLecturas
    /\ \E b \in buddy_table :
          /\ b.id_mensaje = m.id
          /\ b.data_size = m.size
          /\ buddy_table' = (buddy_table \ {b}) \cup {[b EXCEPT !.last_used = cnt_order_lru]}
    /\ cnt_order_lru' = cnt_order_lru + 1
    /\ lecturas' = lecturas + 1
    /\ UNCHANGED <<bitmaps, used_space, cnt_order_fifo, mensajes_cola, g_msg_counter, pc, msg>>

\* The bound on publications is reached: nothing more is asked of the cache.
Fin ==
    /\ pc = "libre"
    /\ g_msg_counter > MaxMensajes
    /\ UNCHANGED vars

Next ==
    \/ \E cola \in Colas, size \in Tamanos :
          LET m == [id |-> g_msg_counter, cola |-> cola, size |-> size]
          IN  Publicar(m) \/ PublicarSinLugar(m)
    \/ \E b \in buddy_table : ReemplazarYGuardar(b) \/ ReemplazarOtra(b)
    \/ \E m \in mensajes_cola : Leer(m)
    \/ Fin

Spec == Init /\ [][Next]_vars

(***************************************************************************)
(* Properties                                                              *)
(***************************************************************************)
TypeOK ==
    /\ bitmap_buddy \in [Ordenes -> SUBSET Nat]
    /\ free_buddys \in [Ordenes -> Int]
    /\ buddy_table \subseteq Particion
    /\ used_space \in Int
    /\ cnt_order_fifo \in Nat
    /\ cnt_order_lru \in Nat
    /\ mensajes_cola \subseteq Mensaje
    /\ g_msg_counter \in Nat \ {0}
    /\ pc \in {"libre", "reemplazar", "caido"}
    /\ msg \in Mensaje \cup {SinMensaje}
    /\ lecturas \in Nat

\* No two stored messages share a byte of the cache and none reaches past its
\* end, whatever was evicted and stored before, and in whatever order.
SinSolapar ==
    /\ \A b \in buddy_table : b.posicion + buddy_size(b.orden) <= TamanoMemoria
    /\ \A b, c \in buddy_table : b # c => Bytes(b) \cap Bytes(c) = {}

Tocado(o, i) == \E b \in buddy_table : Bytes(b) \cap Bloque(o, i) # {}

\* The bitmaps say what the table says: a bit is set exactly while its block shares
\* a byte with an occupied buddy, so that a block is never given while part of it
\* is in use, and two free halves always make a free whole.
BitmapsExactos ==
    \A o \in Ordenes : \A i \in 0 .. cant_buddys(o) - 1 : i \in bitmap_buddy[o] <=> Tocado(o, i)

\* The counts of each order and of the bytes in use, kept apart from the bitmaps and
\* from each other, never drift.
CuentasExactas ==
    /\ \A o \in Ordenes :
          free_buddys[o] = Cardinality({i \in 0 .. cant_buddys(o) - 1 : ~Tocado(o, i)})
    /\ used_space = MapThenSumSet(LAMBDA b : buddy_size(b.orden), buddy_table)

\* Every queued message is in exactly one buddy, with its queue and its size, and every
\* buddy holds a queued message: eviction removes the message from both at once, and a
\* subscriber's read of a queued message always finds it.
ColasYCache ==
    /\ \A m \in mensajes_cola :
          \E b \in buddy_table : b.id_mensaje = m.id /\ b.id_cola = m.cola /\ b.data_size = m.size
    /\ Cardinality(buddy_table) = Cardinality(mensajes_cola)

\* Evictions make room for every publication the broker accepted before the table is
\* empty: cache_espacio_suficiente never lets in a message the cache cannot hold, and
\* the freed halves have joined again by then.
SeGuarda == pc # "caido"
=============================================================================
