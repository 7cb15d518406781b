--------------------------- MODULE BrokerPartitions ---------------------------
(***************************************************************************)
(* The broker's message cache under ALGORITMO_MEMORIA=PARTICIONES: the     *)
(* table of dynamic partitions, the bytes they hold and the queues whose   *)
(* messages live in them (broker_oper.c, broker_utils.c).                  *)
(*                                                                         *)
(* Everything here runs with g_mutex_msjs held, so one message is stored   *)
(* at a time; the loops of reemplazar_particion_dinamica and               *)
(* compactar_particiones are split into one step per iteration.            *)
(*                                                                         *)
(* partition_table is a list the code keeps sorted by dir_base and         *)
(* renumbers after every change (id_particion = index + 1).  It is the set *)
(* of its records here; an index is a rank by dir_base.                    *)
(***************************************************************************)
EXTENDS Integers, FiniteSetsExt

CONSTANTS
    TamanoMemoria,            \* TAMANO_MEMORIA: bytes of the cache
    TamanoMinimo,             \* TAMANO_MINIMO_PARTICION
    AlgoritmoParticionLibre,  \* "FF" or "BF"
    AlgoritmoReemplazo,       \* "FIFO" or "LRU"
    FrecuenciaCompactacion,   \* FRECUENCIA_COMPACTACION: -1, 0, 1, ...
    LimiteConsolidar,         \* the 500 of reemplazar_particion_dinamica
    Colas,                    \* the queues messages are published to
    Tamanos,                  \* sizes of the serialized messages
    MaxMensajes,              \* bound: messages published in a behaviour
    MaxLecturas               \* bound: reads of the cache in a behaviour

ASSUME ConfigAssumption ==
    /\ TamanoMemoria \in Nat \ {0}
    /\ TamanoMinimo \in Nat \ {0}
    /\ AlgoritmoParticionLibre \in {"FF", "BF"}
    /\ AlgoritmoReemplazo \in {"FIFO", "LRU"}
    /\ FrecuenciaCompactacion \in Nat \cup {-1}
    /\ LimiteConsolidar \in Nat
    /\ Tamanos \subseteq Nat \ {0}
    /\ MaxMensajes \in Nat
    /\ MaxLecturas \in Nat

SinCola == "sin cola"   \* id_cola = 0
ASSUME ColasAssumption == SinCola \notin Colas

VARIABLES
    partition_table,   \* set of partitions
    partition_repo,    \* owner of each byte: the id of a message, 0 once cleared
    used_space,
    cnt_order_fifo,
    cnt_order_lru,
    mensajes_cola,     \* messages held by the queues: [id, cola, size]
    g_msg_counter,     \* id of the next message
    pc,                \* where the thread that stores a message stands
    msg,               \* the message being stored
    lazo,              \* locals of the replacement loop
    barrido,           \* locals of a compaction: first address not yet swept
    lecturas           \* reads done, for MaxLecturas

vars == <<partition_table, partition_repo, used_space, cnt_order_fifo,
          cnt_order_lru, mensajes_cola, g_msg_counter, pc, msg, lazo, barrido,
          lecturas>>

Direcciones == 0 .. TamanoMemoria - 1

Mensaje == [id : Nat \ {0}, cola : Colas, size : Nat \ {0}]

SinMensaje == [id |-> 0, cola |-> SinCola, size |-> 0]

Particion ==
    [dir_base : Direcciones \cup {TamanoMemoria}, dir_heap : Direcciones, data_size : Nat,
     presencia : BOOLEAN, id_mensaje : Nat, id_cola : Colas \cup {SinCola},
     orden_fifo : Nat, last_used : Nat]

Lazo ==
    [idx : Nat, cont_consolidar : Nat, contador_reemplazos : Nat]

LazoInicial == [idx |-> 0, cont_consolidar |-> 0, contador_reemplazos |-> 0]

(***************************************************************************)
(* Helpers                                                                 *)
(***************************************************************************)
Mayor(a, b) == IF a > b THEN a ELSE b

\* Bytes a message needs: its size, never less than the minimum partition.
Espacio(size) == Mayor(size, TamanoMinimo)

tamano_particion_dinamica(p) == p.dir_heap - p.dir_base + 1

Bytes(p) == p.dir_base .. p.dir_heap

Ocupadas(tabla) == {p \in tabla : p.presencia}
Libres(tabla)   == {p \in tabla : ~p.presencia}

\* Mutant: only the message is compared with the memory, not what it will take.
SoloElMinimo(size) == TamanoMemoria >= TamanoMinimo

cache_espacio_suficiente(size) == TamanoMemoria >= Espacio(size)

\* Mutant: the end of the partition is off by one.
GenerarUnByteDeMas(base, size, fifo, lru) ==
    [dir_base |-> base, dir_heap |-> base + size, data_size |-> 0,
     presencia |-> FALSE, id_mensaje |-> 0, id_cola |-> SinCola,
     orden_fifo |-> fifo, last_used |-> lru]

generar_particion_dinamica_libre(base, size, fifo, lru) ==
    [dir_base |-> base, dir_heap |-> base + size - 1, data_size |-> 0,
     presencia |-> FALSE, id_mensaje |-> 0, id_cola |-> SinCola,
     orden_fifo |-> fifo, last_used |-> lru]

\* q stands just before p in the table.
EsAnterior(tabla, q, p) ==
    /\ q.dir_base < p.dir_base
    /\ \A r \in tabla : r.dir_base <= q.dir_base \/ r.dir_base >= p.dir_base

EsPrimera(tabla, p) == \A q \in tabla : p.dir_base <= q.dir_base

\* The pair consolidar_particion_dinamica would merge: the previous partition
\* absorbs p, or p absorbs the next one when p is the first of the table.
ParesConsolidables(tabla, p) ==
    {par \in Libres(tabla) \X Libres(tabla) :
        /\ EsAnterior(tabla, par[1], par[2])
        /\ IF EsPrimera(tabla, p) THEN par[1] = p ELSE par[2] = p}

\* Mutant: the partition that absorbs does not grow.
FusionSinCrecer(r, c) ==
    [r EXCEPT !.id_mensaje = c.id_mensaje, !.orden_fifo = c.orden_fifo,
              !.last_used  = c.last_used]

Fusion(r, c) ==
    [r EXCEPT !.dir_heap   = c.dir_heap,   !.id_mensaje = c.id_mensaje,
              !.orden_fifo = c.orden_fifo, !.last_used  = c.last_used]

\* The table after consolidar_particion_dinamica(p) and the partition it returns.
consolidar_particion_dinamica(tabla, p) ==
    IF ParesConsolidables(tabla, p) = {}
    THEN [tabla |-> tabla, part |-> p]
    ELSE LET par == CHOOSE x \in ParesConsolidables(tabla, p) : TRUE
             f   == Fusion(par[1], par[2])
         IN  [tabla |-> (tabla \ {par[1], par[2]}) \cup {f}, part |-> f]

\* Mutant: a partition of exactly the size asked for is passed over.
CandidatasHolgadas(size) ==
    {p \in Libres(partition_table) : tamano_particion_dinamica(p) > Espacio(size)}

\* The free partitions that fit, and the one each algorithm finds first.  Sizes
\* may tie under BF: list_sort of the commons library does not say which wins.
Candidatas(size) ==
    {p \in Libres(partition_table) : tamano_particion_dinamica(p) >= Espacio(size)}

Primeras(ps) ==
    CASE AlgoritmoParticionLibre = "FF" ->
            {p \in ps : \A q \in ps : p.dir_base <= q.dir_base}
      [] AlgoritmoParticionLibre = "BF" ->
            {p \in ps : \A q \in ps : tamano_particion_dinamica(p)
                                        <= tamano_particion_dinamica(q)}

\* buscar_particion_dinamica_libre consolidates only with a free previous one.
ConAnterior(tabla, p) ==
    IF EsPrimera(tabla, p)
    THEN [tabla |-> tabla, part |-> p]
    ELSE consolidar_particion_dinamica(tabla, p)

Sello(p) == IF AlgoritmoReemplazo = "FIFO" THEN p.orden_fifo ELSE p.last_used

\* p is particion_proxima_victima(idx): the whole table, free partitions too,
\* sorted by the stamp of the replacement algorithm.
EsVictima(p, idx) ==
    /\ p \in partition_table
    /\ Cardinality({q \in partition_table : Sello(q) < Sello(p)}) = idx

Limpiar(repo, p) == [a \in Direcciones |-> IF a \in Bytes(p) THEN 0 ELSE repo[a]]

(***************************************************************************)
(* Storing the message in a partition that fits: stamps, split and copy    *)
(* of the data (the tail of buscar_ and of reemplazar_particion_dinamica,  *)
(* then poner_datos_msj_en_particion_cache), poner_msj_en_cola and         *)
(* incremento_cnt_id_mensajes.                                             *)
(***************************************************************************)
Guardar(tabla, part, m, usado, repo, cola) ==
    LET original == tamano_particion_dinamica(part)
        parte    == original > Espacio(m.size)
        nueva    == [part EXCEPT
                       !.id_mensaje = m.id,
                       !.id_cola    = m.cola,
                       !.data_size  = m.size,
                       !.orden_fifo = cnt_order_fifo,
                       !.last_used  = cnt_order_lru,
                       !.presencia  = TRUE,
                       !.dir_heap   = IF parte THEN part.dir_base + Espacio(m.size) - 1
                                               ELSE @]
        resto    == generar_particion_dinamica_libre(nueva.dir_heap + 1,
                        original - Espacio(m.size), cnt_order_fifo + 1, cnt_order_lru + 1)
    IN  /\ partition_table' = (tabla \ {part}) \cup {nueva}
                                \cup (IF parte THEN {resto} ELSE {})
        /\ cnt_order_fifo' = cnt_order_fifo + (IF parte THEN 2 ELSE 1)
        /\ cnt_order_lru'  = cnt_order_lru  + (IF parte THEN 2 ELSE 1)
        /\ used_space' = usado + tamano_particion_dinamica(nueva)
        /\ partition_repo' =
              [a \in Direcciones |->
                  IF a \in nueva.dir_base .. nueva.dir_base + m.size - 1 THEN m.id
                  ELSE IF a \in Bytes(nueva) THEN 0 ELSE repo[a]]
        /\ mensajes_cola' = cola \cup {m}
        /\ g_msg_counter' = m.id + 1
        /\ pc' = "libre"

Init ==
    /\ partition_table = {generar_particion_dinamica_libre(0, TamanoMemoria, 1, 1)}
    /\ partition_repo = [a \in Direcciones |-> 0]
    /\ used_space = 0
    /\ cnt_order_fifo = 2
    /\ cnt_order_lru = 2
    /\ mensajes_cola = {}
    /\ g_msg_counter = 1
    /\ pc = "libre"
    /\ msg = SinMensaje
    /\ lazo = LazoInicial
    /\ barrido = 0
    /\ lecturas = 0

(***************************************************************************)
(* A publication: atender_publicacion rejects what can never fit, then     *)
(* enqueue_msg_X stores the message, at once when a partition fits.        *)
(***************************************************************************)
Admisible(m) ==
    /\ pc = "libre"
    /\ m.id = g_msg_counter
    /\ m.id <= MaxMensajes
    /\ cache_espacio_suficiente(m.size)

Publicar(m) ==
    /\ Admisible(m)
    /\ \E p \in Primeras(Candidatas(m.size)) :
          LET c == ConAnterior(partition_table, p)
          IN  Guardar(c.tabla, c.part, m, used_space, partition_repo, mensajes_cola)
    /\ UNCHANGED <<msg, lazo, barrido, lecturas>>

\* No partition fits: reemplazar_particion_dinamica begins.  With
\* FRECUENCIA_COMPACTACION=0 it compacts before it looks for a victim.
PublicarSinLugar(m) ==
    /\ Admisible(m)
    /\ Candidatas(m.size) = {}
    /\ msg' = m
    /\ lazo' = LazoInicial
    /\ pc' = IF FrecuenciaCompactacion = 0 THEN "compactar" ELSE "reemplazar"
    /\ UNCHANGED <<partition_table, partition_repo, used_space, cnt_order_fifo,
                   cnt_order_lru, mensajes_cola, g_msg_counter, barrido, lecturas>>

(***************************************************************************)
(* One turn of the do-while of reemplazar_particion_dinamica on victim p.  *)
(***************************************************************************)

\* Mutant: the partition stays occupied.
DesalojadaPresente(p) == [p EXCEPT !.id_cola = SinCola, !.data_size = 0]

\* eliminar_mensaje_por_id on the partition's side (the id stays behind).
Desalojada(p) ==
    [p EXCEPT !.id_cola = SinCola, !.data_size = 0, !.presencia = FALSE]

\* Mutant: only the bytes of the message are given back.
EspacioSinElRelleno(p) == used_space - p.data_size

EspacioTrasDesalojar(p) == used_space - tamano_particion_dinamica(p)

\* What the turn leaves once the victim is evicted and consolidated.
Turno(p) ==
    LET q == IF p.presencia THEN Desalojada(p) ELSE p
        c == consolidar_particion_dinamica((partition_table \ {p}) \cup {q}, q)
    IN  [tabla |-> c.tabla,
         part  |-> c.part,
         usado |-> IF p.presencia THEN EspacioTrasDesalojar(p) ELSE used_space,
         repo  |-> IF p.presencia THEN Limpiar(partition_repo, p) ELSE partition_repo,
         cola  |-> IF p.presencia
                   THEN {m \in mensajes_cola : m.id # p.id_mensaje \/ m.cola # p.id_cola}
                   ELSE mensajes_cola,
         lazo  |-> [idx |-> lazo.idx,
                    cont_consolidar |-> lazo.cont_consolidar + 1,
                    contador_reemplazos |->
                        lazo.contador_reemplazos + (IF p.presencia THEN 1 ELSE 0)]]

TocaCompactar(l) == FrecuenciaCompactacion \in {0, l.contador_reemplazos}

\* The index of the next victim, and the counter it restarts, when the
\* partition obtained from p without compacting is still too small.
SiguienteVictima(p, t) ==
    LET igual == tamano_particion_dinamica(p) = tamano_particion_dinamica(t.part)
        cant  == Cardinality(t.tabla)
        cont  == t.lazo.cont_consolidar
    IN  CASE p.presencia -> [t.lazo EXCEPT !.idx = 1, !.cont_consolidar = 0]
          [] ~p.presencia /\ igual ->
                [t.lazo EXCEPT !.idx = IF cont < cant THEN cont ELSE cant - 1]
          [] OTHER -> [t.lazo EXCEPT !.idx = 0]

Aplicar(t) ==
    /\ partition_table' = t.tabla
    /\ partition_repo' = t.repo
    /\ used_space' = t.usado
    /\ mensajes_cola' = t.cola
    /\ UNCHANGED <<cnt_order_fifo, cnt_order_lru, g_msg_counter, msg, barrido,
                   lecturas>>

\* The turn ends in a compaction.
ReemplazarYCompactar(p) ==
    /\ pc = "reemplazar"
    /\ EsVictima(p, lazo.idx)
    /\ TocaCompactar(Turno(p).lazo)
    /\ pc' = "compactar"
    /\ lazo' = Turno(p).lazo
    /\ Aplicar(Turno(p))

\* The partition obtained is still too small: on to the next victim.
ReemplazarOtra(p) ==
    /\ pc = "reemplazar"
    /\ EsVictima(p, lazo.idx)
    /\ ~TocaCompactar(Turno(p).lazo)
    /\ Turno(p).lazo.cont_consolidar <= LimiteConsolidar
    /\ tamano_particion_dinamica(Turno(p).part) < msg.size
    /\ lazo' = SiguienteVictima(p, Turno(p))
    /\ Aplicar(Turno(p))
    /\ UNCHANGED pc

\* The partition obtained is large enough.
ReemplazarYGuardar(p) ==
    /\ pc = "reemplazar"
    /\ EsVictima(p, lazo.idx)
    /\ ~TocaCompactar(Turno(p).lazo)
    /\ Turno(p).lazo.cont_consolidar <= LimiteConsolidar
    /\ tamano_particion_dinamica(Turno(p).part) >= msg.size
    /\ LET t == Turno(p)
       IN  Guardar(t.tabla, t.part, msg, t.usado, t.repo, t.cola)
    /\ lazo' = LazoInicial
    /\ msg' = SinMensaje
    /\ UNCHANGED <<barrido, lecturas>>

\* cont_consolidar > 500: the thread exits with g_mutex_msjs held.
Abandonar(p) ==
    /\ pc = "reemplazar"
    /\ EsVictima(p, lazo.idx)
    /\ ~TocaCompactar(Turno(p).lazo)
    /\ Turno(p).lazo.cont_consolidar > LimiteConsolidar
    /\ pc' = "abandonado"
    /\ lazo' = Turno(p).lazo
    /\ Aplicar(Turno(p))

(***************************************************************************)
(* compactar_particiones: drop the free partitions, slide the occupied     *)
(* ones down in address order, and make one free partition of the rest.    *)
(***************************************************************************)
reorganizar_tabla_particiones ==
    /\ pc = "compactar"
    /\ partition_table' = Ocupadas(partition_table)
    /\ barrido' = 0
    /\ pc' = "deslizar"
    /\ UNCHANGED <<partition_repo, used_space, cnt_order_fifo, cnt_order_lru,
                   mensajes_cola, g_msg_counter, msg, lazo, lecturas>>

\* Mutant: the old place is cleared after the copy, over the bytes just moved.
MoverYBorrar(repo, p, base) ==
    [a \in Direcciones |->
        IF a \in Bytes(p) THEN 0
        ELSE IF a \in base .. base + p.data_size - 1 THEN repo[p.dir_base + (a - base)]
        ELSE repo[a]]

\* The first partition moves with its whole size, the others with data_size
\* bytes and zeroes after them.
Mover(repo, p, base) ==
    LET copiados == IF base = 0 THEN tamano_particion_dinamica(p) ELSE p.data_size
        limpios  == IF base = 0 THEN base .. p.dir_base - 1 ELSE base .. p.dir_heap
    IN  [a \in Direcciones |->
            IF a \in base .. base + copiados - 1 THEN repo[p.dir_base + (a - base)]
            ELSE IF a \in limpios THEN 0 ELSE repo[a]]

\* p is the next partition of the table: it goes to the first address not swept.
Deslizar(p) ==
    /\ pc = "deslizar"
    /\ p \in partition_table
    /\ p.dir_base >= barrido
    /\ \A q \in partition_table : q.dir_base < barrido \/ p.dir_base <= q.dir_base
    /\ LET movida == [p EXCEPT
              !.dir_base = barrido,
              !.dir_heap = barrido + tamano_particion_dinamica(p) - 1]
       IN  /\ partition_table' = (partition_table \ {p}) \cup {movida}
           /\ partition_repo' = IF p.dir_base = barrido THEN partition_repo
                                ELSE Mover(partition_repo, p, barrido)
           /\ barrido' = movida.dir_heap + 1
    /\ UNCHANGED <<used_space, cnt_order_fifo, cnt_order_lru, mensajes_cola,
                   g_msg_counter, pc, msg, lazo, lecturas>>

Barrido == \A p \in partition_table : p.dir_base < barrido

\* Everything is swept: the rest of the memory becomes one free partition, of
\* size zero when the occupied ones fill the cache.
FinCompactar ==
    /\ pc = "deslizar"
    /\ Barrido
    /\ partition_table' = partition_table \cup
          {generar_particion_dinamica_libre(barrido, TamanoMemoria - barrido,
                                            cnt_order_fifo, cnt_order_lru)}
    /\ used_space' = barrido
    /\ cnt_order_fifo' = cnt_order_fifo + 1
    /\ cnt_order_lru' = cnt_order_lru + 1
    /\ pc' = IF lazo.cont_consolidar > 0 THEN "compactada" ELSE "reemplazar"
    /\ lazo' = [lazo EXCEPT !.idx = 0, !.contador_reemplazos = 0]
    /\ barrido' = 0
    /\ UNCHANGED <<partition_repo, mensajes_cola, g_msg_counter, msg, lecturas>>

EsUltimaLibre(p) ==
    /\ p \in Libres(partition_table)
    /\ \A q \in partition_table : q.dir_base <= p.dir_base

\* The turn goes on with new_part = ultima_particion_libre.
CompactadaYGuardar(p) ==
    /\ pc = "compactada"
    /\ EsUltimaLibre(p)
    /\ lazo.cont_consolidar <= LimiteConsolidar
    /\ tamano_particion_dinamica(p) >= msg.size
    /\ Guardar(partition_table, p, msg, used_space, partition_repo, mensajes_cola)
    /\ lazo' = LazoInicial
    /\ msg' = SinMensaje
    /\ UNCHANGED <<barrido, lecturas>>

CompactadaSinAlcanzar(p) ==
    /\ pc = "compactada"
    /\ EsUltimaLibre(p)
    /\ lazo.cont_consolidar > LimiteConsolidar \/ tamano_particion_dinamica(p) < msg.size
    /\ pc' = IF lazo.cont_consolidar > LimiteConsolidar THEN "abandonado" ELSE "reemplazar"
    /\ UNCHANGED <<partition_table, partition_repo, used_space, cnt_order_fifo,
                   cnt_order_lru, mensajes_cola, g_msg_counter, msg, lazo, barrido,
                   lecturas>>

(***************************************************************************)
(* obtener_datos_msj_de_particion_cache: a subscriber's thread reads the   *)
(* data of a message of its queue from the first partition with its id.    *)
(* As everywhere here g_mutex_msjs is taken to exclude: that a handshake   *)
(* may unlock it under a store (broker_utils.c:195), and the exit of the   *)
(* thread on a partition of another size that this can bring about         *)
(* (broker_oper.c:390), are in Mensajes.                                   *)
(***************************************************************************)
EsParticionDe(p, m) ==
    /\ p \in partition_table
    /\ p.id_mensaje = m.id
    /\ \A q \in partition_table : q.id_mensaje = m.id => p.dir_base <= q.dir_base

Leer(m) ==
    /\ pc = "libre"
    /\ m \in mensajes_cola
    /\ lecturas < MaxLecturas
    /\ \E p \in partition_table :
          /\ EsParticionDe(p, m)
          /\ p.data_size = m.size
          /\ partition_table' = (partition_table \ {p}) \cup
                                {[p EXCEPT !.last_used = cnt_order_lru]}
    /\ cnt_order_lru' = cnt_order_lru + 1
    /\ lecturas' = lecturas + 1
    /\ UNCHANGED <<partition_repo, used_space, cnt_order_fifo, mensajes_cola,
                   g_msg_counter, pc, msg, lazo, barrido>>

\* The bound on publications is reached: nothing more is asked of the cache.
Fin ==
    /\ pc = "libre"
    /\ g_msg_counter > MaxMensajes
    /\ UNCHANGED vars

AlmacenarPaso ==
    \/ \E p \in partition_table :
          \/ ReemplazarYCompactar(p)
          \/ ReemplazarOtra(p)
          \/ ReemplazarYGuardar(p)
          \/ Abandonar(p)
          \/ Deslizar(p)
          \/ CompactadaYGuardar(p)
          \/ CompactadaSinAlcanzar(p)
    \/ reorganizar_tabla_particiones
    \/ FinCompactar

Next ==
    \/ \E cola \in Colas, size \in Tamanos :
          LET m == [id |-> g_msg_counter, cola |-> cola, size |-> size]
          IN  Publicar(m) \/ PublicarSinLugar(m)
    \/ AlmacenarPaso
    \/ \E m \in mensajes_cola : Leer(m)
    \/ Fin

Spec == Init /\ [][Next]_vars

\* The thread that stores a message is never interrupted for good: it holds the
\* mutex and waits for nobody.
FairSpec == Spec /\ WF_vars(AlmacenarPaso)

(***************************************************************************)
(* Properties                                                              *)
(***************************************************************************)
TypeOK ==
    /\ partition_table \subseteq Particion
    /\ partition_repo \in [Direcciones -> Nat]
    /\ used_space \in Int
    /\ cnt_order_fifo \in Nat
    /\ cnt_order_lru \in Nat
    /\ mensajes_cola \subseteq Mensaje
    /\ g_msg_counter \in Nat \ {0}
    /\ pc \in {"libre", "reemplazar", "compactar", "deslizar", "compactada", "abandonado"}
    /\ msg \in Mensaje \cup {SinMensaje}
    /\ lazo \in Lazo
    /\ barrido \in Nat
    /\ lecturas \in Nat

\* No byte of the cache belongs to two partitions, and, but for the gaps a
\* compaction is closing, none is lost: splits, merges and slides all keep the
\* memory tiled by the table.
Mosaico ==
    /\ \A p \in partition_table : p.dir_base >= 0 /\ p.dir_heap < TamanoMemoria
    /\ \A p, q \in partition_table :
          p # q => p.dir_heap < q.dir_base \/ q.dir_heap < p.dir_base
    /\ pc # "deslizar" => \A a \in Direcciones : \E p \in partition_table : a \in Bytes(p)

\* The bytes of an occupied partition are those of its message: no copy of a
\* compaction and no neighbour's write ever damages the data of a stored message.
DatosIntactos ==
    \A p \in Ocupadas(partition_table) :
        \A a \in p.dir_base .. p.dir_base + p.data_size - 1 :
            partition_repo[a] = p.id_mensaje

\* Queues and cache agree: a message is in a queue exactly while one partition
\* holds it, and the search by id that reads use finds that partition, never a
\* free one that kept a stale id_mensaje.
ColasYCache ==
    /\ \A m \in mensajes_cola : \E p \in Ocupadas(partition_table) :
          EsParticionDe(p, m) /\ p.id_cola = m.cola /\ p.data_size = m.size
    /\ \A p \in Ocupadas(partition_table) :
          [id |-> p.id_mensaje, cola |-> p.id_cola, size |-> p.data_size] \in mensajes_cola

Suma(ps) == MapThenSumSet(tamano_particion_dinamica, ps)

\* used_space, which evictions decrease, stores increase and compactions
\* recompute, is always the size of the occupied partitions.
EspacioUsado == used_space = Suma(Ocupadas(partition_table))

\* A message is evicted only while no free partition can take the one to be stored:
\* the turns of the replacement, which look only at the partition they have just merged
\* or compacted, never leave another one that is enough.
DesalojoNecesario ==
    [][mensajes_cola \subseteq mensajes_cola' \/
          \A p \in Libres(partition_table) :
             tamano_particion_dinamica(p) < Espacio(msg.size)]_vars

\* A publication that fits the cache is stored in the end: the replacement loop
\* does not run into its limit of 500 fruitless turns.
SeGuarda == pc # "libre" ~> pc = "libre"
=============================================================================
