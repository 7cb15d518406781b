------------------------ MODULE BrokerPartitionsProofs ------------------------
(***************************************************************************)
(* Proofs about BrokerPartitions, for every size of the cache, algorithm,  *)
(* compaction frequency and set of messages: the types, the tiling of the  *)
(* memory, the integrity of the stored data and the agreement of the       *)
(* queues with the cache, all from one inductive invariant.                *)
(***************************************************************************)
EXTENDS BrokerPartitions, LemasComunes

(***************************************************************************)
(* The inductive invariant                                                 *)
(***************************************************************************)

\* The partitions lie in the memory and do not overlap; only the one a compaction
\* of a full cache leaves at the end is empty; an occupied one holds its message.
Geometria(tabla) ==
    /\ \A p \in tabla :
          /\ \/ p.dir_base <= p.dir_heap
             \/ p.dir_base = TamanoMemoria /\ p.dir_heap = TamanoMemoria - 1 /\ ~p.presencia
          /\ p.presencia => p.data_size <= tamano_particion_dinamica(p)
    /\ \A p, q \in tabla :
          p # q => /\ p.dir_base # q.dir_base
                   /\ p.dir_heap < q.dir_base \/ q.dir_heap < p.dir_base

Cobertura(tabla) == \A a \in Direcciones : \E p \in tabla : a \in Bytes(p)

\* An occupied partition has an id of its own, which no free one remembers.
IdsPropios(tabla) ==
    \A p, q \in tabla : q.presencia /\ p.id_mensaje = q.id_mensaje => p = q

\* A message is in its queue exactly while an occupied partition has it.
Guardados(tabla, cola) ==
    /\ \A p \in Ocupadas(tabla) :
          [id |-> p.id_mensaje, cola |-> p.id_cola, size |-> p.data_size] \in cola
    /\ \A m \in cola : \E p \in Ocupadas(tabla) :
          m = [id |-> p.id_mensaje, cola |-> p.id_cola, size |-> p.data_size]

Intactos(tabla, repo) ==
    \A p \in Ocupadas(tabla) :
        \A a \in p.dir_base .. p.dir_base + p.data_size - 1 : repo[a] = p.id_mensaje

\* Everything that holds of the table at any moment, with the bytes, the messages
\* and the next id.
TablaOK(tabla, repo, cola, cnt) ==
    /\ tabla \subseteq Particion
    /\ IsFiniteSet(tabla)
    /\ Geometria(tabla)
    /\ IdsPropios(tabla)
    /\ \A p \in tabla : p.id_mensaje < cnt
    /\ repo \in [Direcciones -> Nat]
    /\ Intactos(tabla, repo)
    /\ cola \subseteq Mensaje
    /\ Guardados(tabla, cola)

\* While a compaction slides the partitions, those below barrido leave no gap.
Arrastre ==
    /\ barrido <= TamanoMemoria
    /\ \A p \in partition_table : p.presencia
    /\ \A p \in partition_table : p.dir_base < barrido => p.dir_heap < barrido
    /\ \A a \in Direcciones : a < barrido => \E p \in partition_table : a \in Bytes(p)

IInv ==
    /\ TypeOK
    /\ TablaOK(partition_table, partition_repo, mensajes_cola, g_msg_counter)
    /\ pc # "deslizar" => Cobertura(partition_table)
    /\ pc = "deslizar" => Arrastre
    /\ pc # "libre" => msg \in Mensaje /\ msg.id = g_msg_counter

(***************************************************************************)
(* Lemmas about partitions                                                 *)
(***************************************************************************)

\* The fields of a partition: the addresses are numbers within the memory.
LEMMA Campos ==
    ASSUME NEW p \in Particion
    PROVE  /\ p.dir_base \in Nat /\ p.dir_base <= TamanoMemoria
           /\ p.dir_heap \in Nat /\ p.dir_heap < TamanoMemoria
           /\ p.data_size \in Nat
           /\ p.presencia \in BOOLEAN
           /\ p.id_mensaje \in Nat
           /\ p.orden_fifo \in Nat
           /\ p.last_used \in Nat
           /\ p.id_cola \in Colas \cup {SinCola}
           /\ tamano_particion_dinamica(p) \in Int
           /\ tamano_particion_dinamica(p) = p.dir_heap - p.dir_base + 1
  BY ConfigAssumption DEF Particion, Direcciones, tamano_particion_dinamica

\* A message needs at least its size.
LEMMA EspacioAlcanza ==
    ASSUME NEW n \in Nat \ {0}
    PROVE  /\ Espacio(n) \in Nat \ {0}
           /\ Espacio(n) >= n
  BY ConfigAssumption DEF Espacio, Mayor

\* consolidar_particion_dinamica on a free partition: the table stays as valid as
\* it was, and the partition it returns is free and no smaller.
LEMMA ConsolidarOK ==
    ASSUME NEW tabla, NEW repo, NEW cola, NEW cnt,
           TablaOK(tabla, repo, cola, cnt), Cobertura(tabla),
           NEW p \in tabla, ~p.presencia
    PROVE  LET c == consolidar_particion_dinamica(tabla, p)
           IN  /\ TablaOK(c.tabla, repo, cola, cnt)
               /\ Cobertura(c.tabla)
               /\ c.part \in c.tabla
               /\ ~c.part.presencia
               /\ tamano_particion_dinamica(c.part) >= tamano_particion_dinamica(p)
<1>p. p \in Particion
  BY DEF TablaOK
<1> DEFINE c == consolidar_particion_dinamica(tabla, p)
<1>1. CASE ParesConsolidables(tabla, p) = {}
  <2>1. c.tabla = tabla /\ c.part = p
    BY <1>1 DEF consolidar_particion_dinamica
  <2> QED
    BY <1>p, <2>1, Campos
<1>2. CASE ParesConsolidables(tabla, p) # {}
  <2> DEFINE par == CHOOSE x \in ParesConsolidables(tabla, p) : TRUE
             a == par[1]
             b == par[2]
             f == Fusion(a, b)
  <2>1. par \in ParesConsolidables(tabla, p)
    BY <1>2
  <2>2. c = [tabla |-> (tabla \ {a, b}) \cup {f}, part |-> f]
    BY <1>2 DEF consolidar_particion_dinamica
  <2> HIDE DEF c, par
  <2>3. /\ a \in tabla /\ ~a.presencia /\ a \in Particion
        /\ b \in tabla /\ ~b.presencia /\ b \in Particion
        /\ a.dir_base < b.dir_base
        /\ \A r \in tabla : r.dir_base <= a.dir_base \/ r.dir_base >= b.dir_base
        /\ p \in {a, b}
    BY <2>1 DEF ParesConsolidables, Libres, EsAnterior, TablaOK
  <2> HIDE DEF a, b
  <2>4. /\ c.tabla = (tabla \ {a, b}) \cup {f}
        /\ c.part = f
        /\ f = [a EXCEPT !.dir_heap = b.dir_heap, !.id_mensaje = b.id_mensaje,
                         !.orden_fifo = b.orden_fifo, !.last_used = b.last_used]
    BY <2>2 DEF Fusion
  <2> HIDE DEF f
  <2>5. /\ f \in Particion
        /\ f.dir_base = a.dir_base /\ f.dir_heap = b.dir_heap /\ ~f.presencia
        /\ f.id_mensaje = b.id_mensaje
    BY <2>3, <2>4 DEF Particion
  <2>6. /\ a.dir_heap < b.dir_base /\ a.dir_base <= a.dir_heap
        /\ a.dir_base <= b.dir_heap /\ b.dir_base <= b.dir_heap + 1
    <3>1. /\ a # b
          /\ a.dir_base <= a.dir_heap \/ a.dir_base = TamanoMemoria
          /\ \/ b.dir_base <= b.dir_heap
             \/ b.dir_base = TamanoMemoria /\ b.dir_heap = TamanoMemoria - 1
          /\ a.dir_heap < b.dir_base \/ b.dir_heap < a.dir_base
      BY <2>3, Campos DEF TablaOK, Geometria
    <3> QED
      BY <2>3, <3>1, Campos
  <2>7. Geometria(c.tabla)
    <3>1. \A q \in tabla \ {a, b} :
             /\ q.dir_base # f.dir_base
             /\ q.dir_heap < f.dir_base \/ f.dir_heap < q.dir_base
      <4> SUFFICES ASSUME NEW q \in tabla \ {a, b}
                   PROVE  /\ q.dir_base # f.dir_base
                          /\ q.dir_heap < f.dir_base \/ f.dir_heap < q.dir_base
        OBVIOUS
      <4>1. q \in Particion
        BY DEF TablaOK
      <4>2. /\ q.dir_base # a.dir_base /\ q.dir_base # b.dir_base
            /\ q.dir_heap < a.dir_base \/ a.dir_heap < q.dir_base
            /\ q.dir_heap < b.dir_base \/ b.dir_heap < q.dir_base
            /\ q.dir_base <= q.dir_heap \/ q.dir_base = TamanoMemoria
        BY <2>3 DEF TablaOK, Geometria
      <4>3. q.dir_base <= a.dir_base \/ q.dir_base >= b.dir_base
        BY <2>3
      <4> QED
        BY <2>3, <2>5, <2>6, <4>1, <4>2, <4>3, Campos
    <3> QED
      BY <2>3, <2>4, <2>5, <2>6, <3>1 DEF TablaOK, Geometria
  <2>8. Ocupadas(c.tabla) = Ocupadas(tabla)
    BY <2>3, <2>4, <2>5 DEF Ocupadas
  <2>9. IdsPropios(c.tabla)
    <3>1. \A q \in tabla : q.presencia => q.id_mensaje # b.id_mensaje
      BY <2>3 DEF TablaOK, IdsPropios
    <3> QED
      BY <2>4, <2>5, <3>1 DEF TablaOK, IdsPropios
  <2>10. Cobertura(c.tabla)
    <3> SUFFICES ASSUME NEW x \in Direcciones
                 PROVE  \E q \in c.tabla : x \in Bytes(q)
      BY DEF Cobertura
    <3>1. PICK q \in tabla : x \in Bytes(q)
      BY DEF Cobertura
    <3>2. CASE q \in {a, b}
      <4>1. x \in Bytes(f)
        BY <2>3, <2>5, <2>6, <3>1, <3>2, Campos DEF Bytes
      <4> QED
        BY <2>4, <4>1
    <3> QED
      BY <2>4, <3>1, <3>2
  <2>11. IsFiniteSet(c.tabla)
    <3>1. IsFiniteSet(tabla \ {a, b})
      BY FS_Difference DEF TablaOK
    <3> QED
      BY <2>4, <3>1, FS_AddElement
  <2>12. TablaOK(c.tabla, repo, cola, cnt)
    BY <2>3, <2>4, <2>5, <2>7, <2>8, <2>9, <2>11 DEF TablaOK, Intactos, Guardados
  <2>13. tamano_particion_dinamica(f) >= tamano_particion_dinamica(p)
    BY <2>3, <2>5, <2>6, Campos
  <2> QED
    BY <2>4, <2>5, <2>10, <2>12, <2>13 DEF c
<1> QED
  BY <1>1, <1>2

\* Two partitions of a valid table share no byte.
LEMMA Disjuntas ==
    ASSUME NEW tabla, tabla \subseteq Particion, Geometria(tabla),
           NEW p \in tabla, NEW q \in tabla, p # q
    PROVE  \A a \in Bytes(p) : a \notin Bytes(q)
  BY Campos DEF Geometria, Bytes

\* The data of an occupied partition lies within it.
LEMMA DatosDentro ==
    ASSUME NEW tabla, tabla \subseteq Particion, Geometria(tabla),
           NEW p \in Ocupadas(tabla)
    PROVE  p.dir_base .. p.dir_base + p.data_size - 1 \subseteq Bytes(p) \cap Direcciones
<1>1. p \in Particion /\ p.data_size <= tamano_particion_dinamica(p)
  BY DEF Ocupadas, Geometria
<1> QED
  BY <1>1, Campos, ConfigAssumption DEF Bytes, Direcciones

\* The queue without the message of p.
SinMensajeDe(cola, p) == {m \in cola : m.id # p.id_mensaje \/ m.cola # p.id_cola}

\* Evicting an occupied partition, with its message and its bytes, keeps the table
\* valid: no other message is touched.
LEMMA DesalojarOK ==
    ASSUME NEW tabla, NEW repo, NEW cola, NEW cnt,
           TablaOK(tabla, repo, cola, cnt), Cobertura(tabla),
           NEW p \in tabla, p.presencia
    PROVE  LET t == (tabla \ {p}) \cup {Desalojada(p)}
           IN  /\ TablaOK(t, Limpiar(repo, p), SinMensajeDe(cola, p), cnt)
               /\ Cobertura(t)
               /\ Desalojada(p) \in t
               /\ ~Desalojada(p).presencia
<1> DEFINE q == Desalojada(p)
           t == (tabla \ {p}) \cup {q}
<1>1. p \in Particion
  BY DEF TablaOK
<1>2. /\ q \in Particion
      /\ q.dir_base = p.dir_base /\ q.dir_heap = p.dir_heap
      /\ q.id_mensaje = p.id_mensaje /\ q.presencia = FALSE
  BY <1>1, Campos DEF Desalojada, Particion
<1> HIDE DEF q
<1>3. t \subseteq Particion /\ \A r \in t : r.id_mensaje < cnt
  BY <1>2 DEF TablaOK
<1>4. IsFiniteSet(t)
  BY FS_RemoveElement, FS_AddElement DEF TablaOK
<1>5. Geometria(t)
  <2>1. p.dir_base <= p.dir_heap
    BY DEF TablaOK, Geometria
  <2> QED
    BY <1>1, <1>2, <2>1 DEF TablaOK, Geometria
<1>6. Ocupadas(t) = Ocupadas(tabla) \ {p}
  BY <1>2 DEF Ocupadas
<1>7. \A r \in Ocupadas(t) : r \in tabla /\ r # p /\ r.id_mensaje # p.id_mensaje
  BY <1>6 DEF Ocupadas, TablaOK, IdsPropios
<1>8. IdsPropios(t)
  BY <1>2, <1>7 DEF Ocupadas, TablaOK, IdsPropios
<1>9. Limpiar(repo, p) \in [Direcciones -> Nat]
  BY DEF Limpiar, TablaOK
<1>10. Intactos(t, Limpiar(repo, p))
  <2> SUFFICES ASSUME NEW r \in Ocupadas(t),
                      NEW a \in r.dir_base .. r.dir_base + r.data_size - 1
               PROVE  Limpiar(repo, p)[a] = r.id_mensaje
    BY DEF Intactos
  <2>1. a \in Bytes(r) /\ a \in Direcciones
    BY <1>3, <1>5, DatosDentro
  <2>2. a \notin Bytes(p)
    BY <1>7, <2>1, Disjuntas DEF TablaOK
  <2>3. repo[a] = r.id_mensaje
    BY <1>6 DEF TablaOK, Intactos
  <2> QED
    BY <2>1, <2>2, <2>3 DEF Limpiar
<1>11. SinMensajeDe(cola, p) \subseteq Mensaje
  BY DEF SinMensajeDe, TablaOK
<1>12. Guardados(t, SinMensajeDe(cola, p))
  <2>1. \A r \in Ocupadas(t) :
           [id |-> r.id_mensaje, cola |-> r.id_cola, size |-> r.data_size]
              \in SinMensajeDe(cola, p)
    BY <1>6, <1>7 DEF TablaOK, Guardados, SinMensajeDe
  <2>2. ASSUME NEW m \in SinMensajeDe(cola, p)
        PROVE  \E r \in Ocupadas(t) :
                  m = [id |-> r.id_mensaje, cola |-> r.id_cola, size |-> r.data_size]
    <3>1. PICK r \in Ocupadas(tabla) :
              m = [id |-> r.id_mensaje, cola |-> r.id_cola, size |-> r.data_size]
      BY DEF TablaOK, Guardados, SinMensajeDe
    <3>2. r # p
      BY <3>1 DEF SinMensajeDe
    <3> QED
      BY <1>6, <3>1, <3>2
  <2> QED
    BY <2>1, <2>2 DEF Guardados
<1>13. Cobertura(t)
  <2> SUFFICES ASSUME NEW a \in Direcciones PROVE \E r \in t : a \in Bytes(r)
    BY DEF Cobertura
  <2>1. PICK r \in tabla : a \in Bytes(r)
    BY DEF Cobertura
  <2>2. CASE r = p
    BY <1>2, <2>1, <2>2 DEF Bytes
  <2> QED
    BY <2>1, <2>2
<1>14. TablaOK(t, Limpiar(repo, p), SinMensajeDe(cola, p), cnt)
  BY <1>3, <1>4, <1>5, <1>8, <1>9, <1>10, <1>11, <1>12 DEF TablaOK
<1> QED
  BY <1>2, <1>13, <1>14 DEF q

\* One turn of the replacement loop keeps the table valid and obtains a free
\* partition.
LEMMA TurnoOK ==
    ASSUME TypeOK,
           TablaOK(partition_table, partition_repo, mensajes_cola, g_msg_counter),
           Cobertura(partition_table), NEW p \in partition_table
    PROVE  /\ TablaOK(Turno(p).tabla, Turno(p).repo, Turno(p).cola, g_msg_counter)
           /\ Cobertura(Turno(p).tabla)
           /\ Turno(p).part \in Turno(p).tabla
           /\ ~Turno(p).part.presencia
           /\ Turno(p).usado \in Int
           /\ Turno(p).lazo \in Lazo
<1>1. p \in Particion /\ tamano_particion_dinamica(p) \in Int
  BY Campos DEF TablaOK
<1>2. /\ lazo.idx \in Nat /\ lazo.cont_consolidar \in Nat
      /\ lazo.contador_reemplazos \in Nat /\ used_space \in Int
  BY DEF TypeOK, Lazo
<1>3. Turno(p).usado \in Int /\ Turno(p).lazo \in Lazo
  BY <1>1, <1>2 DEF Turno, EspacioTrasDesalojar, Lazo
<1>4. CASE p.presencia
  <2> DEFINE t == (partition_table \ {p}) \cup {Desalojada(p)}
             c == consolidar_particion_dinamica(t, Desalojada(p))
  <2>1. /\ TablaOK(t, Limpiar(partition_repo, p), SinMensajeDe(mensajes_cola, p), g_msg_counter)
        /\ Cobertura(t) /\ Desalojada(p) \in t /\ ~Desalojada(p).presencia
    BY <1>4, DesalojarOK
  <2>2. /\ TablaOK(c.tabla, Limpiar(partition_repo, p), SinMensajeDe(mensajes_cola, p), g_msg_counter)
        /\ Cobertura(c.tabla) /\ c.part \in c.tabla /\ ~c.part.presencia
    <3> HIDE DEF t
    <3> QED BY <2>1, ConsolidarOK
  <2>3. /\ Turno(p).tabla = c.tabla /\ Turno(p).part = c.part
        /\ Turno(p).repo = Limpiar(partition_repo, p)
        /\ Turno(p).cola = SinMensajeDe(mensajes_cola, p)
    BY <1>4 DEF Turno, SinMensajeDe
  <2> QED
    BY <1>3, <2>2, <2>3
<1>5. CASE ~p.presencia
  <2> DEFINE c == consolidar_particion_dinamica(partition_table, p)
  <2>1. /\ TablaOK(c.tabla, partition_repo, mensajes_cola, g_msg_counter)
        /\ Cobertura(c.tabla) /\ c.part \in c.tabla /\ ~c.part.presencia
    BY <1>5, ConsolidarOK
  <2>2. (partition_table \ {p}) \cup {p} = partition_table
    OBVIOUS
  <2>3. /\ Turno(p).tabla = c.tabla /\ Turno(p).part = c.part
        /\ Turno(p).repo = partition_repo
        /\ Turno(p).cola = mensajes_cola
    BY <1>5, <2>2 DEF Turno
  <2> QED
    BY <1>3, <2>1, <2>3
<1> QED
  BY <1>1, <1>4, <1>5

\* Storing message m in a free partition large enough keeps the table valid, split
\* or not, and makes the next id greater than every id in use.
LEMMA GuardarOK ==
    ASSUME NEW tabla, NEW part \in tabla, NEW m \in Mensaje, NEW usado \in Int,
           NEW repo, NEW cola,
           TablaOK(tabla, repo, cola, m.id), Cobertura(tabla), ~part.presencia,
           tamano_particion_dinamica(part) >= m.size,
           cnt_order_fifo \in Nat, cnt_order_lru \in Nat,
           Guardar(tabla, part, m, usado, repo, cola)
    PROVE  /\ TablaOK(partition_table', partition_repo', mensajes_cola', g_msg_counter')
           /\ Cobertura(partition_table')
           /\ used_space' \in Int
           /\ cnt_order_fifo' \in Nat /\ cnt_order_lru' \in Nat
           /\ g_msg_counter' \in Nat \ {0}
           /\ pc' = "libre"
<1> DEFINE n == Espacio(m.size)
           original == tamano_particion_dinamica(part)
           parte == original > n
           heap == IF parte THEN part.dir_base + n - 1 ELSE part.dir_heap
           nueva == [part EXCEPT
                       !.id_mensaje = m.id,
                       !.id_cola    = m.cola,
                       !.data_size  = m.size,
                       !.orden_fifo = cnt_order_fifo,
                       !.last_used  = cnt_order_lru,
                       !.presencia  = TRUE,
                       !.dir_heap   = IF parte THEN part.dir_base + n - 1 ELSE @]
           resto == generar_particion_dinamica_libre(nueva.dir_heap + 1,
                        original - n, cnt_order_fifo + 1, cnt_order_lru + 1)
           resta == IF parte THEN {resto} ELSE {}
           t == (tabla \ {part}) \cup {nueva} \cup resta
<1>1. /\ m.id \in Nat \ {0} /\ m.cola \in Colas /\ m.size \in Nat \ {0}
      /\ n \in Nat \ {0} /\ n >= m.size
  BY EspacioAlcanza DEF Mensaje
<1>2. /\ part \in Particion
      /\ original \in Int /\ original = part.dir_heap - part.dir_base + 1
      /\ part.dir_base \in Nat /\ part.dir_heap \in Nat
      /\ part.dir_base <= part.dir_heap
      /\ part.dir_heap < TamanoMemoria
  BY <1>1, Campos DEF TablaOK
<1>3. /\ heap \in Nat /\ heap <= part.dir_heap
      /\ heap >= part.dir_base + m.size - 1
      /\ heap >= part.dir_base
  BY <1>1, <1>2
<1>4. /\ partition_table' = t
      /\ partition_repo' = [a \in Direcciones |->
            IF a \in nueva.dir_base .. nueva.dir_base + m.size - 1 THEN m.id
            ELSE IF a \in Bytes(nueva) THEN 0 ELSE repo[a]]
      /\ mensajes_cola' = cola \cup {m}
      /\ g_msg_counter' = m.id + 1
      /\ used_space' = usado + tamano_particion_dinamica(nueva)
      /\ cnt_order_fifo' \in Nat /\ cnt_order_lru' \in Nat
      /\ pc' = "libre"
  <2> DEFINE mas == IF parte THEN 2 ELSE 1
  <2>1. /\ partition_table' = t
        /\ partition_repo' = [a \in Direcciones |->
              IF a \in nueva.dir_base .. nueva.dir_base + m.size - 1 THEN m.id
              ELSE IF a \in Bytes(nueva) THEN 0 ELSE repo[a]]
        /\ mensajes_cola' = cola \cup {m}
        /\ g_msg_counter' = m.id + 1
        /\ used_space' = usado + tamano_particion_dinamica(nueva)
        /\ pc' = "libre"
    BY DEF Guardar
  <2>2. cnt_order_fifo' = cnt_order_fifo + mas /\ cnt_order_lru' = cnt_order_lru + mas
    BY DEF Guardar
  <2>3. mas \in Nat
    OBVIOUS
  <2> HIDE DEF mas
  <2> QED
    BY <2>1, <2>2, <2>3
<1>5. /\ nueva \in Particion
      /\ nueva.dir_base = part.dir_base /\ nueva.dir_heap = heap
      /\ nueva.presencia = TRUE /\ nueva.id_mensaje = m.id
      /\ nueva.data_size = m.size /\ nueva.id_cola = m.cola
  <2> HIDE DEF n, original, parte
  <2>1. nueva = [part EXCEPT !.id_mensaje = m.id, !.id_cola = m.cola,
                             !.data_size = m.size, !.orden_fifo = cnt_order_fifo,
                             !.last_used = cnt_order_lru, !.presencia = TRUE,
                             !.dir_heap = heap]
    BY <1>2
  <2>2. heap \in Direcciones
    BY <1>2, <1>3, ConfigAssumption DEF Direcciones
  <2> HIDE DEF heap, nueva
  <2>3. nueva \in Particion
    BY <1>1, <1>2, <2>1, <2>2 DEF Particion
  <2> QED
    BY <1>2, <2>1, <2>3 DEF Particion
<1>6. parte => /\ heap + 1 <= part.dir_heap
               /\ resto \in Particion
               /\ resto.dir_base = heap + 1 /\ resto.dir_heap = part.dir_heap
               /\ resto.presencia = FALSE /\ resto.id_mensaje = 0
  <2> HIDE DEF n, nueva
  <2> SUFFICES ASSUME parte
               PROVE  /\ heap + 1 <= part.dir_heap
                      /\ resto \in Particion
                      /\ resto.dir_base = heap + 1 /\ resto.dir_heap = part.dir_heap
                      /\ resto.presencia = FALSE /\ resto.id_mensaje = 0
    OBVIOUS
  <2>1. heap = part.dir_base + n - 1 /\ heap + 1 <= part.dir_heap
    BY <1>1, <1>2
  <2>2. resto = [dir_base |-> heap + 1, dir_heap |-> part.dir_heap, data_size |-> 0,
                 presencia |-> FALSE, id_mensaje |-> 0, id_cola |-> SinCola,
                 orden_fifo |-> cnt_order_fifo + 1, last_used |-> cnt_order_lru + 1]
    <3>1. (nueva.dir_heap + 1) + (original - n) - 1 = part.dir_heap
      BY <1>1, <1>2, <1>5, <2>1
    <3> QED
      BY <1>5, <3>1 DEF generar_particion_dinamica_libre
  <2> HIDE DEF heap, resto
  <2> QED
    BY <1>2, <1>3, <2>1, <2>2, ConfigAssumption DEF Particion, Direcciones
<1> HIDE DEF n, original, parte, heap, nueva, resto
<1>7. /\ tabla \subseteq Particion /\ IsFiniteSet(tabla) /\ Geometria(tabla)
      /\ IdsPropios(tabla) /\ Intactos(tabla, repo) /\ Guardados(tabla, cola)
      /\ \A p \in tabla : p.id_mensaje \in Nat /\ p.id_mensaje < m.id
  BY Campos DEF TablaOK
<1>8. t \subseteq Particion
  BY <1>5, <1>6, <1>7
<1>9. IsFiniteSet(t)
  <2>1. IsFiniteSet((tabla \ {part}) \cup {nueva})
    BY <1>7, FS_RemoveElement, FS_AddElement
  <2>2. IsFiniteSet(resta)
    BY FS_EmptySet, FS_Singleton
  <2> QED
    BY <2>1, <2>2, FS_Union
<1>10. \A p \in t : \/ p \in tabla /\ p # part
                    \/ p = nueva
                    \/ p = resto /\ parte
  OBVIOUS
<1>11. \A p \in tabla : p # part =>
          /\ p.dir_base # part.dir_base
          /\ p.dir_heap < part.dir_base \/ part.dir_heap < p.dir_base
  BY <1>7 DEF Geometria
<1>12. Geometria(t)
  <2>1. \A p \in t : /\ \/ p.dir_base <= p.dir_heap
                        \/ /\ p.dir_base = TamanoMemoria /\ p.dir_heap = TamanoMemoria - 1
                           /\ ~p.presencia
                     /\ p.presencia => p.data_size <= tamano_particion_dinamica(p)
    <3>1. /\ nueva.dir_base <= nueva.dir_heap
          /\ nueva.data_size <= tamano_particion_dinamica(nueva)
      BY <1>1, <1>2, <1>3, <1>5 DEF tamano_particion_dinamica
    <3>2. parte => resto.dir_base <= resto.dir_heap /\ ~resto.presencia
      BY <1>6
    <3> QED
      BY <1>7, <1>10, <3>1, <3>2 DEF Geometria
  <2>2. \A p \in tabla : p # part =>
           /\ p.dir_base # nueva.dir_base
           /\ p.dir_heap < nueva.dir_base \/ nueva.dir_heap < p.dir_base
    BY <1>2, <1>3, <1>5, <1>7, <1>11, Campos
  <2>3. parte => \A p \in tabla : p # part =>
           /\ p.dir_base # resto.dir_base
           /\ p.dir_heap < resto.dir_base \/ resto.dir_heap < p.dir_base
    <3> SUFFICES ASSUME parte, NEW p \in tabla, p # part
                 PROVE  /\ p.dir_base # resto.dir_base
                        /\ p.dir_heap < resto.dir_base \/ resto.dir_heap < p.dir_base
      OBVIOUS
    <3>1. /\ p.dir_base \in Nat /\ p.dir_heap \in Nat
          /\ p.dir_base <= p.dir_heap \/ p.dir_base = TamanoMemoria
      BY <1>7, Campos DEF Geometria
    <3> QED
      BY <1>2, <1>3, <1>6, <1>11, <3>1, ConfigAssumption
  <2>4. parte => nueva.dir_base # resto.dir_base /\ nueva.dir_heap < resto.dir_base
    BY <1>2, <1>3, <1>5, <1>6
  <2> QED
    BY <1>7, <1>10, <2>1, <2>2, <2>3, <2>4 DEF Geometria
<1>13. \A p \in Ocupadas(tabla) :
           p \in tabla /\ p # part /\ p.id_mensaje # 0 /\ p.id_mensaje # m.id
  <2> SUFFICES ASSUME NEW p \in Ocupadas(tabla)
               PROVE  p \in tabla /\ p # part /\ p.id_mensaje # 0 /\ p.id_mensaje # m.id
    OBVIOUS
  <2>1. p \in tabla /\ p # part
    BY DEF Ocupadas
  <2>2. [id |-> p.id_mensaje, cola |-> p.id_cola, size |-> p.data_size] \in Mensaje
    BY <1>7 DEF Guardados, TablaOK
  <2>3. p.id_mensaje # 0
    BY <2>2 DEF Mensaje
  <2> QED
    BY <1>1, <1>7, <2>1, <2>3
<1>14. Ocupadas(t) = Ocupadas(tabla) \cup {nueva}
  BY <1>5, <1>6, <1>10, <1>13 DEF Ocupadas
<1>15. IdsPropios(t)
  <2>1. \A p \in tabla : p.id_mensaje # m.id
    BY <1>1, <1>7
  <2>2. ASSUME NEW p \in t, NEW q \in t, q.presencia, p.id_mensaje = q.id_mensaje
        PROVE  p = q
    <3>1. q \in Ocupadas(tabla) \/ q = nueva
      BY <1>14, <2>2 DEF Ocupadas
    <3>2. CASE q = nueva
      BY <1>1, <1>5, <1>6, <1>10, <2>1, <2>2, <3>2
    <3>3. CASE q \in Ocupadas(tabla)
      <4>1. p # nueva /\ (parte => p # resto)
        BY <1>5, <1>6, <1>13, <2>2, <3>3
      <4>2. p \in tabla
        BY <1>10, <4>1
      <4> QED
        BY <1>7, <2>2, <3>3, <4>2 DEF IdsPropios, Ocupadas
    <3> QED
      BY <3>1, <3>2, <3>3
  <2> QED
    BY <2>2 DEF IdsPropios
<1>16. \A p \in t : p.id_mensaje < m.id + 1
  BY <1>1, <1>5, <1>6, <1>7, <1>10
<1>17. partition_repo' \in [Direcciones -> Nat]
  BY <1>1, <1>4 DEF TablaOK
<1>18. Intactos(t, partition_repo')
  <2> SUFFICES ASSUME NEW p \in Ocupadas(t),
                      NEW a \in p.dir_base .. p.dir_base + p.data_size - 1
               PROVE  partition_repo'[a] = p.id_mensaje
    BY DEF Intactos
  <2>1. a \in Direcciones /\ a \in Bytes(p)
    BY <1>8, <1>12, DatosDentro
  <2>2. CASE p = nueva
    BY <1>4, <1>5, <2>1, <2>2
  <2>3. CASE p \in Ocupadas(tabla)
    <3>1. p \in t /\ nueva \in t /\ p # nueva
      BY <1>5, <1>13, <1>14, <2>3 DEF Ocupadas
    <3>2. a \notin Bytes(nueva)
      BY <1>8, <1>12, <2>1, <3>1, Disjuntas
    <3>3. a \notin nueva.dir_base .. nueva.dir_base + m.size - 1
      BY <1>1, <1>2, <1>3, <1>5, <3>2 DEF Bytes
    <3>4. repo[a] = p.id_mensaje
      BY <1>7, <2>3 DEF Intactos
    <3> QED
      BY <1>4, <2>1, <3>2, <3>3, <3>4
  <2> QED
    BY <1>14, <2>2, <2>3
<1>19. cola \cup {m} \subseteq Mensaje
  BY DEF TablaOK
<1>20. Guardados(t, cola \cup {m})
  <2>1. m = [id |-> nueva.id_mensaje, cola |-> nueva.id_cola, size |-> nueva.data_size]
    BY <1>5 DEF Mensaje
  <2> QED
    BY <1>7, <1>14, <2>1 DEF Guardados
<1>21. Cobertura(t)
  <2> SUFFICES ASSUME NEW a \in Direcciones PROVE \E p \in t : a \in Bytes(p)
    BY DEF Cobertura
  <2>1. PICK p \in tabla : a \in Bytes(p)
    BY DEF Cobertura
  <2>2. CASE p = part
    <3>1. a \in Int /\ part.dir_base <= a /\ a <= part.dir_heap
      BY <1>2, <2>1, <2>2 DEF Bytes
    <3>2. CASE a <= heap
      BY <1>2, <1>3, <1>5, <3>1, <3>2 DEF Bytes
    <3>3. CASE ~(a <= heap)
      <4>1. heap # part.dir_heap
        BY <1>3, <3>1, <3>3
      <4>2. parte
        BY <4>1 DEF heap
      <4>3. a \in Bytes(resto)
        BY <1>2, <1>3, <1>6, <3>1, <3>3, <4>2 DEF Bytes
      <4> QED
        BY <4>2, <4>3
    <3> QED
      BY <3>2, <3>3
  <2> QED
    BY <2>1, <2>2
<1>22. used_space' \in Int
  BY <1>4, <1>5, Campos
<1> HIDE DEF t
<1> QED
  BY <1>1, <1>4, <1>8, <1>9, <1>12, <1>15, <1>16, <1>17, <1>18, <1>19, <1>20, <1>21,
     <1>22 DEF TablaOK

(***************************************************************************)
(* Lemmas about a compaction                                               *)
(***************************************************************************)

\* Dropping the free partitions leaves a valid table, with nothing swept yet.
LEMMA ReorganizarOK ==
    ASSUME IInv, reorganizar_tabla_particiones
    PROVE  /\ TablaOK(partition_table', partition_repo', mensajes_cola', g_msg_counter')
           /\ Arrastre'
<1> DEFINE t == Ocupadas(partition_table)
<1>1. /\ partition_table' = t /\ barrido' = 0
      /\ partition_repo' = partition_repo /\ mensajes_cola' = mensajes_cola
      /\ g_msg_counter' = g_msg_counter
  BY DEF reorganizar_tabla_particiones
<1>2. t \subseteq partition_table /\ Ocupadas(t) = t /\ \A p \in t : p.presencia
  BY DEF Ocupadas
<1>3. IsFiniteSet(t)
  BY <1>2, FS_Subset DEF IInv, TablaOK
<1> HIDE DEF t
<1>4. Geometria(t) /\ IdsPropios(t) /\ \A p \in t : p.id_mensaje < g_msg_counter
  BY <1>2 DEF IInv, TablaOK, Geometria, IdsPropios
<1>5. Intactos(t, partition_repo) /\ Guardados(t, mensajes_cola)
  BY <1>2 DEF IInv, TablaOK, Intactos, Guardados, t
<1>6. TablaOK(t, partition_repo, mensajes_cola, g_msg_counter)
  BY <1>2, <1>3, <1>4, <1>5 DEF IInv, TablaOK
<1>7. Arrastre'
  <2>1. \A p \in t : p.dir_base \in Nat
    BY <1>6, Campos DEF TablaOK
  <2> QED
    BY <1>1, <1>2, <2>1, ConfigAssumption DEF Arrastre, Direcciones
<1> QED
  BY <1>1, <1>6, <1>7

\* One partition slides down to the first address not swept: it lands on none of
\* the others, its data arrive whole and nobody else's are damaged.
LEMMA DeslizarOK ==
    ASSUME IInv, NEW p \in partition_table, Deslizar(p)
    PROVE  /\ TablaOK(partition_table', partition_repo', mensajes_cola', g_msg_counter')
           /\ Arrastre'
           /\ barrido' \in Nat
<1> DEFINE movida == [p EXCEPT
              !.dir_base = barrido,
              !.dir_heap = barrido + tamano_particion_dinamica(p) - 1]
           t == (partition_table \ {p}) \cup {movida}
<1>1. /\ partition_table \subseteq Particion /\ IsFiniteSet(partition_table)
      /\ Geometria(partition_table) /\ IdsPropios(partition_table)
      /\ Intactos(partition_table, partition_repo)
      /\ Guardados(partition_table, mensajes_cola)
      /\ partition_repo \in [Direcciones -> Nat]
      /\ mensajes_cola \subseteq Mensaje
      /\ \A q \in partition_table : q.id_mensaje < g_msg_counter
      /\ barrido \in Nat
  BY DEF IInv, TablaOK, TypeOK
<1>2. Arrastre
  BY DEF IInv, Deslizar
<1>3. /\ p \in Particion /\ p.presencia
      /\ p.dir_base \in Nat /\ p.dir_heap \in Nat /\ p.data_size \in Nat
      /\ tamano_particion_dinamica(p) = p.dir_heap - p.dir_base + 1
      /\ p.dir_heap < TamanoMemoria
      /\ p.dir_base <= p.dir_heap
      /\ p.data_size <= tamano_particion_dinamica(p)
      /\ barrido <= p.dir_base
  BY <1>1, <1>2, Campos DEF Arrastre, Geometria, Deslizar
<1>4. /\ partition_table' = t
      /\ barrido' = movida.dir_heap + 1
      /\ partition_repo' = IF p.dir_base = barrido THEN partition_repo
                           ELSE Mover(partition_repo, p, barrido)
      /\ mensajes_cola' = mensajes_cola /\ g_msg_counter' = g_msg_counter
  BY DEF Deslizar
<1>5. /\ movida.dir_base = barrido
      /\ movida.dir_heap = barrido + tamano_particion_dinamica(p) - 1
      /\ movida.presencia = TRUE /\ movida.data_size = p.data_size
      /\ movida.id_mensaje = p.id_mensaje /\ movida.id_cola = p.id_cola
  BY <1>3 DEF Particion
<1>6. /\ movida.dir_heap \in Nat /\ movida.dir_heap <= p.dir_heap
      /\ barrido <= movida.dir_heap
      /\ tamano_particion_dinamica(movida) = tamano_particion_dinamica(p)
  BY <1>1, <1>3, <1>5 DEF tamano_particion_dinamica
<1>7. movida \in Particion
  <2>1. barrido \in Direcciones /\ movida.dir_heap \in Direcciones
    BY <1>1, <1>3, <1>6, ConfigAssumption DEF Direcciones
  <2> QED
    BY <1>3, <1>5, <2>1 DEF Particion
<1> HIDE DEF movida
<1>8. \A q \in partition_table \ {p} :
          /\ q.dir_base \in Nat /\ q.dir_heap \in Nat /\ q.presencia
          /\ q.dir_base <= q.dir_heap
          /\ \/ q.dir_base < barrido /\ q.dir_heap < barrido
             \/ p.dir_heap < q.dir_base
  <2> SUFFICES ASSUME NEW q \in partition_table \ {p}
               PROVE  /\ q.dir_base \in Nat /\ q.dir_heap \in Nat /\ q.presencia
                      /\ q.dir_base <= q.dir_heap
                      /\ \/ q.dir_base < barrido /\ q.dir_heap < barrido
                         \/ p.dir_heap < q.dir_base
    OBVIOUS
  <2>1. /\ q.dir_base \in Nat /\ q.dir_heap \in Nat /\ q.presencia
        /\ q.dir_base <= q.dir_heap
        /\ q.dir_base # p.dir_base
        /\ p.dir_heap < q.dir_base \/ q.dir_heap < p.dir_base
    BY <1>1, <1>2, Campos DEF Arrastre, Geometria
  <2>2. q.dir_base < barrido \/ p.dir_base <= q.dir_base
    BY DEF Deslizar
  <2>3. q.dir_base < barrido => q.dir_heap < barrido
    BY <1>2 DEF Arrastre
  <2> QED
    BY <1>3, <2>1, <2>2, <2>3
<1>9. \A q \in t : q = movida \/ q \in partition_table \ {p}
  OBVIOUS
<1>10. IsFiniteSet(t)
  BY <1>1, FS_RemoveElement, FS_AddElement
<1>11. Geometria(t)
  <2>1. \A q \in partition_table \ {p} :
            /\ q.dir_base # movida.dir_base
            /\ q.dir_heap < movida.dir_base \/ movida.dir_heap < q.dir_base
    BY <1>1, <1>3, <1>5, <1>6, <1>8
  <2> QED
    BY <1>1, <1>3, <1>5, <1>6, <1>9, <2>1 DEF Geometria
<1>12. IdsPropios(t)
  BY <1>1, <1>3, <1>5, <1>9 DEF IdsPropios
<1>13. Ocupadas(t) = t /\ Ocupadas(partition_table) = partition_table
  BY <1>3, <1>5, <1>8, <1>9 DEF Ocupadas
<1>14. Guardados(t, mensajes_cola)
  BY <1>1, <1>5, <1>9, <1>13 DEF Guardados
<1>15. /\ partition_repo' \in [Direcciones -> Nat]
       /\ \A a \in Direcciones : a < barrido \/ p.dir_heap < a =>
             partition_repo'[a] = partition_repo[a]
       /\ \A a \in barrido .. barrido + p.data_size - 1 :
             partition_repo'[a] = partition_repo[p.dir_base + (a - barrido)]
  <2>1. CASE p.dir_base = barrido
    BY <1>1, <1>3, <1>4, <2>1
  <2>2. CASE p.dir_base # barrido
    <3> DEFINE copiados == IF barrido = 0 THEN tamano_particion_dinamica(p) ELSE p.data_size
               limpios == IF barrido = 0 THEN barrido .. p.dir_base - 1
                                         ELSE barrido .. p.dir_heap
    <3>1. partition_repo' =
            [a \in Direcciones |->
              IF a \in barrido .. barrido + copiados - 1
              THEN partition_repo[p.dir_base + (a - barrido)]
              ELSE IF a \in limpios THEN 0 ELSE partition_repo[a]]
      BY <1>4, <2>2 DEF Mover
    <3>2. /\ copiados \in Nat /\ p.data_size <= copiados
          /\ copiados <= p.dir_heap - p.dir_base + 1
          /\ \A a \in limpios : a \in Int /\ barrido <= a /\ a <= p.dir_heap
      BY <1>1, <1>3
    <3> HIDE DEF copiados, limpios
    <3>3. \A a \in barrido .. barrido + copiados - 1 :
              /\ a \in Direcciones /\ p.dir_base + (a - barrido) \in Direcciones
              /\ barrido <= a /\ a <= p.dir_heap
      <4> SUFFICES ASSUME NEW a \in barrido .. barrido + copiados - 1
                   PROVE  /\ a \in Direcciones /\ p.dir_base + (a - barrido) \in Direcciones
                          /\ barrido <= a /\ a <= p.dir_heap
        OBVIOUS
      <4>1. /\ a \in Int /\ barrido <= a /\ a <= p.dir_heap
            /\ p.dir_base + (a - barrido) \in Int
            /\ p.dir_base + (a - barrido) >= 0
            /\ p.dir_base + (a - barrido) <= p.dir_heap
        BY <1>1, <1>3, <3>2
      <4> QED
        BY <1>1, <1>3, <4>1, ConfigAssumption DEF Direcciones
    <3>4. partition_repo' \in [Direcciones -> Nat]
      BY <1>1, <3>1, <3>3
    <3>5. \A a \in Direcciones : a < barrido \/ p.dir_heap < a =>
             partition_repo'[a] = partition_repo[a]
      BY <1>1, <1>3, <3>1, <3>2, <3>3 DEF Direcciones
    <3>6. \A a \in barrido .. barrido + p.data_size - 1 :
              a \in barrido .. barrido + copiados - 1
      BY <1>1, <1>3, <3>2
    <3> QED
      BY <3>1, <3>3, <3>4, <3>5, <3>6
  <2> QED
    BY <2>1, <2>2
<1>16. Intactos(t, partition_repo')
  <2> SUFFICES ASSUME NEW q \in t,
                      NEW a \in q.dir_base .. q.dir_base + q.data_size - 1
               PROVE  partition_repo'[a] = q.id_mensaje
    BY <1>13 DEF Intactos
  <2>1. CASE q = movida
    <3>1. a \in barrido .. barrido + p.data_size - 1
      BY <1>5, <2>1
    <3>2. p.dir_base + (a - barrido) \in p.dir_base .. p.dir_base + p.data_size - 1
      BY <1>1, <1>3, <3>1
    <3>3. partition_repo[p.dir_base + (a - barrido)] = p.id_mensaje
      BY <1>1, <1>13, <3>2 DEF Intactos
    <3> QED
      BY <1>5, <1>15, <2>1, <3>1, <3>3
  <2>2. CASE q \in partition_table \ {p}
    <3>1. a \in Bytes(q) /\ a \in Direcciones
      BY <1>1, <1>13, <2>2, DatosDentro
    <3>2. a < barrido \/ p.dir_heap < a
      BY <1>1, <1>3, <1>8, <2>2, <3>1 DEF Bytes
    <3>3. partition_repo[a] = q.id_mensaje
      BY <1>1, <1>13, <2>2 DEF Intactos
    <3> QED
      BY <1>15, <3>1, <3>2, <3>3
  <2> QED
    BY <1>9, <2>1, <2>2
<1>17. barrido' \in Nat /\ barrido' <= TamanoMemoria /\ barrido < barrido'
  BY <1>1, <1>3, <1>4, <1>6, ConfigAssumption
<1>18. \A q \in t : q.dir_base < barrido' => q.dir_heap < barrido'
  BY <1>1, <1>3, <1>4, <1>5, <1>6, <1>8, <1>9, <1>17
<1>19. \A a \in Direcciones : a < barrido' => \E q \in t : a \in Bytes(q)
  <2> SUFFICES ASSUME NEW a \in Direcciones, a < barrido'
               PROVE  \E q \in t : a \in Bytes(q)
    OBVIOUS
  <2>1. CASE a < barrido
    <3>1. PICK q \in partition_table : a \in Bytes(q)
      BY <1>2, <2>1 DEF Arrastre
    <3>2. q # p
      BY <1>1, <1>3, <2>1, <3>1 DEF Bytes, Direcciones
    <3> QED
      BY <3>1, <3>2
  <2>2. CASE ~(a < barrido)
    <3>1. a \in Bytes(movida)
      BY <1>1, <1>4, <1>5, <1>6, <2>2 DEF Bytes, Direcciones
    <3> QED
      BY <3>1
  <2> QED
    BY <2>1, <2>2
<1>20. Arrastre'
  BY <1>4, <1>5, <1>8, <1>9, <1>17, <1>18, <1>19 DEF Arrastre, Direcciones, Bytes
<1>21. TablaOK(t, partition_repo', mensajes_cola, g_msg_counter)
  BY <1>1, <1>3, <1>5, <1>7, <1>9, <1>10, <1>11, <1>12, <1>14, <1>15, <1>16 DEF TablaOK
<1> QED
  BY <1>4, <1>17, <1>20, <1>21

\* The free partition a compaction makes of the rest covers what was not swept.
LEMMA FinCompactarOK ==
    ASSUME IInv, FinCompactar
    PROVE  /\ TablaOK(partition_table', partition_repo', mensajes_cola', g_msg_counter')
           /\ Cobertura(partition_table')
<1> DEFINE libre == generar_particion_dinamica_libre(barrido, TamanoMemoria - barrido,
                                                     cnt_order_fifo, cnt_order_lru)
           t == partition_table \cup {libre}
<1>1. /\ partition_table \subseteq Particion /\ IsFiniteSet(partition_table)
      /\ Geometria(partition_table) /\ IdsPropios(partition_table)
      /\ Intactos(partition_table, partition_repo)
      /\ Guardados(partition_table, mensajes_cola)
      /\ partition_repo \in [Direcciones -> Nat]
      /\ mensajes_cola \subseteq Mensaje
      /\ \A q \in partition_table : q.id_mensaje < g_msg_counter
      /\ barrido \in Nat /\ cnt_order_fifo \in Nat /\ cnt_order_lru \in Nat
      /\ g_msg_counter \in Nat \ {0}
  BY DEF IInv, TablaOK, TypeOK
<1>2. Arrastre
  BY DEF IInv, FinCompactar
<1>3. /\ partition_table' = t /\ partition_repo' = partition_repo
      /\ mensajes_cola' = mensajes_cola /\ g_msg_counter' = g_msg_counter
  BY DEF FinCompactar
<1>4. \A q \in partition_table :
          /\ q.dir_base \in Nat /\ q.dir_heap \in Nat
          /\ q.dir_base < barrido /\ q.dir_heap < barrido
          /\ q.presencia /\ q.id_mensaje # 0
  <2> SUFFICES ASSUME NEW q \in partition_table
               PROVE  /\ q.dir_base \in Nat /\ q.dir_heap \in Nat
                      /\ q.dir_base < barrido /\ q.dir_heap < barrido
                      /\ q.presencia /\ q.id_mensaje # 0
    OBVIOUS
  <2>1. q.dir_base < barrido /\ q.dir_heap < barrido /\ q.presencia
    BY <1>2 DEF FinCompactar, Barrido, Arrastre
  <2>2. [id |-> q.id_mensaje, cola |-> q.id_cola, size |-> q.data_size] \in Mensaje
    BY <1>1, <2>1 DEF Guardados, Ocupadas
  <2> QED
    BY <1>1, <2>1, <2>2, Campos DEF Mensaje
<1>5. barrido <= TamanoMemoria /\ barrido + (TamanoMemoria - barrido) - 1 = TamanoMemoria - 1
  BY <1>1, <1>2, ConfigAssumption DEF Arrastre
<1>6. libre = [dir_base |-> barrido, dir_heap |-> TamanoMemoria - 1, data_size |-> 0,
               presencia |-> FALSE, id_mensaje |-> 0, id_cola |-> SinCola,
               orden_fifo |-> cnt_order_fifo, last_used |-> cnt_order_lru]
  BY <1>5 DEF generar_particion_dinamica_libre
<1> HIDE DEF libre
<1>7. libre \in Particion
  BY <1>1, <1>5, <1>6, ConfigAssumption DEF Particion, Direcciones
<1>8. IsFiniteSet(t)
  BY <1>1, FS_AddElement
<1>9. Geometria(t)
  <2>1. libre.dir_base <= libre.dir_heap \/ libre.dir_base = TamanoMemoria
    BY <1>1, <1>5, <1>6, ConfigAssumption
  <2>2. \A q \in partition_table :
            q.dir_base # libre.dir_base /\ q.dir_heap < libre.dir_base
    BY <1>1, <1>4, <1>6
  <2>3. libre.dir_heap = TamanoMemoria - 1 /\ libre.presencia = FALSE
    BY <1>6
  <2>4. \A q \in t : q = libre \/ q \in partition_table
    OBVIOUS
  <2> HIDE DEF t
  <2> QED
    BY <1>1, <2>1, <2>2, <2>3, <2>4 DEF Geometria
<1>10. Ocupadas(t) = Ocupadas(partition_table)
  BY <1>6 DEF Ocupadas
<1>11. IdsPropios(t)
  BY <1>1, <1>4, <1>6 DEF IdsPropios
<1>12. Cobertura(t)
  <2> SUFFICES ASSUME NEW a \in Direcciones PROVE \E q \in t : a \in Bytes(q)
    BY DEF Cobertura
  <2>1. CASE a < barrido
    BY <1>2, <2>1 DEF Arrastre
  <2>2. CASE ~(a < barrido)
    <3>1. a \in Bytes(libre)
      BY <1>1, <1>6, <2>2, ConfigAssumption DEF Bytes, Direcciones
    <3> QED
      BY <3>1
  <2> QED
    BY <2>1, <2>2
<1>13. Intactos(t, partition_repo) /\ Guardados(t, mensajes_cola)
  BY <1>1, <1>10 DEF Intactos, Guardados
<1>14. \A q \in t : q.id_mensaje < g_msg_counter
  BY <1>1, <1>6
<1> HIDE DEF t
<1>15. TablaOK(t, partition_repo, mensajes_cola, g_msg_counter)
  <2>1. t \subseteq Particion
    BY <1>1, <1>7 DEF t
  <2> QED
    BY <1>1, <1>8, <1>9, <1>11, <1>13, <1>14, <2>1 DEF TablaOK
<1> QED
  BY <1>3, <1>12, <1>15

(***************************************************************************)
(* A read                                                                  *)
(***************************************************************************)

\* A read stamps one partition and changes nothing else of the table.
LEMMA LeerOK ==
    ASSUME IInv, NEW m \in mensajes_cola, Leer(m)
    PROVE  /\ TablaOK(partition_table', partition_repo', mensajes_cola', g_msg_counter')
           /\ Cobertura(partition_table')
<1>1. /\ partition_table \subseteq Particion /\ IsFiniteSet(partition_table)
      /\ Geometria(partition_table) /\ IdsPropios(partition_table)
      /\ Intactos(partition_table, partition_repo)
      /\ Guardados(partition_table, mensajes_cola)
      /\ \A q \in partition_table : q.id_mensaje < g_msg_counter
      /\ Cobertura(partition_table)
      /\ cnt_order_lru \in Nat
  BY DEF IInv, TablaOK, TypeOK, Leer
<1>2. PICK p \in partition_table :
          partition_table' = (partition_table \ {p}) \cup
                             {[p EXCEPT !.last_used = cnt_order_lru]}
  BY DEF Leer
<1> DEFINE q == [p EXCEPT !.last_used = cnt_order_lru]
           t == (partition_table \ {p}) \cup {q}
<1>3. /\ partition_table' = t /\ partition_repo' = partition_repo
      /\ mensajes_cola' = mensajes_cola /\ g_msg_counter' = g_msg_counter
  BY <1>2 DEF Leer
<1>4. /\ q \in Particion /\ p \in Particion
      /\ q.dir_base = p.dir_base /\ q.dir_heap = p.dir_heap
      /\ q.presencia = p.presencia /\ q.id_mensaje = p.id_mensaje
      /\ q.data_size = p.data_size /\ q.id_cola = p.id_cola
  BY <1>1 DEF Particion
<1> HIDE DEF q
<1>5. IsFiniteSet(t)
  BY <1>1, FS_RemoveElement, FS_AddElement
<1>6. \A r \in t : r = q \/ r \in partition_table \ {p}
  OBVIOUS
<1>7. Geometria(t)
  BY <1>1, <1>4, <1>6 DEF Geometria, tamano_particion_dinamica
<1>8. IdsPropios(t)
  BY <1>1, <1>4, <1>6 DEF IdsPropios
<1>9. Intactos(t, partition_repo)
  BY <1>1, <1>4, <1>6 DEF Intactos, Ocupadas
<1>10. Guardados(t, mensajes_cola)
  <2>1. ASSUME NEW n \in mensajes_cola
        PROVE  \E r \in Ocupadas(t) :
                  n = [id |-> r.id_mensaje, cola |-> r.id_cola, size |-> r.data_size]
    <3>1. PICK r \in Ocupadas(partition_table) :
              n = [id |-> r.id_mensaje, cola |-> r.id_cola, size |-> r.data_size]
      BY <1>1 DEF Guardados
    <3>2. CASE r = p
      BY <1>4, <3>1, <3>2 DEF Ocupadas
    <3> QED
      BY <3>1, <3>2 DEF Ocupadas
  <2>2. \A r \in Ocupadas(t) :
            [id |-> r.id_mensaje, cola |-> r.id_cola, size |-> r.data_size] \in mensajes_cola
    BY <1>1, <1>4, <1>6 DEF Guardados, Ocupadas
  <2> QED
    BY <2>1, <2>2 DEF Guardados
<1>11. Cobertura(t)
  <2> SUFFICES ASSUME NEW a \in Direcciones PROVE \E r \in t : a \in Bytes(r)
    BY DEF Cobertura
  <2>1. PICK r \in partition_table : a \in Bytes(r)
    BY <1>1 DEF Cobertura
  <2>2. CASE r = p
    BY <1>4, <2>1, <2>2 DEF Bytes
  <2> QED
    BY <2>1, <2>2
<1>12. t \subseteq Particion /\ \A r \in t : r.id_mensaje < g_msg_counter
  BY <1>1, <1>4, <1>6
<1> HIDE DEF t
<1>13. TablaOK(t, partition_repo, mensajes_cola, g_msg_counter)
  BY <1>5, <1>7, <1>8, <1>9, <1>10, <1>12 DEF IInv, TablaOK
<1> QED
  BY <1>3, <1>11, <1>13

(***************************************************************************)
(* The invariant is inductive                                              *)
(***************************************************************************)

\* The index of the next victim is a number: there is always a partition left.
LEMMA SiguienteOK ==
    ASSUME TypeOK,
           TablaOK(partition_table, partition_repo, mensajes_cola, g_msg_counter),
           Cobertura(partition_table), NEW p \in partition_table
    PROVE  SiguienteVictima(p, Turno(p)) \in Lazo
<1> DEFINE t == Turno(p)
           cant == Cardinality(t.tabla)
           cont == t.lazo.cont_consolidar
<1>1. t.lazo \in Lazo /\ IsFiniteSet(t.tabla) /\ t.tabla # {}
  BY TurnoOK DEF TablaOK
<1>2. cant \in Nat \ {0}
  BY <1>1, FS_EmptySet, FS_CardinalityType
<1> DEFINE igual == tamano_particion_dinamica(p) = tamano_particion_dinamica(t.part)
           otro == IF cont < cant THEN cont ELSE cant - 1
<1>3. cont \in Nat /\ otro \in Nat
  BY <1>1, <1>2 DEF Lazo
<1>4. \/ SiguienteVictima(p, t) = [t.lazo EXCEPT !.idx = 1, !.cont_consolidar = 0]
      \/ SiguienteVictima(p, t) = [t.lazo EXCEPT !.idx = otro]
      \/ SiguienteVictima(p, t) = [t.lazo EXCEPT !.idx = 0]
  <2> HIDE DEF t
  <2>1. CASE p.presencia
    BY <2>1 DEF SiguienteVictima
  <2>2. CASE ~p.presencia /\ igual
    BY <2>2 DEF SiguienteVictima
  <2>3. CASE ~p.presencia /\ ~igual
    BY <2>3 DEF SiguienteVictima
  <2>4. p.presencia \in BOOLEAN
    BY Campos DEF TablaOK
  <2> QED
    BY <2>1, <2>2, <2>3, <2>4
<1> HIDE DEF t, otro
<1>5. [t.lazo EXCEPT !.idx = otro] \in Lazo
  BY <1>1, <1>3 DEF Lazo
<1>6. /\ [t.lazo EXCEPT !.idx = 1, !.cont_consolidar = 0] \in Lazo
      /\ [t.lazo EXCEPT !.idx = 0] \in Lazo
  BY <1>1 DEF Lazo
<1>7. SiguienteVictima(p, t) \in Lazo
  BY <1>4, <1>5, <1>6
<1> QED
  BY <1>7 DEF t

LEMMA LazoInicialOK == LazoInicial \in Lazo
  BY DEF LazoInicial, Lazo

\* The empty cache satisfies the invariant.
LEMMA Inicio ==
    ASSUME Init
    PROVE  IInv
<1> DEFINE p == generar_particion_dinamica_libre(0, TamanoMemoria, 1, 1)
<1>1. p = [dir_base |-> 0, dir_heap |-> TamanoMemoria - 1, data_size |-> 0,
           presencia |-> FALSE, id_mensaje |-> 0, id_cola |-> SinCola,
           orden_fifo |-> 1, last_used |-> 1]
  BY ConfigAssumption DEF generar_particion_dinamica_libre
<1>2. partition_table = {p}
  BY DEF Init
<1> HIDE DEF p
<1>3. p \in Particion
  BY <1>1, ConfigAssumption DEF Particion, Direcciones
<1>4. Geometria({p}) /\ Cobertura({p})
  BY <1>1, ConfigAssumption DEF Geometria, Cobertura, Bytes, Direcciones
<1>5. Ocupadas({p}) = {}
  BY <1>1 DEF Ocupadas
<1>6. TypeOK
  BY <1>2, <1>3, LazoInicialOK DEF Init, TypeOK
<1>7. TablaOK({p}, partition_repo, {}, 1)
  <2>1. IsFiniteSet({p})
    BY FS_Singleton
  <2>2. IdsPropios({p}) /\ Guardados({p}, {}) /\ Intactos({p}, partition_repo)
    BY <1>5 DEF IdsPropios, Guardados, Intactos
  <2>3. partition_repo \in [Direcciones -> Nat]
    BY DEF Init
  <2> QED
    BY <1>1, <1>3, <1>4, <2>1, <2>2, <2>3 DEF TablaOK
<1> QED
  BY <1>2, <1>4, <1>6, <1>7 DEF Init, IInv

\* The partition a publication stores in, the one found joined with the free one
\* before it, is of a table as valid as it was.
LEMMA ConAnteriorOK ==
    ASSUME IInv, NEW m \in Mensaje, Publicar(m), NEW p \in Primeras(Candidatas(m.size))
    PROVE  LET c == ConAnterior(partition_table, p)
           IN  /\ TablaOK(c.tabla, partition_repo, mensajes_cola, m.id)
               /\ Cobertura(c.tabla) /\ c.part \in c.tabla /\ ~c.part.presencia
               /\ tamano_particion_dinamica(c.part) >= m.size
<1> DEFINE c == ConAnterior(partition_table, p)
<1>1. /\ Cobertura(partition_table)
      /\ TablaOK(partition_table, partition_repo, mensajes_cola, m.id)
  BY DEF IInv, Publicar, Admisible
<1>2. p \in Candidatas(m.size)
  <2>1. \A x \in Primeras(Candidatas(m.size)) : x \in Candidatas(m.size)
    BY ConfigAssumption DEF Primeras
  <2> QED
    BY <2>1
<1>3. /\ p \in partition_table /\ ~p.presencia
      /\ p \in Particion
      /\ tamano_particion_dinamica(p) >= m.size
  <2>1. p \in partition_table /\ ~p.presencia /\ p \in Particion
    BY <1>1, <1>2 DEF Candidatas, Libres, TablaOK
  <2>2. tamano_particion_dinamica(p) >= Espacio(m.size)
    BY <1>2 DEF Candidatas
  <2>3. m.size \in Nat \ {0}
    BY DEF Mensaje
  <2> QED
    BY <2>1, <2>2, <2>3, Campos, EspacioAlcanza
<1>4. /\ TablaOK(c.tabla, partition_repo, mensajes_cola, m.id)
      /\ Cobertura(c.tabla) /\ c.part \in c.tabla /\ ~c.part.presencia
      /\ tamano_particion_dinamica(c.part) >= tamano_particion_dinamica(p)
  <2>1. CASE EsPrimera(partition_table, p)
    <3>1. c.tabla = partition_table /\ c.part = p
      BY <2>1 DEF ConAnterior
    <3> QED
      BY <1>1, <1>3, <3>1, Campos
  <2>2. CASE ~EsPrimera(partition_table, p)
    <3>1. c = consolidar_particion_dinamica(partition_table, p)
      BY <2>2 DEF ConAnterior
    <3> QED
      BY <1>1, <1>3, <3>1, ConsolidarOK
  <2> QED
    BY <2>1, <2>2
<1>5. tamano_particion_dinamica(c.part) >= m.size
  <2>1. c.part \in Particion /\ m.size \in Nat
    BY <1>4 DEF TablaOK, Mensaje
  <2> QED
    BY <1>3, <1>4, <2>1, Campos
<1> QED
  BY <1>4, <1>5

\* Every publication that is stored at once keeps the invariant.
LEMMA PublicarOK ==
    ASSUME IInv, NEW m \in Mensaje, Publicar(m)
    PROVE  IInv'
<1>1. PICK p \in Primeras(Candidatas(m.size)) :
          Guardar(ConAnterior(partition_table, p).tabla,
                  ConAnterior(partition_table, p).part,
                  m, used_space, partition_repo, mensajes_cola)
  BY DEF Publicar
<1> DEFINE c == ConAnterior(partition_table, p)
<1>2. /\ TypeOK /\ UNCHANGED <<msg, lazo, barrido, lecturas>>
  BY DEF IInv, Publicar
<1>3. /\ TablaOK(c.tabla, partition_repo, mensajes_cola, m.id)
      /\ Cobertura(c.tabla) /\ c.part \in c.tabla /\ ~c.part.presencia
      /\ tamano_particion_dinamica(c.part) >= m.size
  BY ConAnteriorOK
<1>4. Guardar(c.tabla, c.part, m, used_space, partition_repo, mensajes_cola)
  BY <1>1
<1> HIDE DEF c
<1>5. used_space \in Int /\ cnt_order_fifo \in Nat /\ cnt_order_lru \in Nat
  BY <1>2 DEF TypeOK
<1>6. /\ TablaOK(partition_table', partition_repo', mensajes_cola', g_msg_counter')
      /\ Cobertura(partition_table')
      /\ used_space' \in Int
      /\ cnt_order_fifo' \in Nat /\ cnt_order_lru' \in Nat
      /\ g_msg_counter' \in Nat \ {0}
      /\ pc' = "libre"
  BY <1>3, <1>4, <1>5, GuardarOK
<1>7. TypeOK'
  BY <1>2, <1>6 DEF TypeOK, TablaOK
<1> QED
  BY <1>6, <1>7 DEF IInv

\* The message leaves the replacement loop stored.
LEMMA ReemplazarYGuardarOK ==
    ASSUME IInv, NEW p \in partition_table, ReemplazarYGuardar(p)
    PROVE  IInv'
<1>1. /\ TypeOK /\ Cobertura(partition_table) /\ msg \in Mensaje
      /\ TablaOK(partition_table, partition_repo, mensajes_cola, msg.id)
      /\ msg.id = g_msg_counter
  BY DEF IInv, ReemplazarYGuardar
<1> DEFINE t == Turno(p)
<1>2. /\ TablaOK(t.tabla, t.repo, t.cola, msg.id)
      /\ Cobertura(t.tabla) /\ t.part \in t.tabla /\ ~t.part.presencia
      /\ t.usado \in Int
  BY <1>1, TurnoOK
<1>3. /\ Guardar(t.tabla, t.part, msg, t.usado, t.repo, t.cola)
      /\ tamano_particion_dinamica(t.part) >= msg.size
      /\ lazo' = LazoInicial /\ msg' = SinMensaje
      /\ UNCHANGED <<barrido, lecturas>>
  BY DEF ReemplazarYGuardar
<1> HIDE DEF t
<1>4. cnt_order_fifo \in Nat /\ cnt_order_lru \in Nat
  BY <1>1 DEF TypeOK
<1>5. /\ TablaOK(partition_table', partition_repo', mensajes_cola', g_msg_counter')
      /\ Cobertura(partition_table')
      /\ used_space' \in Int
      /\ cnt_order_fifo' \in Nat /\ cnt_order_lru' \in Nat
      /\ g_msg_counter' \in Nat \ {0}
      /\ pc' = "libre"
  BY <1>1, <1>2, <1>3, <1>4, GuardarOK
<1>6. TypeOK'
  BY <1>1, <1>3, <1>5, LazoInicialOK DEF TypeOK, TablaOK
<1> QED
  BY <1>5, <1>6 DEF IInv

\* The message is stored in the partition a compaction made.
LEMMA CompactadaYGuardarOK ==
    ASSUME IInv, NEW p \in partition_table, CompactadaYGuardar(p)
    PROVE  IInv'
<1>1. /\ TypeOK /\ Cobertura(partition_table) /\ msg \in Mensaje
      /\ TablaOK(partition_table, partition_repo, mensajes_cola, msg.id)
      /\ msg.id = g_msg_counter
  BY DEF IInv, CompactadaYGuardar
<1>2. /\ Guardar(partition_table, p, msg, used_space, partition_repo, mensajes_cola)
      /\ ~p.presencia /\ tamano_particion_dinamica(p) >= msg.size
      /\ lazo' = LazoInicial /\ msg' = SinMensaje
      /\ UNCHANGED <<barrido, lecturas>>
  BY DEF CompactadaYGuardar, EsUltimaLibre, Libres
<1>3. cnt_order_fifo \in Nat /\ cnt_order_lru \in Nat /\ used_space \in Int
  BY <1>1 DEF TypeOK
<1>4. /\ TablaOK(partition_table', partition_repo', mensajes_cola', g_msg_counter')
      /\ Cobertura(partition_table')
      /\ used_space' \in Int
      /\ cnt_order_fifo' \in Nat /\ cnt_order_lru' \in Nat
      /\ g_msg_counter' \in Nat \ {0}
      /\ pc' = "libre"
  BY <1>1, <1>2, <1>3, GuardarOK
<1>5. TypeOK'
  BY <1>1, <1>2, <1>4, LazoInicialOK DEF TypeOK, TablaOK
<1> QED
  BY <1>4, <1>5 DEF IInv

\* A turn of the loop that does not store the message.
LEMMA AplicarOK ==
    ASSUME IInv, NEW p \in partition_table, pc = "reemplazar",
           Aplicar(Turno(p)), lazo' \in Lazo,
           pc' \in {"reemplazar", "compactar", "abandonado"}
    PROVE  IInv'
<1>1. TypeOK /\ Cobertura(partition_table) /\ msg \in Mensaje /\ msg.id = g_msg_counter
  BY DEF IInv
<1> DEFINE t == Turno(p)
<1>2. /\ TablaOK(t.tabla, t.repo, t.cola, g_msg_counter)
      /\ Cobertura(t.tabla) /\ t.usado \in Int
  BY <1>1, TurnoOK DEF IInv
<1>3. /\ partition_table' = t.tabla /\ partition_repo' = t.repo
      /\ used_space' = t.usado /\ mensajes_cola' = t.cola
      /\ UNCHANGED <<cnt_order_fifo, cnt_order_lru, g_msg_counter, msg, barrido, lecturas>>
  BY DEF Aplicar
<1> HIDE DEF t
<1>4. TypeOK'
  BY <1>1, <1>2, <1>3 DEF TypeOK, TablaOK
<1> QED
  BY <1>1, <1>2, <1>3, <1>4 DEF IInv

\* Every step keeps the invariant.
LEMMA Paso ==
    ASSUME IInv, [Next]_vars
    PROVE  IInv'
<1>1. TypeOK
  BY DEF IInv
<1>2. ASSUME NEW cola \in Colas, NEW size \in Tamanos,
             NEW m, m = [id |-> g_msg_counter, cola |-> cola, size |-> size],
             Publicar(m) \/ PublicarSinLugar(m)
      PROVE  IInv'
  <2>1. m \in Mensaje /\ m.id = g_msg_counter
    BY <1>1, <1>2, ConfigAssumption DEF Mensaje, TypeOK
  <2>2. CASE Publicar(m)
    BY <2>1, <2>2, PublicarOK
  <2>3. CASE PublicarSinLugar(m)
    <3>1. /\ pc = "libre" /\ pc' \in {"compactar", "reemplazar"}
          /\ msg' = m /\ lazo' = LazoInicial
          /\ UNCHANGED <<partition_table, partition_repo, used_space, cnt_order_fifo,
                         cnt_order_lru, mensajes_cola, g_msg_counter, barrido, lecturas>>
      BY <2>3 DEF PublicarSinLugar, Admisible
    <3>2. TypeOK'
      BY <1>1, <2>1, <3>1, LazoInicialOK DEF TypeOK
    <3> QED
      BY <2>1, <3>1, <3>2 DEF IInv
  <2> QED
    BY <1>2, <2>2, <2>3
<1>3. ASSUME NEW p \in partition_table, ReemplazarYCompactar(p)
      PROVE  IInv'
  <2>1. Turno(p).lazo \in Lazo
    BY <1>1, <1>3, TurnoOK DEF IInv, ReemplazarYCompactar
  <2> QED
    BY <1>3, <2>1, AplicarOK DEF ReemplazarYCompactar
<1>4. ASSUME NEW p \in partition_table, ReemplazarOtra(p)
      PROVE  IInv'
  <2>1. SiguienteVictima(p, Turno(p)) \in Lazo
    BY <1>1, <1>4, SiguienteOK DEF IInv, ReemplazarOtra
  <2> QED
    BY <1>4, <2>1, AplicarOK DEF ReemplazarOtra
<1>5. ASSUME NEW p \in partition_table, ReemplazarYGuardar(p)
      PROVE  IInv'
  BY <1>5, ReemplazarYGuardarOK
<1>6. ASSUME NEW p \in partition_table, Abandonar(p)
      PROVE  IInv'
  <2>1. Turno(p).lazo \in Lazo
    BY <1>1, <1>6, TurnoOK DEF IInv, Abandonar
  <2> QED
    BY <1>6, <2>1, AplicarOK DEF Abandonar
<1>7. ASSUME NEW p \in partition_table, Deslizar(p)
      PROVE  IInv'
  <2>1. /\ TablaOK(partition_table', partition_repo', mensajes_cola', g_msg_counter')
        /\ Arrastre' /\ barrido' \in Nat
    BY <1>7, DeslizarOK
  <2>2. /\ pc = "deslizar"
        /\ UNCHANGED <<used_space, cnt_order_fifo, cnt_order_lru, mensajes_cola,
                       g_msg_counter, pc, msg, lazo, lecturas>>
    BY <1>7 DEF Deslizar
  <2>3. TypeOK'
    BY <1>1, <2>1, <2>2 DEF TypeOK, TablaOK
  <2> QED
    BY <2>1, <2>2, <2>3 DEF IInv
<1>8. ASSUME NEW p \in partition_table, CompactadaYGuardar(p)
      PROVE  IInv'
  BY <1>8, CompactadaYGuardarOK
<1>9. ASSUME NEW p \in partition_table, CompactadaSinAlcanzar(p)
      PROVE  IInv'
  <2>1. /\ pc = "compactada" /\ pc' \in {"abandonado", "reemplazar"}
        /\ UNCHANGED <<partition_table, partition_repo, used_space, cnt_order_fifo,
                       cnt_order_lru, mensajes_cola, g_msg_counter, msg, lazo, barrido,
                       lecturas>>
    BY <1>9 DEF CompactadaSinAlcanzar
  <2>2. TypeOK'
    BY <1>1, <2>1 DEF TypeOK
  <2> QED
    BY <2>1, <2>2 DEF IInv
<1>10. ASSUME reorganizar_tabla_particiones
       PROVE  IInv'
  <2>1. TablaOK(partition_table', partition_repo', mensajes_cola', g_msg_counter') /\ Arrastre'
    BY <1>10, ReorganizarOK
  <2>2. /\ pc = "compactar" /\ pc' = "deslizar" /\ barrido' = 0
        /\ UNCHANGED <<partition_repo, used_space, cnt_order_fifo, cnt_order_lru,
                       mensajes_cola, g_msg_counter, msg, lazo, lecturas>>
    BY <1>10 DEF reorganizar_tabla_particiones
  <2>3. TypeOK'
    BY <1>1, <2>1, <2>2 DEF TypeOK, TablaOK
  <2> QED
    BY <2>1, <2>2, <2>3 DEF IInv
<1>11. ASSUME FinCompactar
       PROVE  IInv'
  <2>1. /\ TablaOK(partition_table', partition_repo', mensajes_cola', g_msg_counter')
        /\ Cobertura(partition_table')
    BY <1>11, FinCompactarOK
  <2>2. /\ pc = "deslizar" /\ pc' \in {"compactada", "reemplazar"} /\ barrido' = 0
        /\ used_space' = barrido
        /\ cnt_order_fifo' = cnt_order_fifo + 1 /\ cnt_order_lru' = cnt_order_lru + 1
        /\ lazo' = [lazo EXCEPT !.idx = 0, !.contador_reemplazos = 0]
        /\ UNCHANGED <<partition_repo, mensajes_cola, g_msg_counter, msg, lecturas>>
    BY <1>11 DEF FinCompactar
  <2>3. lazo' \in Lazo
    BY <1>1, <2>2 DEF TypeOK, Lazo
  <2>4. TypeOK'
    BY <1>1, <2>1, <2>2, <2>3 DEF TypeOK, TablaOK
  <2> QED
    BY <2>1, <2>2, <2>4 DEF IInv
<1>12. ASSUME NEW m \in mensajes_cola, Leer(m)
       PROVE  IInv'
  <2>1. /\ TablaOK(partition_table', partition_repo', mensajes_cola', g_msg_counter')
        /\ Cobertura(partition_table')
    BY <1>12, LeerOK
  <2>2. /\ pc = "libre" /\ cnt_order_lru' = cnt_order_lru + 1 /\ lecturas' = lecturas + 1
        /\ UNCHANGED <<partition_repo, used_space, cnt_order_fifo, mensajes_cola,
                       g_msg_counter, pc, msg, lazo, barrido>>
    BY <1>12 DEF Leer
  <2>3. TypeOK'
    BY <1>1, <2>1, <2>2 DEF TypeOK, TablaOK
  <2> QED
    BY <2>1, <2>2, <2>3 DEF IInv
<1>13. ASSUME UNCHANGED vars
       PROVE  IInv'
  <2>1. TypeOK'
    BY <1>1, <1>13 DEF TypeOK, vars
  <2>2. Arrastre => Arrastre'
    BY <1>13 DEF Arrastre, Bytes, Direcciones, vars
  <2> QED
    BY <1>13, <2>1, <2>2 DEF IInv, vars
<1>14. CASE AlmacenarPaso
  BY <1>3, <1>4, <1>5, <1>6, <1>7, <1>8, <1>9, <1>10, <1>11, <1>14 DEF AlmacenarPaso
<1>15. CASE Next
  BY <1>2, <1>12, <1>13, <1>14, <1>15 DEF Next, Fin
<1> QED
  BY <1>13, <1>15

\* IInv is an invariant of the specification.
THEOREM Invariante == Spec => []IInv
<1>1. Init => IInv
  BY Inicio
<1>2. IInv /\ [Next]_vars => IInv'
  BY Paso
<1> QED
  BY <1>1, <1>2, PTL DEF Spec

\* Every variable keeps its type, for every configuration of the broker: the
\* addresses of a partition stay in the memory and no counter leaves its range.
THEOREM Tipos == Spec => []TypeOK
<1>1. IInv => TypeOK
  BY DEF IInv
<1> QED
  BY <1>1, Invariante, PTL

\* However the cache is configured and whatever is published, splits, merges,
\* evictions and compactions keep the memory tiled by the partition table.
THEOREM MemoriaEnMosaico == Spec => []Mosaico
<1>1. IInv => Mosaico
  <2> SUFFICES ASSUME IInv PROVE Mosaico
    OBVIOUS
  <2>1. \A p \in partition_table : p.dir_base >= 0 /\ p.dir_heap < TamanoMemoria
    BY Campos DEF IInv, TablaOK
  <2> QED
    BY <2>1 DEF IInv, TablaOK, Geometria, Mosaico, Cobertura
<1> QED
  BY <1>1, Invariante, PTL

\* No store, eviction or slide ever damages the bytes of a message of the cache.
THEOREM MensajesIntactos == Spec => []DatosIntactos
<1>1. IInv => DatosIntactos
  BY DEF IInv, TablaOK, Intactos, DatosIntactos
<1> QED
  BY <1>1, Invariante, PTL

\* The queues and the cache always hold the same messages, and a search by id finds
\* the partition of the message and no stale one.
THEOREM ColasConCache == Spec => []ColasYCache
<1>1. IInv => ColasYCache
  <2> SUFFICES ASSUME IInv PROVE ColasYCache
    OBVIOUS
  <2>1. ASSUME NEW m \in mensajes_cola
        PROVE  \E p \in Ocupadas(partition_table) :
                  EsParticionDe(p, m) /\ p.id_cola = m.cola /\ p.data_size = m.size
    <3>1. PICK p \in Ocupadas(partition_table) :
              m = [id |-> p.id_mensaje, cola |-> p.id_cola, size |-> p.data_size]
      BY DEF IInv, TablaOK, Guardados
    <3>2. p \in partition_table /\ p.presencia /\ p.dir_base \in Nat
      BY Campos DEF Ocupadas, IInv, TablaOK
    <3>3. \A q \in partition_table : q.id_mensaje = m.id => q = p
      BY <3>1, <3>2 DEF IInv, TablaOK, IdsPropios
    <3> QED
      BY <3>1, <3>2, <3>3 DEF EsParticionDe
  <2> QED
    BY <2>1 DEF IInv, TablaOK, Guardados, ColasYCache
<1> QED
  BY <1>1, Invariante, PTL
(***************************************************************************)
(* The bytes in use                                                        *)
(***************************************************************************)
Pesos(ps) == [p \in ps |-> tamano_particion_dinamica(p)]

\* MapThenSumSet's recursion is the sum of the sizes.
LEMMA SumaEs ==
    ASSUME NEW ps, IsFiniteSet(ps), NEW f, EsSuma(f, ps, Pesos(ps))
    PROVE  Suma(ps) = f[ps]
<1>1. \A s \in SUBSET ps : s # {} => Pesos(ps)[Alguno(s)] = tamano_particion_dinamica(Alguno(s))
  BY DEF Alguno, Pesos
<1>2. \A g : EsRec(g, ps, Pesos(ps)) <=>
          g = [s \in SUBSET ps |-> IF s = {} THEN 0
                  ELSE tamano_particion_dinamica(Alguno(s)) + g[s \ {Alguno(s)}]]
  <2> TAKE g
  <2>1. [s \in SUBSET ps |-> IF s = {} THEN 0
                             ELSE Pesos(ps)[Alguno(s)] + g[s \ {Alguno(s)}]]
          = [s \in SUBSET ps |-> IF s = {} THEN 0
                ELSE tamano_particion_dinamica(Alguno(s)) + g[s \ {Alguno(s)}]]
    BY <1>1
  <2> QED
    BY <2>1 DEF EsRec
<1>3. EsRec(f, ps, Pesos(ps)) /\ \A g : EsRec(g, ps, Pesos(ps)) => g = f
  BY RecSuma
<1>4. f = [s \in SUBSET ps |-> IF s = {} THEN 0
              ELSE tamano_particion_dinamica(Alguno(s)) + f[s \ {Alguno(s)}]]
  BY <1>2, <1>3
<1>5. \A g : g = [s \in SUBSET ps |-> IF s = {} THEN 0
                    ELSE tamano_particion_dinamica(Alguno(s)) + g[s \ {Alguno(s)}]] => g = f
  BY <1>2, <1>3
<1> QED
  BY <1>4, <1>5 DEF Suma, MapThenSumSet, MapThenFoldSet, Alguno

\* A partition more adds its size.
LEMMA SumaConUna ==
    ASSUME NEW ps, IsFiniteSet(ps), ps \subseteq Particion, NEW p \in Particion, p \notin ps
    PROVE  Suma(ps \cup {p}) = Suma(ps) + tamano_particion_dinamica(p) /\ Suma(ps) \in Int
<1> DEFINE T == ps \cup {p}
           w == Pesos(T)
           v == Pesos(ps)
<1>1. IsFiniteSet(T)
  BY FS_AddElement
<1>2. /\ w[p] = tamano_particion_dinamica(p) /\ \A c \in T : w[c] \in Int
      /\ \A c \in ps : v[c] = w[c] /\ v[c] \in Int
  BY Campos DEF Pesos
<1> HIDE DEF w, v
<1>3. PICK f : EsSuma(f, T, w)
  BY <1>1, <1>2, SumaOK
<1>4. PICK g : EsSuma(g, ps, v)
  BY <1>2, SumaOK
<1>5. f[T] = w[p] + g[ps] /\ g[ps] \in Int
  BY <1>2, <1>3, <1>4, SumaMas
<1>6. Suma(T) = f[T]
  <2> HIDE DEF T
  <2> QED
    BY <1>1, <1>3, SumaEs DEF w
<1>7. Suma(ps) = g[ps]
  BY <1>4, SumaEs DEF v
<1>8. w[p] \in Int
  BY <1>2
<1> QED
  BY <1>2, <1>5, <1>6, <1>7, <1>8

\* No partition, no byte.
LEMMA SumaVacia == Suma({}) = 0
<1>1. IsFiniteSet({})
  BY FS_EmptySet
<1>2. PICK f : EsSuma(f, {}, Pesos({}))
  BY <1>1, SumaOK
<1> QED
  BY <1>1, <1>2, SumaEs DEF EsSuma

\* A partition less takes its size away.
LEMMA SumaSinUna ==
    ASSUME NEW ps, IsFiniteSet(ps), ps \subseteq Particion, NEW p \in ps
    PROVE  /\ Suma(ps \ {p}) = Suma(ps) - tamano_particion_dinamica(p)
           /\ Suma(ps \ {p}) \in Int /\ Suma(ps) \in Int
<1> DEFINE r == ps \ {p}
<1>1. IsFiniteSet(r) /\ r \subseteq Particion /\ p \in Particion /\ p \notin r /\ r \cup {p} = ps
  BY FS_RemoveElement
<1> HIDE DEF r
<1>2. Suma(r \cup {p}) = Suma(r) + tamano_particion_dinamica(p) /\ Suma(r) \in Int
  BY <1>1, SumaConUna
<1>3. tamano_particion_dinamica(p) \in Int
  BY <1>1, Campos
<1>4. Suma(ps) = Suma(r) + tamano_particion_dinamica(p)
  BY <1>1, <1>2
<1>5. Suma(r) = Suma(ps) - tamano_particion_dinamica(p) /\ Suma(r) \in Int /\ Suma(ps) \in Int
  BY <1>2, <1>3, <1>4
<1> QED
  BY <1>5 DEF r

\* One in the place of another of its size leaves the sum as it was.
LEMMA SumaIgual ==
    ASSUME NEW ps, IsFiniteSet(ps), ps \subseteq Particion, NEW p \in ps,
           NEW q \in Particion, q \notin ps \ {p},
           tamano_particion_dinamica(q) = tamano_particion_dinamica(p)
    PROVE  Suma((ps \ {p}) \cup {q}) = Suma(ps)
<1> DEFINE r == ps \ {p}
<1>1. /\ Suma(r) = Suma(ps) - tamano_particion_dinamica(p)
      /\ Suma(r) \in Int /\ Suma(ps) \in Int
  BY SumaSinUna
<1>2. IsFiniteSet(r) /\ r \subseteq Particion /\ q \notin r
  BY FS_RemoveElement
<1> HIDE DEF r
<1>3. Suma(r \cup {q}) = Suma(r) + tamano_particion_dinamica(q)
  BY <1>2, SumaConUna
<1>4. tamano_particion_dinamica(p) \in Int
  BY Campos
<1>5. Suma(r \cup {q}) = Suma(ps)
  BY <1>1, <1>3, <1>4
<1> QED
  BY <1>5 DEF r

\* The occupied partitions of a valid table are finitely many partitions.
LEMMA OcupadasFinitas ==
    ASSUME NEW tabla, NEW repo, NEW cola, NEW cnt, TablaOK(tabla, repo, cola, cnt)
    PROVE  IsFiniteSet(Ocupadas(tabla)) /\ Ocupadas(tabla) \subseteq Particion
<1>1. Ocupadas(tabla) \subseteq tabla
  BY DEF Ocupadas
<1> QED
  BY <1>1, FS_Subset DEF TablaOK

\* A merge is of two free partitions into a free one.
LEMMA ConsolidarOcupadas ==
    ASSUME NEW tabla, tabla \subseteq Particion, NEW p
    PROVE  Ocupadas(consolidar_particion_dinamica(tabla, p).tabla) = Ocupadas(tabla)
<1> DEFINE c == consolidar_particion_dinamica(tabla, p)
<1>1. CASE ParesConsolidables(tabla, p) = {}
  BY <1>1 DEF consolidar_particion_dinamica
<1>2. CASE ParesConsolidables(tabla, p) # {}
  <2> DEFINE par == CHOOSE x \in ParesConsolidables(tabla, p) : TRUE
             f == Fusion(par[1], par[2])
  <2>1. par \in ParesConsolidables(tabla, p)
    BY <1>2
  <2>2. c = [tabla |-> (tabla \ {par[1], par[2]}) \cup {f}, part |-> f]
    BY <1>2 DEF consolidar_particion_dinamica
  <2> HIDE DEF c, par
  <2>3. par[1] \in Libres(tabla) /\ par[2] \in Libres(tabla)
    BY <2>1 DEF ParesConsolidables
  <2>4. f.presencia = par[1].presencia
    <3>1. par[1] \in Particion
      BY <2>3 DEF Libres
    <3> QED
      BY <3>1 DEF Fusion, Particion
  <2> HIDE DEF f
  <2>5. c.tabla = (tabla \ {par[1], par[2]}) \cup {f}
    BY <2>2
  <2>6. Ocupadas(c.tabla) = Ocupadas(tabla)
    BY <2>3, <2>4, <2>5 DEF Ocupadas, Libres
  <2> QED
    BY <2>6 DEF c
<1> QED
  BY <1>1, <1>2

\* A turn that evicts gives back the whole partition, one that does not, nothing.
LEMMA TurnoEspacio ==
    ASSUME TablaOK(partition_table, partition_repo, mensajes_cola, g_msg_counter),
           NEW p \in partition_table, EspacioUsado
    PROVE  Turno(p).usado = Suma(Ocupadas(Turno(p).tabla))
<1> DEFINE q == IF p.presencia THEN Desalojada(p) ELSE p
           t == (partition_table \ {p}) \cup {q}
<1>1. p \in Particion
  BY DEF TablaOK
<1>2. q \in Particion /\ q.presencia = FALSE
  BY <1>1, Campos DEF Desalojada, Particion
<1>3. Turno(p).tabla = consolidar_particion_dinamica(t, q).tabla
  BY DEF Turno
<1> HIDE DEF q
<1>4. t \subseteq Particion
  BY <1>2 DEF TablaOK
<1>5. Ocupadas(t) = Ocupadas(partition_table) \ {p}
  BY <1>2 DEF Ocupadas
<1> HIDE DEF t
<1>6. Ocupadas(Turno(p).tabla) = Ocupadas(partition_table) \ {p}
  BY <1>3, <1>4, <1>5, ConsolidarOcupadas
<1>7. CASE p.presencia
  <2>1. p \in Ocupadas(partition_table)
    BY <1>7 DEF Ocupadas
  <2>2. Turno(p).usado = used_space - tamano_particion_dinamica(p)
    BY <1>7 DEF Turno, EspacioTrasDesalojar
  <2>3. Suma(Ocupadas(partition_table) \ {p})
          = Suma(Ocupadas(partition_table)) - tamano_particion_dinamica(p)
    BY <2>1, OcupadasFinitas, SumaSinUna
  <2> QED
    BY <1>6, <2>2, <2>3 DEF EspacioUsado
<1>8. CASE ~p.presencia
  <2>1. Ocupadas(partition_table) \ {p} = Ocupadas(partition_table)
    BY <1>8 DEF Ocupadas
  <2>2. Turno(p).usado = used_space
    BY <1>8 DEF Turno
  <2> QED
    BY <1>6, <2>1, <2>2 DEF EspacioUsado
<1> QED
  BY <1>7, <1>8

\* What a store adds is the size of the partition it leaves occupied.
LEMMA GuardarEspacio ==
    ASSUME NEW tabla, NEW part \in tabla, NEW m \in Mensaje, NEW usado,
           NEW repo, NEW cola, TablaOK(tabla, repo, cola, m.id), ~part.presencia,
           tamano_particion_dinamica(part) >= m.size,
           usado = Suma(Ocupadas(tabla)),
           cnt_order_fifo \in Nat, cnt_order_lru \in Nat,
           Guardar(tabla, part, m, usado, repo, cola)
    PROVE  EspacioUsado'
<1> DEFINE n == Espacio(m.size)
           original == tamano_particion_dinamica(part)
           parte == original > n
           heap == IF parte THEN part.dir_base + n - 1 ELSE part.dir_heap
           nueva == [part EXCEPT
                       !.id_mensaje = m.id,
                       !.id_cola    = m.cola,
                       !.data_size  = m.size,
                       !.orden_fifo = cnt_order_fifo,
                       !.last_used  = cnt_order_lru,
                       !.presencia  = TRUE,
                       !.dir_heap   = IF parte THEN part.dir_base + n - 1 ELSE @]
           resto == generar_particion_dinamica_libre(nueva.dir_heap + 1,
                        original - n, cnt_order_fifo + 1, cnt_order_lru + 1)
           resta == IF parte THEN {resto} ELSE {}
<1>1. /\ m.id \in Nat \ {0} /\ m.cola \in Colas /\ m.size \in Nat \ {0}
      /\ n \in Nat \ {0} /\ n >= m.size
  BY EspacioAlcanza DEF Mensaje
<1>2. /\ part \in Particion
      /\ original \in Int /\ original = part.dir_heap - part.dir_base + 1
      /\ part.dir_base \in Nat /\ part.dir_heap \in Nat
      /\ part.dir_base <= part.dir_heap
      /\ part.dir_heap < TamanoMemoria
  BY <1>1, Campos DEF TablaOK
<1>3. /\ partition_table' = (tabla \ {part}) \cup {nueva} \cup resta
      /\ used_space' = usado + tamano_particion_dinamica(nueva)
  BY DEF Guardar
<1>4. \A r \in resta : r.presencia = FALSE
  BY DEF generar_particion_dinamica_libre
<1>5. nueva \in Particion /\ nueva.presencia = TRUE /\ nueva.id_mensaje = m.id
  <2> HIDE DEF n, original, parte
  <2>1. nueva = [part EXCEPT !.id_mensaje = m.id, !.id_cola = m.cola,
                             !.data_size = m.size, !.orden_fifo = cnt_order_fifo,
                             !.last_used = cnt_order_lru, !.presencia = TRUE,
                             !.dir_heap = heap]
    BY <1>2
  <2>2. heap \in Direcciones
    <3>1. heap \in Nat /\ heap <= part.dir_heap
      BY <1>1, <1>2 DEF parte, original
    <3> HIDE DEF heap
    <3> QED
      BY <1>2, <3>1, ConfigAssumption DEF Direcciones
  <2> HIDE DEF heap, nueva
  <2>3. nueva \in Particion
    BY <1>1, <1>2, <2>1, <2>2 DEF Particion
  <2> QED
    BY <1>2, <2>1, <2>3 DEF Particion
<1> HIDE DEF nueva, resta
<1>6. nueva \notin Ocupadas(tabla)
  <2>1. \A p \in tabla : p.id_mensaje < m.id /\ p.id_mensaje \in Nat
    BY Campos DEF TablaOK
  <2> QED
    BY <1>1, <1>5, <2>1 DEF Ocupadas
<1>7. Ocupadas(partition_table') = Ocupadas(tabla) \cup {nueva}
  BY <1>3, <1>4, <1>5 DEF Ocupadas
<1>8. Suma(Ocupadas(tabla) \cup {nueva}) = Suma(Ocupadas(tabla)) + tamano_particion_dinamica(nueva)
  <2>1. IsFiniteSet(Ocupadas(tabla)) /\ Ocupadas(tabla) \subseteq Particion
    BY OcupadasFinitas
  <2> DEFINE ps == Ocupadas(tabla)
  <2> HIDE DEF ps
  <2>2. Suma(ps \cup {nueva}) = Suma(ps) + tamano_particion_dinamica(nueva)
    BY <1>5, <1>6, <2>1, SumaConUna DEF ps
  <2> QED
    BY <2>2 DEF ps
<1>9. used_space' = Suma(Ocupadas(partition_table'))
  BY <1>3, <1>7, <1>8
<1>10. Suma(Ocupadas(partition_table')) = Suma(Ocupadas(partition_table))'
  BY DEF Suma, Ocupadas
<1> QED
  BY <1>9, <1>10 DEF EspacioUsado
\* What a compaction has already swept.
Barridas == {p \in partition_table : p.dir_base < barrido}

\* used_space is right, and the first address not swept, which it will be, is the
\* size of what was swept.
UsadoInv ==
    /\ EspacioUsado
    /\ pc = "deslizar" => barrido = Suma(Barridas)

\* A slide moves a whole partition, and those swept stay where they are.
LEMMA DeslizarEspacio ==
    ASSUME IInv, IInv', UsadoInv, NEW p \in partition_table, Deslizar(p)
    PROVE  UsadoInv'
<1> DEFINE movida == [p EXCEPT
              !.dir_base = barrido,
              !.dir_heap = barrido + tamano_particion_dinamica(p) - 1]
           t == (partition_table \ {p}) \cup {movida}
<1>1. /\ partition_table \subseteq Particion /\ IsFiniteSet(partition_table)
      /\ Geometria(partition_table) /\ IdsPropios(partition_table)
      /\ barrido \in Nat /\ Arrastre /\ pc = "deslizar"
  BY DEF IInv, TablaOK, TypeOK, Deslizar
<1>2. /\ p \in Particion /\ p.presencia
      /\ p.dir_base \in Nat /\ p.dir_heap \in Nat
      /\ tamano_particion_dinamica(p) = p.dir_heap - p.dir_base + 1
      /\ p.dir_base <= p.dir_heap
      /\ barrido <= p.dir_base
  BY <1>1, Campos DEF Arrastre, Geometria, Deslizar
<1>3. /\ partition_table' = t
      /\ barrido' = movida.dir_heap + 1
      /\ used_space' = used_space /\ pc' = pc
  BY DEF Deslizar
<1>4. /\ movida.dir_base = barrido
      /\ movida.dir_heap = barrido + tamano_particion_dinamica(p) - 1
      /\ movida.presencia = TRUE /\ movida.id_mensaje = p.id_mensaje
  BY <1>2 DEF Particion
<1>5. movida \in Particion
  <2>1. t \subseteq Particion
    BY <1>3 DEF IInv, TypeOK
  <2> QED
    BY <2>1
<1> HIDE DEF movida
<1>6. /\ tamano_particion_dinamica(movida) = tamano_particion_dinamica(p)
      /\ tamano_particion_dinamica(p) \in Int
      /\ barrido' = barrido + tamano_particion_dinamica(p)
  BY <1>1, <1>2, <1>3, <1>4 DEF tamano_particion_dinamica
<1>7. movida \notin partition_table \ {p}
  BY <1>1, <1>2, <1>4 DEF IdsPropios
<1>8. Ocupadas(partition_table) = partition_table /\ Ocupadas(t) = t
  BY <1>1, <1>4 DEF Arrastre, Ocupadas
<1>9. Suma(t) = Suma(partition_table)
  BY <1>1, <1>5, <1>6, <1>7, SumaIgual
<1>10. \A q \in partition_table \ {p} :
          /\ q.dir_base \in Nat
          /\ q.dir_base < barrido \/ p.dir_heap < q.dir_base
  <2> SUFFICES ASSUME NEW q \in partition_table \ {p}
               PROVE  q.dir_base \in Nat /\ (q.dir_base < barrido \/ p.dir_heap < q.dir_base)
    OBVIOUS
  <2>1. /\ q.dir_base \in Nat /\ q.dir_heap \in Nat
        /\ q.dir_base <= q.dir_heap
        /\ p.dir_heap < q.dir_base \/ q.dir_heap < p.dir_base
    BY <1>1, <1>2, Campos DEF Arrastre, Geometria
  <2>2. q.dir_base < barrido \/ p.dir_base <= q.dir_base
    BY DEF Deslizar
  <2> QED
    BY <1>1, <1>2, <2>1, <2>2
<1>11. {q \in t : q.dir_base < barrido'} = Barridas \cup {movida}
  <2>1. movida.dir_base < barrido'
    BY <1>1, <1>2, <1>4, <1>6
  <2>2. p \notin Barridas
    BY <1>1, <1>2 DEF Barridas
  <2>3. \A q \in partition_table \ {p} : q.dir_base < barrido' <=> q.dir_base < barrido
    BY <1>1, <1>2, <1>6, <1>10
  <2> HIDE DEF t
  <2>4. \A q : q \in t <=> q = movida \/ q \in partition_table \ {p}
    BY DEF t
  <2> QED
    BY <2>1, <2>2, <2>3, <2>4 DEF Barridas
<1>12. Suma(Barridas \cup {movida}) = Suma(Barridas) + tamano_particion_dinamica(movida)
  <2>1. IsFiniteSet(Barridas) /\ Barridas \subseteq Particion /\ movida \notin Barridas
    <3>1. Barridas \subseteq partition_table
      BY DEF Barridas
    <3>2. movida \notin Barridas
      BY <1>1, <1>4 DEF Barridas
    <3> QED
      BY <1>1, <3>1, <3>2, FS_Subset
  <2> QED
    BY <1>5, <2>1, SumaConUna
<1>13. used_space' = Suma(Ocupadas(partition_table'))
  BY <1>3, <1>8, <1>9 DEF UsadoInv, EspacioUsado
<1>14. barrido' = Suma({q \in partition_table' : q.dir_base < barrido'})
  BY <1>1, <1>3, <1>6, <1>11, <1>12 DEF UsadoInv
<1>15. /\ Suma(Ocupadas(partition_table')) = Suma(Ocupadas(partition_table))'
       /\ Suma({q \in partition_table' : q.dir_base < barrido'}) = Suma(Barridas)'
  BY DEF Suma, Ocupadas, Barridas
<1> QED
  BY <1>13, <1>14, <1>15 DEF UsadoInv, EspacioUsado

\* When everything is swept, barrido is the size of what is occupied.
LEMMA FinCompactarEspacio ==
    ASSUME IInv, UsadoInv, FinCompactar
    PROVE  UsadoInv'
<1> DEFINE libre == generar_particion_dinamica_libre(barrido, TamanoMemoria - barrido,
                                                     cnt_order_fifo, cnt_order_lru)
<1>1. /\ pc = "deslizar" /\ Barrido /\ Arrastre
      /\ partition_table' = partition_table \cup {libre}
      /\ used_space' = barrido /\ pc' # "deslizar"
  BY DEF FinCompactar, IInv
<1>2. libre.presencia = FALSE
  BY DEF generar_particion_dinamica_libre
<1> HIDE DEF libre
<1>3. Ocupadas(partition_table') = partition_table /\ Barridas = partition_table
  BY <1>1, <1>2 DEF Ocupadas, Arrastre, Barridas, Barrido
<1>4. used_space' = Suma(Ocupadas(partition_table'))
  BY <1>1, <1>3 DEF UsadoInv
<1>5. Suma(Ocupadas(partition_table')) = Suma(Ocupadas(partition_table))'
  BY DEF Suma, Ocupadas
<1> QED
  BY <1>1, <1>4, <1>5 DEF UsadoInv, EspacioUsado

\* A read leaves the partition with its size.
LEMMA LeerEspacio ==
    ASSUME IInv, EspacioUsado, NEW m \in mensajes_cola, Leer(m)
    PROVE  EspacioUsado'
<1>1. PICK p \in partition_table :
          /\ EsParticionDe(p, m)
          /\ partition_table' = (partition_table \ {p}) \cup
                                {[p EXCEPT !.last_used = cnt_order_lru]}
  BY DEF Leer
<1> DEFINE q == [p EXCEPT !.last_used = cnt_order_lru]
<1>2. /\ partition_table \subseteq Particion /\ cnt_order_lru \in Nat
      /\ IdsPropios(partition_table) /\ used_space' = used_space
  BY DEF IInv, TablaOK, TypeOK, Leer
<1>3. /\ q \in Particion /\ q.presencia = p.presencia /\ q.id_mensaje = p.id_mensaje
      /\ q.dir_base = p.dir_base /\ q.dir_heap = p.dir_heap
  BY <1>2 DEF Particion
<1>4. partition_table' = (partition_table \ {p}) \cup {q}
  BY <1>1
<1> HIDE DEF q
<1>5. tamano_particion_dinamica(q) = tamano_particion_dinamica(p)
  BY <1>3 DEF tamano_particion_dinamica
<1> DEFINE ps == Ocupadas(partition_table)
<1>6. IsFiniteSet(ps) /\ ps \subseteq Particion
  BY OcupadasFinitas DEF IInv
<1>7. CASE p.presencia
  <2>1. Ocupadas(partition_table') = (ps \ {p}) \cup {q}
    BY <1>3, <1>4, <1>7 DEF Ocupadas
  <2>2. p \in ps /\ q \notin ps \ {p}
    BY <1>2, <1>3, <1>7 DEF IdsPropios, Ocupadas
  <2> HIDE DEF ps
  <2>3. Suma((ps \ {p}) \cup {q}) = Suma(ps)
    BY <1>3, <1>5, <1>6, <2>2, SumaIgual
  <2>4. used_space' = Suma(Ocupadas(partition_table'))
    BY <1>2, <2>1, <2>3 DEF EspacioUsado, ps
  <2>5. Suma(Ocupadas(partition_table')) = Suma(Ocupadas(partition_table))'
    BY DEF Suma, Ocupadas
  <2> QED
    BY <2>4, <2>5 DEF EspacioUsado
<1>8. CASE ~p.presencia
  <2>1. Ocupadas(partition_table') = Ocupadas(partition_table)
    BY <1>2, <1>3, <1>4, <1>8 DEF Ocupadas, Particion
  <2>2. Suma(Ocupadas(partition_table)) = Suma(Ocupadas(partition_table'))
    BY <2>1
  <2>3. Suma(Ocupadas(partition_table')) = Suma(Ocupadas(partition_table))'
    BY DEF Suma, Ocupadas
  <2> QED
    BY <1>2, <2>2, <2>3 DEF EspacioUsado
<1> QED
  BY <1>7, <1>8

\* A turn that does not store.
LEMMA AplicarEspacio ==
    ASSUME IInv, EspacioUsado, NEW p \in partition_table, Aplicar(Turno(p))
    PROVE  EspacioUsado'
<1>1. Turno(p).usado = Suma(Ocupadas(Turno(p).tabla))
  BY TurnoEspacio DEF IInv
<1>2. used_space' = Turno(p).usado /\ partition_table' = Turno(p).tabla
  BY DEF Aplicar
<1>3. Suma(Ocupadas(partition_table')) = Suma(Ocupadas(partition_table))'
  BY DEF Suma, Ocupadas
<1> QED
  BY <1>1, <1>2, <1>3 DEF EspacioUsado

\* The table the step leaves has the same occupied partitions.
LEMMA MismoEspacio ==
    ASSUME EspacioUsado, used_space' = used_space,
           Ocupadas(partition_table') = Ocupadas(partition_table)
    PROVE  EspacioUsado'
<1>1. Suma(Ocupadas(partition_table')) = Suma(Ocupadas(partition_table))
  OBVIOUS
<1>2. Suma(Ocupadas(partition_table')) = Suma(Ocupadas(partition_table))'
  BY DEF Suma, Ocupadas
<1> QED
  BY <1>1, <1>2 DEF EspacioUsado
\* A publication with no replacement.
LEMMA PublicarEspacio ==
    ASSUME IInv, EspacioUsado, NEW m \in Mensaje, Publicar(m)
    PROVE  EspacioUsado'
<1>1. PICK p \in Primeras(Candidatas(m.size)) :
          Guardar(ConAnterior(partition_table, p).tabla,
                  ConAnterior(partition_table, p).part,
                  m, used_space, partition_repo, mensajes_cola)
  BY DEF Publicar
<1> DEFINE c == ConAnterior(partition_table, p)
<1>2. /\ partition_table \subseteq Particion
      /\ cnt_order_fifo \in Nat /\ cnt_order_lru \in Nat
  BY DEF IInv, TypeOK
<1>3. /\ TablaOK(c.tabla, partition_repo, mensajes_cola, m.id)
      /\ c.part \in c.tabla /\ ~c.part.presencia
      /\ tamano_particion_dinamica(c.part) >= m.size
  BY ConAnteriorOK
<1>4. Ocupadas(c.tabla) = Ocupadas(partition_table)
  BY <1>2, ConsolidarOcupadas DEF ConAnterior
<1>5. Guardar(c.tabla, c.part, m, used_space, partition_repo, mensajes_cola)
  BY <1>1
<1> HIDE DEF c
<1>6. used_space = Suma(Ocupadas(c.tabla))
  BY <1>4 DEF EspacioUsado
<1> QED
  BY <1>2, <1>3, <1>5, <1>6, GuardarEspacio

\* The end of a replacement.
LEMMA ReemplazarEspacio ==
    ASSUME IInv, EspacioUsado, NEW p \in partition_table, ReemplazarYGuardar(p)
    PROVE  EspacioUsado'
<1> DEFINE t == Turno(p)
<1>1. /\ TypeOK /\ Cobertura(partition_table) /\ msg \in Mensaje /\ msg.id = g_msg_counter
      /\ TablaOK(partition_table, partition_repo, mensajes_cola, g_msg_counter)
  BY DEF IInv, ReemplazarYGuardar
<1>2. TablaOK(t.tabla, t.repo, t.cola, msg.id) /\ t.part \in t.tabla /\ ~t.part.presencia
  BY <1>1, TurnoOK
<1>3. t.usado = Suma(Ocupadas(t.tabla))
  BY <1>1, TurnoEspacio
<1>4. /\ Guardar(t.tabla, t.part, msg, t.usado, t.repo, t.cola)
      /\ tamano_particion_dinamica(t.part) >= msg.size
  BY DEF ReemplazarYGuardar
<1> HIDE DEF t
<1>5. cnt_order_fifo \in Nat /\ cnt_order_lru \in Nat
  BY <1>1 DEF TypeOK
<1> QED
  BY <1>1, <1>2, <1>3, <1>4, <1>5, GuardarEspacio

\* Storing in what a compaction freed.
LEMMA CompactadaEspacio ==
    ASSUME IInv, EspacioUsado, NEW p \in partition_table, CompactadaYGuardar(p)
    PROVE  EspacioUsado'
<1>1. /\ msg \in Mensaje /\ cnt_order_fifo \in Nat /\ cnt_order_lru \in Nat
      /\ TablaOK(partition_table, partition_repo, mensajes_cola, msg.id)
  BY DEF IInv, TypeOK, CompactadaYGuardar
<1>2. /\ Guardar(partition_table, p, msg, used_space, partition_repo, mensajes_cola)
      /\ ~p.presencia /\ tamano_particion_dinamica(p) >= msg.size
  BY DEF CompactadaYGuardar, EsUltimaLibre, Libres
<1>3. used_space = Suma(Ocupadas(partition_table))
  BY DEF EspacioUsado
<1> QED
  BY <1>1, <1>2, <1>3, GuardarEspacio

\* Every step keeps the count.
LEMMA PasoEspacio ==
    ASSUME IInv, IInv', UsadoInv, [Next]_vars
    PROVE  UsadoInv'
<1>1. EspacioUsado
  BY DEF UsadoInv
<1>2. ASSUME pc' # "deslizar", EspacioUsado'
      PROVE  UsadoInv'
  BY <1>2 DEF UsadoInv
<1>3. ASSUME NEW cola \in Colas, NEW size \in Tamanos,
             NEW m, m = [id |-> g_msg_counter, cola |-> cola, size |-> size],
             Publicar(m) \/ PublicarSinLugar(m)
      PROVE  UsadoInv'
  <2>1. m \in Mensaje
    BY <1>3, ConfigAssumption DEF Mensaje, IInv, TypeOK
  <2>2. CASE Publicar(m)
    <3>1. pc' # "deslizar"
      BY <2>2 DEF Publicar, Guardar
    <3>2. EspacioUsado'
      BY <1>1, <2>1, <2>2, PublicarEspacio
    <3> QED
      BY <1>2, <3>1, <3>2
  <2>3. CASE PublicarSinLugar(m)
    <3>1. /\ pc' # "deslizar" /\ used_space' = used_space
          /\ Ocupadas(partition_table') = Ocupadas(partition_table)
      BY <2>3 DEF PublicarSinLugar
    <3> QED
      BY <1>1, <1>2, <3>1, MismoEspacio
  <2> QED
    BY <1>3, <2>2, <2>3
<1>4. ASSUME NEW p \in partition_table,
             ReemplazarYCompactar(p) \/ ReemplazarOtra(p) \/ Abandonar(p)
      PROVE  UsadoInv'
  <2>1. Aplicar(Turno(p)) /\ pc' # "deslizar"
    BY <1>4 DEF ReemplazarYCompactar, ReemplazarOtra, Abandonar
  <2> QED
    BY <1>1, <1>2, <2>1, AplicarEspacio
<1>5. ASSUME NEW p \in partition_table, ReemplazarYGuardar(p)
      PROVE  UsadoInv'
  <2>1. pc' # "deslizar"
    BY <1>5 DEF ReemplazarYGuardar, Guardar
  <2> QED
    BY <1>1, <1>2, <1>5, <2>1, ReemplazarEspacio
<1>6. ASSUME NEW p \in partition_table, CompactadaYGuardar(p)
      PROVE  UsadoInv'
  <2>1. pc' # "deslizar"
    BY <1>6 DEF CompactadaYGuardar, Guardar
  <2> QED
    BY <1>1, <1>2, <1>6, <2>1, CompactadaEspacio
<1>7. ASSUME NEW p \in partition_table, CompactadaSinAlcanzar(p)
      PROVE  UsadoInv'
  <2>1. /\ pc' # "deslizar" /\ used_space' = used_space
        /\ Ocupadas(partition_table') = Ocupadas(partition_table)
    BY <1>7 DEF CompactadaSinAlcanzar
  <2> QED
    BY <1>1, <1>2, <2>1, MismoEspacio
<1>8. ASSUME NEW p \in partition_table, Deslizar(p)
      PROVE  UsadoInv'
  BY <1>8, DeslizarEspacio
<1>9. ASSUME reorganizar_tabla_particiones
      PROVE  UsadoInv'
  <2>1. /\ partition_table' = Ocupadas(partition_table) /\ barrido' = 0
        /\ used_space' = used_space
    BY <1>9 DEF reorganizar_tabla_particiones
  <2>2. Ocupadas(partition_table') = Ocupadas(partition_table)
    BY <2>1 DEF Ocupadas
  <2>3. EspacioUsado'
    BY <1>1, <2>1, <2>2, MismoEspacio
  <2>4. Barridas' = {}
    <3>1. \A p \in partition_table' : p.dir_base \in Nat
      BY Campos DEF IInv, TypeOK
    <3> QED
      BY <2>1, <3>1 DEF Barridas
  <2>5. Suma(Barridas') = 0
    BY <2>4, SumaVacia
  <2>6. Suma(Barridas') = Suma(Barridas)'
    BY DEF Suma
  <2> QED
    BY <2>1, <2>3, <2>5, <2>6 DEF UsadoInv
<1>10. ASSUME FinCompactar
       PROVE  UsadoInv'
  BY <1>10, FinCompactarEspacio
<1>11. ASSUME NEW m \in mensajes_cola, Leer(m)
       PROVE  UsadoInv'
  <2>1. pc' # "deslizar"
    BY <1>11 DEF Leer
  <2> QED
    BY <1>1, <1>2, <1>11, <2>1, LeerEspacio
<1>12. ASSUME UNCHANGED vars
       PROVE  UsadoInv'
  <2>1. /\ partition_table' = partition_table /\ barrido' = barrido
        /\ pc' = pc /\ used_space' = used_space
    BY <1>12 DEF vars
  <2>2. EspacioUsado'
    BY <1>1, <2>1, MismoEspacio
  <2>3. Suma(Barridas') = Suma(Barridas)
    BY <2>1 DEF Barridas
  <2>4. Suma(Barridas') = Suma(Barridas)'
    BY DEF Suma
  <2> QED
    BY <2>1, <2>2, <2>3, <2>4 DEF UsadoInv
<1>13. CASE AlmacenarPaso
  BY <1>4, <1>5, <1>6, <1>7, <1>8, <1>9, <1>10, <1>13 DEF AlmacenarPaso
<1>14. CASE Next
  BY <1>3, <1>11, <1>12, <1>13, <1>14 DEF Next, Fin
<1> QED
  BY <1>12, <1>14

\* used_space, which evictions decrease, stores increase and compactions recompute
\* from where their sweep stands, is always the size of the occupied partitions.
THEOREM EspacioSiempreExacto == Spec => []EspacioUsado
<1>1. Init => UsadoInv
  <2> SUFFICES ASSUME Init PROVE UsadoInv
    OBVIOUS
  <2>1. Ocupadas(partition_table) = {}
    BY DEF Init, Ocupadas, generar_particion_dinamica_libre
  <2> QED
    BY <2>1, SumaVacia DEF Init, UsadoInv, EspacioUsado
<1>2. IInv /\ IInv' /\ UsadoInv /\ [Next]_vars => UsadoInv'
  BY PasoEspacio
<1>3. UsadoInv => EspacioUsado
  BY DEF UsadoInv
<1> QED
  BY <1>1, <1>2, <1>3, Invariante, PTL DEF Spec
=============================================================================
