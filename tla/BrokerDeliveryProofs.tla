-------------------------- MODULE BrokerDeliveryProofs --------------------------
(***************************************************************************)
(* Proofs about BrokerDelivery, for every set of subscribers, number of    *)
(* connections and messages and every capacity of the cache: the types,    *)
(* and, when one publisher connects at a time, that ids are unique, that a *)
(* process receives the messages in order and none twice, that only what   *)
(* it received is marked as sent to it, and that no thread sleeps while    *)
(* there is something to send to its process.                              *)
(***************************************************************************)
EXTENDS BrokerDelivery, LemasComunes, SequenceTheorems

(***************************************************************************)
(* The first element of a sequence with a property                         *)
(***************************************************************************)
LEMMA MinOK ==
    ASSUME NEW T, T \subseteq Nat, T # {}
    PROVE  Min(T) \in T /\ \A y \in T : Min(T) <= y
  BY MinimoOK DEF Min

LEMMA SinEnviarOK ==
    ASSUME mensajes_cola \in Seq(Mensaje), NEW s
    PROVE  LET i == get_msg_sin_enviar(s)
           IN  \/ /\ i = 0
                  /\ \A j \in 1 .. Len(mensajes_cola) : s \in mensajes_cola[j].sended_suscriptors
               \/ /\ i \in 1 .. Len(mensajes_cola)
                  /\ s \notin mensajes_cola[i].sended_suscriptors
                  /\ \A j \in 1 .. Len(mensajes_cola) :
                        s \notin mensajes_cola[j].sended_suscriptors => i <= j
  <1> DEFINE T == {i \in 1 .. Len(mensajes_cola) : es_msj_sin_enviar(mensajes_cola[i], s)}
  <1>1. get_msg_sin_enviar(s) = IF T # {} THEN Min(T) ELSE 0
    BY DEF get_msg_sin_enviar, SelectInSeq
  <1>2. CASE T = {}
    BY <1>1, <1>2 DEF es_msj_sin_enviar
  <1>3. CASE T # {}
    <2>1. T \subseteq Nat
      OBVIOUS
    <2>2. Min(T) \in T /\ \A y \in T : Min(T) <= y
      <3> HIDE DEF T
      <3> QED BY <1>3, <2>1, MinOK
    <2> QED BY <1>1, <1>3, <2>2 DEF es_msj_sin_enviar
  <1> QED BY <1>2, <1>3

LEMMA RegistroOK ==
    ASSUME suscriptores \in Seq(Conexiones), NEW s
    PROVE  /\ PosicionRegistro(s) \in 0 .. Len(suscriptores)
           /\ obtengo_suscriptor_cola(s) \in Conexiones \cup {Nadie}
  <1> DEFINE T == {i \in 1 .. Len(suscriptores) : suscriptores[i][1] = s}
  <1>1. PosicionRegistro(s) = IF T # {} THEN Min(T) ELSE 0
    BY DEF PosicionRegistro, SelectInSeq
  <1>2. T \subseteq Nat
    OBVIOUS
  <1>3. T # {} => Min(T) \in T
    <2> HIDE DEF T
    <2> QED BY <1>2, MinOK
  <1> QED BY <1>1, <1>3 DEF obtengo_suscriptor_cola

LEMMA CuentaOK ==
    ASSUME mensajes_cola \in Seq(Mensaje), NEW s
    PROVE  cant_msjs_sin_enviar(s) \in Nat
  <1> DEFINE T == {i \in DOMAIN mensajes_cola : es_msj_sin_enviar(mensajes_cola[i], s)}
  <1>1. Len(mensajes_cola) \in Nat /\ DOMAIN mensajes_cola = 1 .. Len(mensajes_cola)
    OBVIOUS
  <1>2. IsFiniteSet(1 .. Len(mensajes_cola))
    BY <1>1, FS_Interval
  <1>3. IsFiniteSet(T)
    BY <1>1, <1>2, FS_Subset
  <1> QED BY <1>3, FS_CardinalityType DEF cant_msjs_sin_enviar

\* Marking keeps the messages, their order and the marks they had, marks the message
\* with the id if ids are unique, and adds no mark to any other.
LEMMA MarcarOK ==
    ASSUME NEW cola \in Seq(Mensaje), NEW s \in Suscriptores, NEW id
    PROVE  LET nueva == set_msg_enviado_a_suscriptor(cola, s, id)
           IN  /\ nueva \in Seq(Mensaje)
               /\ Len(nueva) = Len(cola)
               /\ \A i \in 1 .. Len(cola) :
                     /\ nueva[i].id_mensaje = cola[i].id_mensaje
                     /\ cola[i].sended_suscriptors \subseteq nueva[i].sended_suscriptors
               /\ (\A i, j \in 1 .. Len(cola) :
                      cola[i].id_mensaje = cola[j].id_mensaje => i = j)
                  => \A i \in 1 .. Len(cola) :
                        cola[i].id_mensaje = id => s \in nueva[i].sended_suscriptors
               /\ \A i \in 1 .. Len(cola) : \A r \in nueva[i].sended_suscriptors :
                     \/ r \in cola[i].sended_suscriptors
                     \/ r = s /\ cola[i].id_mensaje = id
  <1> DEFINE T == {i \in 1 .. Len(cola) : cola[i].id_mensaje = id}
             k == SelectInSeq(cola, LAMBDA m : m.id_mensaje = id)
             nueva == set_msg_enviado_a_suscriptor(cola, s, id)
  <1>1. k = IF T # {} THEN Min(T) ELSE 0
    BY DEF SelectInSeq
  <1>2. T # {} => k \in T
    <2>1. T \subseteq Nat
      OBVIOUS
    <2> HIDE DEF T, k
    <2>2. T # {} => Min(T) \in T
      BY <2>1, MinOK
    <2> QED BY <1>1, <2>2
  <1>3. \A i \in 1 .. Len(cola) : cola[i] \in Mensaje
    OBVIOUS
  <1>4. nueva = [i \in 1 .. Len(cola) |->
                   IF i = k THEN [cola[i] EXCEPT !.sended_suscriptors = @ \cup {s}]
                   ELSE cola[i]]
    BY DEF set_msg_enviado_a_suscriptor
  <1> HIDE DEF k, nueva
  <1>5. ASSUME NEW i \in 1 .. Len(cola)
        PROVE  /\ nueva[i] \in Mensaje
               /\ nueva[i].id_mensaje = cola[i].id_mensaje
               /\ cola[i].sended_suscriptors \subseteq nueva[i].sended_suscriptors
               /\ i = k => s \in nueva[i].sended_suscriptors
               /\ \A r \in nueva[i].sended_suscriptors :
                     r \in cola[i].sended_suscriptors \/ (r = s /\ i = k)
    <2>1. nueva[i] = IF i = k THEN [cola[i] EXCEPT !.sended_suscriptors = @ \cup {s}]
                     ELSE cola[i]
      BY <1>4
    <2>2. cola[i] \in Mensaje
      BY <1>3
    <2> QED BY <2>1, <2>2 DEF Mensaje
  <1>6. nueva \in Seq(Mensaje) /\ Len(nueva) = Len(cola)
    <2>1. Len(cola) \in Nat
      OBVIOUS
    <2>2. nueva \in [1 .. Len(cola) -> Mensaje]
      BY <1>4, <1>5
    <2> QED BY <2>1, <2>2, SeqDef, LenProperties
  <1>7. ASSUME \A i, j \in 1 .. Len(cola) :
                   cola[i].id_mensaje = cola[j].id_mensaje => i = j,
               NEW i \in 1 .. Len(cola), cola[i].id_mensaje = id
        PROVE  s \in nueva[i].sended_suscriptors
    <2>1. i \in T
      BY <1>7
    <2>2. k = i
      BY <1>2, <1>7, <2>1
    <2> QED BY <1>5, <2>2
  <1>8. ASSUME NEW i \in 1 .. Len(cola), i = k
        PROVE  cola[i].id_mensaje = id
    <2>1. T # {}
      BY <1>1, <1>8
    <2> QED BY <1>2, <1>8, <2>1
  <1> QED BY <1>5, <1>6, <1>7, <1>8 DEF nueva

\* A new message goes to the end; the others keep their order, one place earlier if
\* the oldest one had to go.
LEMMA LugarOK ==
    ASSUME NEW cola \in Seq(Mensaje), Len(cola) <= Capacidad, NEW m \in Mensaje,
           DeliveryAssumption
    PROVE  LET nueva == Append(HacerLugar(cola), m)
               corre == IF Len(cola) = Capacidad THEN 1 ELSE 0
           IN  /\ nueva \in Seq(Mensaje)
               /\ Len(nueva) <= Capacidad
               /\ Len(nueva) = Len(cola) + 1 - corre
               /\ nueva[Len(nueva)] = m
               /\ \A i \in 1 .. Len(nueva) - 1 :
                     i + corre \in 1 .. Len(cola) /\ nueva[i] = cola[i + corre]
  <1>1. CASE Len(cola) = Capacidad
    <2>1. cola # <<>>
      BY <1>1 DEF DeliveryAssumption
    <2>2. /\ Tail(cola) \in Seq(Mensaje)
          /\ Len(Tail(cola)) = Len(cola) - 1
          /\ \A i \in 1 .. Len(cola) - 1 : Tail(cola)[i] = cola[i + 1]
      BY <2>1
    <2> QED BY <1>1, <2>2 DEF HacerLugar, DeliveryAssumption
  <1>2. CASE Len(cola) # Capacidad
    BY <1>2 DEF HacerLugar, DeliveryAssumption
  <1> QED BY <1>1, <1>2

(***************************************************************************)
(* The types                                                               *)
(***************************************************************************)
PcPublicacion == {"fuera", "recibiendo", "publicar", "encolar", "contar", "deshabilitar",
                  "confirmar", "confirmando"}

PcHilo == {"fuera", "handshake", "alta", "lazo", "esperar", "trabar", "enviar", "ack",
           "baja", "fin"}

EstadoCliente == {"fuera", "suscripto", "desconectado", "terminado"}

TipoPublicacion == [pc : PcPublicacion, op : Suscriptores \cup {0}, id : Nat]

TipoHilo == [pc : PcHilo, reg : Conexiones \cup {Nadie}, ult_id_recibido : Nat,
             cant_msjs_sem : Nat, abierto : BOOLEAN]

TipoPedidos == [mensajes : Nat, fines : Nat]

\* The id a publisher is about to enqueue is a real one.
IdTomado == \A p \in Publicadores : publicacion[p].pc = "encolar" => publicacion[p].id > 0

\* TypeOK with its record types named, strengthened by the type of the id taken.
Tipado ==
    /\ g_mutex_msjs \in BOOLEAN
    /\ g_msg_counter \in Nat \ {0}
    /\ mensajes_cola \in Seq(Mensaje)
    /\ Len(mensajes_cola) <= Capacidad
    /\ suscriptores \in Seq(Conexiones)
    /\ sem_cont_msjs \in [Conexiones -> Nat]
    /\ enabled \in [Conexiones -> BOOLEAN]
    /\ publicacion \in [Publicadores -> TipoPublicacion]
    /\ hilo \in [Conexiones -> TipoHilo]
    /\ cliente \in [Conexiones -> EstadoCliente]
    /\ canal \in [Conexiones -> Paquete]
    /\ recibidos \in [Conexiones -> Seq(Nat)]
    /\ pedidos \in TipoPedidos
    /\ broker \in {"vivo", "caido"}
    /\ IdTomado

LEMMA TipadoOK == Tipado => TypeOK
  BY DEF TypeOK, Tipado, TipoPublicacion, TipoHilo, TipoPedidos, PcPublicacion, PcHilo,
         EstadoCliente

LEMMA TiposIniciales == Init => Tipado
  <1> SUFFICES ASSUME Init PROVE Tipado
    OBVIOUS
  <1>1. mensajes_cola \in Seq(Mensaje) /\ Len(mensajes_cola) <= Capacidad
    BY DeliveryAssumption DEF Init, DeliveryAssumption
  <1>2. suscriptores \in Seq(Conexiones)
    BY DEF Init
  <1>3. /\ sem_cont_msjs \in [Conexiones -> Nat]
        /\ enabled \in [Conexiones -> BOOLEAN]
        /\ cliente \in [Conexiones -> EstadoCliente]
        /\ canal \in [Conexiones -> Paquete]
        /\ recibidos \in [Conexiones -> Seq(Nat)]
    BY DEF Init, Nada, Paquete, EstadoCliente
  <1>4. publicacion \in [Publicadores -> TipoPublicacion]
    BY DEF Init, TipoPublicacion, PcPublicacion
  <1>5. hilo \in [Conexiones -> TipoHilo]
    BY DEF Init, TipoHilo, PcHilo
  <1>6. pedidos \in TipoPedidos
    BY DEF Init, TipoPedidos
  <1>7. g_mutex_msjs \in BOOLEAN /\ broker \in {"vivo", "caido"}
    BY DEF Init
  <1>8. g_msg_counter \in Nat \ {0}
    BY DEF Init
  <1>9. IdTomado
    BY DEF Init, IdTomado
  <1> QED BY <1>1, <1>2, <1>3, <1>4, <1>5, <1>6, <1>7, <1>8, <1>9 DEF Tipado

\* The thread of p, or of c, goes on to another point.
LEMMA IrAOK ==
    ASSUME Tipado, NEW p \in Publicadores, NEW pc \in PcPublicacion, IrA(p, pc)
    PROVE  /\ publicacion' \in [Publicadores -> TipoPublicacion]
           /\ pc # "encolar" => IdTomado'
  BY DEF IrA, Tipado, TipoPublicacion, IdTomado

LEMMA PasarOK ==
    ASSUME Tipado, NEW c \in Conexiones, NEW pc \in PcHilo, Pasar(c, pc)
    PROVE  hilo' \in [Conexiones -> TipoHilo]
  BY DEF Pasar, Tipado, TipoHilo

\* The steps of the publishing threads, and of the requests they serve.
LEMMA TiposPublicacion ==
    ASSUME Tipado, NEW p \in Publicadores,
           \/ RecibirPublicacion(p)
           \/ \E s \in Suscriptores : RecibirFin(p, s)
           \/ PasoPublicacion(p)
    PROVE  Tipado'
  <1> USE DEF SigueVivo, mutexYCola, registros, clientes
  <1>0. \A pc \in PcPublicacion \ {"encolar"} :
           IrA(p, pc) => publicacion' \in [Publicadores -> TipoPublicacion] /\ IdTomado'
    BY IrAOK
  <1>1. CASE RecibirPublicacion(p)
    <2>1. publicacion' \in [Publicadores -> TipoPublicacion]
      BY <1>1 DEF RecibirPublicacion, Tipado, TipoPublicacion, PcPublicacion
    <2>2. pedidos' = [pedidos EXCEPT !.mensajes = @ + 1] /\ pedidos \in TipoPedidos
      BY <1>1 DEF RecibirPublicacion, Tipado
    <2>3. pedidos' \in TipoPedidos
      BY <2>2 DEF TipoPedidos
    <2>4. IdTomado'
      BY <1>1 DEF RecibirPublicacion, Tipado, IdTomado, TipoPublicacion
    <2> QED BY <1>1, <2>1, <2>3, <2>4 DEF RecibirPublicacion, Tipado
  <1>2. CASE \E s \in Suscriptores : RecibirFin(p, s)
    <2> PICK s \in Suscriptores : RecibirFin(p, s)
      BY <1>2
    <2>1. publicacion' \in [Publicadores -> TipoPublicacion]
      BY DEF RecibirFin, Tipado, TipoPublicacion, PcPublicacion
    <2>2. pedidos' = [pedidos EXCEPT !.fines = @ + 1] /\ pedidos \in TipoPedidos
      BY DEF RecibirFin, Tipado
    <2>3. pedidos' \in TipoPedidos
      BY <2>2 DEF TipoPedidos
    <2>4. IdTomado'
      BY DEF RecibirFin, Tipado, IdTomado, TipoPublicacion
    <2> QED BY <2>1, <2>3, <2>4 DEF RecibirFin, Tipado
  <1>3. CASE SoltarTrasRecibir(p)
    <2>1. \E pc \in PcPublicacion \ {"encolar"} : IrA(p, pc)
      BY <1>3 DEF SoltarTrasRecibir, PcPublicacion
    <2> QED BY <1>0, <1>3, <2>1 DEF SoltarTrasRecibir, Tipado
  <1>4. CASE TomarId(p)
    <2>1. publicacion' \in [Publicadores -> TipoPublicacion]
      BY <1>4 DEF TomarId, Tipado, TipoPublicacion, PcPublicacion
    <2>2. IdTomado'
      BY <1>4 DEF TomarId, Tipado, IdTomado, TipoPublicacion
    <2> QED BY <1>4, <2>1, <2>2 DEF TomarId, Tipado
  <1>5. CASE Contar(p)
    <2>1. \E pc \in PcPublicacion \ {"encolar"} : IrA(p, pc)
      BY <1>5 DEF Contar, PcPublicacion
    <2>2. g_msg_counter \in Nat \ {0} /\ g_msg_counter' = g_msg_counter + 1
      BY <1>5 DEF Contar, incremento_cnt_id_mensajes, Tipado
    <2>3. g_msg_counter' \in Nat \ {0}
      BY <2>2
    <2> QED BY <1>0, <1>5, <2>1, <2>3 DEF Contar, Tipado
  <1>6. CASE Confirmar(p)
    <2>1. \E pc \in PcPublicacion \ {"encolar"} : IrA(p, pc)
      BY <1>6 DEF Confirmar, PcPublicacion
    <2> QED BY <1>0, <1>6, <2>1 DEF Confirmar, Tipado
  <1>7. CASE FinConfirmar(p)
    <2>1. \E pc \in PcPublicacion \ {"encolar"} : IrA(p, pc)
      BY <1>7 DEF FinConfirmar, PcPublicacion
    <2> QED BY <1>0, <1>7, <2>1 DEF FinConfirmar, Tipado
  <1>8. CASE DeshabilitarInexistente(p)
    BY <1>8 DEF DeshabilitarInexistente, Tipado, IdTomado
  <1>9. CASE Deshabilitar(p)
    <2> DEFINE r == obtengo_suscriptor_cola(publicacion[p].op)
    <2>1. \E pc \in PcPublicacion \ {"encolar"} : IrA(p, pc)
      BY <1>9 DEF Deshabilitar, PcPublicacion
    <2>2. sem_cont_msjs' \in [Conexiones -> Nat]
      BY <1>9 DEF Deshabilitar, SemaforoTrasFin, Tipado
    <2>3. enabled' \in [Conexiones -> BOOLEAN]
      BY <1>9 DEF Deshabilitar, Tipado
    <2> QED BY <1>0, <1>9, <2>1, <2>2, <2>3 DEF Deshabilitar, Tipado
  <1>10. CASE Encolar(p)
    <2> DEFINE m == [id_mensaje |-> publicacion[p].id, sended_suscriptors |-> {}]
    <2>1. \E pc \in PcPublicacion \ {"encolar"} : IrA(p, pc)
      BY <1>10 DEF Encolar, PcPublicacion
    <2>2. sem_cont_msjs' \in [Conexiones -> Nat]
      BY <1>10 DEF Encolar, Aviso, Tipado
    <2>3. m \in Mensaje
      BY <1>10 DEF Encolar, Tipado, IdTomado, TipoPublicacion, Mensaje
    <2>4. mensajes_cola' \in Seq(Mensaje) /\ Len(mensajes_cola') <= Capacidad
      BY <1>10, <2>3, LugarOK, DeliveryAssumption DEF Encolar, Tipado
    <2> QED BY <1>0, <1>10, <2>1, <2>2, <2>4 DEF Encolar, Tipado
  <1> QED BY <1>1, <1>2, <1>3, <1>4, <1>5, <1>6, <1>7, <1>8, <1>9, <1>10 DEF PasoPublicacion

\* The steps of the subscription threads and of the subscribed processes.
LEMMA TiposSuscripcion ==
    ASSUME Tipado, NEW c \in Conexiones,
           Suscribir(c) \/ PasoHilo(c) \/ Recibir(c) \/ Desconectar(c)
    PROVE  Tipado'
  <1> USE DEF SigueVivo, mutexYCola, registros, clientes
  <1>0. c[1] \in Suscriptores /\ c[1] \in Nat
    BY DeliveryAssumption DEF Conexiones, DeliveryAssumption
  <1>p. \A pc \in PcHilo : Pasar(c, pc) => hilo' \in [Conexiones -> TipoHilo]
    BY PasarOK
  <1>r. obtengo_suscriptor_cola(c[1]) \in Conexiones \cup {Nadie}
    BY RegistroOK DEF Tipado
  <1>i. UNCHANGED publicacion => IdTomado'
    BY DEF Tipado, IdTomado
  <1>1. CASE Suscribir(c)
    <2>h. hilo \in [Conexiones -> TipoHilo] /\ c \in Conexiones
      BY DEF Tipado
    <2>e. hilo' = [hilo EXCEPT ![c].pc = "handshake", ![c].abierto = TRUE]
      BY <1>1 DEF Suscribir
    <2> DEFINE t == [hilo[c] EXCEPT !.pc = "handshake", !.abierto = TRUE]
    <2>t. t \in TipoHilo
      BY <2>h DEF TipoHilo, PcHilo
    <2>u. hilo' = [hilo EXCEPT ![c] = t]
      BY <2>h, <2>e DEF TipoHilo
    <2> HIDE DEF t
    <2>1. hilo' \in [Conexiones -> TipoHilo]
      BY <2>h, <2>t, <2>u
    <2>2. cliente' \in [Conexiones -> EstadoCliente]
      BY <1>1 DEF Suscribir, Tipado, EstadoCliente
    <2> QED BY <1>i, <1>1, <2>1, <2>2 DEF Suscribir, Tipado
  <1>2. CASE ContarSinEnviar(c)
    <2>1. cant_msjs_sin_enviar(c[1]) \in Nat
      BY CuentaOK DEF Tipado
    <2>h. hilo \in [Conexiones -> TipoHilo] /\ c \in Conexiones
      BY DEF Tipado
    <2>e. hilo' = [hilo EXCEPT ![c].pc = "alta",
                              ![c].cant_msjs_sem = cant_msjs_sin_enviar(c[1])]
      BY <1>2 DEF ContarSinEnviar
    <2> DEFINE n == cant_msjs_sin_enviar(c[1])
               t == [hilo[c] EXCEPT !.pc = "alta", !.cant_msjs_sem = n]
    <2> HIDE DEF n
    <2>2. t \in TipoHilo
      BY <2>h, <2>1 DEF TipoHilo, PcHilo, n
    <2>3. hilo' = [hilo EXCEPT ![c] = t]
      BY <2>h, <2>e DEF TipoHilo, n
    <2> HIDE DEF t
    <2>4. hilo' \in [Conexiones -> TipoHilo]
      BY <2>h, <2>2, <2>3
    <2> QED BY <1>i, <1>2, <2>4 DEF ContarSinEnviar, Tipado
  <1>3. CASE alta_suscriptor_cola(c)
    <2>h. hilo \in [Conexiones -> TipoHilo] /\ c \in Conexiones
      BY DEF Tipado
    <2>e. hilo' = [hilo EXCEPT ![c].pc = "lazo",
                              ![c].reg = IF obtengo_suscriptor_cola(c[1]) = Nadie THEN c
                                         ELSE obtengo_suscriptor_cola(c[1])]
      BY <1>3 DEF alta_suscriptor_cola
    <2> DEFINE r == IF obtengo_suscriptor_cola(c[1]) = Nadie THEN c ELSE obtengo_suscriptor_cola(c[1])
               t == [hilo[c] EXCEPT !.pc = "lazo", !.reg = r]
    <2>r. r \in Conexiones \cup {Nadie}
      BY <1>r
    <2> HIDE DEF r
    <2>t. t \in TipoHilo
      BY <2>h, <2>r DEF TipoHilo, PcHilo
    <2>u. hilo' = [hilo EXCEPT ![c] = t]
      BY <2>h, <2>e DEF TipoHilo, r
    <2> HIDE DEF t
    <2>1. hilo' \in [Conexiones -> TipoHilo]
      BY <2>h, <2>t, <2>u
    <2>2. suscriptores' \in Seq(Conexiones)
      BY <1>3 DEF alta_suscriptor_cola, Tipado
    <2>3. sem_cont_msjs' \in [Conexiones -> Nat]
      BY <1>3 DEF alta_suscriptor_cola, Tipado, TipoHilo
    <2>4. enabled' \in [Conexiones -> BOOLEAN]
      BY <1>3 DEF alta_suscriptor_cola, Tipado
    <2> QED BY <1>i, <1>3, <2>1, <2>2, <2>3, <2>4 DEF alta_suscriptor_cola, Tipado
  <1>4. CASE Continuar(c)
    <2>1. \E pc \in PcHilo : Pasar(c, pc)
      BY <1>4 DEF Continuar, PcHilo
    <2>2. mensajes_cola' \in Seq(Mensaje) /\ Len(mensajes_cola') = Len(mensajes_cola)
      BY <1>0, <1>4, MarcarOK DEF Continuar, Tipado
    <2> QED BY <1>i, <1>p, <1>4, <2>1, <2>2 DEF Continuar, Tipado
  <1>5. CASE Despertar(c)
    <2>1. \E pc \in PcHilo : Pasar(c, pc)
      BY <1>5 DEF Despertar, PcHilo
    <2>s. sem_cont_msjs \in [Conexiones -> Nat]
      BY DEF Tipado
    <2>e. /\ sem_cont_msjs[hilo[c].reg] > 0
          /\ sem_cont_msjs' = [sem_cont_msjs EXCEPT ![hilo[c].reg] = @ - 1]
      BY <1>5 DEF Despertar
    <2>2. sem_cont_msjs' \in [Conexiones -> Nat]
      <3>1. CASE hilo[c].reg \in Conexiones
        <4>1. sem_cont_msjs[hilo[c].reg] - 1 \in Nat
          BY <2>s, <2>e, <3>1
        <4> QED BY <2>s, <2>e, <4>1
      <3>2. CASE hilo[c].reg \notin Conexiones
        BY <2>s, <2>e, <3>2
      <3> QED BY <3>1, <3>2
    <2> QED BY <1>i, <1>p, <1>5, <2>1, <2>2 DEF Despertar, Tipado
  <1>6. CASE TrabarParaEnviar(c)
    <2>1. \E pc \in PcHilo : Pasar(c, pc)
      BY <1>6 DEF TrabarParaEnviar, PcHilo
    <2> QED BY <1>i, <1>p, <1>6, <2>1 DEF TrabarParaEnviar, Tipado
  <1>7. CASE Enviar(c)
    <2>1. \E pc \in PcHilo : Pasar(c, pc)
      BY <1>7 DEF Enviar, PcHilo
    <2>2. Despacho(c[1]) \in Paquete
      <3>1. mensajes_cola \in Seq(Mensaje)
        BY DEF Tipado
      <3>2. get_msg_sin_enviar(c[1]) \in 0 .. Len(mensajes_cola)
        BY <3>1, SinEnviarOK
      <3>3. ASSUME NEW i \in 1 .. Len(mensajes_cola)
            PROVE  mensajes_cola[i].id_mensaje \in Nat
        <4>1. mensajes_cola[i] \in Mensaje
          BY <3>1
        <4> QED BY <4>1 DEF Mensaje
      <3> QED BY <1>0, <3>2, <3>3 DEF Despacho, Paquete
    <2>3. canal' \in [Conexiones -> Paquete]
      BY <1>7, <2>2 DEF Enviar, Tipado, Paquete, Nada
    <2> QED BY <1>i, <1>p, <1>7, <2>1, <2>3 DEF Enviar, Tipado
  <1>8. CASE EnviarACerrado(c)
    <2>1. \E pc \in PcHilo : Pasar(c, pc)
      BY <1>8 DEF EnviarACerrado, PcHilo
    <2>2. enabled' \in [Conexiones -> BOOLEAN]
      BY <1>8 DEF EnviarACerrado, Tipado
    <2> QED BY <1>i, <1>p, <1>8, <2>1, <2>2 DEF EnviarACerrado, Tipado
  <1>9. CASE RecibirAck(c)
    <2>h. hilo \in [Conexiones -> TipoHilo] /\ c \in Conexiones
      BY DEF Tipado
    <2>k. canal[c].id \in Nat
      BY DEF Tipado, Paquete
    <2>e. hilo' = [hilo EXCEPT ![c].pc = "lazo", ![c].ult_id_recibido = canal[c].id,
                              ![c].reg = obtengo_suscriptor_cola(c[1])]
      BY <1>9 DEF RecibirAck
    <2> DEFINE k == canal[c].id
               r == obtengo_suscriptor_cola(c[1])
               t == [hilo[c] EXCEPT !.pc = "lazo", !.ult_id_recibido = k, !.reg = r]
    <2> HIDE DEF k, r
    <2>t. t \in TipoHilo
      BY <2>h, <1>r, <2>k DEF TipoHilo, PcHilo, k, r
    <2>u. hilo' = [hilo EXCEPT ![c] = t]
      BY <2>h, <2>e DEF TipoHilo, k, r
    <2> HIDE DEF t
    <2>1. hilo' \in [Conexiones -> TipoHilo]
      BY <2>h, <2>t, <2>u
    <2>2. canal' \in [Conexiones -> Paquete]
      BY <1>9 DEF RecibirAck, Tipado, Paquete, Nada
    <2> QED BY <1>i, <1>9, <2>1, <2>2 DEF RecibirAck, Tipado
  <1>10. CASE PerderConexion(c)
    <2>h. hilo \in [Conexiones -> TipoHilo] /\ c \in Conexiones
      BY DEF Tipado
    <2>e. hilo' = [hilo EXCEPT ![c].pc = "lazo", ![c].abierto = FALSE]
      BY <1>10 DEF PerderConexion
    <2> DEFINE t == [hilo[c] EXCEPT !.pc = "lazo", !.abierto = FALSE]
    <2>t. t \in TipoHilo
      BY <2>h DEF TipoHilo, PcHilo
    <2>u. hilo' = [hilo EXCEPT ![c] = t]
      BY <2>h, <2>e DEF TipoHilo
    <2> HIDE DEF t
    <2>1. hilo' \in [Conexiones -> TipoHilo]
      BY <2>h, <2>t, <2>u
    <2> QED BY <1>i, <1>10, <2>1 DEF PerderConexion, Tipado
  <1>11. CASE Terminar(c)
    <2>1. \E pc \in PcHilo : Pasar(c, pc)
      BY <1>11 DEF Terminar, PcHilo
    <2>2. cliente' \in [Conexiones -> EstadoCliente]
      BY <1>11 DEF Terminar, Tipado, EstadoCliente
    <2> QED BY <1>i, <1>p, <1>11, <2>1, <2>2 DEF Terminar, Tipado
  <1>12. CASE eliminar_suscriptor_por_id(c)
    <2>1. \E pc \in PcHilo : Pasar(c, pc)
      BY <1>12 DEF eliminar_suscriptor_por_id, PcHilo
    <2>2. suscriptores' \in Seq(Conexiones)
      <3> DEFINE k == PosicionRegistro(c[1])
      <3>1. suscriptores \in Seq(Conexiones)
        BY DEF Tipado
      <3>2. k \in 1 .. Len(suscriptores)
        BY <1>12, <3>1, RegistroOK DEF eliminar_suscriptor_por_id
      <3>3. suscriptores' = SubSeq(suscriptores, 1, k - 1)
                            \o SubSeq(suscriptores, k + 1, Len(suscriptores))
        BY <1>12 DEF eliminar_suscriptor_por_id, RemoveAt
      <3> HIDE DEF k
      <3>4. /\ SubSeq(suscriptores, 1, k - 1) \in Seq(Conexiones)
            /\ SubSeq(suscriptores, k + 1, Len(suscriptores)) \in Seq(Conexiones)
        BY <3>1, <3>2
      <3> QED BY <3>3, <3>4
    <2> QED BY <1>i, <1>p, <1>12, <2>1, <2>2 DEF eliminar_suscriptor_por_id, Tipado
  <1>13. CASE Recibir(c)
    <2>1. canal' \in [Conexiones -> Paquete]
      BY <1>13 DEF Recibir, Tipado, Paquete
    <2>2. recibidos' \in [Conexiones -> Seq(Nat)]
      BY <1>13 DEF Recibir, Tipado, Paquete
    <2> QED BY <1>i, <1>13, <2>1, <2>2 DEF Recibir, Tipado
  <1>14. CASE Desconectar(c)
    <2>1. canal' \in [Conexiones -> Paquete]
      BY <1>14 DEF Desconectar, Tipado, Paquete, Nada
    <2>2. cliente' \in [Conexiones -> EstadoCliente]
      BY <1>14 DEF Desconectar, Tipado, EstadoCliente
    <2> QED BY <1>i, <1>14, <2>1, <2>2 DEF Desconectar, Tipado
  <1> QED BY <1>1, <1>2, <1>3, <1>4, <1>5, <1>6, <1>7, <1>8, <1>9, <1>10, <1>11, <1>12,
             <1>13, <1>14 DEF PasoHilo

LEMMA TiposPaso == Tipado /\ [Next]_vars => Tipado'
  <1> SUFFICES ASSUME Tipado, [Next]_vars PROVE Tipado'
    OBVIOUS
  <1>1. CASE UNCHANGED vars
    BY <1>1 DEF vars, mutexYCola, registros, clientes, Tipado, IdTomado
  <1>2. CASE Next
    BY <1>2, TiposPublicacion, TiposSuscripcion DEF Next
  <1> QED BY <1>1, <1>2

\* The variables of the queue, its subscribers, their threads and their sockets keep
\* their types, and the queue never holds more than the cache: for every set of
\* processes, number of connections and requests.
THEOREM Tipos == Spec => []TypeOK
  <1>1. Spec => []Tipado
    BY TiposIniciales, TiposPaso, PTL DEF Spec
  <1> QED BY <1>1, TipadoOK, PTL

(***************************************************************************)
(* Ids.  With one publisher at a time the counter is read and incremented   *)
(* by the same thread, whoever unlocks g_mutex_msjs in between.             *)
(***************************************************************************)
UnPublicador == \A p, q \in Publicadores : p = q

\* The first id no message has: one more than g_msg_counter once it is used.
Tope == IF \E p \in Publicadores : publicacion[p].pc = "contar"
        THEN g_msg_counter + 1 ELSE g_msg_counter

Crecientes == \A i, j \in 1 .. Len(mensajes_cola) :
                 i < j => mensajes_cola[i].id_mensaje < mensajes_cola[j].id_mensaje

ElSiguiente == \A p \in Publicadores :
                  publicacion[p].pc = "encolar" => publicacion[p].id = g_msg_counter

ColaPrevia == \A i \in 1 .. Len(mensajes_cola) : mensajes_cola[i].id_mensaje < Tope

RecibidosPrevios == \A c \in Conexiones : \A k \in 1 .. Len(recibidos[c]) : recibidos[c][k] < Tope

CanalPrevio == \A c \in Conexiones : canal[c].tipo = "mensaje" => canal[c].id < Tope

Ids == Crecientes /\ ElSiguiente /\ ColaPrevia /\ RecibidosPrevios /\ CanalPrevio

LEMMA IdsIniciales == Init => Ids
  <1> SUFFICES ASSUME Init PROVE Ids
    OBVIOUS
  <1>1. Crecientes /\ ElSiguiente /\ ColaPrevia
    BY DEF Init, Crecientes, ElSiguiente, ColaPrevia
  <1>2. RecibidosPrevios /\ CanalPrevio
    BY DEF Init, Nada, RecibidosPrevios, CanalPrevio
  <1> QED BY <1>1, <1>2 DEF Ids

LEMMA TopeOK == ASSUME Tipado PROVE Tope \in Nat
  BY DEF Tope, Tipado

\* The steps of the publishing threads.
LEMMA IdsPublicacion ==
    ASSUME UnPublicador, Tipado, Ids, NEW p \in Publicadores,
           \/ RecibirPublicacion(p)
           \/ \E s \in Suscriptores : RecibirFin(p, s)
           \/ PasoPublicacion(p)
    PROVE  Ids'
  <1> USE DEF SigueVivo, mutexYCola, registros, clientes
  <1>t. /\ publicacion \in [Publicadores -> TipoPublicacion]
        /\ g_msg_counter \in Nat
        /\ Publicadores = {p}
    BY DEF Tipado, UnPublicador
  <1>u. Tope = IF publicacion[p].pc = "contar" THEN g_msg_counter + 1 ELSE g_msg_counter
    BY <1>t DEF Tope
  <1>v. Tope' = IF publicacion'[p].pc = "contar" THEN g_msg_counter' + 1 ELSE g_msg_counter'
    BY <1>t DEF Tope
  \* The steps that leave the queue, the counter and the id taken alone.
  <1>1. ASSUME UNCHANGED <<mensajes_cola, g_msg_counter, clientes>>,
               publicacion[p].pc # "contar", publicacion'[p].pc \notin {"encolar", "contar"}
        PROVE  Ids'
    <2>1. Tope' = Tope
      BY <1>u, <1>v, <1>1
    <2>2. ElSiguiente'
      BY <1>t, <1>1 DEF ElSiguiente
    <2> QED BY <1>1, <2>1, <2>2
          DEF Ids, Crecientes, ColaPrevia, RecibidosPrevios, CanalPrevio
  <1>2. CASE RecibirPublicacion(p)
    BY <1>t, <1>1, <1>2 DEF RecibirPublicacion
  <1>3. CASE \E s \in Suscriptores : RecibirFin(p, s)
    BY <1>t, <1>1, <1>3 DEF RecibirFin
  <1>4. CASE SoltarTrasRecibir(p)
    BY <1>t, <1>1, <1>4 DEF SoltarTrasRecibir, IrA, TipoPublicacion
  <1>5. CASE Confirmar(p)
    BY <1>t, <1>1, <1>5 DEF Confirmar, IrA, TipoPublicacion
  <1>6. CASE FinConfirmar(p)
    BY <1>t, <1>1, <1>6 DEF FinConfirmar, IrA, TipoPublicacion
  <1>7. CASE Deshabilitar(p)
    BY <1>t, <1>1, <1>7 DEF Deshabilitar, IrA, TipoPublicacion
  <1>8. CASE DeshabilitarInexistente(p)
    BY <1>t, <1>1, <1>8 DEF DeshabilitarInexistente
  <1>9. CASE TomarId(p)
    <2>1. /\ publicacion[p].pc = "publicar"
          /\ publicacion'[p].pc = "encolar"
          /\ publicacion'[p].id = g_msg_counter
          /\ UNCHANGED <<g_msg_counter, mensajes_cola, clientes>>
      BY <1>t, <1>9 DEF TomarId, TipoPublicacion
    <2>2. Tope' = Tope
      BY <1>u, <1>v, <2>1
    <2>3. ElSiguiente'
      BY <1>t, <2>1 DEF ElSiguiente
    <2> QED BY <2>1, <2>2, <2>3
          DEF Ids, Crecientes, ColaPrevia, RecibidosPrevios, CanalPrevio
  <1>10. CASE Contar(p)
    <2>1. /\ publicacion[p].pc = "contar"
          /\ publicacion'[p].pc = "fuera"
          /\ g_msg_counter' = g_msg_counter + 1
          /\ UNCHANGED <<mensajes_cola, clientes>>
      BY <1>t, <1>10 DEF Contar, IrA, incremento_cnt_id_mensajes, TipoPublicacion
    <2>2. Tope' = Tope
      BY <1>u, <1>v, <2>1
    <2>3. ElSiguiente'
      BY <1>t, <2>1 DEF ElSiguiente
    <2> QED BY <2>1, <2>2, <2>3
          DEF Ids, Crecientes, ColaPrevia, RecibidosPrevios, CanalPrevio
  <1>11. CASE Encolar(p)
    <2> DEFINE m == [id_mensaje |-> publicacion[p].id, sended_suscriptors |-> {}]
               corre == IF Len(mensajes_cola) = Capacidad THEN 1 ELSE 0
    <2>1. /\ publicacion[p].pc = "encolar"
          /\ publicacion'[p].pc = "contar"
          /\ UNCHANGED <<g_msg_counter, clientes>>
          /\ mensajes_cola' = Append(HacerLugar(mensajes_cola), m)
      BY <1>t, <1>11 DEF Encolar, IrA, TipoPublicacion
    <2>2. publicacion[p].id = g_msg_counter
      BY <2>1 DEF Ids, ElSiguiente
    <2>3. Tope = g_msg_counter /\ Tope' = g_msg_counter + 1
      BY <1>u, <1>v, <2>1
    <2>4. m \in Mensaje
      BY <1>t, <2>1 DEF Tipado, IdTomado, TipoPublicacion, Mensaje
    <2>5. /\ mensajes_cola' \in Seq(Mensaje)
          /\ mensajes_cola'[Len(mensajes_cola')] = m
          /\ Len(mensajes_cola') = Len(mensajes_cola) + 1 - corre
          /\ \A i \in 1 .. Len(mensajes_cola') - 1 :
                /\ i + corre \in 1 .. Len(mensajes_cola)
                /\ mensajes_cola'[i] = mensajes_cola[i + corre]
      BY <2>1, <2>4, LugarOK, DeliveryAssumption DEF Tipado
    <2>6. Len(mensajes_cola') \in Nat /\ corre \in Nat
      BY <2>5
    <2> HIDE DEF m, corre
    <2>7. m.id_mensaje = g_msg_counter
      BY <2>2 DEF m
    <2>8. ASSUME NEW i \in 1 .. Len(mensajes_cola') - 1
          PROVE  /\ mensajes_cola'[i].id_mensaje = mensajes_cola[i + corre].id_mensaje
                 /\ mensajes_cola'[i].id_mensaje < g_msg_counter
                 /\ mensajes_cola'[i].id_mensaje \in Nat
      <3>1. /\ i + corre \in 1 .. Len(mensajes_cola)
            /\ mensajes_cola'[i] = mensajes_cola[i + corre]
        BY <2>5
      <3>2. mensajes_cola[i + corre] \in Mensaje
        BY <3>1 DEF Tipado
      <3> QED BY <2>3, <3>1, <3>2 DEF Ids, ColaPrevia, Mensaje
    <2>9. Crecientes'
      <3> SUFFICES ASSUME NEW i \in 1 .. Len(mensajes_cola'), NEW j \in 1 .. Len(mensajes_cola'),
                          i < j
                   PROVE  mensajes_cola'[i].id_mensaje < mensajes_cola'[j].id_mensaje
        BY DEF Crecientes
      <3>1. i \in 1 .. Len(mensajes_cola') - 1
        BY <2>6
      <3>2. CASE j = Len(mensajes_cola')
        BY <2>5, <2>7, <2>8, <3>1, <3>2
      <3>3. CASE j # Len(mensajes_cola')
        <4>1. j \in 1 .. Len(mensajes_cola') - 1
          BY <2>6, <3>3
        <4>2. /\ i + corre \in 1 .. Len(mensajes_cola)
              /\ j + corre \in 1 .. Len(mensajes_cola)
          BY <2>5, <3>1, <4>1
        <4>3. mensajes_cola[i + corre].id_mensaje < mensajes_cola[j + corre].id_mensaje
          BY <2>6, <4>2 DEF Ids, Crecientes
        <4> QED BY <2>8, <3>1, <4>1, <4>3
      <3> QED BY <3>2, <3>3
    <2>10. ColaPrevia'
      <3> SUFFICES ASSUME NEW i \in 1 .. Len(mensajes_cola')
                   PROVE  mensajes_cola'[i].id_mensaje < g_msg_counter + 1
        BY <2>3 DEF ColaPrevia
      <3>1. CASE i = Len(mensajes_cola')
        BY <1>t, <2>5, <2>7, <3>1
      <3>2. CASE i # Len(mensajes_cola')
        <4>1. i \in 1 .. Len(mensajes_cola') - 1
          BY <2>6, <3>2
        <4> QED BY <1>t, <2>8, <4>1
      <3> QED BY <3>1, <3>2
    <2>11. RecibidosPrevios'
      <3> SUFFICES ASSUME NEW c \in Conexiones, NEW k \in 1 .. Len(recibidos[c])
                   PROVE  recibidos[c][k] < g_msg_counter + 1
        BY <2>1, <2>3 DEF RecibidosPrevios
      <3>1. recibidos[c] \in Seq(Nat)
        BY DEF Tipado
      <3>2. recibidos[c][k] \in Nat
        BY <3>1
      <3>3. recibidos[c][k] < g_msg_counter
        BY <2>3 DEF Ids, RecibidosPrevios
      <3> QED BY <1>t, <3>2, <3>3
    <2>12. CanalPrevio'
      <3> SUFFICES ASSUME NEW c \in Conexiones, canal[c].tipo = "mensaje"
                   PROVE  canal[c].id < g_msg_counter + 1
        BY <2>1, <2>3 DEF CanalPrevio
      <3>1. canal[c].id \in Nat
        BY DEF Tipado, Paquete
      <3>2. canal[c].id < g_msg_counter
        BY <2>3 DEF Ids, CanalPrevio
      <3> QED BY <1>t, <3>1, <3>2
    <2>13. ElSiguiente'
      BY <1>t, <2>1 DEF ElSiguiente
    <2> QED BY <2>9, <2>10, <2>11, <2>12, <2>13 DEF Ids
  <1> QED BY <1>2, <1>3, <1>4, <1>5, <1>6, <1>7, <1>8, <1>9, <1>10, <1>11 DEF PasoPublicacion

\* The message get_msg_sin_enviar takes, when it takes one, is in the queue.
LEMMA DespachoOK ==
    ASSUME Tipado, NEW s, Despacho(s).tipo = "mensaje"
    PROVE  \E i \in 1 .. Len(mensajes_cola) :
              /\ Despacho(s).id = mensajes_cola[i].id_mensaje
              /\ s \notin mensajes_cola[i].sended_suscriptors
              /\ \A j \in 1 .. Len(mensajes_cola) :
                    s \notin mensajes_cola[j].sended_suscriptors => i <= j
  <1>1. mensajes_cola \in Seq(Mensaje)
    BY DEF Tipado
  <1>2. get_msg_sin_enviar(s) # 0
    BY DEF Despacho
  <1> QED BY <1>1, <1>2, SinEnviarOK DEF Despacho

\* The steps of the subscription threads and of the subscribed processes.
LEMMA IdsSuscripcion ==
    ASSUME Tipado, Ids, NEW c \in Conexiones,
           Suscribir(c) \/ PasoHilo(c) \/ Recibir(c) \/ Desconectar(c)
    PROVE  Ids'
  <1> USE DEF Pasar, SigueVivo, mutexYCola, registros, clientes
  <1>0. c[1] \in Suscriptores
    BY DEF Conexiones
  <1>t. /\ canal \in [Conexiones -> Paquete]
        /\ recibidos \in [Conexiones -> Seq(Nat)]
    BY DEF Tipado
  \* The steps that leave ids and what was received alone, and put nothing in flight.
  <1>1. ASSUME UNCHANGED <<mensajes_cola, g_msg_counter, publicacion, recibidos>>,
               \A d \in Conexiones : canal'[d].tipo = "mensaje" => canal'[d] = canal[d]
        PROVE  Ids'
    <2>1. Tope' = Tope
      BY <1>1 DEF Tope
    <2> QED BY <1>1, <2>1
          DEF Ids, Crecientes, ElSiguiente, ColaPrevia, RecibidosPrevios, CanalPrevio
  <1>2. CASE Suscribir(c)
    BY <1>1, <1>2 DEF Suscribir
  <1>3. CASE ContarSinEnviar(c)
    BY <1>1, <1>3 DEF ContarSinEnviar
  <1>4. CASE alta_suscriptor_cola(c)
    BY <1>1, <1>4 DEF alta_suscriptor_cola
  <1>5. CASE Despertar(c)
    BY <1>1, <1>5 DEF Despertar
  <1>6. CASE TrabarParaEnviar(c)
    BY <1>1, <1>6 DEF TrabarParaEnviar
  <1>7. CASE EnviarACerrado(c)
    BY <1>1, <1>7 DEF EnviarACerrado
  <1>8. CASE RecibirAck(c)
    <2>1. \A d \in Conexiones : canal'[d].tipo = "mensaje" => canal'[d] = canal[d]
      BY <1>t, <1>8 DEF RecibirAck, Nada
    <2> QED BY <1>1, <1>8, <2>1 DEF RecibirAck
  <1>9. CASE PerderConexion(c)
    BY <1>1, <1>9 DEF PerderConexion
  <1>10. CASE Terminar(c)
    BY <1>1, <1>10 DEF Terminar
  <1>11. CASE eliminar_suscriptor_por_id(c)
    BY <1>1, <1>11 DEF eliminar_suscriptor_por_id
  <1>12. CASE Desconectar(c)
    <2>1. \A d \in Conexiones : canal'[d].tipo = "mensaje" => canal'[d] = canal[d]
      BY <1>t, <1>12 DEF Desconectar, Nada
    <2> QED BY <1>1, <1>12, <2>1 DEF Desconectar
  <1>13. CASE Continuar(c)
    <2>1. /\ UNCHANGED <<g_msg_counter, publicacion, clientes>>
          /\ mensajes_cola' =
                set_msg_enviado_a_suscriptor(mensajes_cola, c[1], hilo[c].ult_id_recibido)
      BY <1>13 DEF Continuar
    <2>2. /\ Len(mensajes_cola') = Len(mensajes_cola)
          /\ \A i \in 1 .. Len(mensajes_cola) :
                mensajes_cola'[i].id_mensaje = mensajes_cola[i].id_mensaje
      <3>1. mensajes_cola \in Seq(Mensaje)
        BY DEF Tipado
      <3> QED BY <1>0, <2>1, <3>1, MarcarOK
    <2>3. Tope' = Tope
      BY <2>1 DEF Tope
    <2> QED BY <2>1, <2>2, <2>3
          DEF Ids, Crecientes, ElSiguiente, ColaPrevia, RecibidosPrevios, CanalPrevio
  <1>14. CASE Enviar(c)
    <2>1. /\ UNCHANGED <<g_msg_counter, publicacion, mensajes_cola, recibidos>>
          /\ canal' = [canal EXCEPT ![c] = IF cliente[c] = "suscripto" THEN Despacho(c[1]) ELSE Nada]
      BY <1>14 DEF Enviar
    <2>2. Tope' = Tope
      BY <2>1 DEF Tope
    <2>3. Despacho(c[1]).tipo = "mensaje" => Despacho(c[1]).id < Tope
      BY DespachoOK DEF Ids, ColaPrevia
    <2>4. CanalPrevio'
      BY <1>t, <2>1, <2>2, <2>3 DEF Ids, CanalPrevio, Nada
    <2> QED BY <2>1, <2>2, <2>4 DEF Ids, Crecientes, ElSiguiente, ColaPrevia, RecibidosPrevios
  <1>15. CASE Recibir(c)
    <2>1. /\ UNCHANGED <<g_msg_counter, publicacion, mensajes_cola>>
          /\ recibidos' = IF canal[c].tipo = "mensaje"
                          THEN [recibidos EXCEPT ![c] = Append(@, canal[c].id)] ELSE recibidos
          /\ canal' = [canal EXCEPT ![c].tipo = "ack"]
      BY <1>15 DEF Recibir
    <2>2. Tope' = Tope
      BY <2>1 DEF Tope
    <2>3. \A d \in Conexiones : canal'[d].tipo = "mensaje" => canal'[d] = canal[d]
      BY <1>t, <2>1 DEF Paquete
    <2>4. CanalPrevio'
      BY <2>2, <2>3 DEF Ids, CanalPrevio
    <2>5. ASSUME NEW d \in Conexiones, NEW k \in 1 .. Len(recibidos'[d])
          PROVE  recibidos'[d][k] < Tope
      <3>1. CASE d = c /\ canal[c].tipo = "mensaje"
        <4>1. recibidos[c] \in Seq(Nat) /\ recibidos'[c] = Append(recibidos[c], canal[c].id)
          BY <1>t, <2>1, <3>1
        <4>2. canal[c].id < Tope
          BY <3>1 DEF Ids, CanalPrevio
        <4>3. CASE k = Len(recibidos[c]) + 1
          BY <3>1, <4>1, <4>2, <4>3
        <4>4. CASE k # Len(recibidos[c]) + 1
          BY <3>1, <4>1, <4>4 DEF Ids, RecibidosPrevios
        <4> QED BY <4>3, <4>4
      <3>2. CASE ~ (d = c /\ canal[c].tipo = "mensaje")
        <4>1. recibidos'[d] = recibidos[d]
          BY <1>t, <2>1, <3>2
        <4> QED BY <4>1 DEF Ids, RecibidosPrevios
      <3> QED BY <3>1, <3>2
    <2>6. RecibidosPrevios'
      BY <2>2, <2>5 DEF RecibidosPrevios
    <2> QED BY <2>1, <2>2, <2>4, <2>6 DEF Ids, Crecientes, ElSiguiente, ColaPrevia
  <1> QED BY <1>2, <1>3, <1>4, <1>5, <1>6, <1>7, <1>8, <1>9, <1>10, <1>11, <1>12, <1>13,
             <1>14, <1>15 DEF PasoHilo

LEMMA IdsPaso == UnPublicador /\ Tipado /\ Ids /\ [Next]_vars => Ids'
  <1> SUFFICES ASSUME UnPublicador, Tipado, Ids, [Next]_vars PROVE Ids'
    OBVIOUS
  <1>1. CASE UNCHANGED vars
    <2>1. UNCHANGED <<publicacion, g_msg_counter, mensajes_cola, recibidos, canal>>
      BY <1>1 DEF vars, mutexYCola, clientes
    <2>2. Tope' = Tope
      BY <2>1 DEF Tope
    <2> QED BY <2>1, <2>2
          DEF Ids, Crecientes, ElSiguiente, ColaPrevia, RecibidosPrevios, CanalPrevio
  <1>2. CASE Next
    BY <1>2, IdsPublicacion, IdsSuscripcion DEF Next
  <1> QED BY <1>1, <1>2

\* An id names one message of the queue: the ACK of a subscriber, the cache and the
\* id_correlativo of the answers all find a message by its id alone.
IdsUnicos ==
    \A i, j \in DOMAIN mensajes_cola :
        mensajes_cola[i].id_mensaje = mensajes_cola[j].id_mensaje => i = j

LEMMA CrecientesOK == ASSUME Tipado, Ids PROVE IdsUnicos
  <1> SUFFICES ASSUME NEW i \in 1 .. Len(mensajes_cola), NEW j \in 1 .. Len(mensajes_cola),
                      mensajes_cola[i].id_mensaje = mensajes_cola[j].id_mensaje
               PROVE  i = j
    <2>1. DOMAIN mensajes_cola = 1 .. Len(mensajes_cola)
      BY DEF Tipado
    <2> QED BY <2>1 DEF IdsUnicos
  <1>1. mensajes_cola[i] \in Mensaje /\ mensajes_cola[j] \in Mensaje
    BY DEF Tipado
  <1>2. ~ (i < j) /\ ~ (j < i)
    BY <1>1 DEF Ids, Crecientes, Mensaje
  <1> QED BY <1>2

(***************************************************************************)
(* The order of what a process receives                                    *)
(***************************************************************************)
\* The process acknowledged id, and its thread is about to mark it as sent.
Confirma(c, id) ==
    \/ hilo[c].pc = "lazo" /\ hilo[c].ult_id_recibido = id
    \/ canal[c].tipo = "ack" /\ canal[c].id = id

\* Something is in flight only while the thread waits for the handshake, and nothing
\* is, nor was received, before the process subscribes.
Ocupado(c) ==
    /\ canal[c].tipo # "nada" => hilo[c].pc = "ack"
    /\ cliente[c] = "fuera" => canal[c].tipo = "nada" /\ Len(recibidos[c]) = 0

\* What was received is older than every message still to send, but for the one whose
\* mark is on its way.
RecibidoAntes(c) ==
    hilo[c].pc \notin {"baja", "fin"} =>
        \A i \in 1 .. Len(mensajes_cola), k \in 1 .. Len(recibidos[c]) :
            c[1] \notin mensajes_cola[i].sended_suscriptors =>
                \/ recibidos[c][k] < mensajes_cola[i].id_mensaje
                \/ /\ recibidos[c][k] = mensajes_cola[i].id_mensaje
                   /\ Confirma(c, recibidos[c][k])

\* A message in flight is newer than what was received, and no message still to send
\* is older than it.
EnVuelo(c) ==
    canal[c].tipo = "mensaje" =>
        /\ \A k \in 1 .. Len(recibidos[c]) : recibidos[c][k] < canal[c].id
        /\ \A i \in 1 .. Len(mensajes_cola) :
              c[1] \notin mensajes_cola[i].sended_suscriptors =>
                  canal[c].id <= mensajes_cola[i].id_mensaje

RecibidoEnOrden(c) ==
    \A i, j \in 1 .. Len(recibidos[c]) : i < j => recibidos[c][i] < recibidos[c][j]

Entrega(c) == Ocupado(c) /\ RecibidoAntes(c) /\ EnVuelo(c) /\ RecibidoEnOrden(c)

Entregas == \A c \in Conexiones : Entrega(c)

LEMMA EntregasIniciales == Init => Entregas
  <1> SUFFICES ASSUME Init, NEW c \in Conexiones PROVE Entrega(c)
    BY DEF Entregas
  <1>1. canal[c].tipo = "nada" /\ Len(recibidos[c]) = 0 /\ Len(mensajes_cola) = 0
    BY DEF Init, Nada
  <1> QED BY <1>1 DEF Entrega, Ocupado, RecibidoAntes, EnVuelo, RecibidoEnOrden

\* The messages and their order are the same; some may be marked.
ColaMarcada ==
    /\ Len(mensajes_cola') = Len(mensajes_cola)
    /\ \A i \in 1 .. Len(mensajes_cola) :
          /\ mensajes_cola'[i].id_mensaje = mensajes_cola[i].id_mensaje
          /\ mensajes_cola[i].sended_suscriptors \subseteq mensajes_cola'[i].sended_suscriptors

\* A connection that takes no step keeps its order.
LEMMA OtraConexion ==
    ASSUME NEW d \in Conexiones, Entrega(d), ColaMarcada,
           hilo'[d] = hilo[d], canal'[d] = canal[d],
           recibidos'[d] = recibidos[d], cliente'[d] = cliente[d]
    PROVE  Entrega(d)'
  <1>1. Ocupado(d)' /\ RecibidoEnOrden(d)'
    BY DEF Entrega, Ocupado, RecibidoEnOrden
  <1>2. RecibidoAntes(d)'
    BY DEF Entrega, RecibidoAntes, ColaMarcada, Confirma
  <1>3. EnVuelo(d)'
    BY DEF Entrega, EnVuelo, ColaMarcada
  <1> QED BY <1>1, <1>2, <1>3 DEF Entrega

\* A thread that goes on with nothing in flight and, if it was in its loop, leaves it.
LEMMA SinNadaEnVuelo ==
    ASSUME NEW c \in Conexiones, Entrega(c), UNCHANGED mensajes_cola,
           hilo[c].pc \notin {"lazo", "ack", "baja", "fin"} \/ hilo'[c].pc \in {"baja", "fin"},
           hilo[c].pc # "ack", canal'[c] = canal[c], recibidos'[c] = recibidos[c],
           cliente'[c] = "fuera" => cliente[c] = "fuera"
    PROVE  Entrega(c)'
  <1>1. canal[c].tipo = "nada"
    BY DEF Entrega, Ocupado
  <1>2. Ocupado(c)' /\ RecibidoEnOrden(c)' /\ EnVuelo(c)'
    BY <1>1 DEF Entrega, Ocupado, RecibidoEnOrden, EnVuelo
  <1>3. RecibidoAntes(c)'
    BY <1>1 DEF Entrega, RecibidoAntes, Confirma
  <1> QED BY <1>2, <1>3 DEF Entrega

LEMMA EntregaPublicacion ==
    ASSUME UnPublicador, Tipado, Ids, Entregas, NEW p \in Publicadores,
           \/ RecibirPublicacion(p)
           \/ \E s \in Suscriptores : RecibirFin(p, s)
           \/ PasoPublicacion(p),
           NEW c \in Conexiones
    PROVE  Entrega(c)'
  <1>0. Entrega(c)
    BY DEF Entregas
  <1>h. UNCHANGED <<hilo, canal, recibidos, cliente>>
    BY DEF PasoPublicacion, RecibirPublicacion, RecibirFin, SoltarTrasRecibir, TomarId, Encolar,
           Contar, Deshabilitar, DeshabilitarInexistente, Confirmar, FinConfirmar, clientes
  <1>1. CASE UNCHANGED mensajes_cola
    BY <1>0, <1>h, <1>1, OtraConexion DEF ColaMarcada
  <1>2. CASE Encolar(p)
    <2> DEFINE m == [id_mensaje |-> publicacion[p].id, sended_suscriptors |-> {}]
               corre == IF Len(mensajes_cola) = Capacidad THEN 1 ELSE 0
    <2>1. publicacion[p].pc = "encolar" /\ mensajes_cola' = Append(HacerLugar(mensajes_cola), m)
      BY <1>2 DEF Encolar
    <2>2. publicacion[p].id = g_msg_counter
      BY <2>1 DEF Ids, ElSiguiente
    <2>3. Tope = g_msg_counter
      BY <2>1 DEF Tope, UnPublicador
    <2>4. m \in Mensaje
      BY <2>1 DEF Tipado, IdTomado, TipoPublicacion, Mensaje
    <2>5. /\ Len(mensajes_cola') \in Nat
          /\ mensajes_cola'[Len(mensajes_cola')] = m
          /\ \A i \in 1 .. Len(mensajes_cola') - 1 :
                /\ i + corre \in 1 .. Len(mensajes_cola)
                /\ mensajes_cola'[i] = mensajes_cola[i + corre]
      BY <2>1, <2>4, LugarOK, DeliveryAssumption DEF Tipado
    <2>6. \A i \in 1 .. Len(mensajes_cola') :
             \/ mensajes_cola'[i].id_mensaje = Tope
             \/ \E j \in 1 .. Len(mensajes_cola) : mensajes_cola'[i] = mensajes_cola[j]
      <3> HIDE DEF corre
      <3> SUFFICES ASSUME NEW i \in 1 .. Len(mensajes_cola'), i # Len(mensajes_cola')
                   PROVE  \E j \in 1 .. Len(mensajes_cola) : mensajes_cola'[i] = mensajes_cola[j]
        BY <2>2, <2>3, <2>5
      <3>1. i \in 1 .. Len(mensajes_cola') - 1
        BY <2>5
      <3> QED BY <2>5, <3>1
    <2>7. Ocupado(c)' /\ RecibidoEnOrden(c)'
      BY <1>0, <1>h DEF Entrega, Ocupado, RecibidoEnOrden
    <2>8. RecibidoAntes(c)'
      BY <1>0, <1>h, <2>6 DEF Entrega, RecibidoAntes, Confirma, Ids, RecibidosPrevios
    <2>9. EnVuelo(c)'
      <3> SUFFICES ASSUME canal[c].tipo = "mensaje"
                   PROVE  /\ \A k \in 1 .. Len(recibidos[c]) : recibidos[c][k] < canal[c].id
                          /\ \A i \in 1 .. Len(mensajes_cola') :
                                c[1] \notin mensajes_cola'[i].sended_suscriptors =>
                                    canal[c].id <= mensajes_cola'[i].id_mensaje
        BY <1>h DEF EnVuelo
      <3>1. canal[c].id \in Nat /\ Tope \in Nat /\ canal[c].id < Tope
        BY TopeOK DEF Tipado, Paquete, Ids, CanalPrevio
      <3>2. canal[c].id <= Tope
        BY <3>1
      <3> QED BY <1>0, <2>6, <3>2 DEF Entrega, EnVuelo
    <2> QED BY <2>7, <2>8, <2>9 DEF Entrega
  <1>3. UNCHANGED mensajes_cola \/ Encolar(p)
    BY DEF PasoPublicacion, RecibirPublicacion, RecibirFin, SoltarTrasRecibir, TomarId,
           Contar, Deshabilitar, DeshabilitarInexistente, Confirmar, FinConfirmar, mutexYCola
  <1> QED BY <1>1, <1>2, <1>3

\* The steps that mark, send, receive and acknowledge a message.
LEMMA EntregaContinuar ==
    ASSUME Tipado, Ids, NEW c \in Conexiones, Entrega(c), Continuar(c)
    PROVE  ColaMarcada /\ Entrega(c)'
  <1>0. c[1] \in Suscriptores /\ mensajes_cola \in Seq(Mensaje) /\ hilo \in [Conexiones -> TipoHilo]
    BY DEF Conexiones, Tipado
  <1>1. /\ hilo[c].pc = "lazo"
        /\ mensajes_cola' =
              set_msg_enviado_a_suscriptor(mensajes_cola, c[1], hilo[c].ult_id_recibido)
        /\ UNCHANGED clientes
        /\ hilo' = [hilo EXCEPT ![c].pc = "esperar"]
    BY DEF Continuar, Pasar
  <1>2. hilo'[c].pc = "esperar" /\ UNCHANGED <<canal, recibidos, cliente>>
    BY <1>0, <1>1 DEF TipoHilo, clientes
  <1>3. ColaMarcada
    BY <1>0, <1>1, MarcarOK DEF ColaMarcada
  <1>4. \A i, j \in 1 .. Len(mensajes_cola) :
           mensajes_cola[i].id_mensaje = mensajes_cola[j].id_mensaje => i = j
    <2>1. DOMAIN mensajes_cola = 1 .. Len(mensajes_cola)
      BY <1>0
    <2> QED BY <2>1, CrecientesOK DEF IdsUnicos
  <1>5. \A i \in 1 .. Len(mensajes_cola) :
           mensajes_cola[i].id_mensaje = hilo[c].ult_id_recibido =>
               c[1] \in mensajes_cola'[i].sended_suscriptors
    BY <1>0, <1>1, <1>4, MarcarOK
  <1>6. canal[c].tipo = "nada"
    BY <1>1 DEF Entrega, Ocupado
  <1>7. Ocupado(c)' /\ RecibidoEnOrden(c)' /\ EnVuelo(c)'
    BY <1>2, <1>6 DEF Entrega, Ocupado, RecibidoEnOrden, EnVuelo
  <1>8. RecibidoAntes(c)'
    BY <1>1, <1>2, <1>3, <1>5, <1>6 DEF Entrega, RecibidoAntes, Confirma, ColaMarcada
  <1> QED BY <1>3, <1>7, <1>8 DEF Entrega

LEMMA EntregaEnviar ==
    ASSUME Tipado, Ids, NEW c \in Conexiones, Entrega(c), Enviar(c)
    PROVE  Entrega(c)'
  <1>1. /\ hilo[c].pc = "enviar"
        /\ hilo'[c].pc = "ack"
        /\ canal'[c] = IF cliente[c] = "suscripto" THEN Despacho(c[1]) ELSE Nada
        /\ UNCHANGED <<recibidos, cliente, mensajes_cola>>
    BY DEF Enviar, Pasar, Tipado, TipoHilo
  <1>2. canal[c].tipo = "nada"
    BY <1>1 DEF Entrega, Ocupado
  <1>3. Ocupado(c)' /\ RecibidoEnOrden(c)'
    BY <1>1, <1>2 DEF Entrega, Ocupado, RecibidoEnOrden, Nada
  <1>4. \A i \in 1 .. Len(mensajes_cola), k \in 1 .. Len(recibidos[c]) :
           c[1] \notin mensajes_cola[i].sended_suscriptors =>
               recibidos[c][k] < mensajes_cola[i].id_mensaje
    BY <1>1, <1>2 DEF Entrega, RecibidoAntes, Confirma
  <1>5. RecibidoAntes(c)'
    BY <1>1, <1>4 DEF RecibidoAntes
  <1>6. EnVuelo(c)'
    <2> SUFFICES ASSUME Despacho(c[1]).tipo = "mensaje", canal'[c] = Despacho(c[1])
                 PROVE  EnVuelo(c)'
      BY <1>1 DEF EnVuelo, Nada
    <2>1. PICK i \in 1 .. Len(mensajes_cola) :
             /\ Despacho(c[1]).id = mensajes_cola[i].id_mensaje
             /\ c[1] \notin mensajes_cola[i].sended_suscriptors
             /\ \A j \in 1 .. Len(mensajes_cola) :
                   c[1] \notin mensajes_cola[j].sended_suscriptors => i <= j
      BY DespachoOK
    <2>2. ASSUME NEW j \in 1 .. Len(mensajes_cola), i <= j
          PROVE  mensajes_cola[i].id_mensaje <= mensajes_cola[j].id_mensaje
      <3>1. mensajes_cola[i] \in Mensaje /\ mensajes_cola[j] \in Mensaje
        BY DEF Tipado
      <3>2. i = j \/ mensajes_cola[i].id_mensaje < mensajes_cola[j].id_mensaje
        BY <2>2 DEF Ids, Crecientes
      <3> QED BY <3>1, <3>2 DEF Mensaje
    <2> QED BY <1>1, <1>4, <2>1, <2>2 DEF EnVuelo
  <1> QED BY <1>3, <1>5, <1>6 DEF Entrega

LEMMA EntregaRecibir ==
    ASSUME Tipado, NEW c \in Conexiones, Entrega(c), Recibir(c)
    PROVE  Entrega(c)'
  <1>t. /\ canal \in [Conexiones -> Paquete]
        /\ recibidos \in [Conexiones -> Seq(Nat)]
        /\ mensajes_cola \in Seq(Mensaje)
    BY DEF Tipado
  <1>1. /\ canal[c].tipo \in {"mensaje", "vacia"}
        /\ canal'[c].tipo = "ack"
        /\ canal'[c].id = canal[c].id
        /\ recibidos'[c] = IF canal[c].tipo = "mensaje"
                           THEN Append(recibidos[c], canal[c].id) ELSE recibidos[c]
        /\ cliente[c] = "suscripto"
        /\ UNCHANGED <<hilo, cliente, mensajes_cola>>
    BY <1>t DEF Recibir, Paquete, mutexYCola
  <1>2. hilo[c].pc = "ack"
    BY <1>1 DEF Entrega, Ocupado
  <1>3. Ocupado(c)' /\ EnVuelo(c)'
    BY <1>1, <1>2 DEF Ocupado, EnVuelo
  <1>4. \A i \in 1 .. Len(mensajes_cola), k \in 1 .. Len(recibidos[c]) :
           c[1] \notin mensajes_cola[i].sended_suscriptors =>
               recibidos[c][k] < mensajes_cola[i].id_mensaje
    BY <1>1, <1>2 DEF Entrega, RecibidoAntes, Confirma
  <1>5. CASE canal[c].tipo = "vacia"
    BY <1>1, <1>3, <1>4, <1>5 DEF Entrega, RecibidoAntes, RecibidoEnOrden
  <1>6. CASE canal[c].tipo = "mensaje"
    <2> DEFINE n == Len(recibidos[c])
    <2>1. /\ n \in Nat
          /\ recibidos[c] \in Seq(Nat)
          /\ canal[c].id \in Nat
          /\ Len(recibidos'[c]) = n + 1
          /\ \A k \in 1 .. n : recibidos'[c][k] = recibidos[c][k]
          /\ recibidos'[c][n + 1] = canal[c].id
      BY <1>t, <1>1, <1>6 DEF Paquete
    <2> HIDE DEF n
    <2>2. \A k \in 1 .. n : recibidos[c][k] < canal[c].id
      BY <1>6 DEF Entrega, EnVuelo, n
    <2>3. \A k \in 1 .. n + 1 : k \in 1 .. n \/ k = n + 1
      BY <2>1
    <2>4. RecibidoEnOrden(c)'
      <3> SUFFICES ASSUME NEW i \in 1 .. n + 1, NEW j \in 1 .. n + 1, i < j
                   PROVE  recibidos'[c][i] < recibidos'[c][j]
        BY <2>1 DEF RecibidoEnOrden
      <3>1. i \in 1 .. n
        BY <2>1
      <3>2. CASE j = n + 1
        BY <2>1, <2>2, <3>1, <3>2
      <3>3. CASE j \in 1 .. n
        BY <2>1, <3>1, <3>3 DEF Entrega, RecibidoEnOrden, n
      <3> QED BY <2>3, <3>2, <3>3
    <2>5. RecibidoAntes(c)'
      <3> SUFFICES ASSUME NEW i \in 1 .. Len(mensajes_cola), NEW k \in 1 .. n + 1,
                          c[1] \notin mensajes_cola[i].sended_suscriptors
                   PROVE  \/ recibidos'[c][k] < mensajes_cola[i].id_mensaje
                          \/ /\ recibidos'[c][k] = mensajes_cola[i].id_mensaje
                             /\ recibidos'[c][k] = canal[c].id
        BY <1>1, <2>1 DEF RecibidoAntes, Confirma
      <3>1. CASE k \in 1 .. n
        BY <1>4, <2>1, <3>1 DEF n
      <3>2. CASE k = n + 1
        <4>1. canal[c].id <= mensajes_cola[i].id_mensaje
          BY <1>6 DEF Entrega, EnVuelo
        <4>2. mensajes_cola[i] \in Mensaje
          BY <1>t
        <4>3. mensajes_cola[i].id_mensaje \in Nat
          BY <4>2 DEF Mensaje
        <4> QED BY <2>1, <3>2, <4>1, <4>3
      <3> QED BY <2>3, <3>1, <3>2
    <2> QED BY <1>3, <2>4, <2>5 DEF Entrega
  <1> QED BY <1>1, <1>5, <1>6

LEMMA EntregaAck ==
    ASSUME Tipado, NEW c \in Conexiones, Entrega(c), RecibirAck(c)
    PROVE  Entrega(c)'
  <1>1. /\ canal[c].tipo = "ack"
        /\ canal'[c] = Nada
        /\ hilo[c].pc = "ack"
        /\ hilo'[c].pc = "lazo"
        /\ hilo'[c].ult_id_recibido = canal[c].id
        /\ UNCHANGED <<recibidos, cliente, mensajes_cola>>
    BY DEF RecibirAck, Tipado, TipoHilo
  <1>2. Ocupado(c)' /\ RecibidoEnOrden(c)' /\ EnVuelo(c)'
    BY <1>1 DEF Entrega, Ocupado, RecibidoEnOrden, EnVuelo, Nada
  <1>3. \A id : Confirma(c, id) => Confirma(c, id)'
    BY <1>1 DEF Confirma
  <1>4. RecibidoAntes(c)'
    BY <1>1, <1>3 DEF Entrega, RecibidoAntes
  <1> QED BY <1>2, <1>4 DEF Entrega

LEMMA EntregaPerder ==
    ASSUME Tipado, NEW c \in Conexiones, Entrega(c), PerderConexion(c)
    PROVE  Entrega(c)'
  <1>1. /\ canal[c] = Nada
        /\ hilo[c].pc = "ack"
        /\ UNCHANGED <<canal, recibidos, cliente, mensajes_cola>>
    BY DEF PerderConexion, clientes, mutexYCola
  <1>2. Ocupado(c)' /\ RecibidoEnOrden(c)' /\ EnVuelo(c)'
    BY <1>1 DEF Entrega, Ocupado, RecibidoEnOrden, EnVuelo, Nada
  <1>3. RecibidoAntes(c)'
    BY <1>1 DEF Entrega, RecibidoAntes, Confirma, Nada
  <1> QED BY <1>2, <1>3 DEF Entrega

LEMMA EntregaDesconectar ==
    ASSUME Tipado, NEW c \in Conexiones, Entrega(c), Desconectar(c)
    PROVE  Entrega(c)'
  <1>1. /\ canal'[c] = IF canal[c].tipo = "ack" THEN canal[c] ELSE Nada
        /\ cliente'[c] = "desconectado"
        /\ UNCHANGED <<hilo, recibidos, mensajes_cola>>
    BY DEF Desconectar, Tipado, mutexYCola
  <1>2. Ocupado(c)' /\ RecibidoEnOrden(c)' /\ EnVuelo(c)'
    BY <1>1 DEF Entrega, Ocupado, RecibidoEnOrden, EnVuelo, Nada
  <1>3. \A id : Confirma(c, id) => Confirma(c, id)'
    BY <1>1 DEF Confirma
  <1>4. RecibidoAntes(c)'
    BY <1>1, <1>3 DEF Entrega, RecibidoAntes
  <1> QED BY <1>2, <1>4 DEF Entrega

LEMMA EntregaSuscribir ==
    ASSUME Tipado, NEW c \in Conexiones, Entrega(c), Suscribir(c)
    PROVE  Entrega(c)'
  <1>1. cliente[c] = "fuera" /\ cliente'[c] = "suscripto"
    BY DEF Suscribir, Tipado
  <1>2. UNCHANGED <<canal, recibidos, mensajes_cola>>
    BY DEF Suscribir, mutexYCola
  <1>3. canal[c].tipo = "nada" /\ Len(recibidos[c]) = 0
    BY <1>1 DEF Entrega, Ocupado
  <1> QED BY <1>1, <1>2, <1>3 DEF Entrega, Ocupado, RecibidoAntes, EnVuelo, RecibidoEnOrden

\* The steps that neither send nor receive: only the point the thread is at changes.
LEMMA EntregaDemas ==
    ASSUME Tipado, NEW c \in Conexiones, Entrega(c),
           \/ ContarSinEnviar(c)
           \/ alta_suscriptor_cola(c)
           \/ Despertar(c)
           \/ TrabarParaEnviar(c)
           \/ EnviarACerrado(c)
           \/ Terminar(c)
           \/ eliminar_suscriptor_por_id(c)
    PROVE  Entrega(c)'
  <1> USE DEF Pasar, TipoHilo
  <1>t. hilo \in [Conexiones -> TipoHilo] /\ cliente \in [Conexiones -> EstadoCliente]
    BY DEF Tipado
  <1>1. UNCHANGED <<canal, recibidos, mensajes_cola>>
    BY DEF ContarSinEnviar, alta_suscriptor_cola, Despertar, TrabarParaEnviar, EnviarACerrado,
           Terminar, eliminar_suscriptor_por_id, clientes, mutexYCola
  <1>2. hilo[c].pc # "ack"
    BY DEF ContarSinEnviar, alta_suscriptor_cola, Despertar, TrabarParaEnviar, EnviarACerrado,
           Terminar, eliminar_suscriptor_por_id
  <1>3. cliente'[c] = "fuera" => cliente[c] = "fuera"
    BY <1>t DEF ContarSinEnviar, alta_suscriptor_cola, Despertar, TrabarParaEnviar,
                EnviarACerrado, Terminar, eliminar_suscriptor_por_id, clientes
  <1>4. hilo[c].pc \notin {"lazo", "ack", "baja", "fin"} \/ hilo'[c].pc \in {"baja", "fin"}
    BY <1>t DEF ContarSinEnviar, alta_suscriptor_cola, Despertar, TrabarParaEnviar,
                EnviarACerrado, Terminar, eliminar_suscriptor_por_id
  <1> QED BY <1>1, <1>2, <1>3, <1>4, SinNadaEnVuelo

LEMMA EntregaSuscripcion ==
    ASSUME Tipado, Ids, Entregas, NEW c \in Conexiones,
           Suscribir(c) \/ PasoHilo(c) \/ Recibir(c) \/ Desconectar(c),
           NEW d \in Conexiones
    PROVE  Entrega(d)'
  <1>0. Entrega(c) /\ Entrega(d)
    BY DEF Entregas
  <1>1. CASE d = c
    BY <1>0, <1>1, EntregaContinuar, EntregaEnviar, EntregaRecibir, EntregaAck, EntregaPerder,
       EntregaDesconectar, EntregaSuscribir, EntregaDemas DEF PasoHilo
  <1>2. CASE d # c
    <2>t. /\ hilo \in [Conexiones -> TipoHilo]
          /\ canal \in [Conexiones -> Paquete]
          /\ recibidos \in [Conexiones -> Seq(Nat)]
          /\ cliente \in [Conexiones -> EstadoCliente]
      BY DEF Tipado
    <2>1. ColaMarcada
      <3>1. CASE Continuar(c)
        BY <1>0, <3>1, EntregaContinuar
      <3>2. CASE ~ Continuar(c)
        <4>1. UNCHANGED mensajes_cola
          BY <3>2 DEF PasoHilo, Suscribir, ContarSinEnviar, alta_suscriptor_cola, Despertar,
                      TrabarParaEnviar, Enviar, EnviarACerrado, RecibirAck, PerderConexion,
                      Terminar, eliminar_suscriptor_por_id, Recibir, Desconectar, mutexYCola
        <4> QED BY <4>1 DEF ColaMarcada
      <3> QED BY <3>1, <3>2
    <2>2. hilo'[d] = hilo[d]
      BY <1>2, <2>t DEF PasoHilo, Suscribir, ContarSinEnviar, alta_suscriptor_cola, Continuar,
                  Despertar, TrabarParaEnviar, Enviar, EnviarACerrado, RecibirAck,
                  PerderConexion, Terminar, eliminar_suscriptor_por_id, Recibir,
                  Desconectar, Pasar
    <2>3. /\ canal'[d] = canal[d]
          /\ recibidos'[d] = recibidos[d]
          /\ cliente'[d] = cliente[d]
      BY <1>2, <2>t DEF PasoHilo, Suscribir, ContarSinEnviar, alta_suscriptor_cola, Continuar,
                  Despertar, TrabarParaEnviar, Enviar, EnviarACerrado, RecibirAck,
                  PerderConexion, Terminar, eliminar_suscriptor_por_id, Recibir,
                  Desconectar, clientes
    <2> QED BY <1>0, <2>1, <2>2, <2>3, OtraConexion
  <1> QED BY <1>1, <1>2

LEMMA EntregasPaso == UnPublicador /\ Tipado /\ Ids /\ Entregas /\ [Next]_vars => Entregas'
  <1> SUFFICES ASSUME UnPublicador, Tipado, Ids, Entregas, [Next]_vars,
                      NEW d \in Conexiones
               PROVE  Entrega(d)'
    BY DEF Entregas
  <1>1. CASE UNCHANGED vars
    <2>1. ColaMarcada /\ UNCHANGED <<hilo, canal, recibidos, cliente>>
      BY <1>1 DEF vars, mutexYCola, clientes, ColaMarcada
    <2> QED BY <2>1, OtraConexion DEF Entregas
  <1>2. CASE Next
    BY <1>2, EntregaPublicacion, EntregaSuscripcion DEF Next
  <1> QED BY <1>1, <1>2

LEMMA EntregasOK == ASSUME Tipado, Entregas PROVE EntregaEnOrden
  <1> SUFFICES ASSUME NEW c \in Conexiones,
                      NEW i \in DOMAIN recibidos[c], NEW j \in DOMAIN recibidos[c], i < j
               PROVE  recibidos[c][i] < recibidos[c][j]
    BY DEF EntregaEnOrden
  <1>1. DOMAIN recibidos[c] = 1 .. Len(recibidos[c])
    BY DEF Tipado
  <1> QED BY <1>1 DEF Entregas, Entrega, RecibidoEnOrden

\* With one publisher at a time a process receives the messages of the queue in the
\* order of their ids and, on one connection, none twice: whatever was evicted, lost,
\* acknowledged late or acknowledged by another of its threads, and whatever it was
\* told by a COLA_VACIA (atender_suscripcion, despachar_msjs_get).
THEOREM OrdenDeEntrega ==
    ASSUME UnPublicador
    PROVE  Spec => []EntregaEnOrden
  <1>1. Init => Tipado /\ Ids /\ Entregas
    BY TiposIniciales, IdsIniciales, EntregasIniciales
  <1>2. Tipado /\ Ids /\ Entregas /\ [Next]_vars => (Tipado /\ Ids /\ Entregas)'
    BY TiposPaso, IdsPaso, EntregasPaso
  <1>3. Tipado /\ Ids /\ Entregas => EntregaEnOrden
    BY EntregasOK
  <1> QED BY <1>1, <1>2, <1>3, PTL DEF Spec

(***************************************************************************)
(* The marks.  A COLA_VACIA carries the id_suscriptor of the process, which *)
(* acknowledges it as if it were the id of a message: no id may reach the   *)
(* number of a subscribed process.                                          *)
(***************************************************************************)
NumerosAltos == \A s \in Suscriptores : s > MaxMensajes

\* The publisher was accepted and the message is not in the queue yet.
EnCurso(p) ==
    \/ publicacion[p].pc = "recibiendo" /\ publicacion[p].op = 0
    \/ publicacion[p].pc \in {"publicar", "encolar"}

\* Each id used was a request.
Acotados ==
    /\ pedidos.mensajes <= MaxMensajes
    /\ Tope <= pedidos.mensajes + 1
    /\ \A p \in Publicadores : EnCurso(p) => Tope <= pedidos.mensajes

LEMMA AcotadosInicial == Init => Acotados
  BY DeliveryAssumption DEF Init, Acotados, Tope, EnCurso, DeliveryAssumption

LEMMA AcotadosPaso == UnPublicador /\ Tipado /\ Acotados /\ [Next]_vars => Acotados'
  <1> SUFFICES ASSUME UnPublicador, Tipado, Acotados, [Next]_vars PROVE Acotados'
    OBVIOUS
  <1> USE DEF mutexYCola, registros, clientes
  <1>t. /\ publicacion \in [Publicadores -> TipoPublicacion]
        /\ g_msg_counter \in Nat
        /\ pedidos \in TipoPedidos
        /\ MaxMensajes \in Nat
    BY DeliveryAssumption DEF Tipado, DeliveryAssumption
  \* The steps that take no request and leave the counter alone.
  <1>1. ASSUME UNCHANGED <<publicacion, g_msg_counter, pedidos>>
        PROVE  Acotados'
    BY <1>1 DEF Acotados, Tope, EnCurso
  <1>2. ASSUME NEW c \in Conexiones,
               Suscribir(c) \/ PasoHilo(c) \/ Recibir(c) \/ Desconectar(c)
        PROVE  Acotados'
    <2>1. UNCHANGED <<publicacion, g_msg_counter, pedidos>>
      BY <1>2 DEF PasoHilo, Suscribir, ContarSinEnviar, alta_suscriptor_cola, Continuar,
                  Despertar, TrabarParaEnviar, Enviar, EnviarACerrado, RecibirAck,
                  PerderConexion, Terminar, eliminar_suscriptor_por_id, Recibir, Desconectar
    <2> QED BY <1>1, <2>1
  <1>3. ASSUME NEW p \in Publicadores,
               \/ RecibirPublicacion(p)
               \/ \E s \in Suscriptores : RecibirFin(p, s)
               \/ PasoPublicacion(p)
        PROVE  Acotados'
    <2>p. Publicadores = {p}
      BY DEF UnPublicador
    <2>u. Tope = IF publicacion[p].pc = "contar" THEN g_msg_counter + 1 ELSE g_msg_counter
      BY <2>p DEF Tope
    <2>v. Tope' = IF publicacion'[p].pc = "contar" THEN g_msg_counter' + 1 ELSE g_msg_counter'
      BY <2>p DEF Tope
    <2>n. Tope \in Nat /\ pedidos.mensajes \in Nat
      BY <1>t, <2>u DEF TipoPedidos
    <2>1. ASSUME publicacion[p].pc # "contar", publicacion'[p].pc # "contar",
                 UNCHANGED g_msg_counter, pedidos'.mensajes = pedidos.mensajes,
                 EnCurso(p)' => EnCurso(p)
          PROVE  Acotados'
      BY <2>p, <2>u, <2>v, <2>1 DEF Acotados
    <2>2. CASE RecibirPublicacion(p)
      <3>1. /\ publicacion[p].pc = "fuera"
            /\ publicacion'[p].pc = "recibiendo"
            /\ UNCHANGED g_msg_counter
            /\ pedidos.mensajes < MaxMensajes
            /\ pedidos'.mensajes = pedidos.mensajes + 1
        BY <1>t, <2>2 DEF RecibirPublicacion, TipoPedidos
      <3>2. Tope' = Tope
        BY <2>u, <2>v, <3>1
      <3> QED BY <1>t, <2>n, <3>1, <3>2 DEF Acotados
    <2>3. CASE \E s \in Suscriptores : RecibirFin(p, s)
      <3> PICK s \in Suscriptores : RecibirFin(p, s)
        BY <2>3
      <3>1. s # 0
        BY DeliveryAssumption DEF DeliveryAssumption
      <3>2. /\ publicacion[p].pc = "fuera"
            /\ publicacion'[p].pc = "recibiendo"
            /\ publicacion'[p].op = s
            /\ UNCHANGED g_msg_counter
            /\ pedidos'.mensajes = pedidos.mensajes
        BY <1>t DEF RecibirFin, TipoPedidos
      <3> QED BY <2>1, <3>1, <3>2 DEF EnCurso
    <2>4. CASE SoltarTrasRecibir(p)
      <3>1. /\ publicacion[p].pc = "recibiendo"
            /\ publicacion'[p].pc = IF publicacion[p].op = 0 THEN "publicar" ELSE "deshabilitar"
            /\ UNCHANGED <<g_msg_counter, pedidos>>
        BY <1>t, <2>4 DEF SoltarTrasRecibir, IrA, TipoPublicacion
      <3> QED BY <2>1, <3>1 DEF EnCurso
    <2>5. CASE TomarId(p)
      <3>1. /\ publicacion[p].pc = "publicar"
            /\ publicacion'[p].pc = "encolar"
            /\ UNCHANGED <<g_msg_counter, pedidos>>
        BY <1>t, <2>5 DEF TomarId, TipoPublicacion
      <3> QED BY <2>1, <3>1 DEF EnCurso
    <2>6. CASE Encolar(p)
      <3>1. /\ publicacion[p].pc = "encolar"
            /\ publicacion'[p].pc = "contar"
            /\ UNCHANGED <<g_msg_counter, pedidos>>
        BY <1>t, <2>6 DEF Encolar, IrA, TipoPublicacion
      <3>2. Tope <= pedidos.mensajes /\ Tope' = Tope + 1
        BY <2>u, <2>v, <3>1 DEF Acotados, EnCurso
      <3>3. \A q \in Publicadores : ~ EnCurso(q)'
        BY <2>p, <3>1 DEF EnCurso
      <3> QED BY <2>n, <3>1, <3>2, <3>3 DEF Acotados
    <2>7. CASE Contar(p)
      <3>1. /\ publicacion[p].pc = "contar"
            /\ publicacion'[p].pc = "fuera"
            /\ g_msg_counter' = g_msg_counter + 1
            /\ UNCHANGED pedidos
        BY <1>t, <2>7 DEF Contar, IrA, incremento_cnt_id_mensajes, TipoPublicacion
      <3>2. Tope' = Tope
        BY <2>u, <2>v, <3>1
      <3>3. \A q \in Publicadores : ~ EnCurso(q)'
        BY <2>p, <3>1 DEF EnCurso
      <3> QED BY <3>1, <3>2, <3>3 DEF Acotados
    <2>8. CASE Deshabilitar(p) \/ Confirmar(p) \/ FinConfirmar(p)
      <3>1. /\ publicacion[p].pc # "contar"
            /\ publicacion'[p].pc \in {"confirmar", "confirmando", "fuera"}
            /\ UNCHANGED <<g_msg_counter, pedidos>>
        BY <1>t, <2>8 DEF Deshabilitar, Confirmar, FinConfirmar, IrA, TipoPublicacion
      <3> QED BY <2>1, <3>1 DEF EnCurso
    <2>9. CASE DeshabilitarInexistente(p)
      BY <1>1, <2>9 DEF DeshabilitarInexistente
    <2> QED BY <1>3, <2>2, <2>3, <2>4, <2>5, <2>6, <2>7, <2>8, <2>9 DEF PasoPublicacion
  <1>4. CASE UNCHANGED vars
    BY <1>1, <1>4 DEF vars
  <1> QED BY <1>2, <1>3, <1>4 DEF Next

\* The process s received id on some connection.
RecibidoPor(s, id) == \E n \in 1 .. MaxConexiones : id \in ToSet(recibidos[<<s, n>>])

\* What the process s acknowledges: nothing yet, a COLA_VACIA or what it received.
Reconoce(s, id) == id = 0 \/ id = s \/ RecibidoPor(s, id)

\* Every acknowledgement, in flight or at its thread, is of one of these.
Acuses ==
    \A c \in Conexiones :
        /\ Reconoce(c[1], hilo[c].ult_id_recibido)
        /\ canal[c].tipo = "ack" => Reconoce(c[1], canal[c].id)
        /\ canal[c].tipo = "vacia" => canal[c].id = c[1]

Marcas ==
    \A i \in 1 .. Len(mensajes_cola) : \A s \in mensajes_cola[i].sended_suscriptors :
        RecibidoPor(s, mensajes_cola[i].id_mensaje)

LEMMA AcusesIniciales == Init => Acuses /\ Marcas
  BY DEF Init, Nada, Acuses, Marcas, Reconoce

\* What was received stays received.
LEMMA RecibidoQueda ==
    ASSUME Tipado, [Next]_vars, NEW s \in Suscriptores, NEW id, RecibidoPor(s, id)
    PROVE  \E n \in 1 .. MaxConexiones : id \in ToSet(recibidos'[<<s, n>>])
  <1>1. PICK n \in 1 .. MaxConexiones : id \in ToSet(recibidos[<<s, n>>])
    BY DEF RecibidoPor
  <1> DEFINE d == <<s, n>>
  <1>2. d \in Conexiones
    BY DEF Conexiones
  <1>t. recibidos \in [Conexiones -> Seq(Nat)] /\ canal \in [Conexiones -> Paquete]
    BY DEF Tipado
  <1>3. recibidos'[d] = recibidos[d] \/ \E x \in Nat : recibidos'[d] = Append(recibidos[d], x)
    <2>1. CASE \E c \in Conexiones : Recibir(c)
      <3> PICK c \in Conexiones : Recibir(c)
        BY <2>1
      <3>1. recibidos' = IF canal[c].tipo = "mensaje"
                         THEN [recibidos EXCEPT ![c] = Append(@, canal[c].id)] ELSE recibidos
        BY DEF Recibir
      <3>2. canal[c].id \in Nat
        BY <1>t DEF Paquete
      <3> HIDE DEF d
      <3> QED BY <1>2, <1>t, <3>1, <3>2
    <2>2. CASE ~ \E c \in Conexiones : Recibir(c)
      <3>1. UNCHANGED recibidos
        BY <2>2 DEF Next, vars, clientes, PasoPublicacion, PasoHilo, RecibirPublicacion,
                    RecibirFin, SoltarTrasRecibir, TomarId, Encolar, Contar, Deshabilitar,
                    DeshabilitarInexistente, Confirmar, FinConfirmar, Suscribir,
                    ContarSinEnviar, alta_suscriptor_cola, Continuar, Despertar,
                    TrabarParaEnviar, Enviar, EnviarACerrado, RecibirAck, PerderConexion,
                    Terminar, eliminar_suscriptor_por_id, Desconectar
      <3> QED BY <3>1
    <2> QED BY <2>1, <2>2
  <1>4. recibidos[d] \in Seq(Nat)
    BY <1>2, <1>t
  <1> HIDE DEF d
  <1>5. \A x \in Nat : ToSet(recibidos[d]) \subseteq ToSet(Append(recibidos[d], x))
    BY <1>4 DEF ToSet
  <1>6. id \in ToSet(recibidos'[d])
    BY <1>1, <1>3, <1>5 DEF d
  <1> QED BY <1>6 DEF d

LEMMA ReconoceQueda ==
    ASSUME Tipado, [Next]_vars, NEW s \in Suscriptores, NEW id, Reconoce(s, id)
    PROVE  Reconoce(s, id)'
  <1>1. RecibidoPor(s, id) => RecibidoPor(s, id)'
    BY RecibidoQueda DEF RecibidoPor
  <1> QED BY <1>1 DEF Reconoce

\* A mark is of a message that was received, or of the one being acknowledged.
LEMMA MarcasPaso ==
    ASSUME UnPublicador, NumerosAltos, Tipado, Ids, Acotados, Acuses, Marcas, [Next]_vars
    PROVE  Marcas'
  <1>t. /\ mensajes_cola \in Seq(Mensaje)
        /\ Len(mensajes_cola) <= Capacidad
        /\ mensajes_cola' \in Seq(Mensaje)
    BY TiposPaso DEF Tipado
  <1>s. ASSUME NEW i \in 1 .. Len(mensajes_cola), NEW s \in mensajes_cola[i].sended_suscriptors
        PROVE  \E n \in 1 .. MaxConexiones :
                  mensajes_cola[i].id_mensaje \in ToSet(recibidos'[<<s, n>>])
    <2>1. mensajes_cola[i] \in Mensaje
      BY <1>t
    <2>2. s \in Suscriptores
      BY <2>1 DEF Mensaje
    <2>3. RecibidoPor(s, mensajes_cola[i].id_mensaje)
      BY DEF Marcas
    <2> QED BY <2>2, <2>3, RecibidoQueda
  \* The steps that leave the queue alone.
  <1>1. ASSUME UNCHANGED mensajes_cola
        PROVE  Marcas'
    BY <1>1, <1>s DEF Marcas, RecibidoPor
  <1>2. ASSUME NEW p \in Publicadores, Encolar(p)
        PROVE  Marcas'
    <2> DEFINE m == [id_mensaje |-> publicacion[p].id, sended_suscriptors |-> {}]
               corre == IF Len(mensajes_cola) = Capacidad THEN 1 ELSE 0
    <2>1. m \in Mensaje
      BY <1>2 DEF Encolar, Tipado, IdTomado, TipoPublicacion, Mensaje
    <2>2. mensajes_cola' = Append(HacerLugar(mensajes_cola), m)
      BY <1>2 DEF Encolar
    <2>3. /\ mensajes_cola'[Len(mensajes_cola')] = m
          /\ \A i \in 1 .. Len(mensajes_cola') - 1 :
                /\ i + corre \in 1 .. Len(mensajes_cola)
                /\ mensajes_cola'[i] = mensajes_cola[i + corre]
      BY <1>t, <2>1, <2>2, LugarOK, DeliveryAssumption
    <2>4. m.sended_suscriptors = {}
      OBVIOUS
    <2> HIDE DEF m, corre
    <2>5. ASSUME NEW i \in 1 .. Len(mensajes_cola'),
                 NEW s \in mensajes_cola'[i].sended_suscriptors
          PROVE  \E n \in 1 .. MaxConexiones :
                    mensajes_cola'[i].id_mensaje \in ToSet(recibidos'[<<s, n>>])
      <3>1. i \in 1 .. Len(mensajes_cola') - 1
        BY <1>t, <2>3, <2>4
      <3> QED BY <1>s, <2>3, <3>1
    <2> QED BY <2>5 DEF Marcas, RecibidoPor
  <1>3. ASSUME NEW c \in Conexiones, Continuar(c)
        PROVE  Marcas'
    <2>0. c[1] \in Suscriptores /\ c[1] \in Nat
      BY DeliveryAssumption DEF Conexiones, DeliveryAssumption
    <2>1. /\ Len(mensajes_cola') = Len(mensajes_cola)
          /\ \A i \in 1 .. Len(mensajes_cola) :
                /\ mensajes_cola'[i].id_mensaje = mensajes_cola[i].id_mensaje
                /\ \A r \in mensajes_cola'[i].sended_suscriptors :
                      \/ r \in mensajes_cola[i].sended_suscriptors
                      \/ /\ r = c[1]
                         /\ mensajes_cola[i].id_mensaje = hilo[c].ult_id_recibido
      BY <1>3, <1>t, <2>0, MarcarOK DEF Continuar
    <2> SUFFICES ASSUME NEW i \in 1 .. Len(mensajes_cola),
                        NEW s \in mensajes_cola'[i].sended_suscriptors
                 PROVE  \E n \in 1 .. MaxConexiones :
                           mensajes_cola[i].id_mensaje \in ToSet(recibidos'[<<s, n>>])
      BY <2>1 DEF Marcas, RecibidoPor
    <2>2. CASE s \in mensajes_cola[i].sended_suscriptors
      BY <1>s, <2>2
    <2>3. CASE s = c[1] /\ mensajes_cola[i].id_mensaje = hilo[c].ult_id_recibido
      <3>1. mensajes_cola[i] \in Mensaje
        BY <1>t
      <3>2. mensajes_cola[i].id_mensaje \in Nat \ {0}
        BY <3>1 DEF Mensaje
      <3>3. mensajes_cola[i].id_mensaje < Tope /\ Tope \in Nat
        BY TopeOK DEF Ids, ColaPrevia
      <3>4. /\ Tope <= pedidos.mensajes + 1
            /\ pedidos.mensajes <= MaxMensajes
            /\ pedidos.mensajes \in Nat
            /\ MaxMensajes \in Nat
        BY DeliveryAssumption DEF Acotados, Tipado, TipoPedidos, DeliveryAssumption
      <3>5. mensajes_cola[i].id_mensaje # c[1]
        BY <2>0, <3>2, <3>3, <3>4 DEF NumerosAltos
      <3>6. RecibidoPor(c[1], mensajes_cola[i].id_mensaje)
        BY <2>3, <3>2, <3>5 DEF Acuses, Reconoce
      <3> QED BY <2>0, <2>3, <3>6, RecibidoQueda
    <2> QED BY <2>1, <2>2, <2>3
  <1>4. CASE \/ \E p \in Publicadores : Encolar(p)
             \/ \E c \in Conexiones : Continuar(c)
    BY <1>2, <1>3, <1>4
  <1>5. CASE ~ \/ \E p \in Publicadores : Encolar(p)
               \/ \E c \in Conexiones : Continuar(c)
    <2>1. UNCHANGED mensajes_cola
      BY <1>5 DEF Next, vars, mutexYCola, PasoPublicacion, PasoHilo, RecibirPublicacion,
                  RecibirFin, SoltarTrasRecibir, TomarId, Contar, Deshabilitar,
                  DeshabilitarInexistente, Confirmar, FinConfirmar, Suscribir,
                  ContarSinEnviar, alta_suscriptor_cola, Despertar, TrabarParaEnviar,
                  Enviar, EnviarACerrado, RecibirAck, PerderConexion, Terminar,
                  eliminar_suscriptor_por_id, Recibir, Desconectar
    <2> QED BY <1>1, <2>1
  <1> QED BY <1>4, <1>5

\* The acknowledgements of one connection, whoever takes the step.
LEMMA AcusesPaso ==
    ASSUME Tipado, Acuses, [Next]_vars
    PROVE  Acuses'
  <1>t. /\ hilo \in [Conexiones -> TipoHilo]
        /\ canal \in [Conexiones -> Paquete]
        /\ recibidos \in [Conexiones -> Seq(Nat)]
    BY DEF Tipado
  <1> SUFFICES ASSUME NEW d \in Conexiones
               PROVE  /\ Reconoce(d[1], hilo[d].ult_id_recibido)'
                      /\ canal'[d].tipo = "ack" => Reconoce(d[1], canal[d].id)'
                      /\ canal'[d].tipo = "vacia" => canal'[d].id = d[1]
    BY DEF Acuses
  <1>0. d[1] \in Suscriptores /\ d = <<d[1], d[2]>> /\ d[2] \in 1 .. MaxConexiones
    BY DEF Conexiones
  <1>a. /\ Reconoce(d[1], hilo[d].ult_id_recibido)
        /\ canal[d].tipo = "ack" => Reconoce(d[1], canal[d].id)
        /\ canal[d].tipo = "vacia" => canal[d].id = d[1]
    BY DEF Acuses
  <1>q. \A id : Reconoce(d[1], id) => Reconoce(d[1], id)'
    BY <1>0, ReconoceQueda
  \* The steps that acknowledge nothing on this connection.
  <1>1. ASSUME hilo'[d].ult_id_recibido = hilo[d].ult_id_recibido,
               canal'[d] = canal[d] \/ canal'[d].tipo = "nada"
        PROVE  /\ Reconoce(d[1], hilo[d].ult_id_recibido)'
               /\ canal'[d].tipo = "ack" => Reconoce(d[1], canal[d].id)'
               /\ canal'[d].tipo = "vacia" => canal'[d].id = d[1]
    BY <1>a, <1>q, <1>1 DEF Reconoce, RecibidoPor
  <1>2. CASE Enviar(d)
    <2>1. /\ hilo'[d].ult_id_recibido = hilo[d].ult_id_recibido
          /\ canal'[d] = IF cliente[d] = "suscripto" THEN Despacho(d[1]) ELSE Nada
      BY <1>t, <1>2 DEF Enviar, Pasar, TipoHilo
    <2>2. canal'[d].tipo # "ack" /\ (canal'[d].tipo = "vacia" => canal'[d].id = d[1])
      BY <2>1 DEF Despacho, Nada
    <2> QED BY <1>a, <1>q, <2>1, <2>2 DEF Reconoce, RecibidoPor
  <1>3. CASE RecibirAck(d)
    <2>1. /\ canal[d].tipo = "ack"
          /\ hilo'[d].ult_id_recibido = canal[d].id
          /\ canal'[d].tipo = "nada"
      BY <1>t, <1>3 DEF RecibirAck, TipoHilo, Nada
    <2> QED BY <1>a, <1>q, <2>1 DEF Reconoce, RecibidoPor
  <1>4. CASE Recibir(d)
    <2>1. /\ canal[d].tipo \in {"mensaje", "vacia"}
          /\ canal'[d].tipo = "ack"
          /\ canal'[d].id = canal[d].id
          /\ recibidos'[d] = IF canal[d].tipo = "mensaje"
                             THEN Append(recibidos[d], canal[d].id) ELSE recibidos[d]
          /\ hilo' = hilo
      BY <1>t, <1>4 DEF Recibir, Paquete
    <2>2. canal[d].tipo = "mensaje" => RecibidoPor(d[1], canal[d].id)'
      <3> SUFFICES ASSUME canal[d].tipo = "mensaje" PROVE RecibidoPor(d[1], canal[d].id)'
        OBVIOUS
      <3>1. recibidos[d] \in Seq(Nat) /\ canal[d].id \in Nat
        BY <1>t DEF Paquete
      <3>2. canal'[d].id \in ToSet(recibidos'[d])
        BY <2>1, <3>1 DEF ToSet
      <3> QED BY <1>0, <2>1, <3>2 DEF RecibidoPor
    <2>3. Reconoce(d[1], canal[d].id)'
      BY <1>a, <2>1, <2>2 DEF Reconoce, RecibidoPor
    <2> QED BY <1>a, <1>q, <2>1, <2>3 DEF Reconoce, RecibidoPor
  <1>5. CASE ~ (Enviar(d) \/ RecibirAck(d) \/ Recibir(d))
    <2>1. ASSUME NEW c \in Conexiones,
                 Suscribir(c) \/ PasoHilo(c) \/ Recibir(c) \/ Desconectar(c)
          PROVE  /\ hilo'[d].ult_id_recibido = hilo[d].ult_id_recibido
                 /\ canal'[d] = canal[d] \/ canal'[d].tipo = "nada"
      <3> USE DEF clientes, Pasar, TipoHilo
      <3>1. CASE \/ Suscribir(c)
                 \/ ContarSinEnviar(c)
                 \/ alta_suscriptor_cola(c)
                 \/ Continuar(c)
                 \/ Despertar(c)
                 \/ TrabarParaEnviar(c)
                 \/ EnviarACerrado(c)
                 \/ PerderConexion(c)
                 \/ Terminar(c)
                 \/ eliminar_suscriptor_por_id(c)
        <4>1. UNCHANGED canal
          BY <3>1 DEF Suscribir, ContarSinEnviar, alta_suscriptor_cola, Continuar, Despertar,
                      TrabarParaEnviar, EnviarACerrado, PerderConexion, Terminar,
                      eliminar_suscriptor_por_id
        <4>2. hilo'[d].ult_id_recibido = hilo[d].ult_id_recibido
          <5>1. CASE Suscribir(c)
            BY <1>t, <5>1 DEF Suscribir
          <5>2. CASE ContarSinEnviar(c)
            BY <1>t, <5>2 DEF ContarSinEnviar
          <5>3. CASE alta_suscriptor_cola(c)
            BY <1>t, <5>3 DEF alta_suscriptor_cola
          <5>4. CASE Continuar(c)
            BY <1>t, <5>4 DEF Continuar
          <5>5. CASE Despertar(c)
            BY <1>t, <5>5 DEF Despertar
          <5>6. CASE TrabarParaEnviar(c)
            BY <1>t, <5>6 DEF TrabarParaEnviar
          <5>7. CASE EnviarACerrado(c)
            BY <1>t, <5>7 DEF EnviarACerrado
          <5>8. CASE PerderConexion(c)
            BY <1>t, <5>8 DEF PerderConexion
          <5>9. CASE Terminar(c)
            BY <1>t, <5>9 DEF Terminar
          <5>10. CASE eliminar_suscriptor_por_id(c)
            BY <1>t, <5>10 DEF eliminar_suscriptor_por_id
          <5> QED BY <3>1, <5>1, <5>2, <5>3, <5>4, <5>5, <5>6, <5>7, <5>8, <5>9, <5>10
        <4> QED BY <4>1, <4>2
      <3>4. CASE Desconectar(c)
        BY <1>t, <3>4 DEF Desconectar, Nada
      <3>5. CASE Enviar(c) \/ RecibirAck(c) \/ Recibir(c)
        <4>1. c # d
          BY <1>5, <3>5
        <4> QED BY <1>t, <3>5, <4>1 DEF Enviar, RecibirAck, Recibir
      <3> QED BY <2>1, <3>1, <3>4, <3>5 DEF PasoHilo
    <2>2. ASSUME NEW p \in Publicadores,
                 \/ RecibirPublicacion(p)
                 \/ \E s \in Suscriptores : RecibirFin(p, s)
                 \/ PasoPublicacion(p)
          PROVE  UNCHANGED <<hilo, canal>>
      BY <2>2 DEF PasoPublicacion, RecibirPublicacion, RecibirFin, SoltarTrasRecibir, TomarId,
                  Encolar, Contar, Deshabilitar, DeshabilitarInexistente, Confirmar,
                  FinConfirmar, clientes
    <2>3. /\ hilo'[d].ult_id_recibido = hilo[d].ult_id_recibido
          /\ canal'[d] = canal[d] \/ canal'[d].tipo = "nada"
      BY <2>1, <2>2 DEF Next, vars, clientes
    <2> QED BY <1>1, <2>3
  <1> QED BY <1>2, <1>3, <1>4, <1>5

LEMMA MarcasOK == ASSUME Tipado, Marcas PROVE MarcadoEsRecibido
  <1>1. DOMAIN mensajes_cola = 1 .. Len(mensajes_cola)
    BY DEF Tipado
  <1> QED BY <1>1 DEF MarcadoEsRecibido, Marcas, RecibidoPor

\* With one publisher at a time, and no process whose number is an id in use, a message
\* is marked as sent to a process only if the process received it on one of its
\* connections: what was lost on a connection is sent again on the next one
\* (set_msg_enviado_a_suscriptor, despachar_msjs_get).
THEOREM MarcasRecibidas ==
    ASSUME UnPublicador, NumerosAltos
    PROVE  Spec => []MarcadoEsRecibido
  <1> DEFINE I == Tipado /\ Ids /\ Acotados /\ Acuses /\ Marcas
  <1>1. Init => I
    BY TiposIniciales, IdsIniciales, AcotadosInicial, AcusesIniciales
  <1>2. I /\ [Next]_vars => I'
    BY TiposPaso, IdsPaso, AcotadosPaso, AcusesPaso, MarcasPaso
  <1>3. I => MarcadoEsRecibido
    BY MarcasOK
  <1> QED BY <1>1, <1>2, <1>3, PTL DEF Spec

(***************************************************************************)
(* The semaphore of a subscriber never falls short of the queue            *)
(***************************************************************************)
\* Each process subscribes once, and before anything is published.
UnaConexion == MaxConexiones = 1 /\ AltasAntes

SinEnviar(s) == {i \in 1 .. Len(mensajes_cola) : s \notin mensajes_cola[i].sended_suscriptors}

\* p is somewhere between the request to publish and its end.
Publica(p) ==
    \/ publicacion[p].pc \in {"publicar", "encolar", "contar"}
    \/ publicacion[p].pc = "recibiendo" /\ publicacion[p].op = 0

\* Nothing was published yet if a process has still to enter its loop.
Estreno ==
    \A c \in Conexiones : hilo[c].pc \in {"fuera", "handshake", "alta"} =>
        Len(mensajes_cola) = 0 /\ \A p \in Publicadores : ~Publica(p)

\* A process that has not subscribed has no thread.
Afuera == \A c \in Conexiones : cliente[c] = "fuera" => hilo[c].pc = "fuera"

EnLazo(c) == hilo[c].pc \in {"lazo", "esperar", "trabar", "enviar", "ack"}

Registrado(c) == EnLazo(c) => EnUso(c) /\ hilo[c].reg = c

\* The message id is still to be marked as sent to s.
Falta(s, id) == \E i \in SinEnviar(s) : mensajes_cola[i].id_mensaje = id

\* The semaphore counts at least the messages to send, the one being
\* acknowledged aside.
Alcanza(c, id) ==
    \/ Cardinality(SinEnviar(c[1])) <= sem_cont_msjs[c]
    \/ Cardinality(SinEnviar(c[1])) <= sem_cont_msjs[c] + 1 /\ Falta(c[1], id)

Credito(c) ==
    cliente[c] = "suscripto" =>
        /\ hilo[c].pc = "lazo" => Alcanza(c, hilo[c].ult_id_recibido)
        /\ hilo[c].pc = "esperar" => Cardinality(SinEnviar(c[1])) <= sem_cont_msjs[c]
        /\ hilo[c].pc \in {"trabar", "enviar"} =>
              Cardinality(SinEnviar(c[1])) <= sem_cont_msjs[c] + 1
        /\ hilo[c].pc = "ack" => Alcanza(c, canal[c].id)

Creditos == Afuera /\ Estreno /\ \A c \in Conexiones : Registrado(c) /\ Credito(c)

\* How many messages are still to be sent to a process.
LEMMA SinEnviarFinito ==
    ASSUME Tipado, NEW s
    PROVE  /\ IsFiniteSet(SinEnviar(s))
           /\ Cardinality(SinEnviar(s)) \in Nat
           /\ cant_msjs_sin_enviar(s) = Cardinality(SinEnviar(s))
  <1>1. Len(mensajes_cola) \in Nat /\ DOMAIN mensajes_cola = 1 .. Len(mensajes_cola)
    BY DEF Tipado
  <1>2. IsFiniteSet(1 .. Len(mensajes_cola))
    BY <1>1, FS_Interval
  <1>3. IsFiniteSet(SinEnviar(s))
    BY <1>2, FS_Subset DEF SinEnviar
  <1> QED BY <1>1, <1>3, FS_CardinalityType
          DEF SinEnviar, cant_msjs_sin_enviar, es_msj_sin_enviar

\* With one connection for each process the record of a process is that of its
\* connection.
LEMMA UnRegistro ==
    ASSUME UnaConexion, Tipado, NEW c \in Conexiones
    PROVE  /\ \A d \in Conexiones : d[1] = c[1] => d = c
           /\ obtengo_suscriptor_cola(c[1]) \in {c, Nadie}
           /\ PosicionRegistro(c[1]) # 0 =>
                 /\ PosicionRegistro(c[1]) \in DOMAIN suscriptores
                 /\ suscriptores[PosicionRegistro(c[1])] = c
  <1> DEFINE T == {i \in 1 .. Len(suscriptores) : suscriptores[i][1] = c[1]}
  <1>0. suscriptores \in Seq(Conexiones)
    BY DEF Tipado
  <1>1. PosicionRegistro(c[1]) = IF T # {} THEN Min(T) ELSE 0
    BY DEF PosicionRegistro, SelectInSeq
  <1>2. T \subseteq Nat
    OBVIOUS
  <1>3. T # {} => Min(T) \in T
    <2> HIDE DEF T
    <2> QED BY <1>2, MinOK
  <1>4. \A d \in Conexiones : d[1] = c[1] => d = c
    BY DEF Conexiones, UnaConexion
  <1>5. \A i \in 1 .. Len(suscriptores) : suscriptores[i] \in Conexiones
    BY <1>0
  <1>6. PosicionRegistro(c[1]) # 0 =>
           /\ PosicionRegistro(c[1]) \in DOMAIN suscriptores
           /\ suscriptores[PosicionRegistro(c[1])] = c
    BY <1>0, <1>1, <1>3, <1>4, <1>5
  <1> QED BY <1>4, <1>6 DEF obtengo_suscriptor_cola

\* A new message is one more to send, and one less if the oldest had to go and was
\* not sent; then a message that goes is made up for.
LEMMA EncolarCuenta ==
    ASSUME Tipado, Tipado', NEW p \in Publicadores, Encolar(p), NEW s,
           NEW n \in Nat, Cardinality(SinEnviar(s)) <= n
    PROVE  /\ Cardinality(SinEnviar(s))' <= n + 1
           /\ \A id : Falta(s, id) => Falta(s, id)' \/ Cardinality(SinEnviar(s))' <= n
  <1> DEFINE m == [id_mensaje |-> publicacion[p].id, sended_suscriptors |-> {}]
             corre == IF Len(mensajes_cola) = Capacidad THEN 1 ELSE 0
             L == Len(mensajes_cola')
             V == SinEnviar(s) \ (1 .. corre)
             N == SinEnviar(s)'
  <1>1. m \in Mensaje
    BY DEF Encolar, Tipado, IdTomado, TipoPublicacion, Mensaje
  <1>2. mensajes_cola' = Append(HacerLugar(mensajes_cola), m)
    BY DEF Encolar
  <1>3. /\ L = Len(mensajes_cola) + 1 - corre
        /\ mensajes_cola'[L] = m
        /\ \A i \in 1 .. L - 1 :
              i + corre \in 1 .. Len(mensajes_cola) /\ mensajes_cola'[i] = mensajes_cola[i + corre]
    BY <1>1, <1>2, LugarOK, DeliveryAssumption DEF Tipado
  <1>4. L \in Nat /\ corre \in {0, 1} /\ Len(mensajes_cola) \in Nat
    BY <1>3 DEF Tipado
  <1>5. /\ IsFiniteSet(SinEnviar(s)) /\ Cardinality(SinEnviar(s)) \in Nat
        /\ IsFiniteSet(N) /\ Cardinality(N) \in Nat
    <2>1. /\ IsFiniteSet(SinEnviar(s)) /\ Cardinality(SinEnviar(s)) \in Nat
      BY SinEnviarFinito
    <2>2. Len(mensajes_cola') \in Nat
      BY <1>4
    <2>3. IsFiniteSet(1 .. Len(mensajes_cola'))
      BY <2>2, FS_Interval
    <2>4. IsFiniteSet(N)
      BY <2>3, FS_Subset DEF SinEnviar
    <2> QED BY <2>1, <2>4, FS_CardinalityType
  <1>6. IsFiniteSet(V) /\ Cardinality(V) \in Nat
    BY <1>5, FS_Subset, FS_CardinalityType
  <1>7. Cardinality(N \ {L}) <= Cardinality(V)
    <2> HIDE DEF corre, m
    <2> DEFINE f == [i \in N \ {L} |-> i + corre]
    <2>1. ASSUME NEW i \in N \ {L} PROVE i + corre \in V /\ i \in Nat
      <3>1. i \in 1 .. L - 1 /\ s \notin mensajes_cola'[i].sended_suscriptors
        BY <1>4 DEF SinEnviar
      <3>2. i + corre \in 1 .. Len(mensajes_cola) /\ mensajes_cola'[i] = mensajes_cola[i + corre]
        BY <1>3, <3>1
      <3>3. i + corre \notin 1 .. corre
        BY <1>4, <3>1
      <3> QED BY <3>1, <3>2, <3>3 DEF SinEnviar
    <2>2. f \in Injection(N \ {L}, V)
      BY <1>4, <2>1 DEF Injection, IsInjective
    <2> QED BY <1>6, <2>2, FS_Injection
  <1>8. Cardinality(N) <= Cardinality(V) + 1
    <2> HIDE DEF N, L
    <2>0. IsFiniteSet(N \ {L}) /\ Cardinality(N \ {L}) \in Nat
      BY <1>5, FS_RemoveElement, FS_CardinalityType
    <2>1. Cardinality(N) <= Cardinality(N \ {L}) + 1
      <3>1. Cardinality(N \ {L}) = IF L \in N THEN Cardinality(N) - 1 ELSE Cardinality(N)
        BY <1>5, FS_RemoveElement
      <3> QED BY <1>5, <3>1
    <2> QED BY <1>5, <1>6, <1>7, <2>0, <2>1
  <1>9. Cardinality(V) <= Cardinality(SinEnviar(s))
    BY <1>5, FS_Subset
  <1>10. ASSUME NEW i \in SinEnviar(s), i \in 1 .. corre
         PROVE  Cardinality(V) + 1 <= Cardinality(SinEnviar(s))
    <2>1. V \subseteq SinEnviar(s) \ {i}
      BY <1>10
    <2>2. Cardinality(SinEnviar(s) \ {i}) = Cardinality(SinEnviar(s)) - 1 /\ IsFiniteSet(SinEnviar(s) \ {i})
      BY <1>5, FS_RemoveElement
    <2>3. Cardinality(V) <= Cardinality(SinEnviar(s) \ {i})
      BY <2>1, <2>2, FS_Subset
    <2> QED BY <1>5, <1>6, <2>2, <2>3
  <1>11. ASSUME NEW i \in SinEnviar(s), i \notin 1 .. corre
         PROVE  i - corre \in N /\ mensajes_cola'[i - corre] = mensajes_cola[i]
    <2> HIDE DEF corre, m
    <2>1. i \in 1 .. Len(mensajes_cola) /\ s \notin mensajes_cola[i].sended_suscriptors
      BY DEF SinEnviar
    <2>2. i - corre \in 1 .. L - 1
      BY <1>3, <1>4, <1>11, <2>1
    <2>3. (i - corre) + corre = i
      BY <1>4, <2>1
    <2>4. mensajes_cola'[i - corre] = mensajes_cola[i]
      BY <1>3, <2>2, <2>3
    <2>5. i - corre \in 1 .. L
      BY <1>4, <2>2
    <2> QED BY <2>1, <2>4, <2>5 DEF SinEnviar
  <1>12. ASSUME NEW id, Falta(s, id)
         PROVE  Falta(s, id)' \/ Cardinality(N) <= n
    <2>1. PICK i \in SinEnviar(s) : mensajes_cola[i].id_mensaje = id
      BY <1>12 DEF Falta
    <2>2. CASE i \in 1 .. corre
      <3>1. Cardinality(V) + 1 <= Cardinality(SinEnviar(s))
        BY <1>10, <2>2
      <3> HIDE DEF N, V
      <3> QED BY <1>5, <1>6, <1>8, <3>1
    <2>3. CASE i \notin 1 .. corre
      <3>1. i - corre \in N /\ mensajes_cola'[i - corre].id_mensaje = id
        BY <1>11, <2>1, <2>3
      <3> QED BY <3>1 DEF Falta
    <2> QED BY <2>2, <2>3
  <1>13. Cardinality(N) <= n + 1
    BY <1>5, <1>6, <1>8, <1>9
  <1> QED BY <1>12, <1>13

\* A connection that takes no step keeps its credit if its messages and their marks
\* stay and its semaphore does not go down.
LEMMA CreditoQueda ==
    ASSUME Tipado, Tipado', NEW c \in Conexiones, Credito(c),
           hilo'[c] = hilo[c], canal'[c].id = canal[c].id,
           cliente'[c] = "suscripto" => cliente[c] = "suscripto",
           sem_cont_msjs[c] <= sem_cont_msjs'[c],
           SinEnviar(c[1])' = SinEnviar(c[1]),
           \A i \in SinEnviar(c[1]) : mensajes_cola'[i].id_mensaje = mensajes_cola[i].id_mensaje
    PROVE  Credito(c)'
  <1>1. Cardinality(SinEnviar(c[1])) \in Nat
    BY SinEnviarFinito
  <1>2. sem_cont_msjs[c] \in Nat /\ sem_cont_msjs'[c] \in Nat
    BY DEF Tipado
  <1>3. \A id : Falta(c[1], id) => Falta(c[1], id)'
    BY DEF Falta
  <1>4. \A id : Alcanza(c, id) => Alcanza(c, id)'
    BY <1>1, <1>2, <1>3 DEF Alcanza
  <1> QED BY <1>1, <1>2, <1>4 DEF Credito

\* The records.  A step that moves a thread inside its loop, or out of it, keeps its
\* record; no step but the end of the thread of a process takes it from the list.
LEMMA RegistradoPaso ==
    ASSUME UnaConexion, Tipado, \A c \in Conexiones : Registrado(c), [Next]_vars,
           NEW d \in Conexiones
    PROVE  Registrado(d)'
  <1>t. hilo \in [Conexiones -> TipoHilo] /\ suscriptores \in Seq(Conexiones)
    BY DEF Tipado
  <1>0. Registrado(d)
    OBVIOUS
  <1>1. ASSUME UNCHANGED suscriptores, hilo'[d].reg = hilo[d].reg,
               EnLazo(d)' => EnLazo(d)
        PROVE  Registrado(d)'
    BY <1>0, <1>1 DEF Registrado, EnUso
  <1>2. CASE UNCHANGED vars
    BY <1>1, <1>2 DEF vars, registros, EnLazo
  <1>3. ASSUME NEW p \in Publicadores,
               \/ RecibirPublicacion(p)
               \/ \E s \in Suscriptores : RecibirFin(p, s)
               \/ PasoPublicacion(p)
        PROVE  Registrado(d)'
    <2>1. UNCHANGED <<hilo, suscriptores>>
      BY <1>3 DEF PasoPublicacion, RecibirPublicacion, RecibirFin, SoltarTrasRecibir, TomarId,
                  Encolar, Contar, Deshabilitar, DeshabilitarInexistente, Confirmar,
                  FinConfirmar, registros
    <2> QED BY <1>1, <2>1 DEF EnLazo
  <1>4. ASSUME NEW c \in Conexiones, alta_suscriptor_cola(c)
        PROVE  Registrado(d)'
    <2>1. /\ suscriptores' = Append(suscriptores, c)
          /\ hilo' = [hilo EXCEPT ![c].pc = "lazo",
                        ![c].reg = IF obtengo_suscriptor_cola(c[1]) = Nadie THEN c
                                   ELSE obtengo_suscriptor_cola(c[1])]
      BY <1>4 DEF alta_suscriptor_cola
    <2>2. obtengo_suscriptor_cola(c[1]) \in {c, Nadie}
      BY UnRegistro
    <2>3. EnUso(d) \/ d = c => EnUso(d)'
      BY <1>t, <2>1 DEF EnUso
    <2>4. CASE d = c
      <3>1. hilo'[c].reg = c
        BY <1>t, <2>1, <2>2 DEF TipoHilo
      <3> QED BY <2>3, <2>4, <3>1 DEF Registrado
    <2>5. CASE d # c
      <3>1. hilo'[d] = hilo[d]
        BY <1>t, <2>1, <2>5
      <3> QED BY <1>0, <2>3, <3>1 DEF Registrado, EnLazo
    <2> QED BY <2>4, <2>5
  <1>5. ASSUME NEW c \in Conexiones, eliminar_suscriptor_por_id(c)
        PROVE  Registrado(d)'
    <2> DEFINE k == PosicionRegistro(c[1])
    <2>1. /\ hilo' = [hilo EXCEPT ![c].pc = "fin"]
          /\ k # 0
          /\ suscriptores' = SubSeq(suscriptores, 1, k - 1)
                             \o SubSeq(suscriptores, k + 1, Len(suscriptores))
      BY <1>5 DEF eliminar_suscriptor_por_id, Pasar, RemoveAt
    <2>2. k \in DOMAIN suscriptores /\ suscriptores[k] = c
      BY <2>1, UnRegistro
    <2> HIDE DEF k
    <2>3. CASE d = c
      BY <1>t, <2>1, <2>3 DEF Registrado, EnLazo, TipoHilo
    <2>4. CASE d # c
      <3>1. hilo'[d] = hilo[d]
        BY <1>t, <2>1, <2>4
      <3>2. ASSUME EnUso(d) PROVE EnUso(d)'
        <4>1. PICK i \in DOMAIN suscriptores : suscriptores[i] = d
          BY <3>2 DEF EnUso
        <4>2. i # k
          BY <2>2, <2>4, <4>1
        <4>n. Len(suscriptores) \in Nat /\ DOMAIN suscriptores = 1 .. Len(suscriptores)
          BY <1>t
        <4>3. /\ suscriptores' \in Seq(Conexiones)
              /\ Len(suscriptores') = Len(suscriptores) - 1
              /\ \A j \in 1 .. Len(suscriptores) - 1 :
                    suscriptores'[j] = IF j < k THEN suscriptores[j] ELSE suscriptores[j + 1]
          BY <1>t, <2>1, <2>2, SinElementoOK
        <4> DEFINE j == IF i < k THEN i ELSE i - 1
        <4>4. j \in 1 .. Len(suscriptores) - 1 /\ suscriptores'[j] = d
          <5>1. CASE i < k
            BY <2>2, <4>1, <4>3, <4>n, <5>1
          <5>2. CASE ~ (i < k)
            <6>1. j = i - 1 /\ j \in 1 .. Len(suscriptores) - 1 /\ ~ (j < k) /\ j + 1 = i
              BY <2>2, <4>1, <4>2, <4>n, <5>2
            <6> QED BY <4>1, <4>3, <6>1
          <5> QED BY <5>1, <5>2
        <4>5. j \in DOMAIN suscriptores'
          BY <4>3, <4>4
        <4> QED BY <4>4, <4>5 DEF EnUso
      <3> QED BY <1>0, <3>1, <3>2 DEF Registrado, EnLazo
    <2> QED BY <2>3, <2>4
  <1>6. ASSUME NEW c \in Conexiones, RecibirAck(c)
        PROVE  Registrado(d)'
    <2>1. /\ UNCHANGED suscriptores
          /\ hilo[c].pc = "ack"
          /\ hilo' = [hilo EXCEPT ![c].pc = "lazo", ![c].ult_id_recibido = canal[c].id,
                                  ![c].reg = obtengo_suscriptor_cola(c[1])]
          /\ obtengo_suscriptor_cola(c[1]) # Nadie
      BY <1>6 DEF RecibirAck, registros
    <2>2. obtengo_suscriptor_cola(c[1]) = c
      BY <2>1, UnRegistro
    <2>3. CASE d = c
      <3>1. hilo'[c].reg = c
        BY <1>t, <2>1, <2>2 DEF TipoHilo
      <3>2. EnUso(c)
        BY <1>0, <2>1, <2>3 DEF Registrado, EnLazo
      <3> QED BY <2>1, <2>3, <3>1, <3>2 DEF Registrado, EnUso
    <2>4. CASE d # c
      <3>1. hilo'[d] = hilo[d]
        BY <1>t, <2>1, <2>4
      <3> QED BY <1>1, <2>1, <3>1 DEF EnLazo
    <2> QED BY <2>3, <2>4
  <1>7. ASSUME NEW c \in Conexiones,
               \/ Suscribir(c) \/ ContarSinEnviar(c) \/ Continuar(c) \/ Despertar(c)
               \/ TrabarParaEnviar(c) \/ Enviar(c) \/ EnviarACerrado(c) \/ PerderConexion(c)
               \/ Terminar(c) \/ Recibir(c) \/ Desconectar(c)
        PROVE  Registrado(d)'
    <2>1. UNCHANGED suscriptores
      BY <1>7 DEF Suscribir, ContarSinEnviar, Continuar, Despertar, TrabarParaEnviar, Enviar,
                  EnviarACerrado, PerderConexion, Terminar, Recibir, Desconectar, registros
    <2>2. hilo'[d].reg = hilo[d].reg /\ (EnLazo(d)' => EnLazo(d))
      <3> USE <1>t DEF EnLazo, TipoHilo, Pasar
      <3>1. CASE Suscribir(c)
        BY <3>1 DEF Suscribir
      <3>2. CASE ContarSinEnviar(c)
        BY <3>2 DEF ContarSinEnviar
      <3>3. CASE Continuar(c)
        BY <3>3 DEF Continuar
      <3>4. CASE Despertar(c)
        BY <3>4 DEF Despertar
      <3>5. CASE TrabarParaEnviar(c)
        BY <3>5 DEF TrabarParaEnviar
      <3>6. CASE Enviar(c)
        BY <3>6 DEF Enviar
      <3>7. CASE EnviarACerrado(c)
        BY <3>7 DEF EnviarACerrado
      <3>8. CASE PerderConexion(c)
        BY <3>8 DEF PerderConexion
      <3>9. CASE Terminar(c)
        BY <3>9 DEF Terminar
      <3>10. CASE Recibir(c) \/ Desconectar(c)
        BY <3>10 DEF Recibir, Desconectar
      <3> QED BY <1>7, <3>1, <3>2, <3>3, <3>4, <3>5, <3>6, <3>7, <3>8, <3>9, <3>10
    <2> QED BY <1>1, <2>1, <2>2
  <1> QED BY <1>2, <1>3, <1>4, <1>5, <1>6, <1>7 DEF Next, PasoHilo

\* Nothing is published before every process has entered its loop.
LEMMA EstrenoPaso ==
    ASSUME UnaConexion, Tipado, Afuera, Estreno, [Next]_vars
    PROVE  Estreno'
  <1>t. /\ publicacion \in [Publicadores -> TipoPublicacion]
        /\ hilo \in [Conexiones -> TipoHilo]
    BY DEF Tipado
  <1> DEFINE Antes(d) == hilo[d].pc \in {"fuera", "handshake", "alta"}
  \* Nobody who was in the loop is out of it.
  <1>1. ASSUME UNCHANGED <<mensajes_cola, publicacion>>,
               \A d \in Conexiones : Antes(d)' => Antes(d)
        PROVE  Estreno'
    BY <1>1 DEF Estreno, Publica
  <1>2. ASSUME UNCHANGED <<mensajes_cola, hilo>>,
               NEW p \in Publicadores, Publica(p)' => Publica(p),
               \A q \in Publicadores \ {p} : publicacion'[q] = publicacion[q]
        PROVE  Estreno'
    BY <1>2 DEF Estreno, Publica
  <1>3. CASE UNCHANGED vars
    BY <1>1, <1>3 DEF vars, mutexYCola
  <1>4. ASSUME NEW p \in Publicadores,
               \/ RecibirPublicacion(p)
               \/ \E s \in Suscriptores : RecibirFin(p, s)
               \/ PasoPublicacion(p)
        PROVE  Estreno'
    <2> USE <1>t DEF TipoPublicacion, IrA, mutexYCola
    <2>1. CASE RecibirPublicacion(p)
      <3>1. \A s \in Suscriptores : hilo[<<s, 1>>].pc \notin {"fuera", "handshake", "alta"}
        BY <2>1 DEF RecibirPublicacion, UnaConexion
      <3>2. \A d \in Conexiones : ~ Antes(d)
        BY <3>1 DEF Conexiones, UnaConexion
      <3>3. UNCHANGED hilo
        BY <2>1 DEF RecibirPublicacion
      <3> QED BY <3>2, <3>3 DEF Estreno
    <2>2. CASE \E s \in Suscriptores : RecibirFin(p, s)
      <3> PICK s \in Suscriptores : RecibirFin(p, s)
        BY <2>2
      <3>1. /\ UNCHANGED <<mensajes_cola, hilo>>
            /\ publicacion' = [publicacion EXCEPT ![p] = [pc |-> "recibiendo", op |-> s, id |-> 0]]
        BY DEF RecibirFin
      <3>2. s # 0
        BY DeliveryAssumption DEF DeliveryAssumption
      <3>3. publicacion'[p].pc = "recibiendo" /\ publicacion'[p].op = s
        BY <3>1
      <3>4. ~ Publica(p)'
        BY <3>2, <3>3 DEF Publica
      <3> QED BY <1>2, <3>1, <3>4
    <2>3. CASE SoltarTrasRecibir(p)
      <3>1. UNCHANGED <<mensajes_cola, hilo>>
        BY <2>3 DEF SoltarTrasRecibir
      <3>2. Publica(p)' => Publica(p)
        BY <2>3 DEF SoltarTrasRecibir, Publica
      <3>3. \A q \in Publicadores \ {p} : publicacion'[q] = publicacion[q]
        BY <2>3 DEF SoltarTrasRecibir
      <3> QED BY <1>2, <3>1, <3>2, <3>3
    <2>4. CASE TomarId(p)
      <3>1. UNCHANGED <<mensajes_cola, hilo>> /\ Publica(p)
        BY <2>4 DEF TomarId, Publica
      <3>2. \A q \in Publicadores \ {p} : publicacion'[q] = publicacion[q]
        BY <2>4 DEF TomarId
      <3> QED BY <1>2, <3>1, <3>2
    <2>5. CASE Encolar(p)
      <3>1. Publica(p) /\ UNCHANGED hilo
        BY <2>5 DEF Encolar, Publica
      <3> QED BY <3>1 DEF Estreno
    <2>6. CASE Contar(p)
      <3>1. UNCHANGED <<mensajes_cola, hilo>> /\ Publica(p)
        BY <2>6 DEF Contar, Publica
      <3>2. \A q \in Publicadores \ {p} : publicacion'[q] = publicacion[q]
        BY <2>6 DEF Contar
      <3> QED BY <1>2, <3>1, <3>2
    <2>7. CASE Deshabilitar(p) \/ Confirmar(p) \/ FinConfirmar(p)
      <3>1. UNCHANGED <<mensajes_cola, hilo>>
        BY <2>7 DEF Deshabilitar, Confirmar, FinConfirmar
      <3>2. ~ Publica(p)'
        BY <2>7 DEF Deshabilitar, Confirmar, FinConfirmar, Publica
      <3>3. \A q \in Publicadores \ {p} : publicacion'[q] = publicacion[q]
        BY <2>7 DEF Deshabilitar, Confirmar, FinConfirmar
      <3> QED BY <1>2, <3>1, <3>2, <3>3
    <2>8. CASE DeshabilitarInexistente(p)
      BY <1>1, <2>8 DEF DeshabilitarInexistente
    <2> QED BY <1>4, <2>1, <2>2, <2>3, <2>4, <2>5, <2>6, <2>7, <2>8 DEF PasoPublicacion
  <1>5. ASSUME NEW c \in Conexiones, Continuar(c)
        PROVE  Estreno'
    <2>1. /\ hilo' = [hilo EXCEPT ![c].pc = "esperar"]
          /\ UNCHANGED publicacion
          /\ mensajes_cola' =
                set_msg_enviado_a_suscriptor(mensajes_cola, c[1], hilo[c].ult_id_recibido)
      BY <1>5 DEF Continuar, Pasar
    <2>2. Len(mensajes_cola') = Len(mensajes_cola)
      BY <2>1, MarcarOK DEF Tipado, Conexiones
    <2>3. \A d \in Conexiones : Antes(d)' => Antes(d)
      BY <1>t, <2>1 DEF TipoHilo
    <2> QED BY <2>1, <2>2, <2>3 DEF Estreno, Publica
  <1>6. ASSUME NEW c \in Conexiones,
               \/ Suscribir(c)
               \/ PasoHilo(c) /\ ~Continuar(c)
               \/ Recibir(c) \/ Desconectar(c)
        PROVE  Estreno'
    <2>1. UNCHANGED <<mensajes_cola, publicacion>>
      BY <1>6 DEF Suscribir, PasoHilo, ContarSinEnviar, alta_suscriptor_cola, Despertar,
                  TrabarParaEnviar, Enviar, EnviarACerrado, RecibirAck, PerderConexion, Terminar,
                  eliminar_suscriptor_por_id, Recibir, Desconectar, mutexYCola
    <2>2. \A d \in Conexiones : Antes(d)' => Antes(d)
      <3> USE <1>t DEF TipoHilo, Pasar
      <3>1. CASE Suscribir(c)
        <4>1. hilo[c].pc = "fuera"
          BY <3>1 DEF Suscribir, Afuera
        <4> QED BY <3>1, <4>1 DEF Suscribir
      <3>2. CASE ContarSinEnviar(c)
        BY <3>2 DEF ContarSinEnviar
      <3>3. CASE alta_suscriptor_cola(c)
        BY <3>3 DEF alta_suscriptor_cola
      <3>4. CASE Despertar(c)
        BY <3>4 DEF Despertar
      <3>5. CASE TrabarParaEnviar(c)
        BY <3>5 DEF TrabarParaEnviar
      <3>6. CASE Enviar(c)
        BY <3>6 DEF Enviar
      <3>7. CASE EnviarACerrado(c)
        BY <3>7 DEF EnviarACerrado
      <3>8. CASE RecibirAck(c)
        BY <3>8 DEF RecibirAck
      <3>9. CASE PerderConexion(c)
        BY <3>9 DEF PerderConexion
      <3>10. CASE Terminar(c)
        BY <3>10 DEF Terminar
      <3>11. CASE eliminar_suscriptor_por_id(c)
        BY <3>11 DEF eliminar_suscriptor_por_id
      <3>12. CASE Recibir(c) \/ Desconectar(c)
        BY <3>12 DEF Recibir, Desconectar
      <3> QED BY <1>6, <3>1, <3>2, <3>3, <3>4, <3>5, <3>6, <3>7, <3>8, <3>9, <3>10, <3>11,
                 <3>12 DEF PasoHilo
    <2> QED BY <1>1, <2>1, <2>2
  <1> QED BY <1>3, <1>4, <1>5, <1>6 DEF Next

LEMMA AfueraPaso ==
    ASSUME Tipado, Afuera, [Next]_vars
    PROVE  Afuera'
  <1>t. hilo \in [Conexiones -> TipoHilo] /\ cliente \in [Conexiones -> EstadoCliente]
    BY DEF Tipado
  <1> SUFFICES ASSUME NEW d \in Conexiones, cliente'[d] = "fuera" PROVE hilo'[d].pc = "fuera"
    BY DEF Afuera
  <1>1. CASE \E c \in Conexiones : Suscribir(c) \/ Terminar(c) \/ Desconectar(c)
    <2> PICK c \in Conexiones : Suscribir(c) \/ Terminar(c) \/ Desconectar(c)
      BY <1>1
    <2>1. CASE Suscribir(c)
      BY <1>t, <2>1 DEF Suscribir, Afuera
    <2>2. CASE Terminar(c)
      BY <1>t, <2>2 DEF Terminar, Pasar, Afuera
    <2>3. CASE Desconectar(c)
      BY <1>t, <2>3 DEF Desconectar, Afuera
    <2> QED BY <2>1, <2>2, <2>3
  <1>2. CASE ~ \E c \in Conexiones : Suscribir(c) \/ Terminar(c) \/ Desconectar(c)
    <2>1. UNCHANGED cliente
      BY <1>2 DEF Next, vars, clientes, PasoPublicacion, PasoHilo, RecibirPublicacion,
                  RecibirFin, SoltarTrasRecibir, TomarId, Encolar, Contar, Deshabilitar,
                  DeshabilitarInexistente, Confirmar, FinConfirmar, ContarSinEnviar,
                  alta_suscriptor_cola, Continuar, Despertar, TrabarParaEnviar, Enviar,
                  EnviarACerrado, RecibirAck, PerderConexion, eliminar_suscriptor_por_id, Recibir
    <2>2. hilo[d].pc = "fuera"
      BY <2>1 DEF Afuera
    <2>3. hilo'[d] = hilo[d]
      BY <1>t, <1>2, <2>2
         DEF Next, vars, PasoPublicacion, PasoHilo, RecibirPublicacion,
             RecibirFin, SoltarTrasRecibir, TomarId, Encolar, Contar, Deshabilitar,
             DeshabilitarInexistente, Confirmar, FinConfirmar, ContarSinEnviar,
             alta_suscriptor_cola, Continuar, Despertar, TrabarParaEnviar, Enviar,
             EnviarACerrado, RecibirAck, PerderConexion, eliminar_suscriptor_por_id, Recibir, Pasar
    <2> QED BY <2>2, <2>3
  <1> QED BY <1>1, <1>2

\* With ids that are unique the message with the id is marked.
LEMMA MarcaLaSuya ==
    ASSUME Tipado, Ids, NEW s \in Suscriptores, NEW id,
           mensajes_cola' = set_msg_enviado_a_suscriptor(mensajes_cola, s, id)
    PROVE  /\ Len(mensajes_cola') = Len(mensajes_cola)
           /\ \A i \in 1 .. Len(mensajes_cola) :
                 /\ mensajes_cola[i].sended_suscriptors \subseteq mensajes_cola'[i].sended_suscriptors
                 /\ mensajes_cola[i].id_mensaje = id => s \in mensajes_cola'[i].sended_suscriptors
  <1>1. mensajes_cola \in Seq(Mensaje)
    BY DEF Tipado
  <1>2. \A i, j \in 1 .. Len(mensajes_cola) :
           mensajes_cola[i].id_mensaje = mensajes_cola[j].id_mensaje => i = j
    BY <1>1, CrecientesOK DEF IdsUnicos
  <1> QED BY <1>1, <1>2, MarcarOK

\* The steps of a thread, and of its process, keep its own credit: what the thread
\* takes from the semaphore is the message it sends, which is marked before the next
\* sem_wait.
LEMMA CreditoPropio ==
    ASSUME UnaConexion, Tipado, Tipado', Ids, Creditos, NEW c \in Conexiones,
           Suscribir(c) \/ PasoHilo(c) \/ Recibir(c) \/ Desconectar(c)
    PROVE  Credito(c)'
  <1>t. /\ hilo \in [Conexiones -> TipoHilo]
        /\ canal \in [Conexiones -> Paquete]
        /\ sem_cont_msjs \in [Conexiones -> Nat]
        /\ cliente \in [Conexiones -> EstadoCliente]
        /\ mensajes_cola \in Seq(Mensaje)
        /\ c[1] \in Suscriptores
    BY DEF Tipado, Conexiones
  <1>0. Registrado(c) /\ Credito(c)
    BY DEF Creditos
  <1>n. Cardinality(SinEnviar(c[1])) \in Nat
    BY SinEnviarFinito
  <1> DEFINE cant == Cardinality(SinEnviar(c[1]))
  <1>u. ASSUME UNCHANGED mensajes_cola, sem_cont_msjs'[c] = sem_cont_msjs[c]
        PROVE  /\ SinEnviar(c[1])' = SinEnviar(c[1])
               /\ \A id : Alcanza(c, id) => Alcanza(c, id)'
    BY <1>u DEF SinEnviar, Falta, Alcanza
  <1>1. CASE Suscribir(c)
    <2>1. hilo'[c].pc = "handshake"
      BY <1>t, <1>1 DEF Suscribir, TipoHilo
    <2> QED BY <2>1 DEF Credito
  <1>2. CASE ContarSinEnviar(c)
    <2>1. hilo'[c].pc = "alta"
      BY <1>t, <1>2 DEF ContarSinEnviar, TipoHilo
    <2> QED BY <2>1 DEF Credito
  <1>3. CASE alta_suscriptor_cola(c)
    <2>1. hilo[c].pc = "alta" /\ hilo'[c].pc = "lazo" /\ UNCHANGED mensajes_cola
      BY <1>t, <1>3 DEF alta_suscriptor_cola, TipoHilo, mutexYCola
    <2>2. Len(mensajes_cola) = 0
      BY <2>1 DEF Creditos, Estreno
    <2>3. SinEnviar(c[1])' = {}
      BY <2>1, <2>2 DEF SinEnviar
    <2>4. Cardinality(SinEnviar(c[1])') = 0
      BY <2>3, FS_EmptySet
    <2>5. sem_cont_msjs'[c] \in Nat
      BY DEF Tipado
    <2>6. \A id : Alcanza(c, id)'
      BY <2>4, <2>5 DEF Alcanza
    <2> QED BY <2>1, <2>6 DEF Credito
  <1>4. CASE Continuar(c)
    <2> DEFINE id == hilo[c].ult_id_recibido
    <2>1. /\ hilo[c].pc = "lazo"
          /\ hilo'[c].pc = "esperar"
          /\ UNCHANGED <<sem_cont_msjs, cliente>>
          /\ mensajes_cola' = set_msg_enviado_a_suscriptor(mensajes_cola, c[1], id)
      BY <1>t, <1>4 DEF Continuar, Pasar, TipoHilo, registros, clientes
    <2>3. /\ Len(mensajes_cola') = Len(mensajes_cola)
          /\ \A i \in 1 .. Len(mensajes_cola) :
                /\ mensajes_cola[i].sended_suscriptors \subseteq mensajes_cola'[i].sended_suscriptors
                /\ mensajes_cola[i].id_mensaje = id => c[1] \in mensajes_cola'[i].sended_suscriptors
      BY <1>t, <2>1, MarcaLaSuya
    <2>4. SinEnviar(c[1])' \subseteq SinEnviar(c[1])
      BY <2>3 DEF SinEnviar
    <2>5. ASSUME Falta(c[1], id)
          PROVE  Cardinality(SinEnviar(c[1])') <= cant - 1
      <3>1. PICK i \in SinEnviar(c[1]) : mensajes_cola[i].id_mensaje = id
        BY <2>5 DEF Falta
      <3>2. i \notin SinEnviar(c[1])'
        BY <2>3, <3>1 DEF SinEnviar
      <3>3. /\ IsFiniteSet(SinEnviar(c[1]) \ {i})
            /\ Cardinality(SinEnviar(c[1]) \ {i}) = cant - 1
        BY SinEnviarFinito, FS_RemoveElement
      <3> QED BY <2>4, <3>2, <3>3, FS_Subset
    <2>6. Cardinality(SinEnviar(c[1])') <= cant
      BY <2>4, SinEnviarFinito, FS_Subset
    <2>7. IsFiniteSet(SinEnviar(c[1])') /\ Cardinality(SinEnviar(c[1])') \in Nat
      BY <2>4, SinEnviarFinito, FS_Subset, FS_CardinalityType
    <2>8. cliente'[c] = "suscripto" => Cardinality(SinEnviar(c[1])') <= sem_cont_msjs[c]
      <3> SUFFICES ASSUME cliente'[c] = "suscripto"
                   PROVE  Cardinality(SinEnviar(c[1])') <= sem_cont_msjs[c]
        OBVIOUS
      <3>1. Alcanza(c, id)
        BY <1>0, <2>1 DEF Credito
      <3>2. sem_cont_msjs[c] \in Nat
        BY <1>t
      <3>3. CASE cant <= sem_cont_msjs[c]
        BY <1>n, <2>6, <2>7, <3>2, <3>3
      <3>4. CASE cant <= sem_cont_msjs[c] + 1 /\ Falta(c[1], id)
        BY <1>n, <2>5, <2>7, <3>2, <3>4
      <3> QED BY <3>1, <3>3, <3>4 DEF Alcanza
    <2> QED BY <2>1, <2>8 DEF Credito
  <1>5. CASE Despertar(c)
    <2>1. /\ hilo[c].pc = "esperar"
          /\ hilo'[c].pc = "trabar"
          /\ UNCHANGED <<mensajes_cola, cliente>>
          /\ sem_cont_msjs' = [sem_cont_msjs EXCEPT ![hilo[c].reg] = @ - 1]
      BY <1>t, <1>5 DEF Despertar, Pasar, TipoHilo, mutexYCola, clientes
    <2>2. hilo[c].reg = c
      BY <1>0, <2>1 DEF Registrado, EnLazo
    <2>3. sem_cont_msjs'[c] = sem_cont_msjs[c] - 1 /\ sem_cont_msjs[c] \in Nat
      BY <1>t, <2>1, <2>2
    <2>4. SinEnviar(c[1])' = SinEnviar(c[1])
      BY <2>1 DEF SinEnviar
    <2>5. cliente'[c] = "suscripto" =>
             Cardinality(SinEnviar(c[1])') <= sem_cont_msjs'[c] + 1
      BY <1>0, <1>n, <2>1, <2>3, <2>4 DEF Credito
    <2> QED BY <2>1, <2>5 DEF Credito
  <1>6. CASE TrabarParaEnviar(c)
    <2>1. /\ hilo[c].pc = "trabar"
          /\ hilo'[c].pc = "enviar"
          /\ UNCHANGED <<mensajes_cola, sem_cont_msjs, cliente>>
      BY <1>t, <1>6 DEF TrabarParaEnviar, Pasar, TipoHilo, registros, clientes
    <2> QED BY <1>0, <1>u, <2>1 DEF Credito
  <1>7. CASE Enviar(c)
    <2>1. /\ hilo[c].pc = "enviar"
          /\ hilo'[c].pc = "ack"
          /\ UNCHANGED <<mensajes_cola, sem_cont_msjs, cliente>>
          /\ cliente[c] = "suscripto" => canal'[c] = Despacho(c[1])
      BY <1>t, <1>7 DEF Enviar, Pasar, TipoHilo, registros
    <2>2. ASSUME cliente[c] = "suscripto"
          PROVE  Alcanza(c, Despacho(c[1]).id)
      <3>1. cant <= sem_cont_msjs[c] + 1
        BY <1>0, <2>1, <2>2 DEF Credito
      <3>2. CASE Despacho(c[1]).tipo = "mensaje"
        <4>1. Falta(c[1], Despacho(c[1]).id)
          BY <3>2, DespachoOK DEF Falta, SinEnviar
        <4> QED BY <3>1, <4>1 DEF Alcanza
      <3>3. CASE Despacho(c[1]).tipo # "mensaje"
        <4>1. get_msg_sin_enviar(c[1]) = 0
          BY <3>3 DEF Despacho
        <4>2. SinEnviar(c[1]) = {}
          BY <1>t, <4>1, SinEnviarOK DEF SinEnviar
        <4>3. cant = 0
          BY <4>2, FS_EmptySet
        <4> QED BY <1>t, <4>3 DEF Alcanza
      <3> QED BY <3>2, <3>3
    <2>3. cliente'[c] = "suscripto" => Alcanza(c, canal[c].id)'
      BY <1>u, <2>1, <2>2 DEF Alcanza, Falta
    <2> QED BY <2>1, <2>3 DEF Credito
  <1>8. CASE EnviarACerrado(c) \/ Terminar(c) \/ eliminar_suscriptor_por_id(c)
    <2>1. hilo'[c].pc \in {"baja", "fin"}
      BY <1>t, <1>8 DEF EnviarACerrado, Terminar, eliminar_suscriptor_por_id, Pasar, TipoHilo
    <2> QED BY <2>1 DEF Credito
  <1>9. CASE RecibirAck(c)
    <2>1. /\ hilo[c].pc = "ack"
          /\ hilo'[c].pc = "lazo"
          /\ hilo'[c].ult_id_recibido = canal[c].id
          /\ UNCHANGED <<mensajes_cola, sem_cont_msjs, cliente>>
      BY <1>t, <1>9 DEF RecibirAck, TipoHilo, registros
    <2>2. cliente'[c] = "suscripto" => Alcanza(c, canal[c].id)
      BY <1>0, <2>1 DEF Credito
    <2>3. cliente'[c] = "suscripto" => Alcanza(c, hilo[c].ult_id_recibido)'
      BY <1>u, <2>1, <2>2 DEF Alcanza, Falta
    <2> QED BY <2>1, <2>3 DEF Credito
  <1>10. CASE PerderConexion(c)
    BY <1>t, <1>10 DEF PerderConexion, Credito, clientes
  <1>11. CASE Recibir(c)
    <2>1. canal'[c].id = canal[c].id /\ UNCHANGED <<mensajes_cola, sem_cont_msjs, hilo, cliente>>
      BY <1>t, <1>11 DEF Recibir, Paquete, mutexYCola, registros
    <2> QED BY <1>0, <1>t, <2>1, CreditoQueda DEF SinEnviar
  <1>12. CASE Desconectar(c)
    <2>1. cliente'[c] = "desconectado"
      BY <1>t, <1>12 DEF Desconectar
    <2> QED BY <2>1 DEF Credito
  <1> QED BY <1>1, <1>2, <1>3, <1>4, <1>5, <1>6, <1>7, <1>8, <1>9, <1>10, <1>11, <1>12
          DEF PasoHilo

\* The steps of another connection: it takes from its own semaphore, and marks the
\* messages as sent to its own process.
LEMMA CreditoAjeno ==
    ASSUME UnaConexion, Tipado, Tipado', Creditos, NEW c \in Conexiones, NEW d \in Conexiones,
           d # c, Suscribir(d) \/ PasoHilo(d) \/ Recibir(d) \/ Desconectar(d)
    PROVE  Credito(c)'
  <1>t. /\ hilo \in [Conexiones -> TipoHilo]
        /\ canal \in [Conexiones -> Paquete]
        /\ sem_cont_msjs \in [Conexiones -> Nat]
        /\ cliente \in [Conexiones -> EstadoCliente]
        /\ mensajes_cola \in Seq(Mensaje)
        /\ d[1] \in Suscriptores
    BY DEF Tipado, Conexiones
  <1>0. Registrado(d) /\ Credito(c)
    BY DEF Creditos
  <1>1. c[1] # d[1]
    BY UnRegistro
  <1>2. hilo'[c] = hilo[c]
    BY <1>t DEF Suscribir, PasoHilo, ContarSinEnviar, alta_suscriptor_cola, Continuar, Despertar,
                TrabarParaEnviar, Enviar, EnviarACerrado, RecibirAck, PerderConexion, Terminar,
                eliminar_suscriptor_por_id, Recibir, Desconectar, Pasar
  <1>3. canal'[c] = canal[c] /\ cliente'[c] = cliente[c]
    BY <1>t DEF Suscribir, PasoHilo, ContarSinEnviar, alta_suscriptor_cola, Continuar, Despertar,
                TrabarParaEnviar, Enviar, EnviarACerrado, RecibirAck, PerderConexion, Terminar,
                eliminar_suscriptor_por_id, Recibir, Desconectar, clientes
  <1>4. sem_cont_msjs'[c] = sem_cont_msjs[c]
    <2>1. CASE Despertar(d)
      <3>1. hilo[d].reg = d
        BY <1>0, <2>1 DEF Despertar, Registrado, EnLazo
      <3> QED BY <1>t, <2>1, <3>1 DEF Despertar
    <2>2. CASE alta_suscriptor_cola(d)
      BY <1>t, <2>2 DEF alta_suscriptor_cola
    <2>3. CASE ~ (Despertar(d) \/ alta_suscriptor_cola(d))
      <3>1. UNCHANGED sem_cont_msjs
        BY <2>3 DEF Suscribir, PasoHilo, ContarSinEnviar, Continuar, TrabarParaEnviar, Enviar,
                    EnviarACerrado, RecibirAck, PerderConexion, Terminar,
                    eliminar_suscriptor_por_id, Recibir, Desconectar, registros
      <3> QED BY <3>1
    <2> QED BY <2>1, <2>2, <2>3
  <1>5. /\ SinEnviar(c[1])' = SinEnviar(c[1])
        /\ \A i \in SinEnviar(c[1]) : mensajes_cola'[i].id_mensaje = mensajes_cola[i].id_mensaje
    <2>1. CASE Continuar(d)
      <3>1. mensajes_cola' =
               set_msg_enviado_a_suscriptor(mensajes_cola, d[1], hilo[d].ult_id_recibido)
        BY <2>1 DEF Continuar
      <3>2. /\ Len(mensajes_cola') = Len(mensajes_cola)
            /\ \A i \in 1 .. Len(mensajes_cola) :
                  /\ mensajes_cola'[i].id_mensaje = mensajes_cola[i].id_mensaje
                  /\ mensajes_cola[i].sended_suscriptors
                        \subseteq mensajes_cola'[i].sended_suscriptors
                  /\ \A r \in mensajes_cola'[i].sended_suscriptors :
                        r \in mensajes_cola[i].sended_suscriptors \/ r = d[1]
        BY <1>t, <3>1, MarcarOK
      <3> QED BY <1>1, <3>2 DEF SinEnviar
    <2>2. CASE ~Continuar(d)
      <3>1. UNCHANGED mensajes_cola
        BY <2>2 DEF Suscribir, PasoHilo, ContarSinEnviar, alta_suscriptor_cola, Despertar,
                    TrabarParaEnviar, Enviar, EnviarACerrado, RecibirAck, PerderConexion, Terminar,
                    eliminar_suscriptor_por_id, Recibir, Desconectar, mutexYCola
      <3> QED BY <3>1 DEF SinEnviar
    <2> QED BY <2>1, <2>2
  <1>6. sem_cont_msjs[c] <= sem_cont_msjs'[c]
    BY <1>t, <1>4
  <1> QED BY <1>0, <1>2, <1>3, <1>5, <1>6, CreditoQueda

\* The steps of the publishing threads: a new message comes with a signal for every
\* subscriber of the queue, and the end of a subscription takes none away.
LEMMA CreditoPublicacion ==
    ASSUME UnaConexion, Tipado, Tipado', Creditos, NEW c \in Conexiones, NEW p \in Publicadores,
           \/ RecibirPublicacion(p)
           \/ \E s \in Suscriptores : RecibirFin(p, s)
           \/ PasoPublicacion(p)
    PROVE  Credito(c)'
  <1>t. sem_cont_msjs \in [Conexiones -> Nat] /\ suscriptores \in Seq(Conexiones)
    BY DEF Tipado
  <1>0. Registrado(c) /\ Credito(c)
    BY DEF Creditos
  <1>1. UNCHANGED <<hilo, cliente, canal>>
    BY DEF PasoPublicacion, RecibirPublicacion, RecibirFin, SoltarTrasRecibir, TomarId, Encolar,
           Contar, Deshabilitar, DeshabilitarInexistente, Confirmar, FinConfirmar, clientes
  <1>2. CASE Encolar(p)
    <2> SUFFICES ASSUME EnLazo(c), cliente[c] = "suscripto" PROVE Credito(c)'
      BY <1>1 DEF Credito, EnLazo
    <2>1. sem_cont_msjs'[c] = sem_cont_msjs[c] + 1
      <3>1. c \in ToSet(suscriptores)
        BY <1>0 DEF Registrado, EnUso, ToSet
      <3> QED BY <1>2, <3>1 DEF Encolar, Aviso
    <2>2. /\ sem_cont_msjs[c] \in Nat
          /\ Cardinality(SinEnviar(c[1])) \in Nat
      BY <1>t, SinEnviarFinito
    <2>3. Cardinality(SinEnviar(c[1])') \in Nat
      <3>1. Len(mensajes_cola') \in Nat
        BY DEF Tipado
      <3>2. IsFiniteSet(1 .. Len(mensajes_cola'))
        BY <3>1, FS_Interval
      <3> QED BY <3>2, FS_Subset, FS_CardinalityType DEF SinEnviar
    <2>4. \A n \in Nat : Cardinality(SinEnviar(c[1])) <= n =>
             /\ Cardinality(SinEnviar(c[1])') <= n + 1
             /\ \A id : Falta(c[1], id) => Falta(c[1], id)' \/ Cardinality(SinEnviar(c[1])') <= n
      BY <1>2, EncolarCuenta
    <2>5. ASSUME NEW id, Alcanza(c, id) PROVE Alcanza(c, id)'
      <3>1. CASE Cardinality(SinEnviar(c[1])) <= sem_cont_msjs[c]
        BY <2>1, <2>2, <2>4, <3>1 DEF Alcanza
      <3>2. CASE /\ Cardinality(SinEnviar(c[1])) <= sem_cont_msjs[c] + 1
                 /\ Falta(c[1], id)
        <4>1. sem_cont_msjs[c] + 1 \in Nat
          BY <2>2
        <4>2. /\ Cardinality(SinEnviar(c[1])') <= sem_cont_msjs[c] + 1 + 1
              /\ Falta(c[1], id)' \/ Cardinality(SinEnviar(c[1])') <= sem_cont_msjs[c] + 1
          BY <2>4, <3>2, <4>1
        <4> QED BY <2>1, <4>2 DEF Alcanza
      <3> QED BY <2>5, <3>1, <3>2 DEF Alcanza
    <2>6. Cardinality(SinEnviar(c[1])) <= sem_cont_msjs[c]
             => Cardinality(SinEnviar(c[1])') <= sem_cont_msjs'[c]
      BY <2>1, <2>2, <2>4
    <2>7. Cardinality(SinEnviar(c[1])) <= sem_cont_msjs[c] + 1
             => Cardinality(SinEnviar(c[1])') <= sem_cont_msjs'[c] + 1
      <3>1. sem_cont_msjs[c] + 1 \in Nat
        BY <2>2
      <3> QED BY <2>1, <2>4, <3>1
    <2> QED BY <1>0, <1>1, <2>5, <2>6, <2>7 DEF Credito
  <1>3. CASE ~Encolar(p)
    <2>1. UNCHANGED mensajes_cola
      BY <1>3 DEF PasoPublicacion, RecibirPublicacion, RecibirFin, SoltarTrasRecibir, TomarId,
                  Contar, Deshabilitar, DeshabilitarInexistente, Confirmar, FinConfirmar,
                  mutexYCola
    <2>2. sem_cont_msjs[c] <= sem_cont_msjs'[c]
      <3>1. CASE Deshabilitar(p)
        BY <1>t, <3>1 DEF Deshabilitar, SemaforoTrasFin
      <3>2. CASE ~Deshabilitar(p)
        <4>1. UNCHANGED sem_cont_msjs
          BY <1>3, <3>2 DEF PasoPublicacion, RecibirPublicacion, RecibirFin, SoltarTrasRecibir,
                      TomarId, Contar, DeshabilitarInexistente, Confirmar, FinConfirmar,
                      registros
        <4> QED BY <1>t, <4>1
      <3> QED BY <3>1, <3>2
    <2> QED BY <1>0, <1>1, <2>1, <2>2, CreditoQueda DEF SinEnviar
  <1> QED BY <1>2, <1>3

LEMMA CreditosPaso ==
    ASSUME UnPublicador, UnaConexion, Tipado, Ids, Creditos, [Next]_vars
    PROVE  Creditos'
  <1>1. Tipado'
    BY TiposPaso
  <1>2. Afuera' /\ Estreno'
    BY AfueraPaso, EstrenoPaso DEF Creditos
  <1>3. ASSUME NEW c \in Conexiones PROVE Registrado(c)'
    BY RegistradoPaso DEF Creditos
  <1>4. ASSUME NEW c \in Conexiones PROVE Credito(c)'
    <2>1. CASE UNCHANGED vars
      BY <2>1 DEF vars, mutexYCola, registros, clientes, Creditos, Credito, Alcanza, Falta,
                  SinEnviar
    <2>2. CASE Next
      BY <1>1, <2>2, CreditoPropio, CreditoAjeno, CreditoPublicacion DEF Next
    <2> QED BY <2>1, <2>2
  <1> QED BY <1>2, <1>3, <1>4 DEF Creditos

\* When each process subscribes once, before anything is published, and one publisher
\* connects at a time, no signal is lost: the thread of a connected process sleeps
\* (sem_wait of atender_suscripcion) only when no message of the queue is still to be
\* sent to it, whatever is evicted or acknowledged meanwhile.
THEOREM NingunAvisoPerdido ==
    ASSUME UnPublicador, UnaConexion
    PROVE  Spec => []EsperaSoloSiRecibioTodo
  <1> DEFINE I == Tipado /\ Ids /\ Creditos
  <1>1. Init => I
    <2>1. Init => Creditos
      BY DEF Init, Creditos, Afuera, Estreno, Publica, Registrado, EnLazo, Credito
    <2> QED BY <2>1, TiposIniciales, IdsIniciales
  <1>2. I /\ [Next]_vars => I'
    BY TiposPaso, IdsPaso, CreditosPaso
  <1>3. I => EsperaSoloSiRecibioTodo
    <2> SUFFICES ASSUME Tipado, Creditos, NEW c \in Conexiones,
                        hilo[c].pc = "esperar", cliente[c] = "suscripto",
                        sem_cont_msjs[hilo[c].reg] = 0
                 PROVE  cant_msjs_sin_enviar(c[1]) = 0
      BY DEF EsperaSoloSiRecibioTodo
    <2>1. hilo[c].reg = c /\ Cardinality(SinEnviar(c[1])) <= sem_cont_msjs[c]
      BY DEF Creditos, Registrado, EnLazo, Credito
    <2> QED BY <2>1, SinEnviarFinito
  <1> QED BY <1>1, <1>2, <1>3, PTL DEF Spec
=============================================================================
