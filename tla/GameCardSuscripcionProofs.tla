---------------------- MODULE GameCardSuscripcionProofs ----------------------
(***************************************************************************)
(* Proofs about GameCardSuscripcion, for every number of queues, threads   *)
(* and events: g_mutex_envio, which one thread locks and another frees,    *)
(* excludes all the same, and the messages of a queue are counted exactly. *)
(***************************************************************************)
EXTENDS GameCardSuscripcion, TLAPS

Pasos == {"fuera", "suscribir", "reconectar", "servir", "empezar", "dormir", "finalizar"}

PasosHilo ==
    {"libre", "conectar", "conectado", "rechazado", "escuchar", "trabar", "contar", "vacia",
     "cerrar"}

Tipos ==
    /\ lanzador \in [Lanzadores -> [pc : Pasos, cola : DOMAIN Cola]]
    /\ lanzador["main"].pc # "empezar"
    /\ hilo \in [Hilos -> [pc : PasosHilo, cnt : Nat]]
    /\ g_cnt_msjs \in [Colas -> Nat]
    /\ fin \in [Colas -> {"fuera", "conectar", "confirmar"}]

\* What a thread has read of the counter of its queue is what the counter says.
LeidoVigente == \A h \in Hilos : hilo[h].pc = "contar" => hilo[h].cnt = g_cnt_msjs[h[1]]

IInv ==
    /\ Tipos
    /\ EnvioDeUno
    /\ LeidoVigente
    /\ CuentaExacta

\* The invariant sees no other variable than these.
observadas == <<lanzador, hilo, g_cnt_msjs, recibidos, fin, g_mutex_envio>>

(***************************************************************************)
(* Lemmas: one for each way of taking and of giving up g_mutex_envio       *)
(***************************************************************************)

\* A step after which nothing the invariant sees has changed keeps it.
LEMMA Ajeno == IInv /\ UNCHANGED observadas => IInv'
  BY DEF IInv, Tipos, EnvioDeUno, LeidoVigente, CuentaExacta, observadas, HilosDeudores,
         FinesDeudores, ReconexionDebe

\* The first queue exists.
LEMMA Primera == 1 \in DOMAIN Cola
  BY SuscripcionAssumption

\* A launcher that has subscribed a queue goes on to another step, which is not the
\* first of the reconnection thread.
LEMMA TrasLanzarOK ==
    ASSUME Tipos, NEW l \in Lanzadores
    PROVE  TrasLanzar(l) \in [pc : Pasos, cola : DOMAIN Cola]
           /\ (lanzador[l].pc = "suscribir" => TrasLanzar(l).pc # "empezar")
  <1>1. lanzador[l] \in [pc : Pasos, cola : DOMAIN Cola]
    BY DEF Tipos
  <1>2. DOMAIN Cola = 1 .. Len(Cola) /\ Len(Cola) \in Nat
    BY SuscripcionAssumption
  <1>3. CASE lanzador[l].cola < Len(Cola)
    BY <1>1, <1>2, <1>3 DEF TrasLanzar
  <1>4. CASE lanzador[l].cola = Len(Cola) /\ l = "main"
    <2>1. TrasLanzar(l) = [pc |-> "reconectar", cola |-> 1]
      BY <1>1, <1>2, <1>4 DEF TrasLanzar
    <2> QED BY <2>1, Primera DEF Pasos
  <1>5. CASE lanzador[l].cola = Len(Cola) /\ l = "reconexion"
    <2>1. TrasLanzar(l) = [pc |-> "dormir", cola |-> 1]
      BY <1>1, <1>2, <1>5 DEF TrasLanzar
    <2> QED BY <2>1, Primera DEF Pasos
  <1> QED BY <1>1, <1>2, <1>3, <1>4, <1>5 DEF Lanzadores

\* A thread that locks the mutex, or keeps what it had, and reads the counter of its
\* queue if it is about to count.
LEMMA UnHilo ==
    ASSUME IInv, NEW h \in Hilos, NEW pc \in PasosHilo, NEW n \in Nat,
           hilo' = [hilo EXCEPT ![h] = [pc |-> pc, cnt |-> n]],
           pc = "contar" => n = g_cnt_msjs[h[1]],
           \/ /\ ~g_mutex_envio /\ g_mutex_envio' = TRUE
              /\ pc \in {"conectar", "contar", "vacia"}
           \/ /\ h \in HilosDeudores /\ g_mutex_envio' = FALSE
              /\ pc \notin {"conectar", "contar", "vacia"}
           \/ /\ h \notin HilosDeudores /\ UNCHANGED g_mutex_envio
              /\ pc \notin {"conectar", "contar", "vacia"},
           UNCHANGED <<lanzador, g_cnt_msjs, recibidos, fin>>
    PROVE  IInv'
  <1> USE DEF IInv
  <1>0. \A g \in Hilos : hilo'[g] = IF g = h THEN [pc |-> pc, cnt |-> n] ELSE hilo[g]
    BY DEF Tipos
  <1>1. HilosDeudores' = IF pc \in {"conectar", "contar", "vacia"} THEN HilosDeudores \cup {h}
                                                          ELSE HilosDeudores \ {h}
    BY <1>0 DEF HilosDeudores
  <1>2. FinesDeudores' = FinesDeudores /\ ReconexionDebe' = ReconexionDebe
    BY DEF FinesDeudores, ReconexionDebe
  <1>3. Tipos'
    BY DEF Tipos
  <1>4. EnvioDeUno'
    BY <1>1, <1>2 DEF EnvioDeUno
  <1>5. LeidoVigente'
    BY <1>0 DEF LeidoVigente
  <1>6. CuentaExacta'
    BY DEF CuentaExacta
  <1> QED BY <1>3, <1>4, <1>5, <1>6

\* A launcher that neither locks the mutex nor is the one that owes it.
LEMMA UnLanzador ==
    ASSUME IInv, Tipos', ~ReconexionDebe, ~ReconexionDebe',
           UNCHANGED <<g_mutex_envio, hilo, g_cnt_msjs, recibidos, fin>>
    PROVE  IInv'
  BY DEF IInv, EnvioDeUno, HilosDeudores, FinesDeudores, LeidoVigente, CuentaExacta

(***************************************************************************)
(* The invariant                                                           *)
(***************************************************************************)
LEMMA Inicio == Init => IInv
  <1> SUFFICES ASSUME Init PROVE IInv
    OBVIOUS
  <1>1. Tipos
    <2>1. lanzador \in [Lanzadores -> [pc : Pasos, cola : DOMAIN Cola]]
          /\ lanzador["main"].pc # "empezar"
      <3>1. [pc |-> "suscribir", cola |-> 1] \in [pc : Pasos, cola : DOMAIN Cola]
            /\ [pc |-> "fuera", cola |-> 1] \in [pc : Pasos, cola : DOMAIN Cola]
        BY Primera DEF Pasos
      <3> QED BY <3>1 DEF Init, Lanzadores
    <2>2. hilo \in [Hilos -> [pc : PasosHilo, cnt : Nat]]
      BY DEF Init, Libre, PasosHilo
    <2> QED BY <2>1, <2>2 DEF Init, Tipos
  <1>2. EnvioDeUno
    BY DEF Init, EnvioDeUno, HilosDeudores, FinesDeudores, ReconexionDebe, Libre
  <1>3. LeidoVigente /\ CuentaExacta
    BY DEF Init, LeidoVigente, CuentaExacta, Libre
  <1> QED BY <1>1, <1>2, <1>3 DEF IInv

LEMMA SuscribirOK == ASSUME IInv, NEW l \in Lanzadores, Suscribir(l) PROVE IInv'
  <1> DEFINE c == Cola[lanzador[l].cola]
  <1> USE DEF IInv
  <1>1. TrasLanzar(l) \in [pc : Pasos, cola : DOMAIN Cola] /\ TrasLanzar(l).pc # "empezar"
    BY TrasLanzarOK DEF Suscribir
  <1>2. lanzador' = [lanzador EXCEPT ![l] = TrasLanzar(l)] /\ lanzador[l].pc = "suscribir"
        /\ UNCHANGED <<g_cnt_msjs, recibidos, fin>>
    BY DEF Suscribir, cuentas, pedidos
  <1>3. /\ lanzador' \in [Lanzadores -> [pc : Pasos, cola : DOMAIN Cola]]
        /\ lanzador'["main"].pc # "empezar"
        /\ ReconexionDebe' = ReconexionDebe
    BY <1>1, <1>2 DEF Tipos, ReconexionDebe, Lanzadores
  <1>4. CASE UNCHANGED <<g_mutex_envio, hilo>>
    <2>1. Tipos'
      BY <1>2, <1>3, <1>4 DEF Tipos
    <2>2. EnvioDeUno'
      BY <1>2, <1>3, <1>4 DEF EnvioDeUno, HilosDeudores, FinesDeudores
    <2>3. LeidoVigente' /\ CuentaExacta'
      BY <1>2, <1>4 DEF LeidoVigente, CuentaExacta
    <2> QED BY <2>1, <2>2, <2>3
  <1>5. ASSUME NEW h \in HilosDe(c), TomarEnvio, hilo[h] = Libre, hilo' = [hilo EXCEPT ![h].pc = "conectar"]
        PROVE  IInv'
    <2>1. h \in Hilos
      BY <1>5 DEF HilosDe
    <2>2. \A g \in Hilos : hilo'[g] = IF g = h THEN [hilo[h] EXCEPT !.pc = "conectar"]
                                               ELSE hilo[g]
      BY <1>5 DEF Tipos
    <2>3. Tipos'
      <3>1. [hilo[h] EXCEPT !.pc = "conectar"] \in [pc : PasosHilo, cnt : Nat]
        BY <2>1 DEF Tipos, PasosHilo
      <3>2. hilo' \in [Hilos -> [pc : PasosHilo, cnt : Nat]]
        BY <1>5, <2>1, <3>1 DEF Tipos
      <3> QED BY <1>2, <1>3, <3>2 DEF Tipos
    <2>4. HilosDeudores' = HilosDeudores \cup {h} /\ FinesDeudores' = FinesDeudores
      BY <1>2, <2>1, <2>2 DEF HilosDeudores, FinesDeudores, Tipos
    <2>5. EnvioDeUno'
      BY <1>3, <1>5, <2>4 DEF EnvioDeUno, TomarEnvio
    <2>6. LeidoVigente' /\ CuentaExacta'
      BY <1>2, <2>1, <2>2 DEF LeidoVigente, CuentaExacta, Tipos
    <2> QED BY <2>3, <2>5, <2>6
  <1> QED BY <1>4, <1>5 DEF Suscribir

LEMMA LanzadoresOK ==
    ASSUME IInv, LanzarReconexion \/ EmpezarReconexion \/ Reconectar \/ Senal
    PROVE  IInv'
  <1> USE DEF IInv
  <1>1. CASE LanzarReconexion
    <2>1. Tipos' /\ ReconexionDebe'
      <3>1. [pc |-> "servir", cola |-> 1] \in [pc : Pasos, cola : DOMAIN Cola]
            /\ [pc |-> "empezar", cola |-> 1] \in [pc : Pasos, cola : DOMAIN Cola]
        BY Primera DEF Pasos
      <3>2. lanzador' \in [Lanzadores -> [pc : Pasos, cola : DOMAIN Cola]]
            /\ lanzador'["main"].pc # "empezar" /\ lanzador'["reconexion"].pc = "empezar"
        BY <1>1, <3>1 DEF LanzarReconexion, Lanzadores
      <3> QED BY <1>1, <3>2 DEF LanzarReconexion, Tipos, cuentas, pedidos, ReconexionDebe
    <2>2. EnvioDeUno' /\ LeidoVigente' /\ CuentaExacta'
      BY <1>1, <2>1 DEF LanzarReconexion, TomarEnvio, EnvioDeUno, HilosDeudores, FinesDeudores,
                        LeidoVigente, CuentaExacta, cuentas, pedidos
    <2> QED BY <2>1, <2>2
  <1>2. CASE EmpezarReconexion
    <2>1. Tipos' /\ ReconexionDebe /\ ~ReconexionDebe'
      BY <1>2 DEF EmpezarReconexion, Tipos, Lanzadores, Pasos, cuentas, pedidos, ReconexionDebe
    <2>2. EnvioDeUno' /\ LeidoVigente' /\ CuentaExacta'
      BY <1>2, <2>1 DEF EmpezarReconexion, SoltarEnvio, EnvioDeUno, HilosDeudores,
                        FinesDeudores, LeidoVigente, CuentaExacta, cuentas, pedidos
    <2> QED BY <2>1, <2>2
  <1>3. CASE Reconectar
    <2>1. Tipos' /\ ~ReconexionDebe /\ ~ReconexionDebe'
      BY <1>3 DEF Reconectar, Tipos, Lanzadores, Pasos, cuentas, pedidos, ReconexionDebe
    <2> QED BY <1>3, <2>1, UnLanzador DEF Reconectar, cuentas, pedidos
  <1>4. CASE Senal
    <2>1. [pc |-> "finalizar", cola |-> 1] \in [pc : Pasos, cola : DOMAIN Cola]
      BY Primera DEF Pasos
    <2>2. Tipos' /\ ReconexionDebe' = ReconexionDebe
      BY <1>4, <2>1 DEF Senal, Tipos, Lanzadores, cuentas, pedidos, ReconexionDebe
    <2>3. EnvioDeUno' /\ LeidoVigente' /\ CuentaExacta'
      BY <1>4, <2>2 DEF Senal, EnvioDeUno, HilosDeudores, FinesDeudores, LeidoVigente,
                        CuentaExacta, cuentas, pedidos
    <2> QED BY <2>2, <2>3
  <1> QED BY <1>1, <1>2, <1>3, <1>4

\* One request of FIN is under way at most, and it keeps the mutex until it ends.
LEMMA FinesOK == ASSUME IInv, PedirFin \/ \E c \in Colas : Fin(c) PROVE IInv'
  <1> USE DEF IInv
  <1>1. CASE PedirFin
    <2> DEFINE s == lanzador["main"]
               c == Cola[s.cola]
    <2>1. s \in [pc : Pasos, cola : DOMAIN Cola] /\ c \in Colas
      BY DEF Tipos, Lanzadores, Colas
    <2>2. PICK t \in [pc : Pasos, cola : DOMAIN Cola] :
            t.pc # "empezar" /\ lanzador' = [lanzador EXCEPT !["main"] = t]
      <3>1. [pc |-> "servir", cola |-> 1] \in [pc : Pasos, cola : DOMAIN Cola]
        BY Primera DEF Pasos
      <3>2. s.cola < Len(Cola) => [s EXCEPT !.cola = @ + 1] \in [pc : Pasos, cola : DOMAIN Cola]
        BY <2>1, SuscripcionAssumption
      <3>3. s.pc = "finalizar"
        BY <1>1 DEF PedirFin
      <3>4. [s EXCEPT !.cola = @ + 1].pc = "finalizar"
        BY <2>1, <3>3
      <3>5. CASE s.cola < Len(Cola)
        BY <1>1, <3>2, <3>4, <3>5 DEF PedirFin
      <3>6. CASE ~(s.cola < Len(Cola))
        BY <1>1, <3>1, <3>6 DEF PedirFin
      <3> QED BY <3>5, <3>6
    <2>3. Tipos' /\ ReconexionDebe' = ReconexionDebe
      BY <1>1, <2>1, <2>2 DEF PedirFin, Tipos, Lanzadores, cuentas, ReconexionDebe
    <2>4. FinesDeudores' = FinesDeudores \cup {c} /\ HilosDeudores' = HilosDeudores
      BY <1>1, <2>1 DEF PedirFin, FinesDeudores, HilosDeudores, Tipos
    <2>5. EnvioDeUno'
      BY <1>1, <2>3, <2>4 DEF PedirFin, TomarEnvio, EnvioDeUno
    <2>6. LeidoVigente' /\ CuentaExacta'
      BY <1>1 DEF PedirFin, LeidoVigente, CuentaExacta, cuentas
    <2> QED BY <2>3, <2>5, <2>6
  <1>2. ASSUME NEW c \in Colas, Fin(c) PROVE IInv'
    <2>1. /\ c \in FinesDeudores
          /\ UNCHANGED <<lanzador, hilo, g_cnt_msjs, recibidos>>
          /\ \/ fin' = [fin EXCEPT ![c] = "confirmar"] /\ UNCHANGED g_mutex_envio
             \/ fin' = [fin EXCEPT ![c] = "fuera"] /\ g_mutex_envio' = FALSE
      BY <1>2 DEF Fin, ConectarFin, ConfirmarFin, SoltarEnvio, FinesDeudores, conexion, cuentas
    <2>2. Tipos' /\ LeidoVigente' /\ CuentaExacta'
      BY <2>1 DEF Tipos, LeidoVigente, CuentaExacta
    <2>3. HilosDeudores' = HilosDeudores /\ ReconexionDebe' = ReconexionDebe
      BY <2>1 DEF HilosDeudores, ReconexionDebe
    <2>4. \/ FinesDeudores' = FinesDeudores /\ UNCHANGED g_mutex_envio
          \/ FinesDeudores' = FinesDeudores \ {c} /\ g_mutex_envio' = FALSE
      BY <2>1 DEF FinesDeudores, Tipos
    <2>5. EnvioDeUno'
      BY <2>1, <2>3, <2>4 DEF EnvioDeUno
    <2> QED BY <2>2, <2>5
  <1> QED BY <1>1, <1>2

\* The steps of a subscription.
LEMMA SuscripcionOK ==
    ASSUME IInv, NEW h \in Hilos, Suscripcion(h) \/ Llega(h)
    PROVE  IInv'
  <1>0. h[1] \in Colas /\ g_cnt_msjs[h[1]] \in Nat /\ 0 \in Nat
    BY SuscripcionAssumption DEF IInv, Tipos
  <1>1. CASE Conectar(h)
    <2>1. h \in HilosDeudores
      BY <1>1 DEF Conectar, HilosDeudores
    <2>2. PICK pc \in {"conectado", "rechazado"} : IrA(h, pc)
      BY <1>1 DEF Conectar
    <2>3. /\ hilo' = [hilo EXCEPT ![h] = [pc |-> pc, cnt |-> 0]]
          /\ g_mutex_envio' = FALSE
          /\ UNCHANGED <<lanzador, g_cnt_msjs, recibidos, fin>>
      BY <1>1, <2>2 DEF Conectar, SoltarEnvio, IrA, cuentas, pedidos
    <2>4. pc \in PasosHilo /\ pc \notin {"conectar", "contar", "vacia"}
      BY DEF PasosHilo
    <2> QED BY <1>0, <2>1, <2>3, <2>4, UnHilo
  <1>2. CASE MarcarConexion(h)
    <2>1. h \notin HilosDeudores
      BY <1>2 DEF MarcarConexion, HilosDeudores
    <2>2. PICK pc \in {"escuchar", "libre"} : IrA(h, pc)
      BY <1>2 DEF MarcarConexion
    <2>3. /\ hilo' = [hilo EXCEPT ![h] = [pc |-> pc, cnt |-> 0]]
          /\ UNCHANGED <<g_mutex_envio, lanzador, g_cnt_msjs, recibidos, fin>>
      BY <1>2, <2>2 DEF MarcarConexion, IrA, cuentas, pedidos
    <2>4. pc \in PasosHilo /\ pc \notin {"conectar", "contar", "vacia"}
      BY DEF PasosHilo
    <2> QED BY <1>0, <2>1, <2>3, <2>4, UnHilo
  <1>3. CASE RecibirMensaje(h)
    <2>1. /\ hilo' = [hilo EXCEPT ![h] = [pc |-> "contar", cnt |-> g_cnt_msjs[h[1]]]]
          /\ ~g_mutex_envio /\ g_mutex_envio' = TRUE
          /\ UNCHANGED <<lanzador, g_cnt_msjs, recibidos, fin>>
      BY <1>3 DEF RecibirMensaje, TomarEnvio, cuentas, pedidos
    <2>2. "contar" \in PasosHilo
      BY DEF PasosHilo
    <2> QED BY <1>0, <2>1, <2>2, UnHilo
  <1>4. CASE Contar(h)
    <2> USE DEF IInv
    <2>1. h \in HilosDeudores /\ hilo[h].cnt = g_cnt_msjs[h[1]] /\ hilo[h].pc = "contar"
      BY <1>4 DEF Contar, HilosDeudores, LeidoVigente
    <2>2. hilo' = [hilo EXCEPT ![h] = [pc |-> "escuchar", cnt |-> 0]]
      BY <1>4 DEF Contar, IrA
    <2>3. Tipos'
      <3>1. g_cnt_msjs' \in [Colas -> Nat]
        BY <1>0, <1>4, <2>1 DEF Contar, Tipos
      <3>2. hilo' \in [Hilos -> [pc : PasosHilo, cnt : Nat]]
        BY <2>2 DEF Tipos, PasosHilo
      <3> QED BY <1>4, <3>1, <3>2 DEF Contar, Tipos, pedidos
    <2>4. HilosDeudores' = HilosDeudores \ {h}
      BY <2>2 DEF HilosDeudores, Tipos
    <2>5. FinesDeudores' = FinesDeudores /\ ReconexionDebe' = ReconexionDebe
      BY <1>4 DEF Contar, FinesDeudores, ReconexionDebe, pedidos
    <2>6. EnvioDeUno' /\ HilosDeudores' = {}
      BY <1>4, <2>1, <2>4, <2>5 DEF Contar, SoltarEnvio, EnvioDeUno
    <2>7. LeidoVigente'
      BY <2>6 DEF LeidoVigente, HilosDeudores
    <2>8. CuentaExacta'
      BY <1>4, <2>1 DEF Contar, CuentaExacta
    <2> QED BY <2>3, <2>6, <2>7, <2>8
  <1>5. CASE PerderConexion(h)
    <2>1. h \notin HilosDeudores
      BY <1>5 DEF PerderConexion, HilosDeudores
    <2>2. CASE IrA(h, "cerrar")
      <3>1. /\ hilo' = [hilo EXCEPT ![h] = [pc |-> "cerrar", cnt |-> 0]]
            /\ UNCHANGED <<g_mutex_envio, lanzador, g_cnt_msjs, recibidos, fin>>
        BY <1>5, <2>2 DEF PerderConexion, IrA, cuentas, pedidos
      <3>2. "cerrar" \in PasosHilo
        BY DEF PasosHilo
      <3> QED BY <1>0, <2>1, <3>1, <3>2, UnHilo
    <2>3. CASE UNCHANGED hilo
      BY <1>5, <2>3, Ajeno DEF PerderConexion, observadas, cuentas, pedidos
    <2> QED BY <1>5, <2>2, <2>3 DEF PerderConexion
  <1>7. CASE RecibirVacia(h)
    <2>1. /\ hilo' = [hilo EXCEPT ![h] = [pc |-> "vacia", cnt |-> 0]]
          /\ ~g_mutex_envio /\ g_mutex_envio' = TRUE
          /\ UNCHANGED <<lanzador, g_cnt_msjs, recibidos, fin>>
      BY <1>7 DEF RecibirVacia, TomarEnvio, IrA, cuentas, pedidos
    <2>2. "vacia" \in PasosHilo
      BY DEF PasosHilo
    <2> QED BY <1>0, <2>1, <2>2, UnHilo
  <1>8. CASE SoltarVacia(h)
    <2>1. h \in HilosDeudores
      BY <1>8 DEF SoltarVacia, HilosDeudores
    <2>2. /\ hilo' = [hilo EXCEPT ![h] = [pc |-> "escuchar", cnt |-> 0]]
          /\ g_mutex_envio' = FALSE
          /\ UNCHANGED <<lanzador, g_cnt_msjs, recibidos, fin>>
      BY <1>8 DEF SoltarVacia, SoltarEnvio, IrA, cuentas, pedidos
    <2>3. "escuchar" \in PasosHilo
      BY DEF PasosHilo
    <2> QED BY <1>0, <2>1, <2>2, <2>3, UnHilo
  <1>6. CASE RecibirFin(h) \/ Cerrar(h) \/ Llega(h)
    <2>1. h \notin HilosDeudores
      BY <1>6 DEF RecibirFin, Cerrar, Llega, HilosDeudores
    <2>2. PICK pc \in {"cerrar", "libre", "trabar"} : IrA(h, pc)
      BY <1>6 DEF RecibirFin, Cerrar, Llega
    <2>3. /\ hilo' = [hilo EXCEPT ![h] = [pc |-> pc, cnt |-> 0]]
          /\ UNCHANGED <<g_mutex_envio, lanzador, g_cnt_msjs, recibidos, fin>>
      BY <1>6, <2>2 DEF RecibirFin, Cerrar, Llega, IrA, cuentas, pedidos
    <2>4. pc \in PasosHilo /\ pc \notin {"conectar", "contar", "vacia"}
      BY DEF PasosHilo
    <2> QED BY <1>0, <2>1, <2>3, <2>4, UnHilo
  <1> QED BY <1>1, <1>2, <1>3, <1>4, <1>5, <1>6, <1>7, <1>8 DEF Suscripcion

LEMMA Paso == IInv /\ [Next]_vars => IInv'
  <1> SUFFICES ASSUME IInv, [Next]_vars PROVE IInv'
    OBVIOUS
  <1>1. CASE Principal
    BY <1>1, SuscribirOK, LanzadoresOK, FinesOK DEF Principal, Lanzadores
  <1>2. CASE Reconexion
    BY <1>2, SuscribirOK, LanzadoresOK DEF Reconexion, Lanzadores
  <1>3. CASE \E h \in Hilos : Suscripcion(h) \/ Llega(h)
    BY <1>3, SuscripcionOK
  <1>4. CASE Senal
    BY <1>4, LanzadoresOK
  <1>5. CASE \E c \in Colas : Fin(c)
    BY <1>5, FinesOK
  <1>6. CASE \E e \in Envios : Envia(e)
    BY <1>6, Ajeno DEF Envia, TrabarEnvio, Enviar, RecibirId, observadas, conexion, cuentas, pedidos
  <1>7. CASE AtenderGameboy \/ RecibirGameboy \/ RecibirEquivocado
    BY <1>7, Ajeno DEF AtenderGameboy, RecibirGameboy, RecibirEquivocado, observadas,
                       conexion, cuentas, pedidos
  <1>8. CASE BrokerCae \/ BrokerVuelve
    BY <1>8, Ajeno DEF BrokerCae, BrokerVuelve, observadas, conexion, cuentas, pedidos
  <1>9. CASE UNCHANGED vars
    BY <1>9, Ajeno DEF vars, observadas, conexion, cuentas, pedidos
  <1> QED BY <1>1, <1>2, <1>3, <1>4, <1>5, <1>6, <1>7, <1>8, <1>9 DEF Next

LEMMA Siempre == Spec => []IInv
  BY Inicio, Paso, PTL DEF Spec

\* g_mutex_envio, locked by the thread that creates a subscription and freed by the
\* subscription, is locked exactly while one thread owes its release, so that nobody
\* ever frees it under another (suscripcion.c).
THEOREM UnSoloDeudor == Spec => []EnvioDeUno
  <1>1. IInv => EnvioDeUno
    BY DEF IInv
  <1> QED BY <1>1, Siempre, PTL

\* The counter a subscription reports at its end is the number of messages received on
\* its queue, though the threads of two connections may share it
\* (rcv_msjs_broker_gc).
THEOREM CuentaDeMensajes == Spec => []CuentaExacta
  <1>1. IInv => CuentaExacta
    BY DEF IInv
  <1> QED BY <1>1, Siempre, PTL
=============================================================================
