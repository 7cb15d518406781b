------------------------------ MODULE TeamProofs ------------------------------
(***************************************************************************)
(* Proofs about Team, for any number of trainers, pokemons and messages:   *)
(* the steps of the threads that receive messages keep the invariant of    *)
(* TeamPasos, and what follows from it.                                    *)
(*                                                                         *)
(* A CAUGHT for the CATCH of another Team can wake up a trainer that still *)
(* waits for its own answer (CaBusca), which breaks Captura: but for that  *)
(* of the ids of the CATCH, the theorems are about a Team with no other at *)
(* work (SinAjenos).  The broker falls and comes back at any moment.  Once *)
(* a CATCH got no id and another one did (Mezcla), the list of ids may end *)
(* with a trainer that is not the one that catches and the threads of      *)
(* CATCH overlap: the theorems say what holds until then.                  *)
(*                                                                         *)
(* Last, that the pokemons the Team caught are those its trainers have.    *)
(* An exchange moves pokemons between two trainers, and conserves them     *)
(* because the one that asks for it has one too many of some species once  *)
(* it has received what it lacked (HaySobrante): it had as many as it      *)
(* wants when it was found in DEADLOCK, and nobody changed its list since  *)
(* (Parejo).                                                               *)
(*                                                                         *)
(* And that the Team falls for one reason only, an exchange with nobody to *)
(* exchange with, and only with more pokemons than it wants.  READY has a  *)
(* trainer for each signal (Senales).  The one that goes for an exchange   *)
(* goes alone (Solos) and finds at its arrival the one it went for         *)
(* (Encuentros).  Counting what each trainer has and wants, of all of them *)
(* together, finds that one (Conteo, HayCandidato).                        *)
(***************************************************************************)
EXTENDS TeamPasos
-----------------------------------------------------------------------------
(* APPEARED, LOCALIZED and GET. *)

\* These messages only add free pokemons and signal that there are some.
LEMMA MarcoLlegada ==
    ASSUME IInv, vivo, TiposRecep',
           UNCHANGED <<algoritmo, entrenador, hilo, colas, semEntrenador, trabada, cp, mp, glob,
                       reservados, atrapados, envios, vivo, broker, mutex_idCorrelativos,
                       idCorrelativosCatch, caughts>>,
           libres' \in Seq(Libre), Len(libres') >= Len(libres),
           sem' \in Semaforos, \A r \in NombresSem \ {"hay", "activacion"} : sem'[r] = sem[r]
    PROVE  IInv'
  <1> USE DEF IInv
  <1>1. TiposPlan'
    BY DEF colas, TiposPlan, TipoEntrenador, TipoHilo, TipoColas, TipoSem, TipoPlanificadores,
           TipoGlob, TipoMapa
  <1>2. Lugares' /\ SaleCompleto'
    BY MarcoLugares, MarcoSale DEF colas
  <1>3. Turnos' /\ Reservas'
    BY MarcoTurnos, MarcoReservas DEF colas, Protocolo, MismoEstado, MismosHilos, MismosPlazos, NombresSem
  <1>4. Medio'
    BY <1>1, MarcoMedio DEF colas, Protocolo
  <1>5. Captura'
    BY MarcoCaptura DEF Protocolo, MismaCaptura, EnCaptura, EnCpu, NombresSem
  <1> QED BY <1>1, <1>2, <1>3, <1>4, <1>5 DEF Protocolo

\* A message brings a pokemon and the place its thread is at is one of its own.
LEMMA LlegaOK ==
    ASSUME NEW m \in Ids, TiposRecep
    PROVE  /\ Llega(m).pokemon \in Especies /\ Llega(m).posiciones \in Seq(Lugar)
           /\ DOMAIN Llega(m).posiciones = 1 .. Len(Llega(m).posiciones)
           /\ Len(Llega(m).posiciones) \in Nat
           /\ LibreNuevo(m) \in Libre
  <1>1. broker.inicial \in BOOLEAN /\ mensaje[m].i \in DOMAIN Llega(m).posiciones
    BY DEF TiposRecep, TipoBroker
  <1>2. Llega(m).pokemon \in Especies /\ Llega(m).posiciones \in Seq(Lugar)
    BY <1>1, TeamAssumption DEF Llega, Lugar
  <1> DEFINE p == Llega(m).posiciones
  <1>3. DOMAIN p = 1 .. Len(p) /\ Len(p) \in Nat
    <2> HIDE DEF p
    <2> QED BY <1>2, LenProperties DEF p
  <1>4. p[mensaje[m].i] \in Lugar
    BY <1>1, <1>2, <1>3, ElementOfSeq
  <1> QED BY <1>2, <1>3, <1>4 DEF LibreNuevo, Libre

\* A free pokemon is added to the map.
LEMMA ConLibre ==
    ASSUME NEW m \in Ids, TiposRecep, libres \in Seq(Libre)
    PROVE  /\ Append(libres, LibreNuevo(m)) \in Seq(Libre)
           /\ Len(Append(libres, LibreNuevo(m))) >= Len(libres)
  <1> DEFINE l == LibreNuevo(m)
  <1>1. l \in Libre
    BY LlegaOK
  <1> HIDE DEF l
  <1>2. Append(libres, l) \in Seq(Libre) /\ Len(Append(libres, l)) = Len(libres) + 1
    BY <1>1, AppendProperties
  <1>3. Len(libres) \in Nat
    BY LenProperties
  <1> QED BY <1>2, <1>3 DEF l

\* A thread of a message goes on with the same pokemon.
LEMMA PcOK ==
    ASSUME TiposRecep, NEW m \in Ids, NEW pc \in PcMensaje, Pc(m, pc),
           UNCHANGED <<broker, mutex_idCorrelativos, idCorrelativosCatch, caughts>>
    PROVE  TiposRecep'
  BY DEF TiposRecep, Pc, Llega

\* The threads of APPEARED, LOCALIZED and GameBoy's messages.
LEMMA LlegadaOK ==
    ASSUME NEW m \in Ids, IInv, vivo, Llegada(m)
    PROVE  IInv'
  <1> USE DEF IInv
  <1>t. /\ libres \in Seq(Libre) /\ Len(libres) \in Nat
        /\ sem \in Semaforos
    BY LenProperties DEF TiposPlan, TipoMapa, TipoSem
  <1>h. /\ \A n \in {0, 1} : /\ Post("hay", n) \in Semaforos
                             /\ \A r \in NombresSem \ {"hay"} : Post("hay", n)[r] = sem[r]
        /\ \A n \in {0, 1} : /\ Post("activacion", n) \in Semaforos
                             /\ \A r \in NombresSem \ {"activacion"} : Post("activacion", n)[r] = sem[r]
    <2>1. sem.hay \in Nat /\ sem.activacion \in Nat
      BY <1>t DEF Semaforos
    <2>2. "hay" \in NombresSem /\ "activacion" \in NombresSem
      BY DEF NombresSem
    <2>3. ASSUME NEW n \in {0, 1}, NEW s \in {"hay", "activacion"}
          PROVE  /\ Post(s, n) \in Semaforos
                 /\ \A r \in NombresSem \ {s} : Post(s, n)[r] = sem[r]
      <3>1. s \in NombresSem /\ n \in Int /\ sem[s] + n >= 0
        BY <2>1, <2>2
      <3> QED BY <1>t, <3>1, PostOK
    <2> QED BY <2>3
  <1>1. CASE Aparece(m)
    <2>1. TiposRecep'
      <3>1. Pc(m, "mapa") \/ Pc(m, "fin")
        BY <1>1 DEF Aparece
      <3> QED BY <1>1, <3>1, PcOK DEF Aparece, PcMensaje
    <2> QED BY <1>1, <1>t, <2>1, MarcoLlegada DEF Aparece, planVars, mapa
  <1>2. CASE procesar_msg_localized(m)
    <2>1. TiposRecep'
      BY <1>2, PcOK DEF procesar_msg_localized, PcMensaje
    <2> QED BY <1>2, <1>t, <2>1, MarcoLlegada DEF procesar_msg_localized, planVars, mapa
  <1>3. CASE ApMapa(m)
    <2>1. TiposRecep'
      <3>1. Pc(m, "activa") \/ Pc(m, "evalua")
        BY <1>3 DEF ApMapa
      <3> QED BY <1>3, <3>1, PcOK DEF ApMapa, PcMensaje
    <2>2. CASE libres = <<>>
      <3> DEFINE l == LibreNuevo(m)
      <3>1. l \in Libre
        BY LlegaOK
      <3>2. libres' = <<l>> /\ sem' = Post("hay", 1)
        BY <1>3, <2>2 DEF ApMapa
      <3> HIDE DEF l
      <3>3. libres' \in Seq(Libre) /\ Len(libres') >= Len(libres)
        BY <2>2, <3>1, <3>2
      <3> QED BY <1>3, <1>t, <1>h, <2>1, <3>2, <3>3, MarcoLlegada DEF ApMapa
    <2>3. CASE libres # <<>>
      BY <1>3, <1>t, <2>1, <2>3, MarcoLlegada DEF ApMapa
    <2> QED BY <2>2, <2>3
  <1>4. CASE Evaluar(m)
    <2>1. TiposRecep'
      BY <1>4, PcOK DEF Evaluar, PcMensaje
    <2> QED BY <1>4, <1>t, <2>1, MarcoLlegada DEF Evaluar, planVars, mapa
  <1>5. CASE ApAgrega(m)
    <2>1. TiposRecep'
      BY <1>5, PcOK DEF ApAgrega, PcMensaje
    <2>2. libres' \in Seq(Libre) /\ Len(libres') >= Len(libres)
      BY <1>5, <1>t, ConLibre DEF ApAgrega
    <2> DEFINE n == IF mensaje[m].pc = "avisa" THEN 1 ELSE 0
    <2>3. sem' = Post("hay", n) /\ n \in {0, 1}
      BY <1>5 DEF ApAgrega
    <2> HIDE DEF n
    <2>4. sem' \in Semaforos /\ \A r \in NombresSem \ {"hay"} : sem'[r] = sem[r]
      BY <1>h, <2>3
    <2> QED BY <1>5, <2>1, <2>2, <2>4, MarcoLlegada DEF ApAgrega
  <1>6. CASE LocAvisa(m)
    <2>1. TiposRecep'
      BY <1>6, PcOK DEF LocAvisa, PcMensaje
    <2>2. sem' \in Semaforos /\ \A r \in NombresSem \ {"hay"} : sem'[r] = sem[r]
      BY <1>6, <1>h DEF LocAvisa
    <2> QED BY <1>6, <1>t, <2>1, <2>2, MarcoLlegada DEF LocAvisa, mapa
  <1>7. CASE LocAgrega(m)
    <2>1. TiposRecep'
      <3>1. mensaje[m].i \in 1 .. Len(Llega(m).posiciones) /\ Len(Llega(m).posiciones) \in Nat
        BY LlegaOK DEF TiposRecep
      <3> DEFINE sigue == [pc |-> "evalua", i |-> mensaje[m].i + 1]
                 acaba == [mensaje[m] EXCEPT !.pc = "activa"]
      <3>2. \/ mensaje[m].i < Len(Llega(m).posiciones) /\ mensaje' = [mensaje EXCEPT ![m] = sigue]
            \/ mensaje' = [mensaje EXCEPT ![m] = acaba]
        BY <1>7 DEF LocAgrega, TiposRecep
      <3>3. mensaje[m].i < Len(Llega(m).posiciones) =>
               /\ sigue \in [pc : PcMensaje, i : Nat \ {0}]
               /\ sigue.i \in DOMAIN Llega(m).posiciones
        BY <3>1, LlegaOK DEF PcMensaje
      <3>4. acaba \in [pc : PcMensaje, i : Nat \ {0}] /\ acaba.i \in DOMAIN Llega(m).posiciones
        BY DEF TiposRecep, PcMensaje
      <3> HIDE DEF sigue, acaba
      <3>5. PICK r \in [pc : PcMensaje, i : Nat \ {0}] :
               r.i \in DOMAIN Llega(m).posiciones /\ mensaje' = [mensaje EXCEPT ![m] = r]
        BY <3>2, <3>3, <3>4
      <3>6. UNCHANGED <<broker, mutex_idCorrelativos, idCorrelativosCatch, caughts>>
        BY <1>7 DEF LocAgrega
      <3> QED BY <3>5, <3>6 DEF TiposRecep, Llega
    <2>2. libres' \in Seq(Libre) /\ Len(libres') >= Len(libres)
      BY <1>7, <1>t, ConLibre DEF LocAgrega
    <2> QED BY <1>7, <1>t, <2>1, <2>2, MarcoLlegada DEF LocAgrega
  <1>8. CASE Activar(m)
    <2>1. TiposRecep'
      BY <1>8, PcOK DEF Activar, PcMensaje
    <2> DEFINE n == IF Len(colaBlocked) = cantidadDeEntrenadores THEN 1 ELSE 0
    <2>3. sem' = Post("activacion", n) /\ n \in {0, 1}
      BY <1>8 DEF Activar
    <2> HIDE DEF n
    <2>4. sem' \in Semaforos /\ \A r \in NombresSem \ {"activacion"} : sem'[r] = sem[r]
      BY <1>h, <2>3
    <2> QED BY <1>8, <1>t, <2>1, <2>4, MarcoLlegada DEF Activar, mapa
  <1> QED BY <1>1, <1>2, <1>3, <1>4, <1>5, <1>6, <1>7, <1>8
       DEF Llegada, procesar_msg_appeared, process_msjs_gameboy

\* The threads that send a GET.
LEMMA GetOK ==
    ASSUME NEW p, IInv, vivo, GetEnvia(p) \/ GetAnota(p)
    PROVE  IInv'
  <1>1. TiposRecep'
    BY DEF IInv, GetEnvia, GetAnota, TiposRecep, Llega
  <1>2. libres \in Seq(Libre) /\ Len(libres) \in Nat /\ sem \in Semaforos
    BY LenProperties DEF IInv, TiposPlan, TipoMapa, TipoSem
  <1>3. /\ UNCHANGED <<algoritmo, entrenador, hilo, colas, semEntrenador, trabada, cp, mp, glob,
                      reservados, atrapados, envios, vivo, broker, mutex_idCorrelativos,
                      idCorrelativosCatch, caughts>>
        /\ libres' = libres /\ sem' = sem
    BY DEF GetEnvia, GetAnota, planVars, mapa
  <1> QED BY <1>1, <1>2, <1>3, MarcoLlegada
-----------------------------------------------------------------------------
(* CATCH and CAUGHT. *)

\* These steps move neither a trainer nor a thread of one: what the planners rely on stays.
LEMMA MarcoCatch ==
    ASSUME IInv, vivo,
           UNCHANGED <<algoritmo, entrenador, hilo, colas, semEntrenador, trabada, cp, mp, libres,
                       reservados, vivo>>,
           TipoGlob', glob'.enEjecucion = glob.enEjecucion,
           sem' \in Semaforos, MismosPlazos, envios' \subseteq TipoEnvio, TiposRecep', Captura'
    PROVE  IInv'
  <1> USE DEF IInv
  <1>1. TiposPlan'
    BY DEF colas, TiposPlan, TipoEntrenador, TipoHilo, TipoColas, TipoSem, TipoPlanificadores,
           TipoMapa
  <1>2. Lugares' /\ SaleCompleto'
    BY MarcoLugares, MarcoSale DEF colas
  <1>3. Turnos' /\ Reservas'
    BY MarcoTurnos, MarcoReservas DEF colas, Protocolo, MismoEstado, MismosHilos, NombresSem
  <1>4. Medio'
    BY <1>1, MarcoMedio, LenProperties DEF colas, Protocolo, TiposPlan, TipoMapa
  <1> QED BY <1>1, <1>2, <1>3, <1>4 DEF Protocolo

\* Either no trainer catches, and no CATCH or answer is under way, or one does.
LEMMA QuienCaptura ==
    ASSUME IInv, vivo
    PROVE  \/ /\ \A x \in Entrenadores : ~EnCaptura(x)
              /\ PorConectar = {} /\ sem.mutex_catch = 0 /\ SinRespuesta
              /\ ~FalloConexion => envios = {}
           \/ \E e \in Entrenadores : EnCaptura(e)
  BY DEF IInv, Protocolo, Captura

\* The trainer a CATCH that is to be sent belongs to.
LEMMA DePorConectar ==
    ASSUME IInv, vivo, NEW en \in envios, en.pc \in PcConectar
    PROVE  \E e \in Entrenadores : /\ EnCaptura(e) /\ Lanzado(e)
                                   /\ en = [entrenador |-> e, pc |-> en.pc, id |-> -1]
                                   /\ PorConectar = {en}
  <1>1. en \in PorConectar
    BY DEF PorConectar
  <1>2. PICK e \in Entrenadores : EnCaptura(e)
    BY <1>1, QuienCaptura
  <1>3. Lanzado(e)
    BY <1>1, <1>2, DeCaptura DEF Enviado
  <1>4. PICK pc \in PcConectar : PorConectar = {[entrenador |-> e, pc |-> pc, id |-> -1]}
    BY <1>3 DEF Lanzado
  <1>5. en = [entrenador |-> e, pc |-> pc, id |-> -1]
    BY <1>1, <1>4
  <1>6. en.pc = pc
    BY <1>5
  <1> QED BY <1>1, <1>2, <1>3, <1>4, <1>5, <1>6

\* The stages of a thread that sends a CATCH.
LEMMA EnviosOK ==
    ASSUME IInv, NEW en \in envios
    PROVE  en.pc \in PcConectar \cup {"anota"} /\ en \in TipoEnvio
  BY DEF IInv, TiposPlan, TipoMapa, TipoEnvio

\* The thread of a CATCH in another stage of it.
LEMMA PasaA ==
    ASSUME NEW en \in TipoEnvio, NEW q, NEW b
    PROVE  [en EXCEPT !.pc = q, !.id = b] = [entrenador |-> en.entrenador, pc |-> q, id |-> b]
  <1> DEFINE y == [en EXCEPT !.pc = q]
  <1>1. y = [entrenador |-> en.entrenador, pc |-> q, id |-> en.id]
    BY DEF TipoEnvio
  <1>2. [y EXCEPT !.id = b] = [entrenador |-> en.entrenador, pc |-> q, id |-> b]
    <2> HIDE DEF y
    <2> QED BY <1>1
  <1> QED BY <1>2

\* CatchConecta: the connection is there and the CATCH has yet to be sent.
LEMMA CatchConectaOK ==
    ASSUME NEW en \in envios, IInv, vivo, CatchConecta(en)
    PROVE  IInv'
  <1>a. /\ en.pc = "conecta"
        /\ envios' = Pasa(en, "conectado", en.id)
        /\ UNCHANGED <<algoritmo, entrenador, hilo, colas, sem, semEntrenador, trabada, cp, mp, glob,
                       libres, reservados, vivo>>
        /\ UNCHANGED <<broker, mutex_idCorrelativos, idCorrelativosCatch, gets, llegados, mensaje,
                       caughts>>
    BY DEF CatchConecta, mapa, recepVars
  <1>b. PICK e \in Entrenadores : /\ EnCaptura(e) /\ Lanzado(e)
                                  /\ en = [entrenador |-> e, pc |-> en.pc, id |-> -1]
                                  /\ PorConectar = {en}
    BY <1>a, DePorConectar DEF PcConectar
  <1>c. /\ \A x \in Entrenadores : EnCaptura(x) <=> x = e
        /\ broker.id > 0
        /\ ~FalloConexion => mutex_idCorrelativos = (IF Anotando = {} THEN 1 ELSE 0)
        /\ glob.rta_catch = -1 => SinRespuesta
    BY <1>b, DeCaptura
  <1> DEFINE n == [entrenador |-> e, pc |-> "conectado", id |-> -1]
  <1>d. envios' = (envios \ {en}) \cup {n}
    <2>1. [en EXCEPT !.pc = "conectado", !.id = en.id] = n
      <3>1. en.id = -1 /\ en.entrenador = e /\ en \in TipoEnvio
        BY <1>b, EnviosOK
      <3>2. [en EXCEPT !.pc = "conectado", !.id = en.id]
               = [entrenador |-> en.entrenador, pc |-> "conectado", id |-> en.id]
        BY <3>1, PasaA
      <3> QED BY <3>1, <3>2
    <2> QED BY <1>a, <2>1 DEF Pasa
  <1>e. n.pc = "conectado" /\ n \in TipoEnvio
    BY DEF TipoEnvio, PcConectar
  <1>f. PorConectar' = {n} /\ Anotando' = Anotando
    BY <1>a, <1>b, <1>d, <1>e DEF PorConectar, Anotando, PcConectar
  <1>g. FalloConexion' <=> FalloConexion
    BY <1>a, <1>d, <1>e DEF FalloConexion
  <1>h. Captura'
    <2>1. (\A x \in Entrenadores : EnCaptura(x) <=> x = e)'
      BY <1>a, <1>c DEF EnCaptura, EnCpu
    <2>2. SinRespuesta' <=> SinRespuesta
      BY <1>a DEF SinRespuesta
    <2>3. Falta(e)' <=> Falta(e)
      BY <1>a DEF Falta, TieneReserva, Estado
    <2>4. Lanzado(e)'
      BY <1>a, <1>b, <1>f, <1>g, <2>2, <2>3 DEF Lanzado, PcConectar
    <2> QED BY <1>a, <1>c, <1>f, <1>g, <2>1, <2>2, <2>4, ACaptura
  <1>i. TiposRecep'
    BY <1>a DEF IInv, TiposRecep, Llega
  <1>j. envios' \subseteq TipoEnvio
    BY <1>d, <1>e, EnviosOK
  <1>k. TipoGlob' /\ glob'.enEjecucion = glob.enEjecucion /\ sem' \in Semaforos /\ MismosPlazos
    BY <1>a DEF IInv, TiposPlan, TipoGlob, TipoSem, MismosPlazos
  <1> QED BY <1>a, <1>h, <1>i, <1>j, <1>k, MarcoCatch

\* A CATCH goes on to the list: with an id, when all the others got one and nobody else
\* adds to the list, or without it, when none got one.
LEMMA PasaAAnotar ==
    ASSUME NEW en \in envios, IInv, vivo, en.pc \in PcConectar, NEW b \in Int,
           envios' = Pasa(en, "anota", b),
           sem' = Post("mutex_catch", 1),
           TipoGlob', glob'.enEjecucion = glob.enEjecucion, glob'.rta_catch = b,
           broker' \in TipoBroker, broker'.inicial = broker.inicial, broker'.id > 0,
           mutex_idCorrelativos' \in Nat,
           \/ b = -1 /\ broker'.pendientes = broker.pendientes
           \/ /\ b # -1 /\ ~FalloConexion
              /\ broker'.pendientes \in {{}, {b}}
              /\ mutex_idCorrelativos' = mutex_idCorrelativos - 1,
           UNCHANGED <<algoritmo, entrenador, hilo, colas, semEntrenador, trabada, cp, mp, libres,
                       reservados, vivo>>,
           UNCHANGED <<idCorrelativosCatch, gets, llegados, mensaje, caughts>>
    PROVE  IInv'
  <1>b. PICK e \in Entrenadores : /\ EnCaptura(e) /\ Lanzado(e)
                                  /\ en = [entrenador |-> e, pc |-> en.pc, id |-> -1]
                                  /\ PorConectar = {en}
    BY DePorConectar
  <1>c. /\ \A x \in Entrenadores : EnCaptura(x) <=> x = e
        /\ ~FalloConexion => mutex_idCorrelativos = (IF Anotando = {} THEN 1 ELSE 0)
    BY <1>b, DeCaptura
  <1>d. /\ ~FalloConexion => Anotando = {}
        /\ sem.mutex_catch = 0 /\ SinRespuesta /\ Falta(e) /\ hilo[e].pc = "envia"
    BY <1>b DEF Lanzado
  <1>i. /\ sem' \in Semaforos /\ MismosPlazos /\ sem'.mutex_catch = 1
        /\ sem'.esperar_caught = sem.esperar_caught
    <2>1. sem \in Semaforos /\ "mutex_catch" \in NombresSem /\ sem["mutex_catch"] + 1 >= 0
      BY <1>d DEF IInv, TiposPlan, TipoSem, NombresSem
    <2>2. /\ sem' \in Semaforos /\ sem'["mutex_catch"] = sem["mutex_catch"] + 1
          /\ \A r \in NombresSem \ {"mutex_catch"} : sem'[r] = sem[r]
      BY <2>1, PostOK
    <2> QED BY <1>d, <2>2 DEF NombresSem, MismosPlazos
  <1> DEFINE an == [entrenador |-> e, pc |-> "anota", id |-> b]
  <1>j. envios' = (envios \ {en}) \cup {an}
    <2>1. [en EXCEPT !.pc = "anota", !.id = b] = an
      <3>1. en.entrenador = e /\ en \in TipoEnvio
        BY <1>b, EnviosOK
      <3>2. [en EXCEPT !.pc = "anota", !.id = b]
               = [entrenador |-> en.entrenador, pc |-> "anota", id |-> b]
        BY <3>1, PasaA
      <3> QED BY <3>1, <3>2
    <2> QED BY <2>1 DEF Pasa
  <1>k. an \in TipoEnvio /\ an.pc = "anota" /\ an.id = b
    BY DEF TipoEnvio
  <1>l. PorConectar' = {} /\ Anotando' = Anotando \cup {an}
    BY <1>b, <1>j, <1>k DEF PorConectar, Anotando, PcConectar
  <1>m. FalloConexion' <=> FalloConexion \/ b = -1
    BY <1>j, <1>k DEF FalloConexion, PcConectar
  <1>n. (\A x \in Entrenadores : EnCaptura(x) <=> x = e)'
    BY <1>c DEF EnCaptura, EnCpu
  <1>o. Falta(e)' /\ hilo'[e].pc = "envia" /\ caughts' = {} /\ sem'.esperar_caught = 0
    BY <1>d, <1>i DEF Falta, TieneReserva, Estado, SinRespuesta
  <1>p. Captura'
    <2>1. CASE b = -1 /\ broker'.pendientes = broker.pendientes
      <3>1. SinRespuesta'
        BY <1>d, <1>o, <2>1 DEF SinRespuesta
      <3>2. Enviado(e)'
        BY <1>i, <1>l, <1>m, <1>o, <2>1 DEF Enviado
      <3> QED BY <1>m, <1>n, <2>1, <3>1, <3>2, ACaptura
    <2>2. CASE /\ b # -1 /\ ~FalloConexion
               /\ broker'.pendientes \in {{}, {b}}
               /\ mutex_idCorrelativos' = mutex_idCorrelativos - 1
      <3>1. Anotando = {} /\ mutex_idCorrelativos' = 0
        BY <1>c, <1>d, <2>2
      <3>2. envios' = {an}
        BY <1>b, <1>j, <3>1, EnviosOK DEF PorConectar, Anotando
      <3>3. \/ broker'.pendientes = {glob'.rta_catch}
            \/ SinRespuesta'
        BY <1>o, <2>2 DEF SinRespuesta
      <3>4. EnRespuesta(e)'
        BY <1>o, <2>2, <3>2, <3>3 DEF EnRespuesta
      <3>5. Enviado(e)'
        BY <1>i, <1>l, <1>o, <2>2, <3>4 DEF Enviado
      <3> QED BY <1>l, <1>n, <2>2, <3>1, <3>5, ACaptura
    <2> QED BY <2>1, <2>2
  <1>q. TiposRecep'
    <2>1. \A m \in Ids : Llega(m)' = Llega(m)
      BY DEF Llega
    <2> QED BY <2>1 DEF IInv, TiposRecep
  <1>r. envios' \subseteq TipoEnvio
    BY <1>j, <1>k, EnviosOK
  <1> QED BY <1>i, <1>p, <1>q, <1>r, MarcoCatch

\* The fields of the broker.
LEMMA TipoBrokerOK ==
    ASSUME broker \in TipoBroker
    PROVE  /\ broker.inicial \in BOOLEAN /\ broker.vivo \in BOOLEAN /\ broker.id \in Nat
           /\ broker.pendientes \in SUBSET Nat /\ broker.perdidos \in SUBSET Nat
           /\ broker.cambios \in Nat
           /\ broker = [inicial |-> broker.inicial, vivo |-> broker.vivo, id |-> broker.id,
                        pendientes |-> broker.pendientes, perdidos |-> broker.perdidos,
                        cambios |-> broker.cambios]
  BY DEF TipoBroker

\* The broker after it accepts a CATCH.
LEMMA AceptadoOK ==
    ASSUME broker \in TipoBroker, broker.pendientes = {}
    PROVE  /\ Aceptado \in TipoBroker /\ Aceptado.inicial = broker.inicial
           /\ Aceptado.id = broker.id + 1 /\ Aceptado.pendientes = {broker.id}
  <1> DEFINE n == broker.id + 1
             q == broker.pendientes \cup {broker.id}
             l == broker.perdidos \ {broker.id}
  <1>1. /\ n \in Nat /\ q = {broker.id} /\ q \in SUBSET Nat /\ l \in SUBSET Nat
        /\ broker.inicial \in BOOLEAN /\ broker.vivo \in BOOLEAN /\ broker.cambios \in Nat
    BY TipoBrokerOK
  <1>2. Aceptado = [broker EXCEPT !.id = n, !.pendientes = q, !.perdidos = l]
    BY TipoBrokerOK DEF Aceptado
  <1> HIDE DEF n, q, l
  <1>3. Aceptado = [inicial |-> broker.inicial, vivo |-> broker.vivo, id |-> n,
                    pendientes |-> q, perdidos |-> l, cambios |-> broker.cambios]
    BY <1>2, TipoBrokerOK
  <1> QED BY <1>1, <1>3 DEF TipoBroker, n

\* CatchEnvia: the CATCH is sent, with mutex_idCorrelativos held.
LEMMA CatchEnviaOK ==
    ASSUME NEW en \in envios, IInv, vivo, CatchEnvia(en), ~Mezcla'
    PROVE  IInv'
  <1>a. /\ en.pc = "conectado" /\ mutex_idCorrelativos > 0
        /\ mutex_idCorrelativos' = mutex_idCorrelativos - 1
        /\ broker' = Aceptado
        /\ glob' = [glob EXCEPT !.rta_catch = broker.id]
        /\ sem' = Post("mutex_catch", 1)
        /\ envios' = Pasa(en, "anota", broker.id)
        /\ UNCHANGED <<algoritmo, entrenador, hilo, colas, semEntrenador, trabada, cp, mp, libres,
                       reservados, vivo>>
        /\ UNCHANGED <<idCorrelativosCatch, gets, llegados, mensaje, caughts>>
    BY DEF CatchEnvia, mapa
  <1>b. PICK e \in Entrenadores : EnCaptura(e) /\ Lanzado(e)
    BY <1>a, DePorConectar DEF PcConectar
  <1>c. broker.pendientes = {} /\ broker \in TipoBroker /\ broker.id \in Nat
    BY <1>b, TipoBrokerOK DEF Lanzado, SinRespuesta, IInv, TiposRecep
  <1>d. /\ broker' \in TipoBroker /\ broker'.inicial = broker.inicial
        /\ broker'.id = broker.id + 1 /\ broker'.pendientes = {broker.id}
    BY <1>a, <1>c, AceptadoOK
  <1>e. TipoGlob' /\ glob'.enEjecucion = glob.enEjecucion /\ glob'.rta_catch = broker.id
    BY <1>a, <1>c DEF IInv, TiposPlan, TipoGlob
  <1>f. ~FalloConexion
    BY <1>a, <1>c, <1>e DEF Mezcla, FalloConexion, Pasa
  <1>g. mutex_idCorrelativos' \in Nat
    BY <1>a DEF IInv, TiposRecep
  <1> QED BY <1>a, <1>c, <1>d, <1>e, <1>f, <1>g, PasaAAnotar DEF PcConectar

\* CatchRechazado: the CATCH is refused, and gets an id nobody will answer to.
LEMMA CatchRechazadoOK ==
    ASSUME NEW en \in envios, IInv, vivo, CatchRechazado(en), ~Mezcla'
    PROVE  IInv'
  <1>a. /\ en.pc = "conectado" /\ mutex_idCorrelativos > 0
        /\ mutex_idCorrelativos' = mutex_idCorrelativos - 1
        /\ broker' = [broker EXCEPT !.perdidos = @ \cup {LargoDelError}]
        /\ glob' = [glob EXCEPT !.rta_catch = LargoDelError]
        /\ sem' = Post("mutex_catch", 1)
        /\ envios' = Pasa(en, "anota", LargoDelError)
        /\ UNCHANGED <<algoritmo, entrenador, hilo, colas, semEntrenador, trabada, cp, mp, libres,
                       reservados, vivo>>
        /\ UNCHANGED <<idCorrelativosCatch, gets, llegados, mensaje, caughts>>
    BY DEF CatchRechazado, mapa
  <1>b. PICK e \in Entrenadores : EnCaptura(e) /\ Lanzado(e)
    BY <1>a, DePorConectar DEF PcConectar
  <1>c. /\ broker.pendientes = {} /\ broker \in TipoBroker /\ LargoDelError \in Nat
        /\ broker.id > 0
    BY <1>b, DeCaptura, TeamAssumption DEF Lanzado, SinRespuesta, IInv, TiposRecep
  <1>d. /\ broker' \in TipoBroker /\ broker'.inicial = broker.inicial
        /\ broker'.id = broker.id /\ broker'.pendientes = {}
    <2> DEFINE l == broker.perdidos \cup {LargoDelError}
    <2>1. l \in SUBSET Nat
      BY <1>c, TipoBrokerOK
    <2>2. broker' = [broker EXCEPT !.perdidos = l]
      BY <1>a, <1>c DEF TipoBroker
    <2> HIDE DEF l
    <2> QED BY <1>c, <2>1, <2>2 DEF TipoBroker
  <1>e. TipoGlob' /\ glob'.enEjecucion = glob.enEjecucion /\ glob'.rta_catch = LargoDelError
    BY <1>a, <1>c DEF IInv, TiposPlan, TipoGlob
  <1>f. ~FalloConexion
    BY <1>a, <1>c, <1>e DEF Mezcla, FalloConexion, Pasa
  <1>g. mutex_idCorrelativos' \in Nat
    BY <1>a DEF IInv, TiposRecep
  <1> DEFINE n == LargoDelError
  <1>h. /\ en.pc \in PcConectar /\ n \in Int /\ n # -1
        /\ broker'.id > 0 /\ broker'.pendientes \in {{}, {n}}
    BY <1>a, <1>c, <1>d DEF PcConectar
  <1>i. envios' = Pasa(en, "anota", n) /\ glob'.rta_catch = n
    BY <1>a, <1>e
  <1> HIDE DEF n
  <1> QED BY <1>a, <1>d, <1>e, <1>f, <1>g, <1>h, <1>i, PasaAAnotar

\* CatchCortado and CatchSinBroker: the CATCH gets no id.
LEMMA CatchSinIdOK ==
    ASSUME NEW en \in envios, IInv, vivo, CatchCortado(en) \/ CatchSinBroker(en), ~Mezcla'
    PROVE  IInv'
  <1>a. /\ en.pc \in PcConectar
        /\ mutex_idCorrelativos' \in Nat
        /\ sem' = Post("mutex_catch", 1)
        /\ envios' = Pasa(en, "anota", en.id)
        /\ UNCHANGED <<algoritmo, entrenador, hilo, colas, semEntrenador, trabada, cp, mp, glob,
                       libres, reservados, vivo>>
        /\ UNCHANGED <<broker, idCorrelativosCatch, gets, llegados, mensaje, caughts>>
    <2>1. mutex_idCorrelativos \in Nat
      BY DEF IInv, TiposRecep
    <2>2. CASE CatchCortado(en)
      BY <2>1, <2>2 DEF CatchCortado, mapa, PcConectar
    <2>3. CASE CatchSinBroker(en)
      BY <2>1, <2>3 DEF CatchSinBroker, mapa, PcConectar, recepVars
    <2> QED BY <2>2, <2>3
  <1>b. PICK e \in Entrenadores : /\ EnCaptura(e) /\ en = [entrenador |-> e, pc |-> en.pc, id |-> -1]
    BY <1>a, DePorConectar
  <1>c. broker.id > 0 /\ broker \in TipoBroker
    BY <1>b, DeCaptura DEF IInv, TiposRecep
  <1>d. en.id = -1
    BY <1>b
  <1> DEFINE an == [entrenador |-> e, pc |-> "anota", id |-> -1]
  <1>e. an \in envios'
    <2>1. [en EXCEPT !.pc = "anota", !.id = en.id] = an
      <3>1. en.entrenador = e /\ en \in TipoEnvio
        BY <1>b, EnviosOK
      <3>2. [en EXCEPT !.pc = "anota", !.id = en.id]
               = [entrenador |-> en.entrenador, pc |-> "anota", id |-> en.id]
        BY <3>1, PasaA
      <3> QED BY <1>d, <3>1, <3>2
    <2> QED BY <1>a, <2>1 DEF Pasa
  <1>f. glob'.rta_catch = -1
    <2>1. FalloConexion'
      BY <1>e DEF FalloConexion
    <2> QED BY <2>1 DEF Mezcla
  <1>g. TipoGlob' /\ glob'.enEjecucion = glob.enEjecucion
    BY <1>a DEF IInv, TiposPlan, TipoGlob
  <1> HIDE DEF an
  <1> QED BY <1>a, <1>c, <1>d, <1>f, <1>g, PasaAAnotar

\* A CATCH with no id is one with no id in the list.
LEMMA FalloAnotado ==
    ASSUME NEW en \in envios, en.pc = "anota",
           idCorrelativosCatch \in Seq([id : Int, entrenador : Entrenadores]),
           idCorrelativosCatch' = Append(idCorrelativosCatch,
                                         [id |-> en.id, entrenador |-> en.entrenador]),
           [id |-> en.id, entrenador |-> en.entrenador] \in [id : Int, entrenador : Entrenadores],
           envios' = envios \ {en}
    PROVE  FalloConexion' <=> FalloConexion
  <1> DEFINE q == idCorrelativosCatch
             x == [id |-> en.id, entrenador |-> en.entrenador]
             t == Append(q, x)
  <1>1. /\ Len(q) \in Nat /\ DOMAIN q = 1 .. Len(q)
        /\ DOMAIN t = 1 .. Len(q) + 1
        /\ \A i \in 1 .. Len(q) : t[i] = q[i]
        /\ t[Len(q) + 1] = x
    BY AppendProperties, LenProperties
  <1>2. x.id = en.id
    OBVIOUS
  <1> HIDE DEF t, x
  <1>3. (\E i \in DOMAIN t : t[i].id = -1) <=> (\E i \in DOMAIN q : q[i].id = -1) \/ en.id = -1
    BY <1>1, <1>2
  <1>4. idCorrelativosCatch' = t
    BY DEF t, x
  <1> QED BY <1>3, <1>4 DEF FalloConexion

\* CatchAnota: its id is added to the list and the mutex freed.
LEMMA CatchAnotaOK ==
    ASSUME NEW en \in envios, IInv, vivo, CatchAnota(en)
    PROVE  IInv'
  <1> DEFINE r == [id |-> en.id, entrenador |-> en.entrenador]
  <1>a. /\ en.pc = "anota"
        /\ idCorrelativosCatch' = Append(idCorrelativosCatch, r)
        /\ mutex_idCorrelativos' = mutex_idCorrelativos + 1
        /\ envios' = envios \ {en}
        /\ UNCHANGED <<algoritmo, entrenador, hilo, colas, sem, semEntrenador, trabada, cp, mp, glob,
                       libres, reservados, vivo, broker, gets, llegados, mensaje, caughts>>
    BY DEF CatchAnota, mapa
  <1>b. en \in TipoEnvio /\ r \in [id : Int, entrenador : Entrenadores]
    BY EnviosOK DEF TipoEnvio
  <1> HIDE DEF r
  <1>c. /\ idCorrelativosCatch' \in Seq([id : Int, entrenador : Entrenadores])
        /\ idCorrelativosCatch' # <<>>
        /\ idCorrelativosCatch'[Len(idCorrelativosCatch')] = r
    <2>1. idCorrelativosCatch \in Seq([id : Int, entrenador : Entrenadores])
      BY DEF IInv, TiposRecep
    <2>2. Len(idCorrelativosCatch) \in Nat
      BY <2>1, LenProperties
    <2>3. /\ idCorrelativosCatch' \in Seq([id : Int, entrenador : Entrenadores])
          /\ Len(idCorrelativosCatch') = Len(idCorrelativosCatch) + 1
          /\ idCorrelativosCatch'[Len(idCorrelativosCatch) + 1] = r
      BY <1>a, <1>b, <2>1, AppendProperties
    <2> QED BY <2>2, <2>3, EmptySeq
  <1>d. TiposRecep'
    BY <1>a, <1>c DEF IInv, TiposRecep, Llega
  <1>e. TipoGlob' /\ sem' \in Semaforos /\ MismosPlazos /\ envios' \subseteq TipoEnvio
    BY <1>a DEF IInv, TiposPlan, TipoGlob, TipoSem, TipoMapa, MismosPlazos
  <1>f. PorConectar' = PorConectar
    BY <1>a DEF PorConectar, PcConectar
  <1>v. FalloConexion' <=> FalloConexion
    BY <1>a, <1>b, FalloAnotado DEF IInv, TiposRecep, r
  <1>g. \A x \in Entrenadores : (EnCaptura(x)' <=> EnCaptura(x)) /\ (Falta(x)' <=> Falta(x))
    BY <1>a DEF EnCaptura, EnCpu, Falta, TieneReserva, Estado
  <1>w. en \in Anotando /\ (SinRespuesta' <=> SinRespuesta)
    BY <1>a DEF Anotando, SinRespuesta
  <1>h. Captura'
    <2>1. CASE \A x \in Entrenadores : ~EnCaptura(x)
      <3>1. /\ PorConectar = {} /\ sem.mutex_catch = 0 /\ SinRespuesta
            /\ (~FalloConexion => envios = {}) /\ broker.id > 0
        BY <2>1 DEF IInv, Protocolo, Captura
      <3>2. FalloConexion
        BY <3>1
      <3> QED BY <1>a, <1>f, <1>g, <1>v, <1>w, <2>1, <3>1, <3>2 DEF Captura
    <2>2. CASE \E e \in Entrenadores : EnCaptura(e)
      <3>1. PICK e \in Entrenadores : EnCaptura(e)
        BY <2>2
      <3>2. /\ \A x \in Entrenadores : EnCaptura(x) <=> x = e
            /\ broker.id > 0
            /\ ~FalloConexion => mutex_idCorrelativos = (IF Anotando = {} THEN 1 ELSE 0)
            /\ glob.rta_catch = -1 => SinRespuesta
            /\ Lanzado(e) \/ Enviado(e)
        BY <3>1, DeCaptura
      <3>3. (\A x \in Entrenadores : EnCaptura(x) <=> x = e)'
        BY <1>g, <3>2
      <3>4. CASE Lanzado(e) \/ glob.rta_catch = -1
        <4>1. FalloConexion
          BY <1>w, <3>2, <3>4 DEF Lanzado, Enviado
        <4>2. Lanzado(e)' \/ Enviado(e)'
          BY <1>a, <1>f, <1>g, <1>v, <1>w, <3>2, <3>4, <4>1 DEF Lanzado, Enviado
        <4> QED BY <1>a, <1>v, <1>w, <3>2, <3>3, <4>1, <4>2, ACaptura
      <3>5. CASE ~Lanzado(e) /\ glob.rta_catch # -1
        <4>2. Enviado(e) /\ EnRespuesta(e)
          BY <3>2, <3>5 DEF Enviado
        <4>3. envios = {en} /\ en = [entrenador |-> e, pc |-> "anota", id |-> glob.rta_catch]
          BY <4>2 DEF EnRespuesta
        <4>4. envios' = {} /\ Anotando' = {}
          BY <1>a, <4>3 DEF Anotando
        <4>5. ~FalloConexion' => mutex_idCorrelativos' = 1
          BY <1>a, <1>v, <1>w, <3>2
        <4>6. Anotado(e)'
          BY <1>a, <1>c, <4>3 DEF Anotado, r
        <4>7. EnRespuesta(e)'
          BY <1>a, <1>g, <1>w, <4>2, <4>3, <4>4, <4>6 DEF EnRespuesta
        <4>8. Enviado(e)'
          BY <1>a, <1>f, <3>5, <4>2, <4>7 DEF Enviado
        <4> QED BY <1>a, <3>2, <3>3, <3>5, <4>4, <4>5, <4>8, ACaptura
      <3> QED BY <3>4, <3>5
    <2> QED BY <2>1, <2>2
  <1> QED BY <1>a, <1>d, <1>e, <1>h, MarcoCatch

\* The trainer whose CATCH has been sent and has yet to be answered.
LEMMA EnVueloOK ==
    ASSUME IInv, vivo, ~SinRespuesta
    PROVE  \E e \in Entrenadores : /\ EnCaptura(e) /\ Enviado(e) /\ EnRespuesta(e)
                                   /\ \A x \in Entrenadores : EnCaptura(x) <=> x = e
                                   /\ glob.rta_catch # -1 /\ broker.id > 0
                                   /\ ~FalloConexion => mutex_idCorrelativos = (IF Anotando = {} THEN 1 ELSE 0)
  <1>1. PICK e \in Entrenadores : EnCaptura(e)
    BY QuienCaptura
  <1>2. /\ \A x \in Entrenadores : EnCaptura(x) <=> x = e
        /\ broker.id > 0
        /\ ~FalloConexion => mutex_idCorrelativos = (IF Anotando = {} THEN 1 ELSE 0)
        /\ glob.rta_catch = -1 => SinRespuesta
        /\ Lanzado(e) \/ Enviado(e)
    BY <1>1, DeCaptura
  <1>3. glob.rta_catch # -1 /\ Enviado(e) /\ EnRespuesta(e)
    BY <1>2 DEF Lanzado, Enviado
  <1> QED BY <1>1, <1>2, <1>3

\* A thread of CAUGHT answers the only trainer that catches, whose id is in the list by
\* the time it is looked for.
LEMMA EnCaughtOK ==
    ASSUME IInv, vivo, NEW c \in caughts
    PROVE  \E e \in Entrenadores :
              /\ EnCaptura(e) /\ \A x \in Entrenadores : EnCaptura(x) <=> x = e
              /\ PorConectar = {} /\ sem.mutex_catch = (IF hilo[e].pc = "envia" THEN 1 ELSE 0)
              /\ broker.id > 0 /\ broker.pendientes = {}
              /\ ~FalloConexion => mutex_idCorrelativos = (IF Anotando = {} THEN 1 ELSE 0)
              /\ glob.rta_catch # -1
              /\ \A en \in envios : en = [entrenador |-> e, pc |-> "anota", id |-> glob.rta_catch]
              /\ envios = {} => Anotado(e)
              /\ sem.esperar_caught = 0 /\ Falta(e)
              /\ caughts = {c} /\ c.id = glob.rta_catch
              /\ c.pc # "busca" => envios = {} /\ c.reserva = e
              /\ c.pc = "aplica" => c.para = e
  <1>1. ~SinRespuesta
    BY DEF SinRespuesta
  <1>2. PICK e \in Entrenadores :
           /\ EnCaptura(e) /\ Enviado(e) /\ EnRespuesta(e)
           /\ \A x \in Entrenadores : EnCaptura(x) <=> x = e
           /\ glob.rta_catch # -1 /\ broker.id > 0
           /\ ~FalloConexion => mutex_idCorrelativos = (IF Anotando = {} THEN 1 ELSE 0)
    BY <1>1, EnVueloOK
  <1> QED BY <1>1, <1>2 DEF Enviado, EnRespuesta, SinRespuesta

\* BrokerResponde: the answer to a CATCH arrives.
LEMMA BrokerRespondeOK ==
    ASSUME NEW id \in broker.pendientes, IInv, vivo, BrokerResponde(id)
    PROVE  IInv'
  <1>a. PICK r \in Resultados :
           /\ broker' = [broker EXCEPT !.pendientes = @ \ {id}]
           /\ caughts' = caughts \cup {Caught(id, r)}
           /\ UNCHANGED <<algoritmo, entrenador, hilo, colas, sem, semEntrenador, trabada, cp, mp,
                          glob, libres, reservados, envios, vivo>>
           /\ UNCHANGED <<mutex_idCorrelativos, idCorrelativosCatch, gets, llegados, mensaje>>
    BY DEF BrokerResponde, planVars, mapa
  <1>b. ~SinRespuesta
    BY DEF SinRespuesta
  <1>c. PICK e \in Entrenadores : /\ EnCaptura(e) /\ Enviado(e) /\ EnRespuesta(e)
                                  /\ \A x \in Entrenadores : EnCaptura(x) <=> x = e
                                  /\ glob.rta_catch # -1 /\ broker.id > 0
                                  /\ ~FalloConexion => mutex_idCorrelativos = (IF Anotando = {} THEN 1 ELSE 0)
    BY <1>b, EnVueloOK
  <1>d. /\ broker.pendientes = {glob.rta_catch} /\ caughts = {} /\ id = glob.rta_catch
        /\ sem.esperar_caught = 0 /\ Falta(e)
    BY <1>c DEF EnRespuesta, SinRespuesta
  <1>e. /\ broker'.inicial = broker.inicial /\ broker'.id = broker.id /\ broker'.pendientes = {}
        /\ broker' \in TipoBroker /\ id \in Int
    <2> DEFINE q == broker.pendientes \ {id}
    <2>1. q = {} /\ broker' = [broker EXCEPT !.pendientes = q]
      BY <1>a, <1>d
    <2> HIDE DEF q
    <2>2. broker \in TipoBroker
      BY DEF IInv, TiposRecep
    <2>3. id \in Nat
      BY <2>2 DEF TipoBroker
    <2> QED BY <2>1, <2>2, <2>3 DEF TipoBroker
  <1> DEFINE c == Caught(id, r)
  <1>f. /\ c \in TipoCaught /\ c.id = id /\ c.pc = "busca"
    <2>1. r \in {"OK", "FAIL"} /\ Nadie \in Entrenadores \cup {Nadie}
      BY TeamAssumption
    <2> QED BY <1>e, <2>1 DEF Caught, TipoCaught
  <1>g. caughts' = {c}
    BY <1>a, <1>d
  <1> HIDE DEF c
  <1>h. TiposRecep'
    <2>1. \A m \in Ids : Llega(m)' = Llega(m)
      BY <1>e DEF Llega
    <2> QED BY <1>a, <1>e, <1>f, <1>g, <2>1 DEF IInv, TiposRecep
  <1>i. TipoGlob' /\ sem' \in Semaforos /\ MismosPlazos /\ envios' \subseteq TipoEnvio
    BY <1>a DEF IInv, TiposPlan, TipoGlob, TipoSem, TipoMapa, MismosPlazos
  <1>j. Captura'
    <2>1. (\A x \in Entrenadores : EnCaptura(x) <=> x = e)'
      BY <1>a, <1>c DEF EnCaptura, EnCpu
    <2>2. /\ PorConectar' = PorConectar /\ Anotando' = Anotando /\ Anotado(e)' = Anotado(e)
          /\ FalloConexion' <=> FalloConexion
      BY <1>a DEF PorConectar, Anotando, Anotado, FalloConexion
    <2>3. Falta(e)'
      BY <1>a, <1>d DEF Falta, TieneReserva, Estado
    <2>4. EnRespuesta(e)'
      <3>1. /\ glob'.rta_catch # -1
            /\ \A en \in envios' : en = [entrenador |-> e, pc |-> "anota", id |-> glob'.rta_catch]
            /\ envios' = {} => Anotado(e)'
        BY <1>a, <1>c, <2>2 DEF EnRespuesta
      <3>2. broker'.pendientes = {} /\ sem'.esperar_caught = 0
        BY <1>a, <1>d, <1>e
      <3>3. caughts' = {c} /\ c.id = glob'.rta_catch /\ c.pc = "busca"
        BY <1>a, <1>d, <1>f, <1>g
      <3> QED BY <2>3, <3>1, <3>2, <3>3 DEF EnRespuesta
    <2>5. Enviado(e)'
      BY <1>a, <1>c, <1>e, <2>2, <2>4 DEF Enviado
    <2> QED BY <1>a, <1>c, <1>e, <2>1, <2>2, <2>5, ACaptura
  <1> QED BY <1>a, <1>h, <1>i, <1>j, MarcoCatch

\* A thread of CAUGHT goes on to its next step, with the trainer it found.
LEMMA CaughtSigue ==
    ASSUME IInv, vivo, NEW c \in caughts, NEW d \in TipoCaught, NEW e \in Entrenadores,
           EnCaptura(e), caughts = {c}, d.id = c.id, d.pc # "busca", d.reserva = e,
           d.pc = "aplica" => d.para = e, Anotando = {},
           caughts' = (caughts \ {c}) \cup {d},
           UNCHANGED <<algoritmo, entrenador, hilo, colas, sem, semEntrenador, trabada, cp, mp,
                       glob, libres, reservados, envios, vivo>>,
           UNCHANGED <<broker, mutex_idCorrelativos, idCorrelativosCatch, gets, llegados, mensaje>>
    PROVE  IInv'
  <1>a. /\ \A x \in Entrenadores : EnCaptura(x) <=> x = e
        /\ PorConectar = {} /\ sem.mutex_catch = (IF hilo[e].pc = "envia" THEN 1 ELSE 0)
        /\ broker.id > 0 /\ broker.pendientes = {}
        /\ ~FalloConexion => mutex_idCorrelativos = (IF Anotando = {} THEN 1 ELSE 0)
        /\ glob.rta_catch # -1 /\ c.id = glob.rta_catch
        /\ \A en \in envios : en = [entrenador |-> e, pc |-> "anota", id |-> glob.rta_catch]
        /\ envios = {} => Anotado(e)
        /\ sem.esperar_caught = 0 /\ Falta(e)
    BY EnCaughtOK
  <1>b. envios = {}
    BY <1>a DEF Anotando
  <1>c. caughts' = {d}
    OBVIOUS
  <1>h. TiposRecep'
    BY <1>c DEF IInv, TiposRecep, Llega
  <1>i. TipoGlob' /\ sem' \in Semaforos /\ MismosPlazos /\ envios' \subseteq TipoEnvio
    BY DEF IInv, TiposPlan, TipoGlob, TipoSem, TipoMapa, MismosPlazos
  <1>j. Captura'
    <2>1. (\A x \in Entrenadores : EnCaptura(x) <=> x = e)'
      BY <1>a DEF EnCaptura, EnCpu
    <2>2. /\ PorConectar' = PorConectar /\ Anotando' = Anotando /\ Anotado(e)' = Anotado(e)
          /\ FalloConexion' <=> FalloConexion
      BY DEF PorConectar, Anotando, Anotado, FalloConexion
    <2>3. Falta(e)'
      BY <1>a DEF Falta, TieneReserva, Estado
    <2>4. EnRespuesta(e)'
      BY <1>a, <1>b, <1>c, <2>2, <2>3 DEF EnRespuesta
    <2>5. Enviado(e)'
      BY <1>a, <2>2, <2>4 DEF Enviado
    <2> QED BY <1>a, <2>1, <2>2, <2>5, ACaptura
  <1> QED BY <1>h, <1>i, <1>j, MarcoCatch

\* CaBusca: the trainer is found by the last id of the list, which is that of its CATCH.
LEMMA CaBuscaOK ==
    ASSUME NEW c \in caughts, IInv, vivo, CaBusca(c), ~Mezcla
    PROVE  IInv'
  <1> DEFINE q == idCorrelativosCatch
             d == [c EXCEPT !.pc = "entrenador", !.reserva = q[Len(q)].entrenador]
  <1>1. PICK e \in Entrenadores :
           /\ EnCaptura(e) /\ caughts = {c} /\ c.id = glob.rta_catch
           /\ mutex_idCorrelativos = (IF Anotando = {} THEN 1 ELSE 0)
           /\ \A en \in envios : en = [entrenador |-> e, pc |-> "anota", id |-> glob.rta_catch]
           /\ envios = {} => Anotado(e)
    BY EnCaughtOK DEF Mezcla
  <1>2. c.pc = "busca" /\ mutex_idCorrelativos > 0
    BY DEF CaBusca
  <1>3. Anotando = {}
    BY <1>1, <1>2
  <1>4. Anotado(e)
    BY <1>1, <1>3 DEF Anotando
  <1>5. /\ Len(q) \in DOMAIN q /\ q[Len(q)].id = c.id /\ q[Len(q)].entrenador = e
    <2>1. q \in Seq([id : Int, entrenador : Entrenadores]) /\ q # <<>>
      BY <1>4 DEF Anotado, IInv, TiposRecep
    <2>2. Len(q) \in DOMAIN q
      <3> HIDE DEF q
      <3> QED BY <2>1, LenProperties, EmptySeq
    <2> QED BY <1>1, <1>4, <2>2 DEF Anotado
  <1>6. /\ caughts' = (caughts \ {c}) \cup {d}
        /\ UNCHANGED <<algoritmo, entrenador, hilo, colas, sem, semEntrenador, trabada, cp, mp,
                       glob, libres, reservados, envios, vivo>>
        /\ UNCHANGED <<broker, mutex_idCorrelativos, idCorrelativosCatch, gets, llegados, mensaje>>
    BY <1>5 DEF CaBusca, mapa
  <1>7. d \in TipoCaught /\ d.id = c.id /\ d.pc = "entrenador" /\ d.reserva = e
    <2>1. c \in TipoCaught
      BY DEF IInv, TiposRecep
    <2>2. d = [c EXCEPT !.pc = "entrenador", !.reserva = e]
      BY <1>5
    <2> HIDE DEF d
    <2> QED BY <2>1, <2>2 DEF TipoCaught
  <1> HIDE DEF d
  <1> QED BY <1>1, <1>3, <1>6, <1>7, CaughtSigue

\* CaEntrenador: it is the one that executes.
LEMMA CaEntrenadorOK ==
    ASSUME NEW c \in caughts, IInv, vivo, CaEntrenador(c)
    PROVE  IInv'
  <1> DEFINE d == [c EXCEPT !.pc = "aplica", !.para = buscarEntrenadorDeLaReserva(c.reserva)]
  <1>0. c.pc = "entrenador"
    BY DEF CaEntrenador
  <1>1. PICK e \in Entrenadores :
           /\ EnCaptura(e) /\ caughts = {c} /\ envios = {} /\ c.reserva = e
    BY <1>0, EnCaughtOK
  <1>3. Anotando = {}
    BY <1>1 DEF Anotando
  <1>4. glob.enEjecucion = e /\ e \notin En(colaBlocked)
    BY <1>1 DEF IInv, Protocolo, Turnos, Lugares, EnCaptura
  <1>5. buscarEntrenadorDeLaReserva(c.reserva) = e
    BY <1>1, <1>4 DEF buscarEntrenadorDeLaReserva, En
  <1>6. /\ caughts' = (caughts \ {c}) \cup {d}
        /\ UNCHANGED <<algoritmo, entrenador, hilo, colas, sem, semEntrenador, trabada, cp, mp,
                       glob, libres, reservados, envios, vivo>>
        /\ UNCHANGED <<broker, mutex_idCorrelativos, idCorrelativosCatch, gets, llegados, mensaje>>
    BY DEF CaEntrenador, planVars, mapa
  <1>7. d \in TipoCaught /\ d.id = c.id /\ d.pc = "aplica" /\ d.reserva = e /\ d.para = e
    <2>1. c \in TipoCaught
      BY DEF IInv, TiposRecep
    <2>2. d = [c EXCEPT !.pc = "aplica", !.para = e]
      BY <1>5
    <2> HIDE DEF d
    <2> QED BY <1>1, <2>1, <2>2 DEF TipoCaught
  <1> HIDE DEF d
  <1> QED BY <1>1, <1>3, <1>6, <1>7, CaughtSigue

\* CaAplica: its reservation is found, removed and, with OK, its pokemon is the trainer's.
LEMMA CaAplicaOK ==
    ASSUME NEW c \in caughts, IInv, vivo, CaAplica(c)
    PROVE  IInv'
  <1> USE DEF IInv
  <1>0. c.pc = "aplica"
    BY DEF CaAplica
  <1>1. PICK e \in Entrenadores :
           /\ EnCaptura(e) /\ \A x \in Entrenadores : EnCaptura(x) <=> x = e
           /\ PorConectar = {} /\ sem.mutex_catch = (IF hilo[e].pc = "envia" THEN 1 ELSE 0)
           /\ broker.id > 0 /\ broker.pendientes = {}
           /\ ~FalloConexion => mutex_idCorrelativos = (IF Anotando = {} THEN 1 ELSE 0)
           /\ glob.rta_catch # -1 /\ envios = {} /\ Anotado(e)
           /\ sem.esperar_caught = 0 /\ Falta(e)
           /\ caughts = {c} /\ c.id = glob.rta_catch /\ c.reserva = e /\ c.para = e
    BY <1>0, EnCaughtOK
  <1>2. /\ EnCpu(e) /\ semEntrenador[e] = 0 /\ sem.cplazoEntrenador = 0 /\ glob.enEjecucion = e
        /\ e \notin En(colaReady) /\ e \notin En(colaBlocked) /\ e \notin En(colaExit)
        /\ Estado(e) # "EXIT" /\ hilo[e].pc \in {"envia", "caught"}
    BY <1>1, EnActivo DEF EnCaptura
  <1> DEFINE i == buscarPokemonReservado(e)
             p == reservados[i].pokemon
             o == agregarPokemon(entrenador[e].obtenidos, p)
  <1>3. i # 0
    BY <1>1, BuscarReservaOK DEF Falta, TiposPlan, TipoMapa
  <1>4. /\ reservados' = SinReserva(i)
        /\ \/ /\ entrenador' = [entrenador EXCEPT ![e].obtenidos = o,
                                                  ![e].estado = "RECIBIO_RESPUESTA_OK"]
              /\ sem' = Post("esperar_caught", 1)
           \/ /\ entrenador' = [entrenador EXCEPT ![e].estado = "MOVERSE_A_POKEMON"]
              /\ sem' = [sem EXCEPT !.esperar_caught = @ + 1,
                                    !.hay = IF p \in NombresDe(libres) THEN @ + 1 ELSE @]
        /\ caughts' = caughts \ {c}
        /\ UNCHANGED <<algoritmo, hilo, colas, semEntrenador, trabada, cp, mp, glob, libres,
                       envios, vivo>>
        /\ UNCHANGED <<broker, mutex_idCorrelativos, idCorrelativosCatch, gets, llegados, mensaje>>
    BY <1>1, <1>3 DEF CaAplica
  <1>5. /\ reservados' \in Seq(Reserva)
        /\ \A x : TieneReserva(x)' <=> TieneReserva(x) /\ x # e
        /\ \A k, l \in DOMAIN reservados' : reservados'[k].id = reservados'[l].id => k = l
    BY <1>1, <1>4, SinReservaOK DEF Protocolo, Reservas, Falta, TiposPlan, TipoMapa
  <1>6. caughts' = {}
    BY <1>1, <1>4
  <1>7. /\ sem' \in Semaforos /\ sem'.esperar_caught = 1 /\ sem'.mutex_catch = sem.mutex_catch
        /\ sem'.cplazoEntrenador = sem.cplazoEntrenador
    <2>0. sem \in Semaforos /\ sem["esperar_caught"] + 1 >= 0 /\ "esperar_caught" \in NombresSem
      BY <1>1 DEF TiposPlan, TipoSem, NombresSem
    <2>1. CASE sem' = Post("esperar_caught", 1)
      <3>1. /\ sem' \in Semaforos /\ sem'["esperar_caught"] = sem["esperar_caught"] + 1
            /\ \A r \in NombresSem \ {"esperar_caught"} : sem'[r] = sem[r]
        BY <2>0, <2>1, PostOK
      <3> QED BY <1>1, <3>1 DEF NombresSem
    <2>2. CASE sem' = [sem EXCEPT !.esperar_caught = @ + 1,
                                  !.hay = IF p \in NombresDe(libres) THEN @ + 1 ELSE @]
      <3> DEFINE n == sem.esperar_caught + 1
                 h == IF p \in NombresDe(libres) THEN sem.hay + 1 ELSE sem.hay
      <3>1. sem' = [sem EXCEPT !.esperar_caught = n, !.hay = h]
        BY <2>0, <2>2 DEF Semaforos
      <3>2. n = 1 /\ h \in Nat
        BY <1>1, <2>0 DEF Semaforos
      <3> HIDE DEF n, h
      <3> QED BY <2>0, <3>1, <3>2 DEF Semaforos
    <2> QED BY <1>4, <2>1, <2>2
  <1>8. /\ TipoEntrenador'
        /\ entrenador'[e].estado \in {"RECIBIO_RESPUESTA_OK", "MOVERSE_A_POKEMON"}
        /\ \A x \in Entrenadores : x # e => entrenador'[x] = entrenador[x]
    <2> DEFINE t == entrenador[e]
    <2> HIDE DEF o
    <2>0. /\ Ficha(t) /\ TipoEntrenador
      BY DEF TiposPlan, TipoEntrenador
    <2>1. CASE entrenador' = [entrenador EXCEPT ![e].obtenidos = o,
                                                ![e].estado = "RECIBIO_RESPUESTA_OK"]
      <3> DEFINE u == [t EXCEPT !.obtenidos = o, !.estado = "RECIBIO_RESPUESTA_OK"]
      <3>1. entrenador' = [entrenador EXCEPT ![e] = u]
        BY <2>0, <2>1 DEF TipoEntrenador
      <3>2. Ficha(u) /\ u.estado = "RECIBIO_RESPUESTA_OK"
        <4> HIDE DEF t
        <4> QED BY <2>0 DEF Ficha, Estados
      <3> HIDE DEF u
      <3> QED BY <2>0, <3>1, <3>2 DEF TipoEntrenador
    <2>2. CASE entrenador' = [entrenador EXCEPT ![e].estado = "MOVERSE_A_POKEMON"]
      <3> DEFINE u == [t EXCEPT !.estado = "MOVERSE_A_POKEMON"]
      <3>1. entrenador' = [entrenador EXCEPT ![e] = u]
        BY <2>0, <2>2 DEF TipoEntrenador
      <3>2. Ficha(u) /\ u.estado = "MOVERSE_A_POKEMON"
        <4> HIDE DEF t
        <4> QED BY <2>0 DEF Ficha, Estados
      <3> HIDE DEF u
      <3> QED BY <2>0, <3>1, <3>2 DEF TipoEntrenador
    <2> QED BY <1>4, <2>1, <2>2
  <1> HIDE DEF i, p, o
  <1>a. TiposPlan'
    <2>1. TipoHilo' /\ TipoColas' /\ TipoPlanificadores' /\ TipoGlob'
      BY <1>4 DEF colas, TiposPlan, TipoHilo, TipoColas, TipoPlanificadores, TipoGlob
    <2>2. TipoSem'
      BY <1>4, <1>7 DEF TiposPlan, TipoSem
    <2>3. TipoMapa'
      BY <1>4, <1>5 DEF TiposPlan, TipoMapa
    <2> QED BY <1>8, <2>1, <2>2, <2>3 DEF TiposPlan
  <1>b. TiposRecep'
    BY <1>4, <1>6 DEF TiposRecep, Llega
  <1>c. Lugares'
    BY <1>4, MarcoLugares DEF colas
  <1>d. SaleCompleto'
    <2>1. En(colaExit) \subseteq Entrenadores
      BY LenProperties, ElementOfSeq DEF En, TiposPlan, TipoColas
    <2> QED BY <1>2, <1>4, <1>8, <2>1, MarcoSale DEF colas
  <1>e. Turnos'
    BY <1>2, <1>4, <1>7, <1>8 DEF colas, Protocolo, Turnos, EnCpu, Activo, Estado
  <1>f. Medio'
    <2>1. En(colaBlocked) \subseteq Entrenadores
      BY LenProperties, ElementOfSeq DEF En, TiposPlan, TipoColas
    <2> QED BY <1>a, <1>2, <1>4, <1>8, <2>1, MarcoMedio, LenProperties
           DEF colas, Protocolo, TiposPlan, TipoMapa
  <1>g. Reservas'
    BY <1>2, <1>4, <1>5, <1>7, <1>8 DEF colas, Protocolo, Reservas, EnCpu, Estado
  <1>h. Captura'
    <2>1. (\A x \in Entrenadores : EnCaptura(x) <=> x = e)'
      BY <1>1, <1>4 DEF EnCaptura, EnCpu
    <2>2. /\ PorConectar' = {} /\ Anotando' = Anotando /\ Anotado(e)'
          /\ FalloConexion' <=> FalloConexion
      BY <1>1, <1>4 DEF PorConectar, Anotando, Anotado, FalloConexion
    <2>3. Aplicado(e)'
      BY <1>5, <1>8 DEF Aplicado, Estado
    <2>4. EnRespuesta(e)'
      BY <1>1, <1>4, <1>6, <1>7, <2>2, <2>3 DEF EnRespuesta
    <2>5. Enviado(e)'
      BY <1>1, <1>4, <1>7, <2>2, <2>4 DEF Enviado
    <2> QED BY <1>1, <1>4, <2>1, <2>2, <2>5, ACaptura
  <1> QED BY <1>a, <1>b, <1>c, <1>d, <1>e, <1>f, <1>g, <1>h DEF Protocolo

\* BrokerCae: what it kept is lost, but for what the GameCard has yet to answer.
LEMMA BrokerCaeOK ==
    ASSUME IInv, vivo, BrokerCae
    PROVE  IInv'
  <1>a. PICK P \in SUBSET broker.pendientes :
           broker' = [broker EXCEPT !.vivo = FALSE, !.id = 1, !.pendientes = P, !.cambios = @ + 1,
                                    !.perdidos = @ \cup (broker.pendientes \ P)]
    BY DEF BrokerCae
  <1>b. /\ envios' = {IF en.pc = "conectado" THEN [en EXCEPT !.pc = "cortado"] ELSE en : en \in envios}
        /\ UNCHANGED <<algoritmo, entrenador, hilo, colas, sem, semEntrenador, trabada, cp, mp, glob,
                       libres, reservados, vivo>>
        /\ UNCHANGED <<mutex_idCorrelativos, idCorrelativosCatch, gets, llegados, mensaje, caughts>>
    BY DEF BrokerCae, mapa
  <1>c. /\ broker' \in TipoBroker /\ broker'.inicial = broker.inicial /\ broker'.id = 1
        /\ broker'.pendientes = P
    <2> DEFINE n == broker.cambios + 1
               l == broker.perdidos \cup (broker.pendientes \ P)
    <2>1. broker \in TipoBroker
      BY DEF IInv, TiposRecep
    <2>2. n \in Nat /\ l \in SUBSET Nat /\ P \in SUBSET Nat
      BY <2>1, TipoBrokerOK
    <2>3. broker' = [broker EXCEPT !.vivo = FALSE, !.id = 1, !.pendientes = P, !.cambios = n,
                                   !.perdidos = l]
      BY <1>a, <2>1 DEF TipoBroker
    <2> HIDE DEF n, l
    <2>4. broker' = [inicial |-> broker.inicial, vivo |-> FALSE, id |-> 1, pendientes |-> P,
                     perdidos |-> l, cambios |-> n]
      BY <2>1, <2>3, TipoBrokerOK
    <2> QED BY <2>1, <2>2, <2>4 DEF TipoBroker
  <1> DEFINE f(en) == IF en.pc = "conectado" THEN [en EXCEPT !.pc = "cortado"] ELSE en
  <1>d. envios' = {f(en) : en \in envios}
    BY <1>b
  <1>e. \A en \in envios : /\ f(en) \in TipoEnvio
                           /\ f(en).entrenador = en.entrenador /\ f(en).id = en.id
                           /\ (en.pc \in PcConectar <=> f(en).pc \in PcConectar)
                           /\ (en.pc = "anota" <=> f(en).pc = "anota")
                           /\ (en.pc = "anota" => f(en) = en)
    <2> TAKE en \in envios
    <2>1. en \in TipoEnvio /\ en = [entrenador |-> en.entrenador, pc |-> en.pc, id |-> en.id]
      BY EnviosOK DEF TipoEnvio
    <2>2. CASE en.pc = "conectado"
      <3>1. f(en) = [entrenador |-> en.entrenador, pc |-> "cortado", id |-> en.id]
        BY <2>1, <2>2
      <3> HIDE DEF f
      <3> QED BY <2>1, <2>2, <3>1 DEF TipoEnvio, PcConectar
    <2>3. CASE en.pc # "conectado"
      BY <2>1, <2>3
    <2> QED BY <2>2, <2>3
  <1> HIDE DEF f
  <1>f. Anotando' = Anotando /\ (FalloConexion' <=> FalloConexion)
    <2>1. Anotando' = Anotando
      BY <1>d, <1>e DEF Anotando
    <2>2. (\E en \in envios' : en.pc = "anota" /\ en.id = -1)
             <=> (\E en \in envios : en.pc = "anota" /\ en.id = -1)
      BY <1>d, <1>e
    <2> QED BY <1>b, <2>1, <2>2 DEF FalloConexion
  <1>g. PorConectar' = {f(en) : en \in PorConectar}
    BY <1>d, <1>e DEF PorConectar
  <1>h. SinRespuesta => SinRespuesta'
    BY <1>b, <1>c DEF SinRespuesta
  <1>i. Captura'
    <2>1. \A x \in Entrenadores : (EnCaptura(x)' <=> EnCaptura(x)) /\ (Falta(x)' <=> Falta(x))
                                  /\ (Aplicado(x)' <=> Aplicado(x)) /\ (Anotado(x)' <=> Anotado(x))
      BY <1>b DEF EnCaptura, EnCpu, Falta, Aplicado, TieneReserva, Estado, Anotado
    <2>2. CASE \A x \in Entrenadores : ~EnCaptura(x)
      <3>1. /\ PorConectar = {} /\ sem.mutex_catch = 0 /\ SinRespuesta
            /\ (~FalloConexion => envios = {})
            /\ ~FalloConexion => mutex_idCorrelativos = (IF Anotando = {} THEN 1 ELSE 0)
        BY <2>2 DEF IInv, Protocolo, Captura
      <3>2. PorConectar' = {} /\ (envios = {} => envios' = {})
        BY <1>d, <1>g, <3>1
      <3> QED BY <1>b, <1>c, <1>f, <1>h, <2>1, <2>2, <3>1, <3>2 DEF Captura
    <2>3. CASE \E e \in Entrenadores : EnCaptura(e)
      <3>1. PICK e \in Entrenadores : EnCaptura(e)
        BY <2>3
      <3>2. /\ \A x \in Entrenadores : EnCaptura(x) <=> x = e
            /\ ~FalloConexion => mutex_idCorrelativos = (IF Anotando = {} THEN 1 ELSE 0)
            /\ glob.rta_catch = -1 => SinRespuesta
            /\ Lanzado(e) \/ Enviado(e)
        BY <3>1, DeCaptura
      <3>3. (\A x \in Entrenadores : EnCaptura(x) <=> x = e)'
        BY <2>1, <3>2
      <3>4. CASE Lanzado(e)
        <4>1. PICK pc \in PcConectar : PorConectar = {[entrenador |-> e, pc |-> pc, id |-> -1]}
          BY <3>4 DEF Lanzado
        <4> DEFINE y == [entrenador |-> e, pc |-> pc, id |-> -1]
        <4>2. PorConectar' = {f(y)} /\ y \in envios
          BY <1>g, <4>1 DEF PorConectar
        <4>3. \E q \in PcConectar : f(y) = [entrenador |-> e, pc |-> q, id |-> -1]
          <5>1. f(y) \in TipoEnvio /\ f(y).entrenador = e /\ f(y).id = -1 /\ f(y).pc \in PcConectar
            BY <1>e, <4>2
          <5>2. f(y) = [entrenador |-> e, pc |-> f(y).pc, id |-> -1]
            BY <5>1 DEF TipoEnvio
          <5> QED BY <5>1, <5>2
        <4> HIDE DEF y
        <4>4. Lanzado(e)'
          BY <1>b, <1>f, <1>h, <2>1, <3>4, <4>2, <4>3 DEF Lanzado
        <4> QED BY <1>b, <1>c, <1>f, <1>h, <3>2, <3>3, <4>4, ACaptura
      <3>5. CASE Enviado(e)
        <4>1. PorConectar' = {}
          BY <1>g, <3>5 DEF Enviado
        <4>2. EnRespuesta(e) => EnRespuesta(e)'
          <5> SUFFICES ASSUME EnRespuesta(e) PROVE EnRespuesta(e)'
            OBVIOUS
          <5>1. envios' = envios
            <6>1. \A en \in envios : en.pc = "anota"
              BY DEF EnRespuesta
            <6> QED BY <1>d, <1>e, <6>1
          <5>2. broker.pendientes = {} => broker'.pendientes = {}
            BY <1>c
          <5>3. broker.pendientes = {glob.rta_catch}
                   => broker'.pendientes = {glob.rta_catch} \/ broker'.pendientes = {}
            BY <1>c
          <5> QED BY <1>b, <2>1, <5>1, <5>2, <5>3 DEF EnRespuesta, SinRespuesta
        <4>3. Enviado(e)'
          BY <1>b, <1>f, <2>1, <3>1, <3>5, <4>1, <4>2 DEF Enviado
        <4> QED BY <1>b, <1>c, <1>f, <1>h, <3>2, <3>3, <4>3, ACaptura
      <3> QED BY <3>2, <3>4, <3>5
    <2> QED BY <2>2, <2>3
  <1>j. TiposRecep'
    <2>1. \A m \in Ids : Llega(m)' = Llega(m)
      BY <1>c DEF Llega
    <2> QED BY <1>b, <1>c, <2>1 DEF IInv, TiposRecep
  <1>k. envios' \subseteq TipoEnvio
    BY <1>d, <1>e
  <1>l. TipoGlob' /\ glob'.enEjecucion = glob.enEjecucion /\ sem' \in Semaforos /\ MismosPlazos
    BY <1>b DEF IInv, TiposPlan, TipoGlob, TipoSem, MismosPlazos
  <1> QED BY <1>b, <1>i, <1>j, <1>k, <1>l, MarcoCatch

\* BrokerVuelve: nothing that a CATCH or an answer depends on changes.
LEMMA BrokerVuelveOK ==
    ASSUME IInv, vivo, BrokerVuelve
    PROVE  IInv'
  <1>a. /\ broker' = [broker EXCEPT !.vivo = TRUE, !.cambios = @ + 1]
        /\ UNCHANGED <<algoritmo, entrenador, hilo, colas, sem, semEntrenador, trabada, cp, mp, glob,
                       libres, reservados, envios, vivo>>
        /\ UNCHANGED <<mutex_idCorrelativos, idCorrelativosCatch, gets, llegados, mensaje, caughts>>
    BY DEF BrokerVuelve, planVars, mapa
  <1>b. /\ broker' \in TipoBroker /\ broker'.inicial = broker.inicial /\ broker'.id = broker.id
        /\ broker'.pendientes = broker.pendientes
    <2> DEFINE n == broker.cambios + 1
    <2>1. broker \in TipoBroker
      BY DEF IInv, TiposRecep
    <2>2. n \in Nat
      BY <2>1, TipoBrokerOK
    <2>3. broker' = [broker EXCEPT !.vivo = TRUE, !.cambios = n]
      BY <1>a, <2>1 DEF TipoBroker
    <2> HIDE DEF n
    <2> QED BY <2>1, <2>2, <2>3 DEF TipoBroker
  <1>c. /\ PorConectar' = PorConectar /\ Anotando' = Anotando
        /\ (FalloConexion' <=> FalloConexion) /\ (SinRespuesta' <=> SinRespuesta)
    BY <1>a, <1>b DEF PorConectar, Anotando, FalloConexion, SinRespuesta
  <1>d. \A x \in Entrenadores : /\ EnCaptura(x)' <=> EnCaptura(x)
                                /\ Falta(x)' <=> Falta(x)
                                /\ EnRespuesta(x)' <=> EnRespuesta(x)
    BY <1>a, <1>b, <1>c DEF EnCaptura, EnCpu, Falta, TieneReserva, Estado, EnRespuesta, Aplicado, Anotado
  <1>e. Captura'
    <2>1. Captura
      BY DEF IInv, Protocolo
    <2> QED BY <1>a, <1>b, <1>c, <1>d, <2>1 DEF Captura
  <1>f. TiposRecep'
    <2>1. \A m \in Ids : Llega(m)' = Llega(m)
      BY <1>b DEF Llega
    <2> QED BY <1>a, <1>b, <2>1 DEF IInv, TiposRecep
  <1>g. TipoGlob' /\ glob'.enEjecucion = glob.enEjecucion /\ sem' \in Semaforos /\ MismosPlazos
    BY <1>a DEF IInv, TiposPlan, TipoGlob, TipoSem, MismosPlazos
  <1>h. envios' \subseteq TipoEnvio
    BY <1>a DEF IInv, TiposPlan, TipoMapa
  <1> QED BY <1>a, <1>e, <1>f, <1>g, <1>h, MarcoCatch
-----------------------------------------------------------------------------
(* The invariant. *)

\* The Team starts with every trainer in BLOCKED and no CATCH under way.
LEMMA InitOK ==
    ASSUME SinAjenos, Init
    PROVE  IInv
  <1> USE DEF Init, PlanInit
  <1>0. cantidadDeEntrenadores \in Nat /\ Entrenadores = 1 .. cantidadDeEntrenadores
    BY PlanificadoresAssumption DEF Entrenadores
  <1>1. TiposPlan
    <2>1. TipoEntrenador
      <3> SUFFICES ASSUME NEW e \in Entrenadores PROVE Ficha(iniciar_entrenador(e))
        BY DEF TipoEntrenador
      <3> DEFINE a == extraer_pokemones_entrenadores(Objetivos[e])
                 o == extraer_pokemones_entrenadores(Obtenidos[e])
                 n == ESTIMACION_INICIAL * Escala
                 l == Posiciones[e]
      <3>1. /\ n \in Int /\ l \in Lugar /\ QUANTUM \in 0 .. QUANTUM
        BY PlanificadoresAssumption, EntrenadorAssumption DEF Lugar
      <3>2. iniciar_entrenador(e)
              = [posicion |-> l, objetivo |-> a, obtenidos |-> o, estado |-> "MOVERSE_A_POKEMON",
                 quantum |-> QUANTUM, hayQueDesalojar |-> FALSE, actual |-> n, real |-> n,
                 instruccion |-> 0]
        BY DEF iniciar_entrenador
      <3> HIDE DEF a, o, n, l
      <3> QED BY <3>1, <3>2 DEF Ficha, Estados
    <2>2. TipoHilo
      BY DEF TipoHilo, HiloQuieto, Lugar
    <2>3. TipoColas
      <3>1. colaBlocked \in Seq(Entrenadores)
        BY <1>0
      <3> QED BY <3>1 DEF TipoColas
    <2>4. TipoSem
      BY DEF TipoSem, Semaforos
    <2>5. TipoPlanificadores
      BY DEF TipoPlanificadores, PcMp, Nadie
    <2>6. TipoGlob
      BY DEF TipoGlob, Nadie
    <2>7. TipoMapa
      BY DEF TipoMapa
    <2> QED BY <2>1, <2>2, <2>3, <2>4, <2>5, <2>6, <2>7 DEF TiposPlan
  <1>2. TiposRecep
    <2>1. broker \in TipoBroker
      BY TeamAssumption DEF SinAjenos, TipoBroker
    <2>2. mensaje \in [Ids -> [pc : PcMensaje, i : Nat \ {0}]]
      BY DEF PcMensaje
    <2>3. \A m \in Ids : 1 \in DOMAIN Llega(m).posiciones
      <3> TAKE m \in Ids
      <3> DEFINE q == Llega(m).posiciones
      <3>1. q \in Seq(Int \X Int) /\ q # <<>>
        BY <2>1, TeamAssumption DEF Llega, TipoBroker
      <3> HIDE DEF q
      <3>2. 1 \in DOMAIN q
        BY <3>1, LenProperties, EmptySeq
      <3> QED BY <3>2 DEF q
    <2> QED BY <2>1, <2>2, <2>3 DEF TiposRecep
  <1>3. Lugares
    <2>1. /\ En(colaReady) = {} /\ En(colaExit) = {} /\ SinRepetir(colaReady) /\ SinRepetir(colaExit)
      BY DEF En, SinRepetir
    <2>2. En(colaBlocked) = Entrenadores /\ SinRepetir(colaBlocked)
      BY DEF En, SinRepetir
    <2>3. \A e \in Entrenadores : ~EnCpu(e)
      BY DEF EnCpu
    <2> QED BY <2>1, <2>2, <2>3 DEF Lugares
  <1>4. SaleCompleto
    BY DEF SaleCompleto
  <1>5. \A e \in Entrenadores : /\ ~EnCpu(e) /\ Estado(e) = "MOVERSE_A_POKEMON" /\ hilo[e].pc = "espera"
                                /\ semEntrenador[e] = 0 /\ ~TieneReserva(e)
    BY DEF EnCpu, Estado, iniciar_entrenador, HiloQuieto, TieneReserva
  <1>6. Turnos
    BY <1>5 DEF Turnos, Activo, En
  <1>7. Medio
    BY DEF Medio
  <1>8. Reservas
    BY <1>5 DEF Reservas, En, TieneReserva
  <1>9. Captura
    BY <1>5 DEF Captura, EnCaptura, PorConectar, Anotando, SinRespuesta, SinAjenos
  <1> QED BY <1>1, <1>2, <1>3, <1>4, <1>6, <1>7, <1>8, <1>9 DEF IInv, Protocolo

\* A step that changes nothing.
LEMMA QuietoOK ==
    ASSUME IInv, UNCHANGED vars
    PROVE  IInv'
  <1> USE DEF IInv, vars, planVars, recepVars, colas, mapa
  <1>1. TiposPlan'
    BY DEF TiposPlan, TipoEntrenador, TipoHilo, TipoColas, TipoSem, TipoPlanificadores, TipoGlob,
           TipoMapa
  <1>2. TiposRecep'
    BY DEF TiposRecep, Llega
  <1>3. Lugares' /\ SaleCompleto'
    BY MarcoLugares, MarcoSale
  <1>4. ASSUME vivo PROVE Turnos' /\ Reservas' /\ Medio' /\ Captura'
    <2>1. MismoEstado /\ MismosHilos /\ MismosPlazos
      BY DEF MismoEstado, MismosHilos, MismosPlazos
    <2>2. Turnos' /\ Reservas'
      BY <1>4, <2>1, MarcoTurnos, MarcoReservas DEF Protocolo
    <2>3. Medio'
      BY <1>1, <1>4, MarcoMedio, LenProperties DEF Protocolo, TiposPlan, TipoMapa
    <2>4. Captura'
      BY <1>4, MarcoCaptura DEF Protocolo, MismaCaptura, EnCaptura, EnCpu
    <2> QED BY <2>2, <2>3, <2>4
  <1> QED BY <1>1, <1>2, <1>3, <1>4 DEF Protocolo

\* Every step of the Team keeps the invariant: one lemma per action.
LEMMA NextOK ==
    ASSUME IInv, Next, ~Mezcla, ~Mezcla'
    PROVE  IInv'
  <1>1. vivo
    BY DEF Next, Corriendo
  <1>2. CASE Plan
    <2>1. CASE CortoPlazo
      BY <1>1, <1>2, <2>1, CpTerminaOK, CpEligeOK, CpDevuelveOK DEF Plan, CortoPlazo
    <2>2. CASE MedianoPlazo
      BY <1>1, <1>2, <2>2, MpActivaOK, MpEsperaOK, MpRevisaOK, MpTodosEnExitOK, MpMiraOK,
         MpPokemonOK, MpAsignaOK, MpAvisaOK, MpOtroOK, MpDetectaOK, MpDeadlockOK, MpTerminaOK
         DEF Plan, MedianoPlazo
    <2>3. ASSUME NEW e \in Entrenadores, Entrenador(e) PROVE IInv'
      BY <1>1, <1>2, <2>3, TurnoAPokemonOK, TurnoAEntrenadorOK, MoverOK, DejarDeMoverOK,
         intentarAtraparPokemonOK, AtraparPorDefectoOK, EsperarCaughtOK, LlegoCaughtOK,
         IntercambiarOK, TerminarHiloOK DEF Plan, Entrenador
    <2> QED BY <1>2, <2>1, <2>2, <2>3 DEF Plan, PlanNext
  <1>3. ASSUME NEW m \in Ids, Llegada(m) PROVE IInv'
    BY <1>1, <1>3, LlegadaOK
  <1>4. ASSUME NEW p \in Objetivo, GetEnvia(p) \/ GetAnota(p) PROVE IInv'
    BY <1>1, <1>4, GetOK
  <1>5. ASSUME NEW en \in envios, Envio(en) PROVE IInv'
    BY <1>1, <1>5, CatchConectaOK, CatchEnviaOK, CatchRechazadoOK, CatchSinIdOK, CatchAnotaOK DEF Envio
  <1>6. ASSUME NEW id \in broker.pendientes, BrokerResponde(id) PROVE IInv'
    BY <1>1, <1>6, BrokerRespondeOK
  <1>7. ASSUME NEW c \in caughts, procesar_msg_caught(c) PROVE IInv'
    BY <1>1, <1>7, CaBuscaOK, CaEntrenadorOK, CaAplicaOK DEF procesar_msg_caught
  <1>8. CASE BrokerCae \/ BrokerVuelve
    BY <1>1, <1>8, BrokerCaeOK, BrokerVuelveOK
  <1> QED BY <1>2, <1>3, <1>4, <1>5, <1>6, <1>7, <1>8 DEF Next

-----------------------------------------------------------------------------
(* The ids of the CATCH, whatever other Teams send and whenever the broker falls. *)

EnLista(k) == \E i \in DOMAIN idCorrelativosCatch : idCorrelativosCatch[i].id = k

\* An answer to k is of another Team, or finds k in the list once mutex_idCorrelativos
\* is free.
Conocido(k) == k \in Ajenos \/ EnLista(k) \/ \E en \in Anotando : en.id = k

\* Kinds of what has to do with ids.  A CATCH that is to be sent has none.
TiposIds ==
    /\ broker \in [inicial : BOOLEAN, vivo : BOOLEAN, id : Nat \ {0},
                   pendientes : SUBSET (Nat \cup Ajenos), perdidos : SUBSET (Nat \cup Ajenos),
                   cambios : Nat]
    /\ mutex_idCorrelativos \in Nat
    /\ envios \subseteq TipoEnvio
    /\ \A en \in envios : en.pc \in PcConectar => en.id = -1
    /\ idCorrelativosCatch \in Seq([id : Int, entrenador : Entrenadores])
    /\ "rta_catch" \in DOMAIN glob

\* An id is in the list, or the thread that is to add it holds mutex_idCorrelativos.
Numerados ==
    ~FalloConexion => /\ mutex_idCorrelativos = (IF Anotando = {} THEN 1 ELSE 0)
                      /\ \A a, b \in Anotando : a = b
                      /\ \A k \in broker.pendientes : Conocido(k)
                      /\ \A c \in caughts : Conocido(c.id)

\* The inductive invariant of the ids.
IdsInv == TiposIds /\ Numerados

\* A CATCH that got no id never gets one.
FallaSigue == FalloConexion => FalloConexion'

\* ... and rta_catch, once set, is never -1 again.
RtaSigue == glob.rta_catch # -1 => glob'.rta_catch # -1

\* The planners and the trainers send a CATCH by starting a thread, and do nothing else
\* to those there are, nor to rta_catch.
LEMMA EnviosDelPlan ==
    ASSUME Plan
    PROVE  \/ envios' = envios
           \/ \E e \in Entrenadores : envios' = envios \cup {[entrenador |-> e, pc |-> "conecta", id |-> -1]}
  <1>1. CASE CortoPlazo
    BY <1>1 DEF CortoPlazo, CpTermina, CpElige, CpDevuelve
  <1>2. CASE MedianoPlazo
    <2>1. MpActiva \/ MpEspera \/ MpRevisa \/ MpTodosEnExit \/ MpMira \/ MpPokemon => envios' = envios
      BY DEF MpActiva, MpEspera, MpRevisa, MpTodosEnExit, MpMira, MpPokemon
    <2>2. MpAsigna \/ MpAvisa \/ MpOtro \/ MpDetecta \/ MpDeadlock \/ MpTermina => envios' = envios
      BY DEF MpAsigna, MpAvisa, MpOtro, MpDetecta, MpDeadlock, MpTermina
    <2> QED BY <1>2, <2>1, <2>2 DEF MedianoPlazo
  <1>3. ASSUME NEW e \in Entrenadores, Entrenador(e)
        PROVE  \/ envios' = envios
               \/ envios' = envios \cup {[entrenador |-> e, pc |-> "conecta", id |-> -1]}
    <2>1. CASE intentarAtraparPokemon(e)
      BY <2>1 DEF intentarAtraparPokemon
    <2>2. TurnoAPokemon(e) \/ TurnoAEntrenador(e) \/ Mover(e) \/ DejarDeMover(e) => envios' = envios
      BY DEF TurnoAPokemon, TurnoAEntrenador, Mover, DejarDeMover
    <2>3. AtraparPorDefecto(e) \/ EsperarCaught(e) \/ LlegoCaught(e) => envios' = envios
      BY DEF AtraparPorDefecto, EsperarCaught, LlegoCaught
    <2>4. Intercambiar(e) \/ TerminarHilo(e) => envios' = envios
      BY DEF Intercambiar, TerminarHilo
    <2> QED BY <1>3, <2>1, <2>2, <2>3, <2>4 DEF Entrenador
  <1> QED BY <1>1, <1>2, <1>3 DEF Plan, PlanNext

LEMMA RtaDelPlan ==
    ASSUME Plan, "rta_catch" \in DOMAIN glob
    PROVE  glob'.rta_catch = glob.rta_catch /\ "rta_catch" \in DOMAIN glob'
  <1>1. CASE CortoPlazo
    BY <1>1 DEF CortoPlazo, CpTermina, CpElige, CpDevuelve
  <1>2. CASE MedianoPlazo
    <2>1. MpActiva \/ MpEspera \/ MpRevisa \/ MpTodosEnExit \/ MpMira \/ MpPokemon
             => glob'.rta_catch = glob.rta_catch /\ "rta_catch" \in DOMAIN glob'
      BY DEF MpActiva, MpEspera, MpRevisa, MpTodosEnExit, MpMira, MpPokemon
    <2>2. MpAvisa \/ MpDetecta \/ MpTermina
             => glob'.rta_catch = glob.rta_catch /\ "rta_catch" \in DOMAIN glob'
      BY DEF MpAvisa, MpDetecta, MpTermina
    <2>3. ASSUME NEW x, estimar_entrenador(x)
          PROVE  glob'.rta_catch = glob.rta_catch /\ "rta_catch" \in DOMAIN glob'
      BY <2>3 DEF estimar_entrenador
    <2>4. MpAsigna \/ MpOtro \/ MpDeadlock => UNCHANGED glob \/ \E x : estimar_entrenador(x)
      BY DEF MpAsigna, MpOtro, MpDeadlock
    <2> QED BY <1>2, <2>1, <2>2, <2>3, <2>4 DEF MedianoPlazo
  <1>3. ASSUME NEW e \in Entrenadores, Entrenador(e)
        PROVE  glob'.rta_catch = glob.rta_catch /\ "rta_catch" \in DOMAIN glob'
    <2>1. TurnoAPokemon(e) \/ TurnoAEntrenador(e) \/ Mover(e) \/ DejarDeMover(e)
             => glob'.rta_catch = glob.rta_catch /\ "rta_catch" \in DOMAIN glob'
      BY DEF TurnoAPokemon, TurnoAEntrenador, Mover, DejarDeMover
    <2>2. intentarAtraparPokemon(e) \/ AtraparPorDefecto(e) \/ EsperarCaught(e) \/ LlegoCaught(e)
             => glob'.rta_catch = glob.rta_catch /\ "rta_catch" \in DOMAIN glob'
      BY DEF intentarAtraparPokemon, AtraparPorDefecto, EsperarCaught, LlegoCaught
    <2>3. Intercambiar(e) \/ TerminarHilo(e)
             => glob'.rta_catch = glob.rta_catch /\ "rta_catch" \in DOMAIN glob'
      BY DEF Intercambiar, TerminarHilo
    <2> QED BY <1>3, <2>1, <2>2, <2>3 DEF Entrenador
  <1> QED BY <1>1, <1>2, <1>3 DEF Plan, PlanNext

\* Steps that change no id.
LEMMA IdsQuietos ==
    ASSUME IdsInv, UNCHANGED <<broker, mutex_idCorrelativos, idCorrelativosCatch, caughts>>,
           Anotando' = Anotando, envios' \subseteq TipoEnvio,
           \A en \in envios' : en.pc \in PcConectar => en.id = -1,
           "rta_catch" \in DOMAIN glob'
    PROVE  IdsInv' /\ FallaSigue
  <1>1. FalloConexion' <=> FalloConexion
    BY DEF FalloConexion, Anotando
  <1> QED BY <1>1 DEF IdsInv, TiposIds, Numerados, Conocido, EnLista, FallaSigue

\* A thread that goes on to add its id to the list.
LEMMA IdsPasa ==
    ASSUME IdsInv, NEW en \in envios, en.pc \in PcConectar, NEW b \in Int,
           envios' = Pasa(en, "anota", b)
    PROVE  /\ envios' \subseteq TipoEnvio
           /\ \A x \in envios' : x.pc \in PcConectar => x.id = -1
           /\ \E an \in envios' : an.pc = "anota" /\ an.id = b /\ Anotando' = Anotando \cup {an}
           /\ idCorrelativosCatch' = idCorrelativosCatch => FallaSigue
  <1> DEFINE an == [entrenador |-> en.entrenador, pc |-> "anota", id |-> b]
  <1>1. en \in TipoEnvio /\ \A x \in envios : x.pc \in PcConectar => x.id = -1
    BY DEF IdsInv, TiposIds
  <1>2. [en EXCEPT !.pc = "anota", !.id = b] = an
    BY <1>1, PasaA
  <1>4. envios' = (envios \ {en}) \cup {an}
    BY <1>2 DEF Pasa
  <1>5. an \in TipoEnvio /\ an.pc = "anota" /\ an.id = b
    BY <1>1 DEF TipoEnvio
  <1> HIDE DEF an
  <1>6. "anota" \notin PcConectar
    BY DEF PcConectar
  <1>7. Anotando' = Anotando \cup {an}
    BY <1>4, <1>5, <1>6 DEF Anotando
  <1>8. envios' \subseteq TipoEnvio /\ \A x \in envios' : x.pc \in PcConectar => x.id = -1
    BY <1>1, <1>4, <1>5, <1>6 DEF IdsInv, TiposIds
  <1>9. idCorrelativosCatch' = idCorrelativosCatch => FallaSigue
    BY <1>7 DEF FallaSigue, FalloConexion, Anotando
  <1> QED BY <1>4, <1>5, <1>7, <1>8, <1>9

\* The broker gives an id, refuses the CATCH or falls before it answers: whoever has to
\* add what it got to the list holds the mutex.
LEMMA IdsCatchEnvia ==
    ASSUME NEW en \in envios, IdsInv, CatchEnvia(en) \/ CatchRechazado(en) \/ CatchCortado(en)
    PROVE  IdsInv' /\ FallaSigue /\ RtaSigue
  <1> USE DEF IdsInv
  <1>1. /\ en.pc \in PcConectar /\ mutex_idCorrelativos > 0
        /\ mutex_idCorrelativos' = mutex_idCorrelativos - 1
        /\ UNCHANGED <<idCorrelativosCatch, caughts>>
    BY DEF CatchEnvia, CatchRechazado, CatchCortado, PcConectar
  <1>2. PICK b \in Int :
           /\ envios' = Pasa(en, "anota", b)
           /\ broker' \in [inicial : BOOLEAN, vivo : BOOLEAN, id : Nat \ {0},
                           pendientes : SUBSET (Nat \cup Ajenos),
                           perdidos : SUBSET (Nat \cup Ajenos), cambios : Nat]
           /\ broker'.pendientes \subseteq broker.pendientes \cup {b}
           /\ \/ glob' = glob
              \/ glob' = [glob EXCEPT !.rta_catch = b] /\ b # -1
    <2>1. CASE CatchEnvia(en)
      <3> DEFINE b == broker.id
                 n == b + 1
                 q == broker.pendientes \cup {b}
                 l == broker.perdidos \ {b}
      <3>1. /\ b \in Nat \ {0} /\ n \in Nat \ {0} /\ b # -1
            /\ q \in SUBSET (Nat \cup Ajenos) /\ l \in SUBSET (Nat \cup Ajenos)
        BY DEF TiposIds
      <3>2. broker' = [broker EXCEPT !.id = n, !.pendientes = q, !.perdidos = l]
        BY <2>1 DEF CatchEnvia, Aceptado, TiposIds
      <3>3. /\ envios' = Pasa(en, "anota", b) /\ glob' = [glob EXCEPT !.rta_catch = b]
            /\ q = broker.pendientes \cup {b}
        BY <2>1 DEF CatchEnvia
      <3> HIDE DEF b, n, q, l
      <3>4. /\ broker' \in [inicial : BOOLEAN, vivo : BOOLEAN, id : Nat \ {0},
                            pendientes : SUBSET (Nat \cup Ajenos),
                            perdidos : SUBSET (Nat \cup Ajenos), cambios : Nat]
            /\ broker'.pendientes = q
        BY <3>1, <3>2 DEF TiposIds
      <3> QED BY <3>1, <3>3, <3>4
    <2>2. CASE CatchRechazado(en)
      <3> DEFINE l == broker.perdidos \cup {LargoDelError}
      <3>1. l \in SUBSET (Nat \cup Ajenos) /\ LargoDelError \in Nat
        BY TeamAssumption DEF TiposIds
      <3>2. broker' = [broker EXCEPT !.perdidos = l]
        BY <2>2 DEF CatchRechazado, TiposIds
      <3> HIDE DEF l
      <3>3. /\ broker' \in [inicial : BOOLEAN, vivo : BOOLEAN, id : Nat \ {0},
                            pendientes : SUBSET (Nat \cup Ajenos),
                            perdidos : SUBSET (Nat \cup Ajenos), cambios : Nat]
            /\ broker'.pendientes = broker.pendientes
        BY <3>1, <3>2 DEF TiposIds
      <3> QED BY <2>2, <3>1, <3>3 DEF CatchRechazado
    <2>3. CASE CatchCortado(en)
      <3>1. en.id \in Int
        BY DEF TiposIds, TipoEnvio
      <3> QED BY <2>3, <3>1 DEF CatchCortado, TiposIds
    <2> QED BY <2>1, <2>2, <2>3
  <1>3. PICK an \in envios' : an.pc = "anota" /\ an.id = b /\ Anotando' = Anotando \cup {an}
    BY <1>1, <1>2, IdsPasa
  <1>4. /\ envios' \subseteq TipoEnvio /\ FallaSigue
        /\ \A x \in envios' : x.pc \in PcConectar => x.id = -1
    BY <1>1, <1>2, IdsPasa
  <1>5. TiposIds' /\ RtaSigue
    BY <1>1, <1>2, <1>4 DEF TiposIds, RtaSigue
  <1>6. ASSUME ~FalloConexion'
        PROVE  /\ mutex_idCorrelativos' = (IF Anotando' = {} THEN 1 ELSE 0)
               /\ \A x, y \in Anotando' : x = y
               /\ \A k \in broker'.pendientes : Conocido(k)'
               /\ \A c \in caughts' : Conocido(c.id)'
    <2>1. ~FalloConexion
      BY <1>4, <1>6 DEF FallaSigue
    <2>2. Anotando = {} /\ mutex_idCorrelativos = 1
      BY <1>1, <2>1 DEF Numerados
    <2>3. \A k : Conocido(k) => Conocido(k)'
      BY <1>1, <1>3 DEF Conocido, EnLista
    <2>4. Conocido(b)'
      BY <1>3 DEF Conocido
    <2> QED BY <1>1, <1>2, <1>3, <2>1, <2>2, <2>3, <2>4 DEF Numerados
  <1> QED BY <1>4, <1>5, <1>6 DEF Numerados

\* With no broker the mutex is not taken, but no CATCH gets no id without FalloConexion.
LEMMA IdsCatchSinBroker ==
    ASSUME NEW en \in envios, IdsInv, CatchSinBroker(en)
    PROVE  IdsInv' /\ FallaSigue /\ RtaSigue
  <1>1. /\ en.pc \in PcConectar /\ en.id = -1
        /\ envios' = Pasa(en, "anota", -1)
        /\ UNCHANGED <<glob, broker, mutex_idCorrelativos, idCorrelativosCatch, caughts>>
    BY DEF CatchSinBroker, recepVars, PcConectar, IdsInv, TiposIds
  <1>2. \E an \in envios' : an.pc = "anota" /\ an.id = -1
    BY <1>1, IdsPasa
  <1>3. FalloConexion'
    BY <1>2 DEF FalloConexion
  <1>4. envios' \subseteq TipoEnvio /\ \A x \in envios' : x.pc \in PcConectar => x.id = -1
    BY <1>1, IdsPasa
  <1> QED BY <1>1, <1>3, <1>4 DEF IdsInv, TiposIds, Numerados, FallaSigue, RtaSigue

\* The connection changes no id.
LEMMA IdsCatchConecta ==
    ASSUME NEW en \in envios, IdsInv, CatchConecta(en)
    PROVE  IdsInv' /\ FallaSigue /\ RtaSigue
  <1> DEFINE n == [entrenador |-> en.entrenador, pc |-> "conectado", id |-> -1]
  <1>1. /\ en.pc = "conecta" /\ envios' = Pasa(en, "conectado", en.id)
        /\ UNCHANGED <<glob, broker, mutex_idCorrelativos, idCorrelativosCatch, caughts>>
    BY DEF CatchConecta, recepVars
  <1>2. en \in TipoEnvio /\ en.id = -1
    BY <1>1 DEF IdsInv, TiposIds, PcConectar
  <1>3. [en EXCEPT !.pc = "conectado", !.id = en.id]
           = [entrenador |-> en.entrenador, pc |-> "conectado", id |-> en.id]
    BY <1>2, PasaA
  <1>4. [en EXCEPT !.pc = "conectado", !.id = en.id] = n
    BY <1>2, <1>3
  <1>5. envios' = (envios \ {en}) \cup {n} /\ n \in TipoEnvio /\ n.pc = "conectado" /\ n.id = -1
    BY <1>1, <1>2, <1>4 DEF Pasa, TipoEnvio, PcConectar
  <1> HIDE DEF n
  <1>6. Anotando' = Anotando
    BY <1>1, <1>5 DEF Anotando
  <1> QED BY <1>1, <1>5, <1>6, IdsQuietos DEF IdsInv, TiposIds, RtaSigue

\* The id is added before the mutex is freed.
LEMMA IdsCatchAnota ==
    ASSUME NEW en \in envios, IdsInv, CatchAnota(en)
    PROVE  IdsInv' /\ FallaSigue /\ RtaSigue
  <1> USE DEF IdsInv
  <1> DEFINE r == [id |-> en.id, entrenador |-> en.entrenador]
             q == idCorrelativosCatch
  <1>1. /\ en.pc = "anota"
        /\ idCorrelativosCatch' = Append(q, r)
        /\ mutex_idCorrelativos' = mutex_idCorrelativos + 1
        /\ envios' = envios \ {en}
        /\ UNCHANGED <<broker, caughts, glob>>
    BY DEF CatchAnota
  <1>2. r \in [id : Int, entrenador : Entrenadores] /\ r.id = en.id
    BY DEF TiposIds, TipoEnvio
  <1>3. q \in Seq([id : Int, entrenador : Entrenadores]) /\ Len(q) \in Nat /\ DOMAIN q = 1 .. Len(q)
    BY LenProperties DEF TiposIds
  <1> HIDE DEF r
  <1>4. /\ idCorrelativosCatch' \in Seq([id : Int, entrenador : Entrenadores])
        /\ DOMAIN idCorrelativosCatch' = 1 .. Len(q) + 1
        /\ idCorrelativosCatch'[Len(q) + 1] = r
        /\ \A i \in DOMAIN q : idCorrelativosCatch'[i] = q[i]
    <2> HIDE DEF q
    <2>1. /\ Append(q, r) \in Seq([id : Int, entrenador : Entrenadores])
          /\ Len(Append(q, r)) = Len(q) + 1
          /\ Append(q, r)[Len(q) + 1] = r
          /\ \A i \in 1 .. Len(q) : Append(q, r)[i] = q[i]
      BY <1>2, <1>3, AppendProperties
    <2>2. DOMAIN Append(q, r) = 1 .. Len(q) + 1
      BY <2>1, LenProperties
    <2> QED BY <1>1, <1>3, <2>1, <2>2
  <1>5. /\ DOMAIN q \subseteq DOMAIN idCorrelativosCatch' /\ Len(q) + 1 \in DOMAIN idCorrelativosCatch'
    BY <1>3, <1>4
  <1>6. EnLista(en.id)' /\ \A k : EnLista(k) => EnLista(k)'
    <2>1. \E i \in DOMAIN idCorrelativosCatch' : idCorrelativosCatch'[i].id = en.id
      BY <1>2, <1>4, <1>5
    <2>2. ASSUME NEW k, NEW i \in DOMAIN idCorrelativosCatch, idCorrelativosCatch[i].id = k
          PROVE  \E j \in DOMAIN idCorrelativosCatch' : idCorrelativosCatch'[j].id = k
      BY <2>2, <1>4, <1>5
    <2> QED BY <2>1, <2>2 DEF EnLista
  <1>7. TiposIds' /\ RtaSigue
    BY <1>1, <1>4 DEF TiposIds, RtaSigue
  <1>8. \A k : Conocido(k) => Conocido(k)'
    BY <1>1, <1>6 DEF Conocido, Anotando
  <1>9. FallaSigue
    <2>1. ASSUME EnLista(-1) PROVE FalloConexion'
      BY <1>6, <2>1 DEF EnLista, FalloConexion
    <2>2. ASSUME NEW x \in envios, x.pc = "anota", x.id = -1 PROVE FalloConexion'
      <3>1. CASE x = en
        BY <1>6, <2>2, <3>1 DEF EnLista, FalloConexion
      <3>2. CASE x # en
        BY <1>1, <2>2, <3>2 DEF FalloConexion
      <3> QED BY <3>1, <3>2
    <2> QED BY <2>1, <2>2 DEF FallaSigue, FalloConexion, EnLista
  <1>10. ~FalloConexion => Anotando = {en} /\ Anotando' = {} /\ mutex_idCorrelativos' = 1
    <2>1. en \in Anotando
      BY <1>1 DEF Anotando
    <2>2. ~FalloConexion => Anotando = {en} /\ mutex_idCorrelativos = 0
      BY <2>1 DEF Numerados
    <2> QED BY <1>1, <2>2 DEF Anotando
  <1> QED BY <1>1, <1>7, <1>8, <1>9, <1>10 DEF Numerados, FallaSigue

\* A thread of CAUGHT keeps the id it came with.
LEMMA IdsCaught ==
    ASSUME IdsInv, NEW c \in caughts, procesar_msg_caught(c)
    PROVE  IdsInv' /\ FallaSigue /\ RtaSigue
  <1>1. UNCHANGED <<broker, mutex_idCorrelativos, idCorrelativosCatch, envios, glob>>
    BY DEF procesar_msg_caught, CaBusca, CaEntrenador, CaAplica, planVars
  <1>2. \A d \in caughts' : d.id = c.id \/ d \in caughts
    <2>1. CASE CaBusca(c)
      <3> DEFINE q == idCorrelativosCatch
                 d == [c EXCEPT !.pc = "entrenador", !.reserva = q[Len(q)].entrenador]
      <3>1. caughts' \subseteq caughts \cup {d}
        BY <2>1 DEF CaBusca
      <3>2. d.id = c.id
        OBVIOUS
      <3> QED BY <3>1, <3>2
    <2>2. CASE CaEntrenador(c)
      <3> DEFINE d == [c EXCEPT !.pc = "aplica", !.para = buscarEntrenadorDeLaReserva(c.reserva)]
      <3>1. caughts' \subseteq caughts \cup {d}
        BY <2>2 DEF CaEntrenador
      <3>2. d.id = c.id
        OBVIOUS
      <3> QED BY <3>1, <3>2
    <2>3. CASE CaAplica(c)
      BY <2>3 DEF CaAplica
    <2> QED BY <2>1, <2>2, <2>3 DEF procesar_msg_caught
  <1>3. Anotando' = Anotando /\ (FalloConexion' <=> FalloConexion) /\ \A k : Conocido(k) => Conocido(k)'
    BY <1>1 DEF Anotando, FalloConexion, Conocido, EnLista
  <1>4. Numerados'
    BY <1>1, <1>2, <1>3 DEF IdsInv, Numerados
  <1> QED BY <1>1, <1>3, <1>4 DEF IdsInv, TiposIds, FallaSigue, RtaSigue

\* The broker that falls takes with it no id but those it owed.
LEMMA IdsBrokerCae ==
    ASSUME IdsInv, BrokerCae
    PROVE  IdsInv' /\ FallaSigue /\ RtaSigue
  <1>a. PICK P \in SUBSET broker.pendientes :
           broker' = [broker EXCEPT !.vivo = FALSE, !.id = 1, !.pendientes = P, !.cambios = @ + 1,
                                    !.perdidos = @ \cup (broker.pendientes \ P)]
    BY DEF BrokerCae
  <1>b. /\ envios' = {IF en.pc = "conectado" THEN [en EXCEPT !.pc = "cortado"] ELSE en : en \in envios}
        /\ UNCHANGED <<glob, mutex_idCorrelativos, idCorrelativosCatch, caughts>>
    BY DEF BrokerCae
  <1>c. /\ broker' \in [inicial : BOOLEAN, vivo : BOOLEAN, id : Nat \ {0},
                        pendientes : SUBSET (Nat \cup Ajenos),
                        perdidos : SUBSET (Nat \cup Ajenos), cambios : Nat]
        /\ broker'.pendientes = P
    <2> DEFINE n == broker.cambios + 1
               l == broker.perdidos \cup (broker.pendientes \ P)
    <2>1. n \in Nat /\ l \in SUBSET (Nat \cup Ajenos) /\ P \in SUBSET (Nat \cup Ajenos)
      BY DEF IdsInv, TiposIds
    <2>2. broker' = [broker EXCEPT !.vivo = FALSE, !.id = 1, !.pendientes = P, !.cambios = n,
                                   !.perdidos = l]
      BY <1>a DEF IdsInv, TiposIds
    <2> HIDE DEF n, l
    <2>3. /\ broker'.inicial = broker.inicial /\ broker'.vivo = FALSE /\ broker'.id = 1
          /\ broker'.pendientes = P /\ broker'.perdidos = l /\ broker'.cambios = n
          /\ broker' = [inicial |-> broker.inicial, vivo |-> FALSE, id |-> 1, pendientes |-> P,
                        perdidos |-> l, cambios |-> n]
      BY <2>2 DEF IdsInv, TiposIds
    <2> QED BY <2>1, <2>3 DEF IdsInv, TiposIds
  <1> DEFINE f(en) == IF en.pc = "conectado" THEN [en EXCEPT !.pc = "cortado"] ELSE en
  <1>d. envios' = {f(en) : en \in envios}
    BY <1>b
  <1>e. \A en \in envios : /\ f(en) \in TipoEnvio /\ f(en).id = en.id
                           /\ (en.pc \in PcConectar <=> f(en).pc \in PcConectar)
                           /\ (f(en).pc = "anota" <=> en.pc = "anota")
                           /\ (en.pc = "anota" => f(en) = en)
    <2> TAKE en \in envios
    <2>1. en \in TipoEnvio /\ en = [entrenador |-> en.entrenador, pc |-> en.pc, id |-> en.id]
      BY DEF IdsInv, TiposIds, TipoEnvio
    <2>2. CASE en.pc = "conectado"
      <3>1. f(en) = [entrenador |-> en.entrenador, pc |-> "cortado", id |-> en.id]
        BY <2>1, <2>2
      <3> HIDE DEF f
      <3> QED BY <2>1, <2>2, <3>1 DEF TipoEnvio, PcConectar
    <2>3. CASE en.pc # "conectado"
      BY <2>1, <2>3
    <2> QED BY <2>2, <2>3
  <1> HIDE DEF f
  <1>f. Anotando' = Anotando
    BY <1>d, <1>e DEF Anotando
  <1>g. envios' \subseteq TipoEnvio /\ \A x \in envios' : x.pc \in PcConectar => x.id = -1
    BY <1>d, <1>e DEF IdsInv, TiposIds
  <1>h. TiposIds' /\ RtaSigue
    BY <1>b, <1>c, <1>g DEF IdsInv, TiposIds, RtaSigue
  <1>i. FalloConexion' <=> FalloConexion
    BY <1>b, <1>f DEF FalloConexion, Anotando
  <1>j. \A k : Conocido(k) => Conocido(k)'
    BY <1>b, <1>f DEF Conocido, EnLista
  <1>k. Numerados'
    BY <1>b, <1>c, <1>f, <1>i, <1>j DEF IdsInv, Numerados
  <1> QED BY <1>h, <1>i, <1>k DEF IdsInv, FallaSigue

\* Every step keeps IdsInv, a CATCH that failed and a rta_catch that was set.
LEMMA IdsNext ==
    ASSUME IdsInv, [Next]_vars
    PROVE  IdsInv' /\ FallaSigue /\ RtaSigue
  <1>1. CASE Plan
    <2>1. /\ UNCHANGED <<broker, mutex_idCorrelativos, idCorrelativosCatch, caughts>>
          /\ glob'.rta_catch = glob.rta_catch /\ "rta_catch" \in DOMAIN glob'
      BY <1>1, RtaDelPlan DEF Plan, recepVars, IdsInv, TiposIds
    <2>2. CASE envios' = envios
      BY <2>1, <2>2, IdsQuietos DEF Anotando, IdsInv, TiposIds, RtaSigue
    <2>3. ASSUME NEW e \in Entrenadores,
                 envios' = envios \cup {[entrenador |-> e, pc |-> "conecta", id |-> -1]}
          PROVE  IdsInv' /\ FallaSigue /\ RtaSigue
      <3>1. Anotando' = Anotando
        BY <2>3 DEF Anotando
      <3>2. [entrenador |-> e, pc |-> "conecta", id |-> -1] \in TipoEnvio
        BY DEF TipoEnvio, PcConectar
      <3>3. envios' \subseteq TipoEnvio /\ \A x \in envios' : x.pc \in PcConectar => x.id = -1
        BY <2>3, <3>2 DEF IdsInv, TiposIds
      <3> QED BY <2>1, <3>1, <3>3, IdsQuietos DEF RtaSigue
    <2> QED BY <1>1, <2>2, <2>3, EnviosDelPlan
  <1>2. CASE \/ \E m \in Ids : Llegada(m)
             \/ \E p \in Objetivo : GetEnvia(p) \/ GetAnota(p)
             \/ UNCHANGED vars
    <2>1. ASSUME NEW m \in Ids, Llegada(m)
          PROVE  UNCHANGED <<broker, mutex_idCorrelativos, idCorrelativosCatch, caughts, envios, glob>>
      BY <2>1 DEF Llegada, procesar_msg_appeared, process_msjs_gameboy, procesar_msg_localized,
            Aparece, ApMapa, Evaluar, ApAgrega, LocAvisa, LocAgrega, Activar, planVars
    <2>2. UNCHANGED <<broker, mutex_idCorrelativos, idCorrelativosCatch, caughts, envios, glob>>
      BY <1>2, <2>1 DEF GetEnvia, GetAnota, planVars, vars, recepVars
    <2> QED BY <2>2, IdsQuietos DEF Anotando, IdsInv, TiposIds, RtaSigue
  <1>3. ASSUME NEW en \in envios, Envio(en) PROVE IdsInv' /\ FallaSigue /\ RtaSigue
    BY <1>3, IdsCatchConecta, IdsCatchEnvia, IdsCatchSinBroker, IdsCatchAnota DEF Envio
  <1>4. ASSUME NEW id \in broker.pendientes, BrokerResponde(id)
        PROVE  IdsInv' /\ FallaSigue /\ RtaSigue
    <2>1. PICK r \in Resultados :
             /\ broker' = [broker EXCEPT !.pendientes = @ \ {id}]
             /\ caughts' = caughts \cup {Caught(id, r)}
             /\ UNCHANGED <<mutex_idCorrelativos, idCorrelativosCatch, envios, glob>>
      BY <1>4 DEF BrokerResponde, planVars
    <2>2. /\ broker' \in [inicial : BOOLEAN, vivo : BOOLEAN, id : Nat \ {0},
                          pendientes : SUBSET (Nat \cup Ajenos),
                          perdidos : SUBSET (Nat \cup Ajenos), cambios : Nat]
          /\ broker'.pendientes = broker.pendientes \ {id}
      BY <2>1 DEF IdsInv, TiposIds
    <2>3. Caught(id, r).id = id
      BY DEF Caught
    <2>4. /\ Anotando' = Anotando /\ (FalloConexion' <=> FalloConexion)
          /\ \A k : Conocido(k) => Conocido(k)'
      BY <2>1 DEF Anotando, FalloConexion, Conocido, EnLista
    <2>5. Numerados'
      BY <2>1, <2>2, <2>3, <2>4 DEF IdsInv, Numerados
    <2> QED BY <2>1, <2>2, <2>4, <2>5 DEF IdsInv, TiposIds, FallaSigue, RtaSigue
  <1>5. ASSUME NEW c \in caughts, procesar_msg_caught(c) PROVE IdsInv' /\ FallaSigue /\ RtaSigue
    BY <1>5, IdsCaught
  <1>6. CASE BrokerCae
    BY <1>6, IdsBrokerCae
  <1>7. CASE BrokerVuelve
    <2> DEFINE n == broker.cambios + 1
    <2>1. /\ broker' = [broker EXCEPT !.vivo = TRUE, !.cambios = n]
          /\ UNCHANGED <<mutex_idCorrelativos, idCorrelativosCatch, caughts, envios, glob>>
      BY <1>7 DEF BrokerVuelve, planVars, IdsInv, TiposIds
    <2>2. n \in Nat
      BY DEF IdsInv, TiposIds
    <2> HIDE DEF n
    <2>3. /\ broker' \in [inicial : BOOLEAN, vivo : BOOLEAN, id : Nat \ {0},
                          pendientes : SUBSET (Nat \cup Ajenos),
                          perdidos : SUBSET (Nat \cup Ajenos), cambios : Nat]
          /\ broker'.pendientes = broker.pendientes
      BY <2>1, <2>2 DEF IdsInv, TiposIds
    <2>4. /\ Anotando' = Anotando /\ (FalloConexion' <=> FalloConexion)
          /\ \A k : Conocido(k) => Conocido(k)'
      BY <2>1 DEF Anotando, FalloConexion, Conocido, EnLista
    <2>5. Numerados'
      BY <2>1, <2>3, <2>4 DEF IdsInv, Numerados
    <2> QED BY <2>1, <2>3, <2>4, <2>5 DEF IdsInv, TiposIds, FallaSigue, RtaSigue
  <1> QED BY <1>1, <1>2, <1>3, <1>4, <1>5, <1>6, <1>7 DEF Next

\* The ids at the start.
LEMMA IdsInit ==
    Init => IdsInv
  <1> SUFFICES ASSUME Init PROVE IdsInv
    OBVIOUS
  <1>1. /\ broker \in [inicial : BOOLEAN, vivo : BOOLEAN, id : Nat \ {0},
                       pendientes : SUBSET (Nat \cup Ajenos),
                       perdidos : SUBSET (Nat \cup Ajenos), cambios : Nat]
        /\ broker.pendientes = Ajenos
    BY TeamAssumption DEF Init
  <1>2. envios = {} /\ caughts = {} /\ mutex_idCorrelativos = 1 /\ idCorrelativosCatch = <<>>
    BY DEF Init, PlanInit
  <1>3. "rta_catch" \in DOMAIN glob
    BY DEF Init, PlanInit
  <1> QED BY <1>1, <1>2, <1>3 DEF IdsInv, TiposIds, Numerados, Conocido, Anotando

\* While no CATCH failed, the answer to a CATCH of this Team is looked for only when its
\* id is in the list (mutex_idCorrelativos), whatever other Teams send and however often
\* the broker falls and gives its ids again.
THEOREM SiempreSuRespuesta ==
    Spec => []RespuestaReconocida
  <1>1. IdsInv /\ [Next]_vars => IdsInv'
    BY IdsNext
  <1>2. IdsInv => RespuestaReconocida
    BY DEF IdsInv, TiposIds, Numerados, RespuestaReconocida, Conocido, EnLista
  <1> QED BY <1>1, <1>2, IdsInit, PTL DEF Spec

\* Once some CATCH got no id and another one did, it stays so.
LEMMA MezclaQueda ==
    IdsInv /\ Mezcla /\ [Next]_vars => Mezcla'
  BY IdsNext DEF Mezcla, FallaSigue, RtaSigue
-----------------------------------------------------------------------------
(* The invariant. *)

\* The invariant of the planners, the trainers and the CATCH (planificadorMedianoPlazo,
\* planificarFifo, comportamiento_entrenador, procesar_msg_caught), for any number of
\* trainers, messages and pokemons and the four algorithms, however often the broker falls,
\* when it has no CATCH of another Team to answer and until, of two CATCH, one got an id
\* and the other one none.
THEOREM Invariante ==
    SinAjenos => (Spec => [](Mezcla \/ IInv))
  <1>1. SinAjenos /\ Init => IInv
    BY InitOK
  <1>2. IdsInv /\ [Next]_vars => IdsInv'
    BY IdsNext
  <1>3. (Mezcla \/ IInv) /\ IdsInv /\ [Next]_vars => (Mezcla \/ IInv)'
    BY NextOK, QuietoOK, MezclaQueda
  <1> QED BY <1>1, <1>2, <1>3, IdsInit, PTL DEF Spec
-----------------------------------------------------------------------------
(* What follows from it, until Mezcla. *)

\* In a queue that repeats none, a trainer is once or not at all.
LEMMA VecesOK ==
    ASSUME NEW q \in Seq(Entrenadores), SinRepetir(q), NEW e
    PROVE  Veces(q, e) = IF e \in En(q) THEN 1 ELSE 0
  <1> DEFINE D == {i \in DOMAIN q : q[i] = e}
  <1>1. CASE e \in En(q)
    <2>1. PICK k \in DOMAIN q : q[k] = e
      BY <1>1 DEF En
    <2>2. D = {k}
      BY <2>1 DEF SinRepetir
    <2>3. Cardinality({k}) = 1
      BY FS_Singleton
    <2> QED BY <1>1, <2>2, <2>3 DEF Veces
  <1>2. CASE e \notin En(q)
    <2>1. D = {}
      BY <1>2 DEF En
    <2> QED BY <1>2, <2>1, FS_EmptySet DEF Veces
  <1> QED BY <1>1, <1>2

\* EntrenadorEnUnLugar, counted with Veces, from Lugares.
LEMMA UnLugarOK ==
    IInv => EntrenadorEnUnLugar
  <1> SUFFICES ASSUME IInv, NEW e \in Entrenadores
               PROVE  Veces(colaReady, e) + Veces(colaBlocked, e) + Veces(colaExit, e)
                        + (IF EnCpu(e) THEN 1 ELSE 0) = 1
    BY DEF EntrenadorEnUnLugar
  <1>1. /\ Veces(colaReady, e) = IF e \in En(colaReady) THEN 1 ELSE 0
        /\ Veces(colaBlocked, e) = IF e \in En(colaBlocked) THEN 1 ELSE 0
        /\ Veces(colaExit, e) = IF e \in En(colaExit) THEN 1 ELSE 0
    BY VecesOK DEF IInv, TiposPlan, TipoColas, Lugares
  <1> QED BY <1>1 DEF IInv, Lugares

\* ReservaDeSuEntrenador from the protocol of the reservations, while the Team runs.
LEMMA SuReservaOK ==
    IInv /\ vivo => ReservaDeSuEntrenador
  <1> SUFFICES ASSUME IInv, vivo PROVE ReservaDeSuEntrenador
    OBVIOUS
  <1>1. \A i, j \in DOMAIN reservados : reservados[i].id = reservados[j].id => i = j
    BY DEF IInv, Protocolo, Reservas
  <1>2. ASSUME NEW e \in Entrenadores
        PROVE  /\ Veces(colaReady, e) = 1 =>
                     (ConReserva(e) <=> Estado(e) \in {"MOVERSE_A_POKEMON", "SEGUIR_MOVIENDOSE", "ATRAPAR"})
               /\ Veces(colaBlocked, e) = 1 =>
                     (ConReserva(e) <=> Estado(e) \in {"SEGUIR_MOVIENDOSE", "ATRAPAR"})
    <2>1. /\ Veces(colaReady, e) = 1 => e \in En(colaReady)
          /\ Veces(colaBlocked, e) = 1 => e \in En(colaBlocked)
      BY VecesOK DEF IInv, TiposPlan, TipoColas, Lugares
    <2>2. ConReserva(e) <=> TieneReserva(e)
      BY BuscarReservaOK DEF ConReserva, IInv, TiposPlan, TipoMapa
    <2> QED BY <2>1, <2>2 DEF IInv, Protocolo, Reservas
  <1> QED BY <1>1, <1>2 DEF ReservaDeSuEntrenador

\* The steps that can follow a pointer that is not set.
Cae == CpElige \/ MpDeadlock \/ \E e \in Entrenadores : TurnoAEntrenador(e) \/ Intercambiar(e)

\* A Team that falls does it in one of four steps, which change no state of a trainer,
\* queue or reservation: BuscarReservaOK rules out the others.
LEMMA CaidaOK ==
    ASSUME IInv, Next, ~vivo'
    PROVE  /\ Cae
           /\ UNCHANGED <<entrenador, colas, reservados, recepVars>>
  <1>1. vivo
    BY DEF Next, Corriendo
  <1>2. CASE Plan
    <2>1. CASE CortoPlazo
      <3>1. ~CpTermina /\ ~CpDevuelve
        BY <1>1 DEF CpTermina, CpDevuelve
      <3>2. CpElige
        BY <2>1, <3>1 DEF CortoPlazo
      <3>3. UNCHANGED <<entrenador, colas, reservados>>
        BY <1>1, <3>2 DEF CpElige, colas, mapa
      <3> QED BY <1>2, <3>2, <3>3 DEF Cae, Plan
    <2>2. CASE MedianoPlazo
      <3>1. ~MpActiva /\ ~MpEspera /\ ~MpRevisa /\ ~MpTodosEnExit /\ ~MpMira
        BY <1>1 DEF MpActiva, MpEspera, MpRevisa, MpTodosEnExit, MpMira
      <3>2. ~MpPokemon /\ ~MpAsigna /\ ~MpAvisa /\ ~MpOtro /\ ~MpDetecta /\ ~MpTermina
        BY <1>1 DEF MpPokemon, MpAsigna, MpAvisa, MpOtro, MpDetecta, MpTermina
      <3>3. MpDeadlock
        BY <2>2, <3>1, <3>2 DEF MedianoPlazo
      <3>4. UNCHANGED <<entrenador, colas, reservados>>
        BY <1>1, <3>3 DEF MpDeadlock, colas, mapa
      <3> QED BY <1>2, <3>3, <3>4 DEF Cae, Plan
    <2>3. ASSUME NEW e \in Entrenadores, Entrenador(e)
          PROVE  Cae /\ UNCHANGED <<entrenador, colas, reservados, recepVars>>
      <3>1. ~Mover(e) /\ ~DejarDeMover(e) /\ ~AtraparPorDefecto(e) /\ ~EsperarCaught(e)
        BY <1>1 DEF Mover, DejarDeMover, AtraparPorDefecto, EsperarCaught
      <3>2. ~LlegoCaught(e) /\ ~TerminarHilo(e)
        BY <1>1 DEF LlegoCaught, TerminarHilo
      <3>3. ASSUME TurnoAPokemon(e) \/ intentarAtraparPokemon(e) PROVE FALSE
        <4>1. /\ semEntrenador[e] > 0
              /\ Estado(e) \in {"MOVERSE_A_POKEMON", "SEGUIR_MOVIENDOSE", "ATRAPAR"}
          BY <3>3 DEF TurnoAPokemon, intentarAtraparPokemon, Turno
        <4>2. EnCpu(e) /\ semEntrenador[e] = 1
          BY <1>1, <4>1, EnTurno
        <4>3. TieneReserva(e)
          BY <1>1, <4>1, <4>2 DEF IInv, Protocolo, Reservas
        <4>4. buscarPokemonReservado(e) # 0
          BY <4>3, BuscarReservaOK DEF IInv, TiposPlan, TipoMapa
        <4> QED BY <1>1, <3>3, <4>4 DEF TurnoAPokemon, intentarAtraparPokemon
      <3>4. TurnoAEntrenador(e) \/ Intercambiar(e)
        BY <2>3, <3>1, <3>2, <3>3 DEF Entrenador
      <3>5. UNCHANGED <<entrenador, colas, reservados>>
        BY <1>1, <3>4 DEF TurnoAEntrenador, Intercambiar, mapa
      <3> QED BY <1>2, <3>4, <3>5 DEF Cae, Plan
    <2> QED BY <1>2, <2>1, <2>2, <2>3 DEF Plan, PlanNext
  <1>3. ASSUME NEW m \in Ids, Llegada(m) PROVE FALSE
    <2>1. ~procesar_msg_appeared(m) /\ ~process_msjs_gameboy(m) /\ ~procesar_msg_localized(m)
      BY <1>1 DEF procesar_msg_appeared, process_msjs_gameboy, procesar_msg_localized, Aparece, planVars
    <2>2. ~ApMapa(m) /\ ~Evaluar(m) /\ ~ApAgrega(m) /\ ~LocAvisa(m) /\ ~LocAgrega(m) /\ ~Activar(m)
      BY <1>1 DEF ApMapa, Evaluar, ApAgrega, LocAvisa, LocAgrega, Activar, planVars
    <2> QED BY <1>3, <2>1, <2>2 DEF Llegada
  <1>4. ASSUME NEW p \in Objetivo, GetEnvia(p) \/ GetAnota(p) PROVE FALSE
    BY <1>1, <1>4 DEF GetEnvia, GetAnota, planVars
  <1>5. ASSUME NEW en \in envios, Envio(en) PROVE FALSE
    BY <1>1, <1>5 DEF Envio, CatchConecta, CatchEnvia, CatchRechazado, CatchCortado, CatchSinBroker,
                        CatchAnota
  <1>6. ASSUME NEW id \in broker.pendientes, BrokerResponde(id) PROVE FALSE
    BY <1>1, <1>6 DEF BrokerResponde, planVars
  <1>7. ASSUME NEW c \in caughts, procesar_msg_caught(c) PROVE FALSE
    <2>1. ~CaBusca(c) /\ ~CaEntrenador(c)
      BY <1>1 DEF CaBusca, CaEntrenador, planVars
    <2>2. CaAplica(c) /\ c.pc = "aplica"
      BY <1>7, <2>1 DEF procesar_msg_caught, CaAplica
    <2>3. TieneReserva(c.reserva)
      BY <1>1, <2>2, EnCaughtOK DEF Falta
    <2>4. buscarPokemonReservado(c.reserva) # 0
      BY <2>3, BuscarReservaOK DEF IInv, TiposPlan, TipoMapa
    <2> QED BY <1>1, <2>2, <2>4 DEF CaAplica
  <1>8. ~BrokerCae /\ ~BrokerVuelve
    BY <1>1 DEF BrokerCae, BrokerVuelve, planVars
  <1> QED BY <1>2, <1>3, <1>4, <1>5, <1>6, <1>7, <1>8 DEF Next

\* Those steps keep ReservaDeSuEntrenador.
LEMMA TrasCaer ==
    ASSUME UNCHANGED <<entrenador, colas, reservados>>, ReservaDeSuEntrenador
    PROVE  ReservaDeSuEntrenador'
  BY DEF ReservaDeSuEntrenador, Veces, ConReserva, buscarPokemonReservado, Estado, colas

\* A trainer is in READY, BLOCKED, EXIT or the CPU, and only in one of them, once: the
\* mutexes of the queues and the turn by semaphores are enough.
THEOREM UnSoloLugar ==
    SinAjenos => (Spec => [](Mezcla \/ EntrenadorEnUnLugar))
  BY Invariante, UnLugarOK, PTL

\* A trainer in EXIT has all it wants: no exchange and no CATCH takes it back.
THEOREM SalenCompletos ==
    SinAjenos => (Spec => [](Mezcla \/ SaleCompleto))
  <1>1. IInv => SaleCompleto
    BY DEF IInv
  <1> QED BY <1>1, Invariante, PTL

\* A trainer has one reservation at most, one in READY that goes for a pokemon has it, and
\* one in BLOCKED has it only if it was interrupted on its way or was about to catch.
THEOREM CadaUnoSuReserva ==
    SinAjenos => (Spec => [](Mezcla \/ ReservaDeSuEntrenador))
  <1>1. SinAjenos /\ Init => IInv /\ vivo
    BY InitOK DEF Init, PlanInit
  <1>2. IInv /\ [Next]_vars /\ ~vivo' /\ ReservaDeSuEntrenador => ReservaDeSuEntrenador'
    <2> SUFFICES ASSUME IInv, [Next]_vars, ~vivo', ReservaDeSuEntrenador
                 PROVE  ReservaDeSuEntrenador'
      OBVIOUS
    <2>1. UNCHANGED <<entrenador, colas, reservados, recepVars>>
      BY CaidaOK DEF vars, planVars, mapa
    <2> QED BY <2>1, TrasCaer
  <1>3. IdsInv /\ [Next]_vars => IdsInv'
    BY IdsNext
  <1> QED BY <1>1, <1>2, <1>3, Invariante, SuReservaOK, IdsInit, MezclaQueda, PTL DEF Spec

\* The search of a reservation (buscarPokemonReservado) never returns NULL to a trainer
\* that moves, to one that catches or to the thread of a CAUGHT: if the Team follows a
\* pointer that is not set, it is for an empty READY, for a deadlock with nobody in it or
\* for an exchange with nobody to exchange with.
THEOREM ReservaSiempreHallada ==
    SinAjenos => (Spec => [][~Mezcla /\ ~vivo' => Cae]_vars)
  <1>1. (Mezcla \/ IInv) /\ [Next]_vars => [~Mezcla /\ ~vivo' => Cae]_vars
    BY CaidaOK
  <1> QED BY <1>1, Invariante, PTL DEF Spec
-----------------------------------------------------------------------------
(* What the trainers have. *)

ListasOK == \A e \in Entrenadores : Lista(entrenador[e].obtenidos)
MismosObtenidos == \A e \in Entrenadores : entrenador'[e].obtenidos = entrenador[e].obtenidos

\* A step that writes one trainer and not its list.
LEMMA UnoIgual ==
    ASSUME TipoEntrenador, NEW e, NEW t, entrenador' = [entrenador EXCEPT ![e] = t],
           e \in Entrenadores => t.obtenidos = entrenador[e].obtenidos
    PROVE  MismosObtenidos
  <1>1. \A x \in Entrenadores : entrenador'[x] = IF x = e THEN t ELSE entrenador[x]
    BY DEF TipoEntrenador
  <1> QED BY <1>1 DEF MismosObtenidos

\* A step that writes the state of a trainer.
LEMMA OtroEstado ==
    ASSUME TipoEntrenador, NEW e, NEW estado, entrenador' = [entrenador EXCEPT ![e].estado = estado]
    PROVE  MismosObtenidos
  <1> DEFINE t == [entrenador[e] EXCEPT !.estado = estado]
  <1>1. entrenador' = [entrenador EXCEPT ![e] = t]
    OBVIOUS
  <1>2. e \in Entrenadores => t.obtenidos = entrenador[e].obtenidos
    BY DEF TipoEntrenador, Ficha
  <1> HIDE DEF t
  <1> QED BY <1>1, <1>2, UnoIgual

\* A step that estimates a trainer.
LEMMA EstimadoIgual ==
    ASSUME TipoEntrenador, NEW e, estimar_entrenador(e)
    PROVE  MismosObtenidos
  <1> DEFINE t == Estimado(e)
  <1>1. entrenador' = [entrenador EXCEPT ![e] = t]
    BY DEF estimar_entrenador
  <1>2. ASSUME e \in Entrenadores PROVE t.obtenidos = entrenador[e].obtenidos
    BY <1>2 DEF TipoEntrenador, Ficha, Estimado
  <1> HIDE DEF t
  <1> QED BY <1>1, <1>2, UnoIgual

\* Of the planners' steps none touches what a trainer has.
LEMMA PlanificadoresIgual ==
    ASSUME IInv, vivo, CortoPlazo \/ MedianoPlazo
    PROVE  MismosObtenidos
  <1>1. TipoEntrenador
    BY DEF IInv, TiposPlan
  <1>2. CASE CortoPlazo
    <2>1. UNCHANGED entrenador
      BY <1>2 DEF CortoPlazo, CpTermina, CpElige, CpDevuelve, colas, mapa
    <2> QED BY <2>1 DEF MismosObtenidos
  <1>3. CASE MpRevisa
    <2>1. PICK e, estado : entrenador' = [entrenador EXCEPT ![e].estado = estado]
      BY <1>3 DEF MpRevisa
    <2> QED BY <1>1, <2>1, OtroEstado
  <1>4. CASE MpAsigna
    <2>1. PICK e : estimar_entrenador(e)
      BY <1>4 DEF MpAsigna
    <2> QED BY <1>1, <2>1, EstimadoIgual
  <1>5. CASE MpOtro
    <2>1. CASE Otros = {}
      BY <1>5, <2>1 DEF MpOtro, MismosObtenidos
    <2>2. CASE Otros # {}
      <3>1. PICK e : estimar_entrenador(e)
        BY <1>5, <2>2 DEF MpOtro
      <3> QED BY <1>1, <3>1, EstimadoIgual
    <2> QED BY <2>1, <2>2
  <1>6. CASE MpDeadlock
    <2>1. CASE Quieren({"DEADLOCK"}) = {}
      BY <1>6, <2>1 DEF MpDeadlock, MismosObtenidos
    <2>2. CASE Quieren({"DEADLOCK"}) # {}
      <3>1. PICK e : entrenador' = [entrenador EXCEPT ![e].estado = "MOVERSE_A_ENTRENADOR"]
        BY <1>6, <2>2 DEF MpDeadlock
      <3> QED BY <1>1, <3>1, OtroEstado
    <2> QED BY <2>1, <2>2
  <1>7. CASE MpActiva \/ MpEspera \/ MpTodosEnExit \/ MpMira \/ MpPokemon \/ MpAvisa
             \/ MpDetecta \/ MpTermina
    <2>1. UNCHANGED entrenador
      BY <1>7 DEF MpActiva, MpEspera, MpTodosEnExit, MpMira, MpPokemon, MpAvisa, MpDetecta, MpTermina
    <2> QED BY <2>1 DEF MismosObtenidos
  <1> QED BY <1>2, <1>3, <1>4, <1>5, <1>6, <1>7 DEF MedianoPlazo

\* Nor do a trainer's own, but for a capture by default and an exchange.
LEMMA EntrenadorIgual ==
    ASSUME IInv, NEW e \in Entrenadores, Entrenador(e), ~AtraparPorDefecto(e), ~Intercambiar(e)
    PROVE  MismosObtenidos
  <1>1. TipoEntrenador /\ Ficha(entrenador[e])
    BY DEF IInv, TiposPlan, TipoEntrenador
  <1>2. CASE Mover(e)
    <2> DEFINE p == moverEntrenador(Ciclo(e).posicion, hilo[e].meta)
               t == [Ciclo(e) EXCEPT !.posicion = p]
    <2>1. entrenador' = [entrenador EXCEPT ![e] = t]
      BY <1>2 DEF Mover
    <2>2. Ciclo(e).obtenidos = entrenador[e].obtenidos /\ DOMAIN Ciclo(e) = DOMAIN entrenador[e]
      BY <1>1 DEF Ciclo, Ficha
    <2> HIDE DEF p
    <2>3. t.obtenidos = entrenador[e].obtenidos
      BY <1>1, <2>2 DEF Ficha
    <2> HIDE DEF t
    <2> QED BY <1>1, <2>1, <2>3, UnoIgual
  <1>3. CASE DejarDeMover(e)
    <2> DEFINE q == IF algoritmo = "RR" THEN QUANTUM ELSE entrenador[e].quantum
               s == TrasMover(e)
               t == [entrenador[e] EXCEPT !.estado = s, !.quantum = q]
    <2> HIDE DEF s
    <2>1. entrenador' = [entrenador EXCEPT ![e] = t]
      BY <1>1, <1>3 DEF DejarDeMover, TipoEntrenador, Ficha, s
    <2>2. t.obtenidos = entrenador[e].obtenidos
      BY <1>1 DEF Ficha
    <2> HIDE DEF t
    <2> QED BY <1>1, <2>1, <2>2, UnoIgual
  <1>4. CASE EsperarCaught(e)
    <2> DEFINE t == CicloDeCatch(e)
    <2>1. entrenador' = [entrenador EXCEPT ![e] = t]
      BY <1>4 DEF EsperarCaught
    <2>2. t.obtenidos = entrenador[e].obtenidos
      BY <1>1 DEF CicloDeCatch, Ficha
    <2> HIDE DEF t
    <2> QED BY <1>1, <2>1, <2>2, UnoIgual
  <1>5. CASE TurnoAPokemon(e) \/ TurnoAEntrenador(e) \/ intentarAtraparPokemon(e)
             \/ LlegoCaught(e) \/ TerminarHilo(e)
    <2>1. UNCHANGED entrenador
      BY <1>5 DEF TurnoAPokemon, TurnoAEntrenador, intentarAtraparPokemon, LlegoCaught, TerminarHilo
    <2> QED BY <2>1 DEF MismosObtenidos
  <1> QED BY <1>2, <1>3, <1>4, <1>5 DEF Entrenador

\* A pokemon more for one trainer leaves one record per species.
LEMMA SumadoOK ==
    ASSUME ListasOK, NEW e \in Entrenadores, NEW p,
           \A x \in Entrenadores : x # e => entrenador'[x].obtenidos = entrenador[x].obtenidos,
           entrenador'[e].obtenidos = agregarPokemon(entrenador[e].obtenidos, p)
    PROVE  ListasOK'
  <1> DEFINE l == entrenador[e].obtenidos
  <1>1. PICK S : l \in Listas(S)
    BY DEF ListasOK, Lista
  <1> HIDE DEF l
  <1>2. agregarPokemon(l, p) \in Listas(S \cup {p})
    BY <1>1, AgregarOK
  <1>3. Lista(entrenador'[e].obtenidos)
    BY <1>2 DEF Lista, l
  <1> QED BY <1>3 DEF ListasOK

\* The three steps that change what a trainer has.
LEMMA ListasAtrapar ==
    ASSUME IInv, ListasOK, NEW e \in Entrenadores, AtraparPorDefecto(e)
    PROVE  ListasOK'
  <1> DEFINE i == buscarPokemonReservado(e)
             p == reservados[i].pokemon
             u == CicloDeCatch(e)
             l == agregarPokemon(u.obtenidos, p)
             t == [u EXCEPT !.estado = "RECIBIO_RESPUESTA_OK", !.obtenidos = l]
  <1>1. TipoEntrenador /\ Ficha(entrenador[e])
    BY DEF IInv, TiposPlan, TipoEntrenador
  <1>2. entrenador' = [entrenador EXCEPT ![e] = t]
    BY DEF AtraparPorDefecto
  <1>3. u.obtenidos = entrenador[e].obtenidos /\ "obtenidos" \in DOMAIN u
    BY <1>1 DEF CicloDeCatch, Ficha
  <1> HIDE DEF u
  <1>4. l = agregarPokemon(entrenador[e].obtenidos, p)
    BY <1>3
  <1> HIDE DEF p, l
  <1>5. t.obtenidos = l
    BY <1>3
  <1> HIDE DEF t
  <1>6. \A x \in Entrenadores : entrenador'[x] = IF x = e THEN t ELSE entrenador[x]
    BY <1>1, <1>2 DEF TipoEntrenador
  <1>7. /\ \A x \in Entrenadores : x # e => entrenador'[x].obtenidos = entrenador[x].obtenidos
        /\ entrenador'[e].obtenidos = agregarPokemon(entrenador[e].obtenidos, p)
    BY <1>4, <1>5, <1>6
  <1> QED BY <1>7, SumadoOK

LEMMA ListasAplica ==
    ASSUME IInv, ListasOK, NEW c, CaAplica(c)
    PROVE  ListasOK'
  <1> DEFINE e == c.para
             i == buscarPokemonReservado(c.reserva)
             p == reservados[i].pokemon
             l == agregarPokemon(entrenador[e].obtenidos, p)
  <1>1. TipoEntrenador
    BY DEF IInv, TiposPlan
  <1>2. \/ entrenador' = entrenador
        \/ entrenador' = [entrenador EXCEPT ![e].estado = "MOVERSE_A_POKEMON"]
        \/ entrenador' = [entrenador EXCEPT ![e].obtenidos = l, ![e].estado = "RECIBIO_RESPUESTA_OK"]
    BY DEF CaAplica
  <1>3. CASE entrenador' = entrenador
    BY <1>3 DEF ListasOK
  <1>4. CASE entrenador' = [entrenador EXCEPT ![e].estado = "MOVERSE_A_POKEMON"]
    <2> HIDE DEF e
    <2>1. MismosObtenidos
      BY <1>1, <1>4, OtroEstado
    <2> QED BY <2>1 DEF MismosObtenidos, ListasOK
  <1>5. CASE entrenador' = [entrenador EXCEPT ![e].obtenidos = l, ![e].estado = "RECIBIO_RESPUESTA_OK"]
    <2> DEFINE t == [entrenador[e] EXCEPT !.obtenidos = l, !.estado = "RECIBIO_RESPUESTA_OK"]
    <2> HIDE DEF e, l
    <2>1. \A x \in Entrenadores : entrenador'[x] = IF x = e THEN t ELSE entrenador[x]
      BY <1>1, <1>5 DEF TipoEntrenador, Ficha
    <2>2. e \in Entrenadores => t.obtenidos = l
      BY <1>1 DEF TipoEntrenador, Ficha
    <2> HIDE DEF t
    <2>3. CASE e \in Entrenadores
      <3>1. /\ \A x \in Entrenadores : x # e => entrenador'[x].obtenidos = entrenador[x].obtenidos
            /\ entrenador'[e].obtenidos = agregarPokemon(entrenador[e].obtenidos, p)
        BY <2>1, <2>2, <2>3 DEF l
      <3> HIDE DEF p
      <3> QED BY <2>3, <3>1, SumadoOK
    <2>4. CASE e \notin Entrenadores
      BY <2>1, <2>4 DEF ListasOK
    <2> QED BY <2>3, <2>4
  <1> QED BY <1>2, <1>3, <1>4, <1>5

LEMMA ListasIntercambiar ==
    ASSUME IInv, ListasOK, NEW e \in Entrenadores, vivo, Intercambiar(e)
    PROVE  ListasOK'
  <1> DEFINE aca == {i \in Candidatos(e) : calcularDistancia(entrenador[e].posicion,
                                              entrenador[colaBlocked[i]].posicion) = 0}
             k == CHOOSE i \in aca : \A j \in aca : j <= i
             otro == colaBlocked[k]
             listas == intercambiarNormalPokemon(entrenador[e], entrenador[otro])
             u == listas.uno
             v == listas.otro
             n == IF esSJF THEN entrenador[e].instruccion + 5 ELSE entrenador[e].instruccion
             a == IF esSJF THEN entrenador[e].actual - 5 * Escala ELSE entrenador[e].actual
  <1>1. CASE aca = {}
    <2>1. entrenador' = entrenador
      BY <1>1 DEF Intercambiar
    <2> QED BY <2>1 DEF ListasOK
  <1>2. CASE aca # {}
    <2>1. TipoEntrenador /\ colaBlocked \in Seq(Entrenadores)
      BY DEF IInv, TiposPlan, TipoColas
    <2>2. otro \in Entrenadores /\ e # otro
      <3>1. DOMAIN colaBlocked = 1 .. Len(colaBlocked) /\ Len(colaBlocked) \in Nat
        BY <2>1, LenProperties
      <3>2. aca \subseteq DOMAIN colaBlocked
        BY DEF Candidatos, Quieren
      <3>3. k \in aca
        <4>1. \E i \in aca : \A j \in aca : j <= i
          <5> HIDE DEF aca
          <5> QED BY <1>2, <3>1, <3>2, MaximoOK
        <4> HIDE DEF aca
        <4> QED BY <4>1
      <3>4. k \in DOMAIN colaBlocked
        BY <3>2, <3>3
      <3> HIDE DEF k
      <3>5. otro \in Entrenadores /\ otro \in En(colaBlocked)
        BY <2>1, <3>4, ElementOfSeq DEF En
      <3>6. e \notin En(colaBlocked)
        BY EnTurno DEF Intercambiar, Turno, IInv
      <3> QED BY <3>5, <3>6
    <2>3. entrenador' = [entrenador EXCEPT
                ![e].obtenidos = u, ![otro].obtenidos = v,
                ![e].estado = "ACABO_INTERCAMBIO", ![otro].estado = "ACABO_INTERCAMBIO",
                ![e].instruccion = IF esSJF THEN @ + 5 ELSE @,
                ![e].actual = IF esSJF THEN @ - 5 * Escala ELSE @]
      BY <1>2 DEF Intercambiar
    <2>4. Lista(u) /\ Lista(v)
      <3> HIDE DEF otro
      <3>1. Lista(entrenador[e].obtenidos) /\ Lista(entrenador[otro].obtenidos)
        BY <2>2 DEF ListasOK
      <3>2. PICK S : entrenador[e].obtenidos \in Listas(S)
        BY <3>1 DEF Lista
      <3>3. PICK T : entrenador[otro].obtenidos \in Listas(T)
        BY <3>1 DEF Lista
      <3>4. /\ entrenador[e].obtenidos \in Listas(S \cup T)
            /\ entrenador[otro].obtenidos \in Listas(S \cup T)
        BY <3>2, <3>3, DosEspecies
      <3> QED BY <3>4, IntercambioOK
    <2> HIDE DEF u, v, otro
    <2>5. /\ n \in Int /\ a \in Int
          /\ entrenador = [x \in Entrenadores |-> entrenador[x]]
          /\ Ficha(entrenador[e]) /\ Ficha(entrenador[otro])
      BY <2>1, <2>2, EntrenadorAssumption DEF TipoEntrenador, Ficha
    <2>6. entrenador' = Intercambiado(e, otro, u, v, n, a)
      BY <2>2, <2>3, <2>5 DEF Ficha, Intercambiado
    <2> HIDE DEF n, a
    <2>7. /\ \A x \in Entrenadores : x \notin {e, otro} => entrenador'[x] = entrenador[x]
          /\ entrenador'[e].obtenidos = u /\ entrenador'[otro].obtenidos = v
      BY <2>1, <2>2, <2>5, <2>6, TrasIntercambio
    <2> QED BY <2>4, <2>7 DEF ListasOK
  <1> QED BY <1>1, <1>2

LEMMA ListasNext ==
    ASSUME IInv, ListasOK, Next
    PROVE  ListasOK'
  <1>1. vivo
    BY DEF Next, Corriendo
  <1>2. MismosObtenidos => ListasOK'
    BY DEF MismosObtenidos, ListasOK
  <1>3. UNCHANGED entrenador => ListasOK'
    BY DEF ListasOK
  <1>4. CASE Plan
    <2>1. CASE CortoPlazo \/ MedianoPlazo
      BY <1>1, <1>2, <2>1, PlanificadoresIgual
    <2>2. ASSUME NEW e \in Entrenadores, Entrenador(e) PROVE ListasOK'
      <3>1. CASE AtraparPorDefecto(e)
        BY <3>1, ListasAtrapar
      <3>2. CASE Intercambiar(e)
        BY <1>1, <3>2, ListasIntercambiar
      <3>3. CASE ~AtraparPorDefecto(e) /\ ~Intercambiar(e)
        BY <1>2, <2>2, <3>3, EntrenadorIgual
      <3> QED BY <3>1, <3>2, <3>3
    <2> QED BY <1>4, <2>1, <2>2 DEF Plan, PlanNext
  <1>5. ASSUME NEW m \in Ids, Llegada(m) PROVE ListasOK'
    <2>1. CASE procesar_msg_appeared(m) \/ process_msjs_gameboy(m) \/ procesar_msg_localized(m)
      BY <1>3, <2>1 DEF procesar_msg_appeared, process_msjs_gameboy, procesar_msg_localized, Aparece, planVars
    <2>2. CASE ApMapa(m) \/ Evaluar(m) \/ ApAgrega(m) \/ LocAvisa(m) \/ LocAgrega(m) \/ Activar(m)
      BY <1>3, <2>2 DEF ApMapa, Evaluar, ApAgrega, LocAvisa, LocAgrega, Activar, planVars
    <2> QED BY <1>5, <2>1, <2>2 DEF Llegada
  <1>6. ASSUME NEW p \in Objetivo, GetEnvia(p) \/ GetAnota(p) PROVE ListasOK'
    BY <1>3, <1>6 DEF GetEnvia, GetAnota, planVars
  <1>7. ASSUME NEW en \in envios, Envio(en) PROVE ListasOK'
    BY <1>3, <1>7 DEF Envio, CatchConecta, CatchEnvia, CatchRechazado, CatchCortado, CatchSinBroker,
                        CatchAnota
  <1>8. ASSUME NEW id \in broker.pendientes, BrokerResponde(id) PROVE ListasOK'
    BY <1>3, <1>8 DEF BrokerResponde, planVars
  <1>9. ASSUME NEW c \in caughts, procesar_msg_caught(c) PROVE ListasOK'
    <2>1. CASE CaBusca(c) \/ CaEntrenador(c)
      BY <1>3, <2>1 DEF CaBusca, CaEntrenador, planVars
    <2>2. CASE CaAplica(c)
      BY <2>2, ListasAplica
    <2> QED BY <1>9, <2>1, <2>2 DEF procesar_msg_caught
  <1>10. CASE BrokerCae \/ BrokerVuelve
    BY <1>3, <1>10 DEF BrokerCae, BrokerVuelve, planVars
  <1> QED BY <1>4, <1>5, <1>6, <1>7, <1>8, <1>9, <1>10 DEF Next

\* The kinds of values of the Team; and a trainer never has two records of a species, so
\* that list_buscar, which looks at the first one, sees all it has.
THEOREM Tipos ==
    SinAjenos => (Spec => [](Mezcla \/ TypeOK))
  <1>1. Init => ListasOK
    <2> SUFFICES ASSUME Init, NEW e \in Entrenadores PROVE Lista(entrenador[e].obtenidos)
      BY DEF ListasOK
    <2>1. entrenador[e].obtenidos = extraer_pokemones_entrenadores(Obtenidos[e])
      BY DEF Init, PlanInit, iniciar_entrenador
    <2>2. extraer_pokemones_entrenadores(Obtenidos[e]) \in Listas(Especies)
      BY PlanificadoresAssumption, ExtraerOK
    <2> QED BY <2>1, <2>2 DEF Lista
  <1>2. IInv /\ ListasOK /\ [Next]_vars => ListasOK'
    <2> SUFFICES ASSUME IInv, ListasOK, [Next]_vars PROVE ListasOK'
      OBVIOUS
    <2>1. CASE Next
      BY <2>1, ListasNext
    <2>2. CASE UNCHANGED vars
      BY <2>2 DEF vars, planVars, ListasOK
    <2> QED BY <2>1, <2>2
  <1>3. IInv /\ ListasOK => TypeOK
    <2> SUFFICES ASSUME IInv, ListasOK PROVE TypeOK
      OBVIOUS
    <2>1. algoritmo \in Algoritmos /\ glob.esLAPrimeraVez \in 0 .. 2 /\ semEntrenador \in [Entrenadores -> {0, 1}]
      BY DEF IInv, TiposPlan, TipoPlanificadores, TipoGlob, TipoSem
    <2>2. \A s \in DOMAIN sem : sem[s] \in Nat
      BY DEF IInv, TiposPlan, TipoSem, Semaforos
    <2>3. mutex_idCorrelativos \in Nat /\ \A m \in Ids : mensaje[m].i \in DOMAIN Llega(m).posiciones
      BY DEF IInv, TiposRecep
    <2>4. ASSUME NEW e \in Entrenadores
          PROVE  /\ Estado(e) \in Estados
                 /\ hilo[e].pc \in {"espera", "mueve", "envia", "caught", "fin"}
                 /\ entrenador[e].quantum \in 0 .. QUANTUM
                 /\ NombresUnicos(entrenador[e].obtenidos)
      BY DEF IInv, TiposPlan, TipoEntrenador, TipoHilo, Ficha, Estado, ListasOK, Lista, Listas
    <2> QED BY <2>1, <2>2, <2>3, <2>4 DEF TypeOK
  <1>4. IdsInv /\ [Next]_vars => IdsInv'
    BY IdsNext
  <1> QED BY <1>1, <1>2, <1>3, <1>4, Invariante, IdsInit, MezclaQueda, PTL DEF Spec
-----------------------------------------------------------------------------
(* Sums along the positions of a list. *)

\* s adds up f: what it has at a position is the sum of f to there.
EsSumaParcial(s, f, n) ==
    s \in [0 .. n -> Int] /\ s[0] = 0 /\ \A i \in 1 .. n : s[i] = s[i - 1] + f[i]

\* Induction along the positions of a list.
LEMMA InductivoHasta ==
    ASSUME NEW n \in Nat, NEW T, 0 \in T, \A i \in 1 .. n : i - 1 \in T => i \in T
    PROVE  \A k \in 0 .. n : k \in T
  <1> DEFINE F == {k \in 0 .. n : k \notin T}
  <1>1. SUFFICES ASSUME F # {} PROVE FALSE
    OBVIOUS
  <1>2. F \subseteq Nat
    OBVIOUS
  <1>3. PICK k \in F : \A y \in F : k <= y
    <2> HIDE DEF F
    <2> QED BY <1>1, <1>2, MinimoOK
  <1>4. k \in 1 .. n /\ k - 1 \in 0 .. n /\ ~ (k <= k - 1)
    OBVIOUS
  <1>5. k - 1 \in T
    BY <1>3, <1>4
  <1> QED BY <1>4, <1>5

\* Every function on the positions of a list has its sums.
LEMMA HaySumaParcial ==
    ASSUME NEW n \in Nat, NEW f, \A i \in 1 .. n : f[i] \in Int
    PROVE  \E s : EsSumaParcial(s, f, n)
  <1> DEFINE g == [i \in 1 .. n |-> [x \in Int |-> x + f[i]]]
             a == 0
  <1>1. g \in [1 .. n -> [Int -> Int]] /\ a \in Int
    OBVIOUS
  <1>2. PICK s : Recorre(s, n, Int, a, g)
    <2> HIDE DEF g, a
    <2> QED BY <1>1, Recursion
  <1>3. s \in [0 .. n -> Int] /\ s[0] = 0
    BY <1>2 DEF Recorre
  <1>4. \A i \in 1 .. n : s[i] = s[i - 1] + f[i]
    <2> TAKE i \in 1 .. n
    <2>1. i - 1 \in 0 .. n
      OBVIOUS
    <2>2. s[i] = g[i][s[i - 1]] /\ s[i - 1] \in Int
      BY <1>2, <1>3, <2>1 DEF Recorre
    <2> QED BY <2>2
  <1> QED BY <1>3, <1>4 DEF EsSumaParcial

\* A function that is never above another one has a sum that is not above its sum.
LEMMA SumaMenor ==
    ASSUME NEW n \in Nat, NEW s, NEW f, EsSumaParcial(s, f, n), NEW r, NEW h, EsSumaParcial(r, h, n),
           \A i \in 1 .. n : f[i] \in Int /\ h[i] \in Int /\ f[i] <= h[i]
    PROVE  s[n] <= r[n]
  <1> DEFINE T == {k \in 0 .. n : s[k] <= r[k]}
  <1>1. 0 \in T
    BY DEF EsSumaParcial
  <1>2. ASSUME NEW i \in 1 .. n, i - 1 \in T PROVE i \in T
    <2>1. s[i] = s[i - 1] + f[i] /\ r[i] = r[i - 1] + h[i] /\ s[i - 1] <= r[i - 1]
      BY <1>2 DEF EsSumaParcial
    <2>2. i \in 0 .. n /\ s[i - 1] \in Int /\ r[i - 1] \in Int
      BY <1>2 DEF EsSumaParcial
    <2> QED BY <2>1, <2>2
  <1> HIDE DEF T
  <1>3. n \in T
    BY <1>1, <1>2, InductivoHasta
  <1> QED BY <1>3 DEF T

\* h is f with d more at k.
ConCambio(h, f, n, k, d) ==
    \A i \in 1 .. n : f[i] \in Int /\ h[i] = IF i = k THEN f[i] + d ELSE f[i]

\* A change at one position changes the sum by as much.
LEMMA SumaConCambio ==
    ASSUME NEW n \in Nat, NEW s, NEW f, EsSumaParcial(s, f, n), NEW r, NEW h, EsSumaParcial(r, h, n),
           NEW k \in 1 .. n, NEW d \in Int, ConCambio(h, f, n, k, d)
    PROVE  r[n] = s[n] + d
  <1> DEFINE T == {j \in 0 .. n : r[j] = IF k <= j THEN s[j] + d ELSE s[j]}
  <1>1. 0 \in T
    BY DEF EsSumaParcial
  <1>2. ASSUME NEW i \in 1 .. n, i - 1 \in T PROVE i \in T
    <2>1. s[i] = s[i - 1] + f[i] /\ r[i] = r[i - 1] + h[i]
      BY DEF EsSumaParcial
    <2>2. i \in 0 .. n /\ s[i - 1] \in Int /\ s[i] \in Int
      BY <1>2 DEF EsSumaParcial
    <2>3. r[i - 1] = IF k <= i - 1 THEN s[i - 1] + d ELSE s[i - 1]
      BY <1>2
    <2>4. h[i] = (IF i = k THEN f[i] + d ELSE f[i]) /\ f[i] \in Int
      BY DEF ConCambio
    <2>5. r[i] = IF k <= i THEN s[i] + d ELSE s[i]
      BY <2>1, <2>2, <2>3, <2>4
    <2> QED BY <2>2, <2>5
  <1> HIDE DEF T
  <1>3. n \in T
    BY <1>1, <1>2, InductivoHasta
  <1> QED BY <1>3 DEF T, EsSumaParcial

\* Two sums of the same are the same.
LEMMA SumaUnica ==
    ASSUME NEW n \in Nat, NEW s, NEW f, EsSumaParcial(s, f, n), NEW r, NEW h, EsSumaParcial(r, h, n),
           \A i \in 1 .. n : f[i] \in Int /\ h[i] = f[i]
    PROVE  s[n] = r[n]
  <1>1. s[n] <= r[n] /\ r[n] <= s[n]
    BY SumaMenor
  <1> QED BY <1>1 DEF EsSumaParcial
-----------------------------------------------------------------------------
(* The count of a species in a list. *)

\* With no record of a species its count is 0.
LEMMA SinRegistro ==
    ASSUME NEW l, NEW p, \A i \in DOMAIN l : l[i].pokemon # p
    PROVE  list_buscar(l, p) = 0
  BY DEF list_buscar

\* A record is found or there is none.
LEMMA Registro ==
    ASSUME NEW S, NEW l \in Listas(S), NEW p
    PROVE  \/ list_buscar(l, p) = 0 /\ \A i \in DOMAIN l : l[i].pokemon # p
           \/ \E i \in DOMAIN l : /\ l[i].pokemon = p /\ list_buscar(l, p) = l[i].cantidad
                                  /\ list_buscar(l, p) > 0
  <1>1. l \in Seq(Registros(S))
    BY DEF Listas
  <1>2. \A i \in DOMAIN l : l[i].cantidad \in Nat \ {0}
    <2>1. \A i \in DOMAIN l : l[i] \in Registros(S)
      BY <1>1, ElementosOK
    <2> QED BY <2>1 DEF Registros
  <1>3. CASE \A i \in DOMAIN l : l[i].pokemon # p
    BY <1>3, SinRegistro
  <1>4. CASE \E i \in DOMAIN l : l[i].pokemon = p
    <2>1. PICK i \in DOMAIN l : l[i].pokemon = p
      BY <1>4
    <2>2. list_buscar(l, p) = l[i].cantidad
      BY <2>1, BuscarOK
    <2> QED BY <1>2, <2>1, <2>2
  <1> QED BY <1>3, <1>4

\* Adding n to a species that is there adds n to its count and to no other.
LEMMA BuscarSumar ==
    ASSUME NEW S, NEW l \in Listas(S), NEW q, NEW n \in Int, NEW p,
           Sumar(l, q, n) \in Listas(S)
    PROVE  list_buscar(Sumar(l, q, n), p) =
               IF p = q /\ list_buscar(l, q) > 0 THEN list_buscar(l, p) + n ELSE list_buscar(l, p)
  <1> DEFINE s == Sumar(l, q, n)
  <1>1. l \in Seq(Registros(S)) /\ s \in Seq(Registros(S))
    BY DEF Listas
  <1>2. \A i \in DOMAIN l : l[i] \in Registros(S)
    BY <1>1, ElementosOK
  <1>3. /\ DOMAIN s = DOMAIN l
        /\ \A i \in DOMAIN l : s[i] = IF l[i].pokemon = q THEN [l[i] EXCEPT !.cantidad = @ + n] ELSE l[i]
    BY DEF Sumar
  <1>4. \A i \in DOMAIN l : /\ s[i].pokemon = l[i].pokemon
                            /\ s[i].cantidad = IF l[i].pokemon = q THEN l[i].cantidad + n ELSE l[i].cantidad
    BY <1>2, <1>3 DEF Registros
  <1> HIDE DEF s
  <1>5. CASE list_buscar(l, p) = 0 /\ \A i \in DOMAIN l : l[i].pokemon # p
    <2>1. list_buscar(s, p) = 0
      BY <1>3, <1>4, <1>5, SinRegistro
    <2> QED BY <1>5, <2>1 DEF s
  <1>6. ASSUME NEW i \in DOMAIN l, l[i].pokemon = p, list_buscar(l, p) = l[i].cantidad, list_buscar(l, p) > 0
        PROVE  list_buscar(s, p) = IF p = q /\ list_buscar(l, q) > 0 THEN list_buscar(l, p) + n ELSE list_buscar(l, p)
    <2>1. list_buscar(s, p) = s[i].cantidad
      <3>1. i \in DOMAIN s /\ s[i].pokemon = p /\ s \in Listas(S)
        BY <1>3, <1>4, <1>6 DEF s
      <3> QED BY <3>1, BuscarOK
    <2> QED BY <1>4, <1>6, <2>1
  <1> QED BY <1>5, <1>6, Registro DEF s

\* A list with the pokemons of one record more (agregarATodos, agregarPokemon).
ConRegistro(l, r) ==
    IF list_buscar(l, r.pokemon) > 0 THEN Sumar(l, r.pokemon, r.cantidad) ELSE Append(l, r)

\* They are added to the count of their species and to no other.
LEMMA RegistroMas ==
    ASSUME NEW S, NEW l \in Listas(S), NEW r \in Registros(S), NEW p
    PROVE  /\ ConRegistro(l, r) \in Listas(S)
           /\ list_buscar(ConRegistro(l, r), p) =
                 IF p = r.pokemon THEN list_buscar(l, p) + r.cantidad ELSE list_buscar(l, p)
  <1> DEFINE q == r.pokemon
             n == r.cantidad
  <1>1. l \in Seq(Registros(S)) /\ NombresUnicos(l)
    BY DEF Listas
  <1>2. \A i \in DOMAIN l : l[i] \in Registros(S)
    BY <1>1, ElementosOK
  <1>3. list_buscar(l, q) \in Nat /\ list_buscar(l, p) \in Nat /\ n \in Nat \ {0}
    BY BuscarOK DEF Registros
  <1> HIDE DEF q, n
  <1>4. CASE list_buscar(l, q) > 0
    <2>1. \A i \in DOMAIN l : l[i].pokemon = q => l[i].cantidad + n > 0
      BY <1>2, <1>3 DEF Registros
    <2>2. Sumar(l, q, n) \in Listas(S)
      BY <1>3, <2>1, SumarOK
    <2>3. list_buscar(Sumar(l, q, n), p) =
               IF p = q /\ list_buscar(l, q) > 0 THEN list_buscar(l, p) + n ELSE list_buscar(l, p)
      BY <1>3, <2>2, BuscarSumar
    <2> QED BY <1>4, <2>2, <2>3 DEF ConRegistro, q, n
  <1>5. CASE ~(list_buscar(l, q) > 0)
    <2> DEFINE s == Append(l, r)
    <2>1. ConRegistro(l, r) = s
      BY <1>5 DEF ConRegistro, q
    <2>2. /\ s \in Seq(Registros(S)) /\ Len(s) = Len(l) + 1 /\ s[Len(l) + 1] = r
          /\ \A i \in 1 .. Len(l) : s[i] = l[i]
      BY <1>1, AppendProperties
    <2>3. DOMAIN s = 1 .. Len(l) + 1 /\ DOMAIN l = 1 .. Len(l) /\ Len(l) \in Nat
      BY <1>1, <2>2, LenProperties
    <2> HIDE DEF s
    <2>4. \A i \in DOMAIN l : l[i].pokemon # q
      BY <1>3, <1>5, BuscarOK
    <2>5. NombresUnicos(s)
      BY <1>1, <2>2, <2>3, <2>4 DEF NombresUnicos, q
    <2>6. s \in Listas(S)
      BY <2>2, <2>5 DEF Listas
    <2>7. CASE p = q
      <3>1. list_buscar(s, p) = n
        <4>1. Len(l) + 1 \in DOMAIN s /\ s[Len(l) + 1].pokemon = p /\ s[Len(l) + 1].cantidad = n
          BY <2>2, <2>3, <2>7 DEF q, n
        <4> QED BY <2>6, <4>1, BuscarOK
      <3>2. list_buscar(l, p) = 0
        BY <1>3, <1>5, <2>7
      <3> QED BY <1>3, <2>1, <2>6, <2>7, <3>1, <3>2 DEF q, n
    <2>8. CASE p # q
      <3>1. CASE list_buscar(l, p) = 0 /\ \A i \in DOMAIN l : l[i].pokemon # p
        <4>1. \A i \in DOMAIN s : s[i].pokemon # p
          BY <2>2, <2>3, <2>8, <3>1 DEF q
        <4> QED BY <2>1, <2>6, <2>8, <3>1, <4>1, SinRegistro DEF q
      <3>2. ASSUME NEW i \in DOMAIN l, l[i].pokemon = p, list_buscar(l, p) = l[i].cantidad
            PROVE  list_buscar(s, p) = list_buscar(l, p)
        <4>1. i \in DOMAIN s /\ s[i] = l[i]
          BY <2>2, <2>3
        <4> QED BY <2>6, <3>2, <4>1, BuscarOK
      <3>3. list_buscar(s, p) = list_buscar(l, p)
        BY <2>1, <2>8, <3>1, <3>2, Registro DEF q
      <3> QED BY <2>1, <2>6, <2>8, <3>3 DEF q
    <2> QED BY <2>7, <2>8
  <1> QED BY <1>4, <1>5

\* agregarPokemon adds one to the count of its species and to no other.
LEMMA BuscarAgregar ==
    ASSUME NEW S, NEW l \in Listas(S), NEW q, NEW p
    PROVE  list_buscar(agregarPokemon(l, q), p) = IF p = q THEN list_buscar(l, p) + 1 ELSE list_buscar(l, p)
  <1> DEFINE r == Especie(q, 1)
             T == S \cup {q}
  <1>1. l \in Listas(T)
    BY MasEspecies
  <1>2. r \in Registros(T) /\ r.pokemon = q /\ r.cantidad = 1
    BY DEF Especie, Registros
  <1>3. agregarPokemon(l, q) = ConRegistro(l, r)
    BY DEF agregarPokemon, ConRegistro, Especie
  <1> HIDE DEF r, T
  <1>4. list_buscar(ConRegistro(l, r), p) =
            IF p = r.pokemon THEN list_buscar(l, p) + r.cantidad ELSE list_buscar(l, p)
    BY <1>1, <1>2, RegistroMas
  <1> QED BY <1>2, <1>3, <1>4

\* quitarPokemon takes one from the count of its species, if it is there, and from no other.
LEMMA BuscarQuitar ==
    ASSUME NEW S, NEW l \in Listas(S), NEW q, NEW p
    PROVE  list_buscar(quitarPokemon(l, q), p) =
               IF p = q /\ list_buscar(l, q) > 0 THEN list_buscar(l, p) - 1 ELSE list_buscar(l, p)
  <1>1. l \in Seq(Registros(S))
    BY DEF Listas
  <1>2. DOMAIN l = 1 .. Len(l) /\ Len(l) \in Nat /\ \A i \in DOMAIN l : l[i] \in Registros(S)
    BY <1>1, ElementosOK
  <1>3. list_buscar(l, q) \in Nat /\ list_buscar(l, p) \in Nat
    BY BuscarOK
  <1>4. CASE list_buscar(l, q) > 1
    <2>1. \A i \in DOMAIN l : l[i].pokemon = q => l[i].cantidad + (-1) > 0
      BY <1>2, <1>4, BuscarOK DEF Registros
    <2>2. Sumar(l, q, -1) \in Listas(S)
      BY <2>1, SumarOK
    <2>3. list_buscar(Sumar(l, q, -1), p) =
               IF p = q /\ list_buscar(l, q) > 0 THEN list_buscar(l, p) + (-1) ELSE list_buscar(l, p)
      BY <2>2, BuscarSumar
    <2>4. quitarPokemon(l, q) = Sumar(l, q, -1)
      BY <1>3, <1>4 DEF quitarPokemon
    <2> QED BY <1>3, <1>4, <2>3, <2>4
  <1>5. CASE list_buscar(l, q) = 1
    <2> DEFINE k == CHOOSE i \in DOMAIN l : l[i].pokemon = q
               s == SinPosicion(l, k)
    <2>1. \E i \in DOMAIN l : l[i].pokemon = q
      BY <1>5, Registro
    <2>2. k \in DOMAIN l /\ l[k].pokemon = q
      BY <2>1
    <2>3. quitarPokemon(l, q) = s
      BY <1>5 DEF quitarPokemon
    <2> HIDE DEF k
    <2>4. /\ s \in Seq(Registros(S)) /\ Len(s) = Len(l) - 1
          /\ \A j \in 1 .. Len(l) - 1 : s[j] = IF j < k THEN l[j] ELSE l[j + 1]
      BY <1>1, <2>2, SinPosicionOK
    <2>5. s \in Listas(S)
      BY <2>3, QuitarOK
    <2> HIDE DEF s
    <2>6. DOMAIN s = 1 .. Len(l) - 1
      BY <2>4, LenProperties
    <2>7. \A i \in DOMAIN l : l[i].pokemon = q => i = k
      BY <2>2 DEF Listas, NombresUnicos
    <2>8. CASE p = q
      <3>1. \A j \in DOMAIN s : s[j].pokemon # p
        <4> TAKE j \in DOMAIN s
        <4> DEFINE v == IF j < k THEN j ELSE j + 1
        <4>1. v \in DOMAIN l /\ s[j] = l[v] /\ v # k
          BY <1>2, <2>2, <2>4, <2>6
        <4> HIDE DEF v
        <4> QED BY <2>7, <2>8, <4>1
      <3>2. list_buscar(s, p) = 0
        BY <3>1, SinRegistro
      <3> QED BY <1>5, <2>3, <2>8, <3>2
    <2>9. CASE p # q
      <3>1. CASE list_buscar(l, p) = 0 /\ \A i \in DOMAIN l : l[i].pokemon # p
        <4>1. \A j \in DOMAIN s : s[j].pokemon # p
          <5> TAKE j \in DOMAIN s
          <5> DEFINE v == IF j < k THEN j ELSE j + 1
          <5>1. v \in DOMAIN l /\ s[j] = l[v]
            BY <1>2, <2>2, <2>4, <2>6
          <5> HIDE DEF v
          <5> QED BY <3>1, <5>1
        <4>2. list_buscar(s, p) = 0
          BY <4>1, SinRegistro
        <4> QED BY <2>3, <2>9, <3>1, <4>2
      <3>2. ASSUME NEW i \in DOMAIN l, l[i].pokemon = p, list_buscar(l, p) = l[i].cantidad
            PROVE  list_buscar(s, p) = list_buscar(l, p)
        <4> DEFINE j == IF i < k THEN i ELSE i - 1
        <4>1. i # k
          BY <2>2, <2>9, <3>2
        <4>2. j \in DOMAIN s /\ s[j] = l[i]
          BY <1>2, <2>2, <2>4, <2>6, <4>1
        <4> HIDE DEF j
        <4> QED BY <2>5, <3>2, <4>2, BuscarOK
      <3> QED BY <2>3, <2>9, <3>1, <3>2, Registro
    <2> QED BY <2>8, <2>9
  <1>6. CASE list_buscar(l, q) = 0
    BY <1>6 DEF quitarPokemon
  <1> QED BY <1>3, <1>4, <1>5, <1>6
-----------------------------------------------------------------------------
(* How many pokemons a list has. *)

\* What a recursive sum of the code computes.
LEMMA SumaRecursiva ==
    ASSUME NEW n \in Nat, NEW f, \A i \in 1 .. n : f[i] \in Int,
           NEW h, h = [i \in 0 .. n |-> IF i = 0 THEN 0 ELSE h[i - 1] + f[i]]
    PROVE  EsSumaParcial(h, f, n)
  <1> DEFINE T == {k \in 0 .. n : h[k] \in Int}
  <1>1. h[0] = 0 /\ \A i \in 1 .. n : h[i] = h[i - 1] + f[i]
    OBVIOUS
  <1>2. 0 \in T /\ \A i \in 1 .. n : i - 1 \in T => i \in T
    BY <1>1
  <1>3. \A k \in 0 .. n : k \in T
    <2> HIDE DEF T
    <2> QED BY <1>2, InductivoHasta
  <1>4. h \in [0 .. n -> Int]
    BY <1>3
  <1> QED BY <1>1, <1>4 DEF EsSumaParcial

LEMMA RecursivaDeSuma ==
    ASSUME NEW n \in Nat, NEW f, NEW s, EsSumaParcial(s, f, n)
    PROVE  s = [i \in 0 .. n |-> IF i = 0 THEN 0 ELSE s[i - 1] + f[i]]
  BY DEF EsSumaParcial

Cantidades(l) == [i \in 1 .. Len(l) |-> l[i].cantidad]

LEMMA CantidadesOK ==
    ASSUME NEW S, NEW l \in Listas(S)
    PROVE  /\ Len(l) \in Nat /\ DOMAIN l = 1 .. Len(l)
           /\ \A i \in 1 .. Len(l) : /\ Cantidades(l)[i] = l[i].cantidad
                                     /\ Cantidades(l)[i] \in Int /\ l[i].cantidad > 0
                                     /\ l[i].pokemon \in S
  <1>1. l \in Seq(Registros(S))
    BY DEF Listas
  <1>2. DOMAIN l = 1 .. Len(l) /\ Len(l) \in Nat /\ \A i \in DOMAIN l : l[i] \in Registros(S)
    BY <1>1, ElementosOK
  <1> QED BY <1>2 DEF Cantidades, Registros

\* cantidadDePokemonesEnLista adds up the counts of the records.
LEMMA TotalOK ==
    ASSUME NEW S, NEW l \in Listas(S)
    PROVE  \E s : EsSumaParcial(s, Cantidades(l), Len(l)) /\ cantidadDePokemonesEnLista(l) = s[Len(l)]
  <1> DEFINE n == Len(l)
             f == Cantidades(l)
             hasta[i \in 0 .. Len(l)] == IF i = 0 THEN 0 ELSE hasta[i - 1] + l[i].cantidad
  <1>1. n \in Nat /\ \A i \in 1 .. n : f[i] \in Int /\ f[i] = l[i].cantidad
    BY CantidadesOK
  <1> HIDE DEF f, n
  <1>2. PICK s : EsSumaParcial(s, f, n)
    BY <1>1, HaySumaParcial
  <1>3. s = [i \in 0 .. n |-> IF i = 0 THEN 0 ELSE s[i - 1] + f[i]]
    BY <1>1, <1>2, RecursivaDeSuma
  <1>4. s = [i \in 0 .. n |-> IF i = 0 THEN 0 ELSE s[i - 1] + l[i].cantidad]
    BY <1>1, <1>3
  <1>5. hasta = [i \in 0 .. n |-> IF i = 0 THEN 0 ELSE hasta[i - 1] + l[i].cantidad]
    BY <1>4 DEF n
  <1>6. cantidadDePokemonesEnLista(l) = hasta[n]
    BY DEF cantidadDePokemonesEnLista, n
  <1> HIDE DEF hasta
  <1>7. hasta = [i \in 0 .. n |-> IF i = 0 THEN 0 ELSE hasta[i - 1] + f[i]]
    BY <1>1, <1>5
  <1>8. EsSumaParcial(hasta, f, n)
    BY <1>1, <1>7, SumaRecursiva
  <1> QED BY <1>6, <1>8 DEF f, n

\* agregarPokemon adds one to the total.
LEMMA TotalAgregar ==
    ASSUME NEW S, NEW l \in Listas(S), NEW q
    PROVE  cantidadDePokemonesEnLista(agregarPokemon(l, q)) = cantidadDePokemonesEnLista(l) + 1
  <1> DEFINE a == agregarPokemon(l, q)
             T == S \cup {q}
             n == Len(l)
  <1>1. a \in Listas(T)
    BY AgregarOK
  <1>2. PICK s : EsSumaParcial(s, Cantidades(l), n) /\ cantidadDePokemonesEnLista(l) = s[n]
    BY TotalOK
  <1>3. PICK r : EsSumaParcial(r, Cantidades(a), Len(a)) /\ cantidadDePokemonesEnLista(a) = r[Len(a)]
    BY <1>1, TotalOK
  <1>4. /\ n \in Nat /\ DOMAIN l = 1 .. n
        /\ \A i \in 1 .. n : /\ Cantidades(l)[i] = l[i].cantidad
                             /\ Cantidades(l)[i] \in Int
    BY CantidadesOK
  <1>5. /\ Len(a) \in Nat /\ DOMAIN a = 1 .. Len(a)
        /\ \A i \in 1 .. Len(a) : /\ Cantidades(a)[i] = a[i].cantidad
                                  /\ Cantidades(a)[i] \in Int
    BY <1>1, CantidadesOK
  <1>6. CASE list_buscar(l, q) > 0
    <2>1. PICK k \in DOMAIN l : l[k].pokemon = q
      BY <1>6, Registro
    <2>2. \A i \in DOMAIN l : l[i].pokemon = q <=> i = k
      BY <2>1 DEF Listas, NombresUnicos
    <2>3. a = Sumar(l, q, 1)
      BY <1>6 DEF agregarPokemon
    <2> HIDE DEF a
    <2>4. /\ DOMAIN a = DOMAIN l
          /\ \A i \in DOMAIN l : a[i] = IF l[i].pokemon = q THEN [l[i] EXCEPT !.cantidad = @ + 1] ELSE l[i]
      BY <2>3 DEF Sumar
    <2>5. Len(a) = n
      <3>1. a = [i \in 1 .. n |-> IF l[i].pokemon = q THEN [l[i] EXCEPT !.cantidad = @ + 1] ELSE l[i]]
        BY <1>4, <2>3 DEF Sumar
      <3> QED BY <1>4, <3>1
    <2>6. \A i \in DOMAIN l : l[i] \in Registros(S)
      BY ElementosOK DEF Listas
    <2>7. \A i \in 1 .. n : a[i].cantidad = IF i = k THEN l[i].cantidad + 1 ELSE l[i].cantidad
      BY <1>4, <2>2, <2>4, <2>6 DEF Registros
    <2> DEFINE f == Cantidades(l)
               h == Cantidades(a)
    <2>8. \A i \in 1 .. n : f[i] \in Int /\ h[i] = IF i = k THEN f[i] + 1 ELSE f[i]
      BY <1>4, <1>5, <2>5, <2>7
    <2>9. EsSumaParcial(s, f, n) /\ EsSumaParcial(r, h, n) /\ k \in 1 .. n
      BY <1>2, <1>3, <1>4, <2>1, <2>5
    <2> HIDE DEF f, h
    <2>10. r[n] = s[n] + 1
      <3> DEFINE d == 1
      <3>1. d \in Int /\ ConCambio(h, f, n, k, d)
        BY <2>8 DEF ConCambio
      <3> HIDE DEF d
      <3>3. r[n] = s[n] + d
        BY <1>4, <2>9, <3>1, SumaConCambio
      <3> QED BY <3>3 DEF d
    <2> QED BY <1>2, <1>3, <2>5, <2>10 DEF a
  <1>7. CASE ~(list_buscar(l, q) > 0)
    <2>1. a = Append(l, Especie(q, 1))
      BY <1>7 DEF agregarPokemon
    <2>2. l \in Seq(Registros(T)) /\ Especie(q, 1) \in Registros(T) /\ Especie(q, 1).cantidad = 1
      <3>1. l \in Listas(T)
        BY MasEspecies
      <3> QED BY <3>1 DEF Listas, Especie, Registros
    <2> HIDE DEF a, T
    <2>3. /\ Len(a) = n + 1 /\ a[n + 1].cantidad = 1
          /\ \A i \in 1 .. n : a[i] = l[i]
      BY <2>1, <2>2, AppendProperties
    <2> DEFINE f == Cantidades(l)
               h == Cantidades(a)
               t == [i \in 0 .. n |-> r[i]]
    <2>4. \A i \in 1 .. n : f[i] \in Int /\ h[i] = f[i]
      BY <1>4, <1>5, <2>3
    <2>5. h[n + 1] = 1
      BY <1>4, <1>5, <2>3
    <2>6. EsSumaParcial(r, h, n + 1) /\ EsSumaParcial(s, f, n)
      BY <1>2, <1>3, <2>3
    <2> HIDE DEF f, h
    <2>7. EsSumaParcial(t, h, n)
      <3>1. t \in [0 .. n -> Int] /\ t[0] = 0
        BY <1>4, <2>6 DEF EsSumaParcial
      <3>2. ASSUME NEW i \in 1 .. n PROVE t[i] = t[i - 1] + h[i]
        <4>1. i \in 1 .. n + 1 /\ i - 1 \in 0 .. n /\ i \in 0 .. n
          BY <1>4
        <4> QED BY <2>6, <4>1 DEF EsSumaParcial
      <3> HIDE DEF t
      <3> QED BY <3>1, <3>2 DEF EsSumaParcial
    <2>8. t[n] = r[n] /\ r[n + 1] = r[n] + 1
      <3>1. n \in 0 .. n /\ n + 1 \in 1 .. n + 1 /\ (n + 1) - 1 = n
        BY <1>4
      <3> QED BY <2>5, <2>6, <3>1 DEF EsSumaParcial
    <2> HIDE DEF t
    <2>9. s[n] = t[n]
      BY <1>4, <2>4, <2>6, <2>7, SumaUnica
    <2> QED BY <1>2, <1>3, <2>3, <2>8, <2>9 DEF a
  <1> QED BY <1>6, <1>7

\* What list o has of the species at the first k positions of list l.
Comunes(o, l, k) ==
    [j \in 1 .. Len(o) |-> IF \E i \in 1 .. k : l[i].pokemon = o[j].pokemon THEN o[j].cantidad ELSE 0]

\* One position more counts the record of its species, which no position before it has.
LEMMA ComunMas ==
    ASSUME NEW S, NEW l \in Listas(S), NEW T, NEW o \in Listas(T), NEW k \in 1 .. Len(l),
           NEW j \in 1 .. Len(o), o[j].pokemon = l[k].pokemon
    PROVE  ConCambio(Comunes(o, l, k), Comunes(o, l, k - 1), Len(o), j, o[j].cantidad)
  <1>1. /\ Len(l) \in Nat /\ DOMAIN l = 1 .. Len(l)
        /\ Len(o) \in Nat /\ DOMAIN o = 1 .. Len(o)
    BY CantidadesOK
  <1>2. \A x \in 1 .. Len(o) : o[x].cantidad \in Int
    <2>1. \A x \in 1 .. Len(o) : Cantidades(o)[x] = o[x].cantidad /\ Cantidades(o)[x] \in Int
      BY CantidadesOK
    <2> QED BY <2>1
  <1>3. \A x, y \in 1 .. Len(l) : l[x].pokemon = l[y].pokemon => x = y
    BY <1>1 DEF Listas, NombresUnicos
  <1>4. \A x, y \in 1 .. Len(o) : o[x].pokemon = o[y].pokemon => x = y
    BY <1>1 DEF Listas, NombresUnicos
  <1> SUFFICES ASSUME NEW x \in 1 .. Len(o)
               PROVE  /\ Comunes(o, l, k - 1)[x] \in Int
                      /\ Comunes(o, l, k)[x] =
                            IF x = j THEN Comunes(o, l, k - 1)[x] + o[j].cantidad
                            ELSE Comunes(o, l, k - 1)[x]
    BY DEF ConCambio
  <1>5. k \in Int /\ \A i \in 1 .. k : i \in 1 .. Len(l) /\ (i = k \/ i \in 1 .. k - 1)
    BY <1>1
  <1>6. \A i \in 1 .. k - 1 : i \in 1 .. Len(l) /\ i \in 1 .. k /\ i # k
    BY <1>1
  <1>7. k \in 1 .. k
    BY <1>1
  <1>8. CASE x = j
    <2>1. \A i \in 1 .. k - 1 : l[i].pokemon # o[x].pokemon
      BY <1>3, <1>6, <1>8
    <2>2. Comunes(o, l, k - 1)[x] = 0
      BY <2>1 DEF Comunes
    <2>3. Comunes(o, l, k)[x] = o[x].cantidad
      BY <1>7, <1>8 DEF Comunes
    <2> QED BY <1>2, <1>8, <2>2, <2>3
  <1>9. CASE x # j
    <2>1. l[k].pokemon # o[x].pokemon
      BY <1>4, <1>9
    <2>2. (\E i \in 1 .. k : l[i].pokemon = o[x].pokemon)
             <=> \E i \in 1 .. k - 1 : l[i].pokemon = o[x].pokemon
      BY <1>5, <1>6, <2>1
    <2>3. Comunes(o, l, k)[x] = Comunes(o, l, k - 1)[x]
      BY <2>2 DEF Comunes
    <2>4. Comunes(o, l, k - 1)[x] \in Int
      BY <1>2 DEF Comunes
    <2> QED BY <1>9, <2>3, <2>4
  <1> QED BY <1>8, <1>9

\* The sum of what is never negative is not.
LEMMA SumaPositiva ==
    ASSUME NEW n \in Nat, NEW s, NEW f, EsSumaParcial(s, f, n), \A i \in 1 .. n : f[i] \in Nat
    PROVE  s[n] \in Nat
  <1> DEFINE T == {k \in 0 .. n : s[k] >= 0}
  <1>1. 0 \in T
    BY DEF EsSumaParcial
  <1>2. ASSUME NEW i \in 1 .. n, i - 1 \in T PROVE i \in T
    <2>1. s[i] = s[i - 1] + f[i] /\ s[i - 1] >= 0 /\ f[i] \in Nat
      BY <1>2 DEF EsSumaParcial
    <2>2. i \in 0 .. n /\ s[i - 1] \in Int
      BY <1>2 DEF EsSumaParcial
    <2> QED BY <2>1, <2>2
  <1> HIDE DEF T
  <1>3. n \in T
    BY <1>1, <1>2, InductivoHasta
  <1> QED BY <1>3 DEF T, EsSumaParcial

\* A list with no more of any species than another one has no more pokemons.
LEMMA Palomar ==
    ASSUME NEW S, NEW l \in Listas(S), NEW T, NEW o \in Listas(T),
           \A i \in DOMAIN l : l[i].cantidad <= list_buscar(o, l[i].pokemon)
    PROVE  cantidadDePokemonesEnLista(l) <= cantidadDePokemonesEnLista(o)
  <1> DEFINE n == Len(l)
             m == Len(o)
             c == Cantidades(o)
  <1>1. PICK s : EsSumaParcial(s, Cantidades(l), n) /\ cantidadDePokemonesEnLista(l) = s[n]
    BY TotalOK
  <1>2. PICK t : EsSumaParcial(t, c, m) /\ cantidadDePokemonesEnLista(o) = t[m]
    BY TotalOK
  <1>3. /\ n \in Nat /\ DOMAIN l = 1 .. n
        /\ \A i \in 1 .. n : /\ Cantidades(l)[i] = l[i].cantidad /\ Cantidades(l)[i] \in Int
                             /\ l[i].cantidad > 0
    BY CantidadesOK
  <1>4. /\ m \in Nat /\ DOMAIN o = 1 .. m
        /\ \A i \in 1 .. m : c[i] = o[i].cantidad /\ c[i] \in Int /\ o[i].cantidad > 0
    BY CantidadesOK
  <1>5. \A k \in 0 .. n : \A j \in 1 .. m : Comunes(o, l, k)[j] \in {0, c[j]}
    BY <1>4 DEF Comunes
  <1>6. \A k \in 0 .. n : \A j \in 1 .. m : /\ Comunes(o, l, k)[j] \in Nat
                                            /\ Comunes(o, l, k)[j] \in Int
                                            /\ Comunes(o, l, k)[j] <= c[j]
    BY <1>4, <1>5
  <1> DEFINE D == {k \in 0 .. n : \E r : EsSumaParcial(r, Comunes(o, l, k), m) /\ s[k] <= r[m]}
  <1>7. 0 \in D
    <2> DEFINE f == Comunes(o, l, 0)
    <2>1. 0 \in 0 .. n /\ \A j \in 1 .. m : f[j] \in Nat /\ f[j] \in Int
      BY <1>3, <1>6
    <2> HIDE DEF f
    <2>2. PICK r : EsSumaParcial(r, f, m)
      BY <1>4, <2>1, HaySumaParcial
    <2>3. r[m] \in Nat
      BY <1>4, <2>1, <2>2, SumaPositiva
    <2>4. s[0] = 0
      BY <1>1 DEF EsSumaParcial
    <2>5. s[0] <= r[m]
      BY <2>3, <2>4
    <2> QED BY <2>1, <2>2, <2>5 DEF f
  <1>8. ASSUME NEW k \in 1 .. n, k - 1 \in D PROVE k \in D
    <2> DEFINE f == Comunes(o, l, k - 1)
               h == Comunes(o, l, k)
    <2>1. k \in 0 .. n /\ k - 1 \in 0 .. n /\ k \in DOMAIN l
      BY <1>3
    <2>2. l[k].cantidad <= list_buscar(o, l[k].pokemon) /\ l[k].cantidad > 0 /\ l[k].cantidad \in Int
      BY <1>3, <2>1
    <2>3. list_buscar(o, l[k].pokemon) \in Nat
      BY BuscarOK
    <2>4. PICK j \in DOMAIN o : o[j].pokemon = l[k].pokemon /\ list_buscar(o, l[k].pokemon) = o[j].cantidad
      BY <2>2, <2>3, Registro
    <2> DEFINE d == o[j].cantidad
    <2>5. j \in 1 .. m /\ d \in Int /\ l[k].cantidad <= d
      BY <1>4, <2>2, <2>4
    <2>6. ConCambio(h, f, m, j, d)
      BY <2>4, <2>5, ComunMas
    <2>7. PICK r : EsSumaParcial(r, f, m) /\ s[k - 1] <= r[m]
      BY <1>8
    <2>8. \A i \in 1 .. m : h[i] \in Int
      BY <1>6, <2>1
    <2> HIDE DEF f, h, d
    <2>9. PICK u : EsSumaParcial(u, h, m)
      BY <1>4, <2>8, HaySumaParcial
    <2>10. u[m] = r[m] + d
      BY <1>4, <2>5, <2>6, <2>7, <2>9, SumaConCambio
    <2>11. s[k] = s[k - 1] + l[k].cantidad /\ s[k - 1] \in Int
      BY <1>1, <1>3, <2>1 DEF EsSumaParcial
    <2>12. r[m] \in Int
      BY <1>4, <2>7 DEF EsSumaParcial
    <2>13. s[k] <= u[m]
      BY <2>2, <2>5, <2>7, <2>10, <2>11, <2>12
    <2> QED BY <2>1, <2>9, <2>13 DEF h
  <1> HIDE DEF D
  <1>9. n \in D
    <2>1. n \in Nat /\ 0 \in D /\ \A k \in 1 .. n : k - 1 \in D => k \in D
      BY <1>3, <1>7, <1>8
    <2> HIDE DEF n
    <2>2. \A k \in 0 .. n : k \in D
      BY <2>1, InductivoHasta
    <2> QED BY <2>1, <2>2
  <1>10. PICK r : EsSumaParcial(r, Comunes(o, l, n), m) /\ s[n] <= r[m]
    BY <1>9 DEF D
  <1> DEFINE f == Comunes(o, l, n)
  <1>11. \A i \in 1 .. m : f[i] \in Int /\ c[i] \in Int /\ f[i] <= c[i]
    BY <1>3, <1>4, <1>6
  <1> HIDE DEF f, c
  <1>12. EsSumaParcial(r, f, m) /\ EsSumaParcial(t, c, m)
    BY <1>2, <1>10 DEF f
  <1>13. r[m] <= t[m]
    BY <1>4, <1>11, <1>12, SumaMenor
  <1>14. s[n] \in Int /\ r[m] \in Int /\ t[m] \in Int
    BY <1>1, <1>3, <1>4, <1>12 DEF EsSumaParcial
  <1> QED BY <1>1, <1>2, <1>10, <1>13, <1>14
-----------------------------------------------------------------------------
(* An exchange conserves the pokemons. *)

\* One that got something more, when it had as many as it wants, has one too many of some
\* species: were it not so, it would have more than it wants with no more of any.
LEMMA HaySobrante ==
    ASSUME NEW S, NEW a \in Listas(S), NEW obj \in Listas(S), NEW tiene \in Listas(S), NEW q,
           cantidadDePokemonesEnLista(a) = cantidadDePokemonesEnLista(obj),
           \A p : list_buscar(a, p) <= list_buscar(tiene, p),
           list_buscar(a, q) < list_buscar(tiene, q)
    PROVE  Sobrantes(tiene, obj) # {}
  <1> DEFINE b == agregarPokemon(a, q)
             T == S \cup {q}
  <1> SUFFICES ASSUME Sobrantes(tiene, obj) = {} PROVE FALSE
    OBVIOUS
  <1>1. \A i \in DOMAIN tiene : ~ (tiene[i].cantidad > list_buscar(obj, tiene[i].pokemon))
    BY DEF Sobrantes
  <1>2. ASSUME NEW p PROVE list_buscar(tiene, p) <= list_buscar(obj, p)
    <2>1. list_buscar(tiene, p) \in Nat /\ list_buscar(obj, p) \in Nat
      BY BuscarOK
    <2>2. \A i \in DOMAIN tiene : tiene[i].cantidad \in Nat
      BY CantidadesOK
    <2>3. CASE list_buscar(tiene, p) = 0
      BY <2>1, <2>3
    <2>4. ASSUME NEW i \in DOMAIN tiene, tiene[i].pokemon = p, list_buscar(tiene, p) = tiene[i].cantidad
          PROVE  list_buscar(tiene, p) <= list_buscar(obj, p)
      BY <1>1, <2>1, <2>2, <2>4
    <2> QED BY <2>3, <2>4, Registro
  <1>3. b \in Listas(T)
    BY AgregarOK
  <1>4. ASSUME NEW i \in DOMAIN b PROVE b[i].cantidad <= list_buscar(obj, b[i].pokemon)
    <2> DEFINE p == b[i].pokemon
    <2>1. b[i].cantidad = list_buscar(b, p)
      BY <1>3, BuscarOK
    <2>2. /\ list_buscar(a, p) \in Nat /\ list_buscar(a, q) \in Nat
          /\ list_buscar(tiene, p) \in Nat /\ list_buscar(obj, p) \in Nat
          /\ list_buscar(tiene, q) \in Nat
      BY BuscarOK
    <2>3. list_buscar(b, p) = IF p = q THEN list_buscar(a, p) + 1 ELSE list_buscar(a, p)
      BY BuscarAgregar
    <2>4. list_buscar(a, p) <= list_buscar(tiene, p) /\ list_buscar(tiene, p) <= list_buscar(obj, p)
      BY <1>2
    <2> HIDE DEF b
    <2> QED BY <2>1, <2>2, <2>3, <2>4
  <1>5. cantidadDePokemonesEnLista(b) = cantidadDePokemonesEnLista(a) + 1
    BY TotalAgregar
  <1>6. cantidadDePokemonesEnLista(a) \in Int
    <2>1. PICK s : EsSumaParcial(s, Cantidades(a), Len(a)) /\ cantidadDePokemonesEnLista(a) = s[Len(a)]
      BY TotalOK
    <2>2. Len(a) \in Nat
      BY CantidadesOK
    <2> QED BY <2>1, <2>2 DEF EsSumaParcial
  <1> HIDE DEF b, T
  <1>7. cantidadDePokemonesEnLista(b) <= cantidadDePokemonesEnLista(obj)
    BY <1>3, <1>4, Palomar
  <1> QED BY <1>5, <1>6, <1>7

\* The species chosen to be given is one of those it has.
LEMMA UltimoOK ==
    ASSUME NEW S, NEW l \in Listas(S), NEW obj, Sobrantes(l, obj) # {}
    PROVE  list_buscar(l, UltimoSobrante(l, obj)) > 0 /\ UltimoSobrante(l, obj) \in S
  <1> DEFINE I == Sobrantes(l, obj)
             k == CHOOSE i \in I : \A j \in I : j <= i
  <1>1. Len(l) \in Nat /\ DOMAIN l = 1 .. Len(l) /\ I \subseteq 1 .. Len(l)
    BY CantidadesOK DEF Sobrantes
  <1>2. \E i \in I : \A j \in I : j <= i
    <2> DEFINE n == Len(l)
    <2>1. n \in Nat /\ I \subseteq 1 .. n /\ I # {}
      BY <1>1
    <2> HIDE DEF I, n
    <2> QED BY <2>1, MaximoOK
  <1>3. k \in I
    BY <1>2
  <1>4. UltimoSobrante(l, obj) = l[k].pokemon
    BY DEF UltimoSobrante
  <1> HIDE DEF I, k
  <1>5. k \in DOMAIN l /\ l[k].cantidad > 0 /\ l[k].pokemon \in S
    BY <1>1, <1>3, CantidadesOK
  <1>6. list_buscar(l, l[k].pokemon) = l[k].cantidad
    BY <1>5, BuscarOK
  <1> QED BY <1>4, <1>5, <1>6

\* What one has and the other at the i-th position of suyos: as many together as at
\* first, the second one still has what is to be seen, and the first one more of what
\* suited it.
A_Medias(r, t, a, suyos, da, i) ==
    /\ \A p : /\ list_buscar(r, p) + list_buscar(t, p) = list_buscar(a, p) + list_buscar(suyos, p)
              /\ list_buscar(a, p) <= list_buscar(r, p)
    /\ \A j \in i + 1 .. Len(suyos) : list_buscar(t, suyos[j].pokemon) > 0
    /\ \A j \in 1 .. i : j \in da => list_buscar(a, suyos[j].pokemon) < list_buscar(r, suyos[j].pokemon)

LEMMA UnoMas ==
    ASSUME NEW S, NEW a \in Listas(S), NEW suyos \in Listas(S), NEW r \in Listas(S), NEW t \in Listas(S),
           NEW da, NEW i \in 1 .. Len(suyos), A_Medias(r, t, a, suyos, da, i - 1)
    PROVE  /\ i \notin da => A_Medias(r, t, a, suyos, da, i)
           /\ A_Medias(agregarPokemon(r, suyos[i].pokemon), quitarPokemon(t, suyos[i].pokemon),
                       a, suyos, da, i)
  <1> DEFINE q == suyos[i].pokemon
             rr == agregarPokemon(r, q)
             tt == quitarPokemon(t, q)
             n == Len(suyos)
  <1>1. n \in Nat /\ DOMAIN suyos = 1 .. n
    BY CantidadesOK
  <1>2. \A p : /\ list_buscar(r, p) \in Nat /\ list_buscar(t, p) \in Nat
               /\ list_buscar(a, p) \in Nat /\ list_buscar(suyos, p) \in Nat
    BY BuscarOK
  <1>3. \A p : list_buscar(rr, p) = IF p = q THEN list_buscar(r, p) + 1 ELSE list_buscar(r, p)
    BY BuscarAgregar
  <1>4. \A p : list_buscar(tt, p) = IF p = q /\ list_buscar(t, q) > 0 THEN list_buscar(t, p) - 1 ELSE list_buscar(t, p)
    BY BuscarQuitar
  <1>5. i \in Int /\ (\A j \in i + 1 .. n : j \in i - 1 + 1 .. n /\ j # i) /\ i \in i - 1 + 1 .. n
    BY <1>1
  <1>6. \A j \in 1 .. i : j \in 1 .. i - 1 \/ j = i
    BY <1>1
  <1>7. list_buscar(t, q) > 0
    BY <1>5 DEF A_Medias
  <1>8. \A j \in i + 1 .. n : suyos[j].pokemon # q
    <2> TAKE j \in i + 1 .. n
    <2>1. j \in DOMAIN suyos /\ i \in DOMAIN suyos /\ j # i
      BY <1>1
    <2> QED BY <2>1 DEF Listas, NombresUnicos
  <1>9. ASSUME i \notin da PROVE A_Medias(r, t, a, suyos, da, i)
    BY <1>5, <1>6, <1>9 DEF A_Medias
  <1> HIDE DEF rr, tt, q
  <1>10. \A p : /\ list_buscar(rr, p) + list_buscar(tt, p) = list_buscar(a, p) + list_buscar(suyos, p)
                /\ list_buscar(a, p) <= list_buscar(rr, p)
    <2> TAKE p
    <2>1. /\ list_buscar(r, p) + list_buscar(t, p) = list_buscar(a, p) + list_buscar(suyos, p)
          /\ list_buscar(a, p) <= list_buscar(r, p)
      BY DEF A_Medias
    <2>2. /\ list_buscar(r, p) \in Nat /\ list_buscar(t, p) \in Nat
          /\ list_buscar(a, p) \in Nat /\ list_buscar(suyos, p) \in Nat
      BY <1>2
    <2>3. list_buscar(rr, p) = IF p = q THEN list_buscar(r, p) + 1 ELSE list_buscar(r, p)
      BY <1>3
    <2>4. list_buscar(tt, p) = IF p = q THEN list_buscar(t, p) - 1 ELSE list_buscar(t, p)
      BY <1>4, <1>7
    <2> QED BY <2>1, <2>2, <2>3, <2>4
  <1>11. \A j \in i + 1 .. n : list_buscar(tt, suyos[j].pokemon) > 0
    BY <1>4, <1>5, <1>8 DEF A_Medias
  <1>12. ASSUME NEW j \in 1 .. i, j \in da
         PROVE  list_buscar(a, suyos[j].pokemon) < list_buscar(rr, suyos[j].pokemon)
    <2> DEFINE p == suyos[j].pokemon
    <2> SUFFICES list_buscar(a, p) < list_buscar(rr, p)
      OBVIOUS
    <2>1. /\ list_buscar(a, p) \in Nat /\ list_buscar(r, p) \in Nat
          /\ list_buscar(rr, p) = IF p = q THEN list_buscar(r, p) + 1 ELSE list_buscar(r, p)
          /\ list_buscar(a, p) <= list_buscar(r, p)
      BY <1>2, <1>3 DEF A_Medias
    <2>2. CASE j = i
      BY <2>1, <2>2 DEF q
    <2>3. CASE j \in 1 .. i - 1
      <3>1. list_buscar(a, p) < list_buscar(r, p)
        BY <1>12, <2>3 DEF A_Medias
      <3> HIDE DEF p
      <3> QED BY <2>1, <3>1
    <2> QED BY <1>6, <2>2, <2>3
  <1>13. A_Medias(rr, tt, a, suyos, da, i)
    BY <1>10, <1>11, <1>12 DEF A_Medias
  <1> QED BY <1>9, <1>13 DEF rr, tt, q

\* An exchange takes no pokemon from the two trainers and adds none.
LEMMA IntercambioConserva ==
    ASSUME NEW S, NEW e1, NEW e2, e1.obtenidos \in Listas(S), e2.obtenidos \in Listas(S),
           e1.objetivo \in Listas(S), puedoIntercambiar(e1, e2),
           cantidadDePokemonesEnLista(e1.obtenidos) = cantidadDePokemonesEnLista(e1.objetivo), NEW p
    PROVE  list_buscar(intercambiarNormalPokemon(e1, e2).uno, p)
             + list_buscar(intercambiarNormalPokemon(e1, e2).otro, p)
           = list_buscar(e1.obtenidos, p) + list_buscar(e2.obtenidos, p)
  <1> DEFINE X == Listas(S)
             a == e1.obtenidos
             obj == e1.objetivo
             suyos == e2.obtenidos
             n == Len(suyos)
             da == LeSirven(e1, e2)
  <1>1. PICK recibe, entrega : Trueque(recibe, entrega, e1, e2, X)
    BY TruequeOK
  <1> DEFINE sobra == UltimoSobrante(recibe[n], obj)
  <1>2. /\ recibe \in [0 .. n -> X] /\ recibe[0] = a
        /\ \A i \in 1 .. n :
             recibe[i] = IF i \in da THEN agregarPokemon(recibe[i - 1], suyos[i].pokemon)
                         ELSE recibe[i - 1]
    BY <1>1 DEF Trueque
  <1>3. /\ entrega \in [0 .. n -> X] /\ entrega[0] = suyos
        /\ \A i \in 1 .. n :
             entrega[i] = IF i \in da THEN quitarPokemon(entrega[i - 1], suyos[i].pokemon)
                          ELSE entrega[i - 1]
    BY <1>1 DEF Trueque
  <1>4. intercambiarNormalPokemon(e1, e2) =
            [uno |-> quitarPokemon(recibe[n], sobra), otro |-> agregarPokemon(entrega[n], sobra)]
    BY <1>1 DEF Trueque
  <1>5. n \in Nat /\ DOMAIN suyos = 1 .. n
    BY CantidadesOK
  <1>6. da \subseteq 1 .. n /\ da # {}
    BY <1>5 DEF LeSirven, pokemonesInnecesarios, puedoIntercambiar
  <1>7. a \in Listas(S) /\ suyos \in Listas(S) /\ obj \in Listas(S)
    OBVIOUS
  <1>8. cantidadDePokemonesEnLista(a) = cantidadDePokemonesEnLista(obj)
    OBVIOUS
  <1> HIDE DEF a, obj, suyos, da, sobra, n
  <1> DEFINE T == {i \in 0 .. n : A_Medias(recibe[i], entrega[i], a, suyos, da, i)}
  <1>9. 0 \in T
    <2>1. \A q : list_buscar(a, q) \in Nat
      BY <1>7, BuscarOK
    <2>2. \A j \in 0 + 1 .. n : list_buscar(suyos, suyos[j].pokemon) > 0
      <3> TAKE j \in 0 + 1 .. n
      <3>1. j \in DOMAIN suyos
        BY <1>5
      <3>2. list_buscar(suyos, suyos[j].pokemon) = suyos[j].cantidad
        BY <1>7, <3>1, BuscarOK
      <3>3. suyos[j].cantidad > 0
        BY <1>7, <3>1, CantidadesOK
      <3> QED BY <3>2, <3>3
    <2>3. A_Medias(a, suyos, a, suyos, da, 0)
      BY <2>1, <2>2 DEF A_Medias, n
    <2> QED BY <1>2, <1>3, <1>5, <2>3
  <1>10. ASSUME NEW i \in 1 .. n, i - 1 \in T PROVE i \in T
    <2> DEFINE r == recibe[i - 1]
               t == entrega[i - 1]
    <2>1. i - 1 \in 0 .. n /\ i \in 0 .. n
      BY <1>5
    <2>2. r \in Listas(S) /\ t \in Listas(S) /\ A_Medias(r, t, a, suyos, da, i - 1)
      BY <1>2, <1>3, <1>10, <2>1
    <2> HIDE DEF r, t
    <2>3. /\ i \notin da => A_Medias(r, t, a, suyos, da, i)
          /\ A_Medias(agregarPokemon(r, suyos[i].pokemon), quitarPokemon(t, suyos[i].pokemon),
                      a, suyos, da, i)
      <3>1. i \in 1 .. Len(suyos)
        BY DEF n
      <3> QED BY <1>7, <2>2, <3>1, UnoMas
    <2>4. CASE i \in da
      <3>1. recibe[i] = agregarPokemon(r, suyos[i].pokemon) /\ entrega[i] = quitarPokemon(t, suyos[i].pokemon)
        BY <1>2, <1>3, <2>4 DEF r, t
      <3> QED BY <2>1, <2>3, <3>1
    <2>5. CASE i \notin da
      <3>1. recibe[i] = r /\ entrega[i] = t
        BY <1>2, <1>3, <2>5 DEF r, t
      <3> QED BY <2>1, <2>3, <2>5, <3>1
    <2> QED BY <2>4, <2>5
  <1>11. A_Medias(recibe[n], entrega[n], a, suyos, da, n)
    <2> HIDE DEF T
    <2>1. n \in T
      BY <1>5, <1>9, <1>10, InductivoHasta
    <2> QED BY <2>1 DEF T
  <1> DEFINE r == recibe[n]
             t == entrega[n]
  <1>12. r \in Listas(S) /\ t \in Listas(S)
    BY <1>2, <1>3, <1>5
  <1>13. /\ \A q : /\ list_buscar(r, q) + list_buscar(t, q) = list_buscar(a, q) + list_buscar(suyos, q)
                   /\ list_buscar(a, q) <= list_buscar(r, q)
         /\ \A j \in 1 .. n : j \in da => list_buscar(a, suyos[j].pokemon) < list_buscar(r, suyos[j].pokemon)
    BY <1>11 DEF A_Medias
  <1> HIDE DEF r, t
  <1>14. PICK j \in 1 .. n : j \in da
    BY <1>6
  <1>15. Sobrantes(r, obj) # {}
    <2> DEFINE q == suyos[j].pokemon
    <2>1. list_buscar(a, q) < list_buscar(r, q)
      BY <1>13, <1>14
    <2> HIDE DEF q
    <2>2. \A x : list_buscar(a, x) <= list_buscar(r, x)
      BY <1>13
    <2> QED BY <1>7, <1>8, <1>12, <2>1, <2>2, HaySobrante
  <1>16. sobra = UltimoSobrante(r, obj)
    BY DEF sobra, r
  <1>17. list_buscar(r, sobra) > 0
    BY <1>12, <1>15, <1>16, UltimoOK
  <1>18. list_buscar(quitarPokemon(r, sobra), p) =
             IF p = sobra /\ list_buscar(r, sobra) > 0 THEN list_buscar(r, p) - 1 ELSE list_buscar(r, p)
    BY <1>12, BuscarQuitar
  <1>19. list_buscar(agregarPokemon(t, sobra), p) =
             IF p = sobra THEN list_buscar(t, p) + 1 ELSE list_buscar(t, p)
    BY <1>12, BuscarAgregar
  <1>20. list_buscar(r, p) \in Nat /\ list_buscar(t, p) \in Nat
    BY <1>12, BuscarOK
  <1>21. list_buscar(quitarPokemon(r, sobra), p) + list_buscar(agregarPokemon(t, sobra), p)
           = list_buscar(r, p) + list_buscar(t, p)
    BY <1>17, <1>18, <1>19, <1>20
  <1>22. /\ intercambiarNormalPokemon(e1, e2).uno = quitarPokemon(r, sobra)
         /\ intercambiarNormalPokemon(e1, e2).otro = agregarPokemon(t, sobra)
    BY <1>4 DEF r, t
  <1> QED BY <1>13, <1>21, <1>22 DEF a, suyos

\* Of a list, the pokemons of a species in its first i records.
Contados(l, p, i) == IF \E j \in 1 .. i : l[j].pokemon = p THEN list_buscar(l, p) ELSE 0

LEMMA ContarMas ==
    ASSUME NEW S, NEW l \in Listas(S), NEW p, NEW i \in 1 .. Len(l)
    PROVE  Contados(l, p, i) = Contados(l, p, i - 1) + (IF p = l[i].pokemon THEN l[i].cantidad ELSE 0)
  <1>1. Len(l) \in Nat /\ DOMAIN l = 1 .. Len(l) /\ list_buscar(l, p) \in Nat
    BY CantidadesOK, BuscarOK
  <1>2. /\ i \in 1 .. i /\ i \in DOMAIN l
        /\ \A j \in 1 .. i : j = i \/ j \in 1 .. i - 1
        /\ \A j \in 1 .. i - 1 : j \in 1 .. i /\ j \in DOMAIN l /\ j # i
    BY <1>1
  <1>3. CASE p = l[i].pokemon
    <2>1. \A j \in 1 .. i - 1 : l[j].pokemon # p
      BY <1>2, <1>3 DEF Listas, NombresUnicos
    <2>2. Contados(l, p, i - 1) = 0
      BY <2>1 DEF Contados
    <2>3. Contados(l, p, i) = list_buscar(l, p)
      BY <1>2, <1>3 DEF Contados
    <2>4. list_buscar(l, p) = l[i].cantidad
      BY <1>2, <1>3, BuscarOK
    <2> QED BY <1>1, <1>3, <2>2, <2>3, <2>4
  <1>4. CASE p # l[i].pokemon
    <2>1. (\E j \in 1 .. i : l[j].pokemon = p) <=> \E j \in 1 .. i - 1 : l[j].pokemon = p
      BY <1>2, <1>4
    <2>2. Contados(l, p, i) = Contados(l, p, i - 1) /\ Contados(l, p, i) \in Nat
      BY <1>1, <2>1 DEF Contados
    <2> QED BY <1>4, <2>2
  <1> QED BY <1>3, <1>4

\* agregarATodos gives the pokemons of both lists.
LEMMA TodosOK ==
    ASSUME NEW S, NEW lista \in Listas(S), NEW mas \in Listas(S)
    PROVE  /\ agregarATodos(lista, mas) \in Listas(S)
           /\ \A p : list_buscar(agregarATodos(lista, mas), p) = list_buscar(lista, p) + list_buscar(mas, p)
  <1> DEFINE n == Len(mas)
             X == Listas(S)
             hasta[i \in 0 .. Len(mas)] ==
                IF i = 0 THEN lista
                ELSE LET r == mas[i] IN
                     IF list_buscar(hasta[i - 1], r.pokemon) > 0
                     THEN Sumar(hasta[i - 1], r.pokemon, r.cantidad)
                     ELSE Append(hasta[i - 1], r)
             g == [i \in 1 .. n |-> [l \in X |-> ConRegistro(l, mas[i])]]
  <1>1. n \in Nat /\ DOMAIN mas = 1 .. n /\ \A i \in 1 .. n : mas[i] \in Registros(S)
    BY ElementosOK DEF Listas
  <1>2. ASSUME NEW i \in 1 .. n, NEW l \in X
        PROVE  /\ ConRegistro(l, mas[i]) \in X
               /\ \A p : list_buscar(ConRegistro(l, mas[i]), p) =
                            IF p = mas[i].pokemon THEN list_buscar(l, p) + mas[i].cantidad ELSE list_buscar(l, p)
    <2> DEFINE r == mas[i]
    <2>1. r \in Registros(S)
      BY <1>1
    <2> HIDE DEF r
    <2>2. \A p : /\ ConRegistro(l, r) \in Listas(S)
                 /\ list_buscar(ConRegistro(l, r), p) =
                       IF p = r.pokemon THEN list_buscar(l, p) + r.cantidad ELSE list_buscar(l, p)
      BY <2>1, RegistroMas
    <2>3. ConRegistro(l, r) \in X
      BY <2>2
    <2> QED BY <2>2, <2>3 DEF r
  <1>3. g \in [1 .. n -> [X -> X]] /\ lista \in X
    BY <1>2
  <1> HIDE DEF X, n
  <1>4. PICK f : Recorre(f, n, X, lista, g)
    <2> HIDE DEF g
    <2> QED BY <1>1, <1>3, Recursion
  <1>5. \A i \in 1 .. n : f[i] = ConRegistro(f[i - 1], mas[i])
    <2> TAKE i \in 1 .. n
    <2>1. i - 1 \in 0 .. n
      BY <1>1
    <2> QED BY <1>4, <2>1 DEF Recorre
  <1>6. f = [i \in 0 .. n |-> IF i = 0 THEN lista ELSE ConRegistro(f[i - 1], mas[i])]
    BY <1>1, <1>4, <1>5 DEF Recorre
  <1>7. hasta = [i \in 0 .. n |-> IF i = 0 THEN lista ELSE ConRegistro(hasta[i - 1], mas[i])]
    BY <1>6 DEF ConRegistro, n
  <1>8. agregarATodos(lista, mas) = hasta[n]
    BY DEF agregarATodos, n
  <1> HIDE DEF hasta
  <1>9. hasta[0] = lista /\ \A i \in 1 .. n : hasta[i] = ConRegistro(hasta[i - 1], mas[i])
    BY <1>1, <1>7
  <1>10. \A i \in 1 .. n : hasta[i - 1] \in X => hasta[i] \in X
    BY <1>2, <1>9
  <1>11. \A k \in 0 .. n : hasta[k] \in X
    BY <1>1, <1>3, <1>9, <1>10, Conserva
  <1>12. ASSUME NEW p PROVE list_buscar(hasta[n], p) = list_buscar(lista, p) + list_buscar(mas, p)
    <2> DEFINE T == {i \in 0 .. n : list_buscar(hasta[i], p) = list_buscar(lista, p) + Contados(mas, p, i)}
    <2>1. list_buscar(lista, p) \in Nat /\ list_buscar(mas, p) \in Nat
      BY BuscarOK
    <2>2. 0 \in T
      <3>1. Contados(mas, p, 0) = 0
        BY DEF Contados
      <3> QED BY <1>1, <1>9, <2>1, <3>1
    <2>3. ASSUME NEW i \in 1 .. n, i - 1 \in T PROVE i \in T
      <3> DEFINE l == hasta[i - 1]
                 c == IF p = mas[i].pokemon THEN mas[i].cantidad ELSE 0
      <3>1. i - 1 \in 0 .. n /\ i \in 0 .. n
        BY <1>1
      <3>2. l \in X
        BY <1>11, <3>1
      <3>3. hasta[i] = ConRegistro(l, mas[i])
        BY <1>9
      <3>4. list_buscar(l, p) = list_buscar(lista, p) + Contados(mas, p, i - 1)
        BY <2>3
      <3>5. Contados(mas, p, i) = Contados(mas, p, i - 1) + c
        BY ContarMas DEF n
      <3>6. Contados(mas, p, i - 1) \in Nat /\ c \in Nat
        BY <1>1, <2>1 DEF Contados, Registros
      <3> HIDE DEF l
      <3>7. list_buscar(hasta[i], p) =
               IF p = mas[i].pokemon THEN list_buscar(l, p) + mas[i].cantidad ELSE list_buscar(l, p)
        BY <1>2, <3>2, <3>3
      <3>8. list_buscar(l, p) \in Nat
        BY <2>1, <3>4, <3>6
      <3>9. list_buscar(hasta[i], p) = list_buscar(l, p) + c
        BY <3>7, <3>8
      <3> HIDE DEF c
      <3>10. list_buscar(hasta[i], p) = list_buscar(lista, p) + Contados(mas, p, i)
        BY <2>1, <3>4, <3>5, <3>6, <3>9
      <3> QED BY <3>1, <3>10
    <2> HIDE DEF T
    <2>4. n \in T
      BY <1>1, <2>2, <2>3, InductivoHasta
    <2>5. Contados(mas, p, n) = list_buscar(mas, p)
      BY <1>1, <2>1, Registro DEF Contados
    <2> QED BY <2>4, <2>5 DEF T
  <1> QED BY <1>1, <1>8, <1>11, <1>12 DEF X

\* f adds up to x.
SumanHasta(f, n, x) == \E s : EsSumaParcial(s, f, n) /\ x = s[n]

\* What the Team has at first is what its trainers have.
LEMMA AcumuladosOK ==
    ASSUME NEW listas, \A e \in Entrenadores : listas[e] \in Seq(Especies)
    PROVE  /\ Acumulados(listas) \in Listas(Especies)
           /\ \A p : SumanHasta([e \in Entrenadores |->
                               list_buscar(extraer_pokemones_entrenadores(listas[e]), p)],
                           cantidadDeEntrenadores, list_buscar(Acumulados(listas), p))
  <1> DEFINE n == cantidadDeEntrenadores
             X == Listas(Especies)
             suya(e) == extraer_pokemones_entrenadores(listas[e])
             hasta[e \in 0 .. cantidadDeEntrenadores] ==
                IF e = 0 THEN <<>>
                ELSE agregarATodos(hasta[e - 1], extraer_pokemones_entrenadores(listas[e]))
             g == [e \in 1 .. n |-> [l \in X |-> agregarATodos(l, suya(e))]]
             nada == <<>>
  <1>1. n \in Nat /\ Entrenadores = 1 .. n
    BY PlanificadoresAssumption DEF Entrenadores
  <1>2. \A e \in 1 .. n : suya(e) \in X
    BY <1>1, ExtraerOK
  <1>3. ASSUME NEW e \in 1 .. n, NEW l \in X
        PROVE  /\ agregarATodos(l, suya(e)) \in X
               /\ \A p : list_buscar(agregarATodos(l, suya(e)), p) = list_buscar(l, p) + list_buscar(suya(e), p)
    <2> DEFINE m == suya(e)
    <2>1. m \in X
      BY <1>2
    <2> HIDE DEF m
    <2>2. /\ agregarATodos(l, m) \in X
          /\ \A p : list_buscar(agregarATodos(l, m), p) = list_buscar(l, p) + list_buscar(m, p)
      BY <2>1, TodosOK
    <2> QED BY <2>2 DEF m
  <1>4. g \in [1 .. n -> [X -> X]]
    <2> HIDE DEF X, suya, n
    <2> QED BY <1>3
  <1>5. nada \in X
    BY DEF Listas, NombresUnicos
  <1> HIDE DEF X, n, suya, nada
  <1>6. PICK f : Recorre(f, n, X, nada, g)
    <2> HIDE DEF g
    <2> QED BY <1>1, <1>4, <1>5, Recursion
  <1>7. \A e \in 1 .. n : f[e] = agregarATodos(f[e - 1], suya(e))
    <2> TAKE e \in 1 .. n
    <2>1. e - 1 \in 0 .. n
      BY <1>1
    <2> QED BY <1>6, <2>1 DEF Recorre
  <1>8. f = [e \in 0 .. n |-> IF e = 0 THEN nada ELSE agregarATodos(f[e - 1], suya(e))]
    BY <1>1, <1>6, <1>7 DEF Recorre
  <1>9. hasta = [e \in 0 .. n |-> IF e = 0 THEN nada ELSE agregarATodos(hasta[e - 1], suya(e))]
    BY <1>8 DEF n, nada, suya
  <1>10. Acumulados(listas) = hasta[n]
    BY DEF Acumulados, n
  <1> HIDE DEF hasta
  <1>11. hasta[0] = nada /\ \A e \in 1 .. n : hasta[e] = agregarATodos(hasta[e - 1], suya(e))
    BY <1>1, <1>9
  <1>12. \A k \in 0 .. n : hasta[k] \in X
    <2>1. \A e \in 1 .. n : hasta[e - 1] \in X => hasta[e] \in X
      BY <1>3, <1>11
    <2> QED BY <1>1, <1>5, <1>11, <2>1, Conserva
  <1>13. ASSUME NEW p
         PROVE  SumanHasta([e \in Entrenadores |-> list_buscar(suya(e), p)], n, list_buscar(hasta[n], p))
    <2> DEFINE c == [e \in Entrenadores |-> list_buscar(suya(e), p)]
               s == [e \in 0 .. n |-> list_buscar(hasta[e], p)]
    <2>1. \A k \in 0 .. n : list_buscar(hasta[k], p) \in Int
      BY <1>12, BuscarOK DEF X
    <2>2. s[0] = 0
      BY <1>1, <1>11 DEF nada, list_buscar
    <2>3. ASSUME NEW e \in 1 .. n PROVE s[e] = s[e - 1] + c[e]
      <3>1. e \in 0 .. n /\ e - 1 \in 0 .. n
        BY <1>1
      <3>2. list_buscar(hasta[e], p) = list_buscar(hasta[e - 1], p) + list_buscar(suya(e), p)
        BY <1>3, <1>11, <1>12, <3>1
      <3> QED BY <1>1, <3>1, <3>2
    <2>4. s \in [0 .. n -> Int]
      BY <2>1
    <2>5. s[n] = list_buscar(hasta[n], p)
      BY <1>1
    <2> HIDE DEF s, c
    <2>6. EsSumaParcial(s, c, n)
      BY <2>2, <2>3, <2>4 DEF EsSumaParcial
    <2> QED BY <2>5, <2>6 DEF SumanHasta, c
  <1> QED BY <1>1, <1>10, <1>12, <1>13 DEF n, X, suya
-----------------------------------------------------------------------------
(* The Team. *)

Tienen(p) == [e \in Entrenadores |-> list_buscar(entrenador[e].obtenidos, p)]

Parejos == {"DEADLOCK", "MOVERSE_A_ENTRENADOR", "INTERCAMBIAR"}
ConTodos(t) ==
    /\ cantidadDePokemonesEnLista(t.obtenidos) = cantidadDePokemonesEnLista(t.objetivo)
    /\ pokemonesPendientes(t.obtenidos, t.objetivo) # {}

\* A trainer that goes for an exchange has as many pokemons as it wants, and lacks some.
Parejo == \A e \in Entrenadores : Estado(e) \in Parejos => ConTodos(entrenador[e])

ObjetivosOK ==
    \A e \in Entrenadores :
       /\ Lista(entrenador[e].objetivo)
       /\ entrenador[e].objetivo = extraer_pokemones_entrenadores(Objetivos[e])

SumasOK ==
    /\ Lista(atrapados)
    /\ \A p : SumanHasta(Tienen(p), cantidadDeEntrenadores, list_buscar(atrapados, p))

CuentasInv == ListasOK /\ ObjetivosOK /\ Parejo /\ SumasOK

\* A step that changes what no trainer has, and takes to an exchange none but one with as
\* many as it wants.
Sigue(t, u) ==
    /\ u.objetivo = t.objetivo
    /\ u.obtenidos = t.obtenidos
    /\ u.estado \in Parejos => t.estado \in Parejos \/ ConTodos(t)

SinCambio == \A e \in Entrenadores : Sigue(entrenador[e], entrenador'[e])

LEMMA SinCambioOK ==
    ASSUME CuentasInv, ListasOK', SinCambio, UNCHANGED atrapados
    PROVE  CuentasInv'
  <1>1. ObjetivosOK'
    BY DEF CuentasInv, ObjetivosOK, SinCambio, Sigue
  <1>2. Parejo'
    <2> SUFFICES ASSUME NEW e \in Entrenadores, entrenador'[e].estado \in Parejos
                 PROVE  ConTodos(entrenador'[e])
      BY DEF Parejo, Estado
    <2>1. ConTodos(entrenador[e])
      BY DEF CuentasInv, Parejo, Estado, SinCambio, Sigue
    <2> QED BY <2>1 DEF ConTodos, SinCambio, Sigue
  <1>3. \A p : Tienen(p)' = Tienen(p)
    BY DEF Tienen, SinCambio, Sigue
  <1>4. SumasOK'
    BY <1>3 DEF CuentasInv, SumasOK
  <1> QED BY <1>1, <1>2, <1>4 DEF CuentasInv

\* A step that writes one trainer.
LEMMA UnoSigue ==
    ASSUME TipoEntrenador, NEW e, NEW t, entrenador' = [entrenador EXCEPT ![e] = t],
           e \in Entrenadores => Sigue(entrenador[e], t)
    PROVE  SinCambio
  <1>1. \A x \in Entrenadores : entrenador'[x] = IF x = e THEN t ELSE entrenador[x]
    BY DEF TipoEntrenador
  <1>2. \A x \in Entrenadores : Sigue(entrenador[x], entrenador[x])
    BY DEF Sigue
  <1> QED BY <1>1, <1>2 DEF SinCambio

\* A step that writes the state of a trainer.
LEMMA EstadoSigue ==
    ASSUME TipoEntrenador, NEW e, NEW estado, entrenador' = [entrenador EXCEPT ![e].estado = estado],
           e \in Entrenadores => (estado \in Parejos => Estado(e) \in Parejos \/ ConTodos(entrenador[e]))
    PROVE  SinCambio
  <1> DEFINE t == [entrenador[e] EXCEPT !.estado = estado]
  <1>1. entrenador' = [entrenador EXCEPT ![e] = t]
    OBVIOUS
  <1>2. e \in Entrenadores => t.obtenidos = entrenador[e].obtenidos /\ t.objetivo = entrenador[e].objetivo
                              /\ t.estado = estado
    BY DEF TipoEntrenador, Ficha
  <1> HIDE DEF t
  <1>3. e \in Entrenadores => Sigue(entrenador[e], t)
    BY <1>2 DEF Sigue, Estado
  <1> QED BY <1>1, <1>3, UnoSigue

LEMMA EstimadoSigue ==
    ASSUME TipoEntrenador, NEW e, estimar_entrenador(e)
    PROVE  SinCambio
  <1> DEFINE t == Estimado(e)
  <1>1. entrenador' = [entrenador EXCEPT ![e] = t]
    BY DEF estimar_entrenador
  <1>2. ASSUME e \in Entrenadores
        PROVE  t.obtenidos = entrenador[e].obtenidos /\ t.objetivo = entrenador[e].objetivo
               /\ t.estado = entrenador[e].estado
    BY <1>2 DEF TipoEntrenador, Ficha, Estimado
  <1> HIDE DEF t
  <1>3. e \in Entrenadores => Sigue(entrenador[e], t)
    BY <1>2 DEF Sigue
  <1> QED BY <1>1, <1>3, UnoSigue

LEMMA QuietosSiguen ==
    ASSUME UNCHANGED entrenador
    PROVE  SinCambio
  BY DEF SinCambio, Sigue

\* The planners' steps: DEADLOCK is for a trainer with as many as it wants.
LEMMA PlanificadoresSiguen ==
    ASSUME IInv, vivo, CortoPlazo \/ MedianoPlazo
    PROVE  SinCambio /\ UNCHANGED atrapados
  <1>0. UNCHANGED atrapados
    BY DEF CortoPlazo, CpTermina, CpElige, CpDevuelve, MedianoPlazo, MpActiva, MpEspera, MpRevisa,
           MpTodosEnExit, MpMira, MpPokemon, MpAsigna, MpAvisa, MpOtro, MpDetecta, MpDeadlock,
           MpTermina, mapa, moverPokemonAReservados
  <1>1. TipoEntrenador
    BY DEF IInv, TiposPlan
  <1>2. CASE CortoPlazo
    <2>1. UNCHANGED entrenador
      BY <1>2 DEF CortoPlazo, CpTermina, CpElige, CpDevuelve, colas, mapa
    <2> QED BY <1>0, <2>1, QuietosSiguen
  <1>3. CASE MpRevisa
    <2> DEFINE e == Head(colaBlocked)
               nuevo == verificarYCambiarEstadoEntrenador(entrenador[e])
    <2>1. PICK estado : /\ entrenador' = [entrenador EXCEPT ![e].estado = estado]
                        /\ estado = Estado(e) \/ estado = nuevo
      BY <1>3 DEF MpRevisa
    <2>2. nuevo \in Parejos => ConTodos(entrenador[e])
      BY DEF verificarYCambiarEstadoEntrenador, Parejos, ConTodos
    <2> HIDE DEF e, nuevo
    <2>3. estado \in Parejos => Estado(e) \in Parejos \/ ConTodos(entrenador[e])
      BY <2>1, <2>2
    <2>4. SinCambio
      BY <1>1, <2>1, <2>3, EstadoSigue
    <2> QED BY <1>0, <2>4
  <1>4. CASE MpAsigna
    <2>1. PICK e : estimar_entrenador(e)
      BY <1>4 DEF MpAsigna
    <2> QED BY <1>0, <1>1, <2>1, EstimadoSigue
  <1>5. CASE MpOtro
    <2>1. CASE Otros = {}
      <3>1. UNCHANGED entrenador
        BY <1>5, <2>1 DEF MpOtro
      <3> QED BY <1>0, <3>1, QuietosSiguen
    <2>2. CASE Otros # {}
      <3>1. PICK e : estimar_entrenador(e)
        BY <1>5, <2>2 DEF MpOtro
      <3> QED BY <1>0, <1>1, <3>1, EstimadoSigue
    <2> QED BY <2>1, <2>2
  <1>6. CASE MpDeadlock
    <2> DEFINE I == Quieren({"DEADLOCK"})
    <2>1. CASE I = {}
      <3>1. UNCHANGED entrenador
        BY <1>6, <2>1 DEF MpDeadlock
      <3> QED BY <1>0, <3>1, QuietosSiguen
    <2>2. CASE I # {}
      <3> DEFINE e == colaBlocked[Primera(I)]
      <3>1. entrenador' = [entrenador EXCEPT ![e].estado = "MOVERSE_A_ENTRENADOR"]
        BY <1>6, <2>2 DEF MpDeadlock
      <3>2. Primera(I) \in I
        <4>1. colaBlocked \in Seq(Entrenadores)
          BY DEF IInv, TiposPlan, TipoColas
        <4>2. I \subseteq Nat
          BY <4>1, LenProperties DEF Quieren
        <4> HIDE DEF I
        <4> QED BY <2>2, <4>2, PrimeraOK
      <3>3. Estado(e) \in Parejos
        BY <3>2 DEF Quieren, Parejos
      <3> HIDE DEF e
      <3>4. SinCambio
        BY <1>1, <3>1, <3>3, EstadoSigue
      <3> QED BY <1>0, <3>4
    <2> QED BY <2>1, <2>2
  <1>7. CASE MpActiva \/ MpEspera \/ MpTodosEnExit \/ MpMira \/ MpPokemon \/ MpAvisa
             \/ MpDetecta \/ MpTermina
    <2>1. UNCHANGED entrenador
      BY <1>7 DEF MpActiva, MpEspera, MpTodosEnExit, MpMira, MpPokemon, MpAvisa, MpDetecta, MpTermina
    <2> QED BY <1>0, <2>1, QuietosSiguen
  <1> QED BY <1>2, <1>3, <1>4, <1>5, <1>6, <1>7 DEF MedianoPlazo

\* The trainers' own, but for the two that change what they have: the turn of one that goes
\* to another trainer ends at INTERCAMBIAR or where it was.
LEMMA EntrenadorSigue ==
    ASSUME IInv, NEW e \in Entrenadores, Entrenador(e), ~AtraparPorDefecto(e), ~Intercambiar(e)
    PROVE  SinCambio /\ UNCHANGED atrapados
  <1>0. UNCHANGED atrapados
    BY DEF Entrenador, TurnoAPokemon, TurnoAEntrenador, Mover, DejarDeMover, intentarAtraparPokemon,
           EsperarCaught, LlegoCaught, TerminarHilo, mapa
  <1>1. TipoEntrenador /\ Ficha(entrenador[e])
    BY DEF IInv, TiposPlan, TipoEntrenador
  <1>2. CASE Mover(e)
    <2> DEFINE p == moverEntrenador(Ciclo(e).posicion, hilo[e].meta)
               t == [Ciclo(e) EXCEPT !.posicion = p]
    <2>1. entrenador' = [entrenador EXCEPT ![e] = t]
      BY <1>2 DEF Mover
    <2>2. /\ Ciclo(e).obtenidos = entrenador[e].obtenidos /\ Ciclo(e).objetivo = entrenador[e].objetivo
          /\ Ciclo(e).estado = entrenador[e].estado /\ DOMAIN Ciclo(e) = DOMAIN entrenador[e]
      BY <1>1 DEF Ciclo, Ficha
    <2> HIDE DEF p
    <2>3. t.obtenidos = entrenador[e].obtenidos /\ t.objetivo = entrenador[e].objetivo
          /\ t.estado = entrenador[e].estado
      BY <1>1, <2>2 DEF Ficha
    <2> HIDE DEF t
    <2>4. Sigue(entrenador[e], t)
      BY <2>3 DEF Sigue
    <2> QED BY <1>0, <1>1, <2>1, <2>4, UnoSigue
  <1>3. CASE DejarDeMover(e)
    <2> DEFINE q == IF algoritmo = "RR" THEN QUANTUM ELSE entrenador[e].quantum
               s == TrasMover(e)
               t == [entrenador[e] EXCEPT !.estado = s, !.quantum = q]
    <2>0. s \in Parejos => Estado(e) \in Parejos
      BY DEF TrasMover, HaciaPokemon, Parejos
    <2> HIDE DEF s
    <2>1. entrenador' = [entrenador EXCEPT ![e] = t]
      BY <1>1, <1>3 DEF DejarDeMover, TipoEntrenador, Ficha, s
    <2>2. t.obtenidos = entrenador[e].obtenidos /\ t.objetivo = entrenador[e].objetivo /\ t.estado = s
      BY <1>1 DEF Ficha
    <2> HIDE DEF t
    <2>3. Sigue(entrenador[e], t)
      BY <2>0, <2>2 DEF Sigue, Estado
    <2> QED BY <1>0, <1>1, <2>1, <2>3, UnoSigue
  <1>4. CASE EsperarCaught(e)
    <2> DEFINE t == CicloDeCatch(e)
    <2>1. entrenador' = [entrenador EXCEPT ![e] = t]
      BY <1>4 DEF EsperarCaught
    <2>2. t.obtenidos = entrenador[e].obtenidos /\ t.objetivo = entrenador[e].objetivo
          /\ t.estado = entrenador[e].estado
      BY <1>1 DEF CicloDeCatch, Ficha
    <2> HIDE DEF t
    <2>3. Sigue(entrenador[e], t)
      BY <2>2 DEF Sigue
    <2> QED BY <1>0, <1>1, <2>1, <2>3, UnoSigue
  <1>5. CASE TurnoAPokemon(e) \/ TurnoAEntrenador(e) \/ intentarAtraparPokemon(e)
             \/ LlegoCaught(e) \/ TerminarHilo(e)
    <2>1. UNCHANGED entrenador
      BY <1>5 DEF TurnoAPokemon, TurnoAEntrenador, intentarAtraparPokemon, LlegoCaught, TerminarHilo
    <2> QED BY <1>0, <2>1, QuietosSiguen
  <1> QED BY <1>2, <1>3, <1>4, <1>5 DEF Entrenador

\* A change of one term changes the sum by as much.
LEMMA SumanMas ==
    ASSUME NEW n \in Nat, NEW f, NEW x, SumanHasta(f, n, x), NEW h, NEW k \in 1 .. n, NEW d \in Int,
           ConCambio(h, f, n, k, d)
    PROVE  SumanHasta(h, n, x + d)
  <1>1. PICK s : EsSumaParcial(s, f, n) /\ x = s[n]
    BY DEF SumanHasta
  <1>2. \A i \in 1 .. n : h[i] \in Int
    BY DEF ConCambio
  <1>3. PICK r : EsSumaParcial(r, h, n)
    BY <1>2, HaySumaParcial
  <1>4. r[n] = s[n] + d
    BY <1>1, <1>3, SumaConCambio
  <1> QED BY <1>1, <1>3, <1>4 DEF SumanHasta

LEMMA TienenOK ==
    ASSUME ListasOK, NEW p
    PROVE  \A e \in Entrenadores : Tienen(p)[e] = list_buscar(entrenador[e].obtenidos, p) /\ Tienen(p)[e] \in Int
  <1> SUFFICES ASSUME NEW e \in Entrenadores
               PROVE  Tienen(p)[e] = list_buscar(entrenador[e].obtenidos, p) /\ Tienen(p)[e] \in Int
    OBVIOUS
  <1> DEFINE l == entrenador[e].obtenidos
  <1>1. PICK S : l \in Listas(S)
    BY DEF ListasOK, Lista
  <1> HIDE DEF l
  <1>2. list_buscar(l, p) \in Int
    BY <1>1, BuscarOK
  <1> QED BY <1>2 DEF Tienen, l

\* A pokemon caught by one trainer is one more of the Team.
LEMMA CapturaCuenta ==
    ASSUME CuentasInv, ListasOK', NEW e \in Entrenadores, NEW q,
           \A x \in Entrenadores : x # e => entrenador'[x] = entrenador[x],
           entrenador'[e].obtenidos = agregarPokemon(entrenador[e].obtenidos, q),
           entrenador'[e].objetivo = entrenador[e].objetivo,
           entrenador'[e].estado \notin Parejos,
           atrapados' = agregarPokemon(atrapados, q)
    PROVE  CuentasInv'
  <1> DEFINE n == cantidadDeEntrenadores
  <1>1. n \in Nat /\ Entrenadores = 1 .. n
    BY PlanificadoresAssumption DEF Entrenadores
  <1>2. ObjetivosOK'
    BY DEF CuentasInv, ObjetivosOK
  <1>3. Parejo'
    <2> SUFFICES ASSUME NEW x \in Entrenadores, entrenador'[x].estado \in Parejos
                 PROVE  ConTodos(entrenador'[x])
      BY DEF Parejo, Estado
    <2> QED BY DEF CuentasInv, Parejo, Estado
  <1>4. PICK S : atrapados \in Listas(S)
    BY DEF CuentasInv, SumasOK, Lista
  <1>5. Lista(atrapados')
    <2>1. agregarPokemon(atrapados, q) \in Listas(S \cup {q})
      BY <1>4, AgregarOK
    <2> QED BY <2>1 DEF Lista
  <1>6. ASSUME NEW p PROVE SumanHasta(Tienen(p)', n, list_buscar(atrapados', p))
    <2> DEFINE f == Tienen(p)
               h == Tienen(p)'
               d == IF p = q THEN 1 ELSE 0
    <2>1. \A x \in 1 .. n : f[x] = list_buscar(entrenador[x].obtenidos, p) /\ f[x] \in Int
      BY <1>1, TienenOK DEF CuentasInv
    <2>2. \A x \in 1 .. n : h[x] = list_buscar(entrenador'[x].obtenidos, p)
      BY <1>1 DEF Tienen
    <2>3. h[e] = f[e] + d
      <3> DEFINE l == entrenador[e].obtenidos
      <3>1. PICK T : l \in Listas(T)
        BY DEF CuentasInv, ListasOK, Lista
      <3>2. f[e] = list_buscar(l, p) /\ h[e] = list_buscar(agregarPokemon(l, q), p) /\ f[e] \in Int
        BY <1>1, <2>1, <2>2
      <3> HIDE DEF l, f, h
      <3>3. list_buscar(agregarPokemon(l, q), p) = IF p = q THEN list_buscar(l, p) + 1 ELSE list_buscar(l, p)
        BY <3>1, BuscarAgregar
      <3> QED BY <3>2, <3>3
    <2>4. list_buscar(atrapados', p) = list_buscar(atrapados, p) + d
      <3>1. list_buscar(atrapados, p) \in Nat
        BY <1>4, BuscarOK
      <3>2. list_buscar(agregarPokemon(atrapados, q), p) =
               IF p = q THEN list_buscar(atrapados, p) + 1 ELSE list_buscar(atrapados, p)
        BY <1>4, BuscarAgregar
      <3> QED BY <3>1, <3>2
    <2>5. d \in Int /\ e \in 1 .. n
      BY <1>1
    <2>6. SumanHasta(f, n, list_buscar(atrapados, p))
      BY DEF CuentasInv, SumasOK
    <2>7. \A x \in 1 .. n : x # e => h[x] = f[x]
      BY <1>1, <2>1, <2>2
    <2> HIDE DEF f, h, d
    <2>8. ConCambio(h, f, n, e, d)
      BY <2>1, <2>3, <2>7 DEF ConCambio
    <2>9. SumanHasta(h, n, list_buscar(atrapados, p) + d)
      <3> DEFINE x == list_buscar(atrapados, p)
      <3> HIDE DEF x, n
      <3>1. SumanHasta(f, n, x)
        BY <2>6 DEF x
      <3>2. SumanHasta(h, n, x + d)
        BY <1>1, <2>5, <2>8, <3>1, SumanMas
      <3> QED BY <3>2 DEF x
    <2> QED BY <2>4, <2>9 DEF h
  <1>7. SumasOK'
    BY <1>5, <1>6 DEF SumasOK
  <1> QED BY <1>2, <1>3, <1>7 DEF CuentasInv

\* AtraparPorDefecto: with no broker the pokemon is taken as caught.
LEMMA CuentasAtrapar ==
    ASSUME IInv, CuentasInv, ListasOK', NEW e \in Entrenadores, AtraparPorDefecto(e)
    PROVE  CuentasInv'
  <1> DEFINE i == buscarPokemonReservado(e)
             p == reservados[i].pokemon
             u == CicloDeCatch(e)
             l == agregarPokemon(u.obtenidos, p)
             t == [u EXCEPT !.estado = "RECIBIO_RESPUESTA_OK", !.obtenidos = l]
  <1>1. TipoEntrenador /\ Ficha(entrenador[e])
    BY DEF IInv, TiposPlan, TipoEntrenador
  <1>2. entrenador' = [entrenador EXCEPT ![e] = t] /\ atrapados' = agregarPokemon(atrapados, p)
    BY DEF AtraparPorDefecto
  <1>3. /\ u.obtenidos = entrenador[e].obtenidos /\ u.objetivo = entrenador[e].objetivo
        /\ {"estado", "obtenidos", "objetivo"} \subseteq DOMAIN u
    BY <1>1 DEF CicloDeCatch, Ficha
  <1> HIDE DEF u
  <1>4. l = agregarPokemon(entrenador[e].obtenidos, p)
    BY <1>3
  <1> HIDE DEF p, l
  <1>5. t.obtenidos = l /\ t.objetivo = entrenador[e].objetivo /\ t.estado = "RECIBIO_RESPUESTA_OK"
    BY <1>3
  <1> HIDE DEF t
  <1>6. \A x \in Entrenadores : entrenador'[x] = IF x = e THEN t ELSE entrenador[x]
    BY <1>1, <1>2 DEF TipoEntrenador
  <1>7. /\ \A x \in Entrenadores : x # e => entrenador'[x] = entrenador[x]
        /\ entrenador'[e].obtenidos = agregarPokemon(entrenador[e].obtenidos, p)
        /\ entrenador'[e].objetivo = entrenador[e].objetivo
        /\ entrenador'[e].estado \notin Parejos
    BY <1>4, <1>5, <1>6 DEF Parejos
  <1> QED BY <1>2, <1>7, CapturaCuenta

\* CaAplica: with OK the pokemon is that of the trainer that waits for it.
LEMMA CuentasAplica ==
    ASSUME IInv, CuentasInv, ListasOK', vivo, NEW c \in caughts, CaAplica(c)
    PROVE  CuentasInv'
  <1> DEFINE e == c.para
             i == buscarPokemonReservado(c.reserva)
             p == reservados[i].pokemon
             l == agregarPokemon(entrenador[e].obtenidos, p)
  <1>1. TipoEntrenador
    BY DEF IInv, TiposPlan
  <1>2. e \in Entrenadores
    BY EnCaughtOK DEF CaAplica
  <1>3. \/ entrenador' = entrenador /\ atrapados' = atrapados
        \/ entrenador' = [entrenador EXCEPT ![e].estado = "MOVERSE_A_POKEMON"] /\ atrapados' = atrapados
        \/ /\ entrenador' = [entrenador EXCEPT ![e].obtenidos = l, ![e].estado = "RECIBIO_RESPUESTA_OK"]
           /\ atrapados' = agregarPokemon(atrapados, p)
    BY DEF CaAplica
  <1> HIDE DEF e, p
  <1>4. CASE entrenador' = entrenador /\ atrapados' = atrapados
    BY <1>4, QuietosSiguen, SinCambioOK
  <1>5. CASE entrenador' = [entrenador EXCEPT ![e].estado = "MOVERSE_A_POKEMON"] /\ atrapados' = atrapados
    <2> DEFINE estado == "MOVERSE_A_POKEMON"
    <2>1. estado \notin Parejos
      BY DEF Parejos
    <2>2. entrenador' = [entrenador EXCEPT ![e].estado = estado]
      BY <1>5
    <2> HIDE DEF estado
    <2>3. SinCambio
      BY <1>1, <2>1, <2>2, EstadoSigue
    <2> QED BY <1>5, <2>3, SinCambioOK
  <1>6. CASE /\ entrenador' = [entrenador EXCEPT ![e].obtenidos = l, ![e].estado = "RECIBIO_RESPUESTA_OK"]
             /\ atrapados' = agregarPokemon(atrapados, p)
    <2> DEFINE t == [entrenador[e] EXCEPT !.obtenidos = l, !.estado = "RECIBIO_RESPUESTA_OK"]
    <2> HIDE DEF l
    <2>1. \A x \in Entrenadores : entrenador'[x] = IF x = e THEN t ELSE entrenador[x]
      BY <1>1, <1>6 DEF TipoEntrenador, Ficha
    <2>2. t.obtenidos = l /\ t.objetivo = entrenador[e].objetivo /\ t.estado \notin Parejos
      BY <1>1, <1>2 DEF TipoEntrenador, Ficha, Parejos
    <2> HIDE DEF t
    <2>3. /\ \A x \in Entrenadores : x # e => entrenador'[x] = entrenador[x]
          /\ entrenador'[e].obtenidos = agregarPokemon(entrenador[e].obtenidos, p)
          /\ entrenador'[e].objetivo = entrenador[e].objetivo
          /\ entrenador'[e].estado \notin Parejos
      BY <1>2, <2>1, <2>2 DEF l
    <2> QED BY <1>2, <1>6, <2>3, CapturaCuenta
  <1> QED BY <1>3, <1>4, <1>5, <1>6

\* What one term gains and another one loses leaves the sum as it was.
LEMMA SumanHastaIgual ==
    ASSUME NEW n \in Nat, NEW f, NEW x \in Int, SumanHasta(f, n, x), NEW h, NEW j \in 1 .. n, NEW k \in 1 .. n,
           j # k, \A i \in 1 .. n : f[i] \in Int /\ h[i] \in Int,
           h[j] + h[k] = f[j] + f[k], \A i \in 1 .. n : i \notin {j, k} => h[i] = f[i]
    PROVE  SumanHasta(h, n, x)
  <1> DEFINE d == h[j] - f[j]
             m == -d
             g == [i \in 1 .. n |-> IF i = j THEN f[i] + d ELSE f[i]]
  <1>1. d \in Int /\ m \in Int /\ (x + d) + m = x
    OBVIOUS
  <1>2. ConCambio(g, f, n, j, d)
    BY DEF ConCambio
  <1>3. ConCambio(h, g, n, k, m)
    <2> SUFFICES ASSUME NEW i \in 1 .. n
                 PROVE  g[i] \in Int /\ h[i] = IF i = k THEN g[i] + m ELSE g[i]
      BY DEF ConCambio
    <2>1. CASE i = j
      BY <2>1
    <2>2. CASE i = k
      BY <2>2
    <2>3. CASE i \notin {j, k}
      BY <2>3
    <2> QED BY <2>1, <2>2, <2>3
  <1> HIDE DEF d, m, g
  <1>4. SumanHasta(g, n, x + d)
    BY <1>1, <1>2, SumanMas
  <1> DEFINE y == x + d
  <1>5. SumanHasta(g, n, y)
    BY <1>4
  <1> HIDE DEF y
  <1>6. SumanHasta(h, n, y + m)
    BY <1>1, <1>3, <1>5, SumanMas
  <1> QED BY <1>1, <1>6 DEF y

\* Intercambiar: both trainers together have what they had.
LEMMA CuentasIntercambiar ==
    ASSUME IInv, CuentasInv, ListasOK', vivo, NEW e \in Entrenadores, Intercambiar(e)
    PROVE  CuentasInv'
  <1> DEFINE aca == {i \in Candidatos(e) : calcularDistancia(entrenador[e].posicion,
                                              entrenador[colaBlocked[i]].posicion) = 0}
             k == CHOOSE i \in aca : \A j \in aca : j <= i
             otro == colaBlocked[k]
             listas == intercambiarNormalPokemon(entrenador[e], entrenador[otro])
             u == listas.uno
             v == listas.otro
             n == IF esSJF THEN entrenador[e].instruccion + 5 ELSE entrenador[e].instruccion
             a == IF esSJF THEN entrenador[e].actual - 5 * Escala ELSE entrenador[e].actual
  <1>0. UNCHANGED atrapados
    BY DEF Intercambiar, mapa
  <1>1. CASE aca = {}
    <2>1. entrenador' = entrenador
      BY <1>1 DEF Intercambiar
    <2> QED BY <1>0, <2>1, QuietosSiguen, SinCambioOK
  <1>2. CASE aca # {}
    <2>1. TipoEntrenador /\ colaBlocked \in Seq(Entrenadores)
      BY DEF IInv, TiposPlan, TipoColas
    <2>2. otro \in Entrenadores /\ e # otro /\ puedoIntercambiar(entrenador[e], entrenador[otro])
      <3>1. DOMAIN colaBlocked = 1 .. Len(colaBlocked) /\ Len(colaBlocked) \in Nat
        BY <2>1, LenProperties
      <3>2. /\ aca \subseteq DOMAIN colaBlocked
            /\ \A i \in aca : puedoIntercambiar(entrenador[e], entrenador[colaBlocked[i]])
        BY DEF Candidatos, Quieren
      <3>3. k \in aca
        <4>1. \E i \in aca : \A j \in aca : j <= i
          <5> HIDE DEF aca
          <5> QED BY <1>2, <3>1, <3>2, MaximoOK
        <4> HIDE DEF aca
        <4> QED BY <4>1
      <3>4. k \in DOMAIN colaBlocked /\ puedoIntercambiar(entrenador[e], entrenador[otro])
        BY <3>2, <3>3
      <3> HIDE DEF k
      <3>5. otro \in Entrenadores /\ otro \in En(colaBlocked)
        BY <2>1, <3>4, ElementOfSeq DEF En
      <3>6. e \notin En(colaBlocked)
        BY EnTurno DEF Intercambiar, Turno, IInv
      <3> QED BY <3>4, <3>5, <3>6
    <2>3. entrenador' = [entrenador EXCEPT
                ![e].obtenidos = u, ![otro].obtenidos = v,
                ![e].estado = "ACABO_INTERCAMBIO", ![otro].estado = "ACABO_INTERCAMBIO",
                ![e].instruccion = IF esSJF THEN @ + 5 ELSE @,
                ![e].actual = IF esSJF THEN @ - 5 * Escala ELSE @]
      BY <1>2 DEF Intercambiar
    <2>4. ConTodos(entrenador[e])
      <3>1. Estado(e) \in Parejos
        BY DEF Intercambiar, Turno, Parejos
      <3> QED BY <3>1 DEF CuentasInv, Parejo
    <2>5. ASSUME NEW p
          PROVE  list_buscar(u, p) + list_buscar(v, p)
                   = list_buscar(entrenador[e].obtenidos, p) + list_buscar(entrenador[otro].obtenidos, p)
      <3> HIDE DEF otro
      <3> DEFINE e1 == entrenador[e]
                 e2 == entrenador[otro]
      <3>1. Lista(e1.obtenidos) /\ Lista(e2.obtenidos) /\ Lista(e1.objetivo)
        BY <2>2 DEF CuentasInv, ListasOK, ObjetivosOK
      <3>2. ConTodos(e1) /\ puedoIntercambiar(e1, e2)
        BY <2>2, <2>4
      <3> HIDE DEF e1, e2
      <3>3. PICK S : e1.obtenidos \in Listas(S)
        BY <3>1 DEF Lista
      <3>4. PICK T : e2.obtenidos \in Listas(T)
        BY <3>1 DEF Lista
      <3>5. PICK R : e1.objetivo \in Listas(R)
        BY <3>1 DEF Lista
      <3> DEFINE U == S \cup T
      <3>6. e1.obtenidos \in Listas(U) /\ e2.obtenidos \in Listas(U)
        BY <3>3, <3>4, DosEspecies
      <3> HIDE DEF U
      <3>7. /\ e1.obtenidos \in Listas(U \cup R) /\ e2.obtenidos \in Listas(U \cup R)
            /\ e1.objetivo \in Listas(U \cup R)
        BY <3>5, <3>6, DosEspecies
      <3> DEFINE W == U \cup R
      <3>8. /\ e1.obtenidos \in Listas(W) /\ e2.obtenidos \in Listas(W)
            /\ e1.objetivo \in Listas(W)
            /\ cantidadDePokemonesEnLista(e1.obtenidos) = cantidadDePokemonesEnLista(e1.objetivo)
        BY <3>2, <3>7 DEF ConTodos
      <3> HIDE DEF W
      <3>9. list_buscar(intercambiarNormalPokemon(e1, e2).uno, p)
              + list_buscar(intercambiarNormalPokemon(e1, e2).otro, p)
            = list_buscar(e1.obtenidos, p) + list_buscar(e2.obtenidos, p)
        <4>1. puedoIntercambiar(e1, e2)
          BY <3>2
        <4> SUFFICES ASSUME NEW b1, NEW b2, b1 = e1, b2 = e2
                     PROVE  list_buscar(intercambiarNormalPokemon(b1, b2).uno, p)
                              + list_buscar(intercambiarNormalPokemon(b1, b2).otro, p)
                            = list_buscar(b1.obtenidos, p) + list_buscar(b2.obtenidos, p)
          OBVIOUS
        <4>2. /\ b1.obtenidos \in Listas(W) /\ b2.obtenidos \in Listas(W)
              /\ b1.objetivo \in Listas(W) /\ puedoIntercambiar(b1, b2)
              /\ cantidadDePokemonesEnLista(b1.obtenidos) = cantidadDePokemonesEnLista(b1.objetivo)
          BY <3>8, <4>1
        <4> QED BY <4>2, IntercambioConserva
      <3> QED BY <3>9 DEF e1, e2
    <2> HIDE DEF u, v, otro
    <2>6. /\ n \in Int /\ a \in Int
          /\ entrenador = [x \in Entrenadores |-> entrenador[x]]
          /\ Ficha(entrenador[e]) /\ Ficha(entrenador[otro])
      BY <2>1, <2>2, EntrenadorAssumption DEF TipoEntrenador, Ficha
    <2>7. entrenador' = Intercambiado(e, otro, u, v, n, a)
      BY <2>2, <2>3, <2>6 DEF Ficha, Intercambiado
    <2> HIDE DEF n, a
    <2>8. /\ \A x \in Entrenadores : x \notin {e, otro} => entrenador'[x] = entrenador[x]
          /\ entrenador'[e].obtenidos = u /\ entrenador'[otro].obtenidos = v
          /\ \A x \in {e, otro} : entrenador'[x].estado = "ACABO_INTERCAMBIO"
      BY <2>1, <2>2, <2>6, <2>7, TrasIntercambio
    <2>9. entrenador'[e].objetivo = entrenador[e].objetivo /\ entrenador'[otro].objetivo = entrenador[otro].objetivo
      BY <2>2, <2>6, <2>7 DEF Intercambiado, Ficha
    <2>10. ObjetivosOK'
      BY <2>8, <2>9 DEF CuentasInv, ObjetivosOK
    <2>11. Parejo'
      <3> SUFFICES ASSUME NEW x \in Entrenadores, entrenador'[x].estado \in Parejos
                   PROVE  ConTodos(entrenador'[x])
        BY DEF Parejo, Estado
      <3>1. x \notin {e, otro}
        BY <2>8 DEF Parejos
      <3> QED BY <2>8, <3>1 DEF CuentasInv, Parejo, Estado
    <2>12. ASSUME NEW p
           PROVE  SumanHasta(Tienen(p)', cantidadDeEntrenadores, list_buscar(atrapados, p))
      <3> DEFINE f == Tienen(p)
                 h == Tienen(p)'
                 m == cantidadDeEntrenadores
                 x == list_buscar(atrapados, p)
      <3>1. m \in Nat /\ Entrenadores = 1 .. m
        BY PlanificadoresAssumption DEF Entrenadores
      <3>2. \A i \in 1 .. m : f[i] = list_buscar(entrenador[i].obtenidos, p) /\ f[i] \in Int
        BY <3>1, TienenOK DEF CuentasInv
      <3>3. \A i \in 1 .. m : h[i] = list_buscar(entrenador'[i].obtenidos, p)
        BY <3>1 DEF Tienen
      <3>4. \A i \in 1 .. m : h[i] \in Int
        <4> TAKE i \in 1 .. m
        <4> DEFINE l == entrenador'[i].obtenidos
        <4>1. PICK S : l \in Listas(S)
          BY <3>1 DEF ListasOK, Lista
        <4>2. h[i] = list_buscar(l, p)
          BY <3>3
        <4> HIDE DEF l, h
        <4> QED BY <4>1, <4>2, BuscarOK
      <3>5. e \in 1 .. m /\ otro \in 1 .. m /\ e # otro
        BY <2>2, <3>1
      <3>6. h[e] + h[otro] = f[e] + f[otro]
        BY <2>5, <2>8, <3>2, <3>3, <3>5
      <3>7. \A i \in 1 .. m : i \notin {e, otro} => h[i] = f[i]
        BY <2>8, <3>1, <3>2, <3>3
      <3>8. x \in Int /\ SumanHasta(f, m, x)
        <4>1. PICK S : atrapados \in Listas(S)
          BY DEF CuentasInv, SumasOK, Lista
        <4>2. x \in Nat
          BY <4>1, BuscarOK
        <4> QED BY <4>2 DEF CuentasInv, SumasOK
      <3> HIDE DEF f, h, m, x
      <3>9. SumanHasta(h, m, x)
        BY <3>1, <3>2, <3>4, <3>5, <3>6, <3>7, <3>8, SumanHastaIgual
      <3> QED BY <3>9 DEF h, m, x
    <2>13. SumasOK'
      BY <1>0, <2>12 DEF SumasOK, CuentasInv
    <2> QED BY <2>10, <2>11, <2>13 DEF CuentasInv
  <1> QED BY <1>1, <1>2

LEMMA CuentasNext ==
    ASSUME IInv, CuentasInv, Next
    PROVE  CuentasInv'
  <1>0. ListasOK'
    BY ListasNext DEF CuentasInv
  <1>1. vivo
    BY DEF Next, Corriendo
  <1>2. SinCambio /\ UNCHANGED atrapados => CuentasInv'
    BY <1>0, SinCambioOK
  <1>3. UNCHANGED <<entrenador, atrapados>> => CuentasInv'
    BY <1>2, QuietosSiguen
  <1>4. CASE Plan
    <2>1. CASE CortoPlazo \/ MedianoPlazo
      BY <1>1, <1>2, <2>1, PlanificadoresSiguen
    <2>2. ASSUME NEW e \in Entrenadores, Entrenador(e) PROVE CuentasInv'
      <3>1. CASE AtraparPorDefecto(e)
        BY <1>0, <3>1, CuentasAtrapar
      <3>2. CASE Intercambiar(e)
        BY <1>0, <1>1, <3>2, CuentasIntercambiar
      <3>3. CASE ~AtraparPorDefecto(e) /\ ~Intercambiar(e)
        BY <1>2, <2>2, <3>3, EntrenadorSigue
      <3> QED BY <3>1, <3>2, <3>3
    <2> QED BY <1>4, <2>1, <2>2 DEF Plan, PlanNext
  <1>5. ASSUME NEW m \in Ids, Llegada(m) PROVE CuentasInv'
    <2>1. CASE procesar_msg_appeared(m) \/ process_msjs_gameboy(m) \/ procesar_msg_localized(m)
      BY <1>3, <2>1 DEF procesar_msg_appeared, process_msjs_gameboy, procesar_msg_localized, Aparece,
                        planVars, mapa
    <2>2. CASE ApMapa(m) \/ Evaluar(m) \/ ApAgrega(m) \/ LocAvisa(m) \/ LocAgrega(m) \/ Activar(m)
      BY <1>3, <2>2 DEF ApMapa, Evaluar, ApAgrega, LocAvisa, LocAgrega, Activar, planVars, mapa
    <2> QED BY <1>5, <2>1, <2>2 DEF Llegada
  <1>6. ASSUME NEW p \in Objetivo, GetEnvia(p) \/ GetAnota(p) PROVE CuentasInv'
    BY <1>3, <1>6 DEF GetEnvia, GetAnota, planVars, mapa
  <1>7. ASSUME NEW en \in envios, Envio(en) PROVE CuentasInv'
    BY <1>3, <1>7 DEF Envio, CatchConecta, CatchEnvia, CatchRechazado, CatchCortado, CatchSinBroker,
                        CatchAnota, mapa
  <1>8. ASSUME NEW id \in broker.pendientes, BrokerResponde(id) PROVE CuentasInv'
    BY <1>3, <1>8 DEF BrokerResponde, planVars, mapa
  <1>9. ASSUME NEW c \in caughts, procesar_msg_caught(c) PROVE CuentasInv'
    <2>1. CASE CaBusca(c) \/ CaEntrenador(c)
      BY <1>3, <2>1 DEF CaBusca, CaEntrenador, planVars, mapa
    <2>2. CASE CaAplica(c)
      BY <1>0, <1>1, <1>9, <2>2, CuentasAplica
    <2> QED BY <1>9, <2>1, <2>2 DEF procesar_msg_caught
  <1>10. CASE BrokerCae \/ BrokerVuelve
    BY <1>3, <1>10 DEF BrokerCae, BrokerVuelve, planVars, mapa
  <1> QED BY <1>4, <1>5, <1>6, <1>7, <1>8, <1>9, <1>10 DEF Next

LEMMA CuentasInit ==
    ASSUME Init
    PROVE  CuentasInv
  <1>1. /\ entrenador = [e \in Entrenadores |-> iniciar_entrenador(e)]
        /\ atrapados = Acumulados(Obtenidos)
    BY DEF Init, PlanInit, cargar_obtenidos_global
  <1>2. ASSUME NEW e \in Entrenadores
        PROVE  /\ entrenador[e].obtenidos = extraer_pokemones_entrenadores(Obtenidos[e])
               /\ entrenador[e].objetivo = extraer_pokemones_entrenadores(Objetivos[e])
               /\ Estado(e) \notin Parejos
               /\ Lista(entrenador[e].obtenidos) /\ Lista(entrenador[e].objetivo)
    <2>1. /\ entrenador[e].obtenidos = extraer_pokemones_entrenadores(Obtenidos[e])
          /\ entrenador[e].objetivo = extraer_pokemones_entrenadores(Objetivos[e])
          /\ Estado(e) = "MOVERSE_A_POKEMON"
      BY <1>1 DEF iniciar_entrenador, Estado
    <2>2. /\ extraer_pokemones_entrenadores(Obtenidos[e]) \in Listas(Especies)
          /\ extraer_pokemones_entrenadores(Objetivos[e]) \in Listas(Especies)
      BY PlanificadoresAssumption, ExtraerOK
    <2> QED BY <2>1, <2>2 DEF Lista, Parejos
  <1>3. /\ Acumulados(Obtenidos) \in Listas(Especies)
        /\ \A p : SumanHasta([e \in Entrenadores |->
                            list_buscar(extraer_pokemones_entrenadores(Obtenidos[e]), p)],
                        cantidadDeEntrenadores, list_buscar(Acumulados(Obtenidos), p))
    BY PlanificadoresAssumption, AcumuladosOK
  <1>4. \A p : Tienen(p) = [e \in Entrenadores |->
                               list_buscar(extraer_pokemones_entrenadores(Obtenidos[e]), p)]
    BY <1>2 DEF Tienen
  <1>5. SumasOK
    BY <1>1, <1>3, <1>4 DEF SumasOK, Lista
  <1> QED BY <1>2, <1>5 DEF CuentasInv, ListasOK, ObjetivosOK, Parejo

\* A step, or none, keeps the lists and the sums.
LEMMA CuentasPaso ==
    IInv /\ CuentasInv /\ [Next]_vars => CuentasInv'
  <1> SUFFICES ASSUME IInv, CuentasInv, [Next]_vars PROVE CuentasInv'
    OBVIOUS
  <1>1. CASE Next
    BY <1>1, CuentasNext
  <1>2. CASE UNCHANGED vars
    BY <1>2 DEF vars, planVars, mapa, CuentasInv, ListasOK, ObjetivosOK, Parejo, SumasOK, Estado, Tienen
  <1> QED BY <1>1, <1>2

\* What the invariant says of the sums is what AtrapadosExactos says.
LEMMA CuentasExactas ==
    ASSUME CuentasInv
    PROVE  AtrapadosExactos
  <1> SUFFICES ASSUME NEW p \in Especies
               PROVE  LET hasta[e \in 0 .. cantidadDeEntrenadores] ==
                              IF e = 0 THEN 0 ELSE hasta[e - 1] + list_buscar(entrenador[e].obtenidos, p)
                      IN list_buscar(atrapados, p) = hasta[cantidadDeEntrenadores]
    BY DEF AtrapadosExactos
  <1> DEFINE n == cantidadDeEntrenadores
             f == Tienen(p)
             hasta[e \in 0 .. cantidadDeEntrenadores] ==
                 IF e = 0 THEN 0 ELSE hasta[e - 1] + list_buscar(entrenador[e].obtenidos, p)
  <1>1. n \in Nat /\ Entrenadores = 1 .. n
    BY PlanificadoresAssumption DEF Entrenadores
  <1>2. \A e \in 1 .. n : f[e] = list_buscar(entrenador[e].obtenidos, p) /\ f[e] \in Int
    BY <1>1, TienenOK DEF CuentasInv
  <1>3. PICK s : EsSumaParcial(s, f, n) /\ list_buscar(atrapados, p) = s[n]
    BY DEF CuentasInv, SumasOK, SumanHasta
  <1> HIDE DEF f, n
  <1>4. s = [e \in 0 .. n |-> IF e = 0 THEN 0 ELSE s[e - 1] + f[e]]
    BY <1>1, <1>3, RecursivaDeSuma
  <1>5. s = [e \in 0 .. n |-> IF e = 0 THEN 0 ELSE s[e - 1] + list_buscar(entrenador[e].obtenidos, p)]
    BY <1>1, <1>2, <1>4
  <1>6. hasta = [e \in 0 .. n |-> IF e = 0 THEN 0 ELSE hasta[e - 1] + list_buscar(entrenador[e].obtenidos, p)]
    BY <1>5 DEF n
  <1>7. hasta = [e \in 0 .. n |-> IF e = 0 THEN 0 ELSE hasta[e - 1] + f[e]]
    <2> HIDE DEF hasta
    <2> QED BY <1>1, <1>2, <1>6
  <1>8. EsSumaParcial(hasta, f, n)
    <2> HIDE DEF hasta
    <2> QED BY <1>1, <1>2, <1>7, SumaRecursiva
  <1>9. hasta[n] = s[n]
    <2> HIDE DEF hasta
    <2> QED BY <1>1, <1>2, <1>3, <1>8, SumaUnica
  <1> QED BY <1>3, <1>9 DEF n

\* The pokemons caught by the Team are those of its trainers: what agregarPokemon adds when
\* one is caught is added on both sides, and intercambiarNormalPokemon neither loses one nor
\* makes one up.
THEOREM AtrapadosSiempreExactos ==
    SinAjenos => (Spec => [](Mezcla \/ AtrapadosExactos))
  <1>1. Init => CuentasInv
    BY CuentasInit
  <1>2. IInv /\ CuentasInv /\ [Next]_vars => CuentasInv'
    BY CuentasPaso
  <1>3. CuentasInv => AtrapadosExactos
    BY CuentasExactas
  <1>4. IdsInv /\ [Next]_vars => IdsInv'
    BY IdsNext
  <1> QED BY <1>1, <1>2, <1>3, <1>4, Invariante, IdsInit, MezclaQueda, PTL DEF Spec
-----------------------------------------------------------------------------
(* The signals of the short term planner. *)

\* The trainers sent to READY whose signal the medium term planner has still to give.
PorAvisar == IF mp.pc \in {"pokemon", "asigna"} THEN mp.encontre ELSE 0

\* There are in READY at least as many trainers as signals, given or owed, and n more.
Avisos(n) == sem.cplazoReady + n + PorAvisar <= Len(colaReady)

\* While esLAPrimeraVez is 2 no trainer has moved, and the medium term planner has had a
\* turn at most: it sends trainers to READY before it signals the first one.
AlPrincipio ==
    /\ sem.cplazoEntrenador = 0
    /\ \A e \in Entrenadores :
          Estado(e) = "MOVERSE_A_POKEMON" /\ hilo[e].pc \in {"espera", "mueve"}
    /\ \/ /\ sem.mplazo = 1 /\ mp.pc \in {"inicio", "espera"}
          /\ colaReady = <<>> /\ cp.pc = "espera"
       \/ /\ sem.mplazo = 0 /\ mp.pc \in {"revisa", "pokemon", "asigna", "otro"}
          /\ sem.cplazoReady = 0 /\ cp.pc = "espera"
       \/ sem.mplazo = 0 /\ mp.pc \in {"detecta", "espera"}

\* The first trainer that moved, on its way from the CPU to READY.  It gets there with no
\* signal: MpOtro signals the medium term planner instead.
EnMarcha(x) ==
    \/ /\ EnCpu(x) /\ sem.cplazoEntrenador = 1
       /\ sem.mplazo = 0 /\ mp.pc \in {"detecta", "espera"}
    \/ /\ x \in En(colaBlocked) /\ cp.pc = "espera"
       /\ \/ sem.mplazo = 1 /\ mp.pc \in {"detecta", "espera"}
          \/ sem.mplazo = 0 /\ mp.pc \in {"revisa", "otro"}
    \/ /\ x \in En(colaReady) /\ cp.pc = "espera" /\ Avisos(1)
       /\ \/ sem.mplazo = 1 /\ mp.pc \in {"detecta", "espera"}
          \/ sem.mplazo = 0 /\ mp.pc \in {"revisa", "pokemon", "asigna"}
    \/ /\ x \in En(colaReady) /\ cp.pc = "espera"
       /\ sem.mplazo = 0 /\ mp.pc \in {"otro", "detecta", "espera"}

\* While esLAPrimeraVez is 1 one trainer has moved, once.
ElPrimero ==
    \E x \in Entrenadores :
       /\ Estado(x) \in {"ATRAPAR", "SEGUIR_MOVIENDOSE"}
       /\ \A e \in Entrenadores \ {x} : Estado(e) = "MOVERSE_A_POKEMON"
       /\ EnMarcha(x)

Senales ==
    /\ glob.finalizarProceso =>
          Len(colaExit) = cantidadDeEntrenadores /\ mp.pc \in {"espera", "fin"}
    /\ ~glob.finalizarProceso =>
          /\ Avisos(0)
          /\ glob.esLAPrimeraVez = 2 => AlPrincipio
          /\ glob.esLAPrimeraVez = 1 => ElPrimero

\* A trainer in EXIT, or one in BLOCKED that waits for an exchange.
Parado(e) == e \in En(colaExit) \/ (e \in En(colaBlocked) /\ Estado(e) = "DEADLOCK")

Trueques == {"MOVERSE_A_ENTRENADOR", "INTERCAMBIAR"}

\* A trainer goes for an exchange only when there is nothing else to do, and alone.
Solos ==
    /\ mp.pc \in {"pokemon", "asigna", "otro", "detecta", "deadlock"} =>
          Len(colaExit) < cantidadDeEntrenadores
    /\ mp.pc = "deadlock" => \A e \in Entrenadores : Parado(e)
    /\ \A e \in Entrenadores : Estado(e) \in Trueques =>
          /\ mp.pc \notin {"pokemon", "asigna", "deadlock"}
          /\ \A x \in Entrenadores \ {e} : Parado(x)

\* A list that repeats none has as many elements as its length.
LEMMA LargoOK ==
    ASSUME NEW S, NEW q \in Seq(S), SinRepetir(q)
    PROVE  IsFiniteSet(En(q)) /\ Cardinality(En(q)) = Len(q) /\ Len(q) \in Nat /\ En(q) \subseteq S
  <1>1. DOMAIN q = 1 .. Len(q) /\ Len(q) \in Nat
    BY LenProperties
  <1>2. Cardinality(1 .. Len(q)) = Len(q)
    <2>1. Cardinality(1 .. Len(q)) = IF 1 > Len(q) THEN 0 ELSE Len(q) - 1 + 1
      BY <1>1, FS_Interval
    <2> QED BY <1>1, <2>1
  <1> DEFINE I == DOMAIN q
  <1>3. /\ IsFiniteSet({q[i] : i \in I})
        /\ Cardinality({q[i] : i \in I}) = Cardinality(I)
    BY CuantosOK
  <1>4. En(q) \subseteq S
    BY <1>1, ElementOfSeq DEF En
  <1> QED BY <1>1, <1>2, <1>3, <1>4 DEF En

\* A queue with as many trainers as there are has them all.
LEMMA TodosOcupados ==
    ASSUME TiposPlan, Lugares
    PROVE  /\ Len(colaExit) \in Nat /\ Len(colaBlocked) \in Nat /\ Len(colaReady) \in Nat
           /\ Len(colaExit) <= cantidadDeEntrenadores
           /\ Len(colaExit) = cantidadDeEntrenadores => En(colaExit) = Entrenadores
           /\ En(colaExit) = Entrenadores => Len(colaExit) = cantidadDeEntrenadores
           /\ Len(colaBlocked) = cantidadDeEntrenadores - Len(colaExit) =>
                 En(colaBlocked) \cup En(colaExit) = Entrenadores
           /\ En(colaExit) \subseteq Entrenadores /\ En(colaBlocked) \subseteq Entrenadores
  <1> DEFINE X == En(colaExit)
             B == En(colaBlocked)
             n == cantidadDeEntrenadores
  <1>1. n \in Nat /\ Entrenadores = 1 .. n
    BY PlanificadoresAssumption DEF Entrenadores
  <1>2. IsFiniteSet(Entrenadores) /\ Cardinality(Entrenadores) = n
    BY <1>1, FS_Interval
  <1>3. /\ colaExit \in Seq(Entrenadores) /\ SinRepetir(colaExit)
        /\ colaBlocked \in Seq(Entrenadores) /\ SinRepetir(colaBlocked)
        /\ colaReady \in Seq(Entrenadores)
        /\ X \cap B = {}
    BY DEF TiposPlan, TipoColas, Lugares
  <1>7. IsFiniteSet(X) /\ Cardinality(X) = Len(colaExit) /\ Len(colaExit) \in Nat
        /\ X \subseteq Entrenadores
    BY <1>3, LargoOK
  <1>8. IsFiniteSet(B) /\ Cardinality(B) = Len(colaBlocked) /\ Len(colaBlocked) \in Nat
        /\ B \subseteq Entrenadores
    BY <1>3, LargoOK
  <1>4. Len(colaReady) \in Nat
    BY <1>3, LenProperties
  <1> HIDE DEF X, B, n
  <1>9. /\ Len(colaExit) <= n /\ (Len(colaExit) = n => X = Entrenadores)
    BY <1>2, <1>7, FS_Subset
  <1>10. Len(colaBlocked) = n - Len(colaExit) => B \cup X = Entrenadores
    <2>1. IsFiniteSet(B \cup X)
          /\ Cardinality(B \cup X) = Cardinality(B) + Cardinality(X) - Cardinality(B \cap X)
      BY <1>7, <1>8, FS_Union
    <2>2. Cardinality(B \cap X) = 0
      <3>1. B \cap X = {}
        BY <1>3
      <3> QED BY <3>1, FS_EmptySet
    <2>3. Cardinality(B \cup X) = Len(colaBlocked) + Len(colaExit)
      BY <1>7, <1>8, <2>1, <2>2
    <2>4. B \cup X \in SUBSET Entrenadores
      BY <1>7, <1>8
    <2>5. Cardinality(Entrenadores) = Cardinality(B \cup X) => Entrenadores = B \cup X
      BY <1>2, <2>4, FS_Subset
    <2> QED BY <1>1, <1>2, <1>7, <1>8, <2>3, <2>5
  <1>11. X = Entrenadores => Len(colaExit) = n
    BY <1>2, <1>7
  <1> QED BY <1>4, <1>7, <1>8, <1>9, <1>10, <1>11 DEF X, B, n

\* The numbers the signals are counted with.
LEMMA NumerosOK ==
    ASSUME TiposPlan
    PROVE  /\ sem.cplazoReady \in Nat /\ sem.mplazo \in Nat /\ sem.cplazoEntrenador \in Nat
           /\ mp.encontre \in Nat /\ PorAvisar \in Nat /\ Len(colaReady) \in Nat
           /\ glob.esLAPrimeraVez \in 0 .. 2 /\ glob.finalizarProceso \in BOOLEAN
  BY LenProperties DEF TiposPlan, TipoSem, Semaforos, TipoPlanificadores, TipoColas, TipoGlob, PorAvisar

\* The signals depend on the queues, the planners and the states.
LEMMA MarcoSenales ==
    ASSUME Senales, UNCHANGED <<colaReady, colaBlocked, colaExit, cp, mp>>, MismoEstado, MismosPlazos,
           \A e \in Entrenadores : hilo'[e].pc \in {hilo[e].pc, "espera", "mueve"},
           sem'.cplazoReady = sem.cplazoReady, sem'.mplazo = sem.mplazo,
           glob'.finalizarProceso = glob.finalizarProceso, glob'.esLAPrimeraVez = glob.esLAPrimeraVez
    PROVE  Senales'
  BY DEF Senales, AlPrincipio, ElPrimero, EnMarcha, Avisos, PorAvisar, EnCpu, Estado, MismoEstado,
         MismosPlazos

\* Solos, when no queue it speaks of changes and no trainer changes its state.
LEMMA MarcoSolos ==
    ASSUME Solos, UNCHANGED <<colaBlocked, colaExit, mp>>, MismoEstado
    PROVE  Solos'
  BY DEF Solos, Parado, Estado, MismoEstado

\* Solos, when one trainer changes its state and goes for no exchange that it did not go for.
LEMMA MarcoSolosUno ==
    ASSUME Solos, UNCHANGED <<colaBlocked, colaExit, mp>>, NEW e \in Entrenadores,
           e \notin En(colaBlocked), e \notin En(colaExit),
           \A x \in Entrenadores \ {e} : entrenador'[x].estado = entrenador[x].estado,
           entrenador'[e].estado \in Trueques => Estado(e) \in Trueques
    PROVE  Solos'
  BY DEF Solos, Parado, Estado

\* After the first turns only the count of the signals matters.
LEMMA MarcoAvisos ==
    ASSUME Senales, glob'.finalizarProceso = glob.finalizarProceso,
           glob.esLAPrimeraVez = 0, glob'.esLAPrimeraVez = 0,
           UNCHANGED <<colaReady, colaExit, mp>>, sem'.cplazoReady = sem.cplazoReady
    PROVE  Senales'
  BY DEF Senales, Avisos, PorAvisar

\* In the first turns no trainer waits for an exchange or for the planner to look at it.
LEMMA PrimerosTurnos ==
    ASSUME Senales, ~glob.finalizarProceso, glob.esLAPrimeraVez \in {1, 2}, NEW e \in Entrenadores
    PROVE  Estado(e) \in {"MOVERSE_A_POKEMON", "ATRAPAR", "SEGUIR_MOVIENDOSE"}
  BY DEF Senales, AlPrincipio, ElPrimero

\* A trainer that sends a CATCH, or whose turn is not to start its first way, comes later.
LEMMA DespuesDelPrimero ==
    ASSUME IInv, vivo, Senales, NEW e \in Entrenadores, EnCpu(e),
           \/ hilo[e].pc \in {"envia", "caught"}
           \/ semEntrenador[e] = 1 /\ Estado(e) # "MOVERSE_A_POKEMON"
    PROVE  glob.esLAPrimeraVez = 0 /\ ~glob.finalizarProceso
  <1>1. ~glob.finalizarProceso
    <2>1. e \notin En(colaExit)
      BY DEF IInv, Lugares
    <2> QED BY <2>1, TodosOcupados DEF IInv, Senales
  <1>2. sem.cplazoEntrenador = 0
    <2>1. semEntrenador[e] \in {0, 1} /\ sem.cplazoEntrenador \in Nat
      BY DEF IInv, TiposPlan, TipoSem, Semaforos
    <2>2. semEntrenador[e] + (IF Activo(e) THEN 1 ELSE 0) + sem.cplazoEntrenador = 1
      BY DEF IInv, Protocolo, Turnos
    <2> QED BY <2>1, <2>2 DEF Activo
  <1>3. cp.pc = "turno" /\ cp.entrenador = e
    BY DEF EnCpu
  <1>4. glob.esLAPrimeraVez # 2
    BY <1>1 DEF Senales, AlPrincipio
  <1>5. glob.esLAPrimeraVez # 1
    BY <1>1, <1>2, <1>3 DEF Senales, ElPrimero, EnMarcha
  <1> QED BY <1>1, <1>4, <1>5, NumerosOK DEF IInv
-----------------------------------------------------------------------------
(* The steps keep Senales and Solos. *)

Orden == Senales /\ Solos

\* CpTermina, MpActiva, MpEspera, MpPokemon and MpTermina: the planners wait and end.
LEMMA CpTerminaEnOrden ==
    ASSUME IInv, Orden, CpTermina
    PROVE  Orden'
  <1>1. glob.finalizarProceso /\ UNCHANGED <<entrenador, colas, mp, glob>>
    BY DEF CpTermina
  <1>2. Senales'
    BY <1>1 DEF Orden, Senales, colas
  <1>3. Solos'
    BY <1>1, MarcoSolos DEF Orden, MismoEstado, colas
  <1> QED BY <1>2, <1>3 DEF Orden

\* The medium term planner gets its first signal.
LEMMA MpActivaEnOrden ==
    ASSUME IInv, Orden, MpActiva
    PROVE  Orden'
  <1>1. /\ mp.pc = "inicio" /\ mp'.pc = "espera" /\ mp'.encontre = mp.encontre
        /\ UNCHANGED <<entrenador, hilo, colaReady, colaBlocked, colaExit, cp, glob>>
        /\ MismosPlazos /\ sem'.cplazoReady = sem.cplazoReady /\ sem'.mplazo = sem.mplazo
    BY DEF MpActiva, colas, Post, MismosPlazos, IInv, TiposPlan, TipoPlanificadores, TipoSem, Semaforos
  <1>2. Senales'
    BY <1>1 DEF Orden, Senales, AlPrincipio, ElPrimero, EnMarcha, Avisos, PorAvisar, EnCpu,
           Estado, MismosPlazos
  <1>3. Solos'
    BY <1>1 DEF Orden, Solos, Parado, Estado
  <1> QED BY <1>2, <1>3 DEF Orden

\* It takes a signal and starts its turn.
LEMMA MpEsperaEnOrden ==
    ASSUME IInv, Orden, MpEspera
    PROVE  Orden'
  <1>1. /\ mp.pc = "espera" /\ mp'.pc = "revisa" /\ ~glob.finalizarProceso
        /\ UNCHANGED <<entrenador, hilo, colaReady, colaBlocked, colaExit, cp, glob>>
        /\ MismosPlazos /\ sem'.cplazoReady = sem.cplazoReady
        /\ sem'.mplazo = sem.mplazo - 1 /\ sem.mplazo > 0 /\ sem.mplazo \in Nat
    BY DEF MpEspera, colas, Post, MismosPlazos, IInv, TiposPlan, TipoPlanificadores, TipoSem, Semaforos
  <1>2. Avisos(0)' /\ (Avisos(1) => Avisos(1)')
    BY <1>1 DEF Orden, Senales, Avisos, PorAvisar
  <1>3. glob'.esLAPrimeraVez = 2 => AlPrincipio'
    <2>1. glob.esLAPrimeraVez = 2 => sem.mplazo = 1 /\ AlPrincipio
      BY <1>1 DEF Orden, Senales, AlPrincipio
    <2>2. glob.esLAPrimeraVez = 2 => sem.cplazoReady = 0
      <3>1. glob.esLAPrimeraVez = 2 => colaReady = <<>> /\ sem.cplazoReady + 0 + 0 <= Len(colaReady)
        BY <1>1 DEF Orden, Senales, AlPrincipio, Avisos, PorAvisar
      <3> QED BY <3>1, NumerosOK DEF IInv
    <2> QED BY <1>1, <2>1, <2>2 DEF AlPrincipio, Estado, MismosPlazos
  <1>4. glob'.esLAPrimeraVez = 1 => ElPrimero'
    <2>1. ASSUME NEW x \in Entrenadores, EnMarcha(x) PROVE EnMarcha(x)'
      BY <1>1, <1>2, <2>1 DEF EnMarcha, EnCpu, MismosPlazos
    <2> QED BY <1>1, <2>1 DEF Orden, Senales, ElPrimero, Estado
  <1>5. Senales'
    BY <1>1, <1>2, <1>3, <1>4 DEF Senales
  <1>6. Solos'
    BY <1>1 DEF Orden, Solos, Parado, Estado
  <1> QED BY <1>5, <1>6 DEF Orden

\* It takes the signal of a pokemon.
LEMMA MpPokemonEnOrden ==
    ASSUME IInv, Orden, MpPokemon
    PROVE  Orden'
  <1>1. /\ mp.pc = "pokemon" /\ mp'.pc = "asigna" /\ mp'.encontre = mp.encontre
        /\ UNCHANGED <<entrenador, hilo, colaReady, colaBlocked, colaExit, cp, glob>>
        /\ MismosPlazos /\ sem'.cplazoReady = sem.cplazoReady /\ sem'.mplazo = sem.mplazo
    BY DEF MpPokemon, colas, Post, MismosPlazos, IInv, TiposPlan, TipoPlanificadores, TipoSem, Semaforos
  <1>2. Senales'
    BY <1>1 DEF Orden, Senales, AlPrincipio, ElPrimero, EnMarcha, Avisos, PorAvisar, EnCpu,
           Estado, MismosPlazos
  <1>3. Solos'
    BY <1>1 DEF Orden, Solos, Parado, Estado
  <1> QED BY <1>2, <1>3 DEF Orden

\* It ends with the process.
LEMMA MpTerminaEnOrden ==
    ASSUME IInv, Orden, MpTermina
    PROVE  Orden'
  <1>1. /\ mp'.pc = "fin" /\ glob.finalizarProceso
        /\ UNCHANGED <<entrenador, colaBlocked, colaExit, glob>>
    BY DEF MpTermina, colas, liberar_variables_globales, IInv, TiposPlan, TipoPlanificadores
  <1>2. Senales'
    BY <1>1 DEF Orden, Senales
  <1>3. Solos'
    BY <1>1 DEF Orden, Solos, Parado, Estado
  <1> QED BY <1>2, <1>3 DEF Orden

\* MpTodosEnExit: the end is asked for when every trainer is in EXIT.
LEMMA MpTodosEnExitEnOrden ==
    ASSUME IInv, Orden, MpTodosEnExit
    PROVE  Orden'
  <1>1. /\ mp'.pc = "espera" /\ glob'.finalizarProceso /\ Len(colaExit) = cantidadDeEntrenadores
        /\ UNCHANGED <<entrenador, colaBlocked, colaExit>>
    BY DEF MpTodosEnExit, colas, IInv, TiposPlan, TipoPlanificadores, TipoGlob
  <1>2. Senales'
    BY <1>1 DEF Orden, Senales
  <1>3. Solos'
    BY <1>1 DEF Orden, Solos, Parado, Estado
  <1> QED BY <1>2, <1>3 DEF Orden

\* MpAvisa: the signals owed are given; while esLAPrimeraVez is 1 one more, the one that
\* the trainer that moved first did not get.
LEMMA MpAvisaEnOrden ==
    ASSUME IInv, Orden, MpAvisa
    PROVE  Orden'
  <1> DEFINE n == IF glob.esLAPrimeraVez = 1 THEN 1 ELSE 0
  <1>1. /\ mp.pc = "asigna" /\ mp'.pc \in {"otro", "detecta"}
        /\ mp'.pc = IF mp.encontre = 0 THEN "otro" ELSE "detecta"
        /\ UNCHANGED <<entrenador, hilo, colaReady, colaBlocked, colaExit, cp, glob>>
        /\ MismosPlazos /\ sem'.mplazo = sem.mplazo
        /\ sem'.cplazoReady = sem.cplazoReady + (mp.encontre + n)
    BY DEF MpAvisa, colas, Post, MismosPlazos, IInv, TiposPlan, TipoPlanificadores, TipoSem, Semaforos
  <1>2. /\ sem.cplazoReady \in Nat /\ mp.encontre \in Nat /\ Len(colaReady) \in Nat
    BY NumerosOK DEF IInv
  <1>3. ~glob.finalizarProceso
    BY <1>1 DEF Orden, Senales
  <1>4. glob.esLAPrimeraVez = 1 => Avisos(1)
    BY <1>1, <1>3 DEF Orden, Senales, ElPrimero, EnMarcha
  <1>5. Avisos(0)'
    <2>1. sem.cplazoReady + n + mp.encontre <= Len(colaReady)
      BY <1>1, <1>2, <1>3, <1>4 DEF Orden, Senales, Avisos, PorAvisar
    <2> HIDE DEF n
    <2>2. n \in Nat
      BY DEF n
    <2>3. PorAvisar' = 0
      BY <1>1 DEF PorAvisar
    <2> QED BY <1>1, <1>2, <2>1, <2>2, <2>3 DEF Avisos
  <1>6. glob'.esLAPrimeraVez = 2 => AlPrincipio'
    <2>1. glob.esLAPrimeraVez = 2 /\ mp.encontre = 0 => sem'.cplazoReady = sem.cplazoReady
      BY <1>1, <1>2
    <2> QED BY <1>1, <1>3, <2>1 DEF Orden, Senales, AlPrincipio, Estado, MismosPlazos
  <1>7. glob'.esLAPrimeraVez = 1 => ElPrimero'
    <2>1. ASSUME NEW x \in Entrenadores, EnMarcha(x) PROVE EnMarcha(x)'
      BY <1>1, <2>1 DEF EnMarcha, EnCpu, MismosPlazos
    <2> QED BY <1>1, <1>3, <2>1 DEF Orden, Senales, ElPrimero, Estado
  <1>8. Senales'
    BY <1>1, <1>3, <1>5, <1>6, <1>7 DEF Senales
  <1>9. Solos'
    BY <1>1 DEF Orden, Solos, Parado, Estado
  <1> QED BY <1>8, <1>9 DEF Orden

\* MpMira: with the trainer that moved first in BLOCKED the planner does not wait for
\* pokemons, and neither with one that goes for an exchange.
LEMMA MpMiraEnOrden ==
    ASSUME IInv, vivo, Orden, MpMira
    PROVE  Orden'
  <1> DEFINE n == Cardinality(Quieren({"MOVERSE_A_POKEMON"}))
             pokemon == n # 0 /\ todosQuierenMoverseAPokemon /\ ~todosEstanBloqueados
  <1>1. /\ mp.pc = "revisa" /\ mp'.pc = IF pokemon THEN "pokemon" ELSE "otro"
        /\ mp'.encontre = 0 /\ Len(colaExit) < cantidadDeEntrenadores
        /\ UNCHANGED <<entrenador, hilo, colaReady, colaBlocked, colaExit, cp, glob, sem>>
    BY DEF MpMira, colas, IInv, TiposPlan, TipoPlanificadores
  <1>2. ~glob.finalizarProceso
    BY <1>1 DEF Orden, Senales
  <1>3. PorAvisar = 0 /\ PorAvisar' = 0
    BY <1>1 DEF PorAvisar
  <1>4. Avisos(0)' /\ (Avisos(1) => Avisos(1)')
    BY <1>1, <1>2, <1>3 DEF Orden, Senales, Avisos
  <1>5. ASSUME NEW x \in En(colaBlocked), Estado(x) \in {"ATRAPAR", "SEGUIR_MOVIENDOSE"}
        PROVE  mp'.pc = "otro"
    BY <1>1, <1>5 DEF todosQuierenMoverseAPokemon, Quieren, Estados, En
  <1>6. ASSUME mp'.pc = "pokemon" PROVE \E x \in En(colaBlocked) : Estado(x) = "MOVERSE_A_POKEMON"
    <2>1. Quieren({"MOVERSE_A_POKEMON"}) # {}
      BY <1>1, <1>6, FS_EmptySet
    <2> QED BY <2>1 DEF Quieren, En
  <1> HIDE DEF pokemon, n
  <1>7. glob'.esLAPrimeraVez = 2 => AlPrincipio'
    BY <1>1, <1>2 DEF Orden, Senales, AlPrincipio, Estado
  <1>8. glob'.esLAPrimeraVez = 1 => ElPrimero'
    <2>1. ASSUME NEW x \in Entrenadores, EnMarcha(x), Estado(x) \in {"ATRAPAR", "SEGUIR_MOVIENDOSE"}
          PROVE  EnMarcha(x)'
      BY <1>1, <1>4, <1>5, <2>1 DEF EnMarcha, EnCpu
    <2> QED BY <1>1, <1>2, <2>1 DEF Orden, Senales, ElPrimero, Estado
  <1>9. Senales'
    BY <1>1, <1>2, <1>4, <1>7, <1>8 DEF Senales
  <1>10. Solos'
    <2>1. ASSUME NEW e \in Entrenadores, Estado(e) \in Trueques PROVE mp'.pc = "otro"
      <3>1. \A x \in En(colaBlocked) : x \in Entrenadores /\ x \notin En(colaExit)
        BY TodosOcupados DEF IInv, Lugares
      <3>2. \A x \in Entrenadores \ {e} : Parado(x)
        BY <2>1 DEF Orden, Solos
      <3>3. \A x \in En(colaBlocked) : Estado(x) # "MOVERSE_A_POKEMON"
        BY <2>1, <3>1, <3>2 DEF Parado, Trueques
      <3> QED BY <1>1, <1>6, <3>3
    <2> QED BY <1>1, <2>1 DEF Orden, Solos, Parado, Estado
  <1> QED BY <1>9, <1>10 DEF Orden

\* What MpRevisa does to the queues and the states.
LEMMA MpRevisaHace ==
    ASSUME IInv, vivo, MpRevisa
    PROVE  \E e \in En(colaBlocked) :
              /\ \A x \in Entrenadores \ {e} : entrenador'[x].estado = entrenador[x].estado
              /\ \/ /\ MismoEstado
                    /\ En(colaBlocked') = En(colaBlocked) /\ colaExit' = colaExit
                 \/ /\ Estado(e) \in {"ACABO_INTERCAMBIO", "RECIBIO_RESPUESTA_OK"}
                    /\ entrenador'[e].estado \in {"EXIT", "DEADLOCK", "MOVERSE_A_POKEMON"}
                    /\ En(colaBlocked') \cup En(colaExit') = En(colaBlocked) \cup En(colaExit)
              /\ mp.pc = "revisa" /\ mp'.pc = "revisa" /\ mp'.encontre = mp.encontre
              /\ UNCHANGED <<hilo, colaReady, cp, glob, sem>>
  <1> USE DEF IInv
  <1> DEFINE e == Head(colaBlocked)
             cambia == Estado(e) \in {"ACABO_INTERCAMBIO", "RECIBIO_RESPUESTA_OK"}
             nuevo == IF cambia THEN verificarYCambiarEstadoEntrenador(entrenador[e]) ELSE Estado(e)
             sale == cambia /\ nuevo = "EXIT"
  <1>a. /\ entrenador' = [entrenador EXCEPT ![e].estado = nuevo]
        /\ colaBlocked' = IF sale THEN Tail(colaBlocked) ELSE Rotada(colaBlocked)
        /\ colaExit' = IF sale THEN Append(colaExit, e) ELSE colaExit
        /\ mp' = [mp EXCEPT !.cola = @ - 1]
        /\ mp.pc = "revisa" /\ mp.cola > 0
        /\ UNCHANGED <<hilo, colaReady, cp, glob, sem>>
    BY DEF MpRevisa, mapa
  <1>b. /\ colaBlocked \in Seq(Entrenadores) /\ colaBlocked # <<>>
        /\ SinRepetir(colaBlocked)
    <2>1. mp.cola \in Nat /\ mp.cola <= Len(colaBlocked) /\ colaBlocked \in Seq(Entrenadores)
      BY <1>a DEF Protocolo, Medio, TiposPlan, TipoPlanificadores, TipoColas
    <2>2. Len(colaBlocked) \in Nat /\ (colaBlocked = <<>> <=> Len(colaBlocked) = 0)
      BY <2>1, LenProperties, EmptySeq
    <2> QED BY <1>a, <2>1, <2>2 DEF Lugares
  <1>c. /\ e \in Entrenadores /\ e \in En(colaBlocked)
        /\ En(Tail(colaBlocked)) = En(colaBlocked) \ {e}
    BY <1>b, SinPrimero
  <1>d. En(Rotada(colaBlocked)) = En(colaBlocked)
    BY <1>b, RotadaOK
  <1>f. En(Append(colaExit, e)) = En(colaExit) \cup {e}
    BY <1>c, ConAgregado DEF TiposPlan, TipoColas
  <1>g. /\ (~cambia => nuevo = Estado(e) /\ ~sale)
        /\ (cambia => nuevo \in {"EXIT", "DEADLOCK", "MOVERSE_A_POKEMON"})
    BY DEF verificarYCambiarEstadoEntrenador
  <1> HIDE DEF e, nuevo, sale
  <1>j. \A x \in Entrenadores : entrenador'[x].estado = IF x = e THEN nuevo ELSE entrenador[x].estado
    BY <1>a, <1>c DEF TiposPlan, TipoEntrenador, Ficha
  <1>k. mp'.pc = "revisa" /\ mp'.encontre = mp.encontre
    BY <1>a DEF TiposPlan, TipoPlanificadores
  <1>n. /\ En(colaBlocked') \cup En(colaExit') = En(colaBlocked) \cup En(colaExit)
        /\ ~sale => En(colaBlocked') = En(colaBlocked) /\ colaExit' = colaExit
    BY <1>a, <1>c, <1>d, <1>f
  <1>o. ~cambia => MismoEstado
    BY <1>c, <1>g, <1>j DEF MismoEstado, Estado
  <1>p. cambia => entrenador'[e].estado \in {"EXIT", "DEADLOCK", "MOVERSE_A_POKEMON"}
    BY <1>c, <1>g, <1>j
  <1> QED BY <1>a, <1>c, <1>g, <1>j, <1>k, <1>n, <1>o, <1>p

\* It sends to READY a trainer in BLOCKED that needs no pokemon to do so.
LEMMA MpRevisaEnOrden ==
    ASSUME IInv, vivo, Orden, MpRevisa
    PROVE  Orden'
  <1>1. PICK e \in En(colaBlocked) :
           /\ \A x \in Entrenadores \ {e} : entrenador'[x].estado = entrenador[x].estado
           /\ \/ /\ MismoEstado
                 /\ En(colaBlocked') = En(colaBlocked) /\ colaExit' = colaExit
              \/ /\ Estado(e) \in {"ACABO_INTERCAMBIO", "RECIBIO_RESPUESTA_OK"}
                 /\ entrenador'[e].estado \in {"EXIT", "DEADLOCK", "MOVERSE_A_POKEMON"}
                 /\ En(colaBlocked') \cup En(colaExit') = En(colaBlocked) \cup En(colaExit)
           /\ mp.pc = "revisa" /\ mp'.pc = "revisa" /\ mp'.encontre = mp.encontre
           /\ UNCHANGED <<hilo, colaReady, cp, glob, sem>>
    BY MpRevisaHace
  <1>2. e \in Entrenadores /\ e \notin En(colaExit) /\ ~glob.finalizarProceso
    BY <1>1, TodosOcupados DEF IInv, Lugares, Orden, Senales
  <1>3. Avisos(0)' /\ (Avisos(1) => Avisos(1)')
    BY <1>1, <1>2 DEF Orden, Senales, Avisos, PorAvisar
  <1>4. glob.esLAPrimeraVez \in {1, 2} => MismoEstado /\ En(colaBlocked') = En(colaBlocked)
    <2>1. ASSUME glob.esLAPrimeraVez \in {1, 2}
          PROVE  Estado(e) \in {"MOVERSE_A_POKEMON", "ATRAPAR", "SEGUIR_MOVIENDOSE"}
      BY <1>2, <2>1, PrimerosTurnos DEF Orden
    <2> QED BY <1>1, <2>1
  <1>5. glob'.esLAPrimeraVez = 2 => AlPrincipio'
    BY <1>1, <1>2, <1>4 DEF Orden, Senales, AlPrincipio, Estado, MismoEstado
  <1>6. glob'.esLAPrimeraVez = 1 => ElPrimero'
    <2>1. ASSUME NEW x \in Entrenadores, EnMarcha(x), glob.esLAPrimeraVez = 1 PROVE EnMarcha(x)'
      BY <1>1, <1>3, <1>4, <2>1 DEF EnMarcha, EnCpu
    <2> QED BY <1>1, <1>2, <1>4, <2>1 DEF Orden, Senales, ElPrimero, Estado, MismoEstado
  <1>7. Senales'
    BY <1>1, <1>2, <1>3, <1>5, <1>6 DEF Senales
  <1>8. ASSUME NEW a \in Entrenadores, entrenador'[a].estado \in Trueques,
               NEW x \in Entrenadores \ {a}
        PROVE  Parado(x)'
    <2>1. Estado(a) \in Trueques
      BY <1>1, <1>8 DEF Trueques, MismoEstado, Estado
    <2>2. \A y \in Entrenadores \ {a} : Parado(y)
      BY <2>1 DEF Orden, Solos
    <2>3. e # a => Estado(e) = "DEADLOCK"
      BY <1>2, <2>2 DEF Parado
    <2>4. MismoEstado /\ En(colaBlocked') = En(colaBlocked) /\ colaExit' = colaExit
      BY <1>1, <2>1, <2>3 DEF Trueques
    <2> QED BY <2>2, <2>4 DEF Parado, Estado, MismoEstado
  <1>9. Solos'
    BY <1>1, <1>8 DEF Solos, Estado
  <1> QED BY <1>7, <1>9 DEF Orden

\* MpAsigna: one trainer more in READY and one signal more to give.
LEMMA MpAsignaHace ==
    ASSUME IInv, vivo, MpAsigna
    PROVE  \E e \in En(colaBlocked) :
              /\ En(colaBlocked') = En(colaBlocked) \ {e}
              /\ En(colaReady') = En(colaReady) \cup {e} /\ Len(colaReady') = Len(colaReady) + 1
              /\ MismoEstado
              /\ glob'.esLAPrimeraVez = glob.esLAPrimeraVez
              /\ glob'.finalizarProceso = glob.finalizarProceso
              /\ mp.pc = "asigna" /\ mp'.pc = "asigna" /\ mp'.encontre = mp.encontre + 1
              /\ UNCHANGED <<hilo, colaExit, cp, sem>>
  <1> USE DEF IInv
  <1> DEFINE i == buscarEntrenadorMasConvenienteEnColaRancio(Head(libres).posicion)
             e == colaBlocked[i]
  <1>a. /\ mp.pc = "asigna" /\ mp.entrenadores # 0 /\ mp.pokemones # 0
        /\ colaBlocked' = EnPosiciones(colaBlocked, Quieren(Estados \ {"MOVERSE_A_POKEMON"}))
                            \o EnPosiciones(colaBlocked, Quieren({"MOVERSE_A_POKEMON"}) \ {i})
        /\ estimar_entrenador(e)
        /\ colaReady' = Append(colaReady, e)
        /\ mp' = [mp EXCEPT !.entrenadores = @ - 1, !.pokemones = @ - 1, !.encontre = @ + 1]
        /\ UNCHANGED <<hilo, colaExit, sem, cp>>
    BY DEF MpAsigna, moverPokemonAReservados
  <1>l. Head(libres) \in Libre
    <2>1. /\ libres \in Seq(Libre) /\ mp.pokemones \in Nat /\ mp.pokemones <= Len(libres)
      BY <1>a DEF TiposPlan, TipoMapa, TipoPlanificadores, Protocolo, Medio
    <2>2. Len(libres) \in Nat /\ libres # <<>>
      BY <1>a, <2>1, LenProperties, EmptySeq
    <2> QED BY <2>1, <2>2, SinPrimero
  <1>m. Quieren({"MOVERSE_A_POKEMON"}) # {}
    <2>1. Moviles = {x \in En(colaBlocked) : Estado(x) \in {"MOVERSE_A_POKEMON"}}
      BY DEF Moviles
    <2>2. mp.entrenadores = Cardinality(Moviles)
      BY <1>a DEF Protocolo, Medio
    <2>3. Cardinality(Quieren({"MOVERSE_A_POKEMON"})) = Cardinality(Moviles)
      BY <2>1, QuierenOK DEF TiposPlan, TipoColas, Lugares
    <2> QED BY <1>a, <2>2, <2>3, FS_EmptySet
  <1>i. i \in Quieren({"MOVERSE_A_POKEMON"})
    <2>1. Head(libres).posicion \in Lugar
      BY <1>l DEF Libre
    <2> QED BY <2>1, <1>m, MasConvenienteOK DEF Lugares
  <1> HIDE DEF i
  <1>b. e \in Entrenadores /\ e \in En(colaBlocked)
    BY <1>i, QuierenOK DEF TiposPlan, TipoColas, Lugares
  <1>d. En(colaBlocked') = En(colaBlocked) \ {e}
    BY <1>a, <1>i, SinElAsignado DEF Lugares
  <1> HIDE DEF e
  <1>e. En(colaReady') = En(colaReady) \cup {e} /\ Len(colaReady') = Len(colaReady) + 1
    BY <1>a, <1>b, ConAgregado DEF TiposPlan, TipoColas
  <1>f. MismoEstado /\ glob'.esLAPrimeraVez = glob.esLAPrimeraVez
    BY <1>a, <1>b, EstimarOK
  <1>g. glob'.finalizarProceso = glob.finalizarProceso
    BY <1>a DEF estimar_entrenador, TiposPlan, TipoGlob
  <1>h. mp'.pc = "asigna" /\ mp'.encontre = mp.encontre + 1
    BY <1>a DEF TiposPlan, TipoPlanificadores
  <1> QED BY <1>a, <1>b, <1>d, <1>e, <1>f, <1>g, <1>h

\* It sends to READY the nearest trainer to a pokemon: it owes one more signal.
LEMMA MpAsignaEnOrden ==
    ASSUME IInv, vivo, Orden, MpAsigna
    PROVE  Orden'
  <1>1. PICK e \in En(colaBlocked) :
              /\ En(colaBlocked') = En(colaBlocked) \ {e}
              /\ En(colaReady') = En(colaReady) \cup {e} /\ Len(colaReady') = Len(colaReady) + 1
              /\ MismoEstado
              /\ glob'.esLAPrimeraVez = glob.esLAPrimeraVez
              /\ glob'.finalizarProceso = glob.finalizarProceso
              /\ mp.pc = "asigna" /\ mp'.pc = "asigna" /\ mp'.encontre = mp.encontre + 1
              /\ UNCHANGED <<hilo, colaExit, cp, sem>>
    BY MpAsignaHace
  <1>2. ~glob.finalizarProceso
    BY <1>1 DEF Orden, Senales
  <1>3. Avisos(0)' /\ (Avisos(1) => Avisos(1)')
    <2>1. Avisos(0)
      BY <1>2 DEF Orden, Senales
    <2>2. PorAvisar = mp.encontre /\ PorAvisar' = mp.encontre + 1
      BY <1>1 DEF PorAvisar
    <2> QED BY <1>1, <2>1, <2>2, NumerosOK DEF IInv, Avisos
  <1>4. glob'.esLAPrimeraVez = 2 => AlPrincipio'
    BY <1>1, <1>2 DEF Orden, Senales, AlPrincipio, Estado, MismoEstado
  <1>5. glob'.esLAPrimeraVez = 1 => ElPrimero'
    <2>1. ASSUME NEW x \in Entrenadores, EnMarcha(x) PROVE EnMarcha(x)'
      BY <1>1, <1>3, <2>1 DEF EnMarcha
    <2> QED BY <1>1, <1>2, <2>1 DEF Orden, Senales, ElPrimero, Estado, MismoEstado
  <1>6. Senales'
    BY <1>1, <1>2, <1>3, <1>4, <1>5 DEF Senales
  <1>7. Solos'
    BY <1>1 DEF Orden, Solos, Estado, MismoEstado
  <1> QED BY <1>6, <1>7 DEF Orden

\* MpOtro: the trainer that moved first gets to READY with the signal of the medium term
\* planner to itself; later ones, with a signal to the short term planner.
LEMMA MpOtroHace ==
    ASSUME IInv, vivo, MpOtro, Otros # {}
    PROVE  \E e \in En(colaBlocked) :
              /\ Estado(e) \notin {"DEADLOCK", "ESPERAR_CAUGHT", "MOVERSE_A_POKEMON"}
              /\ En(colaBlocked') = En(colaBlocked) \ {e}
              /\ En(colaReady') = En(colaReady) \cup {e} /\ Len(colaReady') = Len(colaReady) + 1
              /\ MismoEstado
              /\ glob'.esLAPrimeraVez = glob.esLAPrimeraVez
              /\ glob'.finalizarProceso = glob.finalizarProceso
              /\ sem'.mplazo = sem.mplazo + (IF glob.esLAPrimeraVez = 1 THEN 1 ELSE 0)
              /\ sem'.cplazoReady = sem.cplazoReady + (IF glob.esLAPrimeraVez = 1 THEN 0 ELSE 1)
              /\ MismosPlazos
              /\ UNCHANGED <<hilo, colaExit, cp>>
  <1> USE DEF IInv
  <1> DEFINE i == Primera(Otros)
             e == colaBlocked[i]
             s == IF glob.esLAPrimeraVez = 1 THEN "mplazo" ELSE "cplazoReady"
  <1>1. /\ colaBlocked' = SinPosicion(colaBlocked, i)
        /\ estimar_entrenador(e)
        /\ colaReady' = Append(colaReady, e)
        /\ sem' = Post(s, 1)
        /\ UNCHANGED <<hilo, colaExit, cp>>
    BY DEF MpOtro
  <1>2. /\ i \in DOMAIN colaBlocked
        /\ Estado(e) \in Estados \ {"DEADLOCK", "ESPERAR_CAUGHT", "MOVERSE_A_POKEMON"}
    <2>1. Otros \subseteq Nat
      BY QuierenOK DEF Otros, TiposPlan, TipoColas, Lugares
    <2>2. i \in Otros
      BY <2>1, PrimeraOK
    <2> QED BY <2>2 DEF Otros, Quieren
  <1>3. /\ sem'.mplazo = sem.mplazo + (IF glob.esLAPrimeraVez = 1 THEN 1 ELSE 0)
        /\ sem'.cplazoReady = sem.cplazoReady + (IF glob.esLAPrimeraVez = 1 THEN 0 ELSE 1)
        /\ MismosPlazos
    BY <1>1 DEF Post, MismosPlazos, TiposPlan, TipoSem, Semaforos
  <1> HIDE DEF i, s
  <1>4. /\ e \in Entrenadores /\ e \in En(colaBlocked)
        /\ En(colaBlocked') = En(colaBlocked) \ {e} /\ En(colaReady') = En(colaReady) \cup {e}
    BY <1>1, <1>2, ALaReady DEF Protocolo
  <1> HIDE DEF e
  <1>5. Len(colaReady') = Len(colaReady) + 1
    BY <1>1, <1>4, ConAgregado DEF TiposPlan, TipoColas
  <1>6. MismoEstado /\ glob'.esLAPrimeraVez = glob.esLAPrimeraVez
    BY <1>1, <1>4, EstimarOK
  <1>7. glob'.finalizarProceso = glob.finalizarProceso
    BY <1>1 DEF estimar_entrenador, TiposPlan, TipoGlob
  <1> QED BY <1>1, <1>2, <1>3, <1>4, <1>5, <1>6, <1>7

\* It signals for one of the other trainers in BLOCKED, itself while esLAPrimeraVez is 1.
LEMMA MpOtroEnOrden ==
    ASSUME IInv, vivo, Orden, MpOtro
    PROVE  Orden'
  <1>1. mp.pc = "otro" /\ mp'.pc = "detecta" /\ PorAvisar = 0 /\ PorAvisar' = 0 /\ cp' = cp
    BY DEF MpOtro, PorAvisar, IInv, TiposPlan, TipoPlanificadores
  <1>2. ~glob.finalizarProceso
    BY <1>1 DEF Orden, Senales
  <1>n. /\ sem.cplazoReady \in Nat /\ Len(colaReady) \in Nat /\ sem.mplazo \in Nat
    BY NumerosOK DEF IInv
  <1>3. Otros = {} =>
           \A x \in En(colaBlocked) :
              Estado(x) \in {"DEADLOCK", "ESPERAR_CAUGHT", "MOVERSE_A_POKEMON"}
    <2> SUFFICES ASSUME Otros = {}, NEW i \in DOMAIN colaBlocked
                 PROVE  Estado(colaBlocked[i]) \in {"DEADLOCK", "ESPERAR_CAUGHT", "MOVERSE_A_POKEMON"}
      BY DEF En
    <2>1. colaBlocked[i] \in En(colaBlocked)
      BY DEF En
    <2>2. colaBlocked[i] \in Entrenadores
      BY <2>1, TodosOcupados DEF IInv
    <2>3. Estado(colaBlocked[i]) \in Estados
      BY <2>2 DEF IInv, TiposPlan, TipoEntrenador, Ficha, Estado
    <2> QED BY <2>3 DEF Otros, Quieren
  <1>4. CASE Otros = {}
    <2>1. UNCHANGED <<entrenador, hilo, colaReady, colaBlocked, colaExit, glob, sem>>
      BY <1>4 DEF MpOtro
    <2>2. Avisos(0)'
      BY <1>1, <1>2, <2>1 DEF Orden, Senales, Avisos
    <2>3. glob'.esLAPrimeraVez = 2 => AlPrincipio'
      BY <1>1, <1>2, <2>1 DEF Orden, Senales, AlPrincipio, Estado
    <2>4. glob'.esLAPrimeraVez = 1 => ElPrimero'
      <3>1. ASSUME NEW x \in Entrenadores, EnMarcha(x), Estado(x) \in {"ATRAPAR", "SEGUIR_MOVIENDOSE"}
            PROVE  EnMarcha(x)'
        <4>1. x \notin En(colaBlocked)
          BY <1>3, <1>4, <3>1
        <4> QED BY <1>1, <2>1, <3>1, <4>1 DEF EnMarcha, EnCpu
      <3> QED BY <1>2, <2>1, <3>1 DEF Orden, Senales, ElPrimero, Estado
    <2>5. Senales'
      BY <1>1, <1>2, <2>1, <2>2, <2>3, <2>4 DEF Senales
    <2>6. Solos'
      BY <1>1, <2>1 DEF Orden, Solos, Parado, Estado
    <2> QED BY <2>5, <2>6 DEF Orden
  <1>5. CASE Otros # {}
    <2>1. PICK e \in En(colaBlocked) :
              /\ Estado(e) \notin {"DEADLOCK", "ESPERAR_CAUGHT", "MOVERSE_A_POKEMON"}
              /\ En(colaBlocked') = En(colaBlocked) \ {e}
              /\ En(colaReady') = En(colaReady) \cup {e} /\ Len(colaReady') = Len(colaReady) + 1
              /\ MismoEstado
              /\ glob'.esLAPrimeraVez = glob.esLAPrimeraVez
              /\ glob'.finalizarProceso = glob.finalizarProceso
              /\ sem'.mplazo = sem.mplazo + (IF glob.esLAPrimeraVez = 1 THEN 1 ELSE 0)
              /\ sem'.cplazoReady = sem.cplazoReady + (IF glob.esLAPrimeraVez = 1 THEN 0 ELSE 1)
              /\ MismosPlazos
              /\ UNCHANGED <<hilo, colaExit, cp>>
      BY <1>5, MpOtroHace
    <2>2. e \in Entrenadores /\ e \notin En(colaReady) /\ e \notin En(colaExit) /\ ~EnCpu(e)
      BY TodosOcupados DEF IInv, Lugares
    <2>3. Avisos(0)' /\ (glob.esLAPrimeraVez = 1 => Avisos(1)')
      <3>1. sem.cplazoReady <= Len(colaReady)
        BY <1>1, <1>2, <1>n DEF Orden, Senales, Avisos
      <3> QED BY <1>1, <1>n, <2>1, <3>1 DEF Avisos
    <2>4. glob.esLAPrimeraVez # 2
      BY <1>2, <2>1, <2>2 DEF Orden, Senales, AlPrincipio
    <2>5. glob'.esLAPrimeraVez = 1 => ElPrimero'
      <3> SUFFICES ASSUME glob.esLAPrimeraVez = 1 PROVE ElPrimero'
        BY <2>1
      <3>1. PICK x \in Entrenadores :
               /\ Estado(x) \in {"ATRAPAR", "SEGUIR_MOVIENDOSE"}
               /\ \A y \in Entrenadores \ {x} : Estado(y) = "MOVERSE_A_POKEMON"
               /\ EnMarcha(x)
        BY <1>2 DEF Orden, Senales, ElPrimero
      <3>2. x = e
        BY <2>1, <2>2, <3>1
      <3>3. cp.pc = "espera" /\ sem.mplazo = 0
        BY <1>1, <2>2, <3>1, <3>2 DEF EnMarcha
      <3>4. sem'.mplazo = 1
        BY <2>1, <3>3
      <3>5. EnMarcha(e)'
        BY <1>1, <2>1, <2>3, <3>3, <3>4 DEF EnMarcha
      <3> QED BY <2>1, <3>1, <3>2, <3>5 DEF ElPrimero, Estado, MismoEstado
    <2>6. Senales'
      BY <1>2, <2>1, <2>3, <2>4, <2>5 DEF Senales
    <2>7. Solos'
      <3>1. ASSUME NEW a \in Entrenadores, entrenador'[a].estado \in Trueques, NEW x \in Entrenadores \ {a}
            PROVE  Parado(x)'
        <4>1. Estado(a) \in Trueques
          BY <2>1, <3>1 DEF MismoEstado, Estado
        <4>2. \A y \in Entrenadores \ {a} : Parado(y)
          BY <4>1 DEF Orden, Solos
        <4>3. e = a
          BY <2>1, <2>2, <4>2 DEF Parado
        <4> QED BY <2>1, <3>1, <4>2, <4>3 DEF Parado, Estado, MismoEstado
      <3> QED BY <1>1, <2>1, <3>1 DEF Orden, Solos, Estado
    <2> QED BY <2>6, <2>7 DEF Orden
  <1> QED BY <1>4, <1>5

\* In the first turns not every trainer waits for an exchange or has ended.
LEMMA NoTodosParados ==
    ASSUME IInv, vivo, Senales, ~glob.finalizarProceso, \A e \in Entrenadores : Parado(e)
    PROVE  glob.esLAPrimeraVez = 0
  <1>1. 1 \in Entrenadores
    BY PlanificadoresAssumption DEF Entrenadores
  <1>2. Estado(1) \in {"EXIT", "DEADLOCK"}
    BY <1>1 DEF Parado, IInv, Protocolo, Turnos
  <1>3. glob.esLAPrimeraVez \notin {1, 2}
    BY <1>1, <1>2, PrimerosTurnos
  <1> QED BY <1>3, NumerosOK DEF IInv

\* MpDetecta: a deadlock is found only when no trainer is in READY or has the CPU.
LEMMA MpDetectaEnOrden ==
    ASSUME IInv, vivo, Orden, MpDetecta
    PROVE  Orden'
  <1> DEFINE deadlock == /\ todosEstanBloqueados
                         /\ Len(colaBlocked) = cantidadDeEntrenadores - Len(colaExit)
  <1>1. /\ mp.pc = "detecta" /\ mp'.pc = IF deadlock THEN "deadlock" ELSE "espera"
        /\ PorAvisar = 0 /\ PorAvisar' = 0
        /\ UNCHANGED <<entrenador, hilo, colaReady, colaBlocked, colaExit, cp, glob, sem>>
    BY DEF MpDetecta, colas, PorAvisar, IInv, TiposPlan, TipoPlanificadores
  <1>2. ~glob.finalizarProceso
    BY <1>1 DEF Orden, Senales
  <1>3. ASSUME deadlock PROVE \A e \in Entrenadores : Parado(e)
    <2>1. En(colaBlocked) \cup En(colaExit) = Entrenadores
      BY <1>3, TodosOcupados DEF IInv
    <2>2. \A e \in En(colaBlocked) : Estado(e) = "DEADLOCK"
      <3> SUFFICES ASSUME NEW i \in DOMAIN colaBlocked PROVE Estado(colaBlocked[i]) = "DEADLOCK"
        BY DEF En
      <3>1. colaBlocked[i] \in Entrenadores
        BY <2>1 DEF En
      <3>2. Estado(colaBlocked[i]) \in Estados
        BY <3>1 DEF IInv, TiposPlan, TipoEntrenador, Ficha, Estado
      <3> QED BY <1>3, <3>2 DEF todosEstanBloqueados, Quieren
    <2> QED BY <2>1, <2>2 DEF Parado
  <1> HIDE DEF deadlock
  <1>4. deadlock => glob.esLAPrimeraVez = 0
    BY <1>2, <1>3, NoTodosParados DEF Orden
  <1>5. Avisos(0)' /\ (Avisos(1) => Avisos(1)')
    BY <1>1, <1>2 DEF Orden, Senales, Avisos
  <1>6. glob'.esLAPrimeraVez = 2 => AlPrincipio'
    BY <1>1, <1>2, <1>4 DEF Orden, Senales, AlPrincipio, Estado
  <1>7. glob'.esLAPrimeraVez = 1 => ElPrimero'
    <2>1. ASSUME NEW x \in Entrenadores, EnMarcha(x), glob.esLAPrimeraVez = 1 PROVE EnMarcha(x)'
      BY <1>1, <1>4, <1>5, <2>1 DEF EnMarcha, EnCpu
    <2> QED BY <1>1, <1>2, <2>1 DEF Orden, Senales, ElPrimero, Estado
  <1>8. Senales'
    BY <1>1, <1>2, <1>5, <1>6, <1>7 DEF Senales
  <1>9. Solos'
    <2>1. ASSUME deadlock, NEW e \in Entrenadores PROVE Estado(e) \notin Trueques
      <3>1. Parado(e)
        BY <1>3, <2>1
      <3> QED BY <3>1 DEF Parado, IInv, Protocolo, Turnos, Trueques
    <2> QED BY <1>1, <1>3, <2>1 DEF Orden, Solos, Parado, Estado
  <1> QED BY <1>8, <1>9 DEF Orden

\* MpDeadlock: in a deadlock there is a trainer to go for an exchange: not all are in EXIT.
LEMMA MpDeadlockEnOrden ==
    ASSUME IInv, vivo, Orden, MpDeadlock
    PROVE  vivo' /\ Orden'
  <1> USE DEF IInv
  <1>1. /\ mp.pc = "deadlock" /\ mp'.pc = "espera" /\ PorAvisar = 0 /\ PorAvisar' = 0
        /\ UNCHANGED <<colaExit, cp, glob>>
    BY DEF MpDeadlock, PorAvisar, TiposPlan, TipoPlanificadores
  <1>2. ~glob.finalizarProceso /\ \A e \in Entrenadores : Parado(e)
    BY <1>1 DEF Orden, Senales, Solos
  <1>3. glob.esLAPrimeraVez = 0
    BY <1>2, NoTodosParados DEF Orden
  <1>4. Quieren({"DEADLOCK"}) # {}
    <2>1. Len(colaExit) < cantidadDeEntrenadores /\ Len(colaExit) \in Nat
      BY <1>1, TodosOcupados DEF Orden, Solos
    <2>2. PICK e \in Entrenadores : e \notin En(colaExit)
      <3>1. En(colaExit) # Entrenadores
        BY <2>1, TodosOcupados, PlanificadoresAssumption
      <3> QED BY <3>1, TodosOcupados
    <2>3. e \in En(colaBlocked) /\ Estado(e) = "DEADLOCK"
      BY <1>2, <2>2 DEF Parado
    <2> QED BY <2>3 DEF Quieren, En
  <1> DEFINE i == Primera(Quieren({"DEADLOCK"}))
             e == colaBlocked[i]
  <1>5. /\ colaBlocked' = SinPosicion(colaBlocked, i)
        /\ entrenador' = [entrenador EXCEPT ![e].estado = "MOVERSE_A_ENTRENADOR"]
        /\ colaReady' = Append(colaReady, e)
        /\ sem' = Post("cplazoReady", 1)
        /\ UNCHANGED vivo
    BY <1>4 DEF MpDeadlock
  <1>6. i \in DOMAIN colaBlocked
    <2>1. Quieren({"DEADLOCK"}) \subseteq Nat
      BY QuierenOK DEF TiposPlan, TipoColas, Lugares
    <2>2. i \in Quieren({"DEADLOCK"})
      BY <1>4, <2>1, PrimeraOK
    <2> QED BY <2>2 DEF Quieren
  <1> HIDE DEF i
  <1>7. /\ e \in Entrenadores
        /\ En(colaBlocked') = En(colaBlocked) \ {e}
    BY <1>1, <1>5, <1>6, ALaReady DEF Protocolo
  <1> HIDE DEF e
  <1>8. Len(colaReady') = Len(colaReady) + 1
    BY <1>5, <1>7, ConAgregado DEF TiposPlan, TipoColas
  <1>9. sem'.cplazoReady = sem.cplazoReady + 1
    BY <1>5 DEF Post, TiposPlan, TipoSem, Semaforos
  <1>10. Senales'
    <2>1. sem.cplazoReady <= Len(colaReady) /\ sem.cplazoReady \in Nat /\ Len(colaReady) \in Nat
      BY <1>1, <1>2, NumerosOK DEF Orden, Senales, Avisos
    <2>2. Avisos(0)'
      BY <1>1, <1>8, <1>9, <2>1 DEF Avisos
    <2> QED BY <1>1, <1>2, <1>3, <2>2 DEF Senales
  <1>11. \A x \in Entrenadores :
            entrenador'[x].estado = IF x = e THEN "MOVERSE_A_ENTRENADOR" ELSE entrenador[x].estado
    BY <1>5, <1>7 DEF TiposPlan, TipoEntrenador, Ficha
  <1>12. Solos'
    <2>1. \A x \in Entrenadores \ {e} : Parado(x)'
      BY <1>1, <1>2, <1>7, <1>11 DEF Parado, Estado
    <2>2. \A x \in Entrenadores \ {e} : entrenador'[x].estado \notin Trueques
      BY <1>2, <1>11 DEF Parado, Protocolo, Turnos, Trueques, Estado
    <2> QED BY <1>1, <2>1, <2>2 DEF Solos, Estado
  <1> QED BY <1>5, <1>10, <1>12 DEF Orden

\* CpElige: there is a trainer in READY for each signal.
LEMMA CpEligeEnOrden ==
    ASSUME IInv, vivo, Orden, CpElige
    PROVE  vivo' /\ Orden'
  <1> USE DEF IInv
  <1>1. /\ cp.pc = "espera" /\ ~glob.finalizarProceso /\ sem.cplazoReady > 0
        /\ sem' = Post("cplazoReady", -1)
        /\ UNCHANGED <<entrenador, hilo, colaBlocked, colaExit, mp>>
    BY DEF CpElige
  <1>2. /\ sem.cplazoReady \in Nat /\ Len(colaReady) \in Nat /\ PorAvisar \in Nat /\ PorAvisar' = PorAvisar
        /\ sem.cplazoReady + PorAvisar <= Len(colaReady)
    BY <1>1, NumerosOK DEF Orden, Senales, Avisos, PorAvisar
  <1>3. colaReady # <<>>
    BY <1>1, <1>2, EmptySeq
  <1> DEFINE q == ReadyOrdenada
             h == Head(q)
  <1>4. /\ colaReady' = Tail(q)
        /\ cp'.pc = "turno"
        /\ glob' = [glob EXCEPT !.esLAPrimeraVez = IF @ = 1 THEN 0 ELSE @,
                                !.entroUnoAReady = Len(q) - 1, !.enEjecucion = h]
        /\ UNCHANGED vivo
    BY <1>3 DEF CpElige
  <1>5. q \in Seq(Entrenadores) /\ Len(q) = Len(colaReady) /\ q # <<>>
    <2>1. q \in Seq(Entrenadores) /\ Len(q) = Len(colaReady)
      BY ReadyOrdenadaOK DEF TiposPlan, TipoColas, TipoEntrenador, Ficha, Lugares
    <2> QED BY <2>1, <1>1, <1>2, EmptySeq
  <1> HIDE DEF q, h
  <1>g. /\ glob'.esLAPrimeraVez = (IF glob.esLAPrimeraVez = 1 THEN 0 ELSE glob.esLAPrimeraVez)
        /\ glob'.finalizarProceso = glob.finalizarProceso
    BY <1>4 DEF TiposPlan, TipoGlob
  <1>6. Len(colaReady') = Len(colaReady) - 1
    BY <1>4, <1>5, SinPrimero
  <1>7. sem'.cplazoReady = sem.cplazoReady - 1 /\ sem'.mplazo = sem.mplazo /\ MismosPlazos
    BY <1>1 DEF Post, MismosPlazos, TiposPlan, TipoSem, Semaforos
  <1>8. Senales'
    <2>1. Avisos(0)'
      BY <1>2, <1>6, <1>7 DEF Avisos
    <2>2. glob'.esLAPrimeraVez = 2 => AlPrincipio'
      BY <1>1, <1>3, <1>4, <1>g, <1>7 DEF Orden, Senales, AlPrincipio, Estado, MismosPlazos
    <2> QED BY <1>1, <1>g, <2>1, <2>2 DEF Senales
  <1>9. Solos'
    BY <1>1, MarcoSolos DEF Orden, MismoEstado
  <1> QED BY <1>4, <1>8, <1>9 DEF Orden

\* CpDevuelve: the trainer that moved first goes to BLOCKED and the medium term planner is told.
LEMMA CpDevuelveEnOrden ==
    ASSUME IInv, vivo, Orden, CpDevuelve
    PROVE  Orden'
  <1> USE DEF IInv
  <1>1. /\ cp.pc = "turno" /\ cp'.pc = "espera" /\ sem.cplazoEntrenador > 0
        /\ colaBlocked' = Append(colaBlocked, cp.entrenador)
        /\ sem'.cplazoReady = sem.cplazoReady /\ sem'.mplazo = sem.mplazo + 1 /\ sem.mplazo \in Nat
        /\ UNCHANGED <<entrenador, hilo, colaReady, colaExit, mp, glob>>
    BY DEF CpDevuelve, TiposPlan, TipoSem, Semaforos, TipoPlanificadores
  <1>2. cp.entrenador \in Entrenadores
    BY <1>1 DEF Protocolo, Turnos
  <1>3. En(colaBlocked') = En(colaBlocked) \cup {cp.entrenador}
    BY <1>1, <1>2, ConAgregado DEF TiposPlan, TipoColas
  <1>4. ~glob.finalizarProceso => Avisos(0)'
    BY <1>1 DEF Orden, Senales, Avisos, PorAvisar
  <1>5. ~glob.finalizarProceso => glob'.esLAPrimeraVez # 2
    BY <1>1 DEF Orden, Senales, AlPrincipio
  <1>6. ~glob.finalizarProceso /\ glob'.esLAPrimeraVez = 1 => ElPrimero'
    <2>1. ASSUME NEW x \in Entrenadores, EnMarcha(x) PROVE EnMarcha(x)'
      BY <1>1, <1>3, <2>1 DEF EnMarcha, EnCpu
    <2> QED BY <1>1, <2>1 DEF Orden, Senales, ElPrimero, Estado
  <1>7. Senales'
    BY <1>1, <1>4, <1>5, <1>6 DEF Orden, Senales
  <1>8. Solos'
    <2>1. \A x \in Entrenadores : Parado(x) => Parado(x)'
      BY <1>1, <1>3 DEF Parado, Estado
    <2> QED BY <1>1, <2>1 DEF Orden, Solos, Estado
  <1> QED BY <1>7, <1>8 DEF Orden

\* TurnoAPokemon, TurnoAEntrenador and Mover: a thread moves its trainer.
LEMMA MueveEnOrden ==
    ASSUME NEW e \in Entrenadores, IInv, vivo, Orden,
           TurnoAPokemon(e) \/ TurnoAEntrenador(e) \/ Mover(e)
    PROVE  Orden'
  <1>1. UNCHANGED <<colaReady, colaBlocked, colaExit, cp, mp, sem, glob>>
    BY DEF TurnoAPokemon, TurnoAEntrenador, Mover, colas
  <1>2. MismoEstado
    <2>1. CASE TurnoAPokemon(e) \/ TurnoAEntrenador(e)
      BY <2>1 DEF TurnoAPokemon, TurnoAEntrenador, MismoEstado
    <2>2. CASE Mover(e)
      <3> DEFINE c == Ciclo(e)
                 p == moverEntrenador(c.posicion, hilo[e].meta)
      <3>1. Ficha(entrenador[e]) /\ c.estado = entrenador[e].estado /\ "estado" \in DOMAIN c
        BY DEF IInv, TiposPlan, TipoEntrenador, Ficha, Ciclo
      <3>2. entrenador' = [entrenador EXCEPT ![e] = [c EXCEPT !.posicion = p]]
        BY <2>2 DEF Mover
      <3> HIDE DEF c, p
      <3> QED BY <3>1, <3>2 DEF MismoEstado, IInv, TiposPlan, TipoEntrenador
    <2> QED BY <2>1, <2>2
  <1>3. \A x \in Entrenadores : hilo'[x].pc \in {hilo[x].pc, "espera", "mueve"}
    <2>1. \A v, w : [hilo EXCEPT ![e] = [pc |-> "mueve", meta |-> v, pasos |-> w]][e].pc = "mueve"
      BY DEF IInv, TiposPlan, TipoHilo
    <2>2. CASE TurnoAPokemon(e) \/ TurnoAEntrenador(e)
      <3>1. \/ UNCHANGED hilo
            \/ \E v, w : hilo' = [hilo EXCEPT ![e] = [pc |-> "mueve", meta |-> v, pasos |-> w]]
        BY <2>2 DEF TurnoAPokemon, TurnoAEntrenador, IrHacia
      <3> QED BY <3>1, <2>1 DEF IInv, TiposPlan, TipoHilo
    <2>3. CASE Mover(e)
      BY <2>3 DEF Mover, IInv, TiposPlan, TipoHilo
    <2> QED BY <2>2, <2>3
  <1> QED BY <1>1, <1>2, <1>3, MarcoSenales, MarcoSolos DEF Orden, MismosPlazos

\* DejarDeMover: the first trainer that stops takes esLAPrimeraVez from 2 to 1.
LEMMA DejarDeMoverEnOrden ==
    ASSUME NEW e \in Entrenadores, IInv, vivo, Orden, DejarDeMover(e)
    PROVE  Orden'
  <1>1. /\ EnCpu(e) /\ sem.cplazoEntrenador = 0 /\ Estado(e) # "EXIT"
        /\ e \notin En(colaBlocked) /\ e \notin En(colaExit) /\ cp.pc = "turno"
    BY EnActivo DEF DejarDeMover, EnCpu
  <1>2. UNCHANGED <<colaReady, colaBlocked, colaExit, cp, mp>>
    BY DEF DejarDeMover, colas
  <1>3. /\ sem'.cplazoReady = sem.cplazoReady /\ sem'.mplazo = sem.mplazo
        /\ sem'.cplazoEntrenador = 1
    BY <1>1 DEF DejarDeMover, Post, IInv, TiposPlan, TipoSem, Semaforos
  <1>4. \A x \in Entrenadores : entrenador'[x].estado = IF x = e THEN TrasMover(e) ELSE entrenador[x].estado
    BY DEF DejarDeMover, IInv, TiposPlan, TipoEntrenador, Ficha
  <1>5. /\ glob'.finalizarProceso = glob.finalizarProceso
        /\ glob'.esLAPrimeraVez = IF Estado(e) = "MOVERSE_A_POKEMON" /\ glob.esLAPrimeraVez = 2
                                  THEN 1 ELSE glob.esLAPrimeraVez
    BY DEF DejarDeMover, IInv, TiposPlan, TipoGlob
  <1>6. Senales'
    <2>1. CASE glob.finalizarProceso
      BY <1>2, <1>5, <2>1 DEF Orden, Senales
    <2>2. CASE ~glob.finalizarProceso /\ glob.esLAPrimeraVez = 2
      <3>1. AlPrincipio /\ Estado(e) = "MOVERSE_A_POKEMON"
        BY <2>2 DEF Orden, Senales, AlPrincipio
      <3>2. TrasMover(e) \in {"ATRAPAR", "SEGUIR_MOVIENDOSE"}
        BY <3>1 DEF TrasMover, HaciaPokemon
      <3>3. sem.mplazo = 0 /\ mp.pc \in {"detecta", "espera"}
        BY <1>1, <3>1 DEF AlPrincipio
      <3>4. EnMarcha(e)'
        BY <1>1, <1>2, <1>3, <3>3 DEF EnMarcha, EnCpu
      <3>5. ElPrimero'
        BY <1>4, <3>1, <3>2, <3>4 DEF ElPrimero, AlPrincipio, Estado
      <3>6. Avisos(0)'
        BY <1>2, <1>3, <2>2 DEF Orden, Senales, Avisos, PorAvisar
      <3> QED BY <1>5, <2>2, <3>1, <3>5, <3>6 DEF Senales
    <2>3. CASE ~glob.finalizarProceso /\ glob.esLAPrimeraVez = 1
      BY <1>1, <2>3 DEF Orden, Senales, ElPrimero, EnMarcha
    <2>4. CASE glob.esLAPrimeraVez = 0
      BY <1>2, <1>3, <1>5, <2>4, MarcoAvisos DEF Orden
    <2> QED BY <2>1, <2>2, <2>3, <2>4, NumerosOK DEF IInv
  <1>7. TrasMover(e) \in Trueques => Estado(e) \in Trueques
    BY DEF TrasMover, HaciaPokemon, Trueques
  <1>8. Solos'
    BY <1>1, <1>2, <1>4, <1>7, MarcoSolosUno DEF Orden
  <1> QED BY <1>6, <1>8 DEF Orden

\* The steps of a CATCH, which come after the first turns.
LEMMA CatchEnOrden ==
    ASSUME NEW e \in Entrenadores, IInv, vivo, Orden,
           intentarAtraparPokemon(e) \/ AtraparPorDefecto(e) \/ EsperarCaught(e) \/ LlegoCaught(e)
    PROVE  Orden'
  <1>1. /\ UNCHANGED <<colaReady, colaBlocked, colaExit, cp, mp, glob>>
    BY DEF intentarAtraparPokemon, AtraparPorDefecto, EsperarCaught, LlegoCaught, colas
  <1>2. /\ EnCpu(e) /\ e \notin En(colaBlocked) /\ e \notin En(colaExit)
        /\ glob.esLAPrimeraVez = 0
    <2>1. CASE intentarAtraparPokemon(e)
      <3>1. semEntrenador[e] > 0 /\ Estado(e) = "ATRAPAR"
        BY <2>1 DEF intentarAtraparPokemon, Turno
      <3>2. /\ EnCpu(e) /\ semEntrenador[e] = 1 /\ e \notin En(colaBlocked) /\ e \notin En(colaExit)
        BY <3>1, EnTurno
      <3> QED BY <3>1, <3>2, DespuesDelPrimero DEF Orden
    <2>2. CASE AtraparPorDefecto(e) \/ EsperarCaught(e) \/ LlegoCaught(e)
      <3>1. hilo[e].pc \in {"envia", "caught"}
        BY <2>2 DEF AtraparPorDefecto, EsperarCaught, LlegoCaught
      <3> QED BY <3>1, EnActivo, DespuesDelPrimero DEF Orden
    <2> QED BY <2>1, <2>2
  <1>3. sem'.cplazoReady = sem.cplazoReady
    BY DEF intentarAtraparPokemon, AtraparPorDefecto, EsperarCaught, LlegoCaught, Post, IInv,
           TiposPlan, TipoSem, Semaforos
  <1>4. Senales'
    BY <1>1, <1>2, <1>3, MarcoAvisos DEF Orden
  <1>5. /\ \A x \in Entrenadores \ {e} : entrenador'[x].estado = entrenador[x].estado
        /\ entrenador'[e].estado \in {entrenador[e].estado, "RECIBIO_RESPUESTA_OK"}
    <2> DEFINE c == CicloDeCatch(e)
    <2>1. "estado" \in DOMAIN c /\ c.estado = entrenador[e].estado
      BY DEF CicloDeCatch, IInv, TiposPlan, TipoEntrenador, Ficha
    <2> HIDE DEF c
    <2>2. CASE intentarAtraparPokemon(e) \/ LlegoCaught(e)
      BY <2>2 DEF intentarAtraparPokemon, LlegoCaught
    <2>3. CASE AtraparPorDefecto(e)
      <3>1. \E o : entrenador' =
               [entrenador EXCEPT ![e] = [c EXCEPT !.estado = "RECIBIO_RESPUESTA_OK", !.obtenidos = o]]
        BY <2>3 DEF AtraparPorDefecto, c
      <3> QED BY <2>1, <3>1 DEF IInv, TiposPlan, TipoEntrenador
    <2>4. CASE EsperarCaught(e)
      BY <2>1, <2>4 DEF EsperarCaught, c, IInv, TiposPlan, TipoEntrenador
    <2> QED BY <2>2, <2>3, <2>4
  <1>6. Solos'
    BY <1>1, <1>2, <1>5, MarcoSolosUno DEF Orden, Trueques, Estado
  <1> QED BY <1>4, <1>6 DEF Orden

\* What an exchange does: a trainer in BLOCKED in DEADLOCK, in the same place, takes part.
LEMMA IntercambiarHace ==
    ASSUME NEW e \in Entrenadores, IInv, vivo, vivo', Intercambiar(e)
    PROVE  /\ EnCpu(e) /\ semEntrenador[e] = 1 /\ Estado(e) = "INTERCAMBIAR"
           /\ \E otro \in En(colaBlocked) :
                 /\ otro # e /\ Estado(otro) = "DEADLOCK"
                 /\ \A x \in Entrenadores :
                       /\ entrenador'[x].estado = IF x \in {e, otro} THEN "ACABO_INTERCAMBIO"
                                                  ELSE entrenador[x].estado
                       /\ x \notin {e, otro} => entrenador'[x] = entrenador[x]
           /\ UNCHANGED <<colaReady, colaBlocked, colaExit, cp, mp, glob, hilo>>
           /\ sem'.cplazoReady = sem.cplazoReady
  <1> USE DEF IInv
  <1> DEFINE aca == {i \in Candidatos(e) : calcularDistancia(entrenador[e].posicion,
                                              entrenador[colaBlocked[i]].posicion) = 0}
             k == CHOOSE i \in aca : \A j \in aca : j <= i
             otro == colaBlocked[k]
             listas == intercambiarNormalPokemon(entrenador[e], entrenador[otro])
             n == IF esSJF THEN entrenador[e].instruccion + 5 ELSE entrenador[e].instruccion
             a == IF esSJF THEN entrenador[e].actual - 5 * Escala ELSE entrenador[e].actual
             u == listas.uno
             v == listas.otro
  <1>0. /\ EnCpu(e) /\ semEntrenador[e] = 1 /\ e \notin En(colaBlocked)
    BY EnTurno DEF Intercambiar, Turno
  <1>1. /\ UNCHANGED <<colaReady, colaBlocked, colaExit, cp, mp, glob, hilo>>
        /\ Estado(e) = "INTERCAMBIAR"
    BY DEF Intercambiar, Turno, colas
  <1>2. aca # {}
    BY DEF Intercambiar, Caerse
  <1>3. k \in aca
    <2>1. /\ aca \subseteq DOMAIN colaBlocked /\ DOMAIN colaBlocked = 1 .. Len(colaBlocked)
          /\ Len(colaBlocked) \in Nat
      BY LenProperties DEF Candidatos, Quieren, TiposPlan, TipoColas
    <2> HIDE DEF aca
    <2>2. \E i \in aca : \A j \in aca : j <= i
      BY <1>2, <2>1, MaximoOK
    <2> QED BY <2>2
  <1>4. otro \in Entrenadores /\ otro \in En(colaBlocked) /\ Estado(otro) = "DEADLOCK"
    <2>1. k \in Quieren({"DEADLOCK"})
      BY <1>3 DEF Candidatos
    <2> HIDE DEF k
    <2>2. colaBlocked \in Seq(Entrenadores) /\ SinRepetir(colaBlocked)
      BY DEF TiposPlan, TipoColas, Lugares
    <2>3. \A i \in Quieren({"DEADLOCK"}) :
             /\ colaBlocked[i] \in Entrenadores /\ colaBlocked[i] \in En(colaBlocked)
             /\ entrenador[colaBlocked[i]].estado \in {"DEADLOCK"}
      BY <2>2, QuierenOK
    <2> QED BY <2>1, <2>3 DEF Estado
  <1>5. /\ entrenador' = Intercambiado(e, otro, u, v, n, a)
        /\ sem' = Post("cplazoEntrenador", 1)
    <2>1. entrenador' = [entrenador EXCEPT
              ![e].obtenidos = u, ![otro].obtenidos = v,
              ![e].estado = "ACABO_INTERCAMBIO", ![otro].estado = "ACABO_INTERCAMBIO",
              ![e].instruccion = IF esSJF THEN @ + 5 ELSE @,
              ![e].actual = IF esSJF THEN @ - 5 * Escala ELSE @]
          /\ sem' = Post("cplazoEntrenador", 1)
      BY <1>2 DEF Intercambiar
    <2>2. entrenador = [x \in Entrenadores |-> entrenador[x]] /\ Ficha(entrenador[e])
          /\ Ficha(entrenador[otro])
      BY <1>4 DEF TiposPlan, TipoEntrenador
    <2>3. e # otro
      BY <1>0, <1>4
    <2> HIDE DEF u, v, otro
    <2> QED BY <1>4, <2>1, <2>2, <2>3 DEF Ficha, Intercambiado
  <1>6. n \in Int /\ a \in Int /\ e # otro
    BY <1>0, <1>4, EntrenadorAssumption DEF TiposPlan, TipoEntrenador, Ficha
  <1> HIDE DEF u, v, n, a, otro, aca
  <1>7. \A x \in Entrenadores : /\ entrenador'[x].estado = IF x \in {e, otro} THEN "ACABO_INTERCAMBIO"
                                                            ELSE entrenador[x].estado
                                /\ x \notin {e, otro} => entrenador'[x] = entrenador[x]
    BY <1>4, <1>5, <1>6, TrasIntercambio DEF TiposPlan
  <1>8. sem'.cplazoReady = sem.cplazoReady
    BY <1>5 DEF Post, TiposPlan, TipoSem, Semaforos
  <1> QED BY <1>0, <1>1, <1>4, <1>6, <1>7, <1>8

\* An exchange leaves both trainers in EXIT, in DEADLOCK or with what they lacked.
LEMMA IntercambiarEnOrden ==
    ASSUME NEW e \in Entrenadores, IInv, vivo, vivo', Orden, Intercambiar(e)
    PROVE  Orden'
  <1>1. /\ EnCpu(e) /\ semEntrenador[e] = 1 /\ Estado(e) = "INTERCAMBIAR"
        /\ UNCHANGED <<colaReady, colaBlocked, colaExit, cp, mp, glob>>
        /\ sem'.cplazoReady = sem.cplazoReady
    BY IntercambiarHace
  <1>2. PICK otro \in En(colaBlocked) :
           \A x \in Entrenadores : /\ entrenador'[x].estado = IF x \in {e, otro} THEN "ACABO_INTERCAMBIO"
                                                              ELSE entrenador[x].estado
    BY IntercambiarHace
  <1>3. glob.esLAPrimeraVez = 0
    BY <1>1, DespuesDelPrimero DEF Orden
  <1>4. Senales'
    BY <1>1, <1>3, MarcoAvisos DEF Orden
  <1>5. \A x \in Entrenadores : entrenador'[x].estado \notin Trueques
    <2>1. \A x \in Entrenadores \ {e} : Parado(x)
      BY <1>1 DEF Orden, Solos, Trueques
    <2>2. \A x \in Entrenadores \ {e} : Estado(x) \notin Trueques
      BY <2>1 DEF Parado, IInv, Protocolo, Turnos, Trueques
    <2> QED BY <1>2, <2>2 DEF Estado, Trueques
  <1>6. Solos'
    <2>1. mp.pc # "deadlock"
      BY <1>1 DEF Orden, Solos, Trueques
    <2> QED BY <1>1, <1>5, <2>1 DEF Orden, Solos, Estado
  <1> QED BY <1>4, <1>6 DEF Orden

\* The thread of a trainer in EXIT ends.
LEMMA TerminarHiloEnOrden ==
    ASSUME NEW e \in Entrenadores, IInv, vivo, Orden, TerminarHilo(e)
    PROVE  Orden'
  <1>1. /\ UNCHANGED <<colaReady, colaBlocked, colaExit, cp, mp, glob, sem, entrenador>>
        /\ Estado(e) = "EXIT"
    BY DEF TerminarHilo, colas
  <1>2. ~glob.finalizarProceso => glob.esLAPrimeraVez \notin {1, 2}
    BY <1>1, PrimerosTurnos DEF Orden
  <1>3. Senales'
    BY <1>1, <1>2 DEF Orden, Senales, Avisos, PorAvisar
  <1>4. Solos'
    BY <1>1, MarcoSolos DEF Orden, MismoEstado
  <1> QED BY <1>3, <1>4 DEF Orden

\* CaAplica: the trainer that catches goes for no exchange.
LEMMA CaAplicaEnOrden ==
    ASSUME NEW c \in caughts, IInv, vivo, Orden, CaAplica(c)
    PROVE  Orden'
  <1> USE DEF IInv
  <1>0. c.pc = "aplica" /\ UNCHANGED <<colaReady, colaBlocked, colaExit, cp, mp, glob>>
    BY DEF CaAplica, colas
  <1>1. PICK e \in Entrenadores : EnCaptura(e) /\ c.reserva = e /\ c.para = e /\ Falta(e)
    BY <1>0, EnCaughtOK
  <1>2. /\ EnCpu(e) /\ e \notin En(colaBlocked) /\ e \notin En(colaExit)
        /\ hilo[e].pc \in {"envia", "caught"}
    BY <1>1, EnActivo DEF EnCaptura
  <1>3. glob.esLAPrimeraVez = 0
    BY <1>2, DespuesDelPrimero DEF Orden
  <1>4. buscarPokemonReservado(e) # 0
    BY <1>1, BuscarReservaOK DEF Falta, TiposPlan, TipoMapa
  <1>5. \/ /\ \E o : entrenador' = [entrenador EXCEPT ![e].obtenidos = o, ![e].estado = "RECIBIO_RESPUESTA_OK"]
           /\ sem' = Post("esperar_caught", 1)
        \/ /\ entrenador' = [entrenador EXCEPT ![e].estado = "MOVERSE_A_POKEMON"]
           /\ \E n : sem' = [sem EXCEPT !.esperar_caught = @ + 1, !.hay = n]
    BY <1>1, <1>4 DEF CaAplica
  <1>6. sem'.cplazoReady = sem.cplazoReady
    BY <1>5 DEF Post, TiposPlan, TipoSem, Semaforos
  <1>7. /\ \A x \in Entrenadores \ {e} : entrenador'[x].estado = entrenador[x].estado
        /\ entrenador'[e].estado \notin Trueques
    BY <1>5 DEF TiposPlan, TipoEntrenador, Ficha, Trueques
  <1>8. Senales'
    BY <1>0, <1>3, <1>6, MarcoAvisos DEF Orden
  <1>9. Solos'
    BY <1>0, <1>2, <1>7, MarcoSolosUno DEF Orden
  <1> QED BY <1>8, <1>9 DEF Orden

\* The other threads of messages change no queue, no state and none of those signals.
LEMMA QuietosEnOrden ==
    ASSUME Orden, UNCHANGED <<entrenador, hilo, colas, cp, mp>>, MismosPlazos,
           sem'.cplazoReady = sem.cplazoReady, sem'.mplazo = sem.mplazo,
           glob'.finalizarProceso = glob.finalizarProceso, glob'.esLAPrimeraVez = glob.esLAPrimeraVez
    PROVE  Orden'
  <1>1. Senales'
    BY MarcoSenales DEF Orden, colas, MismoEstado
  <1>2. Solos'
    BY MarcoSolos DEF Orden, colas, MismoEstado
  <1> QED BY <1>1, <1>2 DEF Orden

\* The threads that receive messages and those that send them, but for the CAUGHT.
LEMMA RecepEnOrden ==
    ASSUME IInv, vivo, Orden,
           \/ \E m \in Ids : Llegada(m)
           \/ \E p \in Objetivo : GetEnvia(p) \/ GetAnota(p)
           \/ \E en \in envios : Envio(en)
           \/ \E id \in broker.pendientes : BrokerResponde(id)
           \/ \E c \in caughts : CaBusca(c) \/ CaEntrenador(c)
           \/ BrokerCae \/ BrokerVuelve
    PROVE  Orden'
  <1>0. sem \in Semaforos /\ DOMAIN glob = {"esLAPrimeraVez", "noEstimar", "entroUnoAReady",
                                           "finalizarProceso", "rta_catch", "enEjecucion"}
    BY DEF IInv, TiposPlan, TipoSem, TipoGlob
  <1> DEFINE Quieto == /\ UNCHANGED <<entrenador, hilo, colas, cp, mp>> /\ MismosPlazos
                       /\ sem'.cplazoReady = sem.cplazoReady /\ sem'.mplazo = sem.mplazo
                       /\ glob'.finalizarProceso = glob.finalizarProceso
                       /\ glob'.esLAPrimeraVez = glob.esLAPrimeraVez
  <1>p. \A s \in {"hay", "activacion", "mutex_catch", "esperar_caught"} : \A n :
           sem' = Post(s, n) => /\ MismosPlazos /\ sem'.cplazoReady = sem.cplazoReady
                                /\ sem'.mplazo = sem.mplazo
    BY <1>0 DEF Post, Semaforos, MismosPlazos
  <1>u. UNCHANGED sem => MismosPlazos /\ sem'.cplazoReady = sem.cplazoReady /\ sem'.mplazo = sem.mplazo
    BY DEF MismosPlazos
  <1>1. ASSUME NEW m \in Ids, Llegada(m) PROVE Quieto
    <2>1. CASE procesar_msg_appeared(m) \/ process_msjs_gameboy(m) \/ procesar_msg_localized(m) \/ Evaluar(m)
      BY <1>u, <2>1 DEF procesar_msg_appeared, process_msjs_gameboy, procesar_msg_localized,
             Aparece, Evaluar, planVars
    <2>2. CASE ApMapa(m) \/ ApAgrega(m) \/ LocAvisa(m) \/ LocAgrega(m) \/ Activar(m)
      <3>1. UNCHANGED <<entrenador, hilo, colas, cp, mp, glob>>
        BY <2>2 DEF ApMapa, ApAgrega, LocAvisa, LocAgrega, Activar
      <3>2. UNCHANGED sem \/ \E s \in {"hay", "activacion"} : \E n : sem' = Post(s, n)
        BY <2>2 DEF ApMapa, ApAgrega, LocAvisa, LocAgrega, Activar
      <3> QED BY <1>p, <1>u, <3>1, <3>2
    <2> QED BY <1>1, <2>1, <2>2 DEF Llegada
  <1>2. ASSUME NEW p \in Objetivo, GetEnvia(p) \/ GetAnota(p) PROVE Quieto
    BY <1>u, <1>2 DEF GetEnvia, GetAnota, planVars
  <1>3. ASSUME NEW en \in envios, Envio(en) PROVE Quieto
    <2>1. UNCHANGED <<entrenador, hilo, colas, cp, mp>>
      BY <1>3 DEF Envio, CatchConecta, CatchEnvia, CatchRechazado, CatchCortado, CatchSinBroker,
                  CatchAnota
    <2>2. UNCHANGED sem \/ sem' = Post("mutex_catch", 1)
      BY <1>3 DEF Envio, CatchConecta, CatchEnvia, CatchRechazado, CatchCortado, CatchSinBroker,
                  CatchAnota
    <2>3. UNCHANGED glob \/ \E n : glob' = [glob EXCEPT !.rta_catch = n]
      BY <1>3 DEF Envio, CatchConecta, CatchEnvia, CatchRechazado, CatchCortado, CatchSinBroker,
                  CatchAnota
    <2> QED BY <1>0, <1>p, <1>u, <2>1, <2>2, <2>3
  <1>4. ASSUME NEW id \in broker.pendientes, BrokerResponde(id) PROVE Quieto
    BY <1>u, <1>4 DEF BrokerResponde, planVars
  <1>5. ASSUME NEW c \in caughts, CaBusca(c) \/ CaEntrenador(c) PROVE Quieto
    <2>1. UNCHANGED <<entrenador, hilo, colas, cp, mp, glob>>
      BY <1>5 DEF CaBusca, CaEntrenador, planVars
    <2>2. UNCHANGED sem \/ sem' = Post("esperar_caught", 1)
      BY <1>5 DEF CaBusca, CaEntrenador, planVars
    <2> QED BY <1>p, <1>u, <2>1, <2>2
  <1>6. ASSUME BrokerCae \/ BrokerVuelve PROVE Quieto
    BY <1>u, <1>6 DEF BrokerCae, BrokerVuelve, planVars
  <1> HIDE DEF Quieto
  <1>7. Quieto
    BY <1>1, <1>2, <1>3, <1>4, <1>5, <1>6
  <1> QED BY <1>7, QuietosEnOrden DEF Quieto

\* Every step of a Team that does not fall keeps Senales and Solos, and neither CpElige nor
\* MpDeadlock makes it fall.
LEMMA NextEnOrden ==
    ASSUME IInv, Orden, Next
    PROVE  /\ vivo' => Orden'
           /\ ~vivo' => \E e \in Entrenadores : TurnoAEntrenador(e) \/ Intercambiar(e)
  <1>1. vivo
    BY DEF Next, Corriendo
  <1>2. ASSUME vivo' PROVE Orden'
    <2>1. CASE Plan
      <3>1. CASE CortoPlazo
        BY <1>1, <3>1, CpTerminaEnOrden, CpEligeEnOrden, CpDevuelveEnOrden DEF CortoPlazo
      <3>2. CASE MedianoPlazo
        BY <1>1, <3>2, MpActivaEnOrden, MpEsperaEnOrden, MpRevisaEnOrden, MpTodosEnExitEnOrden,
           MpMiraEnOrden, MpPokemonEnOrden, MpAsignaEnOrden, MpAvisaEnOrden, MpOtroEnOrden,
           MpDetectaEnOrden, MpDeadlockEnOrden, MpTerminaEnOrden DEF MedianoPlazo
      <3>3. ASSUME NEW e \in Entrenadores, Entrenador(e) PROVE Orden'
        BY <1>1, <1>2, <3>3, MueveEnOrden, DejarDeMoverEnOrden, CatchEnOrden, IntercambiarEnOrden,
           TerminarHiloEnOrden DEF Entrenador
      <3> QED BY <2>1, <3>1, <3>2, <3>3 DEF Plan, PlanNext
    <2>2. ASSUME NEW c \in caughts, CaAplica(c) PROVE Orden'
      BY <1>1, <2>2, CaAplicaEnOrden
    <2> QED BY <1>1, <2>1, <2>2, RecepEnOrden DEF Next, procesar_msg_caught
  <1>3. ASSUME ~vivo' PROVE \E e \in Entrenadores : TurnoAEntrenador(e) \/ Intercambiar(e)
    <2>1. Cae
      BY <1>3, CaidaOK
    <2>2. ~CpElige /\ ~MpDeadlock
      BY <1>1, <1>3, CpEligeEnOrden, MpDeadlockEnOrden
    <2> QED BY <2>1, <2>2 DEF Cae
  <1> QED BY <1>2, <1>3

\* At the start nobody has moved.
LEMMA InitEnOrden ==
    Init => Orden
  <1> SUFFICES ASSUME Init PROVE Orden
    OBVIOUS
  <1>1. /\ sem.cplazoReady = 0 /\ sem.mplazo = 1 /\ sem.cplazoEntrenador = 0
        /\ mp.pc = "inicio" /\ cp.pc = "espera" /\ colaReady = <<>> /\ Len(colaReady) = 0
        /\ glob.esLAPrimeraVez = 2 /\ ~glob.finalizarProceso
    BY EmptySeq DEF Init, PlanInit
  <1>2. \A e \in Entrenadores : Estado(e) = "MOVERSE_A_POKEMON" /\ hilo[e].pc = "espera"
    BY DEF Init, PlanInit, iniciar_entrenador, HiloQuieto, Estado
  <1>3. Senales
    BY <1>1, <1>2 DEF Senales, AlPrincipio, Avisos, PorAvisar
  <1>4. Solos
    BY <1>1, <1>2 DEF Solos, Trueques
  <1> QED BY <1>3, <1>4 DEF Orden
-----------------------------------------------------------------------------
(* Sums of several functions. *)

\* Every function on the positions of a list has its sum, and only one.
LEMMA HaySuman ==
    ASSUME NEW n \in Nat, NEW f, \A i \in 1 .. n : f[i] \in Int
    PROVE  \E x \in Int : SumanHasta(f, n, x)
  <1>0. \A i \in 1 .. n : f[i] \in Int
    OBVIOUS
  <1>1. PICK s : EsSumaParcial(s, f, n)
    BY <1>0, HaySumaParcial
  <1> DEFINE z == s[n]
  <1>2. z \in Int
    BY <1>1 DEF EsSumaParcial
  <1>3. SumanHasta(f, n, z)
    BY <1>1 DEF SumanHasta
  <1> HIDE DEF z
  <1> QED BY <1>2, <1>3

\* A sum of smaller numbers is smaller.
LEMMA SumanMenor ==
    ASSUME NEW n \in Nat, NEW f, NEW x, SumanHasta(f, n, x), NEW h, NEW y, SumanHasta(h, n, y),
           \A i \in 1 .. n : f[i] \in Int /\ h[i] \in Int /\ f[i] <= h[i]
    PROVE  x <= y /\ x \in Int /\ y \in Int
  <1>1. PICK s : EsSumaParcial(s, f, n) /\ x = s[n]
    BY DEF SumanHasta
  <1>2. PICK r : EsSumaParcial(r, h, n) /\ y = r[n]
    BY DEF SumanHasta
  <1>3. s[n] \in Int /\ r[n] \in Int
    BY <1>1, <1>2 DEF EsSumaParcial
  <1>4. s[n] <= r[n]
    BY <1>1, <1>2, SumaMenor
  <1> QED BY <1>1, <1>2, <1>3, <1>4

\* Equal numbers have equal sums.
LEMMA SumanLoMismo ==
    ASSUME NEW n \in Nat, NEW f, NEW x, SumanHasta(f, n, x), NEW h, NEW y, SumanHasta(h, n, y),
           \A i \in 1 .. n : f[i] \in Int /\ h[i] = f[i]
    PROVE  x = y
  <1>1. x <= y /\ x \in Int /\ y \in Int
    BY SumanMenor
  <1>2. y <= x
    BY SumanMenor
  <1> QED BY <1>1, <1>2

\* Where a function is below another one its sum is as much below.
LEMMA SumanMenorEn ==
    ASSUME NEW n \in Nat, NEW f, NEW x, SumanHasta(f, n, x), NEW h, NEW y, SumanHasta(h, n, y),
           \A i \in 1 .. n : f[i] \in Int /\ h[i] \in Int /\ f[i] <= h[i], NEW k \in 1 .. n
    PROVE  x + (h[k] - f[k]) <= y
  <1> DEFINE d == h[k] - f[k]
             g == [i \in 1 .. n |-> IF i = k THEN f[i] + d ELSE f[i]]
  <1>1. d \in Int
    OBVIOUS
  <1>2. ConCambio(g, f, n, k, d)
    BY DEF ConCambio
  <1>3. \A i \in 1 .. n : g[i] \in Int /\ h[i] \in Int /\ g[i] <= h[i]
    OBVIOUS
  <1> HIDE DEF d, g
  <1>4. SumanHasta(g, n, x + d)
    BY <1>1, <1>2, SumanMas
  <1> DEFINE z == x + d
  <1>5. SumanHasta(g, n, z)
    BY <1>4
  <1> HIDE DEF z
  <1>6. z <= y
    BY <1>3, <1>5, SumanMenor
  <1> QED BY <1>6 DEF z, d

\* The sum of two functions is the sum of their sums.
LEMMA SumanLosDos ==
    ASSUME NEW n \in Nat, NEW f, NEW x, SumanHasta(f, n, x), NEW g, NEW y, SumanHasta(g, n, y), NEW h,
           \A i \in 1 .. n : f[i] \in Int /\ g[i] \in Int /\ h[i] = f[i] + g[i]
    PROVE  SumanHasta(h, n, x + y)
  <1>1. PICK s : EsSumaParcial(s, f, n) /\ x = s[n]
    BY DEF SumanHasta
  <1>2. PICK r : EsSumaParcial(r, g, n) /\ y = r[n]
    BY DEF SumanHasta
  <1> DEFINE t == [k \in 0 .. n |-> s[k] + r[k]]
  <1>3. \A k \in 0 .. n : s[k] \in Int /\ r[k] \in Int /\ t[k] = s[k] + r[k]
    BY <1>1, <1>2 DEF EsSumaParcial
  <1>4. t[0] = 0 /\ t[n] = x + y /\ t \in [0 .. n -> Int]
    BY <1>1, <1>2, <1>3 DEF EsSumaParcial
  <1>5. \A i \in 1 .. n : t[i] = t[i - 1] + h[i]
    <2> TAKE i \in 1 .. n
    <2>1. s[i] = s[i - 1] + f[i] /\ r[i] = r[i - 1] + g[i]
      BY <1>1, <1>2 DEF EsSumaParcial
    <2>2. i \in 0 .. n /\ i - 1 \in 0 .. n
      OBVIOUS
    <2>3. t[i] = s[i] + r[i] /\ t[i - 1] = s[i - 1] + r[i - 1]
      BY <1>3, <2>2
    <2> HIDE DEF t
    <2> QED BY <1>3, <2>1, <2>2, <2>3
  <1> HIDE DEF t
  <1> QED BY <1>4, <1>5 DEF SumanHasta, EsSumaParcial

\* Nothing adds up to 0.
LEMMA SumaNula ==
    ASSUME NEW n \in Nat, NEW f, NEW x, SumanHasta(f, n, x), \A i \in 1 .. n : f[i] = 0
    PROVE  x = 0
  <1> DEFINE s == [i \in 0 .. n |-> 0]
             z == 0
  <1>1. EsSumaParcial(s, f, n) /\ s[n] = z
    BY DEF EsSumaParcial
  <1> HIDE DEF s, z
  <1>2. SumanHasta(f, n, z)
    BY <1>1 DEF SumanHasta
  <1>3. x = z
    BY <1>2, SumanLoMismo
  <1> QED BY <1>3 DEF z

\* The sum of the sums of the rows is that of the sums of the columns.
LEMMA SumaDoble ==
    ASSUME NEW n \in Nat, NEW m \in Nat, NEW M \in [1 .. n -> [1 .. m -> Int]],
           NEW R, \A x \in 1 .. n : R[x] \in Int /\ SumanHasta(M[x], m, R[x]),
           NEW C, \A i \in 1 .. m : C[i] \in Int /\ SumanHasta([x \in 1 .. n |-> M[x][i]], n, C[i]),
           NEW b, SumanHasta(C, m, b)
    PROVE  SumanHasta(R, n, b)
  <1> DEFINE col(i) == [x \in 1 .. n |-> M[x][i]]
             cs == [i \in 1 .. m |-> CHOOSE c : EsSumaParcial(c, col(i), n)]
             en(j) == [i \in 1 .. m |-> cs[i][j]]
  <1>1. PICK s : EsSumaParcial(s, R, n)
    BY HaySumaParcial
  <1>2. \A i \in 1 .. m : \A x \in 1 .. n : M[x][i] \in Int /\ col(i)[x] = M[x][i]
    OBVIOUS
  <1>3. ASSUME NEW i \in 1 .. m PROVE EsSumaParcial(cs[i], col(i), n)
    <2> DEFINE f == col(i)
    <2>1. \A x \in 1 .. n : f[x] \in Int
      BY <1>2
    <2>2. cs[i] = CHOOSE c : EsSumaParcial(c, f, n)
      OBVIOUS
    <2> HIDE DEF f, cs
    <2>3. \E c : EsSumaParcial(c, f, n)
      BY <2>1, HaySumaParcial
    <2>4. EsSumaParcial(cs[i], f, n)
      BY <2>2, <2>3
    <2> QED BY <2>4 DEF f
  <1>4. ASSUME NEW i \in 1 .. m PROVE cs[i][n] = C[i]
    <2> DEFINE f == col(i)
               c == cs[i]
               w == c[n]
    <2>1. EsSumaParcial(c, f, n)
      BY <1>3
    <2>2. \A x \in 1 .. n : f[x] \in Int
      BY <1>2
    <2>3. SumanHasta(f, n, C[i])
      OBVIOUS
    <2> HIDE DEF f, c, cs
    <2>4. SumanHasta(f, n, w)
      BY <2>1 DEF SumanHasta
    <2> HIDE DEF w
    <2>5. w = C[i]
      BY <2>2, <2>3, <2>4, SumanLoMismo
    <2> QED BY <2>5 DEF w, c
  <1> HIDE DEF cs
  <1>5. \A i \in 1 .. m : \A j \in 0 .. n : cs[i][j] \in Int
    <2> HIDE DEF col
    <2> QED BY <1>3 DEF EsSumaParcial
  <1>6. \A i \in 1 .. m : cs[i][0] = 0 /\ \A j \in 1 .. n : cs[i][j] = cs[i][j - 1] + M[j][i]
    <2> TAKE i \in 1 .. m
    <2>1. cs[i][0] = 0 /\ \A j \in 1 .. n : cs[i][j] = cs[i][j - 1] + col(i)[j]
      <3> DEFINE f == col(i)
      <3>1. EsSumaParcial(cs[i], f, n)
        BY <1>3
      <3> HIDE DEF f
      <3>2. cs[i][0] = 0 /\ \A j \in 1 .. n : cs[i][j] = cs[i][j - 1] + f[j]
        BY <3>1 DEF EsSumaParcial
      <3> QED BY <3>2 DEF f
    <2> QED BY <1>2, <2>1
  <1> HIDE DEF col
  <1>7. \A j \in 0 .. n : \A i \in 1 .. m : en(j)[i] = cs[i][j] /\ en(j)[i] \in Int
    BY <1>5
  <1> DEFINE T == {j \in 0 .. n : SumanHasta(en(j), m, s[j])}
  <1>8. 0 \in T
    <2> DEFINE f == en(0)
    <2>1. 0 \in 0 .. n /\ s[0] = 0
      BY <1>1 DEF EsSumaParcial
    <2>2. \A i \in 1 .. m : f[i] = 0
      BY <1>6, <1>7, <2>1
    <2> HIDE DEF f
    <2>5. \A i \in 1 .. m : f[i] \in Int
      BY <2>2
    <2>3. PICK x \in Int : SumanHasta(f, m, x)
      BY <2>5, HaySuman
    <2>4. x = s[0]
      BY <2>1, <2>2, <2>3, SumaNula
    <2> QED BY <2>1, <2>3, <2>4 DEF f
  <1>9. ASSUME NEW j \in 1 .. n, j - 1 \in T PROVE j \in T
    <2> DEFINE f == en(j - 1)
               g == M[j]
               h == en(j)
               k == j - 1
               v == s[k]
               w == R[j]
    <2>1. k \in 0 .. n /\ j \in 0 .. n
      OBVIOUS
    <2>2. \A i \in 1 .. m : f[i] \in Int /\ g[i] \in Int /\ h[i] = f[i] + g[i]
      BY <1>6, <1>7, <2>1
    <2>3. SumanHasta(f, m, v) /\ SumanHasta(g, m, w)
      BY <1>9
    <2>4. s[j] = v + w
      BY <1>1 DEF EsSumaParcial
    <2> HIDE DEF f, g, h, k, v, w, en
    <2>5. SumanHasta(h, m, v + w)
      BY <2>2, <2>3, SumanLosDos
    <2> QED BY <2>1, <2>4, <2>5 DEF h
  <1>10. n \in T
    <2>1. 0 \in T /\ \A j \in 1 .. n : j - 1 \in T => j \in T
      BY <1>8, <1>9
    <2> HIDE DEF T
    <2>2. \A j \in 0 .. n : j \in T
      BY <2>1, InductivoHasta
    <2> QED BY <2>2
  <1> DEFINE h == en(n)
  <1>11. SumanHasta(h, m, s[n]) /\ n \in 0 .. n
    BY <1>10
  <1>12. \A i \in 1 .. m : h[i] \in Int /\ C[i] = h[i]
    BY <1>4, <1>7, <1>11
  <1> HIDE DEF h
  <1>13. s[n] = b
    BY <1>11, <1>12, SumanLoMismo
  <1> QED BY <1>1, <1>13 DEF SumanHasta

\* No term of a sum of what is never negative is above it.
LEMMA TerminoMenor ==
    ASSUME NEW n \in Nat, NEW f, NEW x, SumanHasta(f, n, x), \A i \in 1 .. n : f[i] \in Nat, NEW k \in 1 .. n
    PROVE  f[k] <= x
  <1> DEFINE c == [i \in 1 .. n |-> 0]
  <1>1. \A i \in 1 .. n : c[i] = 0
    OBVIOUS
  <1> HIDE DEF c
  <1>2. \A i \in 1 .. n : c[i] \in Int
    BY <1>1
  <1>3. PICK z \in Int : SumanHasta(c, n, z)
    BY <1>2, HaySuman
  <1>4. z = 0
    BY <1>1, <1>3, SumaNula
  <1>5. \A i \in 1 .. n : c[i] \in Int /\ f[i] \in Int /\ c[i] <= f[i]
    BY <1>1
  <1>6. z + (f[k] - c[k]) <= x
    BY <1>3, <1>5, SumanMenorEn
  <1> QED BY <1>1, <1>4, <1>6

\* The pokemons of a list are those of each of some species that are all it has.
LEMMA TotalSuma ==
    ASSUME NEW S, NEW l \in Listas(S), NEW m \in Nat, NEW g, \A i, j \in 1 .. m : g[i] = g[j] => i = j,
           \A j \in DOMAIN l : \E i \in 1 .. m : g[i] = l[j].pokemon
    PROVE  SumanHasta([i \in 1 .. m |-> list_buscar(l, g[i])], m, cantidadDePokemonesEnLista(l))
  <1> DEFINE n == Len(l)
             c == Cantidades(l)
             en(k) == [i \in 1 .. m |-> Contados(l, g[i], k)]
  <1>1. PICK s : EsSumaParcial(s, c, n) /\ cantidadDePokemonesEnLista(l) = s[n]
    BY TotalOK
  <1>2. /\ n \in Nat /\ DOMAIN l = 1 .. n
        /\ \A j \in 1 .. n : c[j] = l[j].cantidad /\ c[j] \in Int
    BY CantidadesOK
  <1>3. \A p : list_buscar(l, p) \in Nat
    BY BuscarOK
  <1>4. \A k \in 0 .. n : \A i \in 1 .. m : en(k)[i] = Contados(l, g[i], k) /\ en(k)[i] \in Int
    BY <1>3 DEF Contados
  <1> DEFINE T == {k \in 0 .. n : SumanHasta(en(k), m, s[k])}
  <1>5. 0 \in T
    <2> DEFINE f == en(0)
    <2>1. 0 \in 0 .. n /\ s[0] = 0
      BY <1>1, <1>2 DEF EsSumaParcial
    <2>2. \A i \in 1 .. m : f[i] = 0
      BY DEF Contados
    <2> HIDE DEF f
    <2>3. \A i \in 1 .. m : f[i] \in Int
      BY <2>2
    <2>4. PICK x \in Int : SumanHasta(f, m, x)
      BY <2>3, HaySuman
    <2>5. x = s[0]
      BY <2>1, <2>2, <2>4, SumaNula
    <2> QED BY <2>1, <2>4, <2>5 DEF f
  <1>6. ASSUME NEW k \in 1 .. n, k - 1 \in T PROVE k \in T
    <2> DEFINE f == en(k - 1)
               h == en(k)
               v == s[k - 1]
               d == c[k]
    <2>1. k \in 0 .. n /\ k - 1 \in 0 .. n /\ k \in DOMAIN l
      BY <1>2
    <2>2. PICK i \in 1 .. m : g[i] = l[k].pokemon
      BY <2>1
    <2>3. ASSUME NEW j \in 1 .. m PROVE f[j] \in Int /\ h[j] = IF j = i THEN f[j] + d ELSE f[j]
      <3>1. f[j] = Contados(l, g[j], k - 1) /\ f[j] \in Int /\ h[j] = Contados(l, g[j], k)
        BY <1>4, <2>1
      <3>2. Contados(l, g[j], k) =
               Contados(l, g[j], k - 1) + (IF g[j] = l[k].pokemon THEN l[k].cantidad ELSE 0)
        BY ContarMas
      <3>3. d = l[k].cantidad
        BY <1>2
      <3>4. g[j] = l[k].pokemon <=> j = i
        BY <2>2
      <3> HIDE DEF f, h, d
      <3> QED BY <3>1, <3>2, <3>3, <3>4
    <2>4. SumanHasta(f, m, v) /\ s[k] = v + d /\ d \in Int
      BY <1>1, <1>2, <1>6 DEF EsSumaParcial
    <2> HIDE DEF f, h, v, d, en
    <2>5. ConCambio(h, f, m, i, d)
      BY <2>3 DEF ConCambio
    <2>6. SumanHasta(h, m, v + d)
      BY <2>4, <2>5, SumanMas
    <2> QED BY <2>1, <2>4, <2>6 DEF h
  <1>7. n \in T
    <2>1. n \in Nat /\ 0 \in T /\ \A k \in 1 .. n : k - 1 \in T => k \in T
      BY <1>2, <1>5, <1>6
    <2> HIDE DEF T, n
    <2>2. \A k \in 0 .. n : k \in T
      BY <2>1, InductivoHasta
    <2> QED BY <2>1, <2>2
  <1>8. ASSUME NEW i \in 1 .. m PROVE Contados(l, g[i], n) = list_buscar(l, g[i])
    <2>1. CASE \E j \in 1 .. n : l[j].pokemon = g[i]
      BY <2>1 DEF Contados
    <2>2. CASE \A j \in 1 .. n : l[j].pokemon # g[i]
      BY <1>2, <2>2, SinRegistro DEF Contados
    <2> QED BY <2>1, <2>2
  <1>9. en(n) = [i \in 1 .. m |-> list_buscar(l, g[i])]
    BY <1>8
  <1> QED BY <1>1, <1>7, <1>9

\* n trainers that have the lists o and want the lists q, in total a and b, nobody who is in
\* X with less than it wants and the others with as many as they want.
Cuadran(n, o, q, a, b, X) ==
    /\ n \in Nat /\ Lista(a) /\ Lista(b)
    /\ \A x \in 1 .. n : Lista(o[x]) /\ Lista(q[x])
    /\ \A p : SumanHasta([x \in 1 .. n |-> list_buscar(o[x], p)], n, list_buscar(a, p))
    /\ \A p : SumanHasta([x \in 1 .. n |-> list_buscar(q[x], p)], n, list_buscar(b, p))
    /\ \A p : list_buscar(a, p) <= list_buscar(b, p)
    /\ \A x \in 1 .. n : x \in X => \A p : list_buscar(q[x], p) <= list_buscar(o[x], p)
    /\ \A x \in 1 .. n : x \notin X =>
          cantidadDePokemonesEnLista(o[x]) = cantidadDePokemonesEnLista(q[x])

\* When all together have no more of any species than they want, who is out has all it
\* wants and each of the others has as many as it wants, then what one of the others lacks
\* some other one has, and more of it than it wants: what those who are out could have in
\* excess would be missing from a total that is exact.
LEMMA Conteo ==
    ASSUME NEW n, NEW o, NEW q, NEW a, NEW b, NEW X, Cuadran(n, o, q, a, b, X),
           NEW e \in 1 .. n, e \notin X, NEW p0, list_buscar(o[e], p0) < list_buscar(q[e], p0)
    PROVE  \E x \in 1 .. n : x \notin X /\ list_buscar(q[x], p0) < list_buscar(o[x], p0)
  <1> SUFFICES ASSUME \A x \in 1 .. n : x \notin X => ~ (list_buscar(q[x], p0) < list_buscar(o[x], p0))
               PROVE  FALSE
    OBVIOUS
  <1> SUFFICES ASSUME n \in Nat,
                      \A x \in 1 .. n : Lista(o[x]) /\ Lista(q[x]),
                      Lista(a),
                      Lista(b),
                      \A p : SumanHasta([x \in 1 .. n |-> list_buscar(o[x], p)], n, list_buscar(a, p)),
                      \A p : SumanHasta([x \in 1 .. n |-> list_buscar(q[x], p)], n, list_buscar(b, p)),
                      \A p : list_buscar(a, p) <= list_buscar(b, p),
                      \A x \in 1 .. n : x \in X => \A p : list_buscar(q[x], p) <= list_buscar(o[x], p),
                      \A x \in 1 .. n : x \notin X => cantidadDePokemonesEnLista(o[x]) = cantidadDePokemonesEnLista(q[x])
               PROVE  FALSE
    BY DEF Cuadran
  <1> DEFINE m == Len(b)
             g == [i \in 1 .. m |-> b[i].pokemon]
             total(l) == cantidadDePokemonesEnLista(l)
             deA == [i \in 1 .. m |-> list_buscar(a, g[i])]
             deB == [i \in 1 .. m |-> list_buscar(b, g[i])]
             tablaO == [x \in 1 .. n |-> [i \in 1 .. m |-> list_buscar(o[x], g[i])]]
             tablaQ == [x \in 1 .. n |-> [i \in 1 .. m |-> list_buscar(q[x], g[i])]]
             totalO == [x \in 1 .. n |-> total(o[x])]
             totalQ == [x \in 1 .. n |-> total(q[x])]
  <1>1. PICK S : b \in Listas(S)
    BY DEF Lista
  <1>2. /\ \A p : list_buscar(a, p) \in Nat /\ list_buscar(b, p) \in Nat
        /\ \A x \in 1 .. n : \A p : list_buscar(o[x], p) \in Nat /\ list_buscar(q[x], p) \in Nat
    <2>1. \A l, p : Lista(l) => list_buscar(l, p) \in Nat
      BY BuscarOK DEF Lista
    <2> QED BY <2>1
  <1>3. /\ m \in Nat /\ DOMAIN b = 1 .. m
        /\ \A i, j \in 1 .. m : g[i] = g[j] => i = j
    <2>1. m \in Nat /\ DOMAIN b = 1 .. m
      BY <1>1, CantidadesOK
    <2> QED BY <1>1, <2>1 DEF Listas, NombresUnicos
  <1>4. ASSUME NEW p, list_buscar(b, p) > 0 PROVE \E i \in 1 .. m : g[i] = p
    BY <1>1, <1>3, <1>4, Registro
  <1>5. ASSUME NEW x \in 1 .. n, NEW p
        PROVE  list_buscar(o[x], p) <= list_buscar(b, p) /\ list_buscar(q[x], p) <= list_buscar(b, p)
    <2> DEFINE f == [y \in 1 .. n |-> list_buscar(o[y], p)]
               h == [y \in 1 .. n |-> list_buscar(q[y], p)]
    <2>1. \A y \in 1 .. n : f[y] \in Nat
      BY <1>2
    <2>2. \A y \in 1 .. n : h[y] \in Nat
      BY <1>2
    <2>3. SumanHasta(f, n, list_buscar(a, p)) /\ SumanHasta(h, n, list_buscar(b, p))
      OBVIOUS
    <2>4. f[x] = list_buscar(o[x], p) /\ h[x] = list_buscar(q[x], p)
      OBVIOUS
    <2> HIDE DEF f, h
    <2>5. f[x] <= list_buscar(a, p)
      BY <2>1, <2>3, TerminoMenor
    <2>6. h[x] <= list_buscar(b, p)
      BY <2>2, <2>3, TerminoMenor
    <2>7. /\ list_buscar(a, p) \in Nat /\ list_buscar(b, p) \in Nat /\ list_buscar(o[x], p) \in Nat
          /\ list_buscar(a, p) <= list_buscar(b, p)
      BY <1>2
    <2> QED BY <2>4, <2>5, <2>6, <2>7
  \* The species of b are all that any of them has or wants.
  <1>6. ASSUME NEW x \in 1 .. n, NEW l \in {o[x], q[x]}
        PROVE  total(l) \in Int /\ SumanHasta([i \in 1 .. m |-> list_buscar(l, g[i])], m, total(l))
    <2>1. PICK R : l \in Listas(R)
      BY DEF Lista
    <2>2. ASSUME NEW j \in DOMAIN l PROVE \E i \in 1 .. m : g[i] = l[j].pokemon
      <3> DEFINE p == l[j].pokemon
      <3>1. l[j].cantidad > 0 /\ l[j].cantidad \in Int /\ list_buscar(l, p) = l[j].cantidad
        BY <2>1, CantidadesOK, BuscarOK
      <3>2. list_buscar(l, p) <= list_buscar(b, p) /\ list_buscar(b, p) \in Nat
        BY <1>2, <1>5
      <3>3. list_buscar(b, p) > 0
        BY <3>1, <3>2
      <3> HIDE DEF p, g, m
      <3>4. \E i \in 1 .. m : g[i] = p
        BY <1>4, <3>3
      <3> QED BY <3>4 DEF p
    <2>3. SumanHasta([i \in 1 .. m |-> list_buscar(l, g[i])], m, total(l))
      <3> HIDE DEF g, m
      <3> QED BY <1>3, <2>1, <2>2, TotalSuma
    <2>4. total(l) \in Int
      <3>1. PICK s : EsSumaParcial(s, Cantidades(l), Len(l)) /\ total(l) = s[Len(l)]
        BY <2>1, TotalOK
      <3>2. Len(l) \in Nat
        BY <2>1, CantidadesOK
      <3> QED BY <3>1, <3>2 DEF EsSumaParcial
    <2> QED BY <2>3, <2>4
  <1>7. PICK k \in 1 .. m : g[k] = p0
    <2> DEFINE s == list_buscar(o[e], p0)
               t == list_buscar(q[e], p0)
               u == list_buscar(b, p0)
    <2>1. s \in Nat /\ t \in Nat /\ u \in Nat /\ s < t
      BY <1>2
    <2>2. t <= u
      BY <1>5
    <2> HIDE DEF s, t, u, g, m
    <2>3. u > 0
      BY <2>1, <2>2
    <2> QED BY <1>4, <2>3 DEF u
  <1> HIDE DEF g, m, total
  <1>8. \A i \in 1 .. m : deA[i] = list_buscar(a, g[i]) /\ deB[i] = list_buscar(b, g[i])
    OBVIOUS
  <1>9. \A i \in 1 .. m : deA[i] \in Int /\ deB[i] \in Int /\ deA[i] <= deB[i]
    BY <1>2, <1>8
  <1>10. PICK A \in Int : SumanHasta(deA, m, A)
    <2>1. \A i \in 1 .. m : deA[i] \in Int
      BY <1>9
    <2> HIDE DEF deA
    <2> QED BY <1>3, <2>1, HaySuman
  <1>11. PICK B \in Int : SumanHasta(deB, m, B)
    <2>1. \A i \in 1 .. m : deB[i] \in Int
      BY <1>9
    <2> HIDE DEF deB
    <2> QED BY <1>3, <2>1, HaySuman
  <1>12. A + (list_buscar(b, p0) - list_buscar(a, p0)) <= B
    <2>1. deA[k] = list_buscar(a, p0) /\ deB[k] = list_buscar(b, p0)
      BY <1>7, <1>8
    <2> HIDE DEF deA, deB
    <2>2. A + (deB[k] - deA[k]) <= B
      BY <1>3, <1>9, <1>10, <1>11, SumanMenorEn
    <2> QED BY <2>1, <2>2
  <1>13. \A x \in 1 .. n : /\ totalO[x] = total(o[x]) /\ totalQ[x] = total(q[x])
                           /\ totalO[x] \in Int /\ totalQ[x] \in Int
    BY <1>6
  <1>14. SumanHasta(totalO, n, A)
    <2>1. \A x \in 1 .. n : totalO[x] \in Int /\ SumanHasta(tablaO[x], m, totalO[x])
      BY <1>6
    <2>2. tablaO \in [1 .. n -> [1 .. m -> Int]]
      <3>1. ASSUME NEW x \in 1 .. n, NEW i \in 1 .. m PROVE list_buscar(o[x], g[i]) \in Int
        BY <1>2
      <3> QED BY <3>1
    <2>3. ASSUME NEW i \in 1 .. m PROVE SumanHasta([x \in 1 .. n |-> tablaO[x][i]], n, deA[i])
      <3>1. [x \in 1 .. n |-> tablaO[x][i]] = [x \in 1 .. n |-> list_buscar(o[x], g[i])]
        OBVIOUS
      <3> QED BY <1>8, <3>1
    <2>4. \A i \in 1 .. m : deA[i] \in Int /\ SumanHasta([x \in 1 .. n |-> tablaO[x][i]], n, deA[i])
      BY <1>9, <2>3
    <2> HIDE DEF tablaO, totalO, deA
    <2> QED BY <1>3, <1>10, <2>1, <2>2, <2>4, SumaDoble
  <1>15. SumanHasta(totalQ, n, B)
    <2>1. \A x \in 1 .. n : totalQ[x] \in Int /\ SumanHasta(tablaQ[x], m, totalQ[x])
      BY <1>6
    <2>2. tablaQ \in [1 .. n -> [1 .. m -> Int]]
      <3>1. ASSUME NEW x \in 1 .. n, NEW i \in 1 .. m PROVE list_buscar(q[x], g[i]) \in Int
        BY <1>2
      <3> QED BY <3>1
    <2>3. ASSUME NEW i \in 1 .. m PROVE SumanHasta([x \in 1 .. n |-> tablaQ[x][i]], n, deB[i])
      <3>1. [x \in 1 .. n |-> tablaQ[x][i]] = [x \in 1 .. n |-> list_buscar(q[x], g[i])]
        OBVIOUS
      <3> QED BY <1>8, <3>1
    <2>4. \A i \in 1 .. m : deB[i] \in Int /\ SumanHasta([x \in 1 .. n |-> tablaQ[x][i]], n, deB[i])
      BY <1>9, <2>3
    <2> HIDE DEF tablaQ, totalQ, deB
    <2> QED BY <1>3, <1>11, <2>1, <2>2, <2>4, SumaDoble
  \* What those who are out have of p0 above what they want.
  <1> DEFINE r == [x \in 1 .. n |-> IF x \in X THEN list_buscar(o[x], p0) - list_buscar(q[x], p0) ELSE 0]
             h == [x \in 1 .. n |-> totalQ[x] + r[x]]
             f == [x \in 1 .. n |-> list_buscar(o[x], p0)]
             w == [x \in 1 .. n |-> list_buscar(q[x], p0)]
             v == [x \in 1 .. n |-> w[x] + r[x]]
  <1>16. \A x \in 1 .. n : r[x] \in Int
    BY <1>2
  <1>17. PICK z \in Int : SumanHasta(r, n, z)
    <2> HIDE DEF r
    <2> QED BY <1>16, HaySuman
  <1>18. ASSUME NEW x \in 1 .. n PROVE h[x] \in Int /\ h[x] <= totalO[x]
    <2>1. CASE x \notin X
      <3>1. total(o[x]) = total(q[x])
        BY <2>1 DEF total
      <3> QED BY <1>13, <2>1, <3>1
    <2>2. CASE x \in X
      <3> DEFINE c == tablaQ[x]
                 d == tablaO[x]
      <3>1. SumanHasta(c, m, totalQ[x]) /\ SumanHasta(d, m, totalO[x])
        BY <1>6
      <3>2. \A i \in 1 .. m : c[i] = list_buscar(q[x], g[i]) /\ d[i] = list_buscar(o[x], g[i])
        OBVIOUS
      <3>3. \A i \in 1 .. m : c[i] \in Int /\ d[i] \in Int /\ c[i] <= d[i]
        BY <1>2, <2>2, <3>2
      <3>4. c[k] = list_buscar(q[x], p0) /\ d[k] = list_buscar(o[x], p0)
        BY <1>7, <3>2
      <3>5. r[x] = list_buscar(o[x], p0) - list_buscar(q[x], p0) /\ h[x] = totalQ[x] + r[x]
        BY <2>2
      <3> DEFINE t == totalQ[x]
                 u == totalO[x]
      <3>6. SumanHasta(c, m, t) /\ SumanHasta(d, m, u) /\ t \in Int /\ r[x] \in Int
        BY <1>13, <1>16, <3>1
      <3> HIDE DEF c, d, t, u, r, h, tablaO, tablaQ, totalO, totalQ
      <3>7. t + (d[k] - c[k]) <= u
        BY <1>3, <3>3, <3>6, SumanMenorEn
      <3>8. h[x] \in Int /\ h[x] <= u
        BY <3>4, <3>5, <3>6, <3>7 DEF t
      <3> QED BY <3>8 DEF u
    <2> QED BY <2>1, <2>2
  <1>19. B + z <= A
    <2>1. \A x \in 1 .. n : totalQ[x] \in Int /\ r[x] \in Int /\ h[x] = totalQ[x] + r[x]
      BY <1>13, <1>16
    <2>2. \A x \in 1 .. n : h[x] \in Int /\ totalO[x] \in Int /\ h[x] <= totalO[x]
      BY <1>13, <1>18
    <2> HIDE DEF h, r, totalO, totalQ
    <2> DEFINE y == B + z
    <2>3. SumanHasta(h, n, y)
      BY <1>15, <1>17, <2>1, SumanLosDos
    <2> HIDE DEF y
    <2>4. y <= A
      BY <1>14, <2>2, <2>3, SumanMenor
    <2> QED BY <2>4 DEF y
  <1>20. list_buscar(a, p0) + 1 <= list_buscar(b, p0) + z
    <2>1. SumanHasta(f, n, list_buscar(a, p0)) /\ SumanHasta(w, n, list_buscar(b, p0))
      OBVIOUS
    <2>2. \A x \in 1 .. n : /\ w[x] \in Int /\ r[x] \in Int /\ v[x] = w[x] + r[x]
                            /\ w[x] = list_buscar(q[x], p0) /\ f[x] = list_buscar(o[x], p0)
                            /\ f[x] \in Int
      BY <1>2, <1>16
    <2>3. \A x \in 1 .. n : f[x] \in Int /\ v[x] \in Int /\ f[x] <= v[x]
      <3> TAKE x \in 1 .. n
      <3>1. CASE x \in X
        <4>1. r[x] = f[x] - w[x]
          BY <3>1
        <4> HIDE DEF f, w, v, r
        <4> QED BY <2>2, <4>1
      <3>2. CASE x \notin X
        <4>1. r[x] = 0 /\ ~ (w[x] < f[x])
          BY <3>2
        <4> HIDE DEF f, w, v, r
        <4> QED BY <2>2, <4>1
      <3> QED BY <3>1, <3>2
    <2>4. r[e] = 0 /\ f[e] < w[e]
      OBVIOUS
    <2> DEFINE s == list_buscar(a, p0)
               t == list_buscar(b, p0)
               y == t + z
    <2>5. s \in Int /\ t \in Int /\ SumanHasta(f, n, s) /\ SumanHasta(w, n, t)
      BY <1>2, <2>1
    <2> HIDE DEF f, w, v, r, s, t
    <2>6. SumanHasta(v, n, y)
      BY <1>17, <2>2, <2>5, SumanLosDos
    <2> HIDE DEF y
    <2>7. s + (v[e] - f[e]) <= y
      BY <2>3, <2>5, <2>6, SumanMenorEn
    <2>8. v[e] - f[e] >= 1 /\ v[e] \in Int /\ f[e] \in Int
      BY <2>2, <2>4
    <2>9. s + 1 <= y
      BY <2>5, <2>7, <2>8 DEF y
    <2> QED BY <2>9 DEF s, t, y
  <1>21. list_buscar(a, p0) \in Int /\ list_buscar(b, p0) \in Int
    BY <1>2
  <1> HIDE DEF r, h, f, w, v
  <1> QED BY <1>12, <1>19, <1>20, <1>21
-----------------------------------------------------------------------------
(* The exchanges. *)

\* Of some species the Team has more than it wants.
Sobra ==
    \E i \in DOMAIN atrapados :
       atrapados[i].cantidad > list_buscar(cargar_objetivo_global, atrapados[i].pokemon)

\* A trainer that has one of a species another one lacks can exchange with it.
LEMMA LeSirveUno ==
    ASSUME NEW e1, NEW e2, NEW S, e2.obtenidos \in Listas(S),
           NEW j \in pokemonesPendientes(e1.obtenidos, e1.objetivo),
           list_buscar(e2.obtenidos, e1.objetivo[j].pokemon) > 0
    PROVE  puedoIntercambiar(e1, e2)
  <1> DEFINE l == e2.obtenidos
             p == e1.objetivo[j].pokemon
             sobran == pokemonesInnecesarios(l, e2.objetivo)
  <1>1. PICK i \in DOMAIN l : l[i].pokemon = p
    BY DEF list_buscar
  <1>2. DOMAIN sobran = DOMAIN l
    BY DEF pokemonesInnecesarios
  <1>3. sobran[i].pokemon = p
    BY <1>1 DEF pokemonesInnecesarios, Especie
  <1>4. i \in LeSirven(e1, e2)
    BY <1>1, <1>2, <1>3 DEF LeSirven
  <1> QED BY <1>4 DEF puedoIntercambiar

\* One that goes for an exchange finds somebody to exchange with, unless the Team has more
\* than it wants of some species.
LEMMA HayCandidato ==
    ASSUME IInv, vivo, Orden, CuentasInv, ~Sobra, NEW e \in Entrenadores, Estado(e) \in Trueques
    PROVE  Candidatos(e) # {}
  <1> DEFINE n == cantidadDeEntrenadores
             o == [x \in 1 .. n |-> entrenador[x].obtenidos]
             q == [x \in 1 .. n |-> entrenador[x].objetivo]
             a == atrapados
             b == cargar_objetivo_global
             X == En(colaExit)
  <1>1. n \in Nat /\ Entrenadores = 1 .. n
    BY PlanificadoresAssumption DEF Entrenadores
  <1>2. \A x \in 1 .. n : /\ o[x] = entrenador[x].obtenidos /\ q[x] = entrenador[x].objetivo
                          /\ q[x] = extraer_pokemones_entrenadores(Objetivos[x])
                          /\ Lista(o[x]) /\ Lista(q[x])
    BY <1>1 DEF CuentasInv, ListasOK, ObjetivosOK
  <1>3. Lista(a) /\ Lista(b)
    BY PlanificadoresAssumption, AcumuladosOK DEF CuentasInv, SumasOK, Lista, cargar_objetivo_global
  <1>4. ASSUME NEW p PROVE SumanHasta([x \in 1 .. n |-> list_buscar(o[x], p)], n, list_buscar(a, p))
    <2>1. [x \in 1 .. n |-> list_buscar(o[x], p)] = Tienen(p)
      BY <1>1, <1>2 DEF Tienen
    <2> QED BY <2>1 DEF CuentasInv, SumasOK
  <1>5. ASSUME NEW p PROVE SumanHasta([x \in 1 .. n |-> list_buscar(q[x], p)], n, list_buscar(b, p))
    <2>1. [x \in 1 .. n |-> list_buscar(q[x], p)] =
             [x \in Entrenadores |-> list_buscar(extraer_pokemones_entrenadores(Objetivos[x]), p)]
      BY <1>1, <1>2
    <2> QED BY <2>1, PlanificadoresAssumption, AcumuladosOK DEF cargar_objetivo_global
  <1>6. ASSUME NEW p PROVE list_buscar(a, p) <= list_buscar(b, p)
    <2>1. PICK S : a \in Listas(S)
      BY <1>3 DEF Lista
    <2>2. PICK T : b \in Listas(T)
      BY <1>3 DEF Lista
    <2>3. list_buscar(a, p) \in Nat /\ list_buscar(b, p) \in Nat
      BY <2>1, <2>2, BuscarOK
    <2>4. CASE list_buscar(a, p) = 0
      BY <2>3, <2>4
    <2>5. ASSUME NEW i \in DOMAIN a, a[i].pokemon = p, list_buscar(a, p) = a[i].cantidad
          PROVE  list_buscar(a, p) <= list_buscar(b, p)
      <3>1. ~ (a[i].cantidad > list_buscar(b, a[i].pokemon))
        BY DEF Sobra
      <3> QED BY <2>3, <2>5, <3>1
    <2> QED BY <2>1, <2>4, <2>5, Registro
  <1>7. ASSUME NEW x \in 1 .. n, x \in X, NEW p
        PROVE  list_buscar(q[x], p) <= list_buscar(o[x], p)
    <2>1. PICK k \in DOMAIN colaExit : colaExit[k] = x
      BY <1>7 DEF En
    <2>2. pokemonesPendientes(o[x], q[x]) = {}
      BY <1>2, <2>1 DEF IInv, SaleCompleto
    <2> DEFINE l == q[x]
               m == o[x]
    <2>3. PICK S : l \in Listas(S)
      BY <1>2 DEF Lista
    <2>4. PICK T : m \in Listas(T)
      BY <1>2 DEF Lista
    <2>5. \A i \in DOMAIN l : ~ (l[i].cantidad > list_buscar(m, l[i].pokemon))
      BY <2>2 DEF pokemonesPendientes
    <2> HIDE DEF l, m
    <2>6. list_buscar(l, p) \in Nat /\ list_buscar(m, p) \in Nat
      BY <2>3, <2>4, BuscarOK
    <2>7. list_buscar(l, p) <= list_buscar(m, p)
      <3>1. CASE list_buscar(l, p) = 0
        BY <2>6, <3>1
      <3>2. ASSUME NEW i \in DOMAIN l, l[i].pokemon = p, list_buscar(l, p) = l[i].cantidad
            PROVE  list_buscar(l, p) <= list_buscar(m, p)
        BY <2>5, <2>6, <3>2
      <3> QED BY <2>3, <3>1, <3>2, Registro
    <2> QED BY <2>7 DEF l, m
  <1>8. \A x \in Entrenadores \ {e} : Parado(x)
    BY DEF Orden, Solos
  <1>9. e \notin X
    BY DEF IInv, Protocolo, Turnos, Trueques
  <1>10. \A x \in 1 .. n : x \notin X => ConTodos(entrenador[x])
    <2> SUFFICES ASSUME NEW x \in Entrenadores, x \notin X PROVE ConTodos(entrenador[x])
      BY <1>1
    <2>1. Estado(x) \in Parejos
      BY <1>8 DEF Parado, Parejos, Trueques
    <2> QED BY <2>1 DEF CuentasInv, Parejo
  <1>11. \A x \in 1 .. n : x \notin X =>
            cantidadDePokemonesEnLista(o[x]) = cantidadDePokemonesEnLista(q[x])
    BY <1>2, <1>10 DEF ConTodos
  <1>12. PICK j \in pokemonesPendientes(entrenador[e].obtenidos, entrenador[e].objetivo) : TRUE
    BY <1>1, <1>9, <1>10 DEF ConTodos
  <1> DEFINE p0 == entrenador[e].objetivo[j].pokemon
  <1>13. list_buscar(o[e], p0) < list_buscar(q[e], p0)
    <2> DEFINE l == entrenador[e].objetivo
               m == entrenador[e].obtenidos
    <2>1. o[e] = m /\ q[e] = l /\ Lista(l) /\ Lista(m)
      BY <1>1, <1>2
    <2>2. j \in DOMAIN l /\ l[j].cantidad > list_buscar(m, l[j].pokemon)
      BY <1>12 DEF pokemonesPendientes
    <2>3. PICK S : l \in Listas(S)
      BY <2>1 DEF Lista
    <2>4. PICK T : m \in Listas(T)
      BY <2>1 DEF Lista
    <2>5. p0 = l[j].pokemon
      OBVIOUS
    <2> HIDE DEF l, m, p0, o, q
    <2>6. list_buscar(l, p0) = l[j].cantidad /\ list_buscar(l, p0) \in Nat /\ list_buscar(m, p0) \in Nat
      BY <2>2, <2>3, <2>4, <2>5, BuscarOK
    <2> QED BY <2>1, <2>2, <2>5, <2>6
  <1>14. PICK x \in 1 .. n : x \notin X /\ list_buscar(q[x], p0) < list_buscar(o[x], p0)
    <2>1. \A x \in 1 .. n : x \in X => \A p : list_buscar(q[x], p) <= list_buscar(o[x], p)
      BY <1>7
    <2>2. \A x \in 1 .. n : Lista(o[x]) /\ Lista(q[x])
      BY <1>2
    <2>3. e \in 1 .. n
      BY <1>1
    <2>4. n \in Nat
      BY <1>1
    <2> HIDE DEF n, o, q, a, b, X, p0
    <2>5. Cuadran(n, o, q, a, b, X)
      BY <1>3, <1>4, <1>5, <1>6, <1>11, <2>1, <2>2, <2>4 DEF Cuadran
    <2> QED BY <1>9, <1>13, <2>3, <2>5, Conteo
  <1>15. list_buscar(o[x], p0) > 0 /\ x # e
    <2>1. PICK S : q[x] \in Listas(S)
      BY <1>2 DEF Lista
    <2>2. PICK T : o[x] \in Listas(T)
      BY <1>2 DEF Lista
    <2> HIDE DEF o, q, p0
    <2>3. list_buscar(q[x], p0) \in Nat /\ list_buscar(o[x], p0) \in Nat
      BY <2>1, <2>2, BuscarOK
    <2> QED BY <1>13, <1>14, <2>3
  <1>16. x \in En(colaBlocked) /\ Estado(x) = "DEADLOCK"
    BY <1>1, <1>8, <1>14, <1>15 DEF Parado
  <1>17. puedoIntercambiar(entrenador[e], entrenador[x])
    <2>1. Lista(entrenador[x].obtenidos) /\ list_buscar(entrenador[x].obtenidos, p0) > 0
      BY <1>2, <1>15
    <2>2. PICK S : entrenador[x].obtenidos \in Listas(S)
      BY <2>1 DEF Lista
    <2> QED BY <1>12, <2>1, <2>2, LeSirveUno
  <1>18. PICK k \in DOMAIN colaBlocked : colaBlocked[k] = x
    BY <1>16 DEF En
  <1>19. k \in Candidatos(e)
    BY <1>16, <1>17, <1>18 DEF Candidatos, Quieren
  <1> QED BY <1>19
-----------------------------------------------------------------------------
(* The way to the exchange. *)

\* A trainer that waits in DEADLOCK and with which another one can exchange.
LaEspera(e, x) ==
    /\ x \in En(colaBlocked) /\ Estado(x) = "DEADLOCK"
    /\ puedoIntercambiar(entrenador[e], entrenador[x])

\* One that walks to the exchange goes to the place of such a trainer, and has as many steps
\* left as its distance is; one that arrived is in that place.
EnCamino(e) ==
    Estado(e) = "MOVERSE_A_ENTRENADOR" /\ hilo[e].pc = "mueve" =>
       /\ hilo[e].pasos = calcularDistancia(entrenador[e].posicion, hilo[e].meta)
       /\ \E x \in Entrenadores : LaEspera(e, x) /\ hilo[e].meta = entrenador[x].posicion

Llegado(e) ==
    Estado(e) = "INTERCAMBIAR" =>
       \E x \in Entrenadores : LaEspera(e, x) /\ entrenador[e].posicion = entrenador[x].posicion

Encuentros == \A e \in Entrenadores : EnCamino(e) /\ Llegado(e)

\* What an exchange looks at: where a trainer is, and what it has and wants.
Igual(t, u) == u.obtenidos = t.obtenidos /\ u.objetivo = t.objetivo

\* Whether two trainers can exchange depends on what they have and want.
LEMMA MismoTrato ==
    ASSUME NEW e1, NEW e2, NEW t1, NEW t2, Igual(e1, t1), Igual(e2, t2)
    PROVE  puedoIntercambiar(t1, t2) <=> puedoIntercambiar(e1, e2)
  BY DEF Igual, puedoIntercambiar, LeSirven

\* With nobody on the way there is nothing to keep.
LEMMA SinEncuentros ==
    ASSUME \A e \in Entrenadores : entrenador'[e].estado \notin Trueques
    PROVE  Encuentros'
  BY DEF Encuentros, EnCamino, Llegado, Trueques, Estado

\* A step that leaves the trainers where they are, with what they have.
LEMMA MarcoEncuentros ==
    ASSUME Encuentros, MismoEstado,
           \A e \in Entrenadores : /\ entrenador'[e].posicion = entrenador[e].posicion
                                   /\ Igual(entrenador[e], entrenador'[e]),
           \A e \in Entrenadores : e \in En(colaBlocked) /\ Estado(e) = "DEADLOCK" => e \in En(colaBlocked'),
           \A e \in Entrenadores : Estado(e) \in Trueques => hilo'[e] = hilo[e]
    PROVE  Encuentros'
  <1> SUFFICES ASSUME NEW e \in Entrenadores, Estado(e) \in Trueques
               PROVE  EnCamino(e)' /\ Llegado(e)'
    BY DEF Encuentros, EnCamino, Llegado, Trueques, Estado, MismoEstado
  <1>1. ASSUME NEW x \in Entrenadores, LaEspera(e, x) PROVE LaEspera(e, x)'
    BY <1>1, MismoTrato DEF LaEspera, Estado, MismoEstado
  <1>2. EnCamino(e) /\ Llegado(e)
    BY DEF Encuentros
  <1>3. EnCamino(e)'
    BY <1>1, <1>2 DEF EnCamino, Estado, MismoEstado
  <1>4. Llegado(e)'
    BY <1>1, <1>2 DEF Llegado, Estado, MismoEstado
  <1> QED BY <1>3, <1>4

\* While a trainer that is not in BLOCKED or EXIT does something else, nobody is on the way.
LEMMA OtroOcupado ==
    ASSUME IInv, vivo, Orden, NEW e \in Entrenadores, ~Parado(e), Estado(e) \notin Trueques
    PROVE  \A x \in Entrenadores : Estado(x) \notin Trueques
  BY DEF Orden, Solos

\* ... nor after it, if it is not on the way then.
LEMMA OtroSigueOcupado ==
    ASSUME IInv, vivo, Orden, NEW e \in Entrenadores, ~Parado(e),
           \A x \in Entrenadores \ {e} : entrenador'[x].estado = entrenador[x].estado,
           entrenador'[e].estado \notin Trueques
    PROVE  Encuentros'
  <1>1. \A x \in Entrenadores \ {e} : Estado(x) \notin Trueques
    BY DEF Orden, Solos
  <1>2. \A x \in Entrenadores : entrenador'[x].estado \notin Trueques
    BY <1>1 DEF Estado
  <1> QED BY <1>2, SinEncuentros

\* A trainer with the CPU is in no queue.
LEMMA ConCpu ==
    ASSUME IInv, NEW e \in Entrenadores, EnCpu(e)
    PROVE  ~Parado(e)
  BY DEF IInv, Lugares, Parado
-----------------------------------------------------------------------------
(* The steps keep Encuentros. *)

\* The planners and the threads of messages that change no trainer.
LEMMA QuietosEnEncuentro ==
    ASSUME Encuentros, UNCHANGED <<entrenador, hilo, colaBlocked>>
    PROVE  Encuentros'
  BY MarcoEncuentros DEF MismoEstado, Igual

\* The short term planner takes the CPU back: BLOCKED keeps those it had.
LEMMA CpDevuelveEnEncuentro ==
    ASSUME IInv, vivo, Encuentros, CpDevuelve
    PROVE  Encuentros'
  <1>1. /\ cp.pc = "turno" /\ colaBlocked' = Append(colaBlocked, cp.entrenador)
        /\ UNCHANGED <<entrenador, hilo>>
    BY DEF CpDevuelve
  <1>2. cp.entrenador \in Entrenadores
    BY <1>1 DEF IInv, Protocolo, Turnos
  <1>3. En(colaBlocked') = En(colaBlocked) \cup {cp.entrenador}
    BY <1>1, <1>2, ConAgregado DEF IInv, TiposPlan, TipoColas
  <1> QED BY <1>1, <1>3, MarcoEncuentros DEF MismoEstado, Igual

\* MpRevisa: a trainer whose state it changes is not parked, so that nobody is on the way.
LEMMA MpRevisaEnEncuentro ==
    ASSUME IInv, vivo, Orden, Encuentros, MpRevisa
    PROVE  Encuentros'
  <1>1. PICK e \in En(colaBlocked) :
           /\ \A x \in Entrenadores \ {e} : entrenador'[x].estado = entrenador[x].estado
           /\ \/ /\ MismoEstado
                 /\ En(colaBlocked') = En(colaBlocked) /\ colaExit' = colaExit
              \/ /\ Estado(e) \in {"ACABO_INTERCAMBIO", "RECIBIO_RESPUESTA_OK"}
                 /\ entrenador'[e].estado \in {"EXIT", "DEADLOCK", "MOVERSE_A_POKEMON"}
                 /\ En(colaBlocked') \cup En(colaExit') = En(colaBlocked) \cup En(colaExit)
           /\ UNCHANGED hilo
    BY MpRevisaHace
  <1>2. e \in Entrenadores /\ e \notin En(colaExit)
    BY <1>1, TodosOcupados DEF IInv, Lugares
  <1>3. \A x \in Entrenadores : /\ entrenador'[x].posicion = entrenador[x].posicion
                                /\ Igual(entrenador[x], entrenador'[x])
    <2>1. \E h, n : entrenador' = [entrenador EXCEPT ![h].estado = n]
      BY DEF MpRevisa
    <2> QED BY <2>1 DEF Igual, IInv, TiposPlan, TipoEntrenador, Ficha
  <1>4. CASE MismoEstado /\ En(colaBlocked') = En(colaBlocked)
    BY <1>1, <1>3, <1>4, MarcoEncuentros
  <1>5. CASE /\ Estado(e) \in {"ACABO_INTERCAMBIO", "RECIBIO_RESPUESTA_OK"}
             /\ entrenador'[e].estado \in {"EXIT", "DEADLOCK", "MOVERSE_A_POKEMON"}
    <2>1. ~Parado(e)
      BY <1>2, <1>5 DEF Parado
    <2> QED BY <1>1, <1>2, <1>5, <2>1, OtroSigueOcupado DEF Trueques
  <1> QED BY <1>1, <1>4, <1>5

\* MpAsigna: with pokemons to assign nobody is on the way.
LEMMA MpAsignaEnEncuentro ==
    ASSUME IInv, vivo, Orden, MpAsigna
    PROVE  Encuentros'
  <1>1. MismoEstado /\ mp.pc = "asigna"
    BY MpAsignaHace
  <1>2. \A e \in Entrenadores : Estado(e) \notin Trueques
    BY <1>1 DEF Orden, Solos
  <1> QED BY <1>1, <1>2, SinEncuentros DEF MismoEstado, Estado

\* Neither an estimation nor a cycle of CPU changes what a trainer has and wants.
LEMMA EstimadoQuieto ==
    ASSUME TiposPlan, NEW e \in Entrenadores, estimar_entrenador(e)
    PROVE  \A x \in Entrenadores : /\ entrenador'[x].posicion = entrenador[x].posicion
                                   /\ Igual(entrenador[x], entrenador'[x])
  <1> DEFINE t == entrenador[e]
             n == Estimacion(t)
             u == Estimado(e)
  <1>1. Ficha(t)
    BY DEF TiposPlan, TipoEntrenador
  <1>2. entrenador' = [entrenador EXCEPT ![e] = u]
    BY DEF estimar_entrenador
  <1> HIDE DEF t, n
  <1>3. \/ u = t
        \/ u = [t EXCEPT !.hayQueDesalojar = FALSE]
        \/ u = [t EXCEPT !.real = n, !.actual = n, !.instruccion = 0]
    BY DEF Estimado, t, n
  <1> HIDE DEF u
  <1>4. u.posicion = t.posicion /\ Igual(t, u)
    <2>1. u.posicion = t.posicion /\ u.obtenidos = t.obtenidos /\ u.objetivo = t.objetivo
      BY <1>1, <1>3 DEF Ficha
    <2> QED BY <2>1 DEF Igual
  <1>5. \A x \in Entrenadores : entrenador'[x] = IF x = e THEN u ELSE entrenador[x]
    BY <1>2 DEF TiposPlan, TipoEntrenador
  <1> QED BY <1>4, <1>5 DEF Igual, t

\* A trainer sent to READY that was in DEADLOCK would leave nobody else on the way.
LEMMA MpOtroEnEncuentro ==
    ASSUME IInv, vivo, Orden, Encuentros, MpOtro
    PROVE  Encuentros'
  <1>1. CASE Otros = {}
    <2>1. UNCHANGED <<entrenador, hilo, colaBlocked>>
      BY <1>1 DEF MpOtro
    <2> QED BY <2>1, QuietosEnEncuentro
  <1>2. CASE Otros # {}
    <2>1. PICK e \in En(colaBlocked) :
              /\ Estado(e) \notin {"DEADLOCK", "ESPERAR_CAUGHT", "MOVERSE_A_POKEMON"}
              /\ En(colaBlocked') = En(colaBlocked) \ {e}
              /\ MismoEstado
              /\ UNCHANGED hilo
      BY <1>2, MpOtroHace
    <2> DEFINE i == Primera(Otros)
               h == colaBlocked[i]
    <2>2. estimar_entrenador(h)
      BY <1>2 DEF MpOtro
    <2>4. h \in Entrenadores
      <3>1. Otros \subseteq Nat /\ \A k \in Otros : colaBlocked[k] \in Entrenadores
        BY QuierenOK DEF Otros, IInv, TiposPlan, TipoColas, Lugares
      <3>2. i \in Otros
        BY <1>2, <3>1, PrimeraOK
      <3> QED BY <3>1, <3>2
    <2> HIDE DEF h
    <2>3. \A x \in Entrenadores : /\ entrenador'[x].posicion = entrenador[x].posicion
                                  /\ Igual(entrenador[x], entrenador'[x])
      BY <2>2, <2>4, EstimadoQuieto DEF IInv
    <2> QED BY <2>1, <2>3, MarcoEncuentros
  <1> QED BY <1>1, <1>2

\* MpDeadlock: the one it sends has not started to walk, and no other one is on the way.
LEMMA MpDeadlockEnEncuentro ==
    ASSUME IInv, vivo, vivo', Orden, MpDeadlock
    PROVE  Encuentros'
  <1> DEFINE i == Primera(Quieren({"DEADLOCK"}))
             e == colaBlocked[i]
  <1>1. mp.pc = "deadlock" /\ UNCHANGED hilo
    BY DEF MpDeadlock
  <1>2. entrenador' = [entrenador EXCEPT ![e].estado = "MOVERSE_A_ENTRENADOR"]
    BY DEF MpDeadlock, Caerse
  <1>3. \A x \in Entrenadores : Parado(x)
    BY <1>1 DEF Orden, Solos
  <1>4. \A x \in Entrenadores : Estado(x) \notin Trueques /\ hilo[x].pc # "mueve"
    <2> SUFFICES ASSUME NEW x \in Entrenadores PROVE Estado(x) \notin Trueques /\ hilo[x].pc # "mueve"
      OBVIOUS
    <2>1. Parado(x)
      BY <1>3
    <2>2. Estado(x) \in {"EXIT", "DEADLOCK"}
      BY <2>1 DEF Parado, IInv, Protocolo, Turnos
    <2>3. ~EnCpu(x)
      BY <2>1, ConCpu
    <2> QED BY <2>2, <2>3 DEF Trueques, IInv, Protocolo, Turnos, Activo
  <1> HIDE DEF e
  <1>5. \A x \in Entrenadores : entrenador'[x].estado \in {entrenador[x].estado, "MOVERSE_A_ENTRENADOR"}
    BY <1>2 DEF IInv, TiposPlan, TipoEntrenador, Ficha
  <1>6. \A x \in Entrenadores : entrenador'[x].estado # "INTERCAMBIAR" /\ hilo'[x].pc # "mueve"
    BY <1>1, <1>4, <1>5 DEF Trueques, Estado
  <1> QED BY <1>6 DEF Encuentros, EnCamino, Llegado, Estado

\* TurnoAPokemon, intentarAtraparPokemon and TerminarHilo: the thread of a trainer that is
\* not on the way.
LEMMA HiloEnEncuentro ==
    ASSUME NEW e \in Entrenadores, IInv, vivo, Encuentros,
           TurnoAPokemon(e) \/ intentarAtraparPokemon(e) \/ TerminarHilo(e)
    PROVE  Encuentros'
  <1>1. UNCHANGED <<entrenador, colaBlocked>> /\ Estado(e) \notin Trueques
    BY DEF TurnoAPokemon, intentarAtraparPokemon, TerminarHilo, Turno, colas, Trueques
  <1>2. \A x \in Entrenadores \ {e} : hilo'[x] = hilo[x]
    <2>1. \E h : hilo' = [hilo EXCEPT ![e] = h] \/ hilo' = hilo
      BY DEF TurnoAPokemon, intentarAtraparPokemon, TerminarHilo, IrHacia
    <2> QED BY <2>1 DEF IInv, TiposPlan, TipoHilo
  <1> QED BY <1>1, <1>2, MarcoEncuentros DEF MismoEstado, Igual

\* TurnoAEntrenador: buscarEntrenadorAMoverse chooses one of those that wait.
LEMMA TurnoAEntrenadorEnEncuentro ==
    ASSUME NEW e \in Entrenadores, IInv, vivo, vivo', Encuentros, TurnoAEntrenador(e)
    PROVE  Encuentros'
  <1> DEFINE i == Primera(Candidatos(e))
  <1>1. /\ Candidatos(e) # {} /\ IrHacia(e, entrenador[colaBlocked[i]].posicion)
        /\ UNCHANGED <<entrenador, colaBlocked>> /\ Estado(e) = "MOVERSE_A_ENTRENADOR"
    BY DEF TurnoAEntrenador, Caerse, colas, Turno
  <1>2. PICK x \in Entrenadores : x = colaBlocked[i] /\ LaEspera(e, x)
    <2>1. /\ Quieren({"DEADLOCK"}) \subseteq Nat
          /\ \A k \in Quieren({"DEADLOCK"}) : /\ colaBlocked[k] \in Entrenadores
                                              /\ colaBlocked[k] \in En(colaBlocked)
                                              /\ entrenador[colaBlocked[k]].estado \in {"DEADLOCK"}
      BY QuierenOK DEF IInv, TiposPlan, TipoColas, Lugares
    <2>2. /\ Candidatos(e) \subseteq Quieren({"DEADLOCK"})
          /\ \A k \in Candidatos(e) : puedoIntercambiar(entrenador[e], entrenador[colaBlocked[k]])
      BY DEF Candidatos
    <2>3. i \in Candidatos(e)
      BY <1>1, <2>1, <2>2, PrimeraOK
    <2> HIDE DEF i
    <2> QED BY <2>1, <2>2, <2>3 DEF LaEspera, Estado
  <1> DEFINE l == entrenador[x].posicion
             n == calcularDistancia(entrenador[e].posicion, l)
  <1>3. hilo' = [hilo EXCEPT ![e] = [pc |-> "mueve", meta |-> l, pasos |-> n]]
    BY <1>1, <1>2 DEF IrHacia
  <1> HIDE DEF n
  <1>4. /\ \A y \in Entrenadores \ {e} : hilo'[y] = hilo[y]
        /\ hilo'[e].meta = l /\ hilo'[e].pasos = n
    BY <1>3 DEF IInv, TiposPlan, TipoHilo
  <1>5. EnCamino(e)'
    <2>1. LaEspera(e, x)'
      BY <1>1, <1>2 DEF LaEspera, Estado
    <2> QED BY <1>1, <1>4, <2>1 DEF EnCamino, n
  <1>6. Llegado(e)'
    BY <1>1 DEF Llegado, Estado
  <1>7. \A y \in Entrenadores \ {e} : EnCamino(y)' /\ Llegado(y)'
    <2> TAKE y \in Entrenadores \ {e}
    <2>1. EnCamino(y) /\ Llegado(y)
      BY DEF Encuentros
    <2> QED BY <1>1, <1>4, <2>1 DEF EnCamino, Llegado, LaEspera, Estado
  <1> QED BY <1>5, <1>6, <1>7 DEF Encuentros

\* moverEntrenador: a step brings a trainer one nearer.
LEMMA MasCerca ==
    ASSUME NEW a \in Lugar, NEW b \in Lugar, calcularDistancia(a, b) > 0
    PROVE  calcularDistancia(moverEntrenador(a, b), b) = calcularDistancia(a, b) - 1
  <1> DEFINE x == a[1]
             y == a[2]
             v == b[1]
             w == b[2]
  <1>1. x \in Int /\ y \in Int /\ v \in Int /\ w \in Int
    BY DEF Lugar
  <1>2. Modulo(x - v) + Modulo(y - w) > 0
    BY DEF calcularDistancia
  <1> DEFINE c == moverEntrenador(a, b)
  <1>3. \/ x # v /\ c[1] = HaciaUno(x, v) /\ c[2] = y
        \/ x = v /\ c[1] = x /\ c[2] = HaciaUno(y, w)
    BY DEF moverEntrenador
  <1> DEFINE r == Modulo(c[1] - v) + Modulo(c[2] - w)
             s == Modulo(x - v) + Modulo(y - w)
  <1>4. calcularDistancia(c, b) = r
    BY DEF calcularDistancia
  <1>5. calcularDistancia(a, b) = s
    BY DEF calcularDistancia
  <1> HIDE DEF x, y, v, w, c
  <1>6. r = s - 1
    BY <1>1, <1>2, <1>3 DEF Modulo, HaciaUno
  <1> HIDE DEF r, s
  <1>7. calcularDistancia(c, b) = calcularDistancia(a, b) - 1
    BY <1>4, <1>5, <1>6
  <1> QED BY <1>7 DEF c

\* Two places at no distance are the same.
LEMMA MismoLugar ==
    ASSUME NEW a \in Lugar, NEW b \in Lugar
    PROVE  calcularDistancia(a, b) = 0 <=> a = b
  <1>1. a[1] \in Int /\ a[2] \in Int /\ b[1] \in Int /\ b[2] \in Int
        /\ a = <<a[1], a[2]>> /\ b = <<b[1], b[2]>>
    BY DEF Lugar
  <1>2. calcularDistancia(a, b) = 0 <=> a[1] = b[1] /\ a[2] = b[2]
    BY <1>1 DEF calcularDistancia, Modulo
  <1> QED BY <1>1, <1>2

\* Mover: one that walks to an exchange is one step nearer and has one step less to make.
LEMMA MoverEnEncuentro ==
    ASSUME NEW e \in Entrenadores, IInv, vivo, Orden, Encuentros, Mover(e)
    PROVE  Encuentros'
  <1> DEFINE c == Ciclo(e)
             p == moverEntrenador(entrenador[e].posicion, hilo[e].meta)
             t == [c EXCEPT !.posicion = p]
  <1>1. /\ EnCpu(e) /\ ~Parado(e) /\ hilo[e].pc = "mueve"
    BY EnActivo, ConCpu DEF Mover
  <1>2. UNCHANGED colaBlocked /\ hilo[e].pasos > 0
    BY DEF Mover, SigueMoviendose, colas
  <1>3. /\ Ficha(entrenador[e]) /\ DOMAIN c = DOMAIN entrenador[e]
        /\ c.posicion = entrenador[e].posicion /\ c.estado = entrenador[e].estado
        /\ c.obtenidos = entrenador[e].obtenidos /\ c.objetivo = entrenador[e].objetivo
    BY DEF IInv, TiposPlan, TipoEntrenador, Ficha, Ciclo
  <1>4. entrenador' = [entrenador EXCEPT ![e] = t]
    BY <1>3 DEF Mover
  <1> HIDE DEF c, p
  <1>5. t.posicion = p /\ t.estado = entrenador[e].estado /\ Igual(entrenador[e], t)
    BY <1>3 DEF Ficha, Igual
  <1> HIDE DEF t
  <1>6. \A x \in Entrenadores : entrenador'[x] = IF x = e THEN t ELSE entrenador[x]
    BY <1>4 DEF IInv, TiposPlan, TipoEntrenador
  <1>7. /\ \A x \in Entrenadores \ {e} : hilo'[x] = hilo[x]
        /\ hilo'[e].meta = hilo[e].meta /\ hilo'[e].pasos = hilo[e].pasos - 1
    BY DEF Mover, IInv, TiposPlan, TipoHilo
  <1>8. CASE Estado(e) \notin Trueques
    BY <1>1, <1>5, <1>6, <1>8, OtroSigueOcupado DEF Estado
  <1>9. CASE Estado(e) \in Trueques
    <2>1. Estado(e) = "MOVERSE_A_ENTRENADOR"
      BY <1>1, <1>9 DEF Trueques, IInv, Protocolo, Reservas
    <2>2. PICK x \in Entrenadores : LaEspera(e, x) /\ hilo[e].meta = entrenador[x].posicion
      BY <1>1, <2>1 DEF Encuentros, EnCamino
    <2>3. hilo[e].pasos = calcularDistancia(entrenador[e].posicion, hilo[e].meta)
      BY <1>1, <2>1 DEF Encuentros, EnCamino
    <2>4. x # e
      BY <2>1, <2>2 DEF LaEspera
    <2>5. LaEspera(e, x)'
      <3>1. Igual(entrenador[x], entrenador'[x]) /\ Igual(entrenador[e], entrenador'[e])
        BY <1>5, <1>6, <2>4 DEF Igual
      <3>2. puedoIntercambiar(entrenador'[e], entrenador'[x])
        BY <2>2, <3>1, MismoTrato DEF LaEspera
      <3> QED BY <1>2, <1>6, <2>2, <2>4, <3>2 DEF LaEspera, Estado
    <2>6. calcularDistancia(p, hilo[e].meta) = hilo[e].pasos - 1
      <3>1. entrenador[e].posicion \in Lugar /\ hilo[e].meta \in Lugar
        BY <1>3 DEF Ficha, IInv, TiposPlan, TipoHilo
      <3> QED BY <1>2, <2>3, <3>1, MasCerca DEF p
    <2>7. EnCamino(e)'
      BY <1>5, <1>6, <1>7, <2>2, <2>4, <2>5, <2>6 DEF EnCamino
    <2>8. Llegado(e)'
      BY <1>5, <1>6, <2>1 DEF Llegado, Estado
    <2>9. \A y \in Entrenadores \ {e} : entrenador'[y].estado \notin Trueques
      <3>1. \A y \in Entrenadores \ {e} : Parado(y)
        BY <1>9 DEF Orden, Solos
      <3> QED BY <1>6, <3>1 DEF Parado, IInv, Protocolo, Turnos, Trueques, Estado
    <2> QED BY <2>7, <2>8, <2>9 DEF Encuentros, EnCamino, Llegado, Trueques, Estado
  <1> QED BY <1>8, <1>9

\* DejarDeMover: one that walked to an exchange and looks for it is in the place it went to:
\* it made all the steps or, under RR, looked whether it arrived.
LEMMA DejarDeMoverEnEncuentro ==
    ASSUME NEW e \in Entrenadores, IInv, vivo, Orden, Encuentros, DejarDeMover(e)
    PROVE  Encuentros'
  <1>1. /\ EnCpu(e) /\ ~Parado(e) /\ hilo[e].pc = "mueve"
    BY EnActivo, ConCpu DEF DejarDeMover
  <1>2. colaBlocked' = colaBlocked /\ ~SigueMoviendose(e)
    BY DEF DejarDeMover, colas
  <1>3. /\ \A x \in Entrenadores :
              /\ entrenador'[x].estado = IF x = e THEN TrasMover(e) ELSE entrenador[x].estado
              /\ entrenador'[x].posicion = entrenador[x].posicion
              /\ Igual(entrenador[x], entrenador'[x])
        /\ hilo'[e].pc = "espera"
    BY DEF DejarDeMover, Igual, HiloQuieto, IInv, TiposPlan, TipoEntrenador, TipoHilo, Ficha
  <1>4. CASE TrasMover(e) \notin Trueques
    BY <1>1, <1>3, <1>4, OtroSigueOcupado
  <1>5. CASE TrasMover(e) \in Trueques
    <2>1. Estado(e) = "MOVERSE_A_ENTRENADOR"
      BY <1>5 DEF TrasMover, HaciaPokemon, Trueques
    <2>2. PICK x \in Entrenadores : LaEspera(e, x) /\ hilo[e].meta = entrenador[x].posicion
      BY <1>1, <2>1 DEF Encuentros, EnCamino
    <2>3. hilo[e].pasos = calcularDistancia(entrenador[e].posicion, hilo[e].meta)
      BY <1>1, <2>1 DEF Encuentros, EnCamino
    <2>4. entrenador[e].posicion \in Lugar /\ hilo[e].meta \in Lugar
      BY DEF Ficha, IInv, TiposPlan, TipoEntrenador, TipoHilo
    <2>5. LaEspera(e, x)'
      <3>1. puedoIntercambiar(entrenador'[e], entrenador'[x])
        BY <1>3, <2>2, MismoTrato DEF LaEspera
      <3>2. x # e
        BY <2>1, <2>2 DEF LaEspera
      <3> QED BY <1>2, <1>3, <2>2, <3>1, <3>2 DEF LaEspera, Estado
    <2>6. ASSUME TrasMover(e) = "INTERCAMBIAR" PROVE entrenador[e].posicion = hilo[e].meta
      <3>1. calcularDistancia(entrenador[e].posicion, hilo[e].meta) = 0
        <4>1. CASE Llego(e)
          BY <4>1 DEF Llego
        <4>2. CASE ~Llego(e)
          <5>1. algoritmo # "RR"
            BY <2>1, <2>6, <4>2 DEF TrasMover, HaciaPokemon
          <5>2. ~ (hilo[e].pasos > 0)
            BY <1>2, <2>1, <5>1 DEF SigueMoviendose, HaciaPokemon
          <5> QED BY <2>3, <2>4, <5>2, DistanciaOK
        <4> QED BY <4>1, <4>2
      <3> QED BY <2>4, <3>1, MismoLugar
    <2>7. EnCamino(e)'
      BY <1>3 DEF EnCamino
    <2>8. Llegado(e)'
      BY <1>3, <2>2, <2>5, <2>6 DEF Llegado, Estado
    <2>9. \A y \in Entrenadores \ {e} : entrenador'[y].estado \notin Trueques
      <3>1. \A y \in Entrenadores \ {e} : Parado(y)
        BY <2>1 DEF Orden, Solos, Trueques
      <3> QED BY <1>3, <3>1 DEF Parado, IInv, Protocolo, Turnos, Trueques, Estado
    <2> QED BY <2>7, <2>8, <2>9 DEF Encuentros, EnCamino, Llegado, Trueques, Estado
  <1> QED BY <1>4, <1>5

\* A trainer that catches a pokemon is not on the way to an exchange.
LEMMA CapturaEnEncuentro ==
    ASSUME NEW e \in Entrenadores, IInv, vivo, Orden,
           AtraparPorDefecto(e) \/ EsperarCaught(e) \/ LlegoCaught(e)
    PROVE  Encuentros'
  <1>1. /\ EnCpu(e) /\ ~Parado(e) /\ EnCaptura(e)
    <2>1. hilo[e].pc \in {"envia", "caught"}
      BY DEF AtraparPorDefecto, EsperarCaught, LlegoCaught
    <2>2. EnCpu(e)
      BY <2>1, EnActivo
    <2> QED BY <2>1, <2>2, ConCpu DEF EnCaptura
  <1>2. Estado(e) \notin Trueques
    BY <1>1 DEF IInv, Protocolo, Captura, EnRespuesta, Falta, Aplicado, Trueques
  <1>3. /\ \A x \in Entrenadores \ {e} : entrenador'[x].estado = entrenador[x].estado
        /\ entrenador'[e].estado \in {entrenador[e].estado, "RECIBIO_RESPUESTA_OK"}
    <2> DEFINE c == CicloDeCatch(e)
    <2>1. "estado" \in DOMAIN c /\ c.estado = entrenador[e].estado
      BY DEF CicloDeCatch, IInv, TiposPlan, TipoEntrenador, Ficha
    <2> HIDE DEF c
    <2>2. CASE LlegoCaught(e)
      BY <2>2 DEF LlegoCaught
    <2>3. CASE AtraparPorDefecto(e)
      <3>1. \E o : entrenador' =
               [entrenador EXCEPT ![e] = [c EXCEPT !.estado = "RECIBIO_RESPUESTA_OK", !.obtenidos = o]]
        BY <2>3 DEF AtraparPorDefecto, c
      <3> QED BY <2>1, <3>1 DEF IInv, TiposPlan, TipoEntrenador
    <2>4. CASE EsperarCaught(e)
      BY <2>1, <2>4 DEF EsperarCaught, c, IInv, TiposPlan, TipoEntrenador
    <2> QED BY <2>2, <2>3, <2>4
  <1>4. entrenador'[e].estado \notin Trueques
    BY <1>2, <1>3 DEF Estado, Trueques
  <1> QED BY <1>1, <1>3, <1>4, OtroSigueOcupado

\* A CAUGHT: its trainer waited for it, so nobody is on the way to an exchange.
LEMMA CaAplicaEnEncuentro ==
    ASSUME NEW c \in caughts, IInv, vivo, Orden, CaAplica(c)
    PROVE  Encuentros'
  <1>0. c.pc = "aplica"
    BY DEF CaAplica
  <1>1. PICK e \in Entrenadores : EnCaptura(e) /\ c.reserva = e /\ c.para = e /\ Falta(e)
    BY <1>0, EnCaughtOK DEF IInv
  <1>2. ~Parado(e)
    BY <1>1, ConCpu DEF EnCaptura
  <1>3. buscarPokemonReservado(e) # 0
    BY <1>1, BuscarReservaOK DEF Falta, IInv, TiposPlan, TipoMapa
  <1>4. \/ \E o : entrenador' = [entrenador EXCEPT ![e].obtenidos = o, ![e].estado = "RECIBIO_RESPUESTA_OK"]
        \/ entrenador' = [entrenador EXCEPT ![e].estado = "MOVERSE_A_POKEMON"]
    BY <1>1, <1>3 DEF CaAplica
  <1>5. /\ \A x \in Entrenadores \ {e} : entrenador'[x].estado = entrenador[x].estado
        /\ entrenador'[e].estado \notin Trueques
    BY <1>4 DEF IInv, TiposPlan, TipoEntrenador, Ficha, Trueques
  <1> QED BY <1>2, <1>5, OtroSigueOcupado

\* After an exchange nobody is on the way to one.
LEMMA IntercambiarEnEncuentro ==
    ASSUME NEW e \in Entrenadores, IInv, vivo, vivo', Orden, Intercambiar(e)
    PROVE  Encuentros'
  <1>1. Estado(e) = "INTERCAMBIAR"
    BY IntercambiarHace
  <1>2. PICK otro \in En(colaBlocked) :
           \A x \in Entrenadores : /\ entrenador'[x].estado = IF x \in {e, otro} THEN "ACABO_INTERCAMBIO"
                                                              ELSE entrenador[x].estado
    BY IntercambiarHace
  <1>3. \A x \in Entrenadores \ {e} : Estado(x) \notin Trueques
    <2>1. \A x \in Entrenadores \ {e} : Parado(x)
      BY <1>1 DEF Orden, Solos, Trueques
    <2> QED BY <2>1 DEF Parado, IInv, Protocolo, Turnos, Trueques
  <1>4. \A x \in Entrenadores : entrenador'[x].estado \notin Trueques
    BY <1>2, <1>3 DEF Estado, Trueques
  <1> QED BY <1>4, SinEncuentros

\* buscarEntrenadorDelIntercambio: the trainer that waits is found.
LEMMA IntercambiarHalla ==
    ASSUME NEW e \in Entrenadores, IInv, vivo, Encuentros, Intercambiar(e)
    PROVE  vivo'
  <1> DEFINE aca == {i \in Candidatos(e) : calcularDistancia(entrenador[e].posicion,
                                              entrenador[colaBlocked[i]].posicion) = 0}
  <1>1. Estado(e) = "INTERCAMBIAR"
    BY DEF Intercambiar, Turno
  <1>2. PICK x \in Entrenadores : LaEspera(e, x) /\ entrenador[e].posicion = entrenador[x].posicion
    BY <1>1 DEF Encuentros, Llegado
  <1>3. PICK k \in DOMAIN colaBlocked : colaBlocked[k] = x
    BY <1>2 DEF LaEspera, En
  <1>4. k \in Candidatos(e)
    BY <1>2, <1>3 DEF LaEspera, Candidatos, Quieren
  <1>5. calcularDistancia(entrenador[e].posicion, entrenador[colaBlocked[k]].posicion) = 0
    <2>1. entrenador[e].posicion \in Lugar
      BY DEF IInv, TiposPlan, TipoEntrenador, Ficha
    <2> QED BY <1>2, <1>3, <2>1, MismoLugar
  <1>6. aca # {}
    BY <1>4, <1>5
  <1> QED BY <1>6 DEF Intercambiar

\* Every step of a Team that does not fall keeps the ways to the exchanges right.
LEMMA NextEnEncuentro ==
    ASSUME IInv, Orden, Encuentros, Next, vivo'
    PROVE  Encuentros'
  <1>1. vivo
    BY DEF Next, Corriendo
  <1>2. CASE Plan
    <2>1. CASE CortoPlazo
      <3>1. CASE CpTermina \/ CpElige
        BY <3>1, QuietosEnEncuentro DEF CpTermina, CpElige, colas
      <3> QED BY <1>1, <2>1, <3>1, CpDevuelveEnEncuentro DEF CortoPlazo
    <2>2. CASE MedianoPlazo
      <3>1. CASE \/ MpActiva \/ MpEspera \/ MpTodosEnExit \/ MpMira \/ MpPokemon \/ MpAvisa
                 \/ MpDetecta \/ MpTermina
        <4>1. UNCHANGED <<entrenador, hilo, colaBlocked>>
          BY <3>1 DEF MpActiva, MpEspera, MpTodosEnExit, MpMira, MpPokemon, MpAvisa, MpDetecta,
                      MpTermina, colas
        <4> QED BY <4>1, QuietosEnEncuentro
      <3> QED BY <1>1, <2>2, <3>1, MpRevisaEnEncuentro, MpAsignaEnEncuentro, MpOtroEnEncuentro,
                 MpDeadlockEnEncuentro DEF MedianoPlazo
    <2>3. ASSUME NEW e \in Entrenadores, Entrenador(e) PROVE Encuentros'
      BY <1>1, <2>3, HiloEnEncuentro, TurnoAEntrenadorEnEncuentro, MoverEnEncuentro,
         DejarDeMoverEnEncuentro, CapturaEnEncuentro, IntercambiarEnEncuentro DEF Entrenador
    <2> QED BY <1>2, <2>1, <2>2, <2>3 DEF Plan, PlanNext
  <1>3. ASSUME NEW m \in Ids, Llegada(m) PROVE UNCHANGED <<entrenador, hilo, colaBlocked>>
    BY <1>3 DEF Llegada, procesar_msg_appeared, process_msjs_gameboy, procesar_msg_localized, Aparece,
                Evaluar, ApMapa, ApAgrega, LocAvisa, LocAgrega, Activar, planVars, colas
  <1>4. ASSUME NEW p \in Objetivo, GetEnvia(p) \/ GetAnota(p)
        PROVE  UNCHANGED <<entrenador, hilo, colaBlocked>>
    BY <1>4 DEF GetEnvia, GetAnota, planVars, colas
  <1>5. ASSUME NEW en \in envios, Envio(en) PROVE UNCHANGED <<entrenador, hilo, colaBlocked>>
    BY <1>5 DEF Envio, CatchConecta, CatchEnvia, CatchRechazado, CatchCortado, CatchSinBroker,
                CatchAnota, colas
  <1>6. ASSUME NEW id \in broker.pendientes, BrokerResponde(id)
        PROVE  UNCHANGED <<entrenador, hilo, colaBlocked>>
    BY <1>6 DEF BrokerResponde, planVars, colas
  <1>7. ASSUME NEW c \in caughts, CaBusca(c) \/ CaEntrenador(c)
        PROVE  UNCHANGED <<entrenador, hilo, colaBlocked>>
    BY <1>7 DEF CaBusca, CaEntrenador, planVars, colas
  <1>8. CASE BrokerCae \/ BrokerVuelve
    <2>1. UNCHANGED <<entrenador, hilo, colaBlocked>>
      BY <1>8 DEF BrokerCae, BrokerVuelve, planVars, colas
    <2> QED BY <2>1, QuietosEnEncuentro
  <1> QED BY <1>1, <1>2, <1>3, <1>4, <1>5, <1>6, <1>7, <1>8, QuietosEnEncuentro, CaAplicaEnEncuentro
          DEF Next, procesar_msg_caught

\* Only one that looks for whom to exchange with and finds nobody makes the Team fall, and
\* then the Team has of some species more than it wants.
LEMMA CaePorSobra ==
    ASSUME IInv, CuentasInv, Orden, Encuentros, Next, ~vivo'
    PROVE  /\ \E e \in Entrenadores : TurnoAEntrenador(e) /\ Candidatos(e) = {}
           /\ Sobra'
  <1>1. vivo
    BY DEF Next, Corriendo
  <1>2. PICK e \in Entrenadores : TurnoAEntrenador(e)
    BY <1>1, NextEnOrden, IntercambiarHalla
  <1>3. Candidatos(e) = {}
    BY <1>1, <1>2 DEF TurnoAEntrenador
  <1>4. Estado(e) \in Trueques /\ atrapados' = atrapados
    BY <1>2 DEF TurnoAEntrenador, Turno, Trueques, mapa
  <1>5. Sobra
    BY <1>1, <1>3, <1>4, HayCandidato
  <1>6. Sobra'
    BY <1>4, <1>5 DEF Sobra
  <1> QED BY <1>2, <1>3, <1>6

\* What holds while the Team runs, and why it does not run any more.
EnPie == (vivo => Orden /\ Encuentros) /\ (vivo \/ Sobra)

\* At the start the Team runs and nobody goes for an exchange.
LEMMA InitEnPie ==
    Init => EnPie
  <1> SUFFICES ASSUME Init PROVE EnPie
    OBVIOUS
  <1>1. vivo
    BY DEF Init, PlanInit
  <1>2. \A e \in Entrenadores : Estado(e) = "MOVERSE_A_POKEMON"
    BY DEF Init, PlanInit, iniciar_entrenador, Estado
  <1>3. Encuentros
    BY <1>2 DEF Encuentros, EnCamino, Llegado
  <1> QED BY <1>1, <1>3, InitEnOrden DEF EnPie

\* A step keeps what holds while the Team runs; one that follows no valid pointer shows an excess.
LEMMA NextEnPie ==
    IInv /\ CuentasInv /\ EnPie /\ [Next]_vars => EnPie'
  <1> SUFFICES ASSUME IInv, CuentasInv, EnPie, [Next]_vars PROVE EnPie'
    OBVIOUS
  <1>1. CASE Next
    <2>1. Orden /\ Encuentros
      BY <1>1 DEF Next, Corriendo, EnPie
    <2>2. CASE vivo'
      BY <1>1, <2>1, <2>2, NextEnOrden, NextEnEncuentro DEF EnPie
    <2>3. CASE ~vivo'
      BY <1>1, <2>1, <2>3, CaePorSobra DEF EnPie
    <2> QED BY <2>2, <2>3
  <1>2. CASE UNCHANGED vars
    BY <1>2 DEF vars, planVars, recepVars, colas, mapa, EnPie, Orden, Senales, AlPrincipio,
           ElPrimero, EnMarcha,
                Avisos, PorAvisar, EnCpu, Solos, Parado, Encuentros, EnCamino, Llegado, LaEspera,
                Estado, Sobra
  <1> QED BY <1>1, <1>2

\* While the Team has caught no more of any species than it wants, no pointer that is NULL
\* or was never set is followed: the short term planner finds READY with a trainer for each
\* signal, a deadlock has a trainer to send, and a trainer that goes for an exchange finds
\* its reservation, somebody to exchange with, and, when it arrives, that one there.
THEOREM SoloCaeSiSobra ==
    SinAjenos => (Spec => [](~Sobra => SinPunteroNulo))
  <1>1. Init => CuentasInv
    BY CuentasInit
  <1>2. IInv /\ CuentasInv /\ [Next]_vars => CuentasInv'
    BY CuentasPaso
  <1>3. EnPie => (~Sobra => SinPunteroNulo)
    BY DEF EnPie, SinPunteroNulo
  <1>4. IdsInv /\ [Next]_vars => IdsInv'
    BY IdsNext
  <1>5. Mezcla => SinPunteroNulo
    BY DEF SinPunteroNulo
  <1> QED BY <1>1, <1>2, <1>3, <1>4, <1>5, InitEnPie, NextEnPie, Invariante, IdsInit, MezclaQueda,
             PTL DEF Spec

\* The only step that follows such a pointer is that of a trainer that goes for an exchange
\* and finds nobody to exchange with (buscarEntrenadorAMoverse).
THEOREM SoloCaeAlBuscar ==
    SinAjenos =>
       (Spec => [][~Mezcla /\ ~vivo' =>
                      \E e \in Entrenadores : TurnoAEntrenador(e) /\ Candidatos(e) = {}]_vars)
  <1>1. Init => CuentasInv
    BY CuentasInit
  <1>2. IInv /\ CuentasInv /\ [Next]_vars => CuentasInv'
    BY CuentasPaso
  <1>3. IInv /\ CuentasInv /\ EnPie /\ [Next]_vars =>
           [~Mezcla /\ ~vivo' => \E e \in Entrenadores : TurnoAEntrenador(e) /\ Candidatos(e) = {}]_vars
    <2> SUFFICES ASSUME IInv, CuentasInv, EnPie, Next, ~vivo'
                 PROVE  \E e \in Entrenadores : TurnoAEntrenador(e) /\ Candidatos(e) = {}
      OBVIOUS
    <2>1. vivo
      BY DEF Next, Corriendo
    <2> QED BY <2>1, CaePorSobra DEF EnPie
  <1>4. IdsInv /\ [Next]_vars => IdsInv'
    BY IdsNext
  <1>5. Mezcla => [~Mezcla /\ ~vivo' => \E e \in Entrenadores : TurnoAEntrenador(e) /\ Candidatos(e) = {}]_vars
    OBVIOUS
  <1> QED BY <1>1, <1>2, <1>3, <1>4, <1>5, InitEnPie, NextEnPie, Invariante, IdsInit, MezclaQueda,
             PTL DEF Spec

=============================================================================
