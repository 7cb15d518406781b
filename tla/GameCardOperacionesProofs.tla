---------------------- MODULE GameCardOperacionesProofs ----------------------
(***************************************************************************)
(* Proofs about GameCardOperaciones, for every set of messages, size of    *)
(* the disk and of its blocks: one thread at a time has a file open, a     *)
(* message is tried again only after it has left its file alone, the state *)
(* has its types; and, when no two NEW messages create one file, OPEN says *)
(* who has the file open, each block belongs to one file or thread but for *)
(* what a full disk leaves behind, and the messages act on the files as    *)
(* PokemonAbstracto promises.                                              *)
(***************************************************************************)
EXTENDS GameCardOperaciones, LemasComunes, FunctionTheorems

(***************************************************************************)
(* The inductive invariant                                                 *)
(***************************************************************************)
Registros ==
    /\ DOMAIN hilo = Ids
    /\ \A i \in Ids : {"pc", "resultado"} \subseteq DOMAIN hilo[i]

\* Where a thread is tells whether it has decided its answer.
Decididos ==
    \A i \in Ids :
        /\ hilo[i].pc \in {"liberar", "blocks", "size", "quitar", "cerrar"} => EstaModificando(i)
        /\ hilo[i].pc \in {"fuera", "existe", "crear"} => ~EstaModificando(i)

\* A message waits for its retry once, and its thread has ended.
Reintentos ==
    /\ g_reintentos \in Seq(Ids)
    /\ \A n \in 1 .. Len(g_reintentos) : hilo[g_reintentos[n]].pc = "encolado"
    /\ \A n, m \in 1 .. Len(g_reintentos) : g_reintentos[n] = g_reintentos[m] => n = m

IInv == Registros /\ Decididos /\ Reintentos /\ UnoPorVez

\* Thread i goes to pc and keeps its answer.
VaA(i, pc) ==
    /\ hilo'[i].pc = pc
    /\ hilo'[i].resultado = hilo[i].resultado

\* Only thread i moves.
Solo(i) ==
    /\ Registros'
    /\ \A j \in Ids : j # i => hilo'[j] = hilo[j]

(***************************************************************************)
(* Lemmas                                                                  *)
(***************************************************************************)
LEMMA IrAOK == ASSUME Registros, NEW i \in Ids, NEW pc, IrA(i, pc) PROVE Solo(i) /\ VaA(i, pc)
  BY DEF Registros, IrA, Solo, VaA

LEMMA Ajeno == IInv /\ UNCHANGED <<hilo, g_mutex_tallgrass, g_reintentos>> => IInv'
  BY DEF IInv, Registros, Decididos, Reintentos, UnoPorVez, TieneElMutex, LoTieneAbierto,
         SinTerminar, EstaModificando

\* A step of thread i that leaves the retries alone.
LEMMA UnPaso ==
    ASSUME IInv, NEW i \in Ids, Solo(i), UNCHANGED g_reintentos, hilo[i].pc # "encolado",
           hilo'[i].pc \in {"liberar", "blocks", "size", "quitar", "cerrar"} => EstaModificando(i)',
           hilo'[i].pc \in {"fuera", "existe", "crear"} => ~EstaModificando(i)',
           \/ (TieneElMutex(i)' <=> TieneElMutex(i)) /\ UNCHANGED g_mutex_tallgrass
           \/ ~g_mutex_tallgrass /\ g_mutex_tallgrass' = TRUE /\ TieneElMutex(i)'
           \/ TieneElMutex(i) /\ ~TieneElMutex(i)' /\ g_mutex_tallgrass' = FALSE
    PROVE  IInv'
  <1>1. Registros'
    BY DEF Solo
  <1>2. \A j \in Ids : j # i => (TieneElMutex(j)' <=> TieneElMutex(j))
                             /\ (EstaModificando(j)' <=> EstaModificando(j))
    BY DEF Solo, TieneElMutex, LoTieneAbierto, SinTerminar, EstaModificando
  <1>3. Decididos'
    BY <1>2 DEF IInv, Decididos, Solo
  <1>4. Reintentos'
    <2>1. \A n \in 1 .. Len(g_reintentos) : g_reintentos[n] \in Ids /\ g_reintentos[n] # i
      BY DEF IInv, Reintentos
    <2> QED BY <2>1 DEF IInv, Reintentos, Solo
  <1>5. UnoPorVez'
    BY <1>2 DEF IInv, UnoPorVez
  <1> QED BY <1>1, <1>3, <1>4, <1>5 DEF IInv

LEMMA Inicio == Init => IInv
  BY DEF Init, IInv, Registros, Decididos, Reintentos, UnoPorVez, HiloNuevo, TieneElMutex,
         LoTieneAbierto, SinTerminar, EstaModificando

(***************************************************************************)
(* The steps of a thread                                                   *)
(***************************************************************************)
\* Before the file is open: the questions, and the way into the queue of retries.
LEMMA PreguntasOK ==
    ASSUME IInv, NEW i \in Ids, Recibir(i) \/ Existe(i) \/ EstaEnLista(i) \/ EstaAbierto(i)
    PROVE  IInv'
  <1>1. CASE (En(i, "fuera") \/ En(i, "existe")) /\ Buscar(i)
    <2>1. PICK pc \in {"lista", "crear", "fin"} : IrA(i, pc)
      BY <1>1 DEF Buscar
    <2>2. Solo(i) /\ VaA(i, pc)
      BY <2>1, IrAOK DEF IInv
    <2>3. ~EstaModificando(i)
      BY <1>1 DEF IInv, Decididos, En
    <2>4. ~TieneElMutex(i) /\ ~TieneElMutex(i)' /\ ~EstaModificando(i)'
      BY <1>1, <2>2, <2>3 DEF VaA, En, TieneElMutex, LoTieneAbierto, SinTerminar, EstaModificando
    <2>5. hilo'[i].pc \notin {"liberar", "blocks", "size", "quitar", "cerrar"}
          /\ hilo[i].pc # "encolado" /\ UNCHANGED <<g_reintentos, g_mutex_tallgrass>>
      BY <1>1, <2>2 DEF Buscar, VaA, En, mutexes
    <2> QED BY <2>2, <2>4, <2>5, UnPaso
  <1>2. CASE EstaEnLista(i) \/ EstaAbierto(i)
    <2>1. CASE UNCHANGED hilo
      BY <1>2, <2>1, Ajeno DEF EstaEnLista, EstaAbierto, mutexes
    <2>2. CASE \E pc \in {"encolar", "open", "trabar"} : IrA(i, pc)
      <3>1. PICK pc \in {"encolar", "open", "trabar"} : IrA(i, pc)
        BY <2>2
      <3>2. Solo(i) /\ VaA(i, pc)
        BY <3>1, IrAOK DEF IInv
      <3>3. ~TieneElMutex(i) /\ ~TieneElMutex(i)'
        BY <1>2, <3>2 DEF EstaEnLista, EstaAbierto, VaA, En, TieneElMutex, LoTieneAbierto, SinTerminar
      <3>4. hilo'[i].pc \notin {"liberar", "blocks", "size", "quitar", "cerrar"}
            /\ hilo'[i].pc \notin {"fuera", "existe", "crear"}
            /\ hilo[i].pc # "encolado" /\ UNCHANGED <<g_reintentos, g_mutex_tallgrass>>
        BY <1>2, <3>2 DEF EstaEnLista, EstaAbierto, VaA, En, mutexes
      <3> QED BY <3>2, <3>3, <3>4, UnPaso
    <2> QED BY <1>2, <2>1, <2>2 DEF EstaEnLista, EstaAbierto
  <1> QED BY <1>1, <1>2 DEF Recibir, Existe

LEMMA EncolarOK == ASSUME IInv, NEW i \in Ids, encolar_operacion_tallgrass(i) PROVE IInv'
  <1>1. Solo(i) /\ VaA(i, "encolado")
    BY IrAOK DEF IInv, encolar_operacion_tallgrass
  <1>2. g_reintentos' = Append(g_reintentos, i) /\ hilo[i].pc = "encolar"
        /\ UNCHANGED g_mutex_tallgrass
    BY DEF encolar_operacion_tallgrass, En, mutexes
  <1>3. \A j \in Ids : TieneElMutex(j)' <=> TieneElMutex(j)
    BY <1>1, <1>2 DEF Solo, VaA, TieneElMutex, LoTieneAbierto, SinTerminar, EstaModificando
  <1>4. Decididos' /\ UnoPorVez'
    BY <1>1, <1>2, <1>3 DEF IInv, Decididos, UnoPorVez, Solo, VaA, EstaModificando
  <1>5. Reintentos'
    <2>1. g_reintentos \in Seq(Ids) /\ g_reintentos' \in Seq(Ids)
          /\ Len(g_reintentos') = Len(g_reintentos) + 1
          /\ g_reintentos'[Len(g_reintentos) + 1] = i
          /\ \A n \in 1 .. Len(g_reintentos) : g_reintentos'[n] = g_reintentos[n]
      BY <1>2 DEF IInv, Reintentos
    <2>2. \A n \in 1 .. Len(g_reintentos) : g_reintentos[n] \in Ids /\ g_reintentos[n] # i
      BY <1>2, <2>1 DEF IInv, Reintentos
    <2>3. \A n \in 1 .. Len(g_reintentos') :
             n = Len(g_reintentos) + 1 \/ n \in 1 .. Len(g_reintentos)
      BY <2>1
    <2>4. \A n \in 1 .. Len(g_reintentos') : hilo'[g_reintentos'[n]].pc = "encolado"
      BY <1>1, <2>1, <2>2, <2>3 DEF Solo, VaA, IInv, Reintentos
    <2>5. \A n, m \in 1 .. Len(g_reintentos') : g_reintentos'[n] = g_reintentos'[m] => n = m
      BY <2>1, <2>2, <2>3 DEF IInv, Reintentos
    <2> QED BY <2>1, <2>4, <2>5 DEF Reintentos
  <1> QED BY <1>1, <1>4, <1>5 DEF IInv, Solo

\* Opening a file: the one step that locks the mutex, and the two that follow it.
LEMMA AbrirOK ==
    ASSUME IInv, NEW i \in Ids, Trabar(i) \/ MarcarAbierto(i) \/ AnotarAbierto(i)
    PROVE  IInv'
  <1>1. PICK pc \in {"abrir", "anotar", "leer"} :
          IrA(i, pc) /\ (hilo[i].pc = "trabar" => pc = "abrir")
    BY DEF Trabar, MarcarAbierto, AnotarAbierto, En
  <1>2. Solo(i) /\ VaA(i, pc)
    BY <1>1, IrAOK DEF IInv
  <1>3. TieneElMutex(i)'
    BY <1>2 DEF VaA, TieneElMutex, LoTieneAbierto
  <1>4. \/ TieneElMutex(i) /\ UNCHANGED g_mutex_tallgrass
        \/ ~g_mutex_tallgrass /\ g_mutex_tallgrass' = TRUE
    BY DEF Trabar, MarcarAbierto, AnotarAbierto, En, mutexes, TieneElMutex, LoTieneAbierto
  <1>5. hilo[i].pc # "encolado" /\ UNCHANGED g_reintentos
    BY DEF Trabar, MarcarAbierto, AnotarAbierto, En
  <1>6. hilo'[i].pc \notin {"liberar", "blocks", "size", "quitar", "cerrar", "fuera", "existe", "crear"}
    BY <1>2 DEF VaA
  <1> QED BY <1>2, <1>3, <1>4, <1>5, <1>6, UnPaso

\* Reading decides the answer; a file that is rewritten has one.
LEMMA LeerOK == ASSUME IInv, NEW i \in Ids, LeerArchivo(i) PROVE IInv'
  <1>1. CASE UNCHANGED hilo
    BY <1>1, Ajeno DEF LeerArchivo, mutexes
  <1>2. CASE ~UNCHANGED hilo
    <2> DEFINE r == Decision(msj[i], Cargadas(metadata[Pokemon(i)])).resultado
    <2>1. Solo(i) /\ hilo'[i].resultado = r
          /\ hilo'[i].pc = IF r.tipo \in {"APPEARED", "OK"} THEN "liberar" ELSE "quitar"
      BY <1>2 DEF LeerArchivo, Solo, IInv, Registros
    <2>2. r # Pendiente
      BY OperacionesAssumption DEF Decision, Pendiente
    <2> QED BY <2>1, <2>2, UnPaso
            DEF LeerArchivo, En, mutexes, TieneElMutex, LoTieneAbierto, SinTerminar, EstaModificando
  <1> QED BY <1>1, <1>2

\* Freeing the old blocks, cutting the text, and the text of a new file.
LEMMA CortarOK ==
    ASSUME IInv, NEW i \in Ids, LiberarBloque(i) \/ Recortar(i) \/ Crear(i)
    PROVE  IInv'
  <1>1. /\ Solo(i) /\ hilo'[i].resultado = hilo[i].resultado
        /\ \/ hilo[i].pc = "liberar" /\ hilo'[i].pc \in {"liberar", "blocks", "grabar"}
           \/ hilo[i].pc = "crear" /\ hilo'[i].pc = "grabar"
    BY DEF LiberarBloque, Recortar, Crear, En, Solo, IInv, Registros
  <1>2. hilo[i].pc = "liberar" <=> EstaModificando(i)
    BY <1>1 DEF IInv, Decididos
  <1>3. EstaModificando(i)' <=> EstaModificando(i)
    BY <1>1 DEF EstaModificando
  <1>4. TieneElMutex(i)' <=> TieneElMutex(i)
    BY <1>1, <1>2, <1>3 DEF TieneElMutex, LoTieneAbierto, SinTerminar
  <1>5. UNCHANGED <<g_reintentos, g_mutex_tallgrass>>
    BY DEF LiberarBloque, Recortar, Crear, mutexes
  <1> QED BY <1>1, <1>2, <1>3, <1>4, <1>5, UnPaso

\* Storing blocks, for a new file or for one that is rewritten, until there are none.
LEMMA GrabarOK ==
    ASSUME IInv, NEW i \in Ids, GrabarBloque(i) \/ SinBloques(i)
    PROVE  IInv'
  <1>1. /\ Solo(i) /\ hilo'[i].resultado = hilo[i].resultado
        /\ hilo[i].pc = "grabar" /\ hilo'[i].pc \in {"grabar", "blocks", "truncar", "muerto"}
        /\ hilo'[i].pc = "blocks" => EstaModificando(i)
        /\ hilo'[i].pc = "truncar" => ~EstaModificando(i)
    BY DEF GrabarBloque, SinBloques, IrA, En, Solo, IInv, Registros
  <1>2. EstaModificando(i)' <=> EstaModificando(i)
    BY <1>1 DEF EstaModificando
  <1>3. TieneElMutex(i)' <=> TieneElMutex(i)
    BY <1>1, <1>2 DEF TieneElMutex, LoTieneAbierto, SinTerminar
  <1>4. UNCHANGED <<g_reintentos, g_mutex_tallgrass>>
    BY DEF GrabarBloque, SinBloques, mutexes
  <1> QED BY <1>1, <1>2, <1>3, <1>4, UnPaso

\* The metadata of an open file, and its closing.
LEMMA CerrarOK ==
    ASSUME IInv, NEW i \in Ids,
           EscribirBlocks(i) \/ EscribirSize(i) \/ QuitarDeLista(i) \/ Cerrar(i)
    PROVE  IInv'
  <1>1. PICK pc \in {"size", "quitar", "cerrar", "enviar", "fin"} :
          IrA(i, pc) /\ (pc \in {"enviar", "fin"} <=> Cerrar(i))
    BY DEF EscribirBlocks, EscribirSize, QuitarDeLista, Cerrar, En
  <1>2. Solo(i) /\ VaA(i, pc)
    BY <1>1, IrAOK DEF IInv
  <1>3. hilo[i].pc \in {"blocks", "size", "quitar", "cerrar"} /\ UNCHANGED g_reintentos
    BY DEF EscribirBlocks, EscribirSize, QuitarDeLista, Cerrar, En
  <1>4. EstaModificando(i) /\ EstaModificando(i)' /\ TieneElMutex(i)
    BY <1>2, <1>3 DEF IInv, Decididos, EstaModificando, VaA, TieneElMutex, LoTieneAbierto, SinTerminar
  <1>5. CASE Cerrar(i)
    <2>1. ~TieneElMutex(i)' /\ g_mutex_tallgrass' = FALSE
      BY <1>1, <1>2, <1>5 DEF Cerrar, VaA, TieneElMutex, LoTieneAbierto, SinTerminar
    <2>2. hilo'[i].pc \notin {"fuera", "existe", "crear"}
      BY <1>2 DEF VaA
    <2> QED BY <1>2, <1>3, <1>4, <2>1, <2>2, UnPaso
  <1>6. CASE ~Cerrar(i)
    <2>1. TieneElMutex(i)'
      BY <1>1, <1>2, <1>4, <1>6 DEF VaA, TieneElMutex, LoTieneAbierto, SinTerminar
    <2>2. UNCHANGED g_mutex_tallgrass
      BY <1>6 DEF EscribirBlocks, EscribirSize, QuitarDeLista, mutexes
    <2>3. hilo'[i].pc \notin {"fuera", "existe", "crear"}
      BY <1>2 DEF VaA
    <2> QED BY <1>2, <1>3, <1>4, <2>1, <2>2, <2>3, UnPaso
  <1> QED BY <1>5, <1>6

\* The rest of a creation, which has no mutex, and the answer.
LEMMA ResponderOK ==
    ASSUME IInv, NEW i \in Ids, Truncar(i) \/ GrabarMetadata(i) \/ Enviar(i)
    PROVE  IInv'
  <1>1. /\ Solo(i)
        /\ hilo[i].pc \in {"truncar", "metadata", "enviar"}
        /\ hilo'[i].pc \in {"metadata", "enviar", "fin"}
    BY DEF Truncar, GrabarMetadata, Enviar, IrA, En, Solo, IInv, Registros
  <1>2. ~TieneElMutex(i) /\ ~TieneElMutex(i)'
    BY <1>1 DEF TieneElMutex, LoTieneAbierto, SinTerminar
  <1>3. UNCHANGED <<g_reintentos, g_mutex_tallgrass>>
    BY DEF Truncar, GrabarMetadata, Enviar, mutexes
  <1> QED BY <1>1, <1>2, <1>3, UnPaso

(***************************************************************************)
(* The dispatcher                                                          *)
(***************************************************************************)
\* The message at the head of the queue has left its file, and no other entry names it.
LEMMA ReintentarOK == ASSUME IInv, Reintentar PROVE IInv'
  <1> DEFINE i == Head(g_reintentos)
  <1>1. /\ g_reintentos \in Seq(Ids) /\ Len(g_reintentos) \in Nat \ {0}
        /\ i = g_reintentos[1] /\ i \in Ids
        /\ g_reintentos' = Tail(g_reintentos) /\ g_reintentos' \in Seq(Ids)
        /\ Len(g_reintentos') = Len(g_reintentos) - 1
        /\ \A n \in 1 .. Len(g_reintentos') : g_reintentos'[n] = g_reintentos[n + 1]
    BY DEF Reintentar, IInv, Reintentos
  <1>2. Solo(i) /\ hilo'[i].pc = "existe" /\ hilo'[i].resultado = Pendiente
    BY <1>1 DEF Reintentar, Relanzar, HiloNuevo, Solo, IInv, Registros
  <1>3. hilo[i].pc = "encolado"
    BY <1>1 DEF IInv, Reintentos
  <1>4. \A j \in Ids : TieneElMutex(j)' <=> TieneElMutex(j)
    BY <1>2, <1>3 DEF Solo, TieneElMutex, LoTieneAbierto, SinTerminar, EstaModificando
  <1>5. UnoPorVez'
    BY <1>4 DEF IInv, UnoPorVez, Reintentar, mutexes
  <1>6. Decididos'
    BY <1>1, <1>2 DEF IInv, Decididos, Solo, EstaModificando
  <1>7. Reintentos'
    <2>1. \A n \in 1 .. Len(g_reintentos') :
             n + 1 \in 1 .. Len(g_reintentos) /\ g_reintentos[n + 1] \in Ids
             /\ g_reintentos[n + 1] # i
      BY <1>1 DEF IInv, Reintentos
    <2>2. \A n \in 1 .. Len(g_reintentos') : hilo'[g_reintentos'[n]].pc = "encolado"
      BY <1>1, <1>2, <2>1 DEF Solo, IInv, Reintentos
    <2>3. \A n, m \in 1 .. Len(g_reintentos') : g_reintentos'[n] = g_reintentos'[m] => n = m
      BY <1>1, <2>1 DEF IInv, Reintentos
    <2> QED BY <1>1, <2>2, <2>3 DEF Reintentos
  <1> QED BY <1>2, <1>5, <1>6, <1>7 DEF IInv, Solo

LEMMA PasoOK == IInv /\ [Next]_vars => IInv'
  <1> SUFFICES ASSUME IInv, [Next]_vars PROVE IInv'
    OBVIOUS
  <1>1. ASSUME NEW i \in Ids, Recibir(i) \/ Paso(i) PROVE IInv'
    BY <1>1, PreguntasOK, EncolarOK, AbrirOK, LeerOK, CortarOK, GrabarOK, CerrarOK, ResponderOK
       DEF Paso
  <1>2. CASE DespertarDispatcher \/ FinDispatcher
    BY <1>2, Ajeno DEF DespertarDispatcher, FinDispatcher
  <1>3. CASE UNCHANGED vars
    BY <1>3, Ajeno DEF vars, mutexes
  <1> QED BY <1>1, <1>2, <1>3, ReintentarOK DEF Next, Dispatcher

LEMMA Siempre == Spec => []IInv
  BY Inicio, PasoOK, PTL DEF Spec

\* g_mutex_tallgrass is locked exactly while one message has its file open: neither the
\* retry of a message, nor a file created meanwhile, nor a thread that died of a full
\* disk lets two rewritings overlap (utils_gc.c, tall_grass.c).
THEOREM UnArchivoPorVez == Spec => []UnoPorVez
  <1>1. IInv => UnoPorVez
    BY DEF IInv
  <1> QED BY <1>1, Siempre, PTL

\* A message waits in g_reintentos at most once and only while its thread is over: the
\* dispatcher never starts a message that is still in progress
\* (completar_operaciones_pendientes).
THEOREM ReintentoDeQuienTermino == Spec => []Reintentos
  <1>1. IInv => Reintentos
    BY DEF IInv
  <1> QED BY <1>1, Siempre, PTL

(***************************************************************************)
(* Types: the text of the files and what the operators make of it          *)
(***************************************************************************)
\* A position with some pokemon, and a unit of its line.
Viva   == [pos : Posiciones, cantidad : Nat \ {0}]
Unidad == [linea : Viva, unidad : Nat]

LEMMA TextoOK ==
    ASSUME NEW ps \in Seq(Viva)
    PROVE  LET texto == serializar_lista_posiciones_pokemon(ps)
           IN  /\ texto \in Seq(Unidad)
               /\ Len(texto) = Largo * Len(ps)
               /\ \A n \in 1 .. Largo * Len(ps) : texto[n].linea = ps[((n - 1) \div Largo) + 1]
  <1>1. Largo \in Nat \ {0} /\ Len(ps) \in Nat
    BY TallGrassAssumption
  <1> DEFINE m == Largo * Len(ps)
             u(n) == [linea |-> ps[((n - 1) \div Largo) + 1], unidad |-> ((n - 1) % Largo) + 1]
  <1>2. m \in Nat
    BY <1>1
  <1>3. ASSUME NEW n \in 1 .. m PROVE u(n) \in Unidad
    <2> DEFINE a == n - 1
    <2>1. a \in Nat /\ a < m
      BY <1>2
    <2>2. a \div Largo \in Nat /\ a \div Largo < Len(ps) /\ a % Largo \in Nat
      <3>1. a \div Largo \in Nat /\ (a \div Largo) * Largo <= a /\ a % Largo \in Nat
        BY <1>1, <2>1, DivOK
      <3> HIDE DEF a
      <3> DEFINE q == a \div Largo
      <3>2. q \in Nat /\ q * Largo < Largo * Len(ps)
        BY <1>1, <2>1, <3>1
      <3> HIDE DEF q
      <3>3. q < Len(ps)
        BY <1>1, <3>2
      <3> QED BY <3>1, <3>2, <3>3 DEF q
    <2>3. ps[a \div Largo + 1] \in Viva
      <3> HIDE DEF a
      <3> DEFINE q == a \div Largo
      <3>1. q + 1 \in 1 .. Len(ps)
        BY <2>2, <1>1
      <3> HIDE DEF q
      <3> QED BY <3>1 DEF q
    <2> QED BY <2>2, <2>3 DEF Unidad
  <1>4. serializar_lista_posiciones_pokemon(ps) = [n \in 1 .. m |-> u(n)]
    BY DEF serializar_lista_posiciones_pokemon
  <1>5. \A n \in 1 .. m : u(n).linea = ps[((n - 1) \div Largo) + 1]
    OBVIOUS
  <1> DEFINE texto == [n \in 1 .. m |-> u(n)]
  <1>6. \A n \in 1 .. m : texto[n] \in Unidad /\ texto[n].linea = ps[((n - 1) \div Largo) + 1]
    BY <1>3, <1>5
  <1>7. texto \in Seq(Unidad) /\ Len(texto) = m
    <2> HIDE DEF u, m
    <2> QED BY <1>2, <1>3
  <1> QED BY <1>4, <1>6, <1>7

\* How many blocks a text takes, and how much each of them holds.
LEMMA BloquesOK ==
    ASSUME NEW size \in Nat
    PROVE  /\ CantidadBloques(size) \in Nat \ {0}
           /\ \A n \in 1 .. CantidadBloques(size) :
                 /\ UnidadesDe(size, n) \in Nat /\ UnidadesDe(size, n) <= block_size
                 /\ (n - 1) * block_size + UnidadesDe(size, n) <= size
                 /\ UnidadesDe(size, n) = size - (n - 1) * block_size \/ UnidadesDe(size, n) = block_size
           /\ \A n \in 1 .. size :
                 LET q == (n - 1) \div block_size
                     r == (n - 1) % block_size
                 IN  /\ q + 1 \in 1 .. CantidadBloques(size)
                     /\ r + 1 \in 1 .. UnidadesDe(size, q + 1)
                     /\ n = q * block_size + (r + 1)
  <1>1. block_size \in Nat \ {0}
    BY TallGrassAssumption
  <1> DEFINE c == CantidadBloques(size)
             t == size + block_size - 1
  <1>2. t \in Nat /\ t \div block_size \in Nat /\ (t \div block_size) * block_size <= t
        /\ t < (t \div block_size) * block_size + block_size
    <2>1. t \in Nat
      BY <1>1
    <2> HIDE DEF t
    <2> QED BY <1>1, <2>1, DivOK
  <1>3. c \in Nat \ {0} /\ (c - 1) * block_size <= size /\ size <= c * block_size
    <2>1. CASE size < block_size
      <3>1. c = 1
        BY <2>1 DEF CantidadBloques
      <3> HIDE DEF c
      <3> QED BY <2>1, <3>1, <1>1
    <2>2. CASE ~(size < block_size)
      <3>1. c = t \div block_size
        BY <2>2 DEF CantidadBloques
      <3>2. c \in Nat /\ c * block_size <= size + block_size - 1 /\ size + block_size - 1 < c * block_size + block_size
        BY <1>2, <3>1
      <3> HIDE DEF c, t
      <3>3. c # 0
        BY <3>2, <2>2, <1>1
      <3>4. (c - 1) * block_size = c * block_size - block_size
        BY <3>2, <1>1
      <3>5. c * block_size \in Nat
        BY <3>2, <1>1
      <3> QED BY <3>2, <3>3, <3>4, <3>5, <1>1
    <2> QED BY <2>1, <2>2
  <1>4. ASSUME NEW n \in 1 .. c
        PROVE  /\ UnidadesDe(size, n) \in Nat /\ UnidadesDe(size, n) <= block_size
               /\ (n - 1) * block_size + UnidadesDe(size, n) <= size
               /\ UnidadesDe(size, n) = size - (n - 1) * block_size \/ UnidadesDe(size, n) = block_size
    <2> HIDE DEF c
    <2> DEFINE k == (n - 1) * block_size
    <2>1. k \in Nat
      BY <1>1, <1>3
    <2>2. k <= (c - 1) * block_size /\ (c - 1) * block_size \in Nat
      BY <1>1, <1>3
    <2>3. k <= size
      BY <2>1, <2>2, <1>3
    <2>4. UnidadesDe(size, n) = IF size - k < block_size THEN size - k ELSE block_size
      BY DEF UnidadesDe
    <2> HIDE DEF k
    <2>5. UnidadesDe(size, n) \in Nat /\ UnidadesDe(size, n) <= block_size
          /\ k + UnidadesDe(size, n) <= size
      BY <2>1, <2>3, <2>4, <1>1
    <2> QED BY <2>4, <2>5 DEF k
  <1>5. ASSUME NEW n \in 1 .. size
        PROVE  LET q == (n - 1) \div block_size
                   r == (n - 1) % block_size
               IN  /\ q + 1 \in 1 .. c
                   /\ r + 1 \in 1 .. UnidadesDe(size, q + 1)
                   /\ n = q * block_size + (r + 1)
    <2> DEFINE a == n - 1
               q == a \div block_size
               r == a % block_size
    <2>1. a \in Nat /\ a < size /\ n = a + 1
      OBVIOUS
    <2>2. q \in Nat /\ r \in Nat /\ r < block_size /\ a = q * block_size + r
      <3> HIDE DEF a
      <3> QED BY <1>1, <2>1
    <2> HIDE DEF q, r, a, c
    <2>3. q < c
      <3>1. q * block_size < c * block_size
        BY <1>1, <1>3, <2>1, <2>2
      <3> QED BY <1>1, <1>3, <2>2, <3>1
    <2> DEFINE k == q * block_size
    <2>5. k \in Nat /\ a = k + r
      BY <1>1, <2>2
    <2>9. q + 1 \in 1 .. c
      BY <2>2, <2>3, <1>3
    <2>4. \E e \in Nat : e = q + 1 /\ e - 1 = q
      BY <2>2
    <2>6. UnidadesDe(size, q + 1) \in Nat
          /\ (UnidadesDe(size, q + 1) = size - k \/ UnidadesDe(size, q + 1) = block_size)
      BY <1>4, <2>4, <2>9
    <2> HIDE DEF k
    <2>7. r + 1 \in 1 .. UnidadesDe(size, q + 1)
      BY <2>1, <2>2, <2>5, <2>6, <1>1
    <2>8. n = k + (r + 1)
      BY <2>1, <2>2, <2>5
    <2> QED BY <2>7, <2>8, <2>9 DEF a, q, r, k
  <1> QED BY <1>3, <1>4, <1>5

\* The pieces of a text are its blocks one after the other.
LEMMA PartesOK ==
    ASSUME NEW texto \in Seq(Unidad)
    PROVE  /\ Partes(texto) \in Seq(Seq(Unidad))
           /\ Len(Partes(texto)) = CantidadBloques(Len(texto))
           /\ \A n \in 1 .. CantidadBloques(Len(texto)) :
                 /\ Partes(texto)[n] \in Seq(Unidad)
                 /\ Len(Partes(texto)[n]) = UnidadesDe(Len(texto), n)
                 /\ \A k \in 1 .. UnidadesDe(Len(texto), n) :
                       Partes(texto)[n][k] = texto[(n - 1) * block_size + k]
  <1> DEFINE size == Len(texto)
             c == CantidadBloques(size)
             parte(n) == SubSeq(texto, (n - 1) * block_size + 1,
                                       (n - 1) * block_size + UnidadesDe(size, n))
  <1>1. size \in Nat /\ block_size \in Nat \ {0}
    BY TallGrassAssumption
  <1>2. c \in Nat \ {0}
    BY <1>1, BloquesOK
  <1>3. ASSUME NEW n \in 1 .. c
        PROVE  /\ parte(n) \in Seq(Unidad)
               /\ Len(parte(n)) = UnidadesDe(size, n)
               /\ \A k \in 1 .. UnidadesDe(size, n) : parte(n)[k] = texto[(n - 1) * block_size + k]
    <2> DEFINE a == (n - 1) * block_size
               u == UnidadesDe(size, n)
    <2>1. u \in Nat /\ a + u <= size
      BY <1>1, BloquesOK
    <2>2. a \in Nat
      BY <1>1, <1>2
    <2> HIDE DEF a, u, c
    <2>3. \A k \in a + 1 .. a + u : texto[k] \in Unidad
      <3>1. \A k \in a + 1 .. a + u : k \in 1 .. size
        BY <1>1, <2>1, <2>2
      <3> QED BY <3>1
    <2> DEFINE m == a + 1
               o == a + u
    <2>4. m \in Int /\ o \in Int /\ o - m + 1 = u /\ (m <= o \/ u = 0)
      BY <2>1, <2>2
    <2>5. /\ SubSeq(texto, m, o) \in Seq(Unidad)
          /\ Len(SubSeq(texto, m, o)) = IF m <= o THEN o - m + 1 ELSE 0
          /\ \A k \in 1 .. o - m + 1 : SubSeq(texto, m, o)[k] = texto[m + k - 1]
      <3>1. \A k \in m .. o : texto[k] \in Unidad
        BY <2>3
      <3> HIDE DEF m, o
      <3> QED BY <2>4, <3>1, SubSeqProperties
    <2>6. \A k \in 1 .. u : m + k - 1 = a + k
      BY <2>1, <2>2
    <2>7. parte(n) = SubSeq(texto, m, o)
      BY DEF a, u
    <2> HIDE DEF m, o
    <2>8. \A k \in 1 .. u : SubSeq(texto, m, o)[k] = texto[a + k]
      BY <2>4, <2>5, <2>6
    <2> QED BY <2>1, <2>4, <2>5, <2>7, <2>8 DEF a, u
  <1>4. Partes(texto) = [n \in 1 .. c |-> parte(n)]
    BY DEF Partes
  <1> HIDE DEF parte, c
  <1>5. \A n \in 1 .. c : Partes(texto)[n] = parte(n) /\ Partes(texto)[n] \in Seq(Unidad)
    BY <1>3, <1>4
  <1>6. Partes(texto) \in Seq(Seq(Unidad)) /\ Len(Partes(texto)) = c
    BY <1>2, <1>4, <1>5
  <1> QED BY <1>3, <1>5, <1>6 DEF c

\* The lines of a text, by the unit each of them starts with.
LEMMA ObtenerOK ==
    ASSUME NEW texto \in Seq(Unidad)
    PROVE  /\ obtener_posiciones(texto) \in Seq(Viva)
           /\ Len(obtener_posiciones(texto)) = Len(texto) \div Largo
           /\ \A i \in 1 .. Len(texto) \div Largo :
                 obtener_posiciones(texto)[i] = texto[(i - 1) * Largo + 1].linea
  <1> DEFINE size == Len(texto)
             c == size \div Largo
             l(i) == texto[(i - 1) * Largo + 1].linea
  <1>1. Largo \in Nat \ {0} /\ size \in Nat
    BY TallGrassAssumption
  <1>2. c \in Nat /\ c * Largo <= size
    BY <1>1, DivOK
  <1>3. ASSUME NEW i \in 1 .. c PROVE l(i) \in Viva
    <2> HIDE DEF c
    <2> DEFINE a == (i - 1) * Largo
    <2>1. a \in Nat /\ a + Largo <= c * Largo /\ c * Largo \in Nat
      <3>1. i - 1 \in Nat /\ i <= c
        BY <1>2
      <3>2. a \in Nat /\ a + Largo = i * Largo /\ i * Largo <= c * Largo
        BY <1>1, <1>2, <3>1
      <3> QED BY <1>1, <1>2, <3>2
    <2> HIDE DEF a
    <2>2. a + 1 \in 1 .. size
      BY <1>1, <1>2, <2>1
    <2> HIDE DEF size
    <2>3. texto[a + 1] \in Unidad
      BY <2>2 DEF size
    <2> QED BY <2>3 DEF Unidad, a
  <1>4. obtener_posiciones(texto) = [i \in 1 .. c |-> l(i)]
    BY DEF obtener_posiciones
  <1>5. \A i \in 1 .. c : obtener_posiciones(texto)[i] = l(i)
    BY <1>4
  <1>6. obtener_posiciones(texto) \in Seq(Viva) /\ Len(obtener_posiciones(texto)) = c
    <2> HIDE DEF c, l
    <2> QED BY <1>2, <1>3, <1>4
  <1> QED BY <1>5, <1>6

\* What is read back from a text is what was written.
LEMMA IdaYVuelta ==
    ASSUME NEW ps \in Seq(Viva)
    PROVE  obtener_posiciones(serializar_lista_posiciones_pokemon(ps)) = ps
  <1> DEFINE texto == serializar_lista_posiciones_pokemon(ps)
             c == Len(ps)
             ls == obtener_posiciones(texto)
  <1>1. Largo \in Nat \ {0} /\ c \in Nat
    BY TallGrassAssumption
  <1>2. texto \in Seq(Unidad) /\ Len(texto) = Largo * c
        /\ \A n \in 1 .. Largo * c : texto[n].linea = ps[((n - 1) \div Largo) + 1]
    BY TextoOK
  <1>3. (Largo * c) \div Largo = c
    <2>1. Largo * c \in Nat /\ c * Largo = Largo * c /\ Largo * c < c * Largo + Largo
      BY <1>1
    <2> DEFINE a == Largo * c
    <2>2. a \in Nat /\ c * Largo <= a /\ a < c * Largo + Largo
      BY <2>1, <1>1
    <2> HIDE DEF a
    <2>3. a \div Largo = c
      BY <1>1, <2>2, DivOK
    <2> QED BY <2>3 DEF a
  <1>4. ls \in Seq(Viva) /\ Len(ls) = c
        /\ \A i \in 1 .. c : ls[i] = texto[(i - 1) * Largo + 1].linea
    <2> HIDE DEF texto, c
    <2>1. ls \in Seq(Viva) /\ Len(ls) = Len(texto) \div Largo
          /\ \A i \in 1 .. Len(texto) \div Largo : ls[i] = texto[(i - 1) * Largo + 1].linea
      BY <1>2, ObtenerOK
    <2> QED BY <1>2, <1>3, <2>1
  <1>5. ASSUME NEW i \in 1 .. c PROVE ls[i] = ps[i]
    <2> HIDE DEF c, texto, ls
    <2> DEFINE a == (i - 1) * Largo
    <2>1. a \in Nat /\ a + Largo <= Largo * c
      <3>1. i - 1 \in Nat /\ i <= c
        BY <1>1
      <3>2. a \in Nat /\ a + Largo = i * Largo /\ i * Largo <= c * Largo /\ c * Largo = Largo * c
        BY <1>1, <3>1
      <3> QED BY <1>1, <3>2
    <2>2. a \div Largo = i - 1
      <3>1. i - 1 \in Nat /\ (i - 1) * Largo <= a /\ a < (i - 1) * Largo + Largo
        BY <1>1, <2>1
      <3> HIDE DEF a
      <3> QED BY <1>1, <2>1, <3>1, DivOK
    <2> HIDE DEF a
    <2>3. a + 1 \in 1 .. Largo * c /\ a + 1 - 1 = a
      <3>1. Largo * c \in Nat
        BY <1>1
      <3> QED BY <1>1, <2>1, <3>1
    <2>4. texto[a + 1].linea = ps[i]
      <3>1. PICK n \in 1 .. Largo * c : n = a + 1 /\ n - 1 = a
        <4> DEFINE m == Largo * c
        <4>1. a + 1 \in 1 .. m /\ a + 1 - 1 = a
          BY <2>3
        <4> HIDE DEF m
        <4>2. \E n \in 1 .. m : n = a + 1 /\ n - 1 = a
          BY <4>1, <2>1
        <4> QED BY <4>2 DEF m
      <3>2. texto[n].linea = ps[((n - 1) \div Largo) + 1]
        BY <1>2
      <3>3. ((n - 1) \div Largo) + 1 = i
        BY <2>2, <3>1, <1>1
      <3> QED BY <3>1, <3>2, <3>3
    <2> QED BY <1>4, <2>4 DEF a
  <1> HIDE DEF ls, c
  <1>6. ls = ps
    BY <1>4, <1>5 DEF c
  <1> QED BY <1>6 DEF ls

\* What is read of a file that is legible has as many units as the file says.
LEMMA LegibleOK ==
    ASSUME bloque \in [Bloques -> Seq(Unidad)], NEW md \in Metadata, md.size > 0, Legible(md)
    PROVE  get_contenido_bloques(md) \in Seq(Unidad) /\ Len(get_contenido_bloques(md)) = md.size
  <1> DEFINE size == md.size
             u(n) == bloque[md.blocks[((n - 1) \div block_size) + 1]][((n - 1) % block_size) + 1]
  <1>1. size \in Nat /\ md.blocks \in Seq(Bloques)
    BY DEF Metadata
  <1>2. /\ Len(md.blocks) >= CantidadBloques(size)
        /\ \A n \in 1 .. CantidadBloques(size) : Len(bloque[md.blocks[n]]) >= UnidadesDe(size, n)
    BY DEF Legible
  <1>3. ASSUME NEW n \in 1 .. size PROVE u(n) \in Unidad
    <2> DEFINE q == ((n - 1) \div block_size) + 1
               r == ((n - 1) % block_size) + 1
    <2>1. q \in 1 .. CantidadBloques(size) /\ r \in 1 .. UnidadesDe(size, q)
          /\ CantidadBloques(size) \in Nat /\ UnidadesDe(size, q) \in Nat
      BY <1>1, BloquesOK
    <2> HIDE DEF q, r, size
    <2>2. q \in 1 .. Len(md.blocks)
      BY <1>1, <1>2, <2>1
    <2>3. md.blocks[q] \in Bloques
      BY <1>1, <2>2
    <2>4. bloque[md.blocks[q]] \in Seq(Unidad)
      BY <2>3
    <2>5. r \in 1 .. Len(bloque[md.blocks[q]])
      BY <1>2, <2>1, <2>4
    <2>6. bloque[md.blocks[q]][r] \in Unidad
      BY <2>4, <2>5
    <2> QED BY <2>6 DEF q, r
  <1>4. get_contenido_bloques(md) = [n \in 1 .. size |-> u(n)]
    BY DEF get_contenido_bloques
  <1>5. size \in Nat
    BY <1>1
  <1> HIDE DEF u, size
  <1>6. get_contenido_bloques(md) \in Seq(Unidad) /\ Len(get_contenido_bloques(md)) = size
    BY <1>5, <1>3, <1>4
  <1> QED BY <1>6 DEF size

LEMMA CargadasOK ==
    ASSUME bloque \in [Bloques -> Seq(Unidad)], NEW md \in Metadata, Legible(md)
    PROVE  Cargadas(md) \in Seq(Viva)
  <1>1. CASE md.size = 0
    BY <1>1 DEF Cargadas
  <1>2. CASE md.size # 0
    <2>1. md.size > 0
      BY <1>2 DEF Metadata
    <2> QED BY <1>2, <2>1, LegibleOK, ObtenerOK DEF Cargadas
  <1> QED BY <1>1, <1>2

(***************************************************************************)
(* The positions of a file                                                 *)
(***************************************************************************)
LEMMA MinOK ==
    ASSUME NEW T, T \subseteq Nat, T # {}
    PROVE  Min(T) \in T /\ \A y \in T : Min(T) <= y
  BY MinimoOK DEF Min

LEMMA DondeEstaOK ==
    ASSUME NEW ps \in Seq(Viva), NEW q
    PROVE  \/ /\ DondeEsta(ps, q) = 0
              /\ \A n \in 1 .. Len(ps) : ps[n].pos # q
           \/ /\ DondeEsta(ps, q) \in 1 .. Len(ps)
              /\ ps[DondeEsta(ps, q)].pos = q
  <1> DEFINE T == {n \in 1 .. Len(ps) : ps[n].pos = q}
  <1>1. DondeEsta(ps, q) = IF T # {} THEN Min(T) ELSE 0
    BY DEF DondeEsta, SelectInSeq
  <1>2. T \subseteq Nat
    OBVIOUS
  <1>3. CASE T = {}
    BY <1>1, <1>3
  <1>4. CASE T # {}
    <2>1. Min(T) \in T
      <3> HIDE DEF T
      <3> QED BY <1>2, <1>4, MinOK
    <2> QED BY <1>1, <1>4, <2>1
  <1> QED BY <1>3, <1>4

\* No position is twice in a file.
Distintas(ps) == \A n, m \in 1 .. Len(ps) : ps[n].pos = ps[m].pos => n = m

\* The pokemon at position q.
Cuanto(ps, q) == IF DondeEsta(ps, q) = 0 THEN 0 ELSE ps[DondeEsta(ps, q)].cantidad

LEMMA CuantoOK ==
    ASSUME NEW ps \in Seq(Viva), Distintas(ps), NEW q
    PROVE  /\ Cuanto(ps, q) \in Nat
           /\ \A n \in 1 .. Len(ps) : ps[n].pos = q => Cuanto(ps, q) = ps[n].cantidad
           /\ (\A n \in 1 .. Len(ps) : ps[n].pos # q) => Cuanto(ps, q) = 0
           /\ Cuanto(ps, q) > 0 <=> DondeEsta(ps, q) # 0
  <1>1. \A n \in 1 .. Len(ps) : ps[n] \in Viva
    OBVIOUS
  <1>2. \A n \in 1 .. Len(ps) : ps[n].cantidad \in Nat /\ ps[n].cantidad > 0
    BY <1>1 DEF Viva
  <1>3. CASE DondeEsta(ps, q) = 0
    BY <1>3, DondeEstaOK DEF Cuanto
  <1>4. CASE DondeEsta(ps, q) # 0
    <2> DEFINE k == DondeEsta(ps, q)
    <2>1. k \in 1 .. Len(ps) /\ ps[k].pos = q
      BY <1>4, DondeEstaOK
    <2>2. Cuanto(ps, q) = ps[k].cantidad
      BY <1>4 DEF Cuanto
    <2> HIDE DEF k
    <2>3. \A n \in 1 .. Len(ps) : ps[n].pos = q => n = k
      BY <2>1 DEF Distintas
    <2>4. k # 0
      BY <2>1
    <2> QED BY <1>2, <2>1, <2>2, <2>3, <2>4 DEF k
  <1> QED BY <1>3, <1>4

\* NEW: so many more at its position, and no position twice.
LEMMA ActualizarOK ==
    ASSUME NEW ps \in Seq(Viva), Distintas(ps), NEW pos \in Posiciones, NEW d \in Nat \ {0}
    PROVE  LET rs == actualizar_posiciones_archivo(ps, pos, d)
           IN  /\ rs \in Seq(Viva) /\ Distintas(rs)
               /\ \A q : Cuanto(rs, q) = IF q = pos THEN Cuanto(ps, q) + d ELSE Cuanto(ps, q)
  <1> DEFINE rs == actualizar_posiciones_archivo(ps, pos, d)
             k == DondeEsta(ps, pos)
             l == Len(ps)
  <1>1. l \in Nat /\ \A n \in 1 .. l : ps[n] \in Viva
    OBVIOUS
  <1>2. CASE k # 0
    <2>1. k \in 1 .. l /\ ps[k].pos = pos
      BY <1>2, DondeEstaOK
    <2>2. rs = [ps EXCEPT ![k].cantidad = @ + d]
      BY <1>2 DEF actualizar_posiciones_archivo, existe_posicion_en_archivo, modificar_posicion_en_archivo
    <2> DEFINE r == [ps[k] EXCEPT !.cantidad = @ + d]
    <2>3. r \in Viva /\ r.pos = pos /\ r.cantidad = ps[k].cantidad + d
      BY <1>1, <2>1 DEF Viva
    <2>4. rs = [ps EXCEPT ![k] = r]
      BY <2>2
    <2> HIDE DEF r, rs, k
    <2>5. rs \in Seq(Viva) /\ Len(rs) = l /\ rs[k] = r /\ \A n \in 1 .. l : n # k => rs[n] = ps[n]
      BY <2>1, <2>3, <2>4
    <2> HIDE DEF l
    <2>6. \A n \in 1 .. l : rs[n].pos = ps[n].pos
      BY <2>1, <2>3, <2>5
    <2>7. Distintas(rs)
      BY <2>5, <2>6 DEF Distintas, l
    <2>8. ASSUME NEW q PROVE Cuanto(rs, q) = IF q = pos THEN Cuanto(ps, q) + d ELSE Cuanto(ps, q)
      <3>1. CASE q = pos
        <4>1. Cuanto(ps, q) = ps[k].cantidad /\ Cuanto(rs, q) = rs[k].cantidad
          BY <2>1, <2>3, <2>5, <2>7, <3>1, CuantoOK DEF l
        <4> QED BY <2>3, <2>5, <3>1, <4>1
      <3>2. CASE q # pos
        <4>1. CASE \E n \in 1 .. l : ps[n].pos = q
          <5>1. PICK n \in 1 .. l : ps[n].pos = q
            BY <4>1
          <5>2. n # k /\ rs[n] = ps[n]
            BY <2>1, <2>5, <3>2, <5>1
          <5>3. Cuanto(ps, q) = ps[n].cantidad /\ Cuanto(rs, q) = rs[n].cantidad
            BY <2>5, <2>6, <2>7, <5>1, CuantoOK DEF l
          <5> QED BY <3>2, <5>2, <5>3
        <4>2. CASE ~\E n \in 1 .. l : ps[n].pos = q
          <5>1. Cuanto(ps, q) = 0 /\ Cuanto(rs, q) = 0
            BY <2>5, <2>6, <2>7, <4>2, CuantoOK DEF l
          <5> QED BY <3>2, <5>1
        <4> QED BY <4>1, <4>2
      <3> QED BY <3>1, <3>2
    <2> QED BY <2>5, <2>7, <2>8 DEF rs
  <1>3. CASE k = 0
    <2> DEFINE r == [pos |-> pos, cantidad |-> d]
    <2>1. rs = Append(ps, r)
      BY <1>3 DEF actualizar_posiciones_archivo, existe_posicion_en_archivo, agregar_nueva_posicion_en_archivo
    <2>2. \A n \in 1 .. l : ps[n].pos # pos
      BY <1>3, DondeEstaOK
    <2>3. r \in Viva /\ r.pos = pos /\ r.cantidad = d
      BY DEF Viva
    <2> HIDE DEF r, rs, k
    <2>4. rs \in Seq(Viva) /\ Len(rs) = l + 1 /\ rs[l + 1] = r /\ \A n \in 1 .. l : rs[n] = ps[n]
      BY <1>1, <2>1, <2>3
    <2> HIDE DEF l
    <2>5. \A n \in 1 .. l + 1 : n = l + 1 \/ n \in 1 .. l
      BY <1>1
    <2>6. Distintas(rs)
      BY <2>2, <2>3, <2>4, <2>5 DEF Distintas, l
    <2>7. ASSUME NEW q PROVE Cuanto(rs, q) = IF q = pos THEN Cuanto(ps, q) + d ELSE Cuanto(ps, q)
      <3>1. CASE q = pos
        <4>1. Cuanto(ps, q) = 0
          BY <2>2, <3>1, CuantoOK DEF l
        <4>2. l + 1 \in 1 .. Len(rs)
          BY <1>1, <2>4
        <4>3. Cuanto(rs, q) = rs[l + 1].cantidad
          BY <2>3, <2>4, <2>6, <4>2, <3>1, CuantoOK
        <4> QED BY <2>3, <2>4, <3>1, <4>1, <4>3
      <3>2. CASE q # pos
        <4>1. CASE \E n \in 1 .. l : ps[n].pos = q
          <5>1. PICK n \in 1 .. l : ps[n].pos = q
            BY <4>1
          <5>2. rs[n] = ps[n] /\ n \in 1 .. l + 1
            BY <1>1, <2>4, <5>1
          <5>3. Cuanto(ps, q) = ps[n].cantidad /\ Cuanto(rs, q) = rs[n].cantidad
            BY <2>4, <2>6, <5>1, <5>2, CuantoOK DEF l
          <5> QED BY <3>2, <5>2, <5>3
        <4>2. CASE ~\E n \in 1 .. l : ps[n].pos = q
          <5>1. \A n \in 1 .. Len(rs) : rs[n].pos # q
            BY <2>3, <2>4, <2>5, <3>2, <4>2
          <5>2. Cuanto(ps, q) = 0 /\ Cuanto(rs, q) = 0
            BY <2>4, <2>6, <4>2, <5>1, CuantoOK DEF l
          <5> QED BY <3>2, <5>2
        <4> QED BY <4>1, <4>2
      <3> QED BY <3>1, <3>2
    <2> QED BY <2>4, <2>6, <2>7 DEF rs
  <1> QED BY <1>2, <1>3

\* CATCH: one less at its position, which goes with the last.
LEMMA EliminarOK ==
    ASSUME NEW ps \in Seq(Viva), Distintas(ps), NEW pos, existe_posicion_en_archivo(ps, pos)
    PROVE  LET rs == eliminar_posicion_en_archivo(ps, pos)
           IN  /\ rs \in Seq(Viva) /\ Distintas(rs)
               /\ \A q : Cuanto(rs, q) = IF q = pos THEN Cuanto(ps, q) - 1 ELSE Cuanto(ps, q)
  <1> DEFINE rs == eliminar_posicion_en_archivo(ps, pos)
             k == DondeEsta(ps, pos)
             l == Len(ps)
  <1>1. l \in Nat /\ (\A n \in 1 .. l : ps[n] \in Viva) /\ DOMAIN ps = 1 .. l
    OBVIOUS
  <1>2. k \in 1 .. l /\ ps[k].pos = pos
    BY DondeEstaOK DEF existe_posicion_en_archivo
  <1>3. ps[k].cantidad \in Nat \ {0} /\ Cuanto(ps, pos) = ps[k].cantidad
    <2> HIDE DEF k
    <2>1. ps[k] \in Viva
      BY <1>1, <1>2
    <2>2. Cuanto(ps, pos) = ps[k].cantidad
      BY <1>2, CuantoOK
    <2> QED BY <2>1, <2>2 DEF Viva
  <1>4. rs = IF ps[k].cantidad = 1 THEN RemoveAt(ps, k) ELSE [ps EXCEPT ![k].cantidad = @ - 1]
    BY DEF eliminar_posicion_en_archivo
  <1>5. CASE ps[k].cantidad # 1
    <2> DEFINE r == [ps[k] EXCEPT !.cantidad = @ - 1]
    <2>1. r \in Viva /\ r.pos = pos /\ r.cantidad = ps[k].cantidad - 1
      BY <1>1, <1>2, <1>3, <1>5 DEF Viva
    <2>2. rs = [ps EXCEPT ![k] = r]
      BY <1>4, <1>5
    <2> HIDE DEF r, rs, k
    <2>3. rs \in Seq(Viva) /\ Len(rs) = l /\ rs[k] = r /\ \A n \in 1 .. l : n # k => rs[n] = ps[n]
      BY <1>2, <2>1, <2>2
    <2> HIDE DEF l
    <2>4. \A n \in 1 .. l : rs[n].pos = ps[n].pos
      BY <1>2, <2>1, <2>3
    <2>5. Distintas(rs)
      BY <2>3, <2>4 DEF Distintas, l
    <2>6. ASSUME NEW q PROVE Cuanto(rs, q) = IF q = pos THEN Cuanto(ps, q) - 1 ELSE Cuanto(ps, q)
      <3>1. CASE q = pos
        <4>1. Cuanto(rs, q) = rs[k].cantidad
          BY <1>2, <2>1, <2>3, <2>5, <3>1, CuantoOK DEF l
        <4> QED BY <1>3, <2>1, <2>3, <3>1, <4>1
      <3>2. CASE q # pos
        <4>1. CASE \E n \in 1 .. l : ps[n].pos = q
          <5>1. PICK n \in 1 .. l : ps[n].pos = q
            BY <4>1
          <5>2. n # k /\ rs[n] = ps[n]
            BY <1>2, <2>3, <3>2, <5>1
          <5>3. Cuanto(ps, q) = ps[n].cantidad /\ Cuanto(rs, q) = rs[n].cantidad
            BY <2>3, <2>4, <2>5, <5>1, CuantoOK DEF l
          <5> QED BY <3>2, <5>2, <5>3
        <4>2. CASE ~\E n \in 1 .. l : ps[n].pos = q
          <5>1. Cuanto(ps, q) = 0 /\ Cuanto(rs, q) = 0
            BY <2>3, <2>4, <2>5, <4>2, CuantoOK DEF l
          <5> QED BY <3>2, <5>1
        <4> QED BY <4>1, <4>2
      <3> QED BY <3>1, <3>2
    <2> QED BY <2>3, <2>5, <2>6 DEF rs
  <1>6. CASE ps[k].cantidad = 1
    <2>1. rs = SubSeq(ps, 1, k - 1) \o SubSeq(ps, k + 1, Len(ps))
      BY <1>4, <1>6 DEF RemoveAt
    <2> HIDE DEF rs, k
    <2>2. rs \in Seq(Viva) /\ Len(rs) = l - 1
          /\ \A n \in 1 .. l - 1 : rs[n] = IF n < k THEN ps[n] ELSE ps[n + 1]
      BY <1>1, <1>2, <2>1, SinElementoOK
    <2> DEFINE v(n) == IF n < k THEN n ELSE n + 1
    <2> HIDE DEF l
    <2>3. \A n \in 1 .. l - 1 : v(n) \in 1 .. l /\ v(n) # k /\ rs[n] = ps[v(n)]
      BY <1>1, <1>2, <2>2
    <2>4. \A n, m \in 1 .. l - 1 : v(n) = v(m) => n = m
      BY <1>1, <1>2
    <2>5. \A n \in 1 .. l : n # k => \E m \in 1 .. l - 1 : v(m) = n
      <3> SUFFICES ASSUME NEW n \in 1 .. l, n # k PROVE \E m \in 1 .. l - 1 : v(m) = n
        OBVIOUS
      <3>1. CASE n < k
        <4>1. n \in 1 .. l - 1 /\ v(n) = n
          BY <1>1, <1>2, <3>1
        <4> QED BY <4>1
      <3>2. CASE n > k
        <4>1. n - 1 \in 1 .. l - 1 /\ v(n - 1) = n
          BY <1>1, <1>2, <3>2
        <4> QED BY <4>1
      <3> QED BY <1>1, <1>2, <3>1, <3>2
    <2> HIDE DEF v
    <2>6. Distintas(rs)
      <3>1. ASSUME NEW n \in 1 .. l - 1, NEW m \in 1 .. l - 1, rs[n].pos = rs[m].pos PROVE n = m
        <4>1. v(n) \in 1 .. l /\ v(m) \in 1 .. l /\ ps[v(n)].pos = ps[v(m)].pos
          BY <2>3, <3>1
        <4>2. v(n) = v(m)
          BY <4>1 DEF Distintas, l
        <4> QED BY <2>4, <4>2
      <3> QED BY <2>2, <3>1 DEF Distintas
    <2>7. ASSUME NEW q PROVE Cuanto(rs, q) = IF q = pos THEN Cuanto(ps, q) - 1 ELSE Cuanto(ps, q)
      <3>1. CASE q = pos
        <4>1. ASSUME NEW n \in 1 .. Len(rs) PROVE rs[n].pos # q
          <5>1. v(n) \in 1 .. l /\ v(n) # k /\ rs[n] = ps[v(n)]
            BY <2>2, <2>3, <4>1
          <5> QED BY <1>2, <3>1, <5>1 DEF Distintas, l
        <4>2. Cuanto(rs, q) = 0
          BY <2>2, <2>6, <4>1, CuantoOK
        <4> QED BY <1>3, <1>6, <3>1, <4>2
      <3>2. CASE q # pos
        <4>1. CASE \E n \in 1 .. l : ps[n].pos = q
          <5>1. PICK n \in 1 .. l : ps[n].pos = q
            BY <4>1
          <5>2. PICK m \in 1 .. l - 1 : v(m) = n
            BY <1>2, <2>5, <3>2, <5>1
          <5>3. rs[m] = ps[n] /\ m \in 1 .. Len(rs)
            BY <2>2, <2>3, <5>2
          <5>4. Cuanto(ps, q) = ps[n].cantidad
            BY <5>1, CuantoOK DEF l
          <5>5. Cuanto(rs, q) = rs[m].cantidad
            BY <2>2, <2>6, <5>1, <5>3, CuantoOK
          <5> QED BY <3>2, <5>3, <5>4, <5>5
        <4>2. CASE ~\E n \in 1 .. l : ps[n].pos = q
          <5>1. \A n \in 1 .. Len(rs) : rs[n].pos # q
            BY <2>2, <2>3, <4>2
          <5>2. Cuanto(ps, q) = 0
            BY <4>2, CuantoOK DEF l
          <5>3. Cuanto(rs, q) = 0
            BY <2>2, <2>6, <5>1, CuantoOK
          <5> QED BY <3>2, <5>2, <5>3
        <4> QED BY <4>1, <4>2
      <3> QED BY <3>1, <3>2
    <2> QED BY <2>2, <2>6, <2>7 DEF rs
  <1> QED BY <1>5, <1>6

\* What the positions add up to: PokemonAbstracto counts the pokemon one by one.
LEMMA SumaCuanto ==
    ASSUME NEW ps \in Seq(Viva), Distintas(ps)
    PROVE  Suma(ps) = [q \in Posiciones |-> Cuanto(ps, q)]
  <1> SUFFICES ASSUME NEW q \in Posiciones PROVE Suma(ps)[q] = Cuanto(ps, q)
    BY DEF Suma
  <1> DEFINE M == {m \in DOMAIN ps : ps[m].pos = q}
             c(n) == {n} \X (1 .. ps[n].cantidad)
             U == UNION {c(n) : n \in M}
  <1>1. Suma(ps)[q] = Cardinality(U)
    BY DEF Suma
  <1>2. \A n \in 1 .. Len(ps) : ps[n] \in Viva
    OBVIOUS
  <1>3. CASE M = {}
    <2>1. U = {}
      BY <1>3
    <2>2. Cuanto(ps, q) = 0
      BY <1>3, CuantoOK
    <2> QED BY <1>1, <2>1, <2>2, FS_EmptySet
  <1>4. CASE M # {}
    <2>1. PICK k \in M : TRUE
      BY <1>4
    <2>2. k \in 1 .. Len(ps) /\ ps[k].pos = q /\ M = {k}
      BY <2>1 DEF Distintas
    <2>3. U = c(k)
      BY <2>2
    <2> DEFINE n == ps[k].cantidad
    <2>4. n \in Nat /\ Cuanto(ps, q) = n
      <3>1. ps[k] \in Viva
        BY <1>2, <2>2
      <3>2. Cuanto(ps, q) = n
        BY <2>2, CuantoOK
      <3> QED BY <3>1, <3>2 DEF Viva
    <2>5. U = {k} \X (1 .. n)
      BY <2>3
    <2> HIDE DEF n, U
    <2>6. IsFiniteSet({k}) /\ Cardinality({k}) = 1 /\ IsFiniteSet(1 .. n) /\ Cardinality(1 .. n) = n
      <3>1. IsFiniteSet(1 .. n) /\ Cardinality(1 .. n) = IF 1 > n THEN 0 ELSE n - 1 + 1
        BY <2>4, FS_Interval
      <3>2. IsFiniteSet({k}) /\ Cardinality({k}) = 1
        BY FS_Singleton
      <3>3. (IF 1 > n THEN 0 ELSE n - 1 + 1) = n
        BY <2>4
      <3> QED BY <3>1, <3>2, <3>3
    <2>7. Cardinality({k} \X (1 .. n)) = 1 * n
      BY <2>6, FS_Product
    <2> QED BY <1>1, <2>4, <2>5, <2>7
  <1> QED BY <1>3, <1>4

\* The pieces that hold these positions: none when there is no position.
Trozos(ps) == IF ps = <<>> THEN <<>> ELSE Partes(serializar_lista_posiciones_pokemon(ps))

LEMMA TrozosOK ==
    ASSUME NEW ps \in Seq(Viva)
    PROVE  /\ Trozos(ps) \in Seq(Seq(Unidad))
           /\ ps # <<>> => Trozos(ps) # <<>>
           /\ \A n \in 1 .. Len(Trozos(ps)) : Trozos(ps)[n] \in Seq(Unidad)
  <1>1. CASE ps = <<>>
    BY <1>1 DEF Trozos
  <1>2. CASE ps # <<>>
    <2> DEFINE texto == serializar_lista_posiciones_pokemon(ps)
               t == Partes(texto)
    <2>1. texto \in Seq(Unidad) /\ Len(texto) \in Nat
      BY TextoOK
    <2> HIDE DEF texto
    <2>2. t \in Seq(Seq(Unidad)) /\ Len(t) = CantidadBloques(Len(texto))
      BY <2>1, PartesOK
    <2>3. CantidadBloques(Len(texto)) \in Nat \ {0}
      BY <2>1, BloquesOK
    <2>4. Trozos(ps) = t
      BY <1>2 DEF Trozos, texto
    <2> HIDE DEF t
    <2>5. t # <<>> /\ \A n \in 1 .. Len(t) : t[n] \in Seq(Unidad)
      BY <2>2, <2>3
    <2> QED BY <2>2, <2>4, <2>5
  <1> QED BY <1>1, <1>2

\* These blocks, whose contents are those of f, hold these positions.
Guardan(f, blocks, ps) ==
    /\ Len(blocks) = Len(Trozos(ps))
    /\ \A n \in 1 .. Len(blocks) : f[blocks[n]] = Trozos(ps)[n]

\* The positions that are read of a file, whatever its blocks hold.
Leidas(f, md) ==
    IF md.size = 0 THEN <<>>
    ELSE obtener_posiciones([n \in 1 .. md.size |->
           f[md.blocks[((n - 1) \div block_size) + 1]][((n - 1) % block_size) + 1]])

\* A file of that size whose blocks hold some positions is read as those positions.
LEMMA LeidoOK ==
    ASSUME NEW f, NEW md \in Metadata, NEW ps \in Seq(Viva), md.size = Largo * Len(ps), Guardan(f, md.blocks, ps)
    PROVE  Leidas(f, md) = ps
  <1> DEFINE texto == serializar_lista_posiciones_pokemon(ps)
             size == md.size
  <1>1. Largo \in Nat \ {0} /\ Len(ps) \in Nat /\ size = Largo * Len(ps)
    BY TallGrassAssumption
  <1>2. CASE ps = <<>>
    <2>1. size = 0
      BY <1>1, <1>2
    <2> QED BY <1>2, <2>1 DEF Leidas
  <1>3. CASE ps # <<>>
    <2>1. texto \in Seq(Unidad) /\ Len(texto) = size
      BY TextoOK
    <2>2. size \in Nat \ {0}
      BY <1>1, <1>3
    <2> DEFINE t == Partes(texto)
               c == CantidadBloques(size)
    <2>3. /\ Len(t) = c /\ c \in Nat
          /\ \A n \in 1 .. c : \A k \in 1 .. UnidadesDe(size, n) :
                t[n][k] = texto[(n - 1) * block_size + k]
      <3>1. c \in Nat
        BY <2>2, BloquesOK
      <3> HIDE DEF texto, size
      <3> QED BY <2>1, <3>1, PartesOK
    <2>4. Len(md.blocks) = c /\ \A n \in 1 .. c : f[md.blocks[n]] = t[n]
      <3>1. Trozos(ps) = t
        BY <1>3 DEF Trozos
      <3> HIDE DEF t, c, texto
      <3> QED BY <2>3, <3>1 DEF Guardan
    <2> DEFINE u(n) == f[md.blocks[((n - 1) \div block_size) + 1]][((n - 1) % block_size) + 1]
    <2>5. ASSUME NEW n \in 1 .. size PROVE u(n) = texto[n]
      <3> DEFINE q == (n - 1) \div block_size
                 r == (n - 1) % block_size
      <3>1. q + 1 \in 1 .. c /\ r + 1 \in 1 .. UnidadesDe(size, q + 1) /\ n = q * block_size + (r + 1)
        BY <2>2, BloquesOK
      <3>2. q \in Int
        BY TallGrassAssumption
      <3> HIDE DEF q, r, c, t, texto, size
      <3>3. PICK e \in 1 .. c : e = q + 1 /\ e - 1 = q
        BY <2>3, <3>1, <3>2
      <3>4. t[e][r + 1] = texto[(e - 1) * block_size + (r + 1)]
        BY <2>3, <3>1, <3>3
      <3>5. (e - 1) * block_size + (r + 1) = n
        BY <3>1, <3>3
      <3>6. f[md.blocks[e]][r + 1] = texto[n]
        BY <2>4, <3>4, <3>5
      <3> QED BY <3>3, <3>6 DEF q, r
    <2>6. [n \in 1 .. size |-> u(n)] = texto
      <3>1. texto = [n \in 1 .. size |-> texto[n]]
        <4> HIDE DEF texto, size
        <4> QED BY <2>1, <2>2
      <3> HIDE DEF u, texto, size
      <3> QED BY <2>5, <3>1
    <2>7. Leidas(f, md) = obtener_posiciones(texto)
      BY <2>2, <2>6 DEF Leidas
    <2> QED BY <2>7, IdaYVuelta
  <1> QED BY <1>2, <1>3

\* A whole file: its size and its blocks are those of the positions that are read of it.
EsArchivo(f, md) ==
    /\ Leidas(f, md) \in Seq(Viva)
    /\ Distintas(Leidas(f, md))
    /\ md.size = Largo * Len(Leidas(f, md))
    /\ Guardan(f, md.blocks, Leidas(f, md))

\* It is the file of these positions.
LEMMA EscritoOK ==
    ASSUME NEW f, NEW md \in Metadata, NEW ps \in Seq(Viva), Distintas(ps),
           md.size = Largo * Len(ps), Guardan(f, md.blocks, ps)
    PROVE  EsArchivo(f, md) /\ Leidas(f, md) = ps
  BY LeidoOK DEF EsArchivo

\* It stays so while its blocks are let alone.
LEMMA IntactoOK ==
    ASSUME NEW f, NEW g, NEW md \in Metadata, EsArchivo(f, md),
           \A n \in 1 .. Len(md.blocks) : g[md.blocks[n]] = f[md.blocks[n]]
    PROVE  EsArchivo(g, md) /\ Leidas(g, md) = Leidas(f, md)
  <1> DEFINE ps == Leidas(f, md)
  <1>1. ps \in Seq(Viva) /\ Distintas(ps) /\ md.size = Largo * Len(ps) /\ Guardan(f, md.blocks, ps)
    BY DEF EsArchivo
  <1> HIDE DEF ps
  <1>2. Guardan(g, md.blocks, ps)
    BY <1>1 DEF Guardan
  <1>3. EsArchivo(g, md) /\ Leidas(g, md) = ps
    BY <1>1, <1>2, EscritoOK
  <1> QED BY <1>3 DEF ps

(***************************************************************************)
(* The answers                                                             *)
(***************************************************************************)
SinDecidir == {"fuera", "existe", "lista", "open", "encolar", "encolado", "trabar", "abrir",
               "anotar", "leer", "crear", "truncar", "metadata"}

\* A thread has no answer until it has read its file, or stored it, and what it
\* sends has not been sent before.
Respuestas ==
    \A i \in Ids :
        /\ hilo[i].pc \in SinDecidir => ~EstaModificando(i)
        /\ hilo[i].pc = "enviar" =>
              EstaModificando(i) /\ hilo[i].resultado.tipo # "VACIO" /\ i \notin enviada
        /\ i \in enviada => hilo[i].pc = "fin"

LEMMA RespuestaDe ==
    ASSUME Respuestas, NEW i \in Ids, Solo(i), enviada' \subseteq enviada \cup {i}, enviada \subseteq enviada',
           hilo'[i].pc \in SinDecidir => ~EstaModificando(i)',
           hilo'[i].pc = "enviar" =>
              EstaModificando(i)' /\ hilo'[i].resultado.tipo # "VACIO" /\ i \notin enviada',
           i \in enviada' => hilo'[i].pc = "fin"
    PROVE  Respuestas'
  <1>1. \A j \in Ids : j # i => (EstaModificando(j)' <=> EstaModificando(j))
    BY DEF Solo, EstaModificando
  <1> QED BY <1>1 DEF Respuestas, Solo

\* What reading a file does to its thread.
LEMMA LeerHilo ==
    ASSUME DOMAIN hilo = Ids, NEW i \in Ids, LeerArchivo(i), ~UNCHANGED hilo
    PROVE  LET md == metadata[Pokemon(i)]
               decidido == Decision(msj[i], Cargadas(md))
           IN  /\ Legible(md)
               /\ hilo' = [hilo EXCEPT ![i] =
                     [hilo[i] EXCEPT !.pc = IF decidido.resultado.tipo \in {"APPEARED", "OK"}
                                            THEN "liberar" ELSE "quitar",
                                     !.blocks = md.blocks,
                                     !.posiciones = decidido.posiciones,
                                     !.resultado = decidido.resultado]]
  BY DEF LeerArchivo

LEMMA LeerSolo ==
    ASSUME Registros, NEW i \in Ids, LeerArchivo(i), ~UNCHANGED hilo
    PROVE  Solo(i) /\ hilo'[i].pc \in {"liberar", "quitar"}
  <1> DEFINE d == Decision(msj[i], Cargadas(metadata[Pokemon(i)]))
             r == [hilo[i] EXCEPT !.pc = IF d.resultado.tipo \in {"APPEARED", "OK"}
                                         THEN "liberar" ELSE "quitar",
                                  !.blocks = metadata[Pokemon(i)].blocks,
                                  !.posiciones = d.posiciones,
                                  !.resultado = d.resultado]
  <1>1. hilo' = [hilo EXCEPT ![i] = r]
    BY LeerHilo DEF Registros
  <1> HIDE DEF d
  <1>2. r.pc \in {"liberar", "quitar"} /\ {"pc", "resultado"} \subseteq DOMAIN r
    BY DEF Registros
  <1> HIDE DEF r
  <1> QED BY <1>1, <1>2 DEF Solo, Registros

\* What the steps on an open file, and those of a creation, do to their thread.
LEMMA TrabajoHilo ==
    ASSUME Registros, NEW i \in Ids,
           \/ LiberarBloque(i) \/ Recortar(i) \/ Crear(i) \/ GrabarBloque(i) \/ SinBloques(i)
           \/ EscribirBlocks(i) \/ EscribirSize(i) \/ QuitarDeLista(i) \/ Enviar(i)
    PROVE  /\ Solo(i) /\ hilo'[i].resultado = hilo[i].resultado
           /\ \/ hilo[i].pc = "liberar" /\ hilo'[i].pc \in {"liberar", "grabar", "blocks"}
              \/ hilo[i].pc = "crear" /\ hilo'[i].pc = "grabar"
              \/ hilo[i].pc = "grabar" /\ hilo'[i].pc \in {"grabar", "muerto"}
              \/ hilo[i].pc = "grabar" /\ hilo'[i].pc = "blocks" /\ EstaModificando(i)
              \/ hilo[i].pc = "grabar" /\ hilo'[i].pc = "truncar" /\ ~EstaModificando(i)
              \/ hilo[i].pc = "blocks" /\ hilo'[i].pc = "size"
              \/ hilo[i].pc = "size" /\ hilo'[i].pc = "quitar"
              \/ hilo[i].pc = "quitar" /\ hilo'[i].pc = "cerrar"
              \/ hilo[i].pc = "enviar" /\ hilo'[i].pc = "fin"
  <1>1. CASE LiberarBloque(i)
    BY <1>1 DEF LiberarBloque, En, Solo, Registros
  <1>2. CASE Recortar(i)
    BY <1>2 DEF Recortar, En, Solo, Registros
  <1>3. CASE Crear(i)
    BY <1>3 DEF Crear, En, Solo, Registros
  <1>4. CASE GrabarBloque(i)
    BY <1>4 DEF GrabarBloque, En, Solo, Registros
  <1>5. ASSUME NEW pc, IrA(i, pc) PROVE Solo(i) /\ hilo'[i].pc = pc /\ hilo'[i].resultado = hilo[i].resultado
    BY <1>5, IrAOK DEF VaA
  <1>6. CASE SinBloques(i) \/ EscribirBlocks(i) \/ EscribirSize(i) \/ QuitarDeLista(i) \/ Enviar(i)
    BY <1>5, <1>6 DEF SinBloques, EscribirBlocks, EscribirSize, QuitarDeLista, Enviar, En
  <1> QED BY <1>1, <1>2, <1>3, <1>4, <1>6

LEMMA RespuestasOK ==
    ASSUME IInv, IInv', Respuestas, NEW i \in Ids, Recibir(i) \/ Paso(i)
    PROVE  Respuestas'
  <1>1. CASE UNCHANGED hilo
    <2>1. UNCHANGED enviada
      BY <1>1 DEF Recibir, Buscar, Paso, Existe, EstaEnLista, EstaAbierto, encolar_operacion_tallgrass, Trabar,
         MarcarAbierto, AnotarAbierto, LeerArchivo, LiberarBloque, Recortar, Crear, GrabarBloque, SinBloques,
         EscribirBlocks, EscribirSize, QuitarDeLista, Cerrar, Truncar, GrabarMetadata, Enviar, IrA, En, IInv, Registros
    <2> QED BY <1>1, <2>1 DEF Respuestas, EstaModificando
  <1>2. ASSUME NEW pc, IrA(i, pc), UNCHANGED enviada, i \notin enviada,
               pc \in SinDecidir => ~EstaModificando(i),
               pc = "enviar" => EstaModificando(i) /\ hilo[i].resultado.tipo # "VACIO"
        PROVE  Respuestas'
    <2>1. Solo(i) /\ VaA(i, pc)
      BY <1>2, IrAOK DEF IInv
    <2> QED BY <1>2, <2>1, RespuestaDe DEF VaA, EstaModificando
  <1>3. hilo[i].pc # "fin" => i \notin enviada
    BY DEF Respuestas
  <1>4. CASE Recibir(i) \/ Existe(i)
    <2>1. hilo[i].pc \in {"fuera", "existe"} /\ UNCHANGED enviada
          /\ \E pc \in {"lista", "crear", "fin"} : IrA(i, pc)
      BY <1>4 DEF Recibir, Existe, Buscar, En
    <2>2. ~EstaModificando(i)
      BY <2>1 DEF Respuestas, SinDecidir
    <2> QED BY <1>2, <1>3, <2>1, <2>2
  <1>5. CASE EstaEnLista(i) \/ EstaAbierto(i) \/ encolar_operacion_tallgrass(i) \/ Trabar(i)
             \/ MarcarAbierto(i) \/ AnotarAbierto(i)
    <2>1. hilo[i].pc \in {"lista", "open", "encolar", "trabar", "abrir", "anotar"} /\ UNCHANGED enviada
          /\ (UNCHANGED hilo
              \/ \E pc \in {"encolar", "open", "trabar", "encolado", "abrir", "anotar", "leer"} : IrA(i, pc))
      BY <1>5 DEF EstaEnLista, EstaAbierto, encolar_operacion_tallgrass, Trabar, MarcarAbierto, AnotarAbierto, En
    <2>2. ~EstaModificando(i)
      BY <2>1 DEF Respuestas, SinDecidir
    <2> QED BY <1>1, <1>2, <1>3, <2>1, <2>2
  <1>6. CASE LeerArchivo(i)
    <2>1. (Solo(i) /\ hilo'[i].pc \in {"liberar", "quitar"}) \/ UNCHANGED hilo
      BY <1>6, LeerSolo DEF IInv
    <2>2. hilo[i].pc = "leer" /\ UNCHANGED enviada
      BY <1>6 DEF LeerArchivo, En
    <2>3. CASE Solo(i) /\ hilo'[i].pc \in {"liberar", "quitar"}
      BY <1>3, <2>2, <2>3, RespuestaDe DEF SinDecidir
    <2> QED BY <1>1, <2>1, <2>3
  <1>7. CASE LiberarBloque(i) \/ Recortar(i) \/ Crear(i) \/ GrabarBloque(i) \/ SinBloques(i)
             \/ EscribirBlocks(i) \/ EscribirSize(i) \/ QuitarDeLista(i)
    <2>1. /\ Solo(i) /\ hilo'[i].resultado = hilo[i].resultado
          /\ hilo[i].pc \in {"liberar", "crear", "grabar", "blocks", "size", "quitar"}
          /\ hilo'[i].pc \in {"liberar", "grabar", "blocks", "truncar", "muerto", "size", "quitar", "cerrar"}
          /\ hilo'[i].pc = "truncar" => ~EstaModificando(i)
          /\ UNCHANGED enviada
      <3>1. Registros
        BY DEF IInv
      <3>2. UNCHANGED enviada
        BY <1>7 DEF LiberarBloque, Recortar, Crear, GrabarBloque, SinBloques, EscribirBlocks,
           EscribirSize, QuitarDeLista
      <3>3. hilo[i].pc # "enviar"
        BY <1>7 DEF LiberarBloque, Recortar, Crear, GrabarBloque, SinBloques, EscribirBlocks,
           EscribirSize, QuitarDeLista, En
      <3> QED BY <1>7, <3>1, <3>2, <3>3, TrabajoHilo
    <2> QED BY <1>3, <2>1, RespuestaDe DEF SinDecidir, EstaModificando
  <1>8. CASE Cerrar(i)
    <2>1. hilo[i].pc = "cerrar" /\ UNCHANGED enviada
          /\ IrA(i, IF hilo[i].resultado.tipo = "VACIO" THEN "fin" ELSE "enviar")
      BY <1>8 DEF Cerrar, En
    <2>2. EstaModificando(i)
      BY <2>1 DEF IInv, Decididos
    <2> QED BY <1>2, <1>3, <2>1, <2>2 DEF SinDecidir
  <1>9. CASE Truncar(i)
    <2>1. hilo[i].pc = "truncar" /\ UNCHANGED enviada /\ IrA(i, "metadata")
      BY <1>9 DEF Truncar, En
    <2>2. ~EstaModificando(i)
      BY <2>1 DEF Respuestas, SinDecidir
    <2> QED BY <1>2, <1>3, <2>1, <2>2
  <1>10. CASE GrabarMetadata(i)
    <2>1. /\ Solo(i) /\ hilo[i].pc = "metadata" /\ hilo'[i].pc = "enviar" /\ UNCHANGED enviada
          /\ hilo'[i].resultado = [tipo |-> "APPEARED", coord |-> SinCoord]
      BY <1>10 DEF GrabarMetadata, En, Solo, IInv, Registros
    <2>2. EstaModificando(i)' /\ hilo'[i].resultado.tipo # "VACIO"
      BY <2>1 DEF EstaModificando, Pendiente
    <2> QED BY <1>3, <2>1, <2>2, RespuestaDe DEF SinDecidir
  <1>11. CASE Enviar(i)
    <2>1. enviada' = enviada \cup ({i} \ SinBroker) /\ IrA(i, "fin")
      BY <1>11 DEF Enviar
    <2>2. Solo(i) /\ VaA(i, "fin")
      BY <2>1, IrAOK DEF IInv
    <2> QED BY <2>1, <2>2, RespuestaDe DEF VaA, SinDecidir
  <1> QED BY <1>4, <1>5, <1>6, <1>7, <1>8, <1>9, <1>10, <1>11 DEF Paso

LEMMA RespuestasNext ==
    ASSUME IInv, IInv', Respuestas, [Next]_vars
    PROVE  Respuestas'
  <1>1. CASE Reintentar
    <2> DEFINE i == Head(g_reintentos)
    <2>1. i \in Ids /\ hilo[i].pc = "encolado"
      <3>1. g_reintentos \in Seq(Ids) /\ Len(g_reintentos) \in Nat \ {0} /\ i = g_reintentos[1]
        BY <1>1 DEF Reintentar, IInv, Reintentos
      <3> QED BY <3>1 DEF IInv, Reintentos
    <2> HIDE DEF i
    <2>2. Relanzar(i) /\ UNCHANGED enviada
      BY <1>1 DEF Reintentar, i
    <2>3. Solo(i) /\ hilo'[i].pc = "existe" /\ hilo'[i].resultado = Pendiente
      BY <2>1, <2>2 DEF Relanzar, HiloNuevo, Solo, IInv, Registros
    <2>4. i \notin enviada
      BY <2>1 DEF Respuestas
    <2> QED BY <2>1, <2>2, <2>3, <2>4, RespuestaDe DEF EstaModificando
  <1>2. CASE DespertarDispatcher \/ FinDispatcher \/ UNCHANGED vars
    BY <1>2 DEF DespertarDispatcher, FinDispatcher, vars, Respuestas, EstaModificando
  <1> QED BY <1>1, <1>2, RespuestasOK DEF Next, Dispatcher

(***************************************************************************)
(* The list of open files                                                  *)
(***************************************************************************)
\* Thread i has put its pokemon on the list and has not taken it off.
Apuntado(i) == LoTieneAbierto(i) /\ hilo[i].pc \notin {"anotar", "cerrar"}

\* The list names one pokemon at most, that of a thread with its file open.
Lista ==
    \/ g_archivos_abiertos = <<>>
    \/ \E i \in Ids : Apuntado(i) /\ g_archivos_abiertos = <<Pokemon(i)>>

\* A step of thread i that lets the list alone.
LEMMA ListaIgual ==
    ASSUME Lista, NEW i \in Ids, Solo(i), UNCHANGED g_archivos_abiertos, Apuntado(i) => Apuntado(i)'
    PROVE  Lista'
  <1>1. \A j \in Ids : Apuntado(j) => Apuntado(j)'
    BY DEF Solo, Apuntado, LoTieneAbierto, SinTerminar, EstaModificando
  <1> QED BY <1>1 DEF Lista

LEMMA Quitada ==
    ASSUME Lista, NEW p, quitar_de_lista_archivos_abiertos(p)
    PROVE  /\ g_archivos_abiertos' \in {<<>>, g_archivos_abiertos}
           /\ g_archivos_abiertos = <<p>> => g_archivos_abiertos' = <<>>
  <1> DEFINE g == g_archivos_abiertos
             k == SelectInSeq(g, LAMBDA q : q = p)
  <1>1. g' = IF Contains(g, p) THEN RemoveAt(g, k) ELSE g
    BY DEF quitar_de_lista_archivos_abiertos
  <1>2. CASE g = <<>>
    <2>1. ~Contains(g, p)
      BY <1>2 DEF Contains
    <2> QED BY <1>1, <1>2, <2>1
  <1>3. CASE g # <<>>
    <2>1. PICK q : g = <<q>>
      BY <1>3 DEF Lista
    <2>2. Len(g) = 1 /\ g[1] = q /\ g \in Seq({q})
      BY <2>1
    <2>3. Contains(g, p) <=> q = p
      BY <2>2 DEF Contains
    <2>4. CASE q # p
      BY <1>1, <2>1, <2>3, <2>4
    <2>5. CASE q = p
      <3> DEFINE T == {n \in 1 .. Len(g) : g[n] = p}
      <3>1. k = IF T # {} THEN Min(T) ELSE 0
        BY DEF SelectInSeq
      <3>2. T = {1}
        BY <2>2, <2>5
      <3>3. k = 1
        <4> HIDE DEF T
        <4>1. Min(T) \in T
          BY <3>2, MinOK
        <4> QED BY <3>1, <3>2, <4>1
      <3>4. g' = SubSeq(g, 1, 0) \o SubSeq(g, 2, 1)
        <4>1. RemoveAt(g, k) = SubSeq(g, 1, k - 1) \o SubSeq(g, k + 1, Len(g))
          BY DEF RemoveAt
        <4>2. k - 1 = 0 /\ k + 1 = 2 /\ Len(g) = 1
          BY <2>2, <3>3
        <4> HIDE DEF g, k
        <4>3. g' = RemoveAt(g, k)
          BY <1>1, <2>3, <2>5 DEF g
        <4> QED BY <4>1, <4>2, <4>3
      <3>5. SubSeq(g, 1, 0) = <<>> /\ SubSeq(g, 2, 1) = <<>>
        BY SubSeqEmpty
      <3> QED BY <3>4, <3>5
    <2> QED BY <2>4, <2>5
  <1> QED BY <1>2, <1>3

\* Two threads that have a file open are one.
LEMMA UnoSolo ==
    ASSUME IInv, NEW i \in Ids, TieneElMutex(i), NEW j \in Ids, TieneElMutex(j)
    PROVE  j = i
  BY DEF IInv, UnoPorVez

LEMMA ListaOK ==
    ASSUME IInv, IInv', Lista, NEW i \in Ids, Recibir(i) \/ Paso(i)
    PROVE  Lista'
  <1>1. CASE UNCHANGED <<hilo, g_archivos_abiertos>>
    BY <1>1 DEF Lista, Apuntado, LoTieneAbierto, SinTerminar, EstaModificando
  <1>2. CASE AnotarAbierto(i)
    <2>1. /\ Solo(i) /\ hilo[i].pc = "anotar" /\ hilo'[i].pc = "leer"
          /\ g_archivos_abiertos' = Append(g_archivos_abiertos, Pokemon(i))
      BY <1>2, IrAOK DEF AnotarAbierto, En, VaA, IInv
    <2>2. g_archivos_abiertos = <<>>
      <3>1. ASSUME NEW j \in Ids, Apuntado(j) PROVE FALSE
        <4>1. TieneElMutex(i) /\ TieneElMutex(j)
          BY <2>1, <3>1 DEF Apuntado, TieneElMutex, LoTieneAbierto
        <4>2. j = i
          BY <4>1, UnoSolo
        <4> QED BY <2>1, <3>1, <4>2 DEF Apuntado
      <3> QED BY <3>1 DEF Lista
    <2>3. g_archivos_abiertos' = <<Pokemon(i)>> /\ Pokemon(i)' = Pokemon(i)
      BY <2>1, <2>2 DEF Pokemon
    <2>4. Apuntado(i)'
      BY <2>1 DEF Apuntado, LoTieneAbierto
    <2> QED BY <2>3, <2>4 DEF Lista
  <1>3. CASE QuitarDeLista(i)
    <2>1. /\ Solo(i) /\ hilo[i].pc = "quitar"
          /\ quitar_de_lista_archivos_abiertos(Pokemon(i))
      BY <1>3, IrAOK DEF QuitarDeLista, En, IInv
    <2>2. g_archivos_abiertos \in {<<>>, <<Pokemon(i)>>}
      <3>1. ASSUME NEW j \in Ids, Apuntado(j) PROVE j = i
        <4>1. TieneElMutex(i) /\ TieneElMutex(j)
          BY <2>1, <3>1 DEF Apuntado, TieneElMutex, LoTieneAbierto
        <4> QED BY <4>1, UnoSolo
      <3> QED BY <3>1 DEF Lista
    <2>3. g_archivos_abiertos' = <<>>
      BY <2>1, <2>2, Quitada
    <2> QED BY <2>3 DEF Lista
  <1>4. CASE ~AnotarAbierto(i) /\ ~QuitarDeLista(i) /\ ~UNCHANGED hilo
    <2>1. Solo(i) /\ UNCHANGED g_archivos_abiertos
      BY <1>4, IrAOK DEF Recibir, Buscar, Paso, Existe, EstaEnLista, EstaAbierto,
         encolar_operacion_tallgrass, Trabar, MarcarAbierto, LeerArchivo, LiberarBloque, Recortar, Crear,
         GrabarBloque, SinBloques, EscribirBlocks, EscribirSize, Cerrar, Truncar, GrabarMetadata, Enviar,
         Solo, IInv, Registros
    <2>2. ASSUME Apuntado(i) PROVE Apuntado(i)'
      <3>1. CASE LeerArchivo(i)
        <4>1. hilo'[i].pc \in {"liberar", "quitar"}
          BY <1>4, <3>1, LeerSolo DEF IInv
        <4>2. EstaModificando(i)'
          BY <4>1 DEF IInv, Decididos
        <4> QED BY <4>1, <4>2 DEF Apuntado, LoTieneAbierto, SinTerminar
      <3>2. CASE ~LeerArchivo(i)
        <4>1. hilo[i].pc \in {"liberar", "grabar", "blocks", "size", "muerto", "leer", "quitar"}
          BY <2>2 DEF Apuntado, LoTieneAbierto, SinTerminar
        <4>2. LiberarBloque(i) \/ Recortar(i) \/ GrabarBloque(i) \/ SinBloques(i)
              \/ EscribirBlocks(i) \/ EscribirSize(i)
          BY <1>4, <3>2, <4>1 DEF Recibir, Paso, Existe, EstaEnLista, EstaAbierto,
             encolar_operacion_tallgrass, Trabar, MarcarAbierto, Crear, Cerrar, Truncar, GrabarMetadata,
             Enviar, En
        <4>3. hilo'[i].pc \in {"liberar", "grabar", "blocks", "size", "muerto", "quitar", "truncar"}
              /\ hilo'[i].resultado = hilo[i].resultado
              /\ (hilo'[i].pc = "truncar" => ~EstaModificando(i))
          <5>1. Registros /\ hilo[i].pc \notin {"crear", "enviar", "quitar"}
            BY <4>2 DEF IInv, LiberarBloque, Recortar, GrabarBloque, SinBloques, EscribirBlocks, EscribirSize, En
          <5> QED BY <4>2, <5>1, TrabajoHilo
        <4>4. hilo[i].pc \in {"liberar", "grabar", "blocks", "size", "muerto"}
          BY <4>2 DEF LiberarBloque, Recortar, GrabarBloque, SinBloques, EscribirBlocks, EscribirSize, En
        <4>5. EstaModificando(i)
          BY <2>2, <4>4 DEF Apuntado, LoTieneAbierto, SinTerminar
        <4>6. EstaModificando(i)'
          BY <4>3, <4>5 DEF EstaModificando
        <4> QED BY <4>3, <4>5, <4>6 DEF Apuntado, LoTieneAbierto, SinTerminar
      <3> QED BY <3>1, <3>2
    <2> QED BY <2>1, <2>2, ListaIgual
  <1>5. CASE ~AnotarAbierto(i) /\ ~QuitarDeLista(i) /\ UNCHANGED hilo
    <2>1. UNCHANGED g_archivos_abiertos
      BY <1>5 DEF Recibir, Buscar, Paso, Existe, EstaEnLista, EstaAbierto,
         encolar_operacion_tallgrass, Trabar, MarcarAbierto, LeerArchivo, LiberarBloque, Recortar, Crear,
         GrabarBloque, SinBloques, EscribirBlocks, EscribirSize, Cerrar, Truncar, GrabarMetadata, Enviar
    <2> QED BY <1>1, <1>5, <2>1
  <1> QED BY <1>2, <1>3, <1>4, <1>5

LEMMA ListaNext ==
    ASSUME IInv, IInv', Lista, [Next]_vars
    PROVE  Lista'
  <1>1. CASE Reintentar
    <2> DEFINE i == Head(g_reintentos)
    <2>1. i \in Ids /\ hilo[i].pc = "encolado"
      <3>1. g_reintentos \in Seq(Ids) /\ Len(g_reintentos) \in Nat \ {0} /\ i = g_reintentos[1]
        BY <1>1 DEF Reintentar, IInv, Reintentos
      <3> QED BY <3>1 DEF IInv, Reintentos
    <2> HIDE DEF i
    <2>2. Relanzar(i) /\ quitar_de_lista_archivos_abiertos(Pokemon(i))
      BY <1>1 DEF Reintentar, i
    <2>3. Solo(i)
      BY <2>1, <2>2 DEF Relanzar, HiloNuevo, Solo, IInv, Registros
    <2>4. ~Apuntado(i)
      BY <2>1 DEF Apuntado, LoTieneAbierto, SinTerminar
    <2>5. g_archivos_abiertos' = <<>> \/ UNCHANGED g_archivos_abiertos
      BY <2>2, Quitada
    <2> QED BY <2>1, <2>3, <2>4, <2>5, ListaIgual DEF Lista
  <1>2. CASE DespertarDispatcher \/ FinDispatcher \/ UNCHANGED vars
    BY <1>2 DEF DespertarDispatcher, FinDispatcher, vars, Lista, Apuntado, LoTieneAbierto, SinTerminar,
       EstaModificando
  <1> QED BY <1>1, <1>2, ListaOK DEF Next, Dispatcher

\* NEW and CATCH leave a list of positions with some pokemon each.
LEMMA ActualizarTipo ==
    ASSUME NEW ps \in Seq(Viva), NEW pos \in Posiciones, NEW d \in Nat \ {0}
    PROVE  actualizar_posiciones_archivo(ps, pos, d) \in Seq(Viva)
  <1> DEFINE k == DondeEsta(ps, pos)
  <1>1. CASE k # 0
    <2>1. k \in 1 .. Len(ps)
      BY <1>1, DondeEstaOK
    <2> DEFINE r == [ps[k] EXCEPT !.cantidad = @ + d]
    <2>2. ps[k] \in Viva
      BY <2>1
    <2>3. r \in Viva
      BY <2>2 DEF Viva
    <2>4. actualizar_posiciones_archivo(ps, pos, d) = [ps EXCEPT ![k] = r]
      BY <1>1 DEF actualizar_posiciones_archivo, existe_posicion_en_archivo, modificar_posicion_en_archivo
    <2> HIDE DEF r, k
    <2> QED BY <2>1, <2>3, <2>4
  <1>2. CASE k = 0
    BY <1>2 DEF actualizar_posiciones_archivo, existe_posicion_en_archivo,
                agregar_nueva_posicion_en_archivo, Viva
  <1> QED BY <1>1, <1>2

LEMMA EliminarTipo ==
    ASSUME NEW ps \in Seq(Viva), NEW pos, existe_posicion_en_archivo(ps, pos)
    PROVE  eliminar_posicion_en_archivo(ps, pos) \in Seq(Viva)
  <1> DEFINE k == DondeEsta(ps, pos)
             rs == eliminar_posicion_en_archivo(ps, pos)
  <1>1. k \in 1 .. Len(ps)
    BY DondeEstaOK DEF existe_posicion_en_archivo
  <1>2. rs = IF ps[k].cantidad = 1 THEN RemoveAt(ps, k) ELSE [ps EXCEPT ![k].cantidad = @ - 1]
    BY DEF eliminar_posicion_en_archivo
  <1> HIDE DEF k, rs
  <1>3. ps[k] \in Viva
    BY <1>1
  <1>4. CASE ps[k].cantidad = 1
    <2>1. rs = SubSeq(ps, 1, k - 1) \o SubSeq(ps, k + 1, Len(ps))
      BY <1>2, <1>4 DEF RemoveAt
    <2>2. k \in DOMAIN ps
      BY <1>1
    <2>3. rs \in Seq(Viva)
      BY <2>1, <2>2, SinElementoOK
    <2> QED BY <2>3 DEF rs
  <1>5. CASE ps[k].cantidad # 1
    <2> DEFINE r == [ps[k] EXCEPT !.cantidad = @ - 1]
    <2>1. r \in Viva
      BY <1>3, <1>5 DEF Viva
    <2>2. rs = [ps EXCEPT ![k] = r]
      BY <1>2, <1>5
    <2> HIDE DEF r
    <2>3. rs \in Seq(Viva)
      BY <1>1, <2>1, <2>2
    <2> QED BY <2>3 DEF rs
  <1> QED BY <1>4, <1>5

Mensaje == [op : {"NEW", "CATCH", "GET"}, pokemon : Pokemones, pos : Posiciones, cantidad : Nat \ {0}]

Resultado == [tipo : {"pendiente", "APPEARED", "OK", "FAIL", "VACIO", "LOCALIZED"},
              coord : [Posiciones -> Nat]]

LEMMA DecisionTipo ==
    ASSUME NEW m \in Mensaje, NEW ps \in Seq(Viva)
    PROVE  /\ Decision(m, ps).resultado \in Resultado
           /\ Decision(m, ps).posiciones \in Seq(Viva)
           /\ Decision(m, ps).resultado.tipo # "pendiente"
  <1>1. m.pos \in Posiciones /\ m.cantidad \in Nat \ {0} /\ m.op \in {"NEW", "CATCH", "GET"}
    BY DEF Mensaje
  <1>2. SinCoord \in [Posiciones -> Nat]
    BY DEF SinCoord
  <1>3. CASE m.op = "NEW"
    <2> DEFINE rs == actualizar_posiciones_archivo(ps, m.pos, m.cantidad)
    <2>1. rs \in Seq(Viva)
      BY <1>1, ActualizarTipo
    <2>2. Decision(m, ps) = [resultado |-> [tipo |-> "APPEARED", coord |-> SinCoord], posiciones |-> rs]
      BY <1>3 DEF Decision
    <2> HIDE DEF rs
    <2> QED BY <1>2, <2>1, <2>2 DEF Resultado
  <1>4. CASE m.op = "CATCH" /\ existe_posicion_en_archivo(ps, m.pos)
    <2> DEFINE rs == eliminar_posicion_en_archivo(ps, m.pos)
    <2>1. rs \in Seq(Viva)
      BY <1>4, EliminarTipo
    <2>2. Decision(m, ps) = [resultado |-> [tipo |-> "OK", coord |-> SinCoord], posiciones |-> rs]
      BY <1>4 DEF Decision
    <2> HIDE DEF rs
    <2> QED BY <1>2, <2>1, <2>2 DEF Resultado
  <1>5. CASE m.op = "CATCH" /\ ~existe_posicion_en_archivo(ps, m.pos)
    <2>1. Decision(m, ps) = [resultado |-> [tipo |-> "FAIL", coord |-> SinCoord], posiciones |-> ps]
      BY <1>5 DEF Decision
    <2> QED BY <1>2, <2>1 DEF Resultado
  <1>6. CASE m.op = "GET"
    <2> DEFINE c == [q \in Posiciones |-> Cardinality({n \in DOMAIN ps : ps[n].pos = q})]
               t == IF ps = <<>> THEN "VACIO" ELSE "LOCALIZED"
    <2>1. Decision(m, ps) = [resultado |-> [tipo |-> t, coord |-> c], posiciones |-> ps]
      BY <1>6 DEF Decision
    <2>2. IsFiniteSet(1 .. Len(ps)) /\ DOMAIN ps = 1 .. Len(ps)
      BY FS_Interval
    <2>3. \A q : {n \in DOMAIN ps : ps[n].pos = q} \subseteq 1 .. Len(ps)
      BY <2>2
    <2>4. \A q : Cardinality({n \in DOMAIN ps : ps[n].pos = q}) \in Nat
      BY <2>2, <2>3, FS_Subset, FS_CardinalityType
    <2>5. c \in [Posiciones -> Nat]
      BY <2>4
    <2>6. t \in {"VACIO", "LOCALIZED"}
      OBVIOUS
    <2> HIDE DEF c, t
    <2> QED BY <2>1, <2>5, <2>6 DEF Resultado
  <1> QED BY <1>1, <1>3, <1>4, <1>5, <1>6

LEMMA UltimoOK == HayBloque => obtener_ultimo_nro_bloque \in Bloques \ bitmap
  <1> SUFFICES ASSUME HayBloque PROVE obtener_ultimo_nro_bloque \in Bloques \ bitmap
    OBVIOUS
  <1> DEFINE T == Bloques \ bitmap
  <1>1. T \subseteq Nat /\ T # {}
    BY TallGrassAssumption DEF Bloques, HayBloque
  <1>2. \E b \in T : \A c \in T : b <= c
    <2> HIDE DEF T
    <2> QED BY <1>1, MinimoOK
  <1> QED BY <1>2 DEF obtener_ultimo_nro_bloque

(***************************************************************************)
(* The types of the state                                                  *)
(***************************************************************************)
\* A block whose bit is clear has no file.
DiscoOK ==
    /\ bitmap \subseteq Bloques
    /\ bloque \in [Bloques -> Seq(Unidad)]
    /\ \A b \in Bloques \ bitmap : bloque[b] = <<>>
    /\ metadata \in [Pokemones -> Metadata]

Hilo == [pc : Pcs, blocks : Seq(Bloques), posiciones : Seq(Viva), partes : Seq(Seq(Unidad)),
         nuevos : Seq(Bloques), resultado : Resultado]

\* A thread that is to store a piece has one.
HilosOK ==
    /\ hilo \in [Ids -> Hilo]
    /\ \A i \in Ids : hilo[i].pc = "grabar" => hilo[i].partes # <<>>

RestoOK ==
    /\ g_mutex_tallgrass \in BOOLEAN /\ g_mutex_envio \in BOOLEAN /\ g_mutex_reintentos \in BOOLEAN
    /\ enviada \subseteq Ids
    /\ gamecard \in {"vivo", "caido"}

Tipado == DiscoOK /\ HilosOK /\ RestoOK

LEMMA HiloNuevoOK == HiloNuevo \in Hilo /\ HiloNuevo.pc = "fuera" /\ HiloNuevo.resultado = Pendiente
  BY DEF HiloNuevo, Hilo, Pcs, Pendiente, Resultado, SinCoord

LEMMA HiloOK ==
    ASSUME HilosOK, NEW i \in Ids, NEW r \in Hilo, hilo' = [hilo EXCEPT ![i] = r],
           r.pc = "grabar" => r.partes # <<>>
    PROVE  HilosOK'
  BY DEF HilosOK

LEMMA IrAHilos ==
    ASSUME HilosOK, NEW i \in Ids, NEW pc \in Pcs \ {"grabar"}, IrA(i, pc)
    PROVE  HilosOK'
  <1> DEFINE r == [hilo[i] EXCEPT !.pc = pc]
  <1>1. r \in Hilo /\ r.pc = pc
    BY DEF HilosOK, Hilo
  <1>2. hilo' = [hilo EXCEPT ![i] = r]
    BY DEF IrA, HilosOK
  <1> HIDE DEF r
  <1> QED BY <1>1, <1>2, HiloOK

\* The messages and the threads of this instance.
LEMMA MensajeOK == ASSUME NEW i \in Ids PROVE msj[i] \in Mensaje /\ Pokemon(i) \in Pokemones
  BY OperacionesAssumption DEF Mensaje, Pokemon

\* The one line of a new file fits a block; a new file has one line.
LEMMA UnaOK ==
    ASSUME NEW pos \in Posiciones, NEW n \in Nat \ {0}
    PROVE  <<[pos |-> pos, cantidad |-> n]>> \in Seq(Viva)
  BY DEF Viva

LEMMA PartesDe ==
    ASSUME NEW ps \in Seq(Viva)
    PROVE  LET partes == Partes(serializar_lista_posiciones_pokemon(ps))
           IN  partes \in Seq(Seq(Unidad)) /\ partes # <<>>
  <1> DEFINE texto == serializar_lista_posiciones_pokemon(ps)
             t == Partes(texto)
  <1>1. texto \in Seq(Unidad) /\ Len(texto) \in Nat
    BY TextoOK
  <1> HIDE DEF texto
  <1>2. t \in Seq(Seq(Unidad)) /\ Len(t) = CantidadBloques(Len(texto))
    BY <1>1, PartesOK
  <1>3. CantidadBloques(Len(texto)) \in Nat \ {0}
    BY <1>1, BloquesOK
  <1> HIDE DEF t
  <1>4. t # <<>>
    BY <1>2, <1>3
  <1> QED BY <1>2, <1>4 DEF t, texto

LEMMA HilosPaso ==
    ASSUME Tipado, NEW i \in Ids, Recibir(i) \/ Paso(i)
    PROVE  HilosOK'
  <1>0. HilosOK /\ hilo \in [Ids -> Hilo] /\ hilo[i] \in Hilo
    BY DEF Tipado, HilosOK
  <1>1. CASE UNCHANGED hilo
    BY <1>0, <1>1 DEF HilosOK
  <1>2. CASE \E pc \in Pcs \ {"grabar"} : IrA(i, pc)
    BY <1>0, <1>2, IrAHilos
  <1>3. CASE LeerArchivo(i) /\ ~UNCHANGED hilo
    <2> DEFINE md == metadata[Pokemon(i)]
               d == Decision(msj[i], Cargadas(md))
               r == [hilo[i] EXCEPT !.pc = IF d.resultado.tipo \in {"APPEARED", "OK"}
                                           THEN "liberar" ELSE "quitar",
                                    !.blocks = md.blocks,
                                    !.posiciones = d.posiciones,
                                    !.resultado = d.resultado]
    <2>1. Legible(md) /\ hilo' = [hilo EXCEPT ![i] = r]
      BY <1>0, <1>3, LeerHilo
    <2>2. md \in Metadata /\ md.blocks \in Seq(Bloques)
      BY MensajeOK DEF Tipado, DiscoOK, Metadata
    <2>3. d.resultado \in Resultado /\ d.posiciones \in Seq(Viva)
      <3>1. Cargadas(md) \in Seq(Viva)
        <4> HIDE DEF md
        <4> QED BY <2>1, <2>2, CargadasOK DEF Tipado, DiscoOK
      <3> HIDE DEF md
      <3> QED BY <3>1, MensajeOK, DecisionTipo
    <2> HIDE DEF d, md
    <2>4. r \in Hilo /\ r.pc # "grabar"
      BY <1>0, <2>2, <2>3 DEF Hilo, Pcs
    <2> HIDE DEF r
    <2> QED BY <1>0, <2>1, <2>4, HiloOK
  <1>4. CASE LiberarBloque(i)
    <2> DEFINE r == [hilo[i] EXCEPT !.blocks = Tail(@)]
    <2>1. hilo' = [hilo EXCEPT ![i] = r] /\ hilo[i].blocks # <<>> /\ hilo[i].pc = "liberar"
      BY <1>0, <1>4 DEF LiberarBloque, En
    <2>2. hilo[i].blocks \in Seq(Bloques)
      BY <1>0 DEF Hilo
    <2>3. Tail(hilo[i].blocks) \in Seq(Bloques)
      BY <2>1, <2>2
    <2>4. r \in Hilo /\ r.pc # "grabar"
      BY <1>0, <2>1, <2>3 DEF Hilo
    <2> HIDE DEF r
    <2> QED BY <1>0, <2>1, <2>4, HiloOK
  <1>5. CASE Recortar(i)
    <2> DEFINE t == Partes(serializar_lista_posiciones_pokemon(hilo[i].posiciones))
               x == IF hilo[i].posiciones = <<>> THEN "blocks" ELSE "grabar"
               y == IF hilo[i].posiciones = <<>> THEN <<>> ELSE t
               r == [hilo[i] EXCEPT !.pc = x, !.partes = y]
    <2>1. hilo' = [hilo EXCEPT ![i] = r]
      BY <1>0, <1>5 DEF Recortar
    <2>2. t \in Seq(Seq(Unidad)) /\ t # <<>>
      BY <1>0, PartesDe DEF Hilo
    <2> HIDE DEF t
    <2>3. x \in Pcs /\ y \in Seq(Seq(Unidad)) /\ (x = "grabar" => y # <<>>)
      BY <2>2 DEF Pcs
    <2> HIDE DEF x, y
    <2>4. r \in Hilo /\ (r.pc = "grabar" => r.partes # <<>>)
      BY <1>0, <2>3 DEF Hilo
    <2> HIDE DEF r
    <2> QED BY <1>0, <2>1, <2>4, HiloOK
  <1>6. CASE Crear(i)
    <2> DEFINE ps == <<[pos |-> msj[i].pos, cantidad |-> msj[i].cantidad]>>
               t == Partes(serializar_lista_posiciones_pokemon(ps))
               r == [hilo[i] EXCEPT !.pc = "grabar", !.posiciones = ps, !.partes = t]
    <2>1. hilo' = [hilo EXCEPT ![i] = r]
      BY <1>0, <1>6 DEF Crear
    <2>2. ps \in Seq(Viva)
      BY MensajeOK, UnaOK DEF Mensaje
    <2> HIDE DEF ps
    <2>3. t \in Seq(Seq(Unidad)) /\ t # <<>>
      BY <2>2, PartesDe
    <2> HIDE DEF t
    <2>4. r \in Hilo /\ r.partes # <<>>
      BY <1>0, <2>2, <2>3 DEF Hilo, Pcs
    <2> HIDE DEF r
    <2> QED BY <1>0, <2>1, <2>4, HiloOK
  <1>7. CASE GrabarBloque(i)
    <2> DEFINE b == obtener_ultimo_nro_bloque
               x == IF Len(hilo[i].partes) > 1 THEN "grabar"
                    ELSE IF EstaModificando(i) THEN "blocks" ELSE "truncar"
               r == [hilo[i] EXCEPT !.partes = Tail(@), !.nuevos = Append(@, b), !.pc = x]
    <2>0. hilo[i].pc = "grabar"
      BY <1>7 DEF GrabarBloque, En
    <2>1. hilo' = [hilo EXCEPT ![i] = r]
      BY <1>7 DEF GrabarBloque
    <2>2. b \in Bloques
      BY <1>7, UltimoOK DEF GrabarBloque
    <2>3. x \in Pcs /\ (x = "grabar" => Len(hilo[i].partes) > 1)
      BY DEF Pcs
    <2>4. hilo[i].partes \in Seq(Seq(Unidad)) /\ hilo[i].partes # <<>> /\ hilo[i].nuevos \in Seq(Bloques)
      BY <1>0, <2>0 DEF Hilo, HilosOK
    <2> HIDE DEF b, x
    <2>5. Tail(hilo[i].partes) \in Seq(Seq(Unidad)) /\ Append(hilo[i].nuevos, b) \in Seq(Bloques)
          /\ (Len(hilo[i].partes) > 1 => Tail(hilo[i].partes) # <<>>)
      <3> DEFINE t == hilo[i].partes
                 n == hilo[i].nuevos
      <3>1. t \in Seq(Seq(Unidad)) /\ t # <<>> /\ n \in Seq(Bloques)
        BY <2>4
      <3> HIDE DEF t, n
      <3>2. Tail(t) \in Seq(Seq(Unidad)) /\ Len(Tail(t)) = Len(t) - 1 /\ Len(t) \in Nat
        BY <3>1, HeadTailProperties, LenProperties
      <3>3. Append(n, b) \in Seq(Bloques)
        BY <2>2, <3>1
      <3>4. Len(t) > 1 => Tail(t) # <<>>
        <4> DEFINE u == Tail(t)
                   a == Len(u)
                   c == Len(t)
        <4>1. a = c - 1 /\ c \in Nat
          BY <3>2
        <4> HIDE DEF a, c
        <4>2. c > 1 => a # 0
          BY <4>1
        <4> HIDE DEF u
        <4>3. Len(u) # 0 => u # <<>>
          OBVIOUS
        <4> QED BY <4>2, <4>3 DEF a, c, u
      <3> QED BY <3>2, <3>3, <3>4 DEF t, n
    <2>6. r \in Hilo /\ (r.pc = "grabar" => r.partes # <<>>)
      BY <1>0, <2>3, <2>5 DEF Hilo
    <2> HIDE DEF r
    <2> QED BY <1>0, <2>1, <2>6, HiloOK
  <1>8. CASE GrabarMetadata(i)
    <2> DEFINE r == [hilo[i] EXCEPT !.pc = "enviar", !.resultado = [tipo |-> "APPEARED", coord |-> SinCoord]]
    <2>1. hilo' = [hilo EXCEPT ![i] = r]
      BY <1>0, <1>8 DEF GrabarMetadata
    <2>2. SinCoord \in [Posiciones -> Nat]
      BY DEF SinCoord
    <2>3. r \in Hilo /\ r.pc # "grabar"
      BY <1>0, <2>2 DEF Hilo, Pcs, Resultado
    <2> HIDE DEF r
    <2> QED BY <1>0, <2>1, <2>3, HiloOK
  <1>9. \/ UNCHANGED hilo \/ (\E pc \in Pcs \ {"grabar"} : IrA(i, pc)) \/ LeerArchivo(i) \/ LiberarBloque(i)
        \/ Recortar(i) \/ Crear(i) \/ GrabarBloque(i) \/ GrabarMetadata(i)
    <2>1. CASE Recibir(i) \/ Existe(i)
      BY <2>1 DEF Recibir, Existe, Buscar, Pcs
    <2>2. CASE EstaEnLista(i) \/ EstaAbierto(i)
      BY <2>2 DEF EstaEnLista, EstaAbierto, Pcs
    <2>3. CASE encolar_operacion_tallgrass(i) \/ Trabar(i) \/ MarcarAbierto(i) \/ AnotarAbierto(i)
               \/ SinBloques(i)
      BY <2>3 DEF encolar_operacion_tallgrass, Trabar, MarcarAbierto, AnotarAbierto, SinBloques, Pcs
    <2>4. CASE EscribirBlocks(i) \/ EscribirSize(i) \/ QuitarDeLista(i) \/ Truncar(i) \/ Enviar(i)
      BY <2>4 DEF EscribirBlocks, EscribirSize, QuitarDeLista, Truncar, Enviar, Pcs
    <2>5. CASE Cerrar(i)
      BY <2>5 DEF Cerrar, Pcs
    <2> QED BY <2>1, <2>2, <2>3, <2>4, <2>5 DEF Paso
  <1> QED BY <1>1, <1>2, <1>3, <1>4, <1>5, <1>6, <1>7, <1>8, <1>9

\* A step that lets the disk alone, and one that changes a key of a metadata.
LEMMA DiscoIgual == DiscoOK /\ UNCHANGED disco => DiscoOK'
  BY DEF DiscoOK, disco

LEMMA ModificarOK ==
    ASSUME DiscoOK, NEW p \in Pokemones, NEW clave, NEW valor, modificar_metadata_pokemon(p, clave, valor),
           UNCHANGED <<bitmap, bloque>>,
           \/ clave = "open" /\ valor \in {"Y", "N"}
           \/ clave = "size" /\ valor \in Nat
           \/ clave = "blocks" /\ valor \in Seq(Bloques)
    PROVE  DiscoOK'
  <1> DEFINE r == [metadata[p] EXCEPT ![clave] = valor]
  <1>1. metadata[p] \in Metadata
    BY DEF DiscoOK
  <1>2. r \in Metadata
    BY <1>1 DEF Metadata
  <1>3. metadata' = [metadata EXCEPT ![p] = r]
    BY DEF modificar_metadata_pokemon
  <1> HIDE DEF r
  <1> QED BY <1>2, <1>3 DEF DiscoOK

LEMMA DiscoPaso ==
    ASSUME Tipado, NEW i \in Ids, Recibir(i) \/ Paso(i)
    PROVE  DiscoOK'
  <1>0. DiscoOK /\ hilo[i] \in Hilo /\ Pokemon(i) \in Pokemones
    BY MensajeOK DEF Tipado, HilosOK
  <1>1. CASE UNCHANGED disco
    BY <1>0, <1>1, DiscoIgual
  <1>2. CASE MarcarAbierto(i) \/ Cerrar(i)
    <2>1. UNCHANGED <<bitmap, bloque>>
          /\ \E valor \in {"Y", "N"} : modificar_metadata_pokemon(Pokemon(i), "open", valor)
      BY <1>2 DEF MarcarAbierto, Cerrar
    <2> QED BY <1>0, <2>1, ModificarOK
  <1>3. CASE EscribirBlocks(i)
    <2>1. UNCHANGED <<bitmap, bloque>> /\ modificar_metadata_pokemon(Pokemon(i), "blocks", hilo[i].nuevos)
      BY <1>3 DEF EscribirBlocks
    <2>2. hilo[i].nuevos \in Seq(Bloques)
      BY <1>0 DEF Hilo
    <2> QED BY <1>0, <2>1, <2>2, ModificarOK
  <1>4. CASE EscribirSize(i)
    <2> DEFINE n == Largo * Len(hilo[i].posiciones)
    <2>1. UNCHANGED <<bitmap, bloque>> /\ modificar_metadata_pokemon(Pokemon(i), "size", n)
      BY <1>4 DEF EscribirSize
    <2>2. n \in Nat
      <3>1. hilo[i].posiciones \in Seq(Viva)
        BY <1>0 DEF Hilo
      <3>2. Largo \in Nat /\ Len(hilo[i].posiciones) \in Nat
        BY <3>1, TallGrassAssumption
      <3> QED BY <3>2
    <2> HIDE DEF n
    <2> QED BY <1>0, <2>1, <2>2, ModificarOK
  <1>5. CASE LiberarBloque(i)
    <2> DEFINE b == Head(hilo[i].blocks)
    <2>1. eliminar_bloque(b) /\ UNCHANGED metadata
      BY <1>5 DEF LiberarBloque
    <2> HIDE DEF b
    <2>2. <<>> \in Seq(Unidad)
      OBVIOUS
    <2>3. bloque' \in [Bloques -> Seq(Unidad)] /\ \A c \in Bloques \ {b} : bloque'[c] = bloque[c]
      BY <1>0, <2>1, <2>2 DEF eliminar_bloque, DiscoOK
    <2>4. b \in Bloques => bloque'[b] = <<>>
      BY <1>0, <2>1 DEF eliminar_bloque, DiscoOK
    <2> QED BY <1>0, <2>1, <2>3, <2>4 DEF eliminar_bloque, DiscoOK
  <1>6. CASE GrabarBloque(i)
    <2> DEFINE b == obtener_ultimo_nro_bloque
               t == Head(hilo[i].partes)
    <2>1. grabar_bloque(b, t) /\ UNCHANGED metadata /\ hilo[i].pc = "grabar"
      BY <1>6 DEF GrabarBloque, En
    <2>2. b \in Bloques
      BY <1>6, UltimoOK DEF GrabarBloque
    <2>3. t \in Seq(Unidad)
      <3>1. hilo[i].partes \in Seq(Seq(Unidad)) /\ hilo[i].partes # <<>>
        BY <1>0, <2>1 DEF Tipado, HilosOK, Hilo
      <3> QED BY <3>1, HeadTailProperties
    <2> HIDE DEF b, t
    <2> QED BY <1>0, <2>1, <2>2, <2>3 DEF grabar_bloque, DiscoOK
  <1>7. CASE Truncar(i)
    <2>1. metadata' = [metadata EXCEPT ![Pokemon(i)] = Vacia] /\ UNCHANGED <<bitmap, bloque>>
      BY <1>7 DEF Truncar
    <2>2. Vacia \in Metadata
      <3>1. Vacia = [estado |-> "vacia", size |-> 0, blocks |-> <<>>, open |-> "N"]
        BY DEF Vacia, Ausente
      <3>2. <<>> \in Seq(Bloques)
        OBVIOUS
      <3> QED BY <3>1, <3>2 DEF Metadata
    <2> QED BY <1>0, <2>1, <2>2 DEF DiscoOK
  <1>8. CASE GrabarMetadata(i)
    <2> DEFINE r == [estado |-> "entera", size |-> Largo, blocks |-> hilo[i].nuevos, open |-> "N"]
    <2>1. metadata' = [metadata EXCEPT ![Pokemon(i)] = r] /\ UNCHANGED <<bitmap, bloque>>
      BY <1>8 DEF GrabarMetadata, grabar_metadata_pokemon
    <2>2. hilo[i].nuevos \in Seq(Bloques) /\ Largo \in Nat
      BY <1>0, TallGrassAssumption DEF Hilo
    <2>3. r \in Metadata
      BY <2>2 DEF Metadata
    <2> HIDE DEF r
    <2> QED BY <1>0, <2>1, <2>3 DEF DiscoOK
  <1>9. \/ UNCHANGED disco \/ MarcarAbierto(i) \/ Cerrar(i) \/ EscribirBlocks(i) \/ EscribirSize(i)
        \/ LiberarBloque(i) \/ GrabarBloque(i) \/ Truncar(i) \/ GrabarMetadata(i)
    BY DEF Recibir, Paso, Existe, Buscar, EstaEnLista, EstaAbierto, encolar_operacion_tallgrass, Trabar,
       AnotarAbierto, LeerArchivo, Recortar, Crear, SinBloques, QuitarDeLista, Enviar
  <1> QED BY <1>1, <1>2, <1>3, <1>4, <1>5, <1>6, <1>7, <1>8, <1>9

LEMMA TipadoNext ==
    ASSUME IInv, Tipado, [Next]_vars
    PROVE  Tipado'
  <1>1. CASE \E i \in Ids : Recibir(i) \/ Paso(i)
    <2>1. PICK i \in Ids : Recibir(i) \/ Paso(i)
      BY <1>1
    <2>2. RestoOK'
      BY <2>1 DEF Tipado, RestoOK, Recibir, Paso, Existe, Buscar, EstaEnLista, EstaAbierto,
         encolar_operacion_tallgrass, Trabar, MarcarAbierto, AnotarAbierto, LeerArchivo, LiberarBloque,
         Recortar, Crear, GrabarBloque, SinBloques, EscribirBlocks, EscribirSize, QuitarDeLista, Cerrar,
         Truncar, GrabarMetadata, Enviar, mutexes, Sigue, Caer
    <2> QED BY <2>1, <2>2, HilosPaso, DiscoPaso DEF Tipado
  <1>2. CASE Reintentar
    <2> DEFINE i == Head(g_reintentos)
    <2>1. i \in Ids
      <3>1. g_reintentos \in Seq(Ids) /\ Len(g_reintentos) \in Nat \ {0} /\ i = g_reintentos[1]
        BY <1>2 DEF Reintentar, IInv, Reintentos
      <3> QED BY <3>1
    <2> HIDE DEF i
    <2>2. Relanzar(i) /\ UNCHANGED <<disco, mutexes, enviada, gamecard>>
      BY <1>2 DEF Reintentar, Sigue, i
    <2>3. [HiloNuevo EXCEPT !.pc = "existe"] \in Hilo
      BY HiloNuevoOK DEF Hilo, Pcs
    <2>4. HilosOK'
      <3> DEFINE r == [HiloNuevo EXCEPT !.pc = "existe"]
      <3>1. r.pc = "existe" /\ hilo' = [hilo EXCEPT ![i] = r]
        BY <2>2 DEF Relanzar, HiloNuevo
      <3> HIDE DEF r
      <3> QED BY <2>1, <2>3, <3>1, HiloOK DEF Tipado, r
    <2> QED BY <2>2, <2>4, DiscoIgual DEF Tipado, RestoOK, mutexes
  <1>3. CASE DespertarDispatcher \/ FinDispatcher \/ UNCHANGED vars
    <2>1. UNCHANGED <<disco, hilo, g_mutex_tallgrass, g_mutex_envio, enviada, gamecard>>
          /\ g_mutex_reintentos' \in BOOLEAN
      BY <1>3 DEF DespertarDispatcher, FinDispatcher, vars, mutexes, Sigue, Tipado, RestoOK
    <2> QED BY <2>1, DiscoIgual DEF Tipado, RestoOK, HilosOK
  <1> QED BY <1>1, <1>2, <1>3 DEF Next, Dispatcher

\* The number of the file of p is that of a block of the disk.
LEMMA NumeroOK ==
    ASSUME NEW p
    PROVE  /\ NumeroDe(p) \in 0 .. Len(Existentes)
           /\ NumeroDe(p) # 0 => NumeroDe(p) \in Bloques /\ Existentes[NumeroDe(p)] = p
  <1> DEFINE T == {n \in 1 .. Len(Existentes) : Existentes[n] = p}
  <1>1. NumeroDe(p) = IF T # {} THEN Min(T) ELSE 0
    BY DEF NumeroDe, SelectInSeq
  <1>2. T \subseteq Nat
    OBVIOUS
  <1>3. T # {} => Min(T) \in T
    <2> HIDE DEF T
    <2> QED BY <1>2, MinOK
  <1> QED BY <1>1, <1>3, TallGrassAssumption DEF Bloques

LEMMA PrimeraOK == Primera \in Viva
  BY TallGrassAssumption DEF Primera, Viva

LEMMA TipadoInicio == Init => Tipado /\ Lista /\ Respuestas
  <1> SUFFICES ASSUME Init PROVE Tipado /\ Lista /\ Respuestas
    OBVIOUS
  <1>2. HilosOK /\ Respuestas
    BY HiloNuevoOK DEF Init, HilosOK, Respuestas, EstaModificando
  <1>3. DiscoOK
    <2> DEFINE t == serializar_lista_posiciones_pokemon(<<Primera>>)
    <2>1. t \in Seq(Unidad)
      <3>1. <<Primera>> \in Seq(Viva)
        BY PrimeraOK
      <3> QED BY <3>1, TextoOK
    <2> HIDE DEF t
    <2>2. DOMAIN Existentes \subseteq Bloques
      BY TallGrassAssumption DEF Bloques
    <2>3. bitmap = DOMAIN Existentes
          /\ bloque = [b \in Bloques |-> IF b \in DOMAIN Existentes THEN t ELSE <<>>]
      BY DEF Init, InitDisco, t
    <2>4. bitmap \subseteq Bloques /\ bloque \in [Bloques -> Seq(Unidad)]
          /\ \A b \in Bloques \ bitmap : bloque[b] = <<>>
      BY <2>1, <2>2, <2>3
    <2>5. ASSUME NEW p \in Pokemones
          PROVE  (IF NumeroDe(p) = 0 THEN Ausente
                  ELSE [estado |-> "entera", size |-> Largo, blocks |-> <<NumeroDe(p)>>, open |-> "N"])
                 \in Metadata
      <3>1. Ausente \in Metadata
        BY DEF Ausente, Metadata
      <3>2. NumeroDe(p) # 0 => <<NumeroDe(p)>> \in Seq(Bloques)
        BY NumeroOK
      <3>3. Largo \in Nat
        BY TallGrassAssumption
      <3> QED BY <3>1, <3>2, <3>3 DEF Metadata
    <2>6. metadata \in [Pokemones -> Metadata]
      BY <2>5 DEF Init, InitDisco
    <2> QED BY <2>4, <2>6 DEF DiscoOK
  <1>4. RestoOK /\ Lista
    BY DEF Init, InitDisco, RestoOK, Lista
  <1> QED BY <1>2, <1>3, <1>4 DEF Tipado

\* What holds of every instance.
Siempre1 == IInv /\ Respuestas /\ Lista /\ Tipado

LEMMA Siempre1OK == Spec => []Siempre1
  <1>1. Init => Siempre1
    BY Inicio, TipadoInicio DEF Siempre1
  <1>2. Siempre1 /\ [Next]_vars => Siempre1'
    BY PasoOK, RespuestasNext, ListaNext, TipadoNext DEF Siempre1
  <1> QED BY <1>1, <1>2, PTL DEF Spec

LEMMA TipadoTypeOK == Siempre1 => TypeOK
  <1> SUFFICES ASSUME Siempre1 PROVE TypeOK
    OBVIOUS
  <1>1. TypeOKDisco
    <2>1. g_archivos_abiertos \in Seq(Pokemones)
      <3>1. ASSUME NEW i \in Ids PROVE <<Pokemon(i)>> \in Seq(Pokemones)
        <4> DEFINE x == Pokemon(i)
        <4>1. x \in Pokemones
          BY MensajeOK
        <4> HIDE DEF x
        <4>2. <<x>> \in Seq(Pokemones)
          BY <4>1
        <4> QED BY <4>2 DEF x
      <3>2. <<>> \in Seq(Pokemones)
        OBVIOUS
      <3>3. g_archivos_abiertos = <<>> \/ \E i \in Ids : g_archivos_abiertos = <<Pokemon(i)>>
        BY DEF Siempre1, Lista
      <3>4. CASE \E i \in Ids : g_archivos_abiertos = <<Pokemon(i)>>
        <4>1. PICK i \in Ids : g_archivos_abiertos = <<Pokemon(i)>>
          BY <3>4
        <4>2. <<Pokemon(i)>> \in Seq(Pokemones)
          BY <3>1
        <4> DEFINE x == <<Pokemon(i)>>
        <4> HIDE DEF x
        <4> QED BY <4>1, <4>2 DEF x
      <3>5. CASE g_archivos_abiertos = <<>>
        BY <3>2, <3>5
      <3> QED BY <3>3, <3>4, <3>5
    <2> QED BY <2>1 DEF Siempre1, Tipado, DiscoOK, TypeOKDisco
  <1>2. ASSUME NEW i \in Ids
        PROVE  /\ hilo[i].pc \in Pcs
               /\ hilo[i].blocks \in Seq(Bloques) /\ hilo[i].nuevos \in Seq(Bloques)
               /\ hilo[i].posiciones \in Seq(Posicion)
    <2>1. hilo[i] \in Hilo
      BY DEF Siempre1, Tipado, HilosOK
    <2>2. hilo[i].posiciones \in Seq(Viva)
      BY <2>1 DEF Hilo
    <2>3. Viva \subseteq Posicion
      BY DEF Viva, Posicion
    <2>4. hilo[i].posiciones \in Seq(Posicion)
      BY <2>2, <2>3
    <2> QED BY <2>1, <2>4 DEF Hilo
  <1>3. g_reintentos \in Seq(Ids)
    BY DEF Siempre1, IInv, Reintentos
  <1> QED BY <1>1, <1>2, <1>3 DEF TypeOK, Siempre1, Tipado, DiscoOK, RestoOK

\* The disk, the list of open files, the threads and the mutexes hold values of their
\* kinds and a block with no bit set has no file, whatever the messages: the
\* positions that are read of a file are always positions with some pokemon, also of a
\* file that two creations wrote at once.
THEOREM TiposTallGrass == Spec => []TypeOK
  BY Siempre1OK, TipadoTypeOK, PTL

(***************************************************************************)
(* Creations, and the files that are open                                  *)
(***************************************************************************)
\* A pokemon that had no file at the start has one message at most that can create it.
AltaUnica ==
    \A i, j \in Ids :
        /\ msj[i].op = "NEW" /\ msj[j].op = "NEW"
        /\ Pokemon(i) = Pokemon(j) /\ NumeroDe(Pokemon(i)) = 0
        => i = j

\* Thread i is creating a file.
Creador(i) ==
    \/ hilo[i].pc \in {"crear", "truncar", "metadata"}
    \/ hilo[i].pc \in {"grabar", "muerto"} /\ ~EstaModificando(i)

\* Thread i is opening its file, or has it open.
Abriendo(i) == hilo[i].pc = "trabar" \/ TieneElMutex(i)

\* What a thread that creates, and one that opens, know of the metadata.
Alta(i) ==
    /\ msj[i].op = "NEW" /\ NumeroDe(Pokemon(i)) = 0
    /\ metadata[Pokemon(i)].estado = IF hilo[i].pc = "metadata" THEN "vacia" ELSE "ausente"

Altas ==
    /\ \A p \in Pokemones : NumeroDe(p) # 0 => metadata[p].estado = "entera"
    /\ \A i \in Ids : Creador(i) => Alta(i)
    /\ \A i \in Ids : Abriendo(i) => metadata[Pokemon(i)].estado = "entera"

\* OPEN is "Y" in the files that a thread has open, and in no other.
Abiertos ==
    \A p \in Pokemones :
        metadata[p].open = "Y" <=> \E i \in Ids : Pokemon(i) = p /\ LoTieneAbierto(i)

\* The metadata keep what these invariants say of them.
MismosEstados == \A p \in Pokemones : metadata'[p].estado = metadata[p].estado
MismosAbiertos == \A p \in Pokemones : metadata'[p].open = metadata[p].open

LEMMA AltasDe ==
    ASSUME Altas, NEW i \in Ids, Solo(i), MismosEstados,
           Creador(i)' => Alta(i)',
           Abriendo(i)' => metadata[Pokemon(i)].estado = "entera"
    PROVE  Altas'
  <1>1. \A j \in Ids : j # i => (Creador(j)' <=> Creador(j)) /\ (Abriendo(j)' <=> Abriendo(j))
                                /\ hilo'[j].pc = hilo[j].pc
    BY DEF Solo, Creador, Abriendo, TieneElMutex, LoTieneAbierto, SinTerminar, EstaModificando
  <1>2. \A j \in Ids : Pokemon(j) \in Pokemones /\ metadata'[Pokemon(j)].estado = metadata[Pokemon(j)].estado
    BY MensajeOK DEF MismosEstados
  <1>3. \A j \in Ids : j # i /\ Alta(j) => Alta(j)'
    BY <1>1, <1>2 DEF Alta, Pokemon
  <1>4. \A j \in Ids : Creador(j)' => Alta(j)'
    BY <1>1, <1>3 DEF Altas
  <1>5. \A j \in Ids : Abriendo(j)' => metadata'[Pokemon(j)].estado = "entera"
    BY <1>1, <1>2 DEF Altas
  <1>6. \A p \in Pokemones : NumeroDe(p) # 0 => metadata'[p].estado = "entera"
    BY DEF Altas, MismosEstados
  <1> QED BY <1>4, <1>5, <1>6 DEF Altas, Pokemon

LEMMA AbiertosDe ==
    ASSUME Abiertos, NEW i \in Ids, Solo(i), MismosAbiertos, LoTieneAbierto(i)' <=> LoTieneAbierto(i)
    PROVE  Abiertos'
  <1>1. \A j \in Ids : LoTieneAbierto(j)' <=> LoTieneAbierto(j)
    BY DEF Solo, LoTieneAbierto, SinTerminar, EstaModificando
  <1> QED BY <1>1 DEF Abiertos, MismosAbiertos, Pokemon

\* A step of a thread that touches no metadata but for its blocks or its size.
Callado(i) ==
    \/ Recibir(i) \/ Existe(i) \/ EstaEnLista(i) \/ EstaAbierto(i) \/ encolar_operacion_tallgrass(i)
    \/ Trabar(i) \/ AnotarAbierto(i) \/ LeerArchivo(i) \/ LiberarBloque(i) \/ Recortar(i) \/ Crear(i)
    \/ GrabarBloque(i) \/ SinBloques(i) \/ EscribirBlocks(i) \/ EscribirSize(i) \/ QuitarDeLista(i) \/ Enviar(i)

LEMMA Calladas ==
    ASSUME Tipado, NEW i \in Ids, Callado(i)
    PROVE  MismosEstados /\ MismosAbiertos
  <1>0. metadata \in [Pokemones -> Metadata] /\ Pokemon(i) \in Pokemones
    BY MensajeOK DEF Tipado, DiscoOK
  <1>1. CASE UNCHANGED metadata
    BY <1>1 DEF MismosEstados, MismosAbiertos
  <1>2. CASE EscribirBlocks(i) \/ EscribirSize(i)
    <2>1. CASE EscribirBlocks(i)
      <3> DEFINE r == [metadata[Pokemon(i)] EXCEPT !.blocks = hilo[i].nuevos]
      <3>1. metadata' = [metadata EXCEPT ![Pokemon(i)] = r]
        BY <2>1, <1>0 DEF EscribirBlocks, modificar_metadata_pokemon
      <3>2. r.estado = metadata[Pokemon(i)].estado /\ r.open = metadata[Pokemon(i)].open
        BY <1>0 DEF Metadata
      <3> HIDE DEF r
      <3> QED BY <1>0, <3>1, <3>2 DEF MismosEstados, MismosAbiertos
    <2>2. CASE EscribirSize(i)
      <3> DEFINE r == [metadata[Pokemon(i)] EXCEPT !.size = Largo * Len(hilo[i].posiciones)]
      <3>1. metadata' = [metadata EXCEPT ![Pokemon(i)] = r]
        BY <2>2, <1>0 DEF EscribirSize, modificar_metadata_pokemon
      <3>2. r.estado = metadata[Pokemon(i)].estado /\ r.open = metadata[Pokemon(i)].open
        BY <1>0 DEF Metadata
      <3> HIDE DEF r
      <3> QED BY <1>0, <3>1, <3>2 DEF MismosEstados, MismosAbiertos
    <2> QED BY <1>2, <2>1, <2>2
  <1>3. UNCHANGED metadata \/ EscribirBlocks(i) \/ EscribirSize(i)
    BY DEF Callado, Recibir, Existe, Buscar, EstaEnLista, EstaAbierto, encolar_operacion_tallgrass, Trabar,
       AnotarAbierto, LeerArchivo, LiberarBloque, Recortar, Crear, GrabarBloque, SinBloques, QuitarDeLista,
       Enviar, disco, eliminar_bloque, grabar_bloque
  <1> QED BY <1>1, <1>2, <1>3

\* What such a step does to its thread: who creates goes on, who opens had the mutex or found
\* the file whole.
LEMMA PasoCallado ==
    ASSUME IInv, IInv', Respuestas, Altas, NEW i \in Ids, Callado(i)
    PROVE  \/ UNCHANGED hilo
           \/ /\ Solo(i)
              /\ Creador(i)' => /\ hilo'[i].pc # "metadata"
                                /\ \/ Creador(i) /\ hilo[i].pc # "metadata"
                                   \/ msj[i].op = "NEW" /\ metadata[Pokemon(i)].estado = "ausente"
              /\ Abriendo(i)' => metadata[Pokemon(i)].estado = "entera"
              /\ LoTieneAbierto(i)' <=> LoTieneAbierto(i)
  <1>1. CASE Recibir(i) \/ Existe(i)
    <2>1. PICK pc \in {"lista", "crear", "fin"} : IrA(i, pc) /\ hilo[i].pc \in {"fuera", "existe"}
             /\ (pc = "crear" => msj[i].op = "NEW" /\ metadata[Pokemon(i)].estado = "ausente")
      BY <1>1 DEF Recibir, Existe, Buscar, En, existe_archivo
    <2>2. Solo(i) /\ VaA(i, pc)
      BY <2>1, IrAOK DEF IInv
    <2> QED BY <2>1, <2>2 DEF VaA, Creador, Abriendo, TieneElMutex, LoTieneAbierto, SinTerminar
  <1>2. CASE EstaEnLista(i) \/ EstaAbierto(i) \/ encolar_operacion_tallgrass(i)
    <2>1. UNCHANGED hilo \/ \E pc \in {"encolar", "open", "trabar", "encolado"} :
             /\ IrA(i, pc) /\ hilo[i].pc \in {"lista", "open", "encolar"}
             /\ pc = "trabar" => metadata[Pokemon(i)].estado = "entera"
      BY <1>2 DEF EstaEnLista, EstaAbierto, encolar_operacion_tallgrass, En
    <2>2. CASE ~UNCHANGED hilo
      <3>1. PICK pc \in {"encolar", "open", "trabar", "encolado"} :
             /\ IrA(i, pc) /\ hilo[i].pc \in {"lista", "open", "encolar"}
             /\ pc = "trabar" => metadata[Pokemon(i)].estado = "entera"
        BY <2>1, <2>2
      <3>2. Solo(i) /\ VaA(i, pc)
        BY <3>1, IrAOK DEF IInv
      <3> QED BY <3>1, <3>2 DEF VaA, Creador, Abriendo, TieneElMutex, LoTieneAbierto, SinTerminar
    <2> QED BY <2>2
  <1>3. CASE Trabar(i) \/ AnotarAbierto(i)
    <2>1. PICK pc \in {"abrir", "leer"} : IrA(i, pc) /\ hilo[i].pc \in {"trabar", "anotar"}
             /\ (pc = "abrir" <=> hilo[i].pc = "trabar")
      BY <1>3 DEF Trabar, AnotarAbierto, En
    <2>2. Solo(i) /\ VaA(i, pc)
      BY <2>1, IrAOK DEF IInv
    <2>3. metadata[Pokemon(i)].estado = "entera"
      BY <2>1 DEF Altas, Abriendo, TieneElMutex, LoTieneAbierto
    <2> QED BY <2>1, <2>2, <2>3 DEF VaA, Creador, Abriendo, TieneElMutex, LoTieneAbierto, SinTerminar
  <1>4. CASE LeerArchivo(i)
    <2>1. CASE ~UNCHANGED hilo
      <3>1. Solo(i) /\ hilo'[i].pc \in {"liberar", "quitar"} /\ hilo[i].pc = "leer"
        BY <1>4, <2>1, LeerSolo DEF IInv, LeerArchivo, En
      <3>2. EstaModificando(i)'
        BY <3>1 DEF IInv, Decididos
      <3>3. metadata[Pokemon(i)].estado = "entera"
        BY <3>1 DEF Altas, Abriendo, TieneElMutex, LoTieneAbierto
      <3> QED BY <3>1, <3>2, <3>3 DEF Creador, Abriendo, TieneElMutex, LoTieneAbierto, SinTerminar
    <2> QED BY <2>1
  <1>5. CASE LiberarBloque(i) \/ Recortar(i) \/ Crear(i) \/ GrabarBloque(i) \/ SinBloques(i)
             \/ EscribirBlocks(i) \/ EscribirSize(i) \/ QuitarDeLista(i) \/ Enviar(i)
    <2>1. /\ Solo(i) /\ hilo'[i].resultado = hilo[i].resultado
          /\ \/ hilo[i].pc = "liberar" /\ hilo'[i].pc \in {"liberar", "grabar", "blocks"}
             \/ hilo[i].pc = "crear" /\ hilo'[i].pc = "grabar"
             \/ hilo[i].pc = "grabar" /\ hilo'[i].pc \in {"grabar", "muerto"}
             \/ hilo[i].pc = "grabar" /\ hilo'[i].pc = "blocks" /\ EstaModificando(i)
             \/ hilo[i].pc = "grabar" /\ hilo'[i].pc = "truncar" /\ ~EstaModificando(i)
             \/ hilo[i].pc = "blocks" /\ hilo'[i].pc = "size"
             \/ hilo[i].pc = "size" /\ hilo'[i].pc = "quitar"
             \/ hilo[i].pc = "quitar" /\ hilo'[i].pc = "cerrar"
             \/ hilo[i].pc = "enviar" /\ hilo'[i].pc = "fin"
      BY <1>5, TrabajoHilo DEF IInv
    <2>2. hilo[i].pc \in {"liberar", "blocks", "size", "quitar"} => EstaModificando(i)
      BY DEF IInv, Decididos
    <2>3. hilo[i].pc = "crear" => ~EstaModificando(i)
      BY DEF Respuestas, SinDecidir
    <2>4. EstaModificando(i)' <=> EstaModificando(i)
      BY <2>1 DEF EstaModificando
    <2>5. LoTieneAbierto(i)' <=> LoTieneAbierto(i)
      BY <2>1, <2>2, <2>3, <2>4 DEF LoTieneAbierto, SinTerminar
    <2>6. hilo'[i].pc \notin {"abrir", "trabar"}
      BY <2>1
    <2>7. LoTieneAbierto(i) => metadata[Pokemon(i)].estado = "entera"
      BY DEF Altas, Abriendo, TieneElMutex
    <2>8. Creador(i)' => hilo'[i].pc # "metadata" /\ Creador(i) /\ hilo[i].pc # "metadata"
      BY <2>1, <2>2, <2>3, <2>4 DEF Creador
    <2>9. Abriendo(i)' => metadata[Pokemon(i)].estado = "entera"
      BY <2>5, <2>6, <2>7 DEF Abriendo, TieneElMutex
    <2>10. Solo(i)
      BY <2>1
    <2> QED BY <2>5, <2>8, <2>9, <2>10
  <1> QED BY <1>1, <1>2, <1>3, <1>4, <1>5 DEF Callado

\* A step of a thread writes one key of a metadata at most, or the whole of one that it creates.
LEMMA AltasOK ==
    ASSUME AltaUnica, IInv, IInv', Respuestas, Tipado, Altas, Abiertos, NEW i \in Ids, Recibir(i) \/ Paso(i)
    PROVE  Altas' /\ Abiertos'
  <1>0. metadata \in [Pokemones -> Metadata] /\ Pokemon(i) \in Pokemones /\ \A j \in Ids : Pokemon(j) \in Pokemones
    BY MensajeOK DEF Tipado, DiscoOK
  <1>1. CASE Callado(i)
    <2>1. MismosEstados /\ MismosAbiertos
      BY <1>1, Calladas
    <2>2. CASE UNCHANGED hilo
      <3>1. Altas'
        BY <1>0, <2>1, <2>2 DEF Altas, Alta, Creador, Abriendo, TieneElMutex, LoTieneAbierto, SinTerminar,
           EstaModificando, MismosEstados, Pokemon
      <3>2. Abiertos'
        BY <2>1, <2>2 DEF Abiertos, LoTieneAbierto, SinTerminar, EstaModificando, MismosAbiertos, Pokemon
      <3> QED BY <3>1, <3>2
    <2>3. CASE ~UNCHANGED hilo
      <3>1. /\ Solo(i)
            /\ Creador(i)' => /\ hilo'[i].pc # "metadata"
                              /\ \/ Creador(i) /\ hilo[i].pc # "metadata"
                                 \/ msj[i].op = "NEW" /\ metadata[Pokemon(i)].estado = "ausente"
            /\ Abriendo(i)' => metadata[Pokemon(i)].estado = "entera"
            /\ LoTieneAbierto(i)' <=> LoTieneAbierto(i)
        BY <1>1, <2>3, PasoCallado
      <3>2. Creador(i)' => Alta(i)'
        <4>1. metadata'[Pokemon(i)].estado = metadata[Pokemon(i)].estado
          BY <1>0, <2>1 DEF MismosEstados
        <4>2. Creador(i)' => msj[i].op = "NEW" /\ metadata[Pokemon(i)].estado = "ausente"
          BY <3>1 DEF Altas, Alta
        <4>3. metadata[Pokemon(i)].estado = "ausente" => NumeroDe(Pokemon(i)) = 0
          BY <1>0 DEF Altas
        <4> QED BY <3>1, <4>1, <4>2, <4>3 DEF Alta, Pokemon
      <3>3. Altas'
        BY <2>1, <3>1, <3>2, AltasDe
      <3> QED BY <2>1, <3>1, <3>3, AbiertosDe
    <2> QED BY <2>2, <2>3
  <1>2. CASE MarcarAbierto(i)
    <2> DEFINE r == [metadata[Pokemon(i)] EXCEPT !.open = "Y"]
    <2>1. metadata' = [metadata EXCEPT ![Pokemon(i)] = r]
      BY <1>2, <1>0 DEF MarcarAbierto, modificar_metadata_pokemon
    <2>2. r.estado = metadata[Pokemon(i)].estado /\ r.open = "Y"
      BY <1>0 DEF Metadata
    <2> HIDE DEF r
    <2>3. Solo(i) /\ VaA(i, "anotar") /\ hilo[i].pc = "abrir"
      BY <1>2, IrAOK DEF IInv, MarcarAbierto, En
    <2>4. MismosEstados
      BY <1>0, <2>1, <2>2 DEF MismosEstados
    <2>5. ~Creador(i)' /\ LoTieneAbierto(i)' /\ TieneElMutex(i) /\ Abriendo(i)
      BY <2>3 DEF VaA, Creador, LoTieneAbierto, SinTerminar, TieneElMutex, Abriendo
    <2>6. Altas'
      BY <2>3, <2>4, <2>5, AltasDe DEF Altas
    <2>7. ASSUME NEW p \in Pokemones
          PROVE  metadata'[p].open = "Y" <=> \E j \in Ids : Pokemon(j) = p /\ LoTieneAbierto(j)'
      <3>1. \A j \in Ids : j # i => ~LoTieneAbierto(j)'
        <4>1. TieneElMutex(i)'
          BY <2>5 DEF TieneElMutex
        <4>2. \A j \in Ids : LoTieneAbierto(j)' => TieneElMutex(j)'
          BY DEF TieneElMutex
        <4> QED BY <4>1, <4>2 DEF IInv, UnoPorVez
      <3>2. metadata'[p].open = IF p = Pokemon(i) THEN "Y" ELSE metadata[p].open
        BY <1>0, <2>1, <2>2
      <3>3. \A j \in Ids : LoTieneAbierto(j) => FALSE
        <4>1. \A j \in Ids : LoTieneAbierto(j) => TieneElMutex(j)
          BY DEF TieneElMutex
        <4>2. ~LoTieneAbierto(i)
          BY <2>3 DEF LoTieneAbierto, SinTerminar
        <4> QED BY <2>5, <4>1, <4>2, UnoSolo
      <3> QED BY <2>5, <3>1, <3>2, <3>3 DEF Abiertos
    <2> QED BY <2>6, <2>7 DEF Abiertos, Pokemon
  <1>3. CASE Cerrar(i)
    <2> DEFINE r == [metadata[Pokemon(i)] EXCEPT !.open = "N"]
    <2>1. metadata' = [metadata EXCEPT ![Pokemon(i)] = r]
      BY <1>3, <1>0 DEF Cerrar, modificar_metadata_pokemon
    <2>2. r.estado = metadata[Pokemon(i)].estado /\ r.open = "N"
      BY <1>0 DEF Metadata
    <2> HIDE DEF r
    <2>3. PICK pc \in {"fin", "enviar"} : IrA(i, pc)
      BY <1>3 DEF Cerrar
    <2>4. Solo(i) /\ VaA(i, pc) /\ hilo[i].pc = "cerrar"
      BY <1>3, <2>3, IrAOK DEF IInv, Cerrar, En
    <2>5. MismosEstados
      BY <1>0, <2>1, <2>2 DEF MismosEstados
    <2>6. ~Creador(i)' /\ ~Abriendo(i)' /\ ~LoTieneAbierto(i)' /\ LoTieneAbierto(i) /\ TieneElMutex(i)
      BY <2>4 DEF VaA, Creador, LoTieneAbierto, SinTerminar, TieneElMutex, Abriendo
    <2>7. Altas'
      BY <2>4, <2>5, <2>6, AltasDe
    <2>8. \A j \in Ids : j # i => ~LoTieneAbierto(j) /\ ~LoTieneAbierto(j)'
      <3>1. \A j \in Ids : LoTieneAbierto(j) => TieneElMutex(j)
        BY DEF TieneElMutex
      <3>2. \A j \in Ids : j # i => (LoTieneAbierto(j)' <=> LoTieneAbierto(j))
        BY <2>4 DEF Solo, LoTieneAbierto, SinTerminar, EstaModificando
      <3> QED BY <2>6, <3>1, <3>2, UnoSolo
    <2>9. ASSUME NEW p \in Pokemones
          PROVE  metadata'[p].open = "Y" <=> \E j \in Ids : Pokemon(j) = p /\ LoTieneAbierto(j)'
      <3>1. metadata'[p].open = IF p = Pokemon(i) THEN "N" ELSE metadata[p].open
        BY <1>0, <2>1, <2>2
      <3> QED BY <2>6, <2>8, <3>1 DEF Abiertos
    <2> QED BY <2>7, <2>9 DEF Abiertos, Pokemon
  <1>4. CASE Truncar(i) \/ GrabarMetadata(i)
    <2>1. PICK r \in Metadata : /\ metadata' = [metadata EXCEPT ![Pokemon(i)] = r] /\ r.open = "N"
                   /\ r.estado = IF Truncar(i) THEN "vacia" ELSE "entera"
      <3>1. CASE Truncar(i)
        <4>1. metadata' = [metadata EXCEPT ![Pokemon(i)] = Vacia]
          BY <3>1 DEF Truncar
        <4>2. Vacia.open = "N" /\ Vacia.estado = "vacia"
          BY DEF Vacia, Ausente
        <4>3. Vacia \in Metadata
          <5>1. Vacia = [estado |-> "vacia", size |-> 0, blocks |-> <<>>, open |-> "N"]
            BY DEF Vacia, Ausente
          <5>2. <<>> \in Seq(Bloques)
            OBVIOUS
          <5> QED BY <5>1, <5>2 DEF Metadata
        <4> QED BY <3>1, <4>1, <4>2, <4>3
      <3>2. CASE ~Truncar(i)
        <4> DEFINE r == [estado |-> "entera", size |-> Largo, blocks |-> hilo[i].nuevos, open |-> "N"]
        <4>1. metadata' = [metadata EXCEPT ![Pokemon(i)] = r]
          BY <3>2, <1>4 DEF GrabarMetadata, grabar_metadata_pokemon
        <4>2. r.open = "N" /\ r.estado = "entera"
          OBVIOUS
        <4>3. r \in Metadata
          <5>1. hilo[i].nuevos \in Seq(Bloques)
            BY DEF Tipado, HilosOK, Hilo
          <5> QED BY <5>1, TallGrassAssumption DEF Metadata
        <4> HIDE DEF r
        <4> QED BY <3>2, <4>1, <4>2, <4>3
      <3> QED BY <3>1, <3>2
    <2>2. /\ Solo(i) /\ hilo[i].pc = IF Truncar(i) THEN "truncar" ELSE "metadata"
          /\ hilo'[i].pc = IF Truncar(i) THEN "metadata" ELSE "enviar"
      BY <1>4 DEF Truncar, GrabarMetadata, IrA, En, Solo, IInv, Registros
    <2>3. Creador(i) /\ Alta(i)
      BY <2>2 DEF Creador, Altas
    <2>4. /\ Creador(i)' <=> Truncar(i)
          /\ ~Abriendo(i)' /\ ~LoTieneAbierto(i) /\ ~LoTieneAbierto(i)'
      BY <2>2 DEF Creador, Abriendo, TieneElMutex, LoTieneAbierto, SinTerminar
    <2>5. \A j \in Ids : j # i => /\ Creador(j)' <=> Creador(j)
                                  /\ Abriendo(j)' <=> Abriendo(j)
                                  /\ LoTieneAbierto(j)' <=> LoTieneAbierto(j)
                                  /\ hilo'[j].pc = hilo[j].pc
      BY <2>2 DEF Solo, Creador, Abriendo, TieneElMutex, LoTieneAbierto, SinTerminar, EstaModificando
    <2>6. \A j \in Ids : j # i /\ Creador(j) => Pokemon(j) # Pokemon(i)
      BY <2>3 DEF AltaUnica, Altas, Alta
    <2>7. metadata[Pokemon(i)].estado # "entera"
      BY <2>3 DEF Alta
    <2>8. \A j \in Ids : Abriendo(j) \/ LoTieneAbierto(j) => Pokemon(j) # Pokemon(i)
      BY <2>7 DEF Altas, Abriendo, TieneElMutex
    <2>9. \A p \in Pokemones : metadata'[p] = IF p = Pokemon(i) THEN r ELSE metadata[p]
      BY <1>0, <2>1
    <2>10. ASSUME NEW p \in Pokemones, NumeroDe(p) # 0 PROVE metadata'[p].estado = "entera"
      BY <2>3, <2>9, <2>10 DEF Altas, Alta
    <2>11. ASSUME NEW j \in Ids, Creador(j)' PROVE Alta(j)'
      <3>1. CASE j = i
        BY <1>0, <2>1, <2>2, <2>3, <2>4, <2>9, <2>11, <3>1 DEF Alta, Pokemon
      <3>2. CASE j # i
        <4>1. Alta(j) /\ metadata'[Pokemon(j)] = metadata[Pokemon(j)]
          BY <1>0, <2>5, <2>6, <2>9, <2>11, <3>2 DEF Altas
        <4> QED BY <2>5, <3>2, <4>1 DEF Alta, Pokemon
      <3> QED BY <3>1, <3>2
    <2>12. ASSUME NEW j \in Ids, Abriendo(j)' PROVE metadata'[Pokemon(j)].estado = "entera"
      BY <1>0, <2>4, <2>5, <2>8, <2>9, <2>12 DEF Altas
    <2>13. ASSUME NEW p \in Pokemones
           PROVE  metadata'[p].open = "Y" <=> \E j \in Ids : Pokemon(j) = p /\ LoTieneAbierto(j)'
      BY <2>1, <2>4, <2>5, <2>8, <2>9 DEF Abiertos
    <2> QED BY <2>10, <2>11, <2>12, <2>13 DEF Altas, Abiertos, Pokemon
  <1> QED BY <1>1, <1>2, <1>3, <1>4 DEF Paso, Callado

LEMMA AltasNext ==
    ASSUME AltaUnica, IInv, IInv', Respuestas, Tipado, Altas, Abiertos, [Next]_vars
    PROVE  Altas' /\ Abiertos'
  <1>1. CASE Reintentar
    <2>1. PICK i \in Ids : i = Head(g_reintentos) /\ hilo[i].pc = "encolado"
      <3>1. /\ g_reintentos \in Seq(Ids) /\ Len(g_reintentos) \in Nat \ {0}
            /\ Head(g_reintentos) = g_reintentos[1]
        BY <1>1 DEF Reintentar, IInv, Reintentos
      <3> QED BY <3>1 DEF IInv, Reintentos
    <2>2. Relanzar(i) /\ UNCHANGED metadata
      BY <1>1, <2>1 DEF Reintentar, disco
    <2>3. Solo(i) /\ hilo'[i].pc = "existe"
      BY <2>1, <2>2 DEF Relanzar, HiloNuevo, Solo, IInv, Registros
    <2>4. MismosEstados /\ MismosAbiertos
      BY <2>2 DEF MismosEstados, MismosAbiertos
    <2>5. ~Creador(i)' /\ ~Abriendo(i)' /\ ~LoTieneAbierto(i)' /\ ~LoTieneAbierto(i)
      BY <2>1, <2>3 DEF Creador, Abriendo, TieneElMutex, LoTieneAbierto, SinTerminar
    <2> QED BY <2>1, <2>3, <2>4, <2>5, AltasDe, AbiertosDe
  <1>2. CASE DespertarDispatcher \/ FinDispatcher \/ UNCHANGED vars
    <2>1. UNCHANGED <<hilo, metadata>>
      BY <1>2 DEF DespertarDispatcher, FinDispatcher, vars, disco
    <2> QED BY <2>1 DEF Altas, Alta, Creador, Abriendo, TieneElMutex, LoTieneAbierto, SinTerminar,
           EstaModificando, Abiertos, Pokemon
  <1> QED BY <1>1, <1>2, AltasOK DEF Next, Dispatcher

LEMMA AltasInicio == Init => Altas /\ Abiertos
  <1> SUFFICES ASSUME Init PROVE Altas /\ Abiertos
    OBVIOUS
  <1>1. \A p \in Pokemones : /\ NumeroDe(p) # 0 => metadata[p].estado = "entera"
                             /\ metadata[p].open = "N"
    BY DEF Init, InitDisco, Ausente
  <1>2. \A i \in Ids : hilo[i].pc = "fuera"
    BY DEF Init, HiloNuevo
  <1>3. \A i \in Ids : ~Creador(i) /\ ~Abriendo(i) /\ ~LoTieneAbierto(i)
    BY <1>2 DEF Creador, Abriendo, TieneElMutex, LoTieneAbierto, SinTerminar
  <1> QED BY <1>1, <1>3 DEF Altas, Abiertos

Siempre2 == Siempre1 /\ Altas /\ Abiertos

LEMMA Siempre2Paso == ASSUME AltaUnica PROVE Siempre2 /\ [Next]_vars => Siempre2'
  BY PasoOK, RespuestasNext, ListaNext, TipadoNext, AltasNext DEF Siempre1, Siempre2

LEMMA Siempre2OK == ASSUME AltaUnica PROVE Spec => []Siempre2
  <1>1. Init => Siempre2
    BY Inicio, TipadoInicio, AltasInicio DEF Siempre1, Siempre2
  <1> QED BY <1>1, Siempre2Paso, PTL DEF Spec

LEMMA AbiertoOK == Siempre2 => AbiertoMientrasSeUsa
  <1> SUFFICES ASSUME Siempre2 PROVE AbiertoMientrasSeUsa
    OBVIOUS
  <1>1. ASSUME NEW n \in DOMAIN g_archivos_abiertos
        PROVE  \E i \in Ids : Pokemon(i) = g_archivos_abiertos[n] /\ LoTieneAbierto(i)
    <2>1. PICK i \in Ids : Apuntado(i) /\ g_archivos_abiertos = <<Pokemon(i)>>
      BY <1>1 DEF Siempre2, Siempre1, Lista
    <2> DEFINE x == Pokemon(i)
    <2>2. g_archivos_abiertos = <<x>>
      BY <2>1
    <2> HIDE DEF x
    <2>3. n = 1 /\ g_archivos_abiertos[n] = x
      BY <2>2, <1>1
    <2> QED BY <2>1, <2>3 DEF Apuntado, x
  <1> QED BY <1>1 DEF AbiertoMientrasSeUsa, Siempre2, Siempre1, IInv, Abiertos

\* OPEN is "Y" exactly while one thread has the file open, and the list of open
\* files names only such a file, when no two NEW messages create one file: a
\* creation takes no mutex and truncates the metadata that another has written
\* (crear_archivo_pokemon), so that a file may be opened in between.
THEOREM AbiertoSiempreQueSeUsa == AltaUnica => (Spec => []AbiertoMientrasSeUsa)
  <1> SUFFICES ASSUME AltaUnica PROVE Spec => []AbiertoMientrasSeUsa
    OBVIOUS
  <1> QED BY Siempre2OK, AbiertoOK, PTL

(***************************************************************************)
(* What the steps do                                                       *)
(***************************************************************************)
\* Thread i keeps everything but where it is.
MismoHilo(i) ==
    /\ hilo'[i].blocks = hilo[i].blocks /\ hilo'[i].posiciones = hilo[i].posiciones
    /\ hilo'[i].partes = hilo[i].partes /\ hilo'[i].nuevos = hilo[i].nuevos
    /\ hilo'[i].resultado = hilo[i].resultado

\* The blocks stay and the metadata change in their OPEN at most.
MismosArchivos ==
    /\ UNCHANGED <<bitmap, bloque>>
    /\ \A p \in Pokemones : /\ metadata'[p].estado = metadata[p].estado
                            /\ metadata'[p].size = metadata[p].size
                            /\ metadata'[p].blocks = metadata[p].blocks

\* The places of a thread before it has read its file or begins to create it.
Previas == {"fuera", "existe", "lista", "open", "encolar", "encolado", "trabar", "abrir", "anotar", "leer"}

\* A step that leaves files and blocks alone.
Quieto(i) ==
    \/ Recibir(i) \/ Existe(i) \/ EstaEnLista(i) \/ EstaAbierto(i) \/ encolar_operacion_tallgrass(i)
    \/ Trabar(i) \/ MarcarAbierto(i) \/ AnotarAbierto(i) \/ SinBloques(i) \/ QuitarDeLista(i)
    \/ Cerrar(i) \/ Enviar(i)

Avanza(i) ==
    \/ hilo[i].pc \in Previas /\ hilo'[i].pc \in Previas \cup {"crear", "fin"}
    \/ hilo[i].pc = "grabar" /\ hilo'[i].pc = "muerto"
    \/ hilo[i].pc = "quitar" /\ hilo'[i].pc = "cerrar"
    \/ hilo[i].pc = "cerrar" /\ hilo'[i].pc \in {"enviar", "fin"}
    \/ hilo[i].pc = "enviar" /\ hilo'[i].pc = "fin"

\* Thread i becomes r.
Queda(i, r) == r \in Hilo /\ hilo' = [hilo EXCEPT ![i] = r]

LEMMA QuedaOK ==
    ASSUME Tipado, NEW i \in Ids, NEW r, Queda(i, r)
    PROVE  Solo(i) /\ hilo'[i] = r
  <1>1. hilo \in [Ids -> Hilo]
    BY DEF Tipado, HilosOK
  <1>2. \A j \in Ids : {"pc", "resultado"} \subseteq DOMAIN hilo[j]
    BY <1>1 DEF Hilo
  <1>3. {"pc", "resultado"} \subseteq DOMAIN r
    BY DEF Queda, Hilo
  <1> QED BY <1>1, <1>2, <1>3 DEF Queda, Solo, Registros

LEMMA IrAQueda ==
    ASSUME Tipado, NEW i \in Ids, NEW pc \in Pcs, IrA(i, pc)
    PROVE  Solo(i) /\ MismoHilo(i) /\ hilo'[i].pc = pc
  <1> DEFINE r == [hilo[i] EXCEPT !.pc = pc]
  <1>1. hilo[i] \in Hilo
    BY DEF Tipado, HilosOK
  <1>2. /\ r \in Hilo /\ r.pc = pc /\ r.blocks = hilo[i].blocks /\ r.posiciones = hilo[i].posiciones
        /\ r.partes = hilo[i].partes /\ r.nuevos = hilo[i].nuevos /\ r.resultado = hilo[i].resultado
    BY <1>1 DEF Hilo
  <1>3. hilo' = [hilo EXCEPT ![i] = r]
    BY DEF IrA
  <1> HIDE DEF r
  <1>4. Solo(i) /\ hilo'[i] = r
    BY <1>2, <1>3, QuedaOK DEF Queda
  <1> QED BY <1>2, <1>4 DEF MismoHilo

LEMMA QuietoOK ==
    ASSUME Tipado, NEW i \in Ids, Quieto(i)
    PROVE  /\ MismosArchivos
           /\ \/ UNCHANGED hilo
              \/ Solo(i) /\ MismoHilo(i) /\ Avanza(i)
  <1>0. metadata \in [Pokemones -> Metadata] /\ Pokemon(i) \in Pokemones
    BY MensajeOK DEF Tipado, DiscoOK
  <1>1. CASE Recibir(i) \/ Existe(i)
    <2>1. PICK pc \in {"lista", "crear", "fin"} : IrA(i, pc) /\ hilo[i].pc \in {"fuera", "existe"} /\ UNCHANGED disco
      BY <1>1 DEF Recibir, Existe, Buscar, En
    <2>2. Solo(i) /\ MismoHilo(i) /\ hilo'[i].pc = pc
      BY <2>1, IrAQueda DEF Pcs
    <2> QED BY <2>1, <2>2 DEF Avanza, Previas, MismosArchivos, disco
  <1>2. CASE EstaEnLista(i) \/ EstaAbierto(i) \/ encolar_operacion_tallgrass(i) \/ Trabar(i) \/ AnotarAbierto(i)
    <2>1. UNCHANGED hilo \/ \E pc \in {"encolar", "open", "trabar", "encolado", "abrir", "leer"} : IrA(i, pc)
      BY <1>2 DEF EstaEnLista, EstaAbierto, encolar_operacion_tallgrass, Trabar, AnotarAbierto
    <2>2. hilo[i].pc \in {"lista", "open", "encolar", "trabar", "anotar"} /\ UNCHANGED disco
      BY <1>2 DEF EstaEnLista, EstaAbierto, encolar_operacion_tallgrass, Trabar, AnotarAbierto, En
    <2>3. CASE ~UNCHANGED hilo
      <3>1. PICK pc \in {"encolar", "open", "trabar", "encolado", "abrir", "leer"} : IrA(i, pc)
        BY <2>1, <2>3
      <3>2. Solo(i) /\ MismoHilo(i) /\ hilo'[i].pc = pc
        BY <3>1, IrAQueda DEF Pcs
      <3> QED BY <2>2, <3>1, <3>2 DEF Avanza, Previas, MismosArchivos, disco
    <2>4. MismosArchivos
      BY <2>2 DEF MismosArchivos, disco
    <2>5. CASE UNCHANGED hilo
      BY <2>4, <2>5
    <2> QED BY <2>3, <2>5
  <1>3. CASE SinBloques(i) \/ QuitarDeLista(i) \/ Enviar(i)
    <2>1. PICK pc \in {"muerto", "cerrar", "fin"} :
            /\ IrA(i, pc) /\ UNCHANGED disco
            /\ \/ pc = "muerto" /\ hilo[i].pc = "grabar"
               \/ pc = "cerrar" /\ hilo[i].pc = "quitar"
               \/ pc = "fin" /\ hilo[i].pc = "enviar"
      BY <1>3 DEF SinBloques, QuitarDeLista, Enviar, En
    <2>2. Solo(i) /\ MismoHilo(i) /\ hilo'[i].pc = pc
      BY <2>1, IrAQueda DEF Pcs
    <2> QED BY <2>1, <2>2 DEF Avanza, MismosArchivos, disco
  <1>4. CASE MarcarAbierto(i) \/ Cerrar(i)
    <2>1. PICK v \in {"Y", "N"}, pc \in {"anotar", "fin", "enviar"} :
            /\ IrA(i, pc) /\ UNCHANGED <<bitmap, bloque>>
            /\ modificar_metadata_pokemon(Pokemon(i), "open", v)
            /\ \/ pc = "anotar" /\ hilo[i].pc = "abrir"
               \/ pc # "anotar" /\ hilo[i].pc = "cerrar"
      BY <1>4 DEF MarcarAbierto, Cerrar, En
    <2> DEFINE r == [metadata[Pokemon(i)] EXCEPT !.open = v]
    <2>2. metadata' = [metadata EXCEPT ![Pokemon(i)] = r]
      BY <1>0, <2>1 DEF modificar_metadata_pokemon
    <2>3. /\ r.estado = metadata[Pokemon(i)].estado /\ r.size = metadata[Pokemon(i)].size
          /\ r.blocks = metadata[Pokemon(i)].blocks
      BY <1>0 DEF Metadata
    <2> HIDE DEF r
    <2>4. Solo(i) /\ MismoHilo(i) /\ hilo'[i].pc = pc
      BY <2>1, IrAQueda DEF Pcs
    <2>5. MismosArchivos
      BY <1>0, <2>1, <2>2, <2>3 DEF MismosArchivos
    <2> QED BY <2>1, <2>4, <2>5 DEF Avanza, Previas
  <1> QED BY <1>1, <1>2, <1>3, <1>4 DEF Quieto

LEMMA LeerEfecto ==
    ASSUME Tipado, NEW i \in Ids, LeerArchivo(i), ~UNCHANGED hilo
    PROVE  LET md == metadata[Pokemon(i)]
               d == Decision(msj[i], Cargadas(md))
           IN  /\ Legible(md) /\ md \in Metadata /\ Cargadas(md) \in Seq(Viva)
               /\ d.resultado \in Resultado
               /\ Solo(i) /\ hilo[i].pc = "leer" /\ UNCHANGED disco
               /\ hilo'[i].pc = IF d.resultado.tipo \in {"APPEARED", "OK"} THEN "liberar" ELSE "quitar"
               /\ hilo'[i].blocks = md.blocks /\ hilo'[i].posiciones = d.posiciones
               /\ hilo'[i].resultado = d.resultado /\ hilo'[i].nuevos = hilo[i].nuevos
  <1> DEFINE md == metadata[Pokemon(i)]
             d == Decision(msj[i], Cargadas(md))
             x == IF d.resultado.tipo \in {"APPEARED", "OK"} THEN "liberar" ELSE "quitar"
             r == [hilo[i] EXCEPT !.pc = x, !.blocks = md.blocks, !.posiciones = d.posiciones,
                                  !.resultado = d.resultado]
  <1>1. Legible(md) /\ hilo' = [hilo EXCEPT ![i] = r]
    <2>1. DOMAIN hilo = Ids
      BY DEF Tipado, HilosOK
    <2> QED BY <2>1, LeerHilo
  <1>2. md \in Metadata /\ md.blocks \in Seq(Bloques)
    BY MensajeOK DEF Tipado, DiscoOK, Metadata
  <1>3. Cargadas(md) \in Seq(Viva)
    <2> HIDE DEF md
    <2> QED BY <1>1, <1>2, CargadasOK DEF Tipado, DiscoOK
  <1>4. d.resultado \in Resultado /\ d.posiciones \in Seq(Viva)
    <2> HIDE DEF md
    <2> QED BY <1>3, MensajeOK, DecisionTipo
  <1>5. hilo[i].pc = "leer" /\ UNCHANGED disco
    BY DEF LeerArchivo, En
  <1>6. hilo[i] \in Hilo /\ x \in Pcs
    BY DEF Tipado, HilosOK, Pcs
  <1>7. x = IF d.resultado.tipo \in {"APPEARED", "OK"} THEN "liberar" ELSE "quitar"
    OBVIOUS
  <1> HIDE DEF d, md, x
  <1>8. /\ r \in Hilo /\ r.pc = x /\ r.blocks = md.blocks /\ r.posiciones = d.posiciones
        /\ r.resultado = d.resultado /\ r.nuevos = hilo[i].nuevos
    BY <1>2, <1>4, <1>6 DEF Hilo
  <1> HIDE DEF r
  <1>9. Solo(i) /\ hilo'[i] = r
    BY <1>1, <1>8, QuedaOK DEF Queda
  <1>10. /\ Solo(i) /\ hilo'[i].pc = x /\ hilo'[i].blocks = md.blocks /\ hilo'[i].posiciones = d.posiciones
         /\ hilo'[i].resultado = d.resultado /\ hilo'[i].nuevos = hilo[i].nuevos
    BY <1>8, <1>9
  <1> QED BY <1>1, <1>2, <1>3, <1>4, <1>5, <1>7, <1>10 DEF d, md

LEMMA LiberarEfecto ==
    ASSUME Tipado, NEW i \in Ids, LiberarBloque(i)
    PROVE  /\ Solo(i) /\ hilo[i].pc = "liberar" /\ hilo'[i].pc = "liberar"
           /\ hilo[i].blocks \in Seq(Bloques) /\ hilo[i].blocks # <<>>
           /\ hilo'[i].blocks = Tail(hilo[i].blocks)
           /\ hilo'[i].posiciones = hilo[i].posiciones /\ hilo'[i].partes = hilo[i].partes
           /\ hilo'[i].nuevos = hilo[i].nuevos /\ hilo'[i].resultado = hilo[i].resultado
           /\ bitmap' = bitmap \ {Head(hilo[i].blocks)}
           /\ bloque' = [bloque EXCEPT ![Head(hilo[i].blocks)] = <<>>]
           /\ UNCHANGED metadata
  <1> DEFINE r == [hilo[i] EXCEPT !.blocks = Tail(hilo[i].blocks)]
  <1>0. hilo \in [Ids -> Hilo] /\ hilo[i] \in Hilo
    BY DEF Tipado, HilosOK
  <1>1. hilo' = [hilo EXCEPT ![i] = r] /\ hilo[i].blocks # <<>> /\ hilo[i].pc = "liberar"
    BY <1>0 DEF LiberarBloque, En
  <1>2. hilo[i].blocks \in Seq(Bloques)
    BY <1>0 DEF Hilo
  <1>3. Tail(hilo[i].blocks) \in Seq(Bloques)
    BY <1>1, <1>2
  <1>4. /\ r \in Hilo /\ r.pc = "liberar" /\ r.blocks = Tail(hilo[i].blocks)
        /\ r.posiciones = hilo[i].posiciones /\ r.partes = hilo[i].partes
        /\ r.nuevos = hilo[i].nuevos /\ r.resultado = hilo[i].resultado
    BY <1>0, <1>1, <1>3 DEF Hilo
  <1> HIDE DEF r
  <1>5. Solo(i) /\ hilo'[i] = r
    BY <1>1, <1>4, QuedaOK DEF Queda
  <1>6. /\ bitmap' = bitmap \ {Head(hilo[i].blocks)} /\ UNCHANGED metadata
        /\ bloque' = [bloque EXCEPT ![Head(hilo[i].blocks)] = <<>>]
    BY DEF LiberarBloque, eliminar_bloque
  <1> QED BY <1>1, <1>2, <1>4, <1>5, <1>6

LEMMA RecortarEfecto ==
    ASSUME Tipado, NEW i \in Ids, Recortar(i)
    PROVE  /\ Solo(i) /\ hilo[i].pc = "liberar" /\ hilo[i].blocks = <<>>
           /\ hilo'[i].pc = IF hilo[i].posiciones = <<>> THEN "blocks" ELSE "grabar"
           /\ hilo'[i].partes = Trozos(hilo[i].posiciones)
           /\ hilo'[i].blocks = hilo[i].blocks /\ hilo'[i].posiciones = hilo[i].posiciones
           /\ hilo'[i].nuevos = hilo[i].nuevos /\ hilo'[i].resultado = hilo[i].resultado
           /\ UNCHANGED disco
  <1> DEFINE t == Partes(serializar_lista_posiciones_pokemon(hilo[i].posiciones))
             x == IF hilo[i].posiciones = <<>> THEN "blocks" ELSE "grabar"
             y == IF hilo[i].posiciones = <<>> THEN <<>> ELSE t
             r == [hilo[i] EXCEPT !.pc = x, !.partes = y]
  <1>0. hilo \in [Ids -> Hilo] /\ hilo[i] \in Hilo
    BY DEF Tipado, HilosOK
  <1>1. hilo' = [hilo EXCEPT ![i] = r]
    BY <1>0 DEF Recortar
  <1>2. t \in Seq(Seq(Unidad))
    <2>1. hilo[i].posiciones \in Seq(Viva)
      BY <1>0 DEF Hilo
    <2>2. hilo[i].posiciones = <<>> \/ hilo[i].posiciones # <<>>
      OBVIOUS
    <2> QED BY <2>1, PartesDe
  <1>3. y = Trozos(hilo[i].posiciones) /\ x = IF hilo[i].posiciones = <<>> THEN "blocks" ELSE "grabar"
    BY DEF Trozos
  <1> HIDE DEF t
  <1>4. x \in Pcs /\ y \in Seq(Seq(Unidad))
    BY <1>2 DEF Pcs
  <1> HIDE DEF x, y
  <1>5. /\ r \in Hilo /\ r.pc = x /\ r.partes = y /\ r.blocks = hilo[i].blocks
        /\ r.posiciones = hilo[i].posiciones /\ r.nuevos = hilo[i].nuevos /\ r.resultado = hilo[i].resultado
    BY <1>0, <1>4 DEF Hilo
  <1> HIDE DEF r
  <1>6. Solo(i) /\ hilo'[i] = r
    BY <1>1, <1>5, QuedaOK DEF Queda
  <1>7. hilo[i].pc = "liberar" /\ hilo[i].blocks = <<>> /\ UNCHANGED disco
    BY DEF Recortar, En
  <1> QED BY <1>3, <1>5, <1>6, <1>7

\* The one position a creation stores.
Pedida(i) == <<[pos |-> msj[i].pos, cantidad |-> msj[i].cantidad]>>

LEMMA PedidaOK == ASSUME NEW i \in Ids PROVE Pedida(i) \in Seq(Viva) /\ Pedida(i) # <<>>
  BY MensajeOK, UnaOK DEF Mensaje, Pedida

LEMMA CrearEfecto ==
    ASSUME Tipado, NEW i \in Ids, Crear(i)
    PROVE  /\ Solo(i) /\ hilo[i].pc = "crear" /\ hilo'[i].pc = "grabar"
           /\ hilo'[i].partes = Trozos(Pedida(i)) /\ hilo'[i].posiciones = Pedida(i)
           /\ hilo'[i].blocks = hilo[i].blocks
           /\ hilo'[i].nuevos = hilo[i].nuevos /\ hilo'[i].resultado = hilo[i].resultado
           /\ UNCHANGED disco
  <1> DEFINE ps == Pedida(i)
             t == Partes(serializar_lista_posiciones_pokemon(ps))
             r == [hilo[i] EXCEPT !.pc = "grabar", !.posiciones = ps, !.partes = t]
  <1>0. hilo \in [Ids -> Hilo] /\ hilo[i] \in Hilo
    BY DEF Tipado, HilosOK
  <1>1. hilo' = [hilo EXCEPT ![i] = r]
    BY <1>0 DEF Crear, Pedida
  <1>2. ps \in Seq(Viva) /\ ps # <<>>
    BY PedidaOK
  <1>3. t = Trozos(ps)
    BY <1>2 DEF Trozos
  <1> HIDE DEF ps
  <1>4. t \in Seq(Seq(Unidad))
    BY <1>2, PartesDe
  <1> HIDE DEF t
  <1>5. /\ r \in Hilo /\ r.pc = "grabar" /\ r.partes = t /\ r.posiciones = ps /\ r.blocks = hilo[i].blocks
        /\ r.nuevos = hilo[i].nuevos /\ r.resultado = hilo[i].resultado
    BY <1>0, <1>2, <1>4 DEF Hilo, Pcs
  <1> HIDE DEF r
  <1>6. Solo(i) /\ hilo'[i] = r
    BY <1>1, <1>5, QuedaOK DEF Queda
  <1>7. hilo[i].pc = "crear" /\ UNCHANGED disco
    BY DEF Crear, En
  <1> QED BY <1>3, <1>5, <1>6, <1>7 DEF ps

LEMMA GrabarEfecto ==
    ASSUME Tipado, NEW i \in Ids, GrabarBloque(i)
    PROVE  \E b \in Bloques \ bitmap :
           /\ Solo(i) /\ hilo[i].pc = "grabar"
           /\ hilo[i].partes \in Seq(Seq(Unidad)) /\ hilo[i].partes # <<>> /\ hilo[i].nuevos \in Seq(Bloques)
           /\ hilo'[i].pc = IF Len(hilo[i].partes) > 1 THEN "grabar"
                            ELSE IF EstaModificando(i) THEN "blocks" ELSE "truncar"
           /\ hilo'[i].partes = Tail(hilo[i].partes) /\ hilo'[i].nuevos = Append(hilo[i].nuevos, b)
           /\ hilo'[i].blocks = hilo[i].blocks /\ hilo'[i].posiciones = hilo[i].posiciones
           /\ hilo'[i].resultado = hilo[i].resultado
           /\ bitmap' = bitmap \cup {b}
           /\ bloque' = [bloque EXCEPT ![b] = Head(hilo[i].partes)]
           /\ UNCHANGED metadata
  <1>0. hilo \in [Ids -> Hilo] /\ hilo[i] \in Hilo /\ HilosOK
    BY DEF Tipado, HilosOK
  <1>1. hilo[i].pc = "grabar" /\ UNCHANGED metadata
        /\ grabar_bloque(obtener_ultimo_nro_bloque, Head(hilo[i].partes))
    BY DEF GrabarBloque, En
  <1>2. PICK b \in Bloques \ bitmap : b = obtener_ultimo_nro_bloque
    BY UltimoOK DEF GrabarBloque
  <1> DEFINE x == IF Len(hilo[i].partes) > 1 THEN "grabar"
                  ELSE IF EstaModificando(i) THEN "blocks" ELSE "truncar"
             t == Tail(hilo[i].partes)
             n == Append(hilo[i].nuevos, b)
             r == [hilo[i] EXCEPT !.partes = t, !.nuevos = n, !.pc = x]
  <1>3. hilo' = [hilo EXCEPT ![i] = r]
    BY <1>2 DEF GrabarBloque
  <1>4. hilo[i].partes \in Seq(Seq(Unidad)) /\ hilo[i].partes # <<>> /\ hilo[i].nuevos \in Seq(Bloques)
    BY <1>0, <1>1 DEF Hilo, HilosOK
  <1>5. t \in Seq(Seq(Unidad)) /\ n \in Seq(Bloques)
    <2>1. t \in Seq(Seq(Unidad))
      BY <1>4, HeadTailProperties
    <2> DEFINE m == hilo[i].nuevos
    <2>2. m \in Seq(Bloques) /\ b \in Bloques
      BY <1>4
    <2> HIDE DEF m
    <2>3. Append(m, b) \in Seq(Bloques)
      BY <2>2
    <2> QED BY <2>1, <2>3 DEF m
  <1>6. x \in Pcs
    BY DEF Pcs
  <1>7. /\ x = IF Len(hilo[i].partes) > 1 THEN "grabar"
               ELSE IF EstaModificando(i) THEN "blocks" ELSE "truncar"
        /\ t = Tail(hilo[i].partes) /\ n = Append(hilo[i].nuevos, b)
    OBVIOUS
  <1> HIDE DEF x, t, n
  <1>8. /\ r \in Hilo /\ r.pc = x /\ r.partes = t /\ r.nuevos = n /\ r.blocks = hilo[i].blocks
        /\ r.posiciones = hilo[i].posiciones /\ r.resultado = hilo[i].resultado
    BY <1>0, <1>5, <1>6 DEF Hilo
  <1> HIDE DEF r
  <1>9. Solo(i) /\ hilo'[i] = r
    BY <1>3, <1>8, QuedaOK DEF Queda
  <1>10. bitmap' = bitmap \cup {b} /\ bloque' = [bloque EXCEPT ![b] = Head(hilo[i].partes)]
    BY <1>1, <1>2 DEF grabar_bloque
  <1> QED BY <1>1, <1>2, <1>4, <1>7, <1>8, <1>9, <1>10

LEMMA EscribirEfecto ==
    ASSUME Tipado, NEW i \in Ids, EscribirBlocks(i) \/ EscribirSize(i)
    PROVE  /\ Solo(i) /\ MismoHilo(i) /\ UNCHANGED <<bitmap, bloque>>
           /\ hilo[i].nuevos \in Seq(Bloques) /\ hilo[i].posiciones \in Seq(Viva)
           /\ metadata'[Pokemon(i)].estado = metadata[Pokemon(i)].estado
           /\ \A p \in Pokemones : p # Pokemon(i) => metadata'[p] = metadata[p]
           /\ \/ /\ hilo[i].pc = "blocks" /\ hilo'[i].pc = "size"
                 /\ metadata'[Pokemon(i)].blocks = hilo[i].nuevos
                 /\ metadata'[Pokemon(i)].size = metadata[Pokemon(i)].size
              \/ /\ hilo[i].pc = "size" /\ hilo'[i].pc = "quitar"
                 /\ metadata'[Pokemon(i)].blocks = metadata[Pokemon(i)].blocks
                 /\ metadata'[Pokemon(i)].size = Largo * Len(hilo[i].posiciones)
  <1>0. /\ hilo[i] \in Hilo /\ metadata \in [Pokemones -> Metadata] /\ Pokemon(i) \in Pokemones
        /\ metadata[Pokemon(i)] \in Metadata
    BY MensajeOK DEF Tipado, HilosOK, DiscoOK
  <1>1. hilo[i].nuevos \in Seq(Bloques) /\ hilo[i].posiciones \in Seq(Viva)
    BY <1>0 DEF Hilo
  <1>2. CASE EscribirBlocks(i)
    <2> DEFINE r == [metadata[Pokemon(i)] EXCEPT !.blocks = hilo[i].nuevos]
    <2>1. metadata' = [metadata EXCEPT ![Pokemon(i)] = r]
      BY <1>2, <1>0 DEF EscribirBlocks, modificar_metadata_pokemon
    <2>2. /\ r.estado = metadata[Pokemon(i)].estado /\ r.size = metadata[Pokemon(i)].size
          /\ r.blocks = hilo[i].nuevos
      BY <1>0 DEF Metadata
    <2> HIDE DEF r
    <2>3. IrA(i, "size") /\ hilo[i].pc = "blocks" /\ UNCHANGED <<bitmap, bloque>>
      BY <1>2 DEF EscribirBlocks, En
    <2>4. Solo(i) /\ MismoHilo(i) /\ hilo'[i].pc = "size"
      BY <2>3, IrAQueda DEF Pcs
    <2> QED BY <1>0, <1>1, <2>1, <2>2, <2>3, <2>4
  <1>3. CASE EscribirSize(i)
    <2> DEFINE n == Largo * Len(hilo[i].posiciones)
               r == [metadata[Pokemon(i)] EXCEPT !.size = n]
    <2>1. metadata' = [metadata EXCEPT ![Pokemon(i)] = r]
      BY <1>3, <1>0 DEF EscribirSize, modificar_metadata_pokemon
    <2> HIDE DEF n
    <2>2. /\ r.estado = metadata[Pokemon(i)].estado /\ r.size = n
          /\ r.blocks = metadata[Pokemon(i)].blocks
      BY <1>0 DEF Metadata
    <2> HIDE DEF r
    <2>3. IrA(i, "quitar") /\ hilo[i].pc = "size" /\ UNCHANGED <<bitmap, bloque>>
      BY <1>3 DEF EscribirSize, En
    <2>4. Solo(i) /\ MismoHilo(i) /\ hilo'[i].pc = "quitar"
      BY <2>3, IrAQueda DEF Pcs
    <2> QED BY <1>0, <1>1, <2>1, <2>2, <2>3, <2>4 DEF n
  <1> QED BY <1>2, <1>3

LEMMA TruncarEfecto ==
    ASSUME Tipado, NEW i \in Ids, Truncar(i)
    PROVE  /\ Solo(i) /\ MismoHilo(i) /\ UNCHANGED <<bitmap, bloque>>
           /\ hilo[i].pc = "truncar" /\ hilo'[i].pc = "metadata"
           /\ metadata'[Pokemon(i)].estado = "vacia" /\ metadata'[Pokemon(i)].blocks = <<>>
           /\ \A p \in Pokemones : p # Pokemon(i) => metadata'[p] = metadata[p]
  <1>0. metadata \in [Pokemones -> Metadata] /\ Pokemon(i) \in Pokemones
    BY MensajeOK DEF Tipado, DiscoOK
  <1>1. /\ IrA(i, "metadata") /\ hilo[i].pc = "truncar" /\ UNCHANGED <<bitmap, bloque>>
        /\ metadata' = [metadata EXCEPT ![Pokemon(i)] = Vacia]
    BY DEF Truncar, En
  <1>2. Solo(i) /\ MismoHilo(i) /\ hilo'[i].pc = "metadata"
    BY <1>1, IrAQueda DEF Pcs
  <1>3. Vacia.estado = "vacia" /\ Vacia.blocks = <<>>
    BY DEF Vacia, Ausente
  <1> QED BY <1>0, <1>1, <1>2, <1>3

LEMMA CreadoEfecto ==
    ASSUME Tipado, NEW i \in Ids, GrabarMetadata(i)
    PROVE  /\ Solo(i) /\ UNCHANGED <<bitmap, bloque>> /\ hilo[i].nuevos \in Seq(Bloques)
           /\ hilo[i].pc = "metadata" /\ hilo'[i].pc = "enviar"
           /\ hilo'[i].resultado = [tipo |-> "APPEARED", coord |-> SinCoord]
           /\ hilo'[i].nuevos = hilo[i].nuevos /\ hilo'[i].blocks = hilo[i].blocks
           /\ metadata'[Pokemon(i)] = [estado |-> "entera", size |-> Largo,
                                       blocks |-> hilo[i].nuevos, open |-> "N"]
           /\ \A p \in Pokemones : p # Pokemon(i) => metadata'[p] = metadata[p]
  <1>0. hilo[i] \in Hilo /\ metadata \in [Pokemones -> Metadata] /\ Pokemon(i) \in Pokemones
    BY MensajeOK DEF Tipado, HilosOK, DiscoOK
  <1> DEFINE a == [tipo |-> "APPEARED", coord |-> SinCoord]
             r == [hilo[i] EXCEPT !.pc = "enviar", !.resultado = a]
  <1>1. hilo' = [hilo EXCEPT ![i] = r]
    BY DEF GrabarMetadata
  <1>2. a \in Resultado
    BY DEF Resultado, SinCoord
  <1>3. a = [tipo |-> "APPEARED", coord |-> SinCoord]
    OBVIOUS
  <1> HIDE DEF a
  <1>4. /\ r \in Hilo /\ r.pc = "enviar" /\ r.resultado = a /\ r.nuevos = hilo[i].nuevos
        /\ r.blocks = hilo[i].blocks
    BY <1>0, <1>2 DEF Hilo, Pcs
  <1> HIDE DEF r
  <1>5. Solo(i) /\ hilo'[i] = r
    BY <1>1, <1>4, QuedaOK DEF Queda
  <1>6. /\ metadata' = [metadata EXCEPT ![Pokemon(i)] = [estado |-> "entera", size |-> Largo,
                                       blocks |-> hilo[i].nuevos, open |-> "N"]]
        /\ hilo[i].pc = "metadata" /\ UNCHANGED <<bitmap, bloque>>
    BY DEF GrabarMetadata, grabar_metadata_pokemon, En
  <1>7. hilo[i].nuevos \in Seq(Bloques)
    BY <1>0 DEF Hilo
  <1> QED BY <1>0, <1>3, <1>4, <1>5, <1>6, <1>7

LEMMA RelanzarEfecto ==
    ASSUME IInv, Tipado, Reintentar
    PROVE  \E i \in Ids :
           /\ Solo(i) /\ UNCHANGED disco /\ hilo[i].pc = "encolado"
           /\ hilo'[i] = [HiloNuevo EXCEPT !.pc = "existe"]
           /\ UNCHANGED enviada
  <1>1. PICK i \in Ids : i = Head(g_reintentos) /\ hilo[i].pc = "encolado"
    <2>1. /\ g_reintentos \in Seq(Ids) /\ Len(g_reintentos) \in Nat \ {0}
          /\ Head(g_reintentos) = g_reintentos[1]
      BY DEF Reintentar, IInv, Reintentos
    <2> QED BY <2>1 DEF IInv, Reintentos
  <1> DEFINE r == [HiloNuevo EXCEPT !.pc = "existe"]
  <1>2. hilo' = [hilo EXCEPT ![i] = r] /\ UNCHANGED <<disco, enviada>>
    BY <1>1 DEF Reintentar, Relanzar
  <1>3. r \in Hilo
    BY HiloNuevoOK DEF Hilo, Pcs
  <1>4. r = [HiloNuevo EXCEPT !.pc = "existe"]
    OBVIOUS
  <1> HIDE DEF r
  <1>5. Solo(i) /\ hilo'[i] = r
    BY <1>2, <1>3, QuedaOK DEF Queda
  <1> QED BY <1>1, <1>2, <1>4, <1>5

\* The steps there are.
LEMMA LosPasos ==
    ASSUME Tipado, NEW i \in Ids, Recibir(i) \/ Paso(i)
    PROVE  \/ MismosArchivos /\ UNCHANGED hilo
           \/ MismosArchivos /\ Solo(i) /\ MismoHilo(i) /\ Avanza(i)
           \/ LeerArchivo(i) /\ ~UNCHANGED hilo
           \/ LiberarBloque(i) \/ Recortar(i) \/ Crear(i) \/ GrabarBloque(i)
           \/ EscribirBlocks(i) \/ EscribirSize(i) \/ Truncar(i) \/ GrabarMetadata(i)
  <1>1. CASE Quieto(i)
    BY <1>1, QuietoOK
  <1>2. CASE LeerArchivo(i) /\ UNCHANGED hilo
    BY <1>2 DEF LeerArchivo, MismosArchivos, disco
  <1> QED BY <1>1, <1>2 DEF Paso, Quieto

(***************************************************************************)
(* The blocks                                                              *)
(***************************************************************************)
\* The places of a thread that has got no block yet.
SinNuevos == Previas \cup {"liberar", "crear"}

Forma(i) ==
    /\ hilo[i].pc \in SinNuevos => hilo[i].nuevos = <<>>
    /\ SinTerminar(i) /\ hilo[i].pc # "liberar" => hilo[i].blocks = <<>>
    /\ hilo[i].pc = "size" => metadata[Pokemon(i)].blocks = hilo[i].nuevos
    /\ Creador(i) /\ hilo[i].pc # "crear" => hilo[i].posiciones = Pedida(i)

\* What a thread has in memory by where it is, and a file without metadata has no blocks.
Formas ==
    /\ \A i \in Ids : Forma(i)
    /\ \A p \in Pokemones : metadata[p].estado # "entera" => metadata[p].blocks = <<>>

\* A step of thread i and on the file of its pokemon only.
SoloSuArchivo(i) == \A p \in Pokemones : p # Pokemon(i) =>
                       metadata'[p].estado = metadata[p].estado /\ metadata'[p].blocks = metadata[p].blocks

LEMMA FormasDe ==
    ASSUME Formas, NEW i \in Ids, Solo(i), SoloSuArchivo(i),
           Forma(i)',
           metadata'[Pokemon(i)].estado # "entera" => metadata'[Pokemon(i)].blocks = <<>>,
           \/ metadata'[Pokemon(i)].blocks = metadata[Pokemon(i)].blocks
           \/ \A j \in Ids : j # i /\ hilo[j].pc = "size" => Pokemon(j) # Pokemon(i)
    PROVE  Formas'
  <1>1. ASSUME NEW j \in Ids, j # i PROVE Forma(j)'
    <2>1. hilo'[j] = hilo[j] /\ (SinTerminar(j)' <=> SinTerminar(j)) /\ (Creador(j)' <=> Creador(j))
      BY <1>1 DEF Solo, SinTerminar, Creador, EstaModificando
    <2>2. hilo[j].pc = "size" => metadata'[Pokemon(j)].blocks = metadata[Pokemon(j)].blocks
      BY <1>1, MensajeOK DEF SoloSuArchivo
    <2>3. Forma(j)
      BY DEF Formas
    <2> QED BY <2>1, <2>2, <2>3 DEF Forma, Pokemon, Pedida
  <1>2. ASSUME NEW p \in Pokemones, metadata'[p].estado # "entera" PROVE metadata'[p].blocks = <<>>
    BY <1>2 DEF Formas, SoloSuArchivo
  <1> QED BY <1>1, <1>2 DEF Formas

LEMMA FormasOK ==
    ASSUME Siempre2, Siempre2', Formas, NEW i \in Ids, Recibir(i) \/ Paso(i)
    PROVE  Formas'
  <1>0. /\ Tipado /\ IInv /\ Altas /\ Pokemon(i) \in Pokemones /\ Forma(i)
        /\ metadata[Pokemon(i)].estado # "entera" => metadata[Pokemon(i)].blocks = <<>>
    BY MensajeOK DEF Siempre2, Siempre1, Formas
  <1>1. CASE MismosArchivos /\ UNCHANGED hilo
    BY <1>1, MensajeOK DEF Formas, Forma, MismosArchivos, SinTerminar, Creador, EstaModificando, Pokemon, Pedida
  <1>2. CASE MismosArchivos /\ Solo(i) /\ MismoHilo(i) /\ Avanza(i)
    <2>1. (SinTerminar(i)' => SinTerminar(i) /\ hilo[i].pc # "liberar")
          /\ (Creador(i)' /\ hilo'[i].pc # "crear" => Creador(i) /\ hilo[i].pc # "crear")
          /\ hilo'[i].pc # "size" /\ (hilo'[i].pc \in SinNuevos => hilo[i].pc \in SinNuevos)
      BY <1>2 DEF Avanza, MismoHilo, SinTerminar, Creador, EstaModificando, Previas, SinNuevos
    <2>2. Forma(i)'
      BY <1>0, <1>2, <2>1 DEF Forma, MismoHilo, Pedida
    <2> QED BY <1>0, <1>2, <2>2, FormasDe DEF MismosArchivos, SoloSuArchivo
  <1>3. CASE LeerArchivo(i) /\ ~UNCHANGED hilo
    <2>1. /\ Solo(i) /\ hilo[i].pc = "leer" /\ hilo'[i].pc \in {"liberar", "quitar"}
          /\ hilo'[i].nuevos = hilo[i].nuevos /\ UNCHANGED disco
      BY <1>0, <1>3, LeerEfecto
    <2>2. Forma(i)'
      BY <1>0, <2>1 DEF Forma, SinTerminar, Creador, SinNuevos, Previas
    <2> QED BY <1>0, <2>1, <2>2, FormasDe DEF SoloSuArchivo, disco
  <1>4. CASE LiberarBloque(i)
    <2>1. /\ Solo(i) /\ hilo[i].pc = "liberar" /\ hilo'[i].pc = "liberar"
          /\ hilo'[i].nuevos = hilo[i].nuevos /\ UNCHANGED metadata
      BY <1>0, <1>4, LiberarEfecto
    <2>2. Forma(i)'
      BY <1>0, <2>1 DEF Forma, Creador
    <2> QED BY <1>0, <2>1, <2>2, FormasDe DEF SoloSuArchivo
  <1>5. CASE Recortar(i) \/ Crear(i)
    <2>1. /\ Solo(i) /\ hilo[i].pc \in {"liberar", "crear"}
          /\ hilo'[i].pc \in {"blocks", "grabar"}
          /\ hilo'[i].resultado = hilo[i].resultado
          /\ hilo[i].pc = "liberar" => hilo'[i].blocks = <<>>
          /\ hilo[i].pc = "crear" => hilo'[i].posiciones = Pedida(i)
          /\ UNCHANGED disco
      BY <1>0, <1>5, RecortarEfecto, CrearEfecto
    <2>2. (hilo[i].pc = "liberar" => EstaModificando(i)') /\ (hilo[i].pc = "crear" => ~EstaModificando(i)')
      BY <1>0, <2>1 DEF IInv, Decididos, EstaModificando
    <2>3. Forma(i)'
      BY <1>0, <2>1, <2>2 DEF Forma, Creador, SinTerminar, SinNuevos, Previas, Pedida
    <2> QED BY <1>0, <2>1, <2>3, FormasDe DEF SoloSuArchivo, disco
  <1>6. CASE GrabarBloque(i)
    <2>1. /\ Solo(i) /\ hilo[i].pc = "grabar"
          /\ hilo'[i].pc \in {"grabar", "blocks", "truncar"}
          /\ hilo'[i].pc = "blocks" => EstaModificando(i)
          /\ hilo'[i].pc = "truncar" => ~EstaModificando(i)
          /\ hilo'[i].blocks = hilo[i].blocks /\ hilo'[i].posiciones = hilo[i].posiciones
          /\ hilo'[i].resultado = hilo[i].resultado /\ UNCHANGED metadata
      BY <1>0, <1>6, GrabarEfecto
    <2>2. (SinTerminar(i)' => SinTerminar(i)) /\ (Creador(i)' => Creador(i))
      BY <2>1 DEF SinTerminar, Creador, EstaModificando
    <2>3. Forma(i)'
      BY <1>0, <2>1, <2>2 DEF Forma, SinNuevos, Previas, Pedida
    <2> QED BY <1>0, <2>1, <2>3, FormasDe DEF SoloSuArchivo
  <1>7. CASE EscribirBlocks(i) \/ EscribirSize(i)
    <2>1. /\ Solo(i) /\ MismoHilo(i) /\ UNCHANGED <<bitmap, bloque>>
          /\ metadata'[Pokemon(i)].estado = metadata[Pokemon(i)].estado
          /\ \A p \in Pokemones : p # Pokemon(i) => metadata'[p] = metadata[p]
          /\ \/ /\ hilo[i].pc = "blocks" /\ hilo'[i].pc = "size"
                /\ metadata'[Pokemon(i)].blocks = hilo[i].nuevos
             \/ /\ hilo[i].pc = "size" /\ hilo'[i].pc = "quitar"
                /\ metadata'[Pokemon(i)].blocks = metadata[Pokemon(i)].blocks
      BY <1>0, <1>7, EscribirEfecto
    <2>2. EstaModificando(i)
      BY <1>0, <2>1 DEF IInv, Decididos
    <2>3. TieneElMutex(i) /\ SinTerminar(i)
      BY <2>1, <2>2 DEF TieneElMutex, LoTieneAbierto, SinTerminar
    <2>4. Forma(i)'
      BY <1>0, <2>1, <2>3 DEF Forma, MismoHilo, SinNuevos, Previas, Creador, SinTerminar, Pokemon
    <2>5. metadata[Pokemon(i)].estado = "entera"
      BY <1>0, <2>3 DEF Altas, Abriendo
    <2>6. \A j \in Ids : j # i /\ hilo[j].pc = "size" => FALSE
      <3>1. ASSUME NEW j \in Ids, hilo[j].pc = "size" PROVE TieneElMutex(j)
        <4>1. EstaModificando(j)
          BY <1>0, <3>1 DEF IInv, Decididos
        <4> QED BY <3>1, <4>1 DEF TieneElMutex, LoTieneAbierto, SinTerminar
      <3> QED BY <1>0, <2>3, <3>1, UnoSolo
    <2> QED BY <1>0, <2>1, <2>4, <2>5, <2>6, FormasDe DEF SoloSuArchivo
  <1>8. CASE Truncar(i) \/ GrabarMetadata(i)
    <2>1. /\ Solo(i)
          /\ \A p \in Pokemones : p # Pokemon(i) => metadata'[p] = metadata[p]
          /\ \/ /\ hilo[i].pc = "truncar" /\ hilo'[i].pc = "metadata" /\ MismoHilo(i)
                /\ metadata'[Pokemon(i)].estado = "vacia" /\ metadata'[Pokemon(i)].blocks = <<>>
             \/ /\ hilo[i].pc = "metadata" /\ hilo'[i].pc = "enviar"
                /\ metadata'[Pokemon(i)].estado = "entera"
      <3>1. CASE Truncar(i)
        BY <1>0, <3>1, TruncarEfecto
      <3>2. CASE GrabarMetadata(i)
        <4>1. /\ Solo(i) /\ hilo[i].pc = "metadata" /\ hilo'[i].pc = "enviar"
              /\ \A p \in Pokemones : p # Pokemon(i) => metadata'[p] = metadata[p]
          BY <1>0, <3>2, CreadoEfecto
        <4>2. metadata'[Pokemon(i)] = [estado |-> "entera", size |-> Largo, blocks |-> hilo[i].nuevos, open |-> "N"]
          BY <1>0, <3>2, CreadoEfecto
        <4>3. metadata'[Pokemon(i)].estado = "entera"
          BY <4>2
        <4> QED BY <4>1, <4>3
      <3> QED BY <1>8, <3>1, <3>2
    <2>2. Creador(i)
      BY <2>1 DEF Creador
    <2>3. Forma(i)'
      BY <1>0, <2>1, <2>2 DEF Forma, MismoHilo, SinNuevos, Previas, Creador, SinTerminar, Pedida
    <2>4. metadata[Pokemon(i)].estado # "entera"
      BY <1>0, <2>2 DEF Altas, Alta
    <2>5. \A j \in Ids : hilo[j].pc = "size" => Pokemon(j) # Pokemon(i)
      <3>1. ASSUME NEW j \in Ids, hilo[j].pc = "size" PROVE metadata[Pokemon(j)].estado = "entera"
        <4>1. EstaModificando(j)
          BY <1>0, <3>1 DEF IInv, Decididos
        <4>2. Abriendo(j)
          BY <3>1, <4>1 DEF Abriendo, TieneElMutex, LoTieneAbierto, SinTerminar
        <4> QED BY <1>0, <4>2 DEF Altas
      <3> QED BY <2>4, <3>1
    <2> QED BY <1>0, <2>1, <2>3, <2>5, FormasDe DEF SoloSuArchivo
  <1> QED BY <1>0, <1>1, <1>2, <1>3, <1>4, <1>5, <1>6, <1>7, <1>8, LosPasos

LEMMA FormasNext ==
    ASSUME Siempre2, Siempre2', Formas, [Next]_vars
    PROVE  Formas'
  <1>1. CASE Reintentar
    <2>1. PICK i \in Ids : /\ Solo(i) /\ UNCHANGED disco
                           /\ hilo'[i] = [HiloNuevo EXCEPT !.pc = "existe"]
      BY <1>1, RelanzarEfecto DEF Siempre2, Siempre1
    <2>2. hilo'[i].pc = "existe" /\ hilo'[i].nuevos = <<>>
      BY <2>1 DEF HiloNuevo
    <2>3. Forma(i)'
      BY <2>2 DEF Forma, SinTerminar, Creador
    <2>4. metadata[Pokemon(i)].estado # "entera" => metadata[Pokemon(i)].blocks = <<>>
      BY MensajeOK DEF Formas
    <2> QED BY <2>1, <2>3, <2>4, FormasDe DEF SoloSuArchivo, disco
  <1>2. CASE DespertarDispatcher \/ FinDispatcher \/ UNCHANGED vars
    <2>1. UNCHANGED <<hilo, metadata>>
      BY <1>2 DEF DespertarDispatcher, FinDispatcher, vars, disco
    <2> QED BY <2>1 DEF Formas, Forma, SinTerminar, Creador, EstaModificando, Pokemon, Pedida
  <1> QED BY <1>1, <1>2, FormasOK DEF Next, Dispatcher

LEMMA FormasInicio == Init => Formas
  <1> SUFFICES ASSUME Init PROVE Formas
    OBVIOUS
  <1>1. \A i \in Ids : hilo[i].pc = "fuera" /\ hilo[i].nuevos = <<>>
    BY DEF Init, HiloNuevo
  <1>2. \A p \in Pokemones : metadata[p].estado # "entera" => metadata[p].blocks = <<>>
    BY DEF Init, InitDisco, Ausente
  <1> QED BY <1>1, <1>2 DEF Formas, Forma, SinTerminar, Creador

(***************************************************************************)
(* Blocks dealt out: T gives each owner of S a list of blocks, and each    *)
(* block of B is in one place of one list                                  *)
(***************************************************************************)
Repartido(S, T, B) ==
    /\ \A d \in S : T[d] \in Seq(Bloques)
    /\ \A d \in S : \A n \in 1 .. Len(T[d]) : T[d][n] \in B
    /\ \A b \in B : \E d \in S : \E n \in 1 .. Len(T[d]) : T[d][n] = b
    /\ \A d, e \in S : \A n \in 1 .. Len(T[d]), m \in 1 .. Len(T[e]) :
          T[d][n] = T[e][m] => d = e /\ n = m

\* The others keep what they have.
Salvo(S, T, U, d, e) == \A c \in S : c # d /\ c # e => U[c] = T[c]

LEMMA UnaVez ==
    ASSUME NEW S, NEW T, NEW B, Repartido(S, T, B), NEW c \in S, NEW e \in S,
           NEW n \in 1 .. Len(T[c]), NEW m \in 1 .. Len(T[e]), T[c][n] = T[e][m]
    PROVE  c = e /\ n = m
  BY DEF Repartido

\* d passes all its blocks to e, which had none.
LEMMA Mover ==
    ASSUME NEW S, NEW T, NEW U, NEW B, Repartido(S, T, B), NEW d \in S, NEW e \in S, d # e,
           T[e] = <<>>, U[d] = <<>>, U[e] = T[d], Salvo(S, T, U, d, e)
    PROVE  Repartido(S, U, B)
  <1>0. Len(T[e]) = 0 /\ Len(U[d]) = 0 /\ <<>> \in Seq(Bloques)
    OBVIOUS
  <1> DEFINE g(c) == IF c = e THEN d ELSE IF c = d THEN e ELSE c
  <1>1. \A c \in S : g(c) \in S /\ U[c] = T[g(c)] /\ g(g(c)) = c
    BY DEF Salvo
  <1>2. \A c, f \in S : g(c) = g(f) => c = f
    OBVIOUS
  <1> HIDE DEF g
  <1>3. \A c \in S : U[c] \in Seq(Bloques)
    BY <1>1 DEF Repartido
  <1>4. \A c \in S : \A n \in 1 .. Len(U[c]) : U[c][n] \in B
    BY <1>1 DEF Repartido
  <1>5. ASSUME NEW b \in B PROVE \E c \in S : \E n \in 1 .. Len(U[c]) : U[c][n] = b
    <2>1. PICK c \in S : \E n \in 1 .. Len(T[c]) : T[c][n] = b
      BY DEF Repartido
    <2>2. g(c) \in S /\ U[g(c)] = T[c]
      BY <1>1
    <2> QED BY <2>1, <2>2
  <1>6. ASSUME NEW c \in S, NEW f \in S, NEW n \in 1 .. Len(U[c]), NEW m \in 1 .. Len(U[f]), U[c][n] = U[f][m]
        PROVE  c = f /\ n = m
    <2>1. g(c) \in S /\ g(f) \in S /\ U[c] = T[g(c)] /\ U[f] = T[g(f)]
      BY <1>1
    <2>2. g(c) = g(f) /\ n = m
      BY <1>6, <2>1 DEF Repartido
    <2> QED BY <1>2, <2>2
  <1> QED BY <1>3, <1>4, <1>5, <1>6 DEF Repartido

\* d loses the first of its blocks.
LEMMA Sacar ==
    ASSUME NEW S, NEW T, NEW U, NEW B, Repartido(S, T, B), NEW d \in S,
           T[d] # <<>>, U[d] = Tail(T[d]), Salvo(S, T, U, d, d)
    PROVE  Repartido(S, U, B \ {Head(T[d])})
  <1> DEFINE q == T[d]
             b0 == Head(q)
  <1>1. q \in Seq(Bloques) /\ q # <<>>
    BY DEF Repartido
  <1> HIDE DEF q
  <1>2. /\ Len(q) \in Nat /\ Len(q) > 0 /\ b0 = q[1]
        /\ Tail(q) \in Seq(Bloques) /\ Len(Tail(q)) = Len(q) - 1
        /\ \A n \in 1 .. Len(q) - 1 : Tail(q)[n] = q[n + 1]
    BY <1>1, HeadTailProperties, LenProperties
  <1> HIDE DEF b0
  <1>3. U[d] = Tail(q) /\ T[d] = q
    BY DEF q
  <1>4. \A c \in S : U[c] \in Seq(Bloques)
    BY <1>2, <1>3 DEF Repartido, Salvo
  <1>5. \A n \in 1 .. Len(U[d]) : n + 1 \in 1 .. Len(T[d]) /\ U[d][n] = T[d][n + 1]
    BY <1>2, <1>3
  <1>6. 1 \in 1 .. Len(T[d]) /\ T[d][1] = b0
    BY <1>2, <1>3
  <1>7. ASSUME NEW c \in S, NEW n \in 1 .. Len(U[c])
        PROVE  U[c][n] \in B /\ U[c][n] # b0
    <2>1. CASE c = d
      <3>1. PICK k \in 1 .. Len(T[d]) : k = n + 1 /\ U[d][n] = T[d][k]
        BY <1>5, <2>1
      <3>2. T[d][k] \in B /\ (T[d][k] = T[d][1] => k = 1)
        BY <1>6 DEF Repartido
      <3>3. n \in Nat /\ n >= 1
        BY <1>4
      <3>4. k # 1
        BY <3>1, <3>3
      <3> QED BY <1>6, <2>1, <3>1, <3>2, <3>4
    <2>2. CASE c # d
      <3>1. U[c] = T[c]
        BY <2>2 DEF Salvo
      <3> QED BY <1>6, <2>2, <3>1 DEF Repartido
    <2> QED BY <2>1, <2>2
  <1>8. ASSUME NEW b \in B, b # b0
        PROVE  \E c \in S : \E n \in 1 .. Len(U[c]) : U[c][n] = b
    <2>0. PICK c \in S : \E n \in 1 .. Len(T[c]) : T[c][n] = b
      BY DEF Repartido
    <2>1. PICK n \in 1 .. Len(T[c]) : T[c][n] = b
      BY <2>0
    <2>2. CASE c = d
      <3>1. n \in 1 .. Len(q) /\ n # 1
        BY <1>3, <1>6, <1>8, <2>1, <2>2
      <3>2. PICK k : k = n - 1
        OBVIOUS
      <3>3. k \in 1 .. Len(q) - 1 /\ k + 1 = n
        BY <1>2, <3>1, <3>2
      <3>4. k \in 1 .. Len(U[d]) /\ U[d][k] = T[d][n]
        BY <1>2, <1>3, <3>3
      <3> QED BY <2>1, <2>2, <3>4
    <2>3. CASE c # d
      BY <2>1, <2>3 DEF Salvo
    <2> QED BY <2>2, <2>3
  <1>9. ASSUME NEW c \in S, NEW f \in S, NEW n \in 1 .. Len(U[c]), NEW m \in 1 .. Len(U[f]), U[c][n] = U[f][m]
        PROVE  c = f /\ n = m
    <2>1. \A e \in S : \A k \in 1 .. Len(U[e]) :
             \E l \in 1 .. Len(T[e]) : U[e][k] = T[e][l] /\ l = IF e = d THEN k + 1 ELSE k
      BY <1>5 DEF Salvo
    <2>2. PICK k \in 1 .. Len(T[c]) : U[c][n] = T[c][k] /\ k = IF c = d THEN n + 1 ELSE n
      BY <2>1
    <2>3. PICK l \in 1 .. Len(T[f]) : U[f][m] = T[f][l] /\ l = IF f = d THEN m + 1 ELSE m
      BY <2>1
    <2>6. T[c][k] = T[f][l]
      BY <1>9, <2>2, <2>3
    <2>4. c = f /\ k = l
      BY <2>6, UnaVez
    <2>5. n \in Int /\ m \in Int
      OBVIOUS
    <2> QED BY <2>2, <2>3, <2>4, <2>5
  <1>10. \A b \in B \ {b0} : \E c \in S : \E n \in 1 .. Len(U[c]) : U[c][n] = b
    BY <1>8
  <1>11. \A c \in S : \A n \in 1 .. Len(U[c]) : U[c][n] \in B \ {b0}
    BY <1>7
  <1>12. Repartido(S, U, B \ {b0})
    BY <1>4, <1>9, <1>10, <1>11 DEF Repartido
  <1> QED BY <1>12 DEF b0, q

\* d gets a block that nobody had.
LEMMA Poner ==
    ASSUME NEW S, NEW T, NEW U, NEW B, Repartido(S, T, B), NEW d \in S, NEW b0 \in Bloques, b0 \notin B,
           U[d] = Append(T[d], b0), Salvo(S, T, U, d, d)
    PROVE  Repartido(S, U, B \cup {b0})
  <1> DEFINE q == T[d]
  <1>1. q \in Seq(Bloques)
    BY DEF Repartido
  <1> HIDE DEF q
  <1>2. /\ Len(q) \in Nat /\ Append(q, b0) \in Seq(Bloques) /\ Len(Append(q, b0)) = Len(q) + 1
        /\ \A n \in 1 .. Len(q) : Append(q, b0)[n] = q[n]
        /\ Append(q, b0)[Len(q) + 1] = b0
    BY <1>1, AppendProperties, LenProperties
  <1>3. U[d] = Append(q, b0) /\ T[d] = q
    BY DEF q
  <1>4. \A c \in S : U[c] \in Seq(Bloques)
    BY <1>2, <1>3 DEF Repartido, Salvo
  <1>5. \A c \in S : \A n \in 1 .. Len(T[c]) : n \in 1 .. Len(U[c]) /\ U[c][n] = T[c][n]
    BY <1>2, <1>3 DEF Salvo
  <1>6. \A c \in S : \A n \in 1 .. Len(U[c]) :
           (c = d /\ n = Len(q) + 1 /\ U[c][n] = b0) \/ (n \in 1 .. Len(T[c]) /\ U[c][n] = T[c][n])
    BY <1>2, <1>3 DEF Salvo
  <1>7. Len(q) + 1 \in 1 .. Len(U[d]) /\ U[d][Len(q) + 1] = b0
    BY <1>2, <1>3
  <1>8. \A c \in S : \A n \in 1 .. Len(T[c]) : T[c][n] \in B /\ T[c][n] # b0
    BY DEF Repartido
  <1>9. \A c \in S : \A n \in 1 .. Len(U[c]) : U[c][n] \in B \cup {b0}
    BY <1>6, <1>8
  <1>10. ASSUME NEW b \in B \cup {b0} PROVE \E c \in S : \E n \in 1 .. Len(U[c]) : U[c][n] = b
    <2>1. CASE b = b0
      BY <1>7, <2>1
    <2>2. CASE b \in B
      BY <1>5, <2>2 DEF Repartido
    <2> QED BY <2>1, <2>2
  <1>11. ASSUME NEW c \in S, NEW f \in S, NEW n \in 1 .. Len(U[c]), NEW m \in 1 .. Len(U[f]), U[c][n] = U[f][m]
        PROVE  c = f /\ n = m
    <2>1. CASE U[c][n] = b0
      <3>1. c = d /\ n = Len(q) + 1
        BY <1>6, <1>8, <2>1
      <3>2. U[f][m] = b0
        BY <1>11, <2>1
      <3>3. f = d /\ m = Len(q) + 1
        BY <1>6, <1>8, <3>2
      <3> QED BY <3>1, <3>3
    <2>2. CASE U[c][n] # b0
      <3>1. n \in 1 .. Len(T[c]) /\ U[c][n] = T[c][n] /\ m \in 1 .. Len(T[f]) /\ U[f][m] = T[f][m]
        BY <1>6, <1>11, <2>2
      <3>2. T[c][n] = T[f][m] /\ n \in 1 .. Len(T[c]) /\ m \in 1 .. Len(T[f])
        BY <1>11, <3>1
      <3> QED BY <3>2, UnaVez
    <2> QED BY <2>1, <2>2
  <1> QED BY <1>4, <1>9, <1>10, <1>11 DEF Repartido

\* The same lists, the same deal.
LEMMA Igual ==
    ASSUME NEW S, NEW T, NEW U, NEW B, Repartido(S, T, B), \A c \in S : U[c] = T[c]
    PROVE  Repartido(S, U, B)
  BY DEF Repartido

(***************************************************************************)
(* Who has each block: a file that is not half rewritten, a thread that    *)
(* has yet to free it, a thread that got it                                *)
(***************************************************************************)
\* The blocks got by thread i and not yet its file's, those of one that died included.
Tomados(i) == IF hilo[i].pc \in {"grabar", "blocks", "size", "muerto", "truncar", "metadata"}
              THEN hilo[i].nuevos ELSE <<>>

\* Each place where a block is named, the threads that died included.
Menciones ==
    (UNION {{<<"archivo", p, metadata[p].blocks[n], n>> : n \in DOMAIN metadata[p].blocks} :
             p \in {q \in Pokemones : ~AMedias(q)}})
    \cup (UNION {{<<"viejo", i, hilo[i].blocks[n], n>> : n \in DOMAIN hilo[i].blocks} :
             i \in {j \in Ids : SinTerminar(j)}})
    \cup (UNION {{<<"nuevo", i, Tomados(i)[n], n>> : n \in DOMAIN Tomados(i)} : i \in Ids})

Duenos == ({"archivo"} \X Pokemones) \cup ({"viejo", "nuevo"} \X Ids)

DelArchivo(p) == IF AMedias(p) THEN <<>> ELSE metadata[p].blocks
PorLiberar(i) == IF SinTerminar(i) THEN hilo[i].blocks ELSE <<>>

Reparto == [d \in Duenos |-> IF d[1] = "archivo" THEN DelArchivo(d[2])
                             ELSE IF d[1] = "viejo" THEN PorLiberar(d[2]) ELSE Tomados(d[2])]

Repartos == Repartido(Duenos, Reparto, bitmap)

LEMMA DuenosOK ==
    /\ \A p \in Pokemones : <<"archivo", p>> \in Duenos
    /\ \A i \in Ids : <<"viejo", i>> \in Duenos /\ <<"nuevo", i>> \in Duenos
    /\ \A d \in Duenos : \/ \E p \in Pokemones : d = <<"archivo", p>>
                         \/ \E i \in Ids : d = <<"viejo", i>> \/ d = <<"nuevo", i>>
  BY DEF Duenos

LEMMA RepartoEs ==
    /\ \A p \in Pokemones : Reparto[<<"archivo", p>>] = DelArchivo(p)
    /\ \A i \in Ids : Reparto[<<"viejo", i>>] = PorLiberar(i) /\ Reparto[<<"nuevo", i>>] = Tomados(i)
  BY DuenosOK DEF Reparto

LEMMA RepartoSera ==
    /\ \A p \in Pokemones : Reparto'[<<"archivo", p>>] = DelArchivo(p)'
    /\ \A i \in Ids : Reparto'[<<"viejo", i>>] = PorLiberar(i)' /\ Reparto'[<<"nuevo", i>>] = Tomados(i)'
  BY DuenosOK DEF Reparto

LEMMA AMediasIgual ==
    ASSUME NEW i \in Ids, Solo(i), SinTerminar(i)' <=> SinTerminar(i), NEW p
    PROVE  AMedias(p)' <=> AMedias(p)
  <1>1. \A j \in Ids : SinTerminar(j)' <=> SinTerminar(j)
    BY DEF Solo, SinTerminar, EstaModificando
  <1> QED BY <1>1 DEF AMedias, Pokemon

LEMMA AMediasOtro ==
    ASSUME NEW i \in Ids, Solo(i), NEW p, p # Pokemon(i)
    PROVE  AMedias(p)' <=> AMedias(p)
  <1>1. \A j \in Ids : j # i => (SinTerminar(j)' <=> SinTerminar(j))
    BY DEF Solo, SinTerminar, EstaModificando
  <1> QED BY <1>1 DEF AMedias, Pokemon

\* Who holds the mutex is the one that rewrites, if somebody does.
LEMMA AMediasSuyo ==
    ASSUME IInv, NEW i \in Ids, TieneElMutex(i)
    PROVE  \A p : AMedias(p) <=> p = Pokemon(i) /\ SinTerminar(i)
  <1>1. \A j \in Ids : SinTerminar(j) => j = i
    <2>1. \A j \in Ids : SinTerminar(j) => TieneElMutex(j)
      BY DEF TieneElMutex, LoTieneAbierto
    <2> QED BY <2>1, UnoSolo
  <1> QED BY <1>1 DEF AMedias

LEMMA AMediasEntera ==
    ASSUME Altas, NEW p, AMedias(p)
    PROVE  metadata[p].estado = "entera"
  <1>1. PICK i \in Ids : Pokemon(i) = p /\ SinTerminar(i)
    BY DEF AMedias
  <1>2. Abriendo(i)
    BY <1>1 DEF Abriendo, TieneElMutex, LoTieneAbierto
  <1> QED BY <1>1, <1>2 DEF Altas

\* A step of thread i changes at most what it and the file of its pokemon have.
LEMMA Ajenos ==
    ASSUME NEW i \in Ids, Solo(i), SoloSuArchivo(i), NEW d \in Duenos,
           d # <<"archivo", Pokemon(i)>>, d # <<"viejo", i>>, d # <<"nuevo", i>>
    PROVE  Reparto'[d] = Reparto[d]
  <1>1. CASE \E p \in Pokemones : d = <<"archivo", p>>
    <2>1. PICK p \in Pokemones : d = <<"archivo", p>>
      BY <1>1
    <2>2. p # Pokemon(i)
      BY <2>1
    <2>3. DelArchivo(p)' = DelArchivo(p)
      BY <2>2, AMediasOtro DEF DelArchivo, SoloSuArchivo
    <2> QED BY <2>1, <2>3, RepartoEs, RepartoSera
  <1>2. CASE \E j \in Ids : d = <<"viejo", j>> \/ d = <<"nuevo", j>>
    <2>1. PICK j \in Ids : d = <<"viejo", j>> \/ d = <<"nuevo", j>>
      BY <1>2
    <2>2. j # i
      BY <2>1
    <2>3. PorLiberar(j)' = PorLiberar(j) /\ Tomados(j)' = Tomados(j)
      BY <2>2 DEF Solo, PorLiberar, Tomados, SinTerminar, EstaModificando
    <2> QED BY <2>1, <2>3, RepartoEs, RepartoSera
  <1> QED BY <1>1, <1>2, DuenosOK

\* Nothing passes from hand to hand.
LEMMA RepartosIgual ==
    ASSUME Repartos, NEW i \in Ids, Solo(i), SoloSuArchivo(i), UNCHANGED bitmap,
           DelArchivo(Pokemon(i))' = DelArchivo(Pokemon(i)),
           PorLiberar(i)' = PorLiberar(i), Tomados(i)' = Tomados(i)
    PROVE  Repartos'
  <1>1. Pokemon(i) \in Pokemones
    BY MensajeOK
  <1>2. ASSUME NEW d \in Duenos PROVE Reparto'[d] = Reparto[d]
    <2> DEFINE p == Pokemon(i)
    <2>1. DelArchivo(p)' = DelArchivo(p)
      BY DEF Pokemon
    <2>2. Reparto'[<<"archivo", p>>] = Reparto[<<"archivo", p>>]
      BY <1>1, <2>1, RepartoEs, RepartoSera
    <2>3. Reparto'[<<"viejo", i>>] = Reparto[<<"viejo", i>>] /\ Reparto'[<<"nuevo", i>>] = Reparto[<<"nuevo", i>>]
      BY RepartoEs, RepartoSera
    <2> QED BY <2>2, <2>3, Ajenos
  <1> DEFINE U == Reparto'
  <1>3. \A d \in Duenos : U[d] = Reparto[d]
    BY <1>2
  <1> HIDE DEF U
  <1>4. Repartido(Duenos, U, bitmap)
    BY <1>3, Igual DEF Repartos
  <1>5. Duenos' = Duenos
    BY DEF Duenos
  <1> QED BY <1>4, <1>5 DEF Repartos, Repartido, U

\* The blocks of one of the places of thread i pass to another, and the third keeps its own.
LEMMA RepartosMueve ==
    ASSUME Repartos, NEW i \in Ids, Solo(i), SoloSuArchivo(i), UNCHANGED bitmap,
           NEW d \in Duenos, NEW e \in Duenos, d # e,
           Reparto[e] = <<>>, Reparto'[d] = <<>>, Reparto'[e] = Reparto[d],
           \A c \in {<<"archivo", Pokemon(i)>>, <<"viejo", i>>, <<"nuevo", i>>} :
              c # d /\ c # e => Reparto'[c] = Reparto[c]
    PROVE  Repartos'
  <1> DEFINE U == Reparto'
  <1>1. \A c \in Duenos : c # d /\ c # e => U[c] = Reparto[c]
    BY Ajenos
  <1>2. U[d] = <<>> /\ U[e] = Reparto[d]
    OBVIOUS
  <1> HIDE DEF U
  <1>3. Repartido(Duenos, U, bitmap)
    BY <1>1, <1>2, Mover DEF Repartos, Salvo
  <1> QED BY <1>3 DEF Repartos, Repartido, U, Duenos

LEMMA RepartosSaca ==
    ASSUME Repartos, NEW i \in Ids, Solo(i), SoloSuArchivo(i),
           NEW d \in Duenos, Reparto[d] # <<>>, bitmap' = bitmap \ {Head(Reparto[d])},
           Reparto'[d] = Tail(Reparto[d]),
           \A c \in {<<"archivo", Pokemon(i)>>, <<"viejo", i>>, <<"nuevo", i>>} :
              c # d => Reparto'[c] = Reparto[c]
    PROVE  Repartos'
  <1> DEFINE U == Reparto'
  <1>1. \A c \in Duenos : c # d => U[c] = Reparto[c]
    BY Ajenos
  <1>2. U[d] = Tail(Reparto[d])
    OBVIOUS
  <1> HIDE DEF U
  <1>3. Repartido(Duenos, U, bitmap \ {Head(Reparto[d])})
    BY <1>1, <1>2, Sacar DEF Repartos, Salvo
  <1> QED BY <1>3 DEF Repartos, Repartido, U, Duenos

LEMMA RepartosPone ==
    ASSUME Repartos, NEW i \in Ids, Solo(i), SoloSuArchivo(i),
           NEW d \in Duenos, NEW b \in Bloques, b \notin bitmap, bitmap' = bitmap \cup {b},
           Reparto'[d] = Append(Reparto[d], b),
           \A c \in {<<"archivo", Pokemon(i)>>, <<"viejo", i>>, <<"nuevo", i>>} :
              c # d => Reparto'[c] = Reparto[c]
    PROVE  Repartos'
  <1> DEFINE U == Reparto'
  <1>1. ASSUME NEW c \in Duenos, c # d PROVE U[c] = Reparto[c]
    <2>1. CASE c \in {<<"archivo", Pokemon(i)>>, <<"viejo", i>>, <<"nuevo", i>>}
      BY <1>1, <2>1
    <2>2. CASE c \notin {<<"archivo", Pokemon(i)>>, <<"viejo", i>>, <<"nuevo", i>>}
      BY <2>2, Ajenos
    <2> QED BY <2>1, <2>2
  <1>2. U[d] = Append(Reparto[d], b)
    OBVIOUS
  <1> HIDE DEF U
  <1>3. Repartido(Duenos, U, bitmap \cup {b})
    BY <1>1, <1>2, Poner DEF Repartos, Salvo
  <1> QED BY <1>3 DEF Repartos, Repartido, U, Duenos

LEMMA RepartosOK ==
    ASSUME Siempre2, Siempre2', Formas, Formas', Repartos, NEW i \in Ids, Recibir(i) \/ Paso(i)
    PROVE  Repartos'
  <1> DEFINE p == Pokemon(i)
             da == <<"archivo", p>>
             dv == <<"viejo", i>>
             dn == <<"nuevo", i>>
  <1>0. /\ Tipado /\ IInv /\ IInv' /\ Altas /\ p \in Pokemones /\ Forma(i)
        /\ metadata[p].estado # "entera" => metadata[p].blocks = <<>>
    BY MensajeOK DEF Siempre2, Siempre1, Formas
  <1>00. /\ da \in Duenos /\ dv \in Duenos /\ dn \in Duenos /\ da # dv /\ da # dn /\ dv # dn
         /\ Reparto[da] = DelArchivo(p) /\ Reparto[dv] = PorLiberar(i) /\ Reparto[dn] = Tomados(i)
         /\ Reparto'[da] = DelArchivo(p)' /\ Reparto'[dv] = PorLiberar(i)' /\ Reparto'[dn] = Tomados(i)'
    <2>1. p' = p
      BY DEF Pokemon
    <2> QED BY <1>0, <2>1, DuenosOK, RepartoEs, RepartoSera
  <1>000. p' = p /\ DelArchivo(p)' = IF AMedias(p)' THEN <<>> ELSE metadata'[p].blocks
    BY DEF Pokemon, DelArchivo
  <1>1. CASE MismosArchivos /\ UNCHANGED hilo
    <2>1. \A j \in Ids : SinTerminar(j)' <=> SinTerminar(j)
      BY <1>1 DEF SinTerminar, EstaModificando
    <2>2. \A q \in Pokemones : DelArchivo(q)' = DelArchivo(q)
      BY <1>1, <2>1 DEF DelArchivo, AMedias, MismosArchivos, Pokemon
    <2>3. \A j \in Ids : PorLiberar(j)' = PorLiberar(j) /\ Tomados(j)' = Tomados(j)
      BY <1>1, <2>1 DEF PorLiberar, Tomados
    <2> DEFINE U == Reparto'
    <2>4. ASSUME NEW d \in Duenos PROVE U[d] = Reparto[d]
      <3>1. CASE \E q \in Pokemones : d = <<"archivo", q>>
        BY <2>2, <3>1, RepartoEs, RepartoSera
      <3>2. CASE \E j \in Ids : d = <<"viejo", j>> \/ d = <<"nuevo", j>>
        BY <2>3, <3>2, RepartoEs, RepartoSera
      <3> QED BY <3>1, <3>2, DuenosOK
    <2> HIDE DEF U
    <2>5. Repartido(Duenos, U, bitmap)
      BY <2>4, Igual DEF Repartos
    <2> QED BY <1>1, <2>5 DEF Repartos, Repartido, U, Duenos, MismosArchivos
  <1>2. CASE MismosArchivos /\ Solo(i) /\ MismoHilo(i) /\ Avanza(i)
    <2>1. /\ SinTerminar(i)' <=> SinTerminar(i)
          /\ Tomados(i)' = Tomados(i) /\ PorLiberar(i)' = PorLiberar(i)
      BY <1>2 DEF Avanza, MismoHilo, SinTerminar, EstaModificando, Previas, Tomados, PorLiberar
    <2>2. DelArchivo(p)' = DelArchivo(p)
      BY <1>0, <1>2, <1>000, <2>1, AMediasIgual DEF DelArchivo, MismosArchivos
    <2>3. SoloSuArchivo(i) /\ UNCHANGED bitmap
      BY <1>2 DEF SoloSuArchivo, MismosArchivos
    <2> QED BY <1>2, <2>1, <2>2, <2>3, RepartosIgual
  <1>3. CASE LeerArchivo(i) /\ ~UNCHANGED hilo
    <2>1. /\ Solo(i) /\ hilo[i].pc = "leer" /\ hilo'[i].pc \in {"liberar", "quitar"}
          /\ hilo'[i].blocks = metadata[p].blocks /\ UNCHANGED disco
      BY <1>0, <1>3, LeerEfecto
    <2>2. SoloSuArchivo(i) /\ UNCHANGED <<bitmap, metadata>>
      BY <2>1 DEF SoloSuArchivo, disco
    <2>3. ~SinTerminar(i) /\ Tomados(i) = <<>> /\ Tomados(i)' = <<>> /\ TieneElMutex(i)
      BY <2>1 DEF SinTerminar, Tomados, TieneElMutex, LoTieneAbierto
    <2>4. ~AMedias(p)
      BY <1>0, <2>3, AMediasSuyo
    <2>5. CASE hilo'[i].pc = "quitar"
      <3>1. ~SinTerminar(i)'
        BY <2>5 DEF SinTerminar
      <3>2. ~AMedias(p)'
        BY <2>1, <2>3, <2>4, <3>1, AMediasIgual
      <3> QED BY <1>000, <2>1, <2>2, <2>3, <2>4, <3>1, <3>2, RepartosIgual DEF DelArchivo, PorLiberar
    <2>6. CASE hilo'[i].pc = "liberar"
      <3>1. SinTerminar(i)' /\ AMedias(p)'
        <4>1. SinTerminar(i)'
          BY <1>0, <2>6 DEF SinTerminar, IInv, Decididos
        <4> QED BY <4>1 DEF AMedias, Pokemon
      <3>2. DelArchivo(p)' = <<>> /\ PorLiberar(i)' = DelArchivo(p) /\ PorLiberar(i) = <<>>
        BY <1>000, <2>1, <2>3, <2>4, <3>1 DEF DelArchivo, PorLiberar
      <3> HIDE DEF p, da, dv, dn
      <3>3. Reparto[dv] = <<>> /\ Reparto'[da] = <<>> /\ Reparto'[dv] = Reparto[da] /\ Reparto'[dn] = Reparto[dn]
        BY <1>00, <2>3, <3>2
      <3>4. \A c \in {da, dv, dn} : c # da /\ c # dv => Reparto'[c] = Reparto[c]
        BY <3>3
      <3> QED BY <1>00, <2>1, <2>2, <3>3, <3>4, RepartosMueve DEF p, da, dv, dn
    <2> QED BY <2>1, <2>5, <2>6
  <1>4. CASE LiberarBloque(i)
    <2>1. /\ Solo(i) /\ hilo[i].pc = "liberar" /\ hilo'[i].pc = "liberar"
          /\ hilo[i].blocks # <<>> /\ hilo'[i].blocks = Tail(hilo[i].blocks)
          /\ hilo'[i].resultado = hilo[i].resultado
          /\ bitmap' = bitmap \ {Head(hilo[i].blocks)} /\ UNCHANGED metadata
      BY <1>0, <1>4, LiberarEfecto
    <2>2. SoloSuArchivo(i) /\ EstaModificando(i)
      BY <1>0, <2>1 DEF SoloSuArchivo, IInv, Decididos
    <2>3. SinTerminar(i) /\ SinTerminar(i)' /\ Tomados(i) = <<>> /\ Tomados(i)' = <<>>
      BY <2>1, <2>2 DEF SinTerminar, Tomados, EstaModificando
    <2>4. DelArchivo(p)' = DelArchivo(p)
      BY <1>000, <2>1, <2>3, AMediasIgual DEF DelArchivo
    <2>5. PorLiberar(i) = hilo[i].blocks /\ PorLiberar(i)' = Tail(hilo[i].blocks)
      BY <2>1, <2>3 DEF PorLiberar
    <2> HIDE DEF p, da, dv, dn
    <2>6. /\ Reparto[dv] = hilo[i].blocks /\ Reparto'[dv] = Tail(Reparto[dv])
          /\ Reparto'[da] = Reparto[da] /\ Reparto'[dn] = Reparto[dn]
      BY <1>00, <2>3, <2>4, <2>5
    <2>7. \A c \in {da, dv, dn} : c # dv => Reparto'[c] = Reparto[c]
      BY <2>6
    <2>8. Reparto[dv] # <<>> /\ bitmap' = bitmap \ {Head(Reparto[dv])}
      BY <2>1, <2>6
    <2> QED BY <1>00, <2>1, <2>2, <2>6, <2>7, <2>8, RepartosSaca DEF p, da, dv, dn
  <1>5. CASE Recortar(i) \/ Crear(i)
    <2>1. /\ Solo(i) /\ hilo'[i].resultado = hilo[i].resultado
          /\ \/ hilo[i].pc = "liberar" /\ hilo'[i].pc \in {"blocks", "grabar"}
             \/ hilo[i].pc = "crear" /\ hilo'[i].pc = "grabar"
          /\ hilo'[i].blocks = hilo[i].blocks /\ hilo'[i].nuevos = hilo[i].nuevos /\ UNCHANGED disco
      BY <1>0, <1>5, RecortarEfecto, CrearEfecto
    <2>2. SoloSuArchivo(i) /\ UNCHANGED <<bitmap, metadata>>
      BY <2>1 DEF SoloSuArchivo, disco
    <2>3. (hilo[i].pc = "liberar" <=> EstaModificando(i)) /\ (EstaModificando(i)' <=> EstaModificando(i))
      BY <1>0, <2>1 DEF IInv, Decididos, EstaModificando
    <2>4. SinTerminar(i)' <=> SinTerminar(i)
      BY <2>1, <2>3 DEF SinTerminar
    <2>5. Tomados(i) = <<>> /\ Tomados(i)' = <<>>
      BY <1>0, <2>1 DEF Tomados, Forma, SinNuevos
    <2>6. DelArchivo(p)' = DelArchivo(p) /\ PorLiberar(i)' = PorLiberar(i)
      BY <1>000, <2>1, <2>2, <2>4, AMediasIgual DEF DelArchivo, PorLiberar
    <2> QED BY <2>1, <2>2, <2>5, <2>6, RepartosIgual
  <1>6. CASE GrabarBloque(i)
    <2>1. PICK b \in Bloques \ bitmap :
          /\ Solo(i) /\ hilo[i].pc = "grabar"
          /\ hilo'[i].pc \in {"grabar", "blocks", "truncar"}
          /\ hilo'[i].pc = "truncar" => ~EstaModificando(i)
          /\ hilo'[i].nuevos = Append(hilo[i].nuevos, b) /\ hilo'[i].blocks = hilo[i].blocks
          /\ hilo'[i].resultado = hilo[i].resultado
          /\ bitmap' = bitmap \cup {b} /\ UNCHANGED metadata
      BY <1>0, <1>6, GrabarEfecto
    <2>2. SoloSuArchivo(i)
      BY <2>1 DEF SoloSuArchivo
    <2>3. SinTerminar(i)' <=> SinTerminar(i)
      BY <2>1 DEF SinTerminar, EstaModificando
    <2>4. DelArchivo(p)' = DelArchivo(p) /\ PorLiberar(i)' = PorLiberar(i)
      BY <1>000, <2>1, <2>3, AMediasIgual DEF DelArchivo, PorLiberar
    <2>5. Tomados(i) = hilo[i].nuevos /\ Tomados(i)' = Append(hilo[i].nuevos, b)
      BY <2>1 DEF Tomados
    <2> HIDE DEF p, da, dv, dn
    <2>6. /\ Reparto'[dn] = Append(Reparto[dn], b)
          /\ Reparto'[da] = Reparto[da] /\ Reparto'[dv] = Reparto[dv]
      BY <1>00, <2>4, <2>5
    <2>7. \A c \in {da, dv, dn} : c # dn => Reparto'[c] = Reparto[c]
      BY <2>6
    <2> QED BY <1>00, <2>1, <2>2, <2>6, <2>7, RepartosPone DEF p, da, dv, dn
  <1>7. CASE EscribirBlocks(i) \/ EscribirSize(i)
    <2>1. /\ Solo(i) /\ MismoHilo(i) /\ UNCHANGED <<bitmap, bloque>>
          /\ \A q \in Pokemones : q # p => metadata'[q] = metadata[q]
          /\ \/ hilo[i].pc = "blocks" /\ hilo'[i].pc = "size"
             \/ /\ hilo[i].pc = "size" /\ hilo'[i].pc = "quitar"
                /\ metadata'[p].blocks = metadata[p].blocks
      BY <1>0, <1>7, EscribirEfecto
    <2>2. SoloSuArchivo(i) /\ EstaModificando(i) /\ EstaModificando(i)'
      BY <1>0, <2>1 DEF SoloSuArchivo, IInv, Decididos
    <2>3. SinTerminar(i) /\ TieneElMutex(i)
      BY <2>1, <2>2 DEF SinTerminar, TieneElMutex, LoTieneAbierto
    <2>4. AMedias(p) /\ hilo[i].blocks = <<>> /\ hilo'[i].blocks = <<>>
      BY <1>0, <2>1, <2>3, AMediasSuyo DEF Forma, MismoHilo
    <2>5. CASE hilo[i].pc = "blocks"
      <3>1. SinTerminar(i)' <=> SinTerminar(i)
        BY <2>1, <2>2, <2>3, <2>5 DEF SinTerminar
      <3>2. AMedias(p)'
        BY <2>1, <2>4, <3>1, AMediasIgual
      <3>3. DelArchivo(p)' = DelArchivo(p) /\ PorLiberar(i)' = PorLiberar(i) /\ Tomados(i)' = Tomados(i)
        BY <1>000, <2>1, <2>3, <2>4, <2>5, <3>1, <3>2 DEF DelArchivo, PorLiberar, Tomados, MismoHilo
      <3> QED BY <2>1, <2>2, <3>3, RepartosIgual
    <2>6. CASE hilo[i].pc = "size"
      <3>1. ~SinTerminar(i)' /\ TieneElMutex(i)' /\ IInv'
        BY <1>0, <2>1, <2>6 DEF SinTerminar, TieneElMutex, LoTieneAbierto
      <3>2. ~AMedias(p)'
        <4>1. \A j \in Ids : SinTerminar(j)' => TieneElMutex(j)'
          BY DEF TieneElMutex, LoTieneAbierto
        <4>2. \A j \in Ids : SinTerminar(j)' => j = i
          BY <3>1, <4>1 DEF IInv, UnoPorVez
        <4> QED BY <3>1, <4>2 DEF AMedias
      <3>3. /\ DelArchivo(p)' = hilo[i].nuevos /\ DelArchivo(p) = <<>>
            /\ PorLiberar(i)' = <<>> /\ PorLiberar(i) = <<>>
            /\ Tomados(i)' = <<>> /\ Tomados(i) = hilo[i].nuevos
        BY <1>0, <1>000, <2>1, <2>4, <2>6, <3>1, <3>2 DEF DelArchivo, PorLiberar, Tomados, Forma
      <3> HIDE DEF p, da, dv, dn
      <3>4. Reparto[da] = <<>> /\ Reparto'[dn] = <<>> /\ Reparto'[da] = Reparto[dn] /\ Reparto'[dv] = Reparto[dv]
        BY <1>00, <3>3
      <3>5. \A c \in {da, dv, dn} : c # dn /\ c # da => Reparto'[c] = Reparto[c]
        BY <3>4
      <3> QED BY <1>00, <2>1, <2>2, <3>4, <3>5, RepartosMueve DEF p, da, dv, dn
    <2> QED BY <2>1, <2>5, <2>6
  <1>8. CASE Truncar(i)
    <2>1. /\ Solo(i) /\ MismoHilo(i) /\ UNCHANGED <<bitmap, bloque>>
          /\ hilo[i].pc = "truncar" /\ hilo'[i].pc = "metadata" /\ metadata'[p].blocks = <<>>
          /\ \A q \in Pokemones : q # p => metadata'[q] = metadata[q]
      BY <1>0, <1>8, TruncarEfecto
    <2>2. SoloSuArchivo(i) /\ Creador(i)
      BY <2>1 DEF SoloSuArchivo, Creador
    <2>3. metadata[p].blocks = <<>>
      BY <1>0, <2>1, <2>2 DEF Altas, Alta
    <2>4. ~SinTerminar(i) /\ ~SinTerminar(i)' /\ Tomados(i)' = Tomados(i)
      BY <2>1 DEF SinTerminar, Tomados, MismoHilo
    <2>5. DelArchivo(p)' = DelArchivo(p) /\ PorLiberar(i)' = PorLiberar(i)
      BY <1>000, <2>1, <2>3, <2>4 DEF DelArchivo, PorLiberar
    <2> QED BY <2>1, <2>2, <2>4, <2>5, RepartosIgual
  <1>9. CASE GrabarMetadata(i)
    <2>1. /\ Solo(i) /\ UNCHANGED <<bitmap, bloque>>
          /\ hilo[i].pc = "metadata" /\ hilo'[i].pc = "enviar"
          /\ \A q \in Pokemones : q # p => metadata'[q] = metadata[q]
      BY <1>0, <1>9, CreadoEfecto
    <2>2. metadata'[p].blocks = hilo[i].nuevos
      <3>1. metadata'[p] = [estado |-> "entera", size |-> Largo, blocks |-> hilo[i].nuevos, open |-> "N"]
        BY <1>0, <1>9, CreadoEfecto
      <3> QED BY <3>1
    <2>3. SoloSuArchivo(i) /\ Creador(i)
      BY <2>1 DEF SoloSuArchivo, Creador
    <2>4. metadata[p].estado # "entera" /\ metadata[p].blocks = <<>>
      BY <1>0, <2>1, <2>3 DEF Altas, Alta
    <2>5. ~SinTerminar(i) /\ ~SinTerminar(i)' /\ ~AMedias(p) /\ ~AMedias(p)'
      <3>1. ~SinTerminar(i) /\ ~SinTerminar(i)'
        BY <2>1 DEF SinTerminar
      <3>2. ~AMedias(p)
        BY <1>0, <2>4, AMediasEntera
      <3> QED BY <2>1, <3>1, <3>2, AMediasIgual
    <2>6. /\ DelArchivo(p)' = hilo[i].nuevos /\ DelArchivo(p) = <<>>
          /\ PorLiberar(i)' = <<>> /\ PorLiberar(i) = <<>>
          /\ Tomados(i)' = <<>> /\ Tomados(i) = hilo[i].nuevos
      BY <1>000, <2>1, <2>2, <2>4, <2>5 DEF DelArchivo, PorLiberar, Tomados
    <2> HIDE DEF p, da, dv, dn
    <2>7. Reparto[da] = <<>> /\ Reparto'[dn] = <<>> /\ Reparto'[da] = Reparto[dn] /\ Reparto'[dv] = Reparto[dv]
      BY <1>00, <2>6
    <2>8. \A c \in {da, dv, dn} : c # dn /\ c # da => Reparto'[c] = Reparto[c]
      BY <2>7
    <2> QED BY <1>00, <2>1, <2>3, <2>7, <2>8, RepartosMueve DEF p, da, dv, dn
  <1> HIDE DEF p, da, dv, dn
  <1> QED BY <1>0, <1>1, <1>2, <1>3, <1>4, <1>5, <1>6, <1>7, <1>8, <1>9, LosPasos

LEMMA RepartosNext ==
    ASSUME Siempre2, Siempre2', Formas, Formas', Repartos, [Next]_vars
    PROVE  Repartos'
  <1>1. CASE Reintentar
    <2>1. PICK i \in Ids : /\ Solo(i) /\ UNCHANGED disco /\ hilo[i].pc = "encolado"
                           /\ hilo'[i] = [HiloNuevo EXCEPT !.pc = "existe"]
      BY <1>1, RelanzarEfecto DEF Siempre2, Siempre1
    <2>2. hilo'[i].pc = "existe"
      BY <2>1 DEF HiloNuevo
    <2>3. ~SinTerminar(i) /\ ~SinTerminar(i)' /\ Tomados(i) = <<>> /\ Tomados(i)' = <<>>
      BY <2>1, <2>2 DEF SinTerminar, Tomados
    <2>4. SoloSuArchivo(i) /\ UNCHANGED <<bitmap, metadata>>
      BY <2>1 DEF SoloSuArchivo, disco
    <2> DEFINE p == Pokemon(i)
    <2>5. p' = p /\ (AMedias(p)' <=> AMedias(p))
      BY <2>1, <2>3, AMediasIgual DEF Pokemon
    <2>6. DelArchivo(p)' = DelArchivo(p) /\ PorLiberar(i)' = PorLiberar(i)
      BY <2>3, <2>4, <2>5 DEF DelArchivo, PorLiberar
    <2> QED BY <2>1, <2>3, <2>4, <2>6, RepartosIgual
  <1>2. CASE DespertarDispatcher \/ FinDispatcher \/ UNCHANGED vars
    <2>1. UNCHANGED <<hilo, metadata, bitmap>>
      BY <1>2 DEF DespertarDispatcher, FinDispatcher, vars, disco
    <2>0. \A j \in Ids : SinTerminar(j)' <=> SinTerminar(j)
      BY <2>1 DEF SinTerminar, EstaModificando
    <2>2. \A j \in Ids : PorLiberar(j)' = PorLiberar(j) /\ Tomados(j)' = Tomados(j)
      BY <2>0, <2>1 DEF PorLiberar, Tomados
    <2>3. \A q \in Pokemones : DelArchivo(q)' = DelArchivo(q)
      BY <2>0, <2>1 DEF DelArchivo, AMedias, Pokemon
    <2> DEFINE U == Reparto'
    <2>4. ASSUME NEW d \in Duenos PROVE U[d] = Reparto[d]
      <3>1. CASE \E q \in Pokemones : d = <<"archivo", q>>
        BY <2>3, <3>1, RepartoEs, RepartoSera
      <3>2. CASE \E j \in Ids : d = <<"viejo", j>> \/ d = <<"nuevo", j>>
        BY <2>2, <3>2, RepartoEs, RepartoSera
      <3> QED BY <3>1, <3>2, DuenosOK
    <2> HIDE DEF U
    <2>5. Repartido(Duenos, U, bitmap)
      BY <2>4, Igual DEF Repartos
    <2> QED BY <2>1, <2>5 DEF Repartos, Repartido, U, Duenos
  <1> QED BY <1>1, <1>2, RepartosOK DEF Next, Dispatcher

\* Each file there is at the start has a number of its own.
LEMMA NumeroInverso ==
    ASSUME NEW b \in DOMAIN Existentes
    PROVE  Existentes[b] \in Pokemones /\ NumeroDe(Existentes[b]) = b
  <1> DEFINE p == Existentes[b]
             T == {n \in 1 .. Len(Existentes) : Existentes[n] = p}
  <1>1. b \in 1 .. Len(Existentes) /\ p \in Pokemones /\ Len(Existentes) \in Nat
    BY TallGrassAssumption
  <1>2. NumeroDe(p) = IF T # {} THEN Min(T) ELSE 0
    BY DEF NumeroDe, SelectInSeq
  <1>3. T = {b}
    <2>1. \A n \in 1 .. Len(Existentes) : Existentes[n] = Existentes[b] => n = b
      BY <1>1, TallGrassAssumption DEF IsInjective
    <2> QED BY <1>1, <2>1
  <1>4. Min(T) \in T
    <2> HIDE DEF T
    <2> QED BY <1>1, <1>3, MinOK
  <1> QED BY <1>1, <1>2, <1>3, <1>4

LEMMA RepartosInicio == Init => Repartos
  <1> SUFFICES ASSUME Init PROVE Repartos
    OBVIOUS
  <1>1. \A i \in Ids : ~SinTerminar(i) /\ Tomados(i) = <<>>
    BY DEF Init, HiloNuevo, SinTerminar, Tomados
  <1>2. bitmap = DOMAIN Existentes
        /\ \A p \in Pokemones : metadata[p].blocks = IF NumeroDe(p) = 0 THEN <<>> ELSE <<NumeroDe(p)>>
    BY DEF Init, InitDisco, Ausente
  <1>3. \A p \in Pokemones : Reparto[<<"archivo", p>>] = IF NumeroDe(p) = 0 THEN <<>> ELSE <<NumeroDe(p)>>
    BY <1>1, <1>2, RepartoEs DEF DelArchivo, AMedias
  <1>4. \A i \in Ids : Reparto[<<"viejo", i>>] = <<>> /\ Reparto[<<"nuevo", i>>] = <<>>
    BY <1>1, RepartoEs DEF PorLiberar
  <1>5. ASSUME NEW d \in Duenos, NEW n \in 1 .. Len(Reparto[d])
        PROVE  \E p \in Pokemones : d = <<"archivo", p>> /\ NumeroDe(p) # 0 /\ n = 1 /\ Reparto[d][n] = NumeroDe(p)
    <2>1. CASE \E i \in Ids : d = <<"viejo", i>> \/ d = <<"nuevo", i>>
      <3>1. Reparto[d] = <<>>
        BY <1>4, <2>1
      <3> QED BY <1>5, <3>1
    <2>2. CASE \E p \in Pokemones : d = <<"archivo", p>>
      <3>1. PICK p \in Pokemones : d = <<"archivo", p>>
        BY <2>2
      <3>2. NumeroDe(p) # 0
        <4>1. NumeroDe(p) = 0 => Reparto[d] = <<>>
          BY <1>3, <3>1
        <4> QED BY <1>5, <4>1
      <3> DEFINE x == NumeroDe(p)
      <3>3. Reparto[d] = <<x>>
        BY <1>3, <3>1, <3>2
      <3> HIDE DEF x
      <3>4. n = 1 /\ Reparto[d][n] = x
        BY <3>3
      <3> QED BY <3>1, <3>2, <3>4 DEF x
    <2> QED BY <2>1, <2>2, DuenosOK
  <1>6. ASSUME NEW d \in Duenos PROVE Reparto[d] \in Seq(Bloques)
    <2>1. <<>> \in Seq(Bloques)
      OBVIOUS
    <2>2. ASSUME NEW p \in Pokemones, NumeroDe(p) # 0 PROVE <<NumeroDe(p)>> \in Seq(Bloques)
      <3> DEFINE x == NumeroDe(p)
      <3>1. x \in Bloques
        BY <2>2, NumeroOK
      <3> HIDE DEF x
      <3>2. <<x>> \in Seq(Bloques)
        BY <3>1
      <3> QED BY <3>2 DEF x
    <2>3. CASE \E p \in Pokemones : d = <<"archivo", p>>
      <3>1. PICK p \in Pokemones : d = <<"archivo", p>>
        BY <2>3
      <3> QED BY <1>3, <2>1, <2>2, <3>1
    <2>4. CASE \E i \in Ids : d = <<"viejo", i>> \/ d = <<"nuevo", i>>
      BY <1>4, <2>1, <2>4
    <2> QED BY <2>3, <2>4, DuenosOK
  <1>7. ASSUME NEW d \in Duenos, NEW n \in 1 .. Len(Reparto[d]) PROVE Reparto[d][n] \in bitmap
    BY <1>2, <1>5, NumeroOK, TallGrassAssumption
  <1>8. ASSUME NEW b \in bitmap PROVE \E d \in Duenos : \E n \in 1 .. Len(Reparto[d]) : Reparto[d][n] = b
    <2>0. b \in DOMAIN Existentes
      BY <1>2
    <2> DEFINE p == Existentes[b]
    <2>1. p \in Pokemones /\ NumeroDe(p) = b
      BY <2>0, NumeroInverso
    <2> HIDE DEF p
    <2>2. b # 0
      BY <2>0, TallGrassAssumption
    <2>3. Reparto[<<"archivo", p>>] = <<b>>
      BY <1>3, <2>1, <2>2
    <2>4. <<"archivo", p>> \in Duenos /\ 1 \in 1 .. Len(Reparto[<<"archivo", p>>]) /\ Reparto[<<"archivo", p>>][1] = b
      BY <2>1, <2>3, DuenosOK
    <2> QED BY <2>4
  <1>9. ASSUME NEW d \in Duenos, NEW e \in Duenos, NEW n \in 1 .. Len(Reparto[d]), NEW m \in 1 .. Len(Reparto[e]),
               Reparto[d][n] = Reparto[e][m]
        PROVE  d = e /\ n = m
    <2>1. PICK p \in Pokemones : d = <<"archivo", p>> /\ NumeroDe(p) # 0 /\ n = 1 /\ Reparto[d][n] = NumeroDe(p)
      BY <1>5
    <2>2. PICK q \in Pokemones : e = <<"archivo", q>> /\ NumeroDe(q) # 0 /\ m = 1 /\ Reparto[e][m] = NumeroDe(q)
      BY <1>5
    <2>3. p = q
      BY <1>9, <2>1, <2>2, NumeroOK
    <2> QED BY <2>1, <2>2, <2>3
  <1> QED BY <1>6, <1>7, <1>8, <1>9 DEF Repartos, Repartido

\* A reference names a place of a metadata, of the blocks to free or of those got.
LEMMA ReferenciaDe ==
    ASSUME NEW r
    PROVE  r \in Menciones <=>
              \/ \E p \in {q \in Pokemones : ~AMedias(q)} : \E n \in DOMAIN metadata[p].blocks :
                    r = <<"archivo", p, metadata[p].blocks[n], n>>
              \/ \E i \in {j \in Ids : SinTerminar(j)} : \E n \in DOMAIN hilo[i].blocks :
                    r = <<"viejo", i, hilo[i].blocks[n], n>>
              \/ \E i \in Ids : \E n \in DOMAIN Tomados(i) : r = <<"nuevo", i, Tomados(i)[n], n>>
  <1> DEFINE A == UNION {{<<"archivo", p, metadata[p].blocks[n], n>> : n \in DOMAIN metadata[p].blocks} :
                            p \in {q \in Pokemones : ~AMedias(q)}}
             B == UNION {{<<"viejo", i, hilo[i].blocks[n], n>> : n \in DOMAIN hilo[i].blocks} :
                            i \in {j \in Ids : SinTerminar(j)}}
             C == UNION {{<<"nuevo", i, Tomados(i)[n], n>> : n \in DOMAIN Tomados(i)} : i \in Ids}
  <1>1. r \in Menciones <=> r \in A \/ r \in B \/ r \in C
    BY Zenon DEF Menciones
  <1>2. r \in A <=> \E p \in {q \in Pokemones : ~AMedias(q)} : \E n \in DOMAIN metadata[p].blocks :
                       r = <<"archivo", p, metadata[p].blocks[n], n>>
    OBVIOUS
  <1>3. r \in B <=> \E i \in {j \in Ids : SinTerminar(j)} : \E n \in DOMAIN hilo[i].blocks :
                       r = <<"viejo", i, hilo[i].blocks[n], n>>
    OBVIOUS
  <1>4. r \in C <=> \E i \in Ids : \E n \in DOMAIN Tomados(i) : r = <<"nuevo", i, Tomados(i)[n], n>>
    OBVIOUS
  <1> HIDE DEF A, B, C
  <1> QED BY <1>1, <1>2, <1>3, <1>4

\* Each reference is a place of a list of an owner.
LEMMA ReferenciasSon ==
    ASSUME Repartos
    PROVE  /\ \A r \in Menciones : \E d \in Duenos : \E n \in 1 .. Len(Reparto[d]) :
                 r = <<d[1], d[2], Reparto[d][n], n>>
           /\ \A d \in Duenos : \A n \in 1 .. Len(Reparto[d]) : <<d[1], d[2], Reparto[d][n], n>> \in Menciones
  <1>0. \A d \in Duenos : DOMAIN Reparto[d] = 1 .. Len(Reparto[d])
    BY DEF Repartos, Repartido
  <1>1. ASSUME NEW r \in Menciones
        PROVE  \E d \in Duenos : \E n \in 1 .. Len(Reparto[d]) : r = <<d[1], d[2], Reparto[d][n], n>>
    <2>1. CASE \E p \in {q \in Pokemones : ~AMedias(q)} : \E n \in DOMAIN metadata[p].blocks :
                  r = <<"archivo", p, metadata[p].blocks[n], n>>
      <3>1. PICK p \in {q \in Pokemones : ~AMedias(q)} : \E n \in DOMAIN metadata[p].blocks :
                  r = <<"archivo", p, metadata[p].blocks[n], n>>
        BY <2>1
      <3>2. PICK n \in DOMAIN metadata[p].blocks : r = <<"archivo", p, metadata[p].blocks[n], n>>
        BY <3>1
      <3> DEFINE d == <<"archivo", p>>
      <3>3. d \in Duenos /\ Reparto[d] = metadata[p].blocks /\ d[1] = "archivo" /\ d[2] = p
        BY DuenosOK, RepartoEs DEF DelArchivo
      <3> HIDE DEF d
      <3> QED BY <1>0, <3>2, <3>3
    <2>2. CASE \E i \in {j \in Ids : SinTerminar(j)} : \E n \in DOMAIN hilo[i].blocks :
                  r = <<"viejo", i, hilo[i].blocks[n], n>>
      <3>1. PICK i \in {j \in Ids : SinTerminar(j)} : \E n \in DOMAIN hilo[i].blocks :
                  r = <<"viejo", i, hilo[i].blocks[n], n>>
        BY <2>2
      <3>2. PICK n \in DOMAIN hilo[i].blocks : r = <<"viejo", i, hilo[i].blocks[n], n>>
        BY <3>1
      <3> DEFINE d == <<"viejo", i>>
      <3>3. d \in Duenos /\ Reparto[d] = hilo[i].blocks /\ d[1] = "viejo" /\ d[2] = i
        BY DuenosOK, RepartoEs DEF PorLiberar
      <3> HIDE DEF d
      <3> QED BY <1>0, <3>2, <3>3
    <2>3. CASE \E i \in Ids : \E n \in DOMAIN Tomados(i) : r = <<"nuevo", i, Tomados(i)[n], n>>
      <3>1. PICK i \in Ids : \E n \in DOMAIN Tomados(i) : r = <<"nuevo", i, Tomados(i)[n], n>>
        BY <2>3
      <3>2. PICK n \in DOMAIN Tomados(i) : r = <<"nuevo", i, Tomados(i)[n], n>>
        BY <3>1
      <3> DEFINE d == <<"nuevo", i>>
      <3>3. d \in Duenos /\ Reparto[d] = Tomados(i) /\ d[1] = "nuevo" /\ d[2] = i
        BY DuenosOK, RepartoEs
      <3> HIDE DEF d
      <3> QED BY <1>0, <3>2, <3>3
    <2> QED BY <2>1, <2>2, <2>3, ReferenciaDe
  <1>2. ASSUME NEW d \in Duenos, NEW n \in 1 .. Len(Reparto[d])
        PROVE  <<d[1], d[2], Reparto[d][n], n>> \in Menciones
    <2>0. n \in DOMAIN Reparto[d]
      BY <1>0
    <2>1. CASE \E p \in Pokemones : d = <<"archivo", p>>
      <3>1. PICK p \in Pokemones : d = <<"archivo", p>>
        BY <2>1
      <3>2. Reparto[d] = DelArchivo(p) /\ d[1] = "archivo" /\ d[2] = p
        BY <3>1, RepartoEs
      <3>3. ~AMedias(p)
        <4>1. AMedias(p) => Reparto[d] = <<>>
          BY <3>2 DEF DelArchivo
        <4> QED BY <1>2, <4>1
      <3>4. Reparto[d] = metadata[p].blocks
        BY <3>2, <3>3 DEF DelArchivo
      <3> QED BY <2>0, <3>1, <3>2, <3>3, <3>4, ReferenciaDe
    <2>2. CASE \E i \in Ids : d = <<"viejo", i>>
      <3>1. PICK i \in Ids : d = <<"viejo", i>>
        BY <2>2
      <3>2. Reparto[d] = PorLiberar(i) /\ d[1] = "viejo" /\ d[2] = i
        BY <3>1, RepartoEs
      <3>3. SinTerminar(i)
        <4>1. ~SinTerminar(i) => Reparto[d] = <<>>
          BY <3>2 DEF PorLiberar
        <4> QED BY <1>2, <4>1
      <3>4. Reparto[d] = hilo[i].blocks
        BY <3>2, <3>3 DEF PorLiberar
      <3> QED BY <2>0, <3>1, <3>2, <3>3, <3>4, ReferenciaDe
    <2>3. CASE \E i \in Ids : d = <<"nuevo", i>>
      <3>1. PICK i \in Ids : d = <<"nuevo", i>>
        BY <2>3
      <3>2. Reparto[d] = Tomados(i) /\ d[1] = "nuevo" /\ d[2] = i
        BY <3>1, RepartoEs
      <3> QED BY <2>0, <3>1, <3>2, ReferenciaDe
    <2> QED BY <2>1, <2>2, <2>3, DuenosOK
  <1> QED BY <1>1, <1>2

\* The mention of a block that a thread got before it died.
DeMuerto(r) == r[1] = "nuevo" /\ hilo[r[2]].pc = "muerto"

LEMMA MencionViva ==
    ASSUME NEW r
    PROVE  r \in Referencias <=> r \in Menciones /\ ~DeMuerto(r)
  <1> DEFINE A == UNION {{<<"archivo", p, metadata[p].blocks[n], n>> : n \in DOMAIN metadata[p].blocks} :
                            p \in {q \in Pokemones : ~AMedias(q)}}
             B == UNION {{<<"viejo", i, hilo[i].blocks[n], n>> : n \in DOMAIN hilo[i].blocks} :
                            i \in {j \in Ids : SinTerminar(j)}}
             C == UNION {{<<"nuevo", i, Tomados(i)[n], n>> : n \in DOMAIN Tomados(i)} : i \in Ids}
             D == UNION {{<<"nuevo", i, Propios(i)[n], n>> : n \in DOMAIN Propios(i)} : i \in Ids}
  <1>1. r \in Menciones <=> r \in A \/ r \in B \/ r \in C
    BY Zenon DEF Menciones
  <1>2. r \in Referencias <=> r \in A \/ r \in B \/ r \in D
    BY Zenon DEF Referencias
  <1>3. r \in A => r[1] = "archivo"
    OBVIOUS
  <1>4. r \in B => r[1] = "viejo"
    OBVIOUS
  <1>5. r \in C <=> \E i \in Ids : \E n \in DOMAIN Tomados(i) : r = <<"nuevo", i, Tomados(i)[n], n>>
    OBVIOUS
  <1>6. r \in D <=> \E i \in Ids : \E n \in DOMAIN Propios(i) : r = <<"nuevo", i, Propios(i)[n], n>>
    OBVIOUS
  <1> HIDE DEF A, B, C, D
  <1>7. r \in D <=> r \in C /\ ~DeMuerto(r)
    <2>1. ASSUME r \in D PROVE r \in C /\ ~DeMuerto(r)
      <3>1. PICK i \in Ids : \E n \in DOMAIN Propios(i) : r = <<"nuevo", i, Propios(i)[n], n>>
        BY <1>6, <2>1
      <3>2. PICK n \in DOMAIN Propios(i) : r = <<"nuevo", i, Propios(i)[n], n>>
        BY <3>1
      <3>3. hilo[i].pc # "muerto"
        BY <3>2 DEF Propios
      <3>4. Tomados(i) = Propios(i)
        BY <3>3 DEF Propios, Tomados
      <3>5. r[2] = i
        BY <3>2
      <3> QED BY <1>5, <3>2, <3>3, <3>4, <3>5 DEF DeMuerto
    <2>2. ASSUME r \in C, ~DeMuerto(r) PROVE r \in D
      <3>1. PICK i \in Ids : \E n \in DOMAIN Tomados(i) : r = <<"nuevo", i, Tomados(i)[n], n>>
        BY <1>5, <2>2
      <3>2. PICK n \in DOMAIN Tomados(i) : r = <<"nuevo", i, Tomados(i)[n], n>>
        BY <3>1
      <3>3. r[1] = "nuevo" /\ r[2] = i
        BY <3>2
      <3>4. hilo[i].pc # "muerto"
        BY <2>2, <3>3 DEF DeMuerto
      <3>5. Tomados(i) = Propios(i)
        BY <3>4 DEF Propios, Tomados
      <3> QED BY <1>6, <3>2, <3>5
    <2> QED BY <2>1, <2>2
  <1> QED BY <1>1, <1>2, <1>3, <1>4, <1>7 DEF DeMuerto

LEMMA PerdidoEs ==
    ASSUME NEW b
    PROVE  b \in Perdidos <=> \E r \in Menciones : DeMuerto(r) /\ r[3] = b
  <1>0. b \in Perdidos <=> \E i \in {j \in Ids : hilo[j].pc = "muerto"} :
                              \E n \in DOMAIN hilo[i].nuevos : b = hilo[i].nuevos[n]
    BY DEF Perdidos
  <1>1. ASSUME b \in Perdidos PROVE \E r \in Menciones : DeMuerto(r) /\ r[3] = b
    <2>1. PICK i \in {j \in Ids : hilo[j].pc = "muerto"} : \E n \in DOMAIN hilo[i].nuevos : b = hilo[i].nuevos[n]
      BY <1>0, <1>1
    <2>2. PICK n \in DOMAIN hilo[i].nuevos : b = hilo[i].nuevos[n]
      BY <2>1
    <2>3. Tomados(i) = hilo[i].nuevos
      BY <2>1 DEF Tomados
    <2> DEFINE r == <<"nuevo", i, Tomados(i)[n], n>>
    <2>4. r \in Menciones
      BY <2>1, <2>2, <2>3, ReferenciaDe
    <2>5. r[1] = "nuevo" /\ r[2] = i /\ r[3] = b
      BY <2>2, <2>3
    <2> QED BY <2>1, <2>4, <2>5 DEF DeMuerto
  <1>2. ASSUME NEW r \in Menciones, DeMuerto(r), r[3] = b PROVE b \in Perdidos
    <2>1. r[1] = "nuevo"
      BY <1>2 DEF DeMuerto
    <2>2. \E i \in Ids : \E n \in DOMAIN Tomados(i) : r = <<"nuevo", i, Tomados(i)[n], n>>
      BY <1>2, <2>1, ReferenciaDe
    <2>3. PICK i \in Ids : \E n \in DOMAIN Tomados(i) : r = <<"nuevo", i, Tomados(i)[n], n>>
      BY <2>2
    <2>4. PICK n \in DOMAIN Tomados(i) : r = <<"nuevo", i, Tomados(i)[n], n>>
      BY <2>3
    <2>5. r[2] = i /\ r[3] = Tomados(i)[n]
      BY <2>4
    <2>6. hilo[i].pc = "muerto" /\ Tomados(i) = hilo[i].nuevos
      BY <1>2, <2>5 DEF DeMuerto, Tomados
    <2> QED BY <1>0, <1>2, <2>5, <2>6
  <1> QED BY <1>1, <1>2

LEMMA RepartidoEsExacto == Tipado /\ Repartos => BitmapExacto
  <1> SUFFICES ASSUME Tipado, Repartos PROVE BitmapExacto
    OBVIOUS
  <1>1. ASSUME NEW r \in Menciones PROVE r[3] \in bitmap
    <2>1. PICK d \in Duenos : \E n \in 1 .. Len(Reparto[d]) : r = <<d[1], d[2], Reparto[d][n], n>>
      BY ReferenciasSon
    <2>2. PICK n \in 1 .. Len(Reparto[d]) : r = <<d[1], d[2], Reparto[d][n], n>>
      BY <2>1
    <2>3. r[3] = Reparto[d][n]
      BY <2>2
    <2> QED BY <2>3 DEF Repartos, Repartido
  <1>2. ASSUME NEW b \in bitmap PROVE \E r \in Menciones : r[3] = b
    <2>1. PICK d \in Duenos : \E n \in 1 .. Len(Reparto[d]) : Reparto[d][n] = b
      BY DEF Repartos, Repartido
    <2>2. PICK n \in 1 .. Len(Reparto[d]) : Reparto[d][n] = b
      BY <2>1
    <2> DEFINE r == <<d[1], d[2], Reparto[d][n], n>>
    <2>3. r \in Menciones
      BY ReferenciasSon
    <2>4. r[3] = b
      BY <2>2
    <2> QED BY <2>3, <2>4
  <1>3. ASSUME NEW r \in Menciones, NEW s \in Menciones, r[3] = s[3] PROVE r = s
    <2>1. PICK d \in Duenos : \E n \in 1 .. Len(Reparto[d]) : r = <<d[1], d[2], Reparto[d][n], n>>
      BY ReferenciasSon
    <2>2. PICK n \in 1 .. Len(Reparto[d]) : r = <<d[1], d[2], Reparto[d][n], n>>
      BY <2>1
    <2>3. PICK e \in Duenos : \E m \in 1 .. Len(Reparto[e]) : s = <<e[1], e[2], Reparto[e][m], m>>
      BY ReferenciasSon
    <2>4. PICK m \in 1 .. Len(Reparto[e]) : s = <<e[1], e[2], Reparto[e][m], m>>
      BY <2>3
    <2>5. Reparto[d][n] = Reparto[e][m]
      BY <1>3, <2>2, <2>4
    <2>6. d = e /\ n = m
      BY <2>5, UnaVez DEF Repartos
    <2> QED BY <2>2, <2>4, <2>6
  <1>4. \A r \in Menciones : r \in Referencias <=> ~DeMuerto(r)
    BY MencionViva
  <1>5. \A r \in Referencias : r \in Menciones
    BY MencionViva
  <1>6. \A b : b \in Perdidos <=> \E r \in Menciones : DeMuerto(r) /\ r[3] = b
    BY PerdidoEs
  <1>7. Perdidos \subseteq bitmap
    BY <1>1, <1>6
  <1>8. ASSUME NEW r \in Referencias PROVE r[3] \in bitmap \ Perdidos
    <2>1. r \in Menciones /\ ~DeMuerto(r)
      BY <1>4, <1>5
    <2>2. ASSUME r[3] \in Perdidos PROVE FALSE
      <3>1. PICK s \in Menciones : DeMuerto(s) /\ s[3] = r[3]
        BY <1>6, <2>2
      <3>2. r = s
        BY <1>3, <2>1, <3>1
      <3> QED BY <2>1, <3>1, <3>2
    <2> QED BY <1>1, <2>1, <2>2
  <1>9. ASSUME NEW b \in bitmap \ Perdidos PROVE \E r \in Referencias : r[3] = b
    <2>1. PICK r \in Menciones : r[3] = b
      BY <1>2
    <2> QED BY <1>4, <1>6, <2>1
  <1>10. \A r, s \in Referencias : r[3] = s[3] => r = s
    BY <1>3, <1>5
  <1>11. {r[3] : r \in Referencias} = bitmap \ Perdidos
    BY <1>8, <1>9
  <1>12. Cardinality(Referencias) = Cardinality(bitmap \ Perdidos)
    <2> DEFINE f == [r \in Referencias |-> r[3]]
               B == bitmap \ Perdidos
    <2>1. f \in Bijection(Referencias, B)
      <3>1. f \in [Referencias -> B]
        BY <1>8
      <3>2. \A r, s \in Referencias : f[r] = f[s] => r = s
        BY <1>10
      <3>3. \A b \in B : \E r \in Referencias : f[r] = b
        BY <1>9
      <3> HIDE DEF f, B
      <3> QED BY <3>1, <3>2, <3>3, Fun_IsBij
    <2>2. IsFiniteSet(B)
      <3>1. IsFiniteSet(1 .. total_blocks)
        BY TallGrassAssumption, FS_Interval
      <3>2. B \subseteq 1 .. total_blocks
        BY DEF Tipado, DiscoOK, Bloques
      <3> HIDE DEF B
      <3> QED BY <3>1, <3>2, FS_Subset
    <2> HIDE DEF B
    <2>3. ExistsBijection(Referencias, B)
      BY <2>1 DEF ExistsBijection
    <2>4. ExistsBijection(B, Referencias)
      BY <2>3, Fun_ExistsBijSymmetric
    <2>5. Cardinality(Referencias) = Cardinality(B)
      BY <2>2, <2>4, FS_Bijection
    <2> QED BY <2>5 DEF B
  <1> QED BY <1>7, <1>11, <1>12 DEF BitmapExacto

Siempre3 == Siempre2 /\ Formas /\ Repartos

LEMMA Siempre3Paso == ASSUME AltaUnica PROVE Siempre3 /\ [Next]_vars => Siempre3'
  BY Siempre2Paso, FormasNext, RepartosNext DEF Siempre3

LEMMA Siempre3OK == ASSUME AltaUnica PROVE Spec => []Siempre3
  <1>1. Init => Siempre3
    BY Inicio, TipadoInicio, AltasInicio, FormasInicio, RepartosInicio DEF Siempre1, Siempre2, Siempre3
  <1> QED BY <1>1, Siempre3Paso, PTL DEF Spec

\* Each set bit is of a block that one file or one living thread has, and only one, but
\* for the blocks of the threads that died with the disk full, and the files that those
\* were rewriting name blocks of others; when no two NEW messages create one file
\* (grabar_bloque, eliminar_bloque).
THEOREM BitmapSiempreExacto == AltaUnica => (Spec => []BitmapExacto)
  <1> SUFFICES ASSUME AltaUnica PROVE Spec => []BitmapExacto
    OBVIOUS
  <1>1. Siempre3 => BitmapExacto
    BY RepartidoEsExacto DEF Siempre3, Siempre2, Siempre1
  <1> QED BY <1>1, Siempre3OK, PTL

(***************************************************************************)
(* What the blocks say                                                     *)
(***************************************************************************)
\* The blocks got hold the first pieces and the rest is to be stored.
ACuenta(f, nuevos, partes, todas) ==
    /\ Len(nuevos) + Len(partes) = Len(todas)
    /\ \A n \in 1 .. Len(nuevos) : f[nuevos[n]] = todas[n]
    /\ \A n \in 1 .. Len(partes) : partes[n] = todas[Len(nuevos) + n]

\* The first of the pieces goes to a block that was not among those got.
LEMMA ACuentaSigue ==
    ASSUME NEW f \in [Bloques -> Seq(Unidad)], NEW nuevos \in Seq(Bloques), NEW partes \in Seq(Seq(Unidad)),
           NEW todas, partes # <<>>, ACuenta(f, nuevos, partes, todas),
           NEW b \in Bloques, \A n \in 1 .. Len(nuevos) : nuevos[n] # b,
           NEW g, g = [f EXCEPT ![b] = Head(partes)]
    PROVE  ACuenta(g, Append(nuevos, b), Tail(partes), todas)
  <1> DEFINE l == Len(nuevos)
             k == Len(partes)
             ns == Append(nuevos, b)
             ps == Tail(partes)
  <1>1. /\ k \in Nat \ {0} /\ l \in Nat /\ Head(partes) = partes[1]
        /\ Len(ps) = k - 1 /\ \A n \in 1 .. k - 1 : ps[n] = partes[n + 1]
    BY HeadTailProperties, LenProperties
  <1>2. /\ Len(ns) = l + 1 /\ ns[l + 1] = b
        /\ \A n \in 1 .. l : ns[n] = nuevos[n]
    BY AppendProperties
  <1>3. l + k = Len(todas)
    BY DEF ACuenta
  <1>4. ASSUME NEW n \in 1 .. l + 1 PROVE g[ns[n]] = todas[n]
    <2>1. CASE n = l + 1
      <3>1. partes[1] = todas[l + 1]
        BY <1>1 DEF ACuenta
      <3> QED BY <1>1, <1>2, <2>1, <3>1
    <2>2. CASE n \in 1 .. l
      <3>1. nuevos[n] \in Bloques /\ nuevos[n] # b /\ f[nuevos[n]] = todas[n]
        BY <2>2 DEF ACuenta
      <3> QED BY <1>2, <2>2, <3>1
    <2> QED BY <1>1, <2>1, <2>2
  <1>5. ASSUME NEW n \in 1 .. k - 1 PROVE ps[n] = todas[(l + 1) + n]
    <2>1. n + 1 \in 1 .. k /\ l + (n + 1) = (l + 1) + n
      BY <1>1
    <2>2. PICK m \in 1 .. k : m = n + 1
      BY <2>1
    <2>3. partes[m] = todas[l + m]
      BY DEF ACuenta
    <2> QED BY <1>1, <2>1, <2>2, <2>3
  <1>6. Len(ns) + Len(ps) = Len(todas)
    BY <1>1, <1>2, <1>3
  <1> HIDE DEF l, k, ns, ps
  <1>7. ACuenta(g, ns, ps, todas)
    BY <1>1, <1>2, <1>4, <1>5, <1>6 DEF ACuenta
  <1> QED BY <1>7 DEF ns, ps

LEMMA ACuentaFin ==
    ASSUME NEW f, NEW nuevos \in Seq(Bloques), NEW ps \in Seq(Viva), NEW partes \in Seq(Seq(Unidad)), Len(partes) = 0,
           ACuenta(f, nuevos, partes, Trozos(ps))
    PROVE  Guardan(f, nuevos, ps)
  BY DEF ACuenta, Guardan

\* Blocks that nobody touches keep on saying the same.
LEMMA ACuentaIgual ==
    ASSUME NEW f, NEW g, NEW nuevos, NEW partes, NEW todas, ACuenta(f, nuevos, partes, todas),
           \A n \in 1 .. Len(nuevos) : g[nuevos[n]] = f[nuevos[n]]
    PROVE  ACuenta(g, nuevos, partes, todas)
  BY DEF ACuenta

LEMMA GuardanIgual ==
    ASSUME NEW f, NEW g, NEW nuevos, NEW ps, Guardan(f, nuevos, ps),
           \A n \in 1 .. Len(nuevos) : g[nuevos[n]] = f[nuevos[n]]
    PROVE  Guardan(g, nuevos, ps)
  BY DEF Guardan

\* The size and the blocks are all of a file that is read.
LEMMA MismoArchivo ==
    ASSUME NEW f, NEW md, NEW me, me.size = md.size, me.blocks = md.blocks
    PROVE  (EsArchivo(f, me) <=> EsArchivo(f, md)) /\ Leidas(f, me) = Leidas(f, md)
  BY DEF EsArchivo, Leidas

\* What thread i has stored of the positions it has in memory.
Guarda(i) ==
    /\ SinTerminar(i) => Distintas(hilo[i].posiciones)
    /\ hilo[i].pc = "grabar" =>
          ACuenta(bloque, hilo[i].nuevos, hilo[i].partes, Trozos(hilo[i].posiciones))
    /\ hilo[i].pc \in {"blocks", "size", "truncar", "metadata"} =>
          Guardan(bloque, hilo[i].nuevos, hilo[i].posiciones)

\* A file that nobody rewrites is whole: its size and its blocks are those of the
\* positions that are read of it, each once.
Guardado(p) == metadata[p].estado = "entera" /\ ~AMedias(p) => EsArchivo(bloque, metadata[p])

Guardados ==
    /\ \A p \in Pokemones : Guardado(p)
    /\ \A i \in Ids : Guarda(i)

\* The size and the blocks of the other files stay.
SoloSuTexto(i) ==
    \A p \in Pokemones : p # Pokemon(i) =>
        /\ metadata'[p].estado = metadata[p].estado
        /\ metadata'[p].size = metadata[p].size
        /\ metadata'[p].blocks = metadata[p].blocks

\* What the blocks of the other files and threads say stays.
AjenosIntactos(i) ==
    /\ \A p \in Pokemones : p # Pokemon(i) /\ ~AMedias(p) =>
          \A n \in 1 .. Len(metadata[p].blocks) : bloque'[metadata[p].blocks[n]] = bloque[metadata[p].blocks[n]]
    /\ \A j \in Ids : j # i =>
          \A n \in 1 .. Len(Tomados(j)) : bloque'[Tomados(j)[n]] = bloque[Tomados(j)[n]]

LEMMA BloqueAjeno ==
    ASSUME Repartos, Tipado, NEW i \in Ids, NEW b, NEW x, bloque' = [bloque EXCEPT ![b] = x],
           b \notin bitmap \/ (PorLiberar(i) # <<>> /\ b = Head(PorLiberar(i)))
    PROVE  /\ AjenosIntactos(i)
           /\ b \notin bitmap => \A n \in 1 .. Len(Tomados(i)) : Tomados(i)[n] # b
  <1>1. bloque \in [Bloques -> Seq(Unidad)] /\ bitmap \subseteq Bloques
    BY DEF Tipado, DiscoOK
  <1>2. ASSUME NEW d \in Duenos, NEW n \in 1 .. Len(Reparto[d]), d # <<"viejo", i>> \/ b \notin bitmap
        PROVE  Reparto[d][n] # b /\ bloque'[Reparto[d][n]] = bloque[Reparto[d][n]]
    <2>1. Reparto[d][n] \in bitmap
      BY DEF Repartos, Repartido
    <2>2. Reparto[d][n] # b
      <3>1. CASE b \notin bitmap
        BY <2>1, <3>1
      <3>2. CASE b \in bitmap
        <4> DEFINE e == <<"viejo", i>>
        <4>1. e \in Duenos /\ Reparto[e] = PorLiberar(i) /\ e # d
          BY <1>2, <3>2, DuenosOK, RepartoEs
        <4>2. Reparto[e] \in Seq(Bloques) /\ Reparto[e] # <<>> /\ b = Head(Reparto[e])
          BY <3>2, <4>1 DEF Repartos, Repartido
        <4>3. 1 \in 1 .. Len(Reparto[e]) /\ Reparto[e][1] = b
          BY <4>2
        <4> HIDE DEF e
        <4>4. PICK m \in 1 .. Len(Reparto[e]) : Reparto[e][m] = b
          BY <4>3
        <4> QED BY <4>1, <4>4, UnaVez DEF Repartos
      <3> QED BY <3>1, <3>2
    <2> QED BY <1>1, <2>1, <2>2
  <1>3. ASSUME NEW p \in Pokemones, p # Pokemon(i), ~AMedias(p), NEW n \in 1 .. Len(metadata[p].blocks)
        PROVE  bloque'[metadata[p].blocks[n]] = bloque[metadata[p].blocks[n]]
    <2> DEFINE d == <<"archivo", p>>
    <2>1. d \in Duenos /\ d # <<"viejo", i>> /\ Reparto[d] = metadata[p].blocks
      BY <1>3, DuenosOK, RepartoEs DEF DelArchivo
    <2> HIDE DEF d
    <2> QED BY <1>2, <2>1
  <1>4. ASSUME NEW j \in Ids, NEW n \in 1 .. Len(Tomados(j))
        PROVE  /\ bloque'[Tomados(j)[n]] = bloque[Tomados(j)[n]]
               /\ Tomados(j)[n] # b
    <2> DEFINE d == <<"nuevo", j>>
    <2>1. d \in Duenos /\ d # <<"viejo", i>> /\ Reparto[d] = Tomados(j)
      BY DuenosOK, RepartoEs
    <2> HIDE DEF d
    <2> QED BY <1>2, <2>1
  <1> QED BY <1>3, <1>4 DEF AjenosIntactos

LEMMA SinTocar == ASSUME UNCHANGED bloque PROVE \A i : AjenosIntactos(i)
  BY DEF AjenosIntactos

\* A step of thread i spoils nothing of the others.
LEMMA GuardadosDe ==
    ASSUME Tipado, Tipado', Guardados, NEW i \in Ids, Solo(i), SoloSuTexto(i), AjenosIntactos(i),
           Guarda(i)', Guardado(Pokemon(i))'
    PROVE  Guardados'
  <1>1. ASSUME NEW p \in Pokemones PROVE Guardado(p)'
    <2>1. CASE p = Pokemon(i)
      BY <2>1 DEF Pokemon
    <2>2. CASE p # Pokemon(i)
      <3> SUFFICES ASSUME metadata'[p].estado = "entera", ~AMedias(p)' PROVE EsArchivo(bloque', metadata'[p])
        BY DEF Guardado
      <3> DEFINE md == metadata[p]
                 me == metadata'[p]
      <3>1. md \in Metadata /\ me.size = md.size /\ me.blocks = md.blocks /\ md.estado = "entera"
        BY <2>2 DEF SoloSuTexto, Tipado, DiscoOK
      <3>2. ~AMedias(p)
        BY <2>2, AMediasOtro
      <3>3. EsArchivo(bloque, md)
        BY <3>1, <3>2 DEF Guardados, Guardado
      <3>4. \A n \in 1 .. Len(md.blocks) : bloque'[md.blocks[n]] = bloque[md.blocks[n]]
        BY <2>2, <3>2 DEF AjenosIntactos
      <3> HIDE DEF md, me
      <3>5. EsArchivo(bloque', md)
        BY <3>1, <3>3, <3>4, IntactoOK
      <3>6. EsArchivo(bloque', me)
        BY <3>1, <3>5, MismoArchivo
      <3> QED BY <3>6 DEF me
    <2> QED BY <2>1, <2>2
  <1>2. ASSUME NEW j \in Ids PROVE Guarda(j)'
    <2>1. CASE j = i
      BY <2>1
    <2>2. CASE j # i
      <3>1. hilo'[j] = hilo[j] /\ Guarda(j)
        BY <2>2 DEF Solo, Guardados
      <3>2. hilo[j].pc \in {"grabar", "blocks", "size", "truncar", "metadata"} => Tomados(j) = hilo[j].nuevos
        BY DEF Tomados
      <3>3. \A n \in 1 .. Len(Tomados(j)) : bloque'[Tomados(j)[n]] = bloque[Tomados(j)[n]]
        BY <2>2 DEF AjenosIntactos
      <3>4. SinTerminar(j)' => Distintas(hilo'[j].posiciones)
        BY <3>1 DEF Guarda, SinTerminar, EstaModificando
      <3>5. ASSUME hilo[j].pc = "grabar"
            PROVE  ACuenta(bloque', hilo[j].nuevos, hilo[j].partes, Trozos(hilo[j].posiciones))
        BY <3>1, <3>2, <3>3, <3>5, ACuentaIgual DEF Guarda
      <3>6. ASSUME hilo[j].pc \in {"blocks", "size", "truncar", "metadata"}
            PROVE  Guardan(bloque', hilo[j].nuevos, hilo[j].posiciones)
        BY <3>1, <3>2, <3>3, <3>6, GuardanIgual DEF Guarda
      <3> QED BY <3>1, <3>4, <3>5, <3>6 DEF Guarda
    <2> QED BY <2>1, <2>2
  <1> QED BY <1>1, <1>2 DEF Guardados

\* The pokemon at each position, and where there are some.
Coord(ps) == [q \in Posiciones |-> Cuanto(ps, q)]
Donde(ps) == [q \in Posiciones |-> IF Cuanto(ps, q) > 0 THEN 1 ELSE 0]

\* GET tells of each position once, and of none exactly when the file has none.
LEMMA ConsultaOK ==
    ASSUME NEW ps \in Seq(Viva), Distintas(ps)
    PROVE  /\ [q \in Posiciones |-> Cardinality({n \in DOMAIN ps : ps[n].pos = q})] = Donde(ps)
           /\ ps = <<>> <=> Donde(ps) = SinCoord
  <1>1. ASSUME NEW q \in Posiciones
        PROVE  Cardinality({n \in DOMAIN ps : ps[n].pos = q}) = IF Cuanto(ps, q) > 0 THEN 1 ELSE 0
    <2> DEFINE s == {n \in DOMAIN ps : ps[n].pos = q}
               k == DondeEsta(ps, q)
    <2>1. Cuanto(ps, q) > 0 <=> k # 0
      BY CuantoOK
    <2>2. CASE k = 0
      <3>1. \A n \in 1 .. Len(ps) : ps[n].pos # q
        BY <2>2, DondeEstaOK
      <3>2. s = {}
        BY <3>1
      <3> QED BY <2>1, <2>2, <3>2, FS_EmptySet
    <2>3. CASE k # 0
      <3>1. k \in 1 .. Len(ps) /\ ps[k].pos = q
        BY <2>3, DondeEstaOK
      <3> HIDE DEF k
      <3>2. s = {k}
        BY <3>1 DEF Distintas
      <3> QED BY <2>1, <2>3, <3>2, FS_Singleton
    <2> QED BY <2>2, <2>3
  <1>2. ASSUME ps = <<>> PROVE Donde(ps) = SinCoord
    <2>1. \A n \in 1 .. Len(ps) : FALSE
      BY <1>2
    <2>2. \A q : Cuanto(ps, q) = 0
      BY <2>1, CuantoOK
    <2> QED BY <2>2 DEF Donde, SinCoord
  <1>3. ASSUME ps # <<>> PROVE Donde(ps) # SinCoord
    <2>1. 1 \in 1 .. Len(ps) /\ ps[1] \in Viva
      BY <1>3
    <2>2. PICK q \in Posiciones : q = ps[1].pos
      BY <2>1 DEF Viva
    <2>3. Cuanto(ps, q) = ps[1].cantidad /\ ps[1].cantidad \in Nat \ {0}
      BY <2>1, <2>2, CuantoOK DEF Viva
    <2>4. Donde(ps)[q] = 1 /\ SinCoord[q] = 0
      BY <2>3 DEF Donde, SinCoord
    <2> QED BY <2>4
  <1> QED BY <1>1, <1>2, <1>3 DEF Donde

Respuesta(tipo) == [tipo |-> tipo, coord |-> SinCoord]

\* What message m makes of the positions of its file, and its answer.
LEMMA DecisionOK ==
    ASSUME NEW m \in Mensaje, NEW ps \in Seq(Viva), Distintas(ps)
    PROVE  LET d == Decision(m, ps)
           IN  /\ d.posiciones \in Seq(Viva) /\ Distintas(d.posiciones)
               /\ \/ /\ m.op = "NEW" /\ d.resultado = Respuesta("APPEARED")
                     /\ Coord(d.posiciones) = [Coord(ps) EXCEPT ![m.pos] = @ + m.cantidad]
                  \/ /\ m.op = "CATCH" /\ Coord(ps)[m.pos] > 0 /\ d.resultado = Respuesta("OK")
                     /\ Coord(d.posiciones) = [Coord(ps) EXCEPT ![m.pos] = @ - 1]
                  \/ /\ m.op = "CATCH" /\ Coord(ps)[m.pos] = 0 /\ d.resultado = Respuesta("FAIL")
                     /\ d.posiciones = ps
                  \/ /\ m.op = "GET" /\ d.posiciones = ps
                     /\ d.resultado = [tipo |-> IF Donde(ps) = SinCoord THEN "VACIO" ELSE "LOCALIZED",
                                       coord |-> Donde(ps)]
  <1> DEFINE d == Decision(m, ps)
  <1>1. m.pos \in Posiciones /\ m.cantidad \in Nat \ {0} /\ m.op \in {"NEW", "CATCH", "GET"}
    BY DEF Mensaje
  <1>2. /\ Cuanto(ps, m.pos) \in Nat /\ Coord(ps)[m.pos] = Cuanto(ps, m.pos)
        /\ Cuanto(ps, m.pos) > 0 <=> existe_posicion_en_archivo(ps, m.pos)
    BY <1>1, CuantoOK DEF Coord, existe_posicion_en_archivo
  <1>3. CASE m.op = "NEW"
    <2> DEFINE rs == actualizar_posiciones_archivo(ps, m.pos, m.cantidad)
    <2>1. /\ rs \in Seq(Viva) /\ Distintas(rs)
          /\ \A q : Cuanto(rs, q) = IF q = m.pos THEN Cuanto(ps, q) + m.cantidad ELSE Cuanto(ps, q)
      BY <1>1, ActualizarOK
    <2>2. d = [resultado |-> [tipo |-> "APPEARED", coord |-> SinCoord], posiciones |-> rs]
      BY <1>3 DEF Decision
    <2> HIDE DEF rs, d
    <2>3. d.posiciones = rs /\ d.resultado = Respuesta("APPEARED")
      BY <2>2 DEF Respuesta
    <2>4. Coord(rs) = [Coord(ps) EXCEPT ![m.pos] = @ + m.cantidad]
      BY <1>1, <2>1 DEF Coord
    <2> QED BY <1>3, <2>1, <2>3, <2>4 DEF d
  <1>4. CASE m.op = "CATCH" /\ existe_posicion_en_archivo(ps, m.pos)
    <2> DEFINE rs == eliminar_posicion_en_archivo(ps, m.pos)
    <2>1. /\ rs \in Seq(Viva) /\ Distintas(rs)
          /\ \A q : Cuanto(rs, q) = IF q = m.pos THEN Cuanto(ps, q) - 1 ELSE Cuanto(ps, q)
      BY <1>1, <1>4, EliminarOK
    <2>2. d = [resultado |-> [tipo |-> "OK", coord |-> SinCoord], posiciones |-> rs]
      BY <1>4 DEF Decision
    <2> HIDE DEF rs, d
    <2>3. d.posiciones = rs /\ d.resultado = Respuesta("OK")
      BY <2>2 DEF Respuesta
    <2>4. Coord(rs) = [Coord(ps) EXCEPT ![m.pos] = @ - 1]
      BY <1>1, <2>1 DEF Coord
    <2> QED BY <1>2, <1>4, <2>1, <2>3, <2>4 DEF d
  <1>5. CASE m.op = "CATCH" /\ ~existe_posicion_en_archivo(ps, m.pos)
    <2>1. d = [resultado |-> [tipo |-> "FAIL", coord |-> SinCoord], posiciones |-> ps]
      BY <1>5 DEF Decision
    <2> HIDE DEF d
    <2>2. d.posiciones = ps /\ d.resultado = Respuesta("FAIL")
      BY <2>1 DEF Respuesta
    <2>3. Coord(ps)[m.pos] = 0
      BY <1>2, <1>5
    <2> QED BY <1>5, <2>2, <2>3 DEF d
  <1>6. CASE m.op = "GET"
    <2> DEFINE c == [q \in Posiciones |-> Cardinality({n \in DOMAIN ps : ps[n].pos = q})]
               t == IF ps = <<>> THEN "VACIO" ELSE "LOCALIZED"
    <2>1. d = [resultado |-> [tipo |-> t, coord |-> c], posiciones |-> ps]
      BY <1>6 DEF Decision
    <2>2. c = Donde(ps) /\ t = IF Donde(ps) = SinCoord THEN "VACIO" ELSE "LOCALIZED"
      BY ConsultaOK
    <2> HIDE DEF c, t, d
    <2>3. d.posiciones = ps /\ d.resultado = [tipo |-> t, coord |-> c]
      BY <2>1
    <2> QED BY <1>6, <2>2, <2>3 DEF d
  <1> HIDE DEF d
  <1>7. m.op = "CATCH" \/ m.op = "NEW" \/ m.op = "GET"
    BY <1>1
  <1> QED BY <1>3, <1>4, <1>5, <1>6, <1>7

\* What is loaded of a file is what is read of its blocks.
LEMMA CargadasSon == \A md : Cargadas(md) = Leidas(bloque, md)
  BY DEF Cargadas, Leidas, get_contenido_bloques

\* A step of thread i: the files and blocks of the others stay.
LEMMA AlcanceOK ==
    ASSUME Siempre3, NEW i \in Ids, Recibir(i) \/ Paso(i), ~(MismosArchivos /\ UNCHANGED hilo)
    PROVE  Solo(i) /\ SoloSuTexto(i) /\ AjenosIntactos(i)
  <1>0. Tipado /\ IInv /\ Repartos
    BY DEF Siempre3, Siempre2, Siempre1
  <1>1. CASE MismosArchivos /\ Solo(i)
    BY <1>1, SinTocar DEF MismosArchivos, SoloSuTexto
  <1>2. CASE LeerArchivo(i) /\ ~UNCHANGED hilo
    <2>1. Solo(i) /\ UNCHANGED <<bitmap, bloque, metadata>>
      BY <1>0, <1>2, LeerEfecto DEF disco
    <2> QED BY <2>1, SinTocar DEF SoloSuTexto
  <1>3. CASE LiberarBloque(i)
    <2>1. /\ Solo(i) /\ hilo[i].pc = "liberar" /\ hilo[i].blocks # <<>> /\ UNCHANGED metadata
          /\ bloque' = [bloque EXCEPT ![Head(hilo[i].blocks)] = <<>>]
      BY <1>0, <1>3, LiberarEfecto
    <2>2. PorLiberar(i) = hilo[i].blocks
      BY <1>0, <2>1 DEF PorLiberar, SinTerminar, IInv, Decididos
    <2> QED BY <1>0, <2>1, <2>2, BloqueAjeno DEF SoloSuTexto
  <1>4. CASE Recortar(i) \/ Crear(i)
    <2>1. Solo(i) /\ UNCHANGED <<bitmap, bloque, metadata>>
      BY <1>0, <1>4, RecortarEfecto, CrearEfecto DEF disco
    <2> QED BY <2>1, SinTocar DEF SoloSuTexto
  <1>5. CASE GrabarBloque(i)
    <2>1. PICK b \in Bloques \ bitmap :
             /\ Solo(i) /\ UNCHANGED metadata
             /\ bloque' = [bloque EXCEPT ![b] = Head(hilo[i].partes)]
      BY <1>0, <1>5, GrabarEfecto
    <2> QED BY <1>0, <2>1, BloqueAjeno DEF SoloSuTexto
  <1>6. CASE EscribirBlocks(i) \/ EscribirSize(i) \/ Truncar(i) \/ GrabarMetadata(i)
    <2>1. /\ Solo(i) /\ UNCHANGED bloque
          /\ \A p \in Pokemones : p # Pokemon(i) => metadata'[p] = metadata[p]
      BY <1>0, <1>6, EscribirEfecto, TruncarEfecto, CreadoEfecto
    <2> QED BY <2>1, SinTocar DEF SoloSuTexto
  <1> QED BY <1>0, <1>1, <1>2, <1>3, <1>4, <1>5, <1>6, LosPasos

\* A step that stores nothing.
LEMMA GuardaIgual ==
    ASSUME NEW i \in Ids, Guarda(i), UNCHANGED bloque,
           hilo'[i].posiciones = hilo[i].posiciones, hilo'[i].nuevos = hilo[i].nuevos,
           SinTerminar(i)' => SinTerminar(i),
           hilo'[i].pc # "grabar",
           hilo'[i].pc \in {"blocks", "size", "truncar", "metadata"} =>
              hilo[i].pc \in {"blocks", "size", "truncar", "metadata"}
    PROVE  Guarda(i)'
  BY DEF Guarda

LEMMA GuardadosOK ==
    ASSUME Siempre3, Siempre3', Guardados, NEW i \in Ids, Recibir(i) \/ Paso(i)
    PROVE  Guardados'
  <1> DEFINE p == Pokemon(i)
  <1>0. /\ Tipado /\ Tipado' /\ IInv /\ Respuestas /\ Altas /\ Repartos /\ p \in Pokemones /\ p' = p
        /\ Forma(i) /\ Guarda(i) /\ Guardado(p) /\ hilo[i] \in Hilo
    BY MensajeOK DEF Siempre3, Siempre2, Siempre1, Formas, Guardados, Pokemon, Tipado, HilosOK
  <1>00. Guardado(p)' <=> (metadata'[p].estado = "entera" /\ ~AMedias(p)' => EsArchivo(bloque', metadata'[p]))
    BY <1>0 DEF Guardado
  <1>1. CASE MismosArchivos /\ UNCHANGED hilo
    <2>1. ASSUME NEW q \in Pokemones PROVE Guardado(q)'
      <3>1. /\ metadata'[q].estado = metadata[q].estado /\ metadata'[q].size = metadata[q].size
            /\ metadata'[q].blocks = metadata[q].blocks /\ bloque' = bloque
        BY <1>1 DEF MismosArchivos
      <3>2. AMedias(q)' <=> AMedias(q)
        BY <1>1 DEF AMedias, SinTerminar, EstaModificando, Pokemon
      <3>3. Guardado(q)
        BY DEF Guardados
      <3> QED BY <3>1, <3>2, <3>3, MismoArchivo DEF Guardado
    <2>2. \A j \in Ids : Guarda(j)'
      BY <1>1 DEF Guardados, Guarda, SinTerminar, EstaModificando, MismosArchivos
    <2> QED BY <2>1, <2>2 DEF Guardados
  <1> SUFFICES ASSUME ~(MismosArchivos /\ UNCHANGED hilo) PROVE Guardados'
    BY <1>1
  <1>2. Solo(i) /\ SoloSuTexto(i) /\ AjenosIntactos(i)
    BY AlcanceOK
  <1> SUFFICES Guarda(i)' /\ Guardado(p)'
    BY <1>0, <1>2, GuardadosDe
  <1>3. CASE MismosArchivos /\ MismoHilo(i) /\ Avanza(i)
    <2>1. /\ SinTerminar(i)' <=> SinTerminar(i)
          /\ hilo'[i].pc \notin {"grabar", "blocks", "size", "truncar", "metadata"}
      BY <1>3 DEF Avanza, MismoHilo, SinTerminar, EstaModificando, Previas
    <2>2. Guarda(i)'
      BY <1>0, <1>3, <2>1, GuardaIgual DEF MismosArchivos, MismoHilo
    <2>3. /\ metadata'[p].estado = metadata[p].estado /\ metadata'[p].size = metadata[p].size
          /\ metadata'[p].blocks = metadata[p].blocks /\ bloque' = bloque
      BY <1>0, <1>3 DEF MismosArchivos
    <2>4. AMedias(p)' <=> AMedias(p)
      BY <1>2, <2>1, AMediasIgual
    <2>5. Guardado(p)'
      BY <1>0, <1>00, <2>3, <2>4, MismoArchivo DEF Guardado
    <2> QED BY <2>2, <2>5
  <1>4. CASE LeerArchivo(i) /\ ~UNCHANGED hilo
    <2> DEFINE md == metadata[p]
               ps == Cargadas(md)
               d == Decision(msj[i], ps)
    <2>1. /\ ps \in Seq(Viva) /\ hilo[i].pc = "leer" /\ UNCHANGED disco
          /\ hilo'[i].pc \in {"liberar", "quitar"} /\ hilo'[i].posiciones = d.posiciones
          /\ hilo'[i].resultado = d.resultado
      BY <1>0, <1>4, LeerEfecto
    <2>2. ~SinTerminar(i) /\ TieneElMutex(i)
      BY <2>1 DEF SinTerminar, TieneElMutex, LoTieneAbierto
    <2>3. ~AMedias(p) /\ md.estado = "entera"
      BY <1>0, <2>2, AMediasSuyo DEF Altas, Abriendo
    <2>4. EsArchivo(bloque, md)
      BY <1>0, <2>3 DEF Guardado
    <2>5. Distintas(ps)
      BY <2>4, CargadasSon DEF EsArchivo
    <2>6. msj[i] \in Mensaje
      BY MensajeOK
    <2> HIDE DEF ps
    <2>7. Distintas(d.posiciones)
      BY <2>1, <2>5, <2>6, DecisionOK
    <2>8. Guarda(i)'
      BY <2>1, <2>7 DEF Guarda
    <2>9. Guardado(p)'
      BY <1>00, <2>1, <2>4 DEF disco
    <2> QED BY <2>8, <2>9
  <1>5. CASE LiberarBloque(i)
    <2>1. /\ hilo[i].pc = "liberar" /\ hilo'[i].pc = "liberar" /\ hilo'[i].resultado = hilo[i].resultado
          /\ hilo'[i].posiciones = hilo[i].posiciones
      BY <1>0, <1>5, LiberarEfecto
    <2>2. SinTerminar(i) /\ SinTerminar(i)'
      BY <1>0, <2>1 DEF SinTerminar, EstaModificando, IInv, Decididos
    <2>3. AMedias(p)'
      BY <1>0, <2>2 DEF AMedias
    <2>4. Guarda(i)'
      BY <1>0, <2>1, <2>2 DEF Guarda
    <2> QED BY <1>00, <2>3, <2>4
  <1>6. CASE Recortar(i)
    <2>1. /\ hilo[i].pc = "liberar" /\ hilo'[i].pc = IF hilo[i].posiciones = <<>> THEN "blocks" ELSE "grabar"
          /\ hilo'[i].partes = Trozos(hilo[i].posiciones) /\ hilo'[i].resultado = hilo[i].resultado
          /\ hilo'[i].nuevos = hilo[i].nuevos /\ hilo'[i].posiciones = hilo[i].posiciones
          /\ UNCHANGED disco
      BY <1>0, <1>6, RecortarEfecto
    <2>2. SinTerminar(i) /\ SinTerminar(i)'
      BY <1>0, <2>1 DEF SinTerminar, EstaModificando, IInv, Decididos
    <2>3. AMedias(p)'
      BY <1>0, <2>2 DEF AMedias
    <2> DEFINE ts == Trozos(hilo[i].posiciones)
    <2>4. hilo'[i].nuevos = <<>> /\ ts \in Seq(Seq(Unidad)) /\ hilo[i].posiciones \in Seq(Viva)
      BY <1>0, <2>1, TrozosOK DEF Forma, SinNuevos, Hilo
    <2>5. hilo[i].posiciones = <<>> => ts = <<>>
      BY DEF Trozos
    <2> HIDE DEF ts
    <2>6. ACuenta(bloque', <<>>, ts, ts)
      BY <2>4 DEF ACuenta
    <2>7. ASSUME hilo[i].posiciones = <<>> PROVE Guardan(bloque', <<>>, hilo[i].posiciones)
      BY <2>5, <2>7 DEF Guardan, ts
    <2>8. Guarda(i)'
      BY <1>0, <2>1, <2>2, <2>4, <2>6, <2>7 DEF Guarda, ts
    <2> QED BY <1>00, <2>3, <2>8
  <1>7. CASE Crear(i)
    <2>1. /\ hilo[i].pc = "crear" /\ hilo'[i].pc = "grabar"
          /\ hilo'[i].partes = Trozos(Pedida(i)) /\ hilo'[i].posiciones = Pedida(i)
          /\ hilo'[i].nuevos = hilo[i].nuevos /\ hilo'[i].resultado = hilo[i].resultado
          /\ UNCHANGED disco
      BY <1>0, <1>7, CrearEfecto
    <2>2. ~SinTerminar(i)' /\ Creador(i)
      BY <1>0, <2>1 DEF SinTerminar, EstaModificando, IInv, Decididos, Creador
    <2>3. metadata'[p].estado # "entera"
      BY <1>0, <2>1, <2>2 DEF Altas, Alta, disco
    <2> DEFINE ts == Trozos(Pedida(i))
    <2>4. hilo'[i].nuevos = <<>> /\ ts \in Seq(Seq(Unidad))
      BY <1>0, <2>1, TrozosOK, PedidaOK DEF Forma, SinNuevos
    <2>5. hilo'[i].partes = ts /\ Trozos(hilo'[i].posiciones) = ts
      BY <2>1
    <2> HIDE DEF ts
    <2>6. ACuenta(bloque', <<>>, ts, ts)
      BY <2>4 DEF ACuenta
    <2>7. Guarda(i)'
      BY <2>1, <2>2, <2>4, <2>5, <2>6 DEF Guarda
    <2> QED BY <1>00, <2>3, <2>7
  <1>8. CASE GrabarBloque(i)
    <2>1. PICK b \in Bloques \ bitmap :
           /\ hilo[i].pc = "grabar"
           /\ hilo[i].partes \in Seq(Seq(Unidad)) /\ hilo[i].partes # <<>> /\ hilo[i].nuevos \in Seq(Bloques)
           /\ hilo'[i].pc = IF Len(hilo[i].partes) > 1 THEN "grabar"
                            ELSE IF EstaModificando(i) THEN "blocks" ELSE "truncar"
           /\ hilo'[i].partes = Tail(hilo[i].partes) /\ hilo'[i].nuevos = Append(hilo[i].nuevos, b)
           /\ hilo'[i].posiciones = hilo[i].posiciones /\ hilo'[i].resultado = hilo[i].resultado
           /\ bloque' = [bloque EXCEPT ![b] = Head(hilo[i].partes)]
           /\ UNCHANGED metadata
      BY <1>0, <1>8, GrabarEfecto
    <2>2. SinTerminar(i)' <=> SinTerminar(i)
      BY <2>1 DEF SinTerminar, EstaModificando
    <2>3. \A n \in 1 .. Len(hilo[i].nuevos) : hilo[i].nuevos[n] # b
      BY <1>0, <2>1, BloqueAjeno DEF Tomados
    <2> DEFINE ns == Append(hilo[i].nuevos, b)
               qs == Tail(hilo[i].partes)
               ps == hilo[i].posiciones
               c == Len(hilo[i].partes)
    <2>4. bloque \in [Bloques -> Seq(Unidad)] /\ ps \in Seq(Viva)
      BY <1>0 DEF Tipado, DiscoOK, Hilo
    <2>5. /\ ns \in Seq(Bloques) /\ qs \in Seq(Seq(Unidad))
          /\ c \in Nat \ {0} /\ Len(qs) = c - 1
      BY <2>1, HeadTailProperties, AppendProperties
    <2>6. ACuenta(bloque', ns, qs, Trozos(ps))
      BY <1>0, <2>1, <2>3, <2>4, ACuentaSigue DEF Guarda
    <2>7. hilo'[i].nuevos = ns /\ hilo'[i].partes = qs /\ hilo'[i].posiciones = ps
      BY <2>1
    <2>8. hilo'[i].pc = "grabar" <=> c > 1
      BY <2>1
    <2>9. hilo'[i].pc \in {"grabar", "blocks", "truncar"}
      BY <2>1
    <2> HIDE DEF ns, qs, ps, c
    <2>10. hilo'[i].pc # "grabar" => Guardan(bloque', ns, ps)
      BY <2>4, <2>5, <2>6, <2>8, ACuentaFin
    <2>11. Guarda(i)'
      BY <1>0, <2>2, <2>6, <2>7, <2>9, <2>10 DEF Guarda, ps
    <2>12. Guardado(p)'
      <3>1. CASE EstaModificando(i)
        <4>1. SinTerminar(i)'
          BY <2>1, <2>2, <3>1 DEF SinTerminar
        <4> QED BY <1>0, <1>00, <4>1 DEF AMedias
      <3>2. CASE ~EstaModificando(i)
        BY <1>0, <1>00, <2>1, <3>2 DEF Altas, Alta, Creador
      <3> QED BY <3>1, <3>2
    <2> QED BY <2>11, <2>12
  <1>9. CASE EscribirBlocks(i)
    <2>1. /\ MismoHilo(i) /\ UNCHANGED bloque /\ hilo[i].pc = "blocks" /\ hilo'[i].pc = "size"
      <3>1. hilo[i].pc = "blocks"
        BY <1>9 DEF EscribirBlocks, En
      <3> QED BY <1>0, <1>9, <3>1, EscribirEfecto
    <2>2. SinTerminar(i) /\ SinTerminar(i)'
      BY <1>0, <2>1 DEF SinTerminar, EstaModificando, IInv, Decididos, MismoHilo
    <2>3. AMedias(p)'
      BY <1>0, <2>2 DEF AMedias
    <2>4. Guarda(i)'
      BY <1>0, <2>1, <2>2, GuardaIgual DEF MismoHilo
    <2> QED BY <1>00, <2>3, <2>4
  <1>10. CASE EscribirSize(i)
    <2>1. /\ MismoHilo(i) /\ UNCHANGED bloque /\ hilo[i].pc = "size" /\ hilo'[i].pc = "quitar"
          /\ hilo[i].nuevos \in Seq(Bloques) /\ hilo[i].posiciones \in Seq(Viva)
          /\ metadata'[p].blocks = metadata[p].blocks
          /\ metadata'[p].size = Largo * Len(hilo[i].posiciones)
      <3>1. hilo[i].pc = "size"
        BY <1>10 DEF EscribirSize, En
      <3> QED BY <1>0, <1>10, <3>1, EscribirEfecto
    <2>2. SinTerminar(i) /\ ~SinTerminar(i)'
      BY <1>0, <2>1 DEF SinTerminar, EstaModificando, IInv, Decididos
    <2>3. Guarda(i)'
      BY <1>0, <2>1, <2>2, GuardaIgual DEF MismoHilo
    <2>4. metadata'[p] \in Metadata /\ metadata'[p].blocks = hilo[i].nuevos
      BY <1>0, <2>1 DEF Tipado, DiscoOK, Forma
    <2>5. Distintas(hilo[i].posiciones) /\ Guardan(bloque', hilo[i].nuevos, hilo[i].posiciones)
      BY <1>0, <2>1, <2>2 DEF Guarda
    <2>6. EsArchivo(bloque', metadata'[p])
      BY <2>1, <2>4, <2>5, EscritoOK
    <2> QED BY <1>00, <2>3, <2>6
  <1>11. CASE Truncar(i)
    <2>1. /\ MismoHilo(i) /\ UNCHANGED bloque /\ hilo[i].pc = "truncar" /\ hilo'[i].pc = "metadata"
          /\ metadata'[p].estado = "vacia"
      BY <1>0, <1>11, TruncarEfecto
    <2>2. ~SinTerminar(i)'
      BY <2>1 DEF SinTerminar
    <2>3. Guarda(i)'
      BY <1>0, <2>1, <2>2, GuardaIgual DEF MismoHilo
    <2> QED BY <1>00, <2>1, <2>3
  <1>12. CASE GrabarMetadata(i)
    <2> DEFINE me == metadata'[p]
    <2>1. /\ UNCHANGED bloque /\ hilo[i].pc = "metadata" /\ hilo'[i].pc = "enviar"
          /\ hilo[i].nuevos \in Seq(Bloques)
      BY <1>0, <1>12, CreadoEfecto
    <2>2. me.size = Largo /\ me.blocks = hilo[i].nuevos
      <3>1. me = [estado |-> "entera", size |-> Largo, blocks |-> hilo[i].nuevos, open |-> "N"]
        BY <1>0, <1>12, CreadoEfecto
      <3> HIDE DEF me
      <3> QED BY <3>1
    <2>3. hilo[i].posiciones = Pedida(i) /\ Pedida(i) \in Seq(Viva) /\ Len(Pedida(i)) = 1 /\ Distintas(Pedida(i))
      BY <1>0, <2>1, PedidaOK DEF Forma, Creador, Pedida, Distintas
    <2>4. Guardan(bloque', me.blocks, Pedida(i)) /\ me \in Metadata
      BY <1>0, <2>1, <2>2, <2>3 DEF Guarda, Tipado, DiscoOK
    <2>5. me.size = Largo * Len(Pedida(i))
      BY <2>2, <2>3, TallGrassAssumption
    <2> HIDE DEF me
    <2>6. EsArchivo(bloque', me)
      BY <2>3, <2>4, <2>5, EscritoOK
    <2>7. Guarda(i)'
      BY <2>1 DEF Guarda, SinTerminar
    <2> QED BY <1>00, <2>6, <2>7 DEF me
  <1> HIDE DEF p
  <1> QED BY <1>0, <1>3, <1>4, <1>5, <1>6, <1>7, <1>8, <1>9, <1>10, <1>11, <1>12, LosPasos

LEMMA GuardadosNext ==
    ASSUME Siempre3, Siempre3', Guardados, [Next]_vars
    PROVE  Guardados'
  <1>1. CASE Reintentar
    <2>1. PICK i \in Ids : /\ Solo(i) /\ UNCHANGED disco /\ hilo[i].pc = "encolado"
                           /\ hilo'[i] = [HiloNuevo EXCEPT !.pc = "existe"]
      BY <1>1, RelanzarEfecto DEF Siempre3, Siempre2, Siempre1
    <2>2. hilo'[i].pc = "existe"
      BY <2>1 DEF HiloNuevo
    <2>3. ~SinTerminar(i) /\ ~SinTerminar(i)' /\ Guarda(i)'
      BY <2>1, <2>2 DEF SinTerminar, Guarda
    <2>4. SoloSuTexto(i) /\ AjenosIntactos(i)
      BY <2>1, SinTocar DEF SoloSuTexto, disco
    <2>5. AMedias(Pokemon(i))' <=> AMedias(Pokemon(i))
      BY <2>1, <2>3, AMediasIgual DEF Pokemon
    <2>6. Guardado(Pokemon(i))'
      BY <2>1, <2>5, MensajeOK DEF Guardados, Guardado, disco, Pokemon
    <2> QED BY <2>1, <2>3, <2>4, <2>6, GuardadosDe DEF Siempre3, Siempre2, Siempre1
  <1>2. CASE UNCHANGED <<disco, hilo>>
    BY <1>2 DEF Guardados, Guardado, Guarda, disco, AMedias, SinTerminar, EstaModificando, Pokemon
  <1>3. \A i \in Ids : Recibir(i) \/ Paso(i) => Guardados'
    BY GuardadosOK
  <1> QED BY <1>1, <1>2, <1>3 DEF Next, Dispatcher, DespertarDispatcher, FinDispatcher, vars

\* The text of one position takes one block.
LEMMA UnTrozo ==
    ASSUME NEW ps \in Seq(Viva), Len(ps) = 1
    PROVE  /\ Len(Trozos(ps)) = 1
           /\ Trozos(ps)[1] = serializar_lista_posiciones_pokemon(ps)
  <1> DEFINE texto == serializar_lista_posiciones_pokemon(ps)
             parte == Partes(texto)[1]
  <1>1. texto \in Seq(Unidad) /\ Len(texto) = Largo
    <2>1. texto \in Seq(Unidad) /\ Len(texto) = Largo * Len(ps)
      BY TextoOK
    <2> QED BY <2>1, TallGrassAssumption
  <1>2. Largo \in Nat \ {0} /\ block_size \in Nat \ {0} /\ Largo <= block_size
    BY TallGrassAssumption
  <1>3. CantidadBloques(Largo) = 1
    <2>1. CASE Largo < block_size
      BY <2>1 DEF CantidadBloques
    <2>2. CASE Largo = block_size
      <3> DEFINE b == block_size
                 a == b + b - 1
      <3>1. a \in Nat /\ b \in Nat \ {0} /\ CantidadBloques(Largo) = a \div b
        BY <1>2, <2>2 DEF CantidadBloques
      <3>2. 1 * b <= a /\ a < 1 * b + b
        BY <1>2
      <3> HIDE DEF a, b
      <3> QED BY <3>1, <3>2, DivOK
    <2> QED BY <1>2, <2>1, <2>2
  <1>4. UnidadesDe(Largo, 1) = Largo
    BY <1>2 DEF UnidadesDe
  <1> HIDE DEF texto
  <1>5. Len(Partes(texto)) = 1 /\ parte \in Seq(Unidad) /\ Len(parte) = Largo
    BY <1>1, <1>3, <1>4, PartesOK
  <1>6. \A k \in 1 .. Largo : parte[k] = texto[(1 - 1) * block_size + k]
    BY <1>1, <1>3, <1>4, PartesOK
  <1> HIDE DEF parte
  <1>7. \A k \in 1 .. Largo : parte[k] = texto[k]
    BY <1>2, <1>6
  <1>8. parte = texto
    BY <1>1, <1>5, <1>7
  <1>9. ps # <<>>
    OBVIOUS
  <1> QED BY <1>5, <1>8, <1>9 DEF Trozos, texto, parte

\* The files there are at the start.
LEMMA InicialOK ==
    ASSUME Init, NEW p \in Pokemones
    PROVE  /\ <<Primera>> \in Seq(Viva) /\ Distintas(<<Primera>>)
           /\ NumeroDe(p) # 0 => /\ metadata[p].estado = "entera" /\ EsArchivo(bloque, metadata[p])
                                 /\ Leidas(bloque, metadata[p]) = <<Primera>>
           /\ NumeroDe(p) = 0 => metadata[p].estado = "ausente"
  <1> DEFINE ps == <<Primera>>
             md == metadata[p]
             nro == NumeroDe(p)
  <1>1. ps \in Seq(Viva) /\ Len(ps) = 1 /\ Distintas(ps)
    <2> DEFINE x == Primera
    <2>1. x \in Viva
      BY PrimeraOK
    <2> HIDE DEF x
    <2>2. <<x>> \in Seq(Viva) /\ Len(<<x>>) = 1
      BY <2>1
    <2> QED BY <2>2 DEF x, Distintas
  <1>2. metadata = [q \in Pokemones |-> IF NumeroDe(q) = 0 THEN Ausente
                       ELSE [estado |-> "entera", size |-> Largo, blocks |-> <<NumeroDe(q)>>, open |-> "N"]]
    BY DEF Init, InitDisco
  <1>3. ASSUME nro # 0 PROVE md.estado = "entera" /\ EsArchivo(bloque, md) /\ Leidas(bloque, md) = ps
    <2> DEFINE bl == <<nro>>
    <2>1. md = [estado |-> "entera", size |-> Largo, blocks |-> bl, open |-> "N"]
      BY <1>2, <1>3
    <2>2. nro \in Bloques /\ nro \in DOMAIN Existentes
      BY <1>3, NumeroOK, TallGrassAssumption
    <2>3. bloque[nro] = serializar_lista_posiciones_pokemon(ps)
      BY <2>2 DEF Init, InitDisco
    <2>4. Len(bl) = 1 /\ bl[1] = nro
      OBVIOUS
    <2>5. md \in Metadata
      BY TipadoInicio DEF Tipado, DiscoOK
    <2> HIDE DEF ps, md, nro, bl
    <2>6. md.estado = "entera" /\ md.size = Largo /\ md.blocks = bl
      BY <2>1
    <2>7. Guardan(bloque, bl, ps)
      BY <1>1, <2>3, <2>4, UnTrozo DEF Guardan
    <2>8. md.size = Largo * Len(ps)
      BY <1>1, <2>6, TallGrassAssumption
    <2> QED BY <1>1, <2>5, <2>6, <2>7, <2>8, EscritoOK
  <1>4. nro = 0 => md.estado = "ausente"
    BY <1>2 DEF Ausente
  <1> QED BY <1>1, <1>3, <1>4

LEMMA GuardadosInicio == Init => Guardados
  <1> SUFFICES ASSUME Init PROVE Guardados
    OBVIOUS
  <1>1. \A i \in Ids : hilo[i].pc = "fuera" /\ ~SinTerminar(i)
    BY DEF Init, HiloNuevo, SinTerminar
  <1>2. \A p \in Pokemones : Guardado(p)
    BY InicialOK DEF Guardado
  <1> QED BY <1>1, <1>2 DEF Guardados, Guarda

\* What holds when no two NEW messages create one file.
Siempre4 == Siempre3 /\ Guardados

LEMMA Siempre4Paso == ASSUME AltaUnica PROVE Siempre4 /\ [Next]_vars => Siempre4'
  BY Siempre3Paso, GuardadosNext DEF Siempre4

LEMMA Siempre4Inicio == Init => Siempre4
  BY Inicio, TipadoInicio, AltasInicio, FormasInicio, RepartosInicio, GuardadosInicio
     DEF Siempre1, Siempre2, Siempre3, Siempre4

LEMMA Siempre4OK == ASSUME AltaUnica PROVE Spec => []Siempre4
  BY Siempre4Inicio, Siempre4Paso, PTL DEF Spec

(***************************************************************************)
(* Each message acts in one step                                           *)
(***************************************************************************)
\* What the file of p is worth is what ps adds up to.
Vale(p, ps) ==
    \/ \E i \in Ids : Pokemon(i) = p /\ SinTerminar(i) /\ ps = hilo[i].posiciones
    \/ ~AMedias(p) /\ metadata[p].estado = "entera" /\ ps = Leidas(bloque, metadata[p])
    \/ ~AMedias(p) /\ metadata[p].estado # "entera" /\ ps = <<>>

Lineas == {ps \in Seq(Viva) : Distintas(ps)}

Mundo == [p \in Pokemones |-> Contenido(p)]
Resultados == [i \in Ids |-> hilo[i].resultado]

LEMMA VaciaOK == <<>> \in Lineas /\ Coord(<<>>) = SinCoord
  <1>1. <<>> \in Seq(Viva) /\ \A n \in 1 .. Len(<<>>) : FALSE
    OBVIOUS
  <1>2. Distintas(<<>>)
    BY <1>1 DEF Distintas
  <1>3. \A q : Cuanto(<<>>, q) = 0
    BY <1>1, <1>2, CuantoOK
  <1> QED BY <1>1, <1>2, <1>3 DEF Lineas, Coord, SinCoord

LEMMA SumaCoord == ASSUME NEW ps \in Lineas PROVE Suma(ps) = Coord(ps)
  BY SumaCuanto DEF Lineas, Coord

LEMMA ValeAlgo ==
    ASSUME Siempre4, NEW p \in Pokemones
    PROVE  \E ps \in Lineas : Vale(p, ps)
  <1>0. Tipado /\ Guardados
    BY DEF Siempre4, Siempre3, Siempre2, Siempre1
  <1>1. CASE AMedias(p)
    <2>1. PICK i \in Ids : Pokemon(i) = p /\ SinTerminar(i)
      BY <1>1 DEF AMedias
    <2>2. hilo[i].posiciones \in Lineas
      BY <1>0, <2>1 DEF Guardados, Guarda, Tipado, HilosOK, Hilo, Lineas
    <2> QED BY <2>1, <2>2 DEF Vale
  <1>2. CASE ~AMedias(p) /\ metadata[p].estado = "entera"
    <2>1. Leidas(bloque, metadata[p]) \in Lineas
      BY <1>0, <1>2 DEF Guardados, Guardado, EsArchivo, Lineas
    <2> QED BY <1>2, <2>1 DEF Vale
  <1>3. CASE ~AMedias(p) /\ metadata[p].estado # "entera"
    BY <1>3, VaciaOK DEF Vale
  <1> QED BY <1>1, <1>2, <1>3

\* One thread at most rewrites a file.
LEMMA ContenidoEs ==
    ASSUME IInv, NEW p \in Pokemones, NEW ps \in Lineas, Vale(p, ps)
    PROVE  Valor(p) = Coord(ps)
  <1>1. CASE AMedias(p)
    <2> DEFINE j == CHOOSE i \in Ids : Pokemon(i) = p /\ SinTerminar(i)
    <2>1. j \in Ids /\ Pokemon(j) = p /\ SinTerminar(j)
      BY <1>1 DEF AMedias
    <2>2. Valor(p) = Suma(hilo[j].posiciones)
      BY <1>1 DEF Valor
    <2> HIDE DEF j
    <2>3. PICK i \in Ids : SinTerminar(i) /\ ps = hilo[i].posiciones
      BY <1>1 DEF Vale
    <2>4. i = j
      BY <2>1, <2>3, UnoSolo DEF TieneElMutex, LoTieneAbierto
    <2> QED BY <2>2, <2>3, <2>4, SumaCoord
  <1>2. CASE ~AMedias(p) /\ metadata[p].estado = "entera"
    <2>1. ps = Cargadas(metadata[p])
      BY <1>2, CargadasSon DEF Vale, AMedias
    <2> QED BY <1>2, <2>1, SumaCoord DEF Valor
  <1>3. CASE ~AMedias(p) /\ metadata[p].estado # "entera"
    <2>1. ps = <<>>
      BY <1>3 DEF Vale, AMedias
    <2> QED BY <1>3, <2>1, VaciaOK DEF Valor
  <1> QED BY <1>1, <1>2, <1>3

LEMMA ContenidoSera ==
    ASSUME IInv', NEW p \in Pokemones, NEW ps \in Lineas, Vale(p, ps)'
    PROVE  Valor(p)' = Coord(ps)
  <1>0. \A i \in Ids : Pokemon(i)' = Pokemon(i)
    BY DEF Pokemon
  <1>1. CASE AMedias(p)'
    <2>1. \E i \in Ids : Pokemon(i) = p /\ SinTerminar(i)'
      BY <1>0, <1>1 DEF AMedias
    <2>2. PICK j \in Ids : SinTerminar(j)' /\ Valor(p)' = Suma(hilo'[j].posiciones)
      <3>1. Valor(p)' = Suma(hilo'[CHOOSE i \in Ids : Pokemon(i) = p /\ SinTerminar(i)'].posiciones)
        BY <1>1 DEF Valor, Pokemon
      <3> QED BY <2>1, <3>1
    <2>3. PICK i \in Ids : SinTerminar(i)' /\ ps = hilo'[i].posiciones
      BY <1>1 DEF Vale
    <2>4. i = j
      <3>1. TieneElMutex(i)' /\ TieneElMutex(j)'
        BY <2>2, <2>3 DEF TieneElMutex, LoTieneAbierto
      <3> QED BY <3>1 DEF IInv, UnoPorVez
    <2> QED BY <2>2, <2>3, <2>4, SumaCoord
  <1>2. CASE ~AMedias(p)' /\ metadata'[p].estado = "entera"
    <2>1. ps = Leidas(bloque', metadata'[p])
      BY <1>2 DEF Vale, AMedias
    <2>2. Cargadas(metadata[p])' = Leidas(bloque', metadata'[p])
      BY DEF Cargadas, Leidas, get_contenido_bloques
    <2>3. Valor(p)' = Suma(Cargadas(metadata[p])')
      BY <1>2 DEF Valor
    <2> QED BY <2>1, <2>2, <2>3, SumaCoord
  <1>3. CASE ~AMedias(p)' /\ metadata'[p].estado # "entera"
    <2>1. ps = <<>>
      BY <1>3 DEF Vale, AMedias
    <2>2. Valor(p)' = SinCoord
      BY <1>3 DEF Valor
    <2> QED BY <2>1, <2>2, VaciaOK
  <1> QED BY <1>1, <1>2, <1>3

\* A step of thread i changes nothing of what other files are worth.
LEMMA ValeAjeno ==
    ASSUME Siempre4, Siempre4', NEW i \in Ids, Solo(i), SoloSuTexto(i), AjenosIntactos(i),
           NEW p \in Pokemones, p # Pokemon(i)
    PROVE  Valor(p)' = Valor(p)
  <1>0. /\ IInv /\ IInv' /\ Guardados /\ metadata[p] \in Metadata
    BY DEF Siempre4, Siempre3, Siempre2, Siempre1, Tipado, DiscoOK
  <1>1. PICK ps \in Lineas : Vale(p, ps)
    BY ValeAlgo
  <1>2. AMedias(p)' <=> AMedias(p)
    BY AMediasOtro
  <1> DEFINE md == metadata[p]
             me == metadata'[p]
  <1>3. me.estado = md.estado /\ me.size = md.size /\ me.blocks = md.blocks
    BY DEF SoloSuTexto
  <1>4. Vale(p, ps)'
    <2>1. CASE AMedias(p)
      <3>1. PICK j \in Ids : Pokemon(j) = p /\ SinTerminar(j) /\ ps = hilo[j].posiciones
        BY <1>1, <2>1 DEF Vale
      <3>2. hilo'[j] = hilo[j] /\ Pokemon(j)' = p
        BY <3>1 DEF Solo, Pokemon
      <3>3. SinTerminar(j)' /\ ps = hilo'[j].posiciones
        BY <3>1, <3>2 DEF SinTerminar, EstaModificando
      <3> QED BY <3>2, <3>3 DEF Vale
    <2>2. CASE ~AMedias(p) /\ md.estado = "entera"
      <3>1. EsArchivo(bloque, md) /\ ps = Leidas(bloque, md)
        BY <1>0, <1>1, <2>2 DEF Guardados, Guardado, Vale, AMedias
      <3>2. \A n \in 1 .. Len(md.blocks) : bloque'[md.blocks[n]] = bloque[md.blocks[n]]
        BY <2>2 DEF AjenosIntactos
      <3>0. md \in Metadata
        BY <1>0
      <3> HIDE DEF md, me
      <3>3. Leidas(bloque', md) = ps
        BY <3>0, <3>1, <3>2, IntactoOK
      <3>4. Leidas(bloque', me) = ps
        BY <1>3, <3>3, MismoArchivo
      <3> QED BY <1>2, <1>3, <2>2, <3>4 DEF Vale, md, me
    <2>3. CASE ~AMedias(p) /\ md.estado # "entera"
      <3>1. ps = <<>>
        BY <1>1, <2>3 DEF Vale, AMedias
      <3> QED BY <1>2, <1>3, <2>3, <3>1 DEF Vale
    <2> QED BY <2>1, <2>2, <2>3
  <1> QED BY <1>0, <1>1, <1>4, ContenidoEs, ContenidoSera

\* Thread i goes on with its rewriting.
LEMMA SigueReescribiendo ==
    ASSUME Siempre4, Siempre4', NEW i \in Ids, SinTerminar(i), SinTerminar(i)',
           hilo'[i].posiciones = hilo[i].posiciones
    PROVE  Valor(Pokemon(i))' = Valor(Pokemon(i))
  <1>0. /\ IInv /\ IInv' /\ Guardados /\ Pokemon(i) \in Pokemones /\ hilo[i] \in Hilo
    BY MensajeOK DEF Siempre4, Siempre3, Siempre2, Siempre1, Tipado, HilosOK
  <1>1. PICK p \in Pokemones : p = Pokemon(i)
    BY <1>0
  <1>2. PICK ps \in Lineas : ps = hilo[i].posiciones
    BY <1>0 DEF Guardados, Guarda, Lineas, Hilo
  <1>3. Vale(p, ps)
    BY <1>1, <1>2 DEF Vale
  <1>4. Vale(p, ps)'
    BY <1>1, <1>2 DEF Vale, Pokemon
  <1>5. Valor(p)' = Valor(p)
    BY <1>0, <1>3, <1>4, ContenidoEs, ContenidoSera
  <1> QED BY <1>1, <1>5 DEF Pokemon

\* A file that is not there is worth nothing.
LEMMA SinArchivo ==
    ASSUME Siempre4, Siempre4', NEW p \in Pokemones,
           metadata[p].estado # "entera", metadata'[p].estado # "entera"
    PROVE  Valor(p) = SinCoord /\ Valor(p)' = SinCoord
  <1>0. Altas /\ Altas'
    BY DEF Siempre4, Siempre3, Siempre2
  <1>1. ~AMedias(p)
    BY <1>0, AMediasEntera
  <1>2. ~AMedias(p)'
    <2> SUFFICES ASSUME NEW j \in Ids, Pokemon(j) = p, SinTerminar(j)' PROVE FALSE
      BY DEF AMedias, Pokemon
    <2>1. Abriendo(j)'
      BY DEF Abriendo, TieneElMutex, LoTieneAbierto
    <2> QED BY <1>0, <2>1 DEF Altas, Pokemon
  <1> QED BY <1>1, <1>2 DEF Valor

\* The file of thread i is as it was, and so is what the thread does to it.
LEMMA TodoIgual ==
    ASSUME NEW p \in Pokemones, \A i \in Ids : Pokemon(i) = p => (SinTerminar(i)' <=> SinTerminar(i)),
           \A i \in Ids : hilo'[i].posiciones = hilo[i].posiciones \/ ~SinTerminar(i),
           UNCHANGED bloque, metadata'[p].estado = metadata[p].estado, metadata'[p].size = metadata[p].size,
           metadata'[p].blocks = metadata[p].blocks,
           NEW ps, Vale(p, ps)
    PROVE  Vale(p, ps)'
  <1> DEFINE md == metadata[p]
             me == metadata'[p]
  <1>0. Leidas(bloque', me) = Leidas(bloque, md)
    BY MismoArchivo
  <1>1. AMedias(p)' <=> AMedias(p)
    BY DEF AMedias, Pokemon
  <1>2. CASE AMedias(p)
    <2>1. PICK i \in Ids : Pokemon(i) = p /\ SinTerminar(i) /\ ps = hilo[i].posiciones
      BY <1>2 DEF Vale
    <2>2. SinTerminar(i)' /\ Pokemon(i)' = p /\ ps = hilo'[i].posiciones
      BY <2>1 DEF Pokemon
    <2> QED BY <2>2 DEF Vale
  <1>3. CASE ~AMedias(p) /\ md.estado = "entera"
    <2>1. ps = Leidas(bloque, md)
      BY <1>3 DEF Vale, AMedias
    <2> HIDE DEF md, me
    <2> QED BY <1>0, <1>1, <1>3, <2>1 DEF Vale, md, me
  <1>4. CASE ~AMedias(p) /\ md.estado # "entera"
    <2>1. ps = <<>>
      BY <1>4 DEF Vale, AMedias
    <2> QED BY <1>1, <1>4, <2>1 DEF Vale
  <1> QED BY <1>2, <1>3, <1>4

LEMMA ContenidoIgual ==
    ASSUME Siempre4, Siempre4', NEW p \in Pokemones, \A i \in Ids : Pokemon(i) = p => (SinTerminar(i)' <=> SinTerminar(i)),
           \A i \in Ids : hilo'[i].posiciones = hilo[i].posiciones \/ ~SinTerminar(i),
           UNCHANGED bloque, metadata'[p].estado = metadata[p].estado, metadata'[p].size = metadata[p].size,
           metadata'[p].blocks = metadata[p].blocks
    PROVE  Valor(p)' = Valor(p)
  <1>1. PICK ps \in Lineas : Vale(p, ps)
    BY ValeAlgo
  <1>2. Vale(p, ps)'
    BY <1>1, TodoIgual
  <1> QED BY <1>1, <1>2, ContenidoEs, ContenidoSera DEF Siempre4, Siempre3, Siempre2, Siempre1

\* The last write of a rewriting leaves in the file what the thread had in memory.
LEMMA EscribirSizeEfecto ==
    ASSUME Siempre4, Siempre4', NEW i \in Ids, EscribirSize(i)
    PROVE  Valor(Pokemon(i))' = Valor(Pokemon(i))
  <1>0. /\ IInv /\ IInv' /\ Guardados /\ Forma(i) /\ Guarda(i) /\ Tipado /\ Tipado' /\ Altas
        /\ Pokemon(i) \in Pokemones /\ hilo[i] \in Hilo
    BY MensajeOK DEF Siempre4, Siempre3, Siempre2, Siempre1, Tipado, HilosOK, Formas, Guardados
  <1>1. PICK p \in Pokemones : p = Pokemon(i)
    BY <1>0
  <1> DEFINE me == metadata'[p]
             ps == hilo[i].posiciones
  <1>2. /\ Solo(i) /\ hilo[i].pc = "size" /\ hilo'[i].pc = "quitar" /\ UNCHANGED bloque
        /\ ps \in Seq(Viva)
        /\ me.estado = metadata[p].estado /\ me.blocks = metadata[p].blocks /\ me.size = Largo * Len(ps)
    <2>1. hilo[i].pc = "size"
      BY DEF EscribirSize, En
    <2> QED BY <1>0, <1>1, <2>1, EscribirEfecto
  <1>3. SinTerminar(i) /\ ~SinTerminar(i)' /\ TieneElMutex(i) /\ TieneElMutex(i)'
    BY <1>0, <1>2 DEF SinTerminar, EstaModificando, IInv, Decididos, TieneElMutex, LoTieneAbierto
  <1>4. /\ Distintas(ps) /\ me.blocks = hilo[i].nuevos /\ Guardan(bloque', hilo[i].nuevos, ps)
        /\ me \in Metadata /\ me.estado = "entera"
    BY <1>0, <1>1, <1>2, <1>3 DEF Forma, Guarda, Tipado, DiscoOK, Altas, Abriendo
  <1>5. ~AMedias(p)'
    <2> SUFFICES ASSUME NEW j \in Ids, SinTerminar(j)' PROVE FALSE
      BY DEF AMedias
    <2>1. j = i
      BY <1>0, <1>3 DEF IInv, UnoPorVez, TieneElMutex, LoTieneAbierto
    <2> QED BY <1>3, <2>1
  <1>6. Vale(p, ps)
    BY <1>1, <1>3 DEF Vale
  <1>7. p' = p /\ ps \in Lineas
    BY <1>1, <1>2, <1>4 DEF Lineas
  <1> HIDE DEF me
  <1>8. Leidas(bloque', me) = ps
    BY <1>2, <1>4, EscritoOK
  <1>9. PICK qs \in Lineas : qs = ps
    BY <1>7
  <1>10. Vale(p, qs)'
    BY <1>4, <1>5, <1>8, <1>9 DEF Vale, me
  <1>11. Valor(p)' = Valor(p)
    BY <1>0, <1>6, <1>9, <1>10, ContenidoEs, ContenidoSera
  <1> QED BY <1>1, <1>11 DEF Pokemon

\* The steps of a thread that are none of the abstract: it reads nothing and creates nothing.
LEMMA MudoOK ==
    ASSUME Siempre4, Siempre4', NEW i \in Ids, Recibir(i) \/ Paso(i),
           LeerArchivo(i) => UNCHANGED hilo, ~GrabarMetadata(i)
    PROVE  /\ \A p \in Pokemones : Valor(p)' = Valor(p)
           /\ Resultados' = Resultados
  <1>0. /\ Siempre3 /\ Tipado /\ IInv /\ Altas /\ Altas' /\ Pokemon(i) \in Pokemones
    BY MensajeOK DEF Siempre4, Siempre3, Siempre2, Siempre1
  <1>1. CASE MismosArchivos /\ UNCHANGED hilo
    <2>1. \A j \in Ids : SinTerminar(j)' <=> SinTerminar(j)
      BY <1>1 DEF SinTerminar, EstaModificando
    <2>2. ASSUME NEW p \in Pokemones PROVE Valor(p)' = Valor(p)
      <3>1. /\ UNCHANGED bloque /\ metadata'[p].estado = metadata[p].estado
            /\ metadata'[p].size = metadata[p].size /\ metadata'[p].blocks = metadata[p].blocks
        BY <1>1 DEF MismosArchivos
      <3> QED BY <1>1, <2>1, <3>1, ContenidoIgual
    <2> QED BY <1>1, <2>2 DEF Resultados
  <1> SUFFICES ASSUME ~(MismosArchivos /\ UNCHANGED hilo)
               PROVE  /\ \A p \in Pokemones : Valor(p)' = Valor(p)
                      /\ Resultados' = Resultados
    BY <1>1
  <1>2. Solo(i) /\ SoloSuTexto(i) /\ AjenosIntactos(i)
    BY <1>0, AlcanceOK
  <1>3. \A p \in Pokemones : p # Pokemon(i) => Valor(p)' = Valor(p)
    BY <1>2, ValeAjeno
  <1>4. Valor(Pokemon(i))' = Valor(Pokemon(i)) /\ hilo'[i].resultado = hilo[i].resultado
    <2>1. CASE MismosArchivos /\ MismoHilo(i) /\ Avanza(i)
      <3>1. SinTerminar(i)' <=> SinTerminar(i)
        BY <2>1 DEF Avanza, MismoHilo, SinTerminar, EstaModificando, Previas
      <3>2. \A j \in Ids : (SinTerminar(j)' <=> SinTerminar(j)) /\ hilo'[j].posiciones = hilo[j].posiciones
        BY <1>2, <2>1, <3>1 DEF Solo, MismoHilo, SinTerminar, EstaModificando
      <3>3. PICK p \in Pokemones : p = Pokemon(i)
        BY <1>0
      <3>4. /\ UNCHANGED bloque /\ metadata'[p].estado = metadata[p].estado
            /\ metadata'[p].size = metadata[p].size /\ metadata'[p].blocks = metadata[p].blocks
        BY <2>1 DEF MismosArchivos
      <3>5. Valor(p)' = Valor(p)
        BY <3>2, <3>4, ContenidoIgual
      <3> QED BY <2>1, <3>3, <3>5 DEF MismoHilo, Pokemon
    <2>2. CASE LiberarBloque(i) \/ Recortar(i)
      <3>1. /\ hilo[i].pc = "liberar" /\ hilo'[i].pc \in {"liberar", "blocks", "grabar"}
            /\ hilo'[i].posiciones = hilo[i].posiciones /\ hilo'[i].resultado = hilo[i].resultado
        BY <1>0, <2>2, LiberarEfecto, RecortarEfecto
      <3>2. SinTerminar(i) /\ SinTerminar(i)'
        BY <1>0, <3>1 DEF SinTerminar, EstaModificando, IInv, Decididos
      <3> QED BY <3>1, <3>2, SigueReescribiendo
    <2>3. CASE GrabarBloque(i) /\ EstaModificando(i)
      <3>1. /\ hilo[i].pc = "grabar" /\ hilo'[i].pc \in {"grabar", "blocks"}
            /\ hilo'[i].posiciones = hilo[i].posiciones /\ hilo'[i].resultado = hilo[i].resultado
        BY <1>0, <2>3, GrabarEfecto
      <3>2. SinTerminar(i) /\ SinTerminar(i)'
        BY <2>3, <3>1 DEF SinTerminar, EstaModificando
      <3> QED BY <3>1, <3>2, SigueReescribiendo
    <2>4. CASE Crear(i) \/ (GrabarBloque(i) /\ ~EstaModificando(i)) \/ Truncar(i)
      <3>1. /\ hilo[i].pc \in {"crear", "grabar", "truncar"} /\ hilo'[i].resultado = hilo[i].resultado
            /\ metadata' = metadata \/ metadata'[Pokemon(i)].estado = "vacia"
            /\ hilo[i].pc = "grabar" => ~EstaModificando(i)
        <4>1. CASE Crear(i)
          BY <1>0, <4>1, CrearEfecto DEF disco
        <4>2. CASE GrabarBloque(i) /\ ~EstaModificando(i)
          BY <1>0, <4>2, GrabarEfecto
        <4>3. CASE Truncar(i)
          BY <1>0, <4>3, TruncarEfecto DEF MismoHilo
        <4> QED BY <2>4, <4>1, <4>2, <4>3
      <3>2. PICK p \in Pokemones : p = Pokemon(i)
        BY <1>0
      <3>3. metadata[p].estado # "entera"
        BY <1>0, <3>1, <3>2 DEF Altas, Alta, Creador
      <3>4. metadata'[p].estado # "entera"
        BY <3>1, <3>2, <3>3
      <3>5. Valor(p)' = Valor(p)
        BY <3>3, <3>4, SinArchivo
      <3> QED BY <3>1, <3>2, <3>5 DEF Pokemon
    <2>5. CASE EscribirBlocks(i)
      <3>1. hilo[i].pc = "blocks"
        BY <2>5 DEF EscribirBlocks, En
      <3>2. hilo'[i].pc = "size" /\ MismoHilo(i)
        BY <1>0, <2>5, <3>1, EscribirEfecto
      <3>3. SinTerminar(i) /\ SinTerminar(i)'
        BY <1>0, <3>1, <3>2 DEF SinTerminar, EstaModificando, IInv, Decididos, MismoHilo
      <3> QED BY <3>2, <3>3, SigueReescribiendo DEF MismoHilo
    <2>6. CASE EscribirSize(i)
      BY <1>0, <2>6, EscribirSizeEfecto, EscribirEfecto DEF MismoHilo
    <2> QED BY <1>0, <2>1, <2>2, <2>3, <2>4, <2>5, <2>6, LosPasos
  <1>5. \A j \in Ids : hilo'[j].resultado = hilo[j].resultado
    BY <1>2, <1>4 DEF Solo
  <1>6. \A p \in Pokemones : Valor(p)' = Valor(p)
    BY <1>3, <1>4 DEF Pokemon
  <1> QED BY <1>5, <1>6 DEF Resultados

(***************************************************************************)
(* The messages that the full disk ended                                   *)
(***************************************************************************)
Caida(p) == \E i \in Fallidas : Pokemon(i) = p

\* Only SinBloques ends a thread so, and the thread moves no more.
LEMMA NadieMuere ==
    ASSUME Registros, NEW i \in Ids, Recibir(i) \/ Paso(i), ~SinBloques(i)
    PROVE  UNCHANGED hilo \/ (hilo[i].pc # "muerto" /\ hilo'[i].pc # "muerto")
  <1>1. CASE LeerArchivo(i)
    <2>1. CASE UNCHANGED hilo
      BY <2>1
    <2>2. CASE ~UNCHANGED hilo
      BY <1>1, <2>2, LeerSolo DEF LeerArchivo, En
    <2> QED BY <2>1, <2>2
  <1>2. CASE Recibir(i) \/ Existe(i) \/ EstaEnLista(i) \/ EstaAbierto(i) \/ encolar_operacion_tallgrass(i)
             \/ Trabar(i) \/ MarcarAbierto(i) \/ AnotarAbierto(i)
    <2>1. hilo[i].pc # "muerto"
      BY <1>2 DEF Recibir, Existe, EstaEnLista, EstaAbierto, encolar_operacion_tallgrass, Trabar, MarcarAbierto,
                  AnotarAbierto, En
    <2>2. UNCHANGED hilo \/ \E pc \in {"lista", "crear", "fin", "encolar", "open", "trabar", "encolado",
                                       "abrir", "anotar", "leer"} : IrA(i, pc)
      BY <1>2 DEF Recibir, Existe, Buscar, EstaEnLista, EstaAbierto, encolar_operacion_tallgrass, Trabar,
                  MarcarAbierto, AnotarAbierto
    <2> QED BY <2>1, <2>2 DEF IrA, Registros
  <1>3. CASE LiberarBloque(i) \/ Recortar(i) \/ Crear(i) \/ GrabarBloque(i)
    <2>1. hilo[i].pc # "muerto"
      BY <1>3 DEF LiberarBloque, Recortar, Crear, GrabarBloque, En
    <2>2. hilo'[i].pc # "muerto"
      <3>1. CASE LiberarBloque(i)
        <4> DEFINE r == [hilo[i] EXCEPT !.blocks = Tail(@)]
        <4>1. hilo' = [hilo EXCEPT ![i] = r] /\ r.pc = hilo[i].pc
          BY <3>1 DEF LiberarBloque, Registros
        <4> HIDE DEF r
        <4> QED BY <2>1, <4>1 DEF Registros
      <3>2. CASE Recortar(i) \/ Crear(i) \/ GrabarBloque(i)
        <4> DEFINE x == IF hilo[i].posiciones = <<>> THEN "blocks" ELSE "grabar"
                   y == IF hilo[i].posiciones = <<>> THEN <<>>
                        ELSE Partes(serializar_lista_posiciones_pokemon(hilo[i].posiciones))
                   ps == <<[pos |-> msj[i].pos, cantidad |-> msj[i].cantidad]>>
                   z == Partes(serializar_lista_posiciones_pokemon(ps))
                   w == IF Len(hilo[i].partes) > 1 THEN "grabar"
                        ELSE IF EstaModificando(i) THEN "blocks" ELSE "truncar"
                   t == Tail(hilo[i].partes)
                   n == Append(hilo[i].nuevos, obtener_ultimo_nro_bloque)
                   p == [hilo[i] EXCEPT !.pc = x, !.partes = y]
                   q == [hilo[i] EXCEPT !.pc = "grabar", !.posiciones = ps, !.partes = z]
                   r == [hilo[i] EXCEPT !.partes = t, !.nuevos = n, !.pc = w]
        <4>1. {x, w} \subseteq {"grabar", "blocks", "truncar"}
          OBVIOUS
        <4>2. \E s \in {p, q, r} : hilo' = [hilo EXCEPT ![i] = s]
          <5>1. CASE Recortar(i)
            BY <5>1 DEF Recortar
          <5>2. CASE Crear(i)
            BY <5>2 DEF Crear
          <5>3. CASE GrabarBloque(i)
            BY <5>3 DEF GrabarBloque
          <5> QED BY <3>2, <5>1, <5>2, <5>3
        <4> HIDE DEF x, y, z, w, t, n
        <4>3. p.pc = x /\ q.pc = "grabar" /\ r.pc = w
          BY DEF Registros
        <4> HIDE DEF p, q, r
        <4>4. \A s \in {p, q, r} : s.pc \in {"grabar", "blocks", "truncar"}
          BY <4>1, <4>3
        <4> QED BY <4>2, <4>4 DEF Registros
      <3> QED BY <1>3, <3>1, <3>2
    <2> QED BY <2>1, <2>2
  <1>4. CASE EscribirBlocks(i) \/ EscribirSize(i) \/ QuitarDeLista(i) \/ Cerrar(i) \/ Truncar(i) \/ Enviar(i)
    <2>1. hilo[i].pc # "muerto"
      BY <1>4 DEF EscribirBlocks, EscribirSize, QuitarDeLista, Cerrar, Truncar, Enviar, En
    <2>2. \E pc \in {"size", "quitar", "cerrar", "fin", "enviar", "metadata"} : IrA(i, pc)
      BY <1>4 DEF EscribirBlocks, EscribirSize, QuitarDeLista, Cerrar, Truncar, Enviar
    <2> QED BY <2>1, <2>2 DEF IrA, Registros
  <1>5. CASE GrabarMetadata(i)
    <2> DEFINE r == [hilo[i] EXCEPT !.pc = "enviar", !.resultado = [tipo |-> "APPEARED", coord |-> SinCoord]]
    <2>1. hilo' = [hilo EXCEPT ![i] = r] /\ r.pc = "enviar" /\ hilo[i].pc = "metadata"
      BY <1>5 DEF GrabarMetadata, En, Registros
    <2> HIDE DEF r
    <2> QED BY <2>1 DEF Registros
  <1> QED BY <1>1, <1>2, <1>3, <1>4, <1>5 DEF Paso

LEMMA FallidasIgual ==
    ASSUME NEW i \in Ids, Solo(i), hilo[i].pc # "muerto", hilo'[i].pc # "muerto"
    PROVE  Fallidas' = Fallidas
  <1>1. ASSUME NEW j \in Ids
        PROVE  (SinTerminar(j) /\ hilo[j].pc = "muerto")' <=> (SinTerminar(j) /\ hilo[j].pc = "muerto")
    BY DEF Solo, SinTerminar, EstaModificando
  <1> QED BY <1>1 DEF Fallidas

\* A full disk ends the thread, and with it what its pokemon was worth.
LEMMA FallidasMas ==
    ASSUME IInv, NEW i \in Ids, SinBloques(i)
    PROVE  /\ hilo[i].pc = "grabar" /\ i \notin Fallidas
           /\ Fallidas' = IF EstaModificando(i) THEN Fallidas \cup {i} ELSE Fallidas
  <1>1. hilo[i].pc = "grabar" /\ Solo(i) /\ VaA(i, "muerto")
    BY IrAOK DEF SinBloques, En, IInv
  <1>2. \A j \in Ids : j # i => (j \in Fallidas' <=> j \in Fallidas)
    BY <1>1 DEF Solo, Fallidas, SinTerminar, EstaModificando
  <1>3. i \in Fallidas' <=> EstaModificando(i)
    BY <1>1 DEF VaA, Fallidas, SinTerminar, EstaModificando
  <1>4. i \notin Fallidas
    BY <1>1 DEF Fallidas
  <1>5. Fallidas \subseteq Ids /\ Fallidas' \subseteq Ids
    BY DEF Fallidas
  <1> HIDE DEF Fallidas
  <1> QED BY <1>1, <1>2, <1>3, <1>4, <1>5

\* While a thread has its file open and is not dead, no other is.
LEMMA SinFallidas ==
    ASSUME IInv, NEW i \in Ids, TieneElMutex(i), hilo[i].pc # "muerto"
    PROVE  Fallidas = {}
  <1> SUFFICES ASSUME NEW j \in Fallidas PROVE FALSE
    OBVIOUS
  <1>1. j \in Ids /\ TieneElMutex(j) /\ hilo[j].pc = "muerto"
    BY DEF Fallidas, TieneElMutex, LoTieneAbierto
  <1> QED BY <1>1 DEF IInv, UnoPorVez

\* What the abstract specification is told of a step that ends no thread.
LEMMA MundoIgual ==
    ASSUME \A p \in Pokemones : Valor(p)' = Valor(p), Fallidas' = Fallidas
    PROVE  Mundo' = Mundo
  <1> SUFFICES ASSUME NEW p \in Pokemones PROVE Contenido(p)' = Contenido(p)
    BY DEF Mundo
  <1>1. (\E i \in Fallidas' : Pokemon(i) = p) <=> (\E i \in Fallidas : Pokemon(i) = p)
    OBVIOUS
  <1>2. Contenido(p)' = IF \E i \in Fallidas' : Pokemon(i) = p THEN SinCoord ELSE Valor(p)'
    BY DEF Contenido, Pokemon, SinCoord
  <1> HIDE DEF Fallidas
  <1> QED BY <1>1, <1>2 DEF Contenido

\* What the abstract specification is told.
LEMMA Quietud ==
    ASSUME Mundo' = Mundo, Resultados' = Resultados, Fallidas' = Fallidas, UNCHANGED enviada
    PROVE  UNCHANGED Abstracto!vars
  BY DEF Abstracto!vars, Resultados, Mundo

LEMMA AbsResponder ==
    ASSUME NEW i \in Ids, Mundo' = Mundo, Resultados' = Resultados, Fallidas' = Fallidas,
           hilo[i].resultado # Pendiente, hilo[i].resultado.tipo # "VACIO", i \notin enviada, i \notin Fallidas,
           enviada' = enviada \cup {i}
    PROVE  Abstracto!Responder(i)
  BY DEF Abstracto!Responder, Abstracto!Pendiente, Abstracto!SinCoord, Pendiente, SinCoord, Resultados, Mundo

LEMMA AbsFallar ==
    ASSUME NEW i \in Ids, hilo[i].resultado # Pendiente, i \notin enviada, i \notin Fallidas,
           Fallidas' = Fallidas \cup {i}, Mundo' = [Mundo EXCEPT ![Pokemon(i)] = SinCoord],
           Resultados' = Resultados, UNCHANGED enviada
    PROVE  Abstracto!Fallar(i)
  BY DEF Abstracto!Fallar, Abstracto!Pendiente, Abstracto!SinCoord, Pendiente, SinCoord, Resultados, Mundo, Pokemon

\* Message i gets its answer, and of the files that of its pokemon changes at most.
Resuelve(i, res, valor) ==
    /\ hilo[i].resultado = Pendiente
    /\ Resultados' = [Resultados EXCEPT ![i] = res]
    /\ Mundo' = [Mundo EXCEPT ![Pokemon(i)] = valor]
    /\ ~Caida(Pokemon(i)) /\ Fallidas' = Fallidas
    /\ UNCHANGED enviada

LEMMA AbsNuevo ==
    ASSUME NEW i \in Ids, msj[i].op = "NEW",
           Resuelve(i, Respuesta("APPEARED"), [Mundo[Pokemon(i)] EXCEPT ![msj[i].pos] = @ + msj[i].cantidad])
    PROVE  Abstracto!Nuevo(i)
  BY DEF Abstracto!Nuevo, Abstracto!Decide, Abstracto!Perdido, Caida, Abstracto!Pendiente, Abstracto!SinCoord, Pendiente, SinCoord,
         Resuelve, Respuesta, Resultados, Mundo, Pokemon

LEMMA AbsAtrapar ==
    ASSUME NEW i \in Ids, msj[i].op = "CATCH", Mundo[Pokemon(i)][msj[i].pos] > 0,
           Resuelve(i, Respuesta("OK"), [Mundo[Pokemon(i)] EXCEPT ![msj[i].pos] = @ - 1])
    PROVE  Abstracto!Atrapar(i)
  BY DEF Abstracto!Atrapar, Abstracto!Decide, Abstracto!Perdido, Caida, Abstracto!Pendiente, Abstracto!SinCoord, Pendiente, SinCoord,
         Resuelve, Respuesta, Resultados, Mundo, Pokemon

LEMMA AbsNoAtrapar ==
    ASSUME NEW i \in Ids, msj[i].op = "CATCH", Mundo[Pokemon(i)][msj[i].pos] = 0,
           Resuelve(i, Respuesta("FAIL"), Mundo[Pokemon(i)]), Mundo' = Mundo
    PROVE  Abstracto!NoAtrapar(i)
  BY DEF Abstracto!NoAtrapar, Abstracto!Decide, Abstracto!Perdido, Caida, Abstracto!Pendiente, Abstracto!SinCoord, Pendiente, SinCoord,
         Resuelve, Respuesta, Resultados, Mundo, Pokemon

LEMMA AbsConsultar ==
    ASSUME NEW i \in Ids, msj[i].op = "GET", NEW c,
           c = [q \in Posiciones |-> IF Mundo[Pokemon(i)][q] > 0 THEN 1 ELSE 0],
           Resuelve(i, [tipo |-> IF c = SinCoord THEN "VACIO" ELSE "LOCALIZED", coord |-> c], Mundo[Pokemon(i)]),
           Mundo' = Mundo
    PROVE  Abstracto!Consultar(i)
  BY DEF Abstracto!Consultar, Abstracto!Decide, Abstracto!Perdido, Caida, Abstracto!Pendiente, Abstracto!SinCoord, Pendiente, SinCoord,
         Resuelve, Respuesta, Resultados, Mundo, Pokemon

\* A message that reads its file changes what the file is worth, and gets its answer, in that step.
LEMMA LeerAbstracto ==
    ASSUME Siempre4, Siempre4', NEW i \in Ids, LeerArchivo(i), ~UNCHANGED hilo
    PROVE  Abstracto!Next
  <1>0. /\ Siempre3 /\ Tipado /\ IInv /\ IInv' /\ Respuestas /\ Altas /\ Guardados /\ msj[i] \in Mensaje
    BY MensajeOK DEF Siempre4, Siempre3, Siempre2, Siempre1
  <1>1. PICK p \in Pokemones : p = Pokemon(i)
    BY MensajeOK
  <1>2. PICK m \in Mensaje : m = msj[i]
    BY <1>0
  <1>3. PICK ps \in Seq(Viva) : ps = Cargadas(metadata[p])
    BY <1>0, <1>1, LeerEfecto
  <1> DEFINE d == Decision(m, ps)
  <1>4. /\ Solo(i) /\ hilo[i].pc = "leer" /\ UNCHANGED disco
        /\ hilo'[i].pc = IF d.resultado.tipo \in {"APPEARED", "OK"} THEN "liberar" ELSE "quitar"
        /\ hilo'[i].posiciones = d.posiciones /\ hilo'[i].resultado = d.resultado
    BY <1>0, <1>1, <1>2, <1>3, LeerEfecto
  <1>5. ~SinTerminar(i) /\ TieneElMutex(i)
    BY <1>4 DEF SinTerminar, TieneElMutex, LoTieneAbierto
  <1>6. ~AMedias(p) /\ metadata[p].estado = "entera"
    BY <1>0, <1>1, <1>5, AMediasSuyo DEF Altas, Abriendo
  <1>7. EsArchivo(bloque, metadata[p]) /\ ps = Leidas(bloque, metadata[p])
    BY <1>0, <1>3, <1>6, CargadasSon DEF Guardados, Guardado
  <1>8. ps \in Lineas /\ Vale(p, ps)
    BY <1>6, <1>7 DEF Lineas, Vale, EsArchivo
  <1>5a. Fallidas = {}
    BY <1>0, <1>4, <1>5, SinFallidas
  <1>5b. Fallidas' = Fallidas
    <2>1. hilo'[i].pc # "muerto"
      BY <1>4
    <2> QED BY <1>4, <2>1, FallidasIgual
  <1>5c. \A q \in Pokemones : Mundo[q] = Valor(q) /\ Mundo'[q] = Valor(q)'
    BY <1>5a, <1>5b DEF Mundo, Contenido
  <1>5d. DOMAIN Mundo = Pokemones /\ Mundo' = [q \in Pokemones |-> Mundo'[q]]
         /\ Mundo = [q \in Pokemones |-> Mundo[q]]
    BY DEF Mundo
  <1>9. Mundo[p] = Coord(ps)
    BY <1>0, <1>8, <1>5c, ContenidoEs
  <1>10. d.resultado # Pendiente
    <2>1. d.resultado.tipo # "pendiente"
      BY DecisionTipo
    <2> HIDE DEF d
    <2> QED BY <2>1 DEF Pendiente
  <1>11. /\ d.posiciones \in Lineas
         /\ \/ /\ m.op = "NEW" /\ d.resultado = Respuesta("APPEARED")
               /\ Coord(d.posiciones) = [Coord(ps) EXCEPT ![m.pos] = @ + m.cantidad]
            \/ /\ m.op = "CATCH" /\ Coord(ps)[m.pos] > 0 /\ d.resultado = Respuesta("OK")
               /\ Coord(d.posiciones) = [Coord(ps) EXCEPT ![m.pos] = @ - 1]
            \/ /\ m.op = "CATCH" /\ Coord(ps)[m.pos] = 0 /\ d.resultado = Respuesta("FAIL")
               /\ d.posiciones = ps
            \/ /\ m.op = "GET" /\ d.posiciones = ps
               /\ d.resultado = [tipo |-> IF Donde(ps) = SinCoord THEN "VACIO" ELSE "LOCALIZED",
                                 coord |-> Donde(ps)]
    BY <1>8, DecisionOK DEF Lineas
  <1> HIDE DEF d
  <1>12. PICK qs \in Lineas : qs = d.posiciones
    BY <1>11
  <1>13. Vale(p, qs)'
    <2>1. CASE hilo'[i].pc = "liberar"
      BY <1>1, <1>4, <1>10, <1>12, <2>1 DEF Vale, SinTerminar, EstaModificando, Pokemon
    <2>2. CASE hilo'[i].pc = "quitar"
      <3>1. d.resultado.tipo \notin {"APPEARED", "OK"}
        BY <1>4, <2>2
      <3>2. qs = ps
        BY <1>11, <1>12, <3>1 DEF Respuesta
      <3>3. ~SinTerminar(i)'
        BY <2>2 DEF SinTerminar
      <3>4. ~AMedias(p)'
        BY <1>4, <1>5, <1>6, <3>3, AMediasIgual
      <3>5. Leidas(bloque', metadata'[p]) = ps /\ metadata'[p].estado = "entera"
        BY <1>4, <1>6, <1>7 DEF disco
      <3> QED BY <3>2, <3>4, <3>5 DEF Vale
    <2> QED BY <1>4, <2>1, <2>2
  <1>14. Valor(p)' = Coord(qs)
    BY <1>0, <1>13, ContenidoSera
  <1>15. ASSUME NEW q \in Pokemones, q # p PROVE Valor(q)' = Valor(q)
    <2>1. SoloSuTexto(i) /\ AjenosIntactos(i)
      BY <1>4, SinTocar DEF SoloSuTexto, disco
    <2> QED BY <1>1, <1>4, <1>15, <2>1, ValeAjeno
  <1>16. Mundo' = [Mundo EXCEPT ![p] = Coord(qs)]
    BY <1>14, <1>15, <1>5c, <1>5d
  <1>17. Resultados' = [Resultados EXCEPT ![i] = d.resultado]
    BY <1>4 DEF Solo, Resultados
  <1>18. hilo[i].resultado = Pendiente /\ UNCHANGED enviada
    BY <1>0, <1>4 DEF Respuestas, SinDecidir, EstaModificando, LeerArchivo
  <1>19. ASSUME NEW valor, valor = Coord(qs) PROVE Resuelve(i, d.resultado, valor)
    BY <1>1, <1>5a, <1>5b, <1>16, <1>17, <1>18, <1>19 DEF Resuelve, Caida
  <1>20. CASE /\ m.op = "NEW" /\ d.resultado = Respuesta("APPEARED")
              /\ Coord(d.posiciones) = [Coord(ps) EXCEPT ![m.pos] = @ + m.cantidad]
    <2>1. Resuelve(i, Respuesta("APPEARED"), [Mundo[Pokemon(i)] EXCEPT ![msj[i].pos] = @ + msj[i].cantidad])
      BY <1>1, <1>2, <1>9, <1>12, <1>19, <1>20
    <2>2. Abstracto!Nuevo(i)
      BY <1>2, <1>20, <2>1, AbsNuevo
    <2> QED BY <2>2 DEF Abstracto!Next
  <1>21. CASE /\ m.op = "CATCH" /\ Coord(ps)[m.pos] > 0 /\ d.resultado = Respuesta("OK")
              /\ Coord(d.posiciones) = [Coord(ps) EXCEPT ![m.pos] = @ - 1]
    <2>1. Resuelve(i, Respuesta("OK"), [Mundo[Pokemon(i)] EXCEPT ![msj[i].pos] = @ - 1])
      BY <1>1, <1>2, <1>9, <1>12, <1>19, <1>21
    <2>2. Abstracto!Atrapar(i)
      BY <1>1, <1>2, <1>9, <1>21, <2>1, AbsAtrapar
    <2> QED BY <2>2 DEF Abstracto!Next
  <1>22. CASE /\ m.op = "CATCH" /\ Coord(ps)[m.pos] = 0 /\ d.resultado = Respuesta("FAIL")
              /\ d.posiciones = ps
    <2>1. Resuelve(i, Respuesta("FAIL"), Mundo[Pokemon(i)]) /\ Mundo' = Mundo
      <3>1. Coord(qs) = Mundo[p]
        BY <1>9, <1>12, <1>22
      <3>2. Mundo' = Mundo
        BY <1>16, <3>1 DEF Mundo
      <3> QED BY <1>1, <1>19, <1>22, <3>1, <3>2
    <2>2. Abstracto!NoAtrapar(i)
      BY <1>1, <1>2, <1>9, <1>22, <2>1, AbsNoAtrapar
    <2> QED BY <2>2 DEF Abstracto!Next
  <1>23. CASE /\ m.op = "GET" /\ d.posiciones = ps
              /\ d.resultado = [tipo |-> IF Donde(ps) = SinCoord THEN "VACIO" ELSE "LOCALIZED",
                                coord |-> Donde(ps)]
    <2> DEFINE c == Donde(ps)
    <2>1. c = [q \in Posiciones |-> IF Mundo[Pokemon(i)][q] > 0 THEN 1 ELSE 0]
      BY <1>1, <1>9 DEF Donde, Coord
    <2> HIDE DEF c
    <2>2. Resuelve(i, [tipo |-> IF c = SinCoord THEN "VACIO" ELSE "LOCALIZED", coord |-> c], Mundo[Pokemon(i)])
          /\ Mundo' = Mundo
      <3>1. Coord(qs) = Mundo[p]
        BY <1>9, <1>12, <1>23
      <3>2. Mundo' = Mundo
        BY <1>16, <3>1 DEF Mundo
      <3> QED BY <1>1, <1>19, <1>23, <3>1, <3>2 DEF c
    <2>3. Abstracto!Consultar(i)
      BY <1>2, <1>23, <2>1, <2>2, AbsConsultar
    <2> QED BY <2>3 DEF Abstracto!Next
  <1> QED BY <1>11, <1>20, <1>21, <1>22, <1>23

\* A creation counts when its metadata is whole.
LEMMA CrearAbstracto ==
    ASSUME Siempre4, Siempre4', NEW i \in Ids, GrabarMetadata(i)
    PROVE  Abstracto!Next
  <1>0. /\ Siempre3 /\ Tipado /\ Tipado' /\ IInv /\ IInv' /\ Respuestas /\ Altas /\ Forma(i) /\ Guarda(i)
        /\ msj[i] \in Mensaje
    BY MensajeOK DEF Siempre4, Siempre3, Siempre2, Siempre1, Formas, Guardados
  <1>1. PICK p \in Pokemones : p = Pokemon(i)
    BY MensajeOK
  <1> DEFINE me == metadata'[p]
  <1>2. /\ Solo(i) /\ UNCHANGED bloque /\ hilo[i].pc = "metadata" /\ hilo'[i].pc = "enviar"
        /\ hilo'[i].resultado = Respuesta("APPEARED")
        /\ \A q \in Pokemones : q # p => metadata'[q] = metadata[q]
    BY <1>0, <1>1, CreadoEfecto DEF Respuesta
  <1>3. me.estado = "entera" /\ me.size = Largo /\ me.blocks = hilo[i].nuevos
    <2>1. me = [estado |-> "entera", size |-> Largo, blocks |-> hilo[i].nuevos, open |-> "N"]
      BY <1>0, <1>1, CreadoEfecto
    <2> HIDE DEF me
    <2> QED BY <2>1
  <1>4. /\ msj[i].op = "NEW" /\ metadata[p].estado = "vacia" /\ hilo[i].posiciones = Pedida(i)
        /\ Guardan(bloque, hilo[i].nuevos, Pedida(i))
    BY <1>0, <1>1, <1>2 DEF Altas, Alta, Creador, Forma, Guarda
  <1>5. PICK ps \in Seq(Viva) : ps = Pedida(i)
    BY PedidaOK
  <1>6. Len(ps) = 1 /\ ps[1].pos = msj[i].pos /\ ps[1].cantidad = msj[i].cantidad /\ Distintas(ps)
    BY <1>5 DEF Pedida, Distintas
  <1>7. ps \in Lineas
    BY <1>6 DEF Lineas
  <1>8. me \in Metadata /\ me.size = Largo * Len(ps) /\ Guardan(bloque', me.blocks, ps)
    BY <1>0, <1>2, <1>3, <1>4, <1>5, <1>6, TallGrassAssumption DEF Tipado, DiscoOK
  <1>9. ~AMedias(p) /\ ~AMedias(p)'
    <2>1. ~AMedias(p)
      BY <1>0, <1>4, AMediasEntera
    <2>2. ~SinTerminar(i) /\ ~SinTerminar(i)'
      BY <1>2 DEF SinTerminar
    <2> QED BY <1>2, <2>1, <2>2, AMediasIgual
  <1>9a. ~Caida(p) /\ Fallidas' = Fallidas
    <2>1. Caida(p) => AMedias(p)
      BY DEF Caida, Fallidas, AMedias
    <2>2. Fallidas' = Fallidas
      BY <1>2, FallidasIgual
    <2> QED BY <1>9, <2>1, <2>2
  <1>9b. /\ Mundo[p] = Valor(p) /\ Mundo'[p] = Valor(p)'
         /\ \A q \in Pokemones : Valor(q)' = Valor(q) => Mundo'[q] = Mundo[q]
    <2>1. \A q \in Pokemones : Mundo[q] = IF Caida(q) THEN SinCoord ELSE Valor(q)
      BY DEF Mundo, Contenido, Caida
    <2>2. \A q \in Pokemones : Mundo'[q] = IF Caida(q)' THEN SinCoord ELSE Valor(q)'
      BY DEF Mundo, Contenido, Caida, SinCoord
    <2>3. \A q : Caida(q)' <=> Caida(q)
      BY <1>9a DEF Caida, Pokemon
    <2> QED BY <1>9a, <2>1, <2>2, <2>3
  <1>9c. DOMAIN Mundo = Pokemones /\ Mundo' = [q \in Pokemones |-> Mundo'[q]]
         /\ Mundo = [q \in Pokemones |-> Mundo[q]]
    BY DEF Mundo
  <1>10. Valor(p) = SinCoord
    BY <1>4, <1>9 DEF Valor
  <1>11. Vale(p, ps)'
    <2> HIDE DEF me
    <2>1. Leidas(bloque', me) = ps
      BY <1>6, <1>8, EscritoOK
    <2> QED BY <1>3, <1>9, <2>1 DEF Vale, me
  <1>12. Valor(p)' = Coord(ps)
    BY <1>0, <1>7, <1>11, ContenidoSera
  <1>13. Coord(ps) = [SinCoord EXCEPT ![msj[i].pos] = @ + msj[i].cantidad]
    <2>1. msj[i].pos \in Posiciones /\ msj[i].cantidad \in Nat
      BY <1>0 DEF Mensaje
    <2>2. ASSUME NEW q PROVE Cuanto(ps, q) = IF q = msj[i].pos THEN msj[i].cantidad ELSE 0
      <3>1. CASE q = msj[i].pos
        <4>1. PICK n \in 1 .. Len(ps) : ps[n].pos = q /\ ps[n].cantidad = msj[i].cantidad
          BY <1>6, <3>1
        <4>2. Cuanto(ps, q) = ps[n].cantidad
          BY <1>6, <4>1, CuantoOK
        <4> QED BY <3>1, <4>1, <4>2
      <3>2. CASE q # msj[i].pos
        <4>1. \A n \in 1 .. Len(ps) : ps[n].pos # q
          BY <1>6, <3>2
        <4> QED BY <1>6, <3>2, <4>1, CuantoOK
      <3> QED BY <3>1, <3>2
    <2> QED BY <2>1, <2>2 DEF Coord, SinCoord
  <1>14. ASSUME NEW q \in Pokemones, q # p PROVE Valor(q)' = Valor(q)
    <2>1. SoloSuTexto(i) /\ AjenosIntactos(i)
      BY <1>1, <1>2, SinTocar DEF SoloSuTexto
    <2> QED BY <1>1, <1>2, <1>14, <2>1, ValeAjeno
  <1>15. Mundo[p] = SinCoord /\ Mundo' = [Mundo EXCEPT ![p] = Coord(ps)]
    BY <1>10, <1>12, <1>14, <1>9b, <1>9c
  <1>16. Resultados' = [Resultados EXCEPT ![i] = Respuesta("APPEARED")]
    BY <1>2 DEF Solo, Resultados
  <1>17. hilo[i].resultado = Pendiente /\ UNCHANGED enviada
    BY <1>0, <1>2 DEF Respuestas, SinDecidir, EstaModificando, GrabarMetadata
  <1>18. Resuelve(i, Respuesta("APPEARED"), [Mundo[Pokemon(i)] EXCEPT ![msj[i].pos] = @ + msj[i].cantidad])
    BY <1>1, <1>9a, <1>13, <1>15, <1>16, <1>17 DEF Resuelve
  <1>19. Abstracto!Nuevo(i)
    BY <1>4, <1>18, AbsNuevo
  <1> QED BY <1>19 DEF Abstracto!Next

LEMMA AbstractoInicio == Init => Abstracto!Init
  <1> SUFFICES ASSUME Init PROVE Abstracto!Init
    OBVIOUS
  <1>0. IInv /\ Siempre4
    BY Siempre4Inicio DEF Siempre4, Siempre3, Siempre2, Siempre1
  <1>1. ~\E i \in Ids : SinTerminar(i)
    BY DEF Init, HiloNuevo, SinTerminar
  <1>2. ASSUME NEW p \in Pokemones
        PROVE  Valor(p) = IF NumeroDe(p) = 0 THEN SinCoord ELSE Suma(<<Primera>>)
    <2>1. ~AMedias(p)
      BY <1>1 DEF AMedias
    <2>2. CASE NumeroDe(p) = 0
      BY <2>1, <2>2, InicialOK DEF Valor
    <2>3. CASE NumeroDe(p) # 0
      <3>1. metadata[p].estado = "entera" /\ Leidas(bloque, metadata[p]) = <<Primera>>
        BY <2>3, InicialOK
      <3>2. Cargadas(metadata[p]) = <<Primera>>
        BY <3>1, CargadasSon
      <3> QED BY <2>1, <2>3, <3>1, <3>2 DEF Valor
    <2> QED BY <2>2, <2>3
  <1>3. \A i \in Ids : hilo[i].resultado = Pendiente
    BY DEF Init, HiloNuevo
  <1>4. enviada = {}
    BY DEF Init
  <1>5. Fallidas = {} /\ \A p \in Pokemones : Contenido(p) = Valor(p)
    BY <1>1 DEF Fallidas, Contenido
  <1> QED BY <1>2, <1>3, <1>4, <1>5 DEF Abstracto!Init, Abstracto!Pendiente, Abstracto!SinCoord, Pendiente, SinCoord

\* Each step of the threads is a step of the abstract specification, or none.
LEMMA PasoAbstracto ==
    ASSUME Siempre4, Siempre4', [Next]_vars
    PROVE  [Abstracto!Next]_Abstracto!vars
  <1>0. /\ Tipado /\ IInv /\ Respuestas
    BY DEF Siempre4, Siempre3, Siempre2, Siempre1
  <1>00. Siempre3
    BY DEF Siempre4
  <1>1. ASSUME NEW i \in Ids, Recibir(i) \/ Paso(i) PROVE [Abstracto!Next]_Abstracto!vars
    <2>1. CASE LeerArchivo(i) /\ ~UNCHANGED hilo
      BY <2>1, LeerAbstracto
    <2>2. CASE GrabarMetadata(i)
      BY <2>2, CrearAbstracto
    <2> SUFFICES ASSUME LeerArchivo(i) => UNCHANGED hilo, ~GrabarMetadata(i)
                 PROVE  [Abstracto!Next]_Abstracto!vars
      BY <2>1, <2>2
    <2>3. (\A p \in Pokemones : Valor(p)' = Valor(p)) /\ Resultados' = Resultados
      BY <1>1, MudoOK
    <2>6. CASE SinBloques(i) /\ EstaModificando(i)
      <3>1. /\ hilo[i].pc = "grabar" /\ i \notin Fallidas /\ Fallidas' = Fallidas \cup {i}
        BY <1>0, <2>6, FallidasMas
      <3>2. hilo[i].resultado # Pendiente /\ i \notin enviada /\ UNCHANGED enviada
        BY <1>0, <2>6, <3>1 DEF Respuestas, EstaModificando, SinBloques
      <3>3. ASSUME NEW q \in Pokemones
            PROVE  Contenido(q)' = IF q = Pokemon(i) THEN SinCoord ELSE Contenido(q)
        <4>1. Contenido(q)' = IF Caida(q)' THEN SinCoord ELSE Valor(q)'
          BY DEF Contenido, Caida, SinCoord
        <4>2. Caida(q)' <=> Caida(q) \/ q = Pokemon(i)
          BY <3>1 DEF Caida, Pokemon
        <4> QED BY <2>3, <4>1, <4>2 DEF Contenido, Caida
      <3>4. Mundo' = [Mundo EXCEPT ![Pokemon(i)] = SinCoord]
        BY <3>3 DEF Mundo
      <3>5. Abstracto!Fallar(i)
        BY <2>3, <3>1, <3>2, <3>4, AbsFallar
      <3> QED BY <3>5 DEF Abstracto!Next
    <2> SUFFICES ASSUME ~(SinBloques(i) /\ EstaModificando(i))
                 PROVE  [Abstracto!Next]_Abstracto!vars
      BY <2>6
    <2>7. Fallidas' = Fallidas
      <3>1. CASE SinBloques(i)
        BY <1>0, <3>1, FallidasMas
      <3>2. CASE UNCHANGED hilo
        BY <3>2 DEF Fallidas, SinTerminar, EstaModificando
      <3>3. CASE ~SinBloques(i) /\ ~UNCHANGED hilo
        <4>1. hilo[i].pc # "muerto" /\ hilo'[i].pc # "muerto"
          BY <1>0, <1>1, <3>3, NadieMuere DEF IInv
        <4>2. Solo(i)
          BY <1>00, <1>1, <3>3, AlcanceOK
        <4> QED BY <4>1, <4>2, FallidasIgual
      <3> QED BY <3>1, <3>2, <3>3
    <2>8. Mundo' = Mundo
      BY <2>3, <2>7, MundoIgual
    <2>4. CASE Enviar(i) /\ i \notin SinBroker
      <3>1. /\ hilo[i].resultado # Pendiente /\ hilo[i].resultado.tipo # "VACIO" /\ i \notin enviada
            /\ enviada' = enviada \cup {i}
        BY <1>0, <2>4 DEF Enviar, En, Respuestas, EstaModificando
      <3>3. i \notin Fallidas
        BY <2>4 DEF Fallidas, Enviar, En
      <3>2. Abstracto!Responder(i)
        BY <2>3, <2>7, <2>8, <3>1, <3>3, AbsResponder
      <3> QED BY <3>2 DEF Abstracto!Next
    <2>5. CASE ~(Enviar(i) /\ i \notin SinBroker)
      <3>1. UNCHANGED enviada
        <4>1. CASE Enviar(i)
          BY <2>5, <4>1 DEF Enviar
        <4>2. CASE ~Enviar(i)
          BY <1>1, <4>2 DEF Paso, Recibir, Buscar, Existe, EstaEnLista, EstaAbierto,
             encolar_operacion_tallgrass, Trabar, MarcarAbierto, AnotarAbierto, LeerArchivo, LiberarBloque,
             Recortar, Crear, GrabarBloque, SinBloques, EscribirBlocks, EscribirSize, QuitarDeLista, Cerrar,
             Truncar, GrabarMetadata
        <4> QED BY <4>1, <4>2
      <3> QED BY <2>3, <2>7, <2>8, <3>1, Quietud
    <2> QED BY <2>4, <2>5
  <1>2. CASE Reintentar
    <2>1. PICK i \in Ids : /\ Solo(i) /\ UNCHANGED disco /\ hilo[i].pc = "encolado"
                           /\ hilo'[i] = [HiloNuevo EXCEPT !.pc = "existe"] /\ UNCHANGED enviada
      BY <1>0, <1>2, RelanzarEfecto
    <2>2. hilo'[i].pc = "existe" /\ hilo'[i].resultado = Pendiente
      BY <2>1 DEF HiloNuevo
    <2>3. hilo[i].resultado = Pendiente /\ ~SinTerminar(i) /\ ~SinTerminar(i)'
      BY <1>0, <2>1, <2>2 DEF Respuestas, SinDecidir, EstaModificando, SinTerminar
    <2>4. \A j \in Ids : /\ SinTerminar(j)' <=> SinTerminar(j)
                         /\ hilo'[j].posiciones = hilo[j].posiciones \/ ~SinTerminar(j)
                         /\ hilo'[j].resultado = hilo[j].resultado
      BY <2>1, <2>2, <2>3 DEF Solo, SinTerminar, EstaModificando
    <2>5. ASSUME NEW p \in Pokemones PROVE Valor(p)' = Valor(p)
      <3>1. /\ UNCHANGED bloque /\ metadata'[p].estado = metadata[p].estado
            /\ metadata'[p].size = metadata[p].size /\ metadata'[p].blocks = metadata[p].blocks
        BY <2>1 DEF disco
      <3> QED BY <2>4, <3>1, ContenidoIgual
    <2>6. Resultados' = Resultados
      BY <2>4 DEF Resultados
    <2>7. Fallidas' = Fallidas
      BY <2>1, <2>2, FallidasIgual
    <2>8. Mundo' = Mundo
      BY <2>5, <2>7, MundoIgual
    <2> QED BY <2>1, <2>6, <2>7, <2>8, Quietud
  <1>3. CASE UNCHANGED <<disco, hilo, enviada>>
    <2>1. \A p \in Pokemones : Valor(p)' = Valor(p)
      <3>1. \A j \in Ids : (SinTerminar(j)' <=> SinTerminar(j)) /\ hilo'[j].posiciones = hilo[j].posiciones
        BY <1>3 DEF SinTerminar, EstaModificando
      <3>2. ASSUME NEW p \in Pokemones PROVE Valor(p)' = Valor(p)
        <4>1. /\ UNCHANGED bloque /\ metadata'[p].estado = metadata[p].estado
              /\ metadata'[p].size = metadata[p].size /\ metadata'[p].blocks = metadata[p].blocks
          BY <1>3 DEF disco
        <4> QED BY <3>1, <4>1, ContenidoIgual
      <3> QED BY <3>2
    <2>2. Fallidas' = Fallidas
      BY <1>3 DEF Fallidas, SinTerminar, EstaModificando
    <2>3. Mundo' = Mundo
      BY <2>1, <2>2, MundoIgual
    <2> QED BY <1>3, <2>2, <2>3, Quietud DEF Resultados
  <1> QED BY <1>1, <1>2, <1>3 DEF Next, Dispatcher, DespertarDispatcher, FinDispatcher, vars

\* Over blocks that are freed and written one by one, metadata that is written key by
\* key, and retries, each NEW, CATCH or GET acts on the pokemon of its file in one step
\* and is answered for what it did, when no two NEW messages create one file; a message
\* that dies of a full disk is not answered, what its file had is lost, and no message
\* of that pokemon is decided after it (procesar_msg_new_pokemon,
\* procesar_msg_catch_pokemon, procesar_msg_get_pokemon).
THEOREM SiempreAtomico == AltaUnica => (Spec => CadaMensajeEsAtomico)
  <1> SUFFICES ASSUME AltaUnica PROVE Spec => CadaMensajeEsAtomico
    OBVIOUS
  <1>1. Siempre4 /\ Siempre4' /\ [Next]_vars => [Abstracto!Next]_Abstracto!vars
    BY PasoAbstracto
  <1> QED BY <1>1, AbstractoInicio, Siempre4OK, PTL DEF Spec, CadaMensajeEsAtomico, Abstracto!Spec

\* A file is whole, its size that of its positions, each once, and its blocks their text,
\* piece by piece, unless a thread is rewriting it or died at that. Nobody reads half of a
\* file, neither after a retry nor beside a creation, when no two NEW messages create one
\* file (get_contenido_bloques, armar_guardar_data_bloques_file_pokemon).
THEOREM ArchivosSiempreEnteros == AltaUnica => (Spec => []Guardados)
  <1> SUFFICES ASSUME AltaUnica PROVE Spec => []Guardados
    OBVIOUS
  <1>1. Siempre4 => Guardados
    BY DEF Siempre4
  <1> QED BY <1>1, Siempre4OK, PTL
=============================================================================
