-------------------------- MODULE GameCardOperaciones --------------------------
(***************************************************************************)
(* The NEW, CATCH and GET messages of the GameCard: one thread each, over  *)
(* the TallGrass files, and the dispatcher that tries again the messages   *)
(* that found their file open.                                             *)
(*                                                                         *)
(* g_mutex_tallgrass is held from the opening of a file to its closing;    *)
(* a new file is created with no mutex at all.  g_mutex_recepcion is taken *)
(* and freed within the step that receives or answers, and is left out.    *)
(***************************************************************************)
EXTENDS TallGrass

CONSTANTS
    msj,             \* [op, pokemon, pos, cantidad] of each message, by its id
    DelBroker,       \* the messages that come by a subscription, not by the GameBoy
    SinBroker,       \* the messages whose answer finds the broker gone
    Tranquilos       \* scenario: the messages that come while no other is in progress

Ids == DOMAIN msj

ASSUME OperacionesAssumption ==
    /\ msj \in [Ids -> [op : {"NEW", "CATCH", "GET"}, pokemon : Pokemones,
                        pos : Posiciones, cantidad : Nat \ {0}]]
    /\ DelBroker \subseteq Ids
    /\ SinBroker \subseteq Ids
    /\ Tranquilos \subseteq Ids

VARIABLES
    hilo,                \* the thread of each message
    g_mutex_tallgrass,
    g_mutex_envio,
    g_mutex_reintentos,
    g_reintentos,        \* messages to try again
    enviada,             \* messages whose answer was handed to a connection
    gamecard             \* "vivo", or "caido" after a NULL dereference

mutexes == <<g_mutex_tallgrass, g_mutex_envio, g_mutex_reintentos>>
vars == <<disco, g_archivos_abiertos, hilo, mutexes, g_reintentos, enviada, gamecard>>

SinCoord  == [q \in Posiciones |-> 0]
Pendiente == [tipo |-> "pendiente", coord |-> SinCoord]

\* A thread: where it is, the blocks and positions of its open file, the
\* pieces it has yet to store, the blocks they got, and its answer.
HiloNuevo == [pc |-> "fuera", blocks |-> <<>>, posiciones |-> <<>>, partes |-> <<>>,
              nuevos |-> <<>>, resultado |-> Pendiente]

Pcs == {"fuera", "existe", "lista", "open", "encolar", "encolado", "trabar", "abrir",
        "anotar", "leer", "liberar", "grabar", "blocks", "size", "quitar", "cerrar",
        "crear", "truncar", "metadata", "enviar", "muerto", "fin"}

Init ==
    /\ InitDisco
    /\ hilo = [i \in Ids |-> HiloNuevo]
    /\ g_mutex_tallgrass = FALSE
    /\ g_mutex_envio = FALSE
    /\ g_mutex_reintentos = FALSE
    /\ g_reintentos = <<>>
    /\ enviada = {}
    /\ gamecard = "vivo"

Pokemon(i) == msj[i].pokemon
En(i, pc) == gamecard = "vivo" /\ hilo[i].pc = pc
IrA(i, pc) == hilo' = [hilo EXCEPT ![i].pc = pc]
Caer == gamecard' = "caido"
Sigue == UNCHANGED gamecard

(***************************************************************************)
(* Reception and the questions asked before any lock                       *)
(***************************************************************************)
\* GET and CATCH of a pokemon that has no file are not answered.
Buscar(i) ==
    /\ IrA(i, CASE existe_archivo(Pokemon(i)) -> "lista"
                [] ~existe_archivo(Pokemon(i)) /\ msj[i].op = "NEW" -> "crear"
                [] OTHER -> "fin")
    /\ Sigue /\ UNCHANGED <<disco, g_archivos_abiertos, mutexes, g_reintentos, enviada>>

\* A message arrives and its thread looks for the file: nothing happens in
\* between that arriving later would not do.
Recibir(i) ==
    /\ En(i, "fuera")
    /\ i \in DelBroker => ~g_mutex_envio
    /\ i \in Tranquilos => \A j \in Ids : hilo[j].pc \in {"fuera", "fin"}
    /\ Buscar(i)

\* The same, of a message that is tried again.
Existe(i) == En(i, "existe") /\ Buscar(i)

EstaEnLista(i) ==
    /\ En(i, "lista")
    /\ IrA(i, IF Contains(g_archivos_abiertos, Pokemon(i)) THEN "encolar" ELSE "open")
    /\ Sigue /\ UNCHANGED <<disco, g_archivos_abiertos, mutexes, g_reintentos, enviada>>

\* The metadata of a file that is being created has no OPEN yet.
EstaAbierto(i) ==
    /\ En(i, "open")
    /\ IF metadata[Pokemon(i)].estado = "entera"
       THEN /\ \E abierto \in si_no(metadata[Pokemon(i)].open) :
                 IrA(i, IF abierto THEN "encolar" ELSE "trabar")
            /\ Sigue
       ELSE Caer /\ UNCHANGED hilo
    /\ UNCHANGED <<disco, g_archivos_abiertos, mutexes, g_reintentos, enviada>>

encolar_operacion_tallgrass(i) ==
    /\ En(i, "encolar")
    /\ ~g_mutex_reintentos
    /\ g_reintentos' = Append(g_reintentos, i)
    /\ IrA(i, "encolado")
    /\ Sigue /\ UNCHANGED <<disco, g_archivos_abiertos, mutexes, enviada>>

(***************************************************************************)
(* An existing file, under g_mutex_tallgrass                               *)
(***************************************************************************)
\* Mutant: the file is opened without waiting for its mutex.
TrabarSinEsperar(i) ==
    /\ En(i, "trabar")
    /\ g_mutex_tallgrass' = TRUE
    /\ IrA(i, "abrir")
    /\ Sigue /\ UNCHANGED <<disco, g_archivos_abiertos, g_mutex_envio, g_mutex_reintentos, g_reintentos, enviada>>

Trabar(i) ==
    /\ En(i, "trabar")
    /\ ~g_mutex_tallgrass
    /\ g_mutex_tallgrass' = TRUE
    /\ IrA(i, "abrir")
    /\ Sigue /\ UNCHANGED <<disco, g_archivos_abiertos, g_mutex_envio, g_mutex_reintentos, g_reintentos, enviada>>

MarcarAbierto(i) ==
    /\ En(i, "abrir")
    /\ modificar_metadata_pokemon(Pokemon(i), "open", "Y")
    /\ IrA(i, "anotar")
    /\ Sigue /\ UNCHANGED <<bitmap, bloque, g_archivos_abiertos, mutexes, g_reintentos, enviada>>

AnotarAbierto(i) ==
    /\ En(i, "anotar")
    /\ g_archivos_abiertos' = Append(g_archivos_abiertos, Pokemon(i))
    /\ IrA(i, "leer")
    /\ Sigue /\ UNCHANGED <<disco, mutexes, g_reintentos, enviada>>

\* The answer and the positions after message m, on a file with these positions.
Decision(m, posiciones) ==
    CASE m.op = "NEW" ->
           [resultado |-> [tipo |-> "APPEARED", coord |-> SinCoord],
            posiciones |-> actualizar_posiciones_archivo(posiciones, m.pos, m.cantidad)]
      [] m.op = "CATCH" /\ existe_posicion_en_archivo(posiciones, m.pos) ->
           [resultado |-> [tipo |-> "OK", coord |-> SinCoord],
            posiciones |-> eliminar_posicion_en_archivo(posiciones, m.pos)]
      [] m.op = "CATCH" /\ ~existe_posicion_en_archivo(posiciones, m.pos) ->
           [resultado |-> [tipo |-> "FAIL", coord |-> SinCoord], posiciones |-> posiciones]
      [] m.op = "GET" ->
           [resultado |-> [tipo |-> IF posiciones = <<>> THEN "VACIO" ELSE "LOCALIZED",
                           coord |-> [q \in Posiciones |->
                              Cardinality({n \in DOMAIN posiciones : posiciones[n].pos = q})]],
            posiciones |-> posiciones]

\* leer_metadata_pokemon, get_contenido_bloques and what the message makes of
\* the positions in memory.
LeerArchivo(i) ==
    LET md == metadata[Pokemon(i)]
        decidido == Decision(msj[i], Cargadas(md))
    IN
    /\ En(i, "leer")
    /\ IF Legible(md)
       THEN /\ hilo' = [hilo EXCEPT ![i] =
                  [@ EXCEPT !.pc = IF decidido.resultado.tipo \in {"APPEARED", "OK"}
                                   THEN "liberar" ELSE "quitar",
                            !.blocks = md.blocks,
                            !.posiciones = decidido.posiciones,
                            !.resultado = decidido.resultado]]
            /\ Sigue
       ELSE Caer /\ UNCHANGED hilo
    /\ UNCHANGED <<disco, g_archivos_abiertos, mutexes, g_reintentos, enviada>>

\* eliminar_bloques_archivo, one block at a time.
LiberarBloque(i) ==
    /\ En(i, "liberar")
    /\ hilo[i].blocks # <<>>
    /\ eliminar_bloque(Head(hilo[i].blocks))
    /\ hilo' = [hilo EXCEPT ![i].blocks = Tail(@)]
    /\ Sigue /\ UNCHANGED <<metadata, g_archivos_abiertos, mutexes, g_reintentos, enviada>>

\* All blocks are free: the text of the positions is cut again, if there is any.
Recortar(i) ==
    /\ En(i, "liberar")
    /\ hilo[i].blocks = <<>>
    /\ hilo' = [hilo EXCEPT ![i] =
          [@ EXCEPT !.pc = IF hilo[i].posiciones = <<>> THEN "blocks" ELSE "grabar",
                    !.partes = IF hilo[i].posiciones = <<>> THEN <<>>
                               ELSE Partes(serializar_lista_posiciones_pokemon(hilo[i].posiciones))]]
    /\ Sigue /\ UNCHANGED <<disco, g_archivos_abiertos, mutexes, g_reintentos, enviada>>

\* crear_archivo_pokemon: the text of the one position of the message.
Crear(i) ==
    LET posiciones == <<[pos |-> msj[i].pos, cantidad |-> msj[i].cantidad]>>
    IN
    /\ En(i, "crear")
    /\ hilo' = [hilo EXCEPT ![i] =
          [@ EXCEPT !.pc = "grabar", !.posiciones = posiciones,
                    !.partes = Partes(serializar_lista_posiciones_pokemon(posiciones))]]
    /\ Sigue /\ UNCHANGED <<disco, g_archivos_abiertos, mutexes, g_reintentos, enviada>>

\* A thread that has decided its answer is modifying an open file; the others create.
EstaModificando(i) == hilo[i].resultado # Pendiente

GrabarBloque(i) ==
    /\ En(i, "grabar")
    /\ HayBloque
    /\ grabar_bloque(obtener_ultimo_nro_bloque, Head(hilo[i].partes))
    /\ hilo' = [hilo EXCEPT ![i] =
          [@ EXCEPT !.partes = Tail(hilo[i].partes),
                    !.nuevos = Append(hilo[i].nuevos, obtener_ultimo_nro_bloque),
                    !.pc = IF Len(hilo[i].partes) > 1 THEN "grabar"
                           ELSE IF EstaModificando(i) THEN "blocks" ELSE "truncar"]]
    /\ Sigue /\ UNCHANGED <<metadata, g_archivos_abiertos, mutexes, g_reintentos, enviada>>

\* No block left: the thread takes g_mutex_envio for ever and ends with
\* whatever else it holds.
SinBloques(i) ==
    /\ En(i, "grabar")
    /\ ~HayBloque
    /\ ~g_mutex_envio
    /\ g_mutex_envio' = TRUE
    /\ IrA(i, "muerto")
    /\ Sigue /\ UNCHANGED <<disco, g_archivos_abiertos, g_mutex_tallgrass, g_mutex_reintentos, g_reintentos, enviada>>

EscribirBlocks(i) ==
    /\ En(i, "blocks")
    /\ modificar_metadata_pokemon(Pokemon(i), "blocks", hilo[i].nuevos)
    /\ IrA(i, "size")
    /\ Sigue /\ UNCHANGED <<bitmap, bloque, g_archivos_abiertos, mutexes, g_reintentos, enviada>>

EscribirSize(i) ==
    /\ En(i, "size")
    /\ modificar_metadata_pokemon(Pokemon(i), "size", Largo * Len(hilo[i].posiciones))
    /\ IrA(i, "quitar")
    /\ Sigue /\ UNCHANGED <<bitmap, bloque, g_archivos_abiertos, mutexes, g_reintentos, enviada>>

QuitarDeLista(i) ==
    /\ En(i, "quitar")
    /\ quitar_de_lista_archivos_abiertos(Pokemon(i))
    /\ IrA(i, "cerrar")
    /\ Sigue /\ UNCHANGED <<disco, mutexes, g_reintentos, enviada>>

\* OPEN=N, and g_mutex_tallgrass is freed.
Cerrar(i) ==
    /\ En(i, "cerrar")
    /\ modificar_metadata_pokemon(Pokemon(i), "open", "N")
    /\ g_mutex_tallgrass' = FALSE
    /\ IrA(i, IF hilo[i].resultado.tipo = "VACIO" THEN "fin" ELSE "enviar")
    /\ Sigue
    /\ UNCHANGED <<bitmap, bloque, g_archivos_abiertos, g_mutex_envio, g_mutex_reintentos, g_reintentos, enviada>>

(***************************************************************************)
(* The rest of a creation, the answer and the dispatcher                   *)
(***************************************************************************)
\* fopen "wb" empties the metadata, or makes it appear.
Truncar(i) ==
    /\ En(i, "truncar")
    /\ metadata' = [metadata EXCEPT ![Pokemon(i)] = Vacia]
    /\ IrA(i, "metadata")
    /\ Sigue /\ UNCHANGED <<bitmap, bloque, g_archivos_abiertos, mutexes, g_reintentos, enviada>>

GrabarMetadata(i) ==
    /\ En(i, "metadata")
    /\ grabar_metadata_pokemon(Pokemon(i), hilo[i].nuevos, Largo)
    /\ hilo' = [hilo EXCEPT ![i] =
          [@ EXCEPT !.pc = "enviar", !.resultado = [tipo |-> "APPEARED", coord |-> SinCoord]]]
    /\ Sigue /\ UNCHANGED <<bitmap, bloque, g_archivos_abiertos, mutexes, g_reintentos, enviada>>

\* The answer is handed to a connection, or lost because the broker is not there.
Enviar(i) ==
    /\ En(i, "enviar")
    /\ enviada' = enviada \cup ({i} \ SinBroker)
    /\ IrA(i, "fin")
    /\ Sigue /\ UNCHANGED <<disco, g_archivos_abiertos, mutexes, g_reintentos>>

DespertarDispatcher ==
    /\ gamecard = "vivo"
    /\ g_reintentos # <<>>
    /\ ~g_mutex_reintentos
    /\ g_mutex_reintentos' = TRUE
    /\ Sigue
    /\ UNCHANGED <<disco, g_archivos_abiertos, hilo, g_mutex_tallgrass, g_mutex_envio, g_reintentos, enviada>>

\* Mutant: a CATCH is taken off the queue and not started again.
RelanzarSinCatch(i) ==
    hilo' = [hilo EXCEPT ![i] = IF msj[i].op = "CATCH" THEN @ ELSE [HiloNuevo EXCEPT !.pc = "existe"]]

\* The message starts again in a thread of its own.
Relanzar(i) == hilo' = [hilo EXCEPT ![i] = [HiloNuevo EXCEPT !.pc = "existe"]]

\* The pokemon is taken off the list of open files, though it may be open.
Reintentar ==
    /\ gamecard = "vivo"
    /\ g_mutex_reintentos
    /\ g_reintentos # <<>>
    /\ quitar_de_lista_archivos_abiertos(Pokemon(Head(g_reintentos)))
    /\ Relanzar(Head(g_reintentos))
    /\ g_reintentos' = Tail(g_reintentos)
    /\ Sigue /\ UNCHANGED <<disco, mutexes, enviada>>

FinDispatcher ==
    /\ gamecard = "vivo"
    /\ g_mutex_reintentos
    /\ g_reintentos = <<>>
    /\ g_mutex_reintentos' = FALSE
    /\ Sigue
    /\ UNCHANGED <<disco, g_archivos_abiertos, hilo, g_mutex_tallgrass, g_mutex_envio, g_reintentos, enviada>>

Dispatcher == DespertarDispatcher \/ Reintentar \/ FinDispatcher

Paso(i) ==
    \/ Existe(i) \/ EstaEnLista(i) \/ EstaAbierto(i) \/ encolar_operacion_tallgrass(i)
    \/ Trabar(i) \/ MarcarAbierto(i) \/ AnotarAbierto(i) \/ LeerArchivo(i)
    \/ LiberarBloque(i) \/ Recortar(i) \/ Crear(i) \/ GrabarBloque(i) \/ SinBloques(i)
    \/ EscribirBlocks(i) \/ EscribirSize(i) \/ QuitarDeLista(i) \/ Cerrar(i)
    \/ Truncar(i) \/ GrabarMetadata(i) \/ Enviar(i)

Next == (\E i \in Ids : Recibir(i) \/ Paso(i)) \/ Dispatcher

\* Threads run on their own and the dispatcher wakes every few seconds; nothing
\* obliges a message to arrive.
Fairness == (\A i \in Ids : WF_vars(Paso(i))) /\ WF_vars(Dispatcher)

Spec == Init /\ [][Next]_vars
FairSpec == Spec /\ Fairness

(***************************************************************************)
(* Properties                                                              *)
(***************************************************************************)
\* Disk, list, threads and mutexes hold values of their kinds, and a block
\* with no bit set has no file.
TypeOK ==
    /\ TypeOKDisco
    /\ \A b \in Bloques \ bitmap : bloque[b] = <<>>
    /\ \A i \in Ids :
         /\ hilo[i].pc \in Pcs
         /\ hilo[i].blocks \in Seq(Bloques) /\ hilo[i].nuevos \in Seq(Bloques)
         /\ hilo[i].posiciones \in Seq(Posicion)
    /\ <<g_mutex_tallgrass, g_mutex_envio, g_mutex_reintentos>> \in BOOLEAN \X BOOLEAN \X BOOLEAN
    /\ g_reintentos \in Seq(Ids)
    /\ enviada \subseteq Ids
    /\ gamecard \in {"vivo", "caido"}

\* Thread i has begun to rewrite its file and has not ended: it is at it, or it
\* died with the disk full and never will (tall_grass.c:116).
SinTerminar(i) == EstaModificando(i) /\ hilo[i].pc \in {"liberar", "grabar", "blocks", "size", "muerto"}

\* The file of p is half rewritten, for now or for ever.
AMedias(p) == \E i \in Ids : Pokemon(i) = p /\ SinTerminar(i)

\* The messages whose rewriting ended with the disk full.
Fallidas == {i \in Ids : SinTerminar(i) /\ hilo[i].pc = "muerto"}

\* The blocks a living thread got and that are not yet its file's.
Propios(i) == IF hilo[i].pc \in {"grabar", "blocks", "size", "truncar", "metadata"}
              THEN hilo[i].nuevos ELSE <<>>

\* The blocks of the threads that died, in a rewriting or in a creation: no
\* metadata will name them and nobody will free them.
Perdidos == UNION {{hilo[i].nuevos[n] : n \in DOMAIN hilo[i].nuevos} :
                    i \in {j \in Ids : hilo[j].pc = "muerto"}}

\* Each place where a block is named: in a metadata that is not half rewritten,
\* among the blocks a thread has yet to free, among those a living thread got.
Referencias ==
    (UNION {{<<"archivo", p, metadata[p].blocks[n], n>> : n \in DOMAIN metadata[p].blocks} :
             p \in {q \in Pokemones : ~AMedias(q)}})
    \cup (UNION {{<<"viejo", i, hilo[i].blocks[n], n>> : n \in DOMAIN hilo[i].blocks} :
             i \in {j \in Ids : SinTerminar(j)}})
    \cup (UNION {{<<"nuevo", i, Propios(i)[n], n>> : n \in DOMAIN Propios(i)} : i \in Ids})

\* A block whose bit is set belongs to exactly one file or living thread, and one
\* whose bit is clear to none, at every point of every rewriting and creation, but
\* for what a full disk leaves behind: the blocks of a thread that died stay set
\* for ever, those and no others, and the metadata of the file it was rewriting
\* names blocks it freed, which may be another file's by now
\* (obtener_ultimo_nro_bloque, eliminar_bloques_archivo, tall_grass.c:116).
BitmapExacto ==
    /\ Perdidos \subseteq bitmap
    /\ {r[3] : r \in Referencias} = bitmap \ Perdidos
    /\ Cardinality(Referencias) = Cardinality(bitmap \ Perdidos)

\* Thread i is between the opening of its file and its closing, or died there.
LoTieneAbierto(i) ==
    hilo[i].pc \in {"anotar", "leer", "quitar", "cerrar"} \/ SinTerminar(i)

\* Thread i has its file open, or is about to mark it so.
TieneElMutex(i) == hilo[i].pc = "abrir" \/ LoTieneAbierto(i)

\* g_mutex_tallgrass is locked exactly while one thread has a file open or is about to
\* mark it so: the rewriting of a file never overlaps that of another, retries and
\* threads that died of a full disk included (abrir_archivo_pokemon,
\* cerrar_archivo_pokemon, armar_guardar_data_bloques_file_pokemon).
UnoPorVez ==
    /\ g_mutex_tallgrass <=> \E i \in Ids : TieneElMutex(i)
    /\ \A i, j \in Ids : TieneElMutex(i) /\ TieneElMutex(j) => i = j

\* OPEN is Y exactly while one thread has the file open and g_mutex_tallgrass,
\* whatever the dispatcher takes off the list of open files meanwhile
\* (abrir_archivo_pokemon, cerrar_archivo_pokemon, utils_gc.c:330).
AbiertoMientrasSeUsa ==
    /\ UnoPorVez
    /\ \A p \in Pokemones :
         metadata[p].open = "Y" <=> \E i \in Ids : Pokemon(i) = p /\ LoTieneAbierto(i)
    /\ \A n \in DOMAIN g_archivos_abiertos :
         \E i \in Ids : Pokemon(i) = g_archivos_abiertos[n] /\ LoTieneAbierto(i)

\* The pokemon a list of positions adds up to at each position.
Suma(posiciones) ==
    [q \in Posiciones |->
        Cardinality(UNION {{n} \X (1 .. posiciones[n].cantidad) :
                             n \in {m \in DOMAIN posiciones : posiciones[m].pos = q}})]

\* What the file of p is worth: the positions in memory of the thread that has not
\* ended its rewriting, or what its blocks say.
Valor(p) ==
    IF AMedias(p)
    THEN Suma(hilo[CHOOSE i \in Ids : Pokemon(i) = p /\ SinTerminar(i)].posiciones)
    ELSE IF metadata[p].estado = "entera" THEN Suma(Cargadas(metadata[p])) ELSE SinCoord

\* Nothing, when that thread died with the disk full.
Contenido(p) == IF \E i \in Fallidas : Pokemon(i) = p THEN SinCoord ELSE Valor(p)

Abstracto == INSTANCE PokemonAbstracto WITH
    Inicial   <- [p \in Pokemones |-> IF NumeroDe(p) = 0 THEN SinCoord ELSE Suma(<<Primera>>)],
    contenido <- [p \in Pokemones |-> Contenido(p)],
    resultado <- [i \in Ids |-> hilo[i].resultado],
    enviada   <- enviada,
    fallidas  <- Fallidas

\* Over blocks, metadata and retries, each message acts on the pokemon of its
\* file in one step: no NEW or CATCH that is answered is lost or done twice, and
\* GET tells of every position of one moment; only a message that finds the disk
\* full loses what there was, and no message of that pokemon is decided after it
\* (procesar_msg_*_pokemon).
CadaMensajeEsAtomico == Abstracto!Spec

\* From some time on every message that arrived is at its end, retries included,
\* unless a NULL key ends the process or the disk is full
\* (completar_operaciones_pendientes).
SeTermina ==
    <>[](gamecard = "caido" \/ g_mutex_envio \/ \A i \in Ids : hilo[i].pc \in {"fuera", "fin"})
=============================================================================
