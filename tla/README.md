# Delibird in TLA+

Delibird is a message broker (`broker`) and the processes around it: `gameCard`
(a pokemon file system, TallGrass, behind a message interface), `team` (trainers
scheduled to catch pokemons) and `gameboy` (a command line that publishes). All of
it is C with pthreads, semaphores, sockets and the `commons` library.

This directory holds TLA+ modules translated from that code, the TLC configurations
that check them on small instances, and TLAPS proofs of the main results for every
instance. Paths below are relative to `src/`.

## 1. The system

| component | state | operations | interacts with |
|---|---|---|---|
| Broker cache, dynamic partitions (`broker/src/broker_oper.c`, `broker_utils.c`) | `partition_table`, `partition_repo`, `used_space`, the FIFO and LRU counters | store with first/best fit, replace (FIFO/LRU), consolidate, compact, read | the queues: an eviction removes a message from its queue |
| Broker cache, buddy system (same files) | one bitmap and one `free_buddys` per order, `buddy_table` | store, replace, free, read | the queues |
| Broker queues and delivery (same files) | `mensajes_cola`, `suscriptores` and the semaphore of each, `g_msg_counter`, `g_mutex_msjs` | publish, subscribe, send, acknowledge, end a subscription | one thread for each connection; the cache |
| Broker configuration, log, dump on signals | configuration, dump file | start, dump | takes the cache mutexes in a signal handler |
| Shared library (`delibird/delibird`) | none | connect, send, receive, serialize | everybody |
| GameCard client (`gameCard/src/suscripcion.c`) | one thread and connection for each queue, `status_conexion_broker` | subscribe, receive, acknowledge, reconnect, publish answers | broker |
| GameCard messages (`gameCard/src/utils_gc.c`) | the retry queue | NEW, CATCH, GET, delayed retries | TallGrass, broker |
| TallGrass (`gameCard/src/tall_grass.c`) | bitmap, blocks, metadata with `OPEN`, list of open files | create, open, modify, close | GameCard handlers, one thread for each message |
| Team planners (`team/src/planificadorA*.c`) | ready, blocked and exit queues, a dozen semaphores | move trainers between queues, detect deadlock | trainers, reception |
| Team trainers (`team/src/entrenador.c`) | position, targets, catches, state of each trainer | move, catch, exchange | planners, broker |
| Team reception (`team/src/utilsTeam.c`, `decisionesDeRecepcion.c`) | free and reserved pokemons, ids of pending CATCH | APPEARED, LOCALIZED, CAUGHT | planners, trainers, broker |
| GameBoy (`gameboy/src`) | none | validate a command line, publish or subscribe for some time | broker, GameCard, Team |
| Team start-up, `team2`, `testServer`, tests, scripts | | | see `PROJECT.json` |

Each component, what is hard in it, and what makes it correct:

- **Cache, partitions.** Long sequences of splits, evictions, merges and moves over one
  array. Correct when the table tiles the memory, the data of a stored message is
  intact, queues and cache hold the same messages, `used_space` is right, nothing is
  evicted while a free partition would do, and a message that fits is stored in the end.
- **Cache, buddy.** Redundant bitmaps and counters over the orders. Correct when two
  messages never overlap, and the bitmaps and counters say what is occupied.
- **Delivery.** Threads that share lists, most of them under `g_mutex_msjs`, some with no
  lock, one unlock by a thread that does not hold it; lost connections; a
  counting semaphore for each subscriber that has to follow a list. Correct when
  ids pair answers with messages, each process receives the messages in order and once, what is
  marked as sent was received, and no thread sleeps with a message to send.
- **Messages.** A size computed apart from the bytes, offsets repeated on each side, an id that
  travels with the message and with the answer to its publisher. Correct when what is received is what was
  published, ids pair answers with requests, and no process waits for a packet nobody will send.
- **GameCard client.** Reconnection of three queues on one shared flag; answers sent once; a mutex
  unlocked by threads that did not lock it. Correct when counts are exact, a loss of the connections is noticed,
  and an answer does not wait for ever.
- **GameCard and TallGrass.** Check-then-act on open files, a retry that reopens them,
  a full disk, a crash between freeing the blocks and writing the metadata. Correct when each message acts
  as one step on the number of pokemons of a place, and every block belongs to one file.
- **Team.** Everyone-waits situations between planners, trainers and reception; answers
  matched to the wrong trainer; counters updated apart from their lists. Correct when a trainer is in one
  place, pokemons and reservations are conserved, nobody follows a NULL, and a trainer that waits is woken.

`PROJECT.json` lists each of these at its line, under `hazards`.

## 2. Modules

| module | models | is used by |
|---|---|---|
| `BrokerPartitions` | the cache under `ALGORITMO_MEMORIA=PARTICIONES` | `MCBrokerPartitions`, `BrokerPartitionsProofs` |
| `BrokerBuddy` | the cache under `ALGORITMO_MEMORIA=BS` | `MCBrokerBuddy`, `BrokerBuddyProofs` |
| `BrokerDelivery` | one queue, its publishers, its subscription threads and the processes subscribed | `MCBrokerDelivery`, `BrokerDeliveryProofs` |
| `Serializacion` | the bytes of every message, in packets and in the cache | `Mensajes` |
| `Mensajes` | GameBoy, GameCard and a subscriber talking to the broker through streams of bytes | `MCMensajes` |
| `GameCardSuscripcion` | subscriptions, reconnection, end by signal, answers, GameBoy connections | `MCGameCardSuscripcion`, `GameCardSuscripcionProofs` |
| `TallGrass` | the file system: bitmap, blocks, metadata, open files | `GameCardOperaciones` |
| `GameCardOperaciones` | NEW, CATCH and GET, their threads and retries, over `TallGrass` | `MCGameCardOperaciones`, `GameCardOperacionesProofs` |
| `PokemonAbstracto` | what the GameCard promises: pokemons at places, each message one step | `GameCardOperaciones`, by INSTANCE |
| `TeamEntrenador` | a trainer: lists of pokemons, movement, exchange; operators with no state | `TeamPlanificadores` |
| `TeamPlanificadores` | both planners and the trainers' threads | `Team` |
| `Team` | the above with the messages that arrive and those it sends | `MCTeam`, `TeamPasos`, `TeamProofs` |
| `MC...` | values of constants a configuration cannot write | TLC |
| `LemasComunes` | naturals, sequences and sums over finite sets, for the proofs of more than one component | `...Proofs`, `TeamPasos` |
| `...Proofs`, `TeamPasos` | lemmas, inductive invariants and theorems | TLAPS |

### BrokerPartitions

Everything in the cache runs with `g_mutex_msjs` held, so one message is stored at a time.
`partition_table` is a list that the code sorts by `dir_base` and renumbers after each
change; here it is a set of records and an index is a rank by address. `partition_repo`
gives for each byte the id of the message it belongs to, 0 once cleared, which is all the
properties need of the data.

`Publicar` is the case in which a partition fits (`buscar_particion_dinamica_libre` and
what follows it); otherwise `PublicarSinLugar` enters the loop of
`reemplazar_particion_dinamica`, one action for each outcome of a turn
(`ReemplazarYCompactar`, `ReemplazarOtra`, `ReemplazarYGuardar`, `Abandonar`), and a
compaction is `reorganizar_tabla_particiones`, one `Deslizar` for each partition,
`FinCompactar`, and what the turn does with its result. `Leer` is a read by a subscriber's
thread, taken when no store is in progress. The code means `g_mutex_msjs` to give that, and it does but for the handshake that
unlocks it from outside (`broker_utils.c:195`). That unlock is in `BrokerDelivery` and `Mensajes`, and the exit of a thread that finds
a partition of another size (`broker_oper.c:390`) in `Mensajes`, whose run `MensajesIdRepetido` shows it. The same goes for `BrokerBuddy`. The 500 turns after which the code ends the thread are the constant
`LimiteConsolidar`.

Sizes may tie under best fit: `list_sort` does not say which partition comes first, so the
model takes any. Stamps of FIFO never tie; those of LRU do not either, since each read and
each store moves the counter.

### BrokerBuddy

Also under `g_mutex_msjs`. `bitmap_buddy` is the set of indices of the bits set in the bitmap of each
order, `free_buddys` the count kept beside it, `buddy_table` the set of occupied blocks. The sequence
of `if` and `for` that sets or clears the bits above and below a block is a set comprehension: the orders
the loop goes through before it stops (`set_bits_bitmaps_superiores`,
`clean_bits_bitmaps_superiores`) and the indices inside the block (`Interiores`). `Cuenta` is
`free_buddys` after those loops, which count each bit they really change.

`Publicar` stores a message in a free block. `PublicarSinLugar` enters
`reemplazar_particion_buddy`; each turn evicts the oldest or least recently used message and either
stores (`ReemplazarYGuardar`) or goes on (`ReemplazarOtra`). With an empty table the code
dereferences NULL (`pc = "caido"`), and `SeGuarda` says that this never happens. The contents of
`buddy_repo` are left out: blocks do not move, so what `SinSolapar` says is all the data need.

### BrokerDelivery

One queue. A default mutex may be unlocked by any thread, so `g_mutex_msjs` is a flag:
`ContarSinEnviar` and `RecibirAck`, the two places where a handshake has been received, set it to
FALSE whoever holds it (`broker_utils.c:195`). A publication is the sequence
`RecibirPublicacion`, `SoltarTrasRecibir`, `TomarId`, `Encolar`, `Contar`; the end of a
subscription is `RecibirFin`, `SoltarTrasRecibir`, `Deshabilitar`, `Confirmar`,
`FinConfirmar`. A subscription thread counts (`ContarSinEnviar`), adds its record
(`alta_suscriptor_cola`), and goes round `Continuar`, `Despertar`, `TrabarParaEnviar`,
`Enviar`, `RecibirAck`, until `Terminar` or a failure takes it to
`eliminar_suscriptor_por_id`. The recursion of `atender_suscripcion` through
`atender_cliente_broker` is this loop: only the innermost call runs, and it ends in
`pthread_exit`.

A record is named by the subscription that added it, and a thread remembers which record it
uses: the first with its `id_suscriptor`, which after a reconnection is the old one. The
cache is reduced to what the queue sees of it: at `Capacidad` messages the oldest is
evicted.

### Serializacion and Mensajes

A byte is a pair: which of the four bytes of which word, or a letter of a name. A packet is written and read
at the offsets of the code, and its size is the one the code computes, so a field too few, a swapped order or a
size that does not match what was written shows up as garbage at the other end (`Basura`).

`Mensajes` is the composition: a line of GameBoy is validated (`validar_argumentos`, with its order of
evaluation: an argument that is missing is a NULL handed to `atoi`, and the process falls), the packet goes through
a stream, the thread of the broker receives it, computes what it takes in the cache, stores it (`TomarId`,
`enqueue_msg`), answers the id, and the thread of the subscription finds it by id in the cache and sends it. The
subscriber counts what it gets and ends its subscription through another connection when its time is over. As
in `BrokerDelivery`, a handshake unlocks `g_mutex_msjs`. The cache keeps every message: evictions are the
subject of the cache modules, lost connections that of `BrokerDelivery`.

### GameCardSuscripcion

`iniciar_suscripciones_broker_gc` subscribes one queue after another, `Suscribir` for each, run by `main` and by the
reconnection thread. `g_mutex_envio` is locked by whoever creates a thread and unlocked by the thread created, once
connected or refused: the model has it as a flag and the proof shows it still excludes. A COLA_VACIA is received with the same
mutex as a message and is not counted (`RecibirVacia`, `SoltarVacia`). The id that ends a subscription is always the process's own, so
the exit on another one (`suscripcion.c:72`) is not reached and has no action. `status_conexion_broker` is
one flag for the three subscriptions: a subscription that ends sets it to FALSE, one that connects to TRUE, so queues are
subscribed twice (threads of one queue are `<<queue, n>>`) or stay unsubscribed while another one is up.

### TallGrass, GameCardOperaciones and PokemonAbstracto

Each write to the disk is a step: a block, the bit of a block, a key of the metadata. A new file is created with no
mutex; an existing one is opened with `g_mutex_tallgrass` held to its closing, after two questions asked
before (`EstaEnLista`, `EstaAbierto`). A message that finds its file open goes to `g_reintentos`, and the dispatcher
starts it again after taking the pokemon off the list of open files (`Reintentar`). With no free block the thread takes
`g_mutex_envio` and ends (`SinBloques`). `si_no` returns an uninitialized value for Y: `EstaAbierto` takes either.

`GameCardOperaciones` implements `PokemonAbstracto`: its `contenido` is what the positions in memory of the
thread that rewrites a file say or, when nobody does, what the blocks of its metadata say.

A thread that ends for want of a block while it rewrites leaves its file half rewritten for ever (`AMedias`): the metadata still
names the blocks it freed, which another file may take, and those it had got stay set and nobody frees them (`Perdidos`). The
message is never answered and what the file had is lost; as the thread also keeps `g_mutex_tallgrass` and the file its OPEN,
no message reads it again. `PokemonAbstracto` has that as a step of its own (`Fallar`, `fallidas`), the pokemon's quantities
become 0, and no later message of that pokemon is decided. `BitmapExacto` says that this is all a full disk leaves: the bits
set are those of the files that are not half rewritten, of the living threads, and of `Perdidos`. That the file survives is not
a property: the code loses it.

`modificar_metadata_pokemon` is one step. `config_save` truncates the file and writes it again, and `EstaAbierto` reads OPEN with
no mutex (`tall_grass.c:739`), so a reader may in the code find the key missing; the model leaves that window out.

### TeamEntrenador, TeamPlanificadores and Team

Semaphores that guard one list are taken and freed within a step; those that count, `sem_cola_blocked`, which the
medium-term planner holds while it waits for pokemons (`trabada`), and `mutex_idCorrelativos` are state. The short-term
planner is `CpTermina`, `CpElige`, `CpDevuelve`; the medium-term one is a cycle of `Mp...` actions, one for each
stretch between two waits; a trainer's thread is a turn of one movement, catch or exchange. `algoritmo` is chosen
at the start among FIFO, RR and both SJF; estimations are integers in parts of 1/16.

Lists of trainers are sequences, and what the commons' `list_filter`, `list_sort`, `list_find` and `list_remove` do
to them is written by positions: `Quieren` (the positions of the trainers in some states), `EnPosiciones` (the elements at
some positions, in order), `SinPosicion`, `Ordenados` (the list in the order of a comparator, ties in the order they had). Lists of
pokemons have one record for each species; `pokemonesPendientes` are the positions of the objective of which some
are still to be caught, and an exchange walks the other trainer's list as the loops of `intercambiarNormalPokemon` do.

`Team` adds the threads of APPEARED, LOCALIZED and CAUGHT, and those that send GET and CATCH, in the steps between
which the code takes or drops a semaphore. Names of pokemons are compared as pointers in
`necesitoIrAAtraparlo`, so the count it makes is that of the same message only (`cantidadLibres`).

Every CATCH connects anew (`utilsTeam.c:125`) and the broker falls and returns at any step (`BrokerCae`, `BrokerVuelve`): it may be
absent at the connection (`CatchSinBroker`), fall before its answer (`CatchCortado`), accept (`CatchEnvia`) or refuse the message
(`CatchRechazado`, where the length of the text is taken for the id). A CATCH with no id lists -1 and posts
`mutex_idCorrelativos`, which the first of these never waited on, and leaves `rta_catch` as it was. A broker that
returns has lost its messages and counts ids from 1; a CATCH the GameCard had got before is answered afterwards. The reconnection
thread sends subscriptions and GETs again, of which the model keeps that messages arrive from then on. The simplifications:
whether a CATCH is refused depends on its size and on the broker's configuration, and here each may be; the threads that
send are a set, so two failed CATCHes of one trainer in the same stage are one; the variable `code` that
`rcv_codigo_operacion` returns uninitialized on a closed connection (`mensajeria.c:536`) is taken to be no id; a CATCH the
broker accepted just before it fell, whose id never arrived, has no answer; `sem_mutex_msjs` is not modelled, so two threads may
be connected at once, more than the code allows.

The model ends when the medium-term planner does. In the code the threads of the server and of the messages go on for the time the
process takes to exit, on lists already freed (`planificadorAMedianoPlazo.c:371`), and the line of log after a FAIL reads a
reservation that the CAUGHT's thread freed (`entrenador.c:320`): memory used after it is freed is in no property of the Team.

## 3. Runs

| run | instance | result |
|---|---|---|
| `PartFifoSinCompactar` | first fit, FIFO, no compaction, 6 messages, fairness | `TypeOK`, `Mosaico`, `EspacioUsado`, `DesalojoNecesario`, `SeGuarda` hold |
| `PartLruCompacta` | best fit, LRU, compaction before and after each eviction, limit 3, 6 messages in 2 queues, 1 read | `DatosIntactos`, `ColasYCache` hold |
| `BuddyLru` | four orders, LRU, 9 messages, 1 read | `TypeOK`, `SinSolapar`, `BitmapsExactos`, `CuentasExactas`, `ColasYCache`, `SeGuarda` hold |
| `EntregaReconexion` | 1 publisher, 1 subscriber with 2 connections, 3 messages, 1 end, capacity 2 | `TypeOK`, `EntregaEnOrden`, `MarcadoEsRecibido` hold |
| `EntregaVivaz` | 2 subscribers present before the first of 2 messages, 1 end, fairness | `EsperaSoloSiRecibioTodo`, `SeEntrega`, `FinTermina` hold |
| `Mensajes` | 2 publishers and a subscriber; each type of message twice, and lines refused, too big, incomplete or for other processes | `LlegaLoPublicado`, `SuRespuesta`, `SinFallo`, `NadieQuedaEsperando` hold |
| `GamecardSuscripciones` | 2 queues, 3 threads, an answer, 3 events among messages, falls, signals and GameBoy connections, fairness | `CuentaExacta`, `SeEnvia`, `SiempreVuelveUna` hold |
| `GamecardMensajes` | 2 NEW, a CATCH and a GET of a pokemon with a file, a NEW of another, 2 blocks, fairness | `TypeOK`, `BitmapExacto`, `AbiertoMientrasSeUsa`, `CadaMensajeEsAtomico`, `SeTermina` hold |
| `TeamIntercambio` | 2 trainers, each near what the other wants, 4 algorithms, with the broker, without it and, under FIFO, with one that falls and returns, fairness | `TypeOK`, `SinPunteroNulo`, `EntrenadorEnUnLugar`, `ReservaDeSuEntrenador`, `AtrapadosExactos`, `SaleCompleto`, `RespuestaReconocida`, `CatchTerminaSiNoEspera` hold |
| `MensajesIdRepetido` | that of `Mensajes` | `SinParticionInvalida` is violated |
| `TeamReadyOlvidado` | that of `TeamIntercambio` | `SinReadyOlvidado` is violated |
| `GamecardDosNuevos` | 2 NEW of a pokemon with no file | `CadaMensajeEsAtomico` is violated |

Bounds. `TamanoMemoria` is 10 bytes and the minimum partition 2 in the runs of the partitions: five minimum
partitions, remainders below the minimum, a message that needs two or three neighbours evicted. Sizes hit
those cases (below the minimum, a single byte left, most of the memory, one that can never fit).
The buddy system has 32 bytes in blocks of 4, 8, 16 and 32: every branch of the arithmetic of the bitmaps, and nine
messages, one more than fill it. Delivery has one message more than the cache holds, so one is evicted while it is
in flight. In TallGrass a line is two units and a block three, so that two lines take two blocks and a rewritten file
gives back and takes blocks; with two blocks the disk is full when the other pokemon is created. `Tranquilos` says
that the two NEW arrive while nothing else runs, to keep the states within reach; their retries do not wait. In Team two trainers
are the fewest that exchange, a quantum of 1 preempts every move, and the two pokemons come by different messages. The broker falls and
returns (`Cambios`) under FIFO only, up to twice, at any step; `MaxCatch = 3` bounds the CATCHes, since after one that failed and
one that did not a trainer may try again for ever.

Deadlock is checked in `PartFifoSinCompactar` and `BuddyLru`, where a final state in which every message was
published stutters (`Fin`). In the others the system really stops: once the bounded requests are served nothing
is left to do, or a thread ended with a mutex held.

`SinFallo` and `NadieQuedaEsperando` are about the whole: a process that reads a packet it does not expect exits with failure,
and a state in which nobody has anything to read must be one in which everybody ended.
`CatchTerminaSiNoEspera` has its condition because of a wait that is in the code: the medium-term planner waits for pokemons
with `sem_cola_blocked` taken, and then no CAUGHT reaches its trainer until one appears.

What the violated runs show:

1. `MensajesIdRepetido`. A handshake unlocks the mutex of a publisher that has read `g_msg_counter` and has not
   incremented it. Two messages get one id; the search by id finds the other's partition; when the sizes differ
   the subscription's thread ends with both mutexes locked, and the broker with it. `SuRespuesta`, `LlegaLoPublicado`
   and `NadieQuedaEsperando` are stated for behaviours whose ids are unique.
2. `TeamReadyOlvidado`. The branch of `planificadorMedianoPlazo` for any other blocked trainer, taken
   after the first movement and before the short-term planner's next choice (`esLAPrimeraVez` is 1), signals the
   medium-term planner instead. A trainer stays in READY
   with both planners waiting and no other thread at work.
3. `GamecardDosNuevos`. Two NEW of one pokemon with no file both create it. The last metadata wins; the
   quantity of the other is lost though it is answered, and its block stays taken.

Other behaviours of the models, with other constants or actions, that no run is devoted to:

- Partitions, LRU with no compaction: a turn whose victim is a free partition restarts at an index that again finds
  free ones; the loop reaches its limit (500 in the code) without evicting, and the thread ends with
  `g_mutex_msjs` held (`broker_oper.c:287`). With `FRECUENCIA_COMPACTACION=0` evictions do not restart the
  counter of turns, so a message that needs more of them than the limit does the same (`Abandonar` fires in
  `PartLruCompacta`).
- Partitions, FIFO with no compaction: the index of the next victim is `cont_consolidar` (`broker_oper.c:298`), no
  position in the order of age, so a younger message may be evicted first. No property claims an order of eviction;
  `DesalojoNecesario` says when there is one at all.
- `BrokerBuddy` with a memory that is no multiple of the largest block (24 bytes in blocks of 4, 8 and 16): the bit of
  a block past the end is set and counted and not always given back; `CuentasExactas` and `SeGuarda` fail. The shipped
  configuration has 64 bytes, a power of two.
- `BrokerDelivery` with two publishers: ids repeat, as in the first violated run. With `AltasAntes = FALSE` and
  `EsperaSoloSiRecibioTodo`: a message enqueued between the count of the unsent messages and the addition of the
  record (`broker_utils.c:363`) wakes nobody until the next one. With a subscriber whose id is that of a message:
  the acknowledgement of COLA_VACIA carries `id_suscriptor` (`suscripcion.c:94`) and marks it. A FIN_SUSCRIPCION
  handled before its alta follows NULL (`broker_utils.c:417`).
- `GameCardSuscripcion`: a queue whose thread ended stays unsubscribed for as long as another one is up, since
  that one has set the flag (`suscripcion.c:42`). `SiempreVuelveUna` is about all of them being lost.
- `Team` with CATCH of other Teams (`Ajenos` not empty): `sem_esperar_caught` is posted for every CAUGHT
  (`utilsTeam.c:494`), a trainer wakes with its answer yet to come, and `ReservaDeSuEntrenador` fails.
- `Team` when one CATCH fails and another is accepted (`Mezcla`). The thread of the failed one frees `mutex_idCorrelativos`, which it never
  took, so the next CATCH's answer may be looked for before its id is listed, and discarded: without its condition `FalloConexion`
  TLC finds `RespuestaReconocida` violated in a behaviour of 49 states. And the search of the trainer takes the last of the list
  (`utilsTeam.c:384`), which may be the failed CATCH's, added late: its reservation is not there and the NULL is followed, so
  `SinPunteroNulo` without `Mezcla` is violated in 53 states. A trainer that waits at `entrenador.c:259` because `rta_catch` keeps the id
  of an earlier CATCH waits for ever: `CatchTerminaSiNoEspera` leaves it out by `EsperaEnVano`, which has one disjunct for each
  reason for which no answer will come.
- `Team` with three trainers that want onix, pikachu and onix, when two pikachu appear before any is caught, and an onix:
  `cantidadEnReservados` compares names as pointers and counts none, both pikachu are caught, and after the
  first exchange the third trainer is in DEADLOCK with a pikachu nobody wants. It goes for an exchange, finds nobody and
  `SinPunteroNulo` fails.

## 4. Fairness

- `BrokerPartitions`: weak fairness of the thread that stores a message; it holds the mutex and waits for nobody.
- `BrokerDelivery`: weak fairness of each publisher's thread, of each subscription thread and of the reception of
  each connected process. It is enough for the waits on `g_mutex_msjs` because publications are bounded and every
  holder releases it; requests, subscriptions and disconnections are never assumed.
- `GameCardOperaciones`: weak fairness of each message's thread and of the dispatcher, which wakes at
  intervals. No message has to arrive.
- `GameCardSuscripcion`: weak fairness of each thread, and of the return of a broker that is down: `SiempreVuelveUna` is about a
  broker that comes back. Messages, signals, falls and GameBoy connections are never assumed, and
  are bounded together by `MaxEventos`.
- `Team`: weak fairness of the threads taken together, of the broker's answers included: some thread that can go on does.
  Nothing is assumed of each one, nor of messages.

Every one is the scheduling of POSIX threads; a mutex is never assumed to be given to whoever waits for it.

## 5. Proofs

| theorem | module | states |
|---|---|---|
| `Tipos`, `MemoriaEnMosaico`, `MensajesIntactos`, `ColasConCache`, `EspacioSiempreExacto`, `Invariante` | `BrokerPartitionsProofs` | `TypeOK`, `Mosaico`, `DatosIntactos`, `ColasYCache`, `EspacioUsado`, `IInv` always hold |
| `ColasConBuddys` | `BrokerBuddyProofs` | `ColasYCache` always holds |
| `NuncaSeSolapan`, `BitmapsSiempreExactos`, `CuentasSiempreExactas`, `SiempreSeGuarda`, `TiposBuddy`, `InvarianteMemoria` | `BrokerBuddyProofs` | in a memory that is a multiple of the largest block, `SinSolapar`, `BitmapsExactos`, `CuentasExactas`, `SeGuarda`, `TypeOK`, `MemInv` always hold |
| `Tipos`, `OrdenDeEntrega`, `MarcasRecibidas` | `BrokerDeliveryProofs` | `TypeOK` always holds; with one publisher at a time, `EntregaEnOrden`; if besides no subscriber's number is an id, `MarcadoEsRecibido` |
| `NingunAvisoPerdido` | `BrokerDeliveryProofs` | with one publisher at a time, and each process subscribed once, before anything is published, `EsperaSoloSiRecibioTodo` always holds |
| `UnSoloDeudor`, `CuentaDeMensajes` | `GameCardSuscripcionProofs` | `EnvioDeUno`, `CuentaExacta` always hold |
| `UnArchivoPorVez`, `ReintentoDeQuienTermino` | `GameCardOperacionesProofs` | `UnoPorVez`, `Reintentos` always hold |
| `TiposTallGrass` | `GameCardOperacionesProofs` | `TypeOK` always holds |
| `AbiertoSiempreQueSeUsa`, `BitmapSiempreExacto`, `ArchivosSiempreEnteros` | `GameCardOperacionesProofs` | when no two NEW create one file: `AbiertoMientrasSeUsa`, `BitmapExacto`, `Guardados` always hold |
| `SiempreAtomico` | `GameCardOperacionesProofs` | when no two NEW create one file, `GameCardOperaciones` implements `PokemonAbstracto` |
| `Invariante`, `UnSoloLugar`, `SalenCompletos`, `CadaUnoSuReserva`, `ReservaSiempreHallada` | `TeamProofs` | with no other Team's CATCH, and until one CATCH fails and another does not: `IInv`, `EntrenadorEnUnLugar`, `SaleCompleto`, `ReservaDeSuEntrenador` hold, and no search of a reservation finds nothing |
| `Tipos`, `AtrapadosSiempreExactos` | `TeamProofs` | the same for `TypeOK` and `AtrapadosExactos` |
| `SiempreSuRespuesta` | `TeamProofs` | `RespuestaReconocida` always holds, which speaks of the time before any CATCH fails |
| `SoloCaeSiSobra` | `TeamProofs` | with no other Team's CATCH, `SinPunteroNulo` holds for as long as the Team has caught no more of any species than it wants |
| `SoloCaeAlBuscar` | `TeamProofs` | with no other Team's CATCH, and until one CATCH fails and another does not, the only step that follows an invalid pointer is that of a trainer that goes for an exchange with nobody to exchange with |

All of them hold for every value of the constants that the modules' assumptions allow, with the hypothesis the table
names where there is one; each hypothesis is a condition without which the property fails, as told below. Each proof is of an
inductive invariant: the initial states satisfy it, every action keeps it, one lemma for each action or group of
actions that touch the same variables, and the property follows.

### BrokerPartitionsProofs

`BrokerPartitionsProofs` proves, for every memory size, minimum, algorithm, frequency, limit, set of
queues and of sizes allowed by `ConfigAssumption` and `ColasAssumption`,
the types, the tiling, the data and the queues.

None of the four is inductive. `IInv` adds to them:

- `Geometria`: each partition is an interval of the memory that holds its data, partitions are disjoint
  and none shares its `dir_base`; one of size zero, which a compaction of a full cache makes, starts at the
  end of the memory and is free.
- `IdsPropios`: an occupied partition has an id of its own, which no free one remembers, and every id of the
  table is below `g_msg_counter`: this is what makes the search by id find the right partition.
- `Arrastre`: during a compaction's sweep (`pc = "deslizar"`) the table does not cover the memory. Then every
  partition is occupied, and those that start below `barrido` also end below it and leave no gap there; a
  move downwards therefore reads bytes nobody has overwritten, and the free partition made at the end starts
  where the last occupied one ends.
- while a message is being stored, `msg` is the next message.

`TablaOK` gathers the facts about one table with its memory and queue as an operator of them, so
that each helper has a lemma of its own: `ConsolidarOK` (a merge keeps it), `DesalojarOK`,
`TurnoOK` (one turn), `GuardarOK` (split and copy), `DeslizarOK`, `ReorganizarOK`, `FinCompactarOK`,
`LeerOK`. The theorem `Paso` has one step for each action and cites them. `IInv` was checked by TLC on
the instances of the passing runs before it was proved.

`EspacioSiempreExacto` is proved on top of `IInv`: `UsadoInv` adds that during a sweep `barrido` is the size of what was
already swept, which is what makes the value a compaction gives `used_space` the right one. A merge joins two free
partitions and a slide moves a whole one, so neither changes the sum; a store adds a partition that was not in the table,
since no other has its id. The sums are those of `LemasComunes`: `MapThenSumSet` recurses over the set one chosen element
at a time, so the lemmas first show that there is a function that adds any element first (`HaySuma`), by induction
on the size, and that it is the recursion's only solution (`RecSuma`).

### BrokerBuddyProofs

`ColasConBuddys` has no hypothesis. `Guardados` relates table and queues: as many buddies as messages, no two buddies with one id, each buddy's
message in a queue and each message older than the counter. It needs no fact about positions or bitmaps: a new
buddy has an id nobody has, and the victim leaves with its own message.

The rest is about bitmaps, counts and positions. `MemInv` says that all of them are functions of the table of buddies:
`bitmap_buddy` is `BitsDe(buddy_table)`, the blocks that share a byte with an occupied one, `free_buddys` is what those
bits leave clear, `used_space` the sum of the blocks, and no two occupied blocks share a byte. The rest of the module
is why the loops over the orders keep it:

- `Toca(l, x, o, i)`, by division of indices, is proved to be the same as sharing a byte (`TocaBytes`). `pow2` is a recursive
  function so that the prover has its defining equation (`Pow2OK`, by induction).
- Setting (`PonerBitsOK`): the loop upwards stops at an index 1, with larger blocks still to set. It is harmless because the
  search is first fit: the block 0 of that order shares bytes with a buddy, or the search would have come back with what is
  inside it, so the larger blocks, of index 0, are set already.
- Clearing (`AlcanzaOK`, `SacarBitsOK`): the loop goes up until the neighbour of some order is set. A larger block
  is free exactly when all the neighbours on the way are, since whoever shares bytes with it and not with the block
  that leaves shares bytes with one of those (`HayVecino`).
- `Cuenta`: each loop changes the count of an order by the bits it changes there.

The hypothesis, `MemoriaJusta`, is that `TAMANO_MEMORIA` is a multiple of the largest block. It is needed: with 24 bytes in
blocks of 4, 8 and 16 the bits set past the end are counted, and `CuentasExactas` and `SeGuarda` fail. The shipped
configuration (64 bytes, minimum 4) satisfies it.

### BrokerDeliveryProofs

`Tipado` strengthens `TypeOK` with the values of each thread and channel and with `IdTomado` (a thread about to enqueue
has taken an id). The lemmas on `SelectInSeq` say what the searches by id and by subscriber find.

`OrdenDeEntrega` assumes `UnPublicador`, since with two the ids do repeat (`MensajesIdRepetido`). `Ids` says that the queue is
increasing (`Crecientes`), that a taken id is the counter's (`ElSiguiente`), and that what is queued, received
or in flight is below `Tope`, the first id no message has. `Entregas` adds, for each connection: something is in
flight only while its thread waits for the handshake (`Ocupado`); what was received is older than what is still to be
sent, but for the message whose acknowledgement is on its way (`RecibidoAntes`); a message in flight is newer
than what was received and no message to send is older (`EnVuelo`). Evictions, lost connections and a record shared by two
connections keep it: marks are only added, and only to a message that was received.

`MarcasRecibidas` also assumes `NumerosAltos`: every `id_suscriptor` is above the number of publications. A COLA_VACIA
carries that number and the process acknowledges it (`suscripcion.c:94`), so a message with such an id would be
marked though it was never sent; the configurations of the repository use 10, 11, 20, 25 and 30, which a longer run does reach. The invariant adds
`Acotados` (each id used was a request), `Acuses` (an acknowledgement, in flight or already at its thread, is of
nothing, of a COLA_VACIA or of a message received on some connection) and `Marcas`.

`NingunAvisoPerdido` (`EsperaSoloSiRecibioTodo` always holds) assumes `UnPublicador` and `UnaConexion`: each process
subscribes once, before anything is published. Section 3 tells what happens without the second half. With a reconnection the thread of the
lost connection still waits on the semaphore of the record both share, and takes a signal meant for the new one. With two publishers ids repeat, and an
acknowledgement marks a message that was not sent. The invariant, `Creditos`, compares the semaphore
of a connection with the set of messages still to be sent to its process (`SinEnviar`): where the thread is about to wait the
semaphore is at least their number; between the wait and the answer one of them may be unpaid, the one in its hands; when it goes back to
its loop that one is either marked or, since an eviction may have taken it, no longer in the queue (`Alcanza`).
A publication adds a message and a signal, and a message evicted only leaves a signal to spare (`EncolarCuenta`). `Estreno` and
`Registrado` give that the record counted is the thread's own.

### GameCardSuscripcionProofs

`IInv` is `EnvioDeUno` (`g_mutex_envio` is locked exactly while one thread owes its release, though others locked it),
`LeidoVigente` (the counter a thread has read is still current) and `CuentaExacta`. The third needs the second, and that the
first: the count is read and written in two steps under the mutex.

### GameCardOperacionesProofs

The invariant is built in four layers, each inductive with the ones before it. The first needs no hypothesis.

`Siempre1` gives `UnArchivoPorVez`, `ReintentoDeQuienTermino` and `TiposTallGrass`:

- `IInv`: `UnoPorVez` (`g_mutex_tallgrass` is locked exactly while one thread is between the opening and the closing of a
  file, threads that died of a full disk included), `Reintentos` (a message that waits to be tried again is in the queue
  once and its thread has ended) and `Decididos` (a thread that rewrites has decided its answer, one that creates has not);
- `Respuestas`: what was decided, by where the thread is and what its message asks;
- `Lista`: the list of open files is empty or has the one file open, whose thread put it there;
- `Tipado`: the kinds of values, of the disk and of each thread; a block whose bit is clear has no file, and a
  thread about to store a piece has one.

`Siempre2` adds `Altas` (a thread that creates a file has a NEW of a pokemon that had none, whose metadata is not yet
whole, and a thread that opens or uses a file finds it whole) and `Abiertos`, the OPEN of each file. From here on the hypothesis is `AltaUnica`: of a pokemon that has no file
at the start there is at most one NEW. It is needed: `crear_archivo_pokemon` takes no mutex and truncates
a metadata another creation has written. With two NEW of one pokemon
`CadaMensajeEsAtomico` is violated (`GamecardDosNuevos`), and so is `BitmapExacto`, since the blocks of the first are lost;
with a GET beside them, which opens the file before the second truncates it, `AbiertoMientrasSeUsa` is
too. The messages of `GamecardMensajes` satisfy it.

`Siempre3` gives `BitmapExacto`. `Formas` says which lists of blocks a thread has by where it is. `Repartos` says that
the bits set are dealt out among owners: a file that is not half rewritten has those of its metadata, a thread that rewrites those
it still has to free, any thread, dead or living, those it got and has not yet put in a metadata (`Tomados`); no block appears
twice. Those of the dead are `Perdidos`, disjoint from the rest (`RepartidoEsExacto`). A step sets a bit, clears one, or changes the owner, and there is a lemma for each (`Poner`, `Sacar`,
`Mover`). The cardinality `BitmapExacto` compares is then a bijection's.

`Siempre4` adds `Guardados`: a file nobody rewrites is `EsArchivo` (its blocks, one after another, are the text of a list of
positions without repetitions, and its size is that text's), and what a thread has stored so far is the beginning of
the text it has to store, cut into pieces (`ACuenta`, `Guardan`). A block another thread
writes is none of these, by `Repartos` (`IntactoOK`). On the text: `IdaYVuelta` (what is
read back from a text is what was written), `PartesOK` (the pieces are the text, one after the other), and from them
`LeidoOK` and `EscritoOK`: blocks that hold those pieces are read as those positions. `SumaCuanto` relates a list without repetitions and the count of each position.

`SiempreAtomico` maps the disk to `PokemonAbstracto` through `Contenido`: what the metadata and the blocks add up to, or what
the thread in the middle of a rewrite will leave, and nothing once that thread died with the disk full. `LeerArchivo` is the abstract `Nuevo`, `Atrapar`,
`NoAtrapar` or `Consultar`, since it is where the answer is decided (`DecisionOK`); the creation of a file acts at
`GrabarMetadata`; `Enviar` is `Responder`, or nothing when the broker is gone; `SinBloques` of a thread that rewrites is `Fallar` (`FallidasMas`), after which
`UnoPorVez` keeps every other message of that pokemon from being decided; every other step leaves the mapped
state alone (`MudoOK`), freeing the old blocks and writing the new ones included. TLC checked each layer
on the instance of `GamecardMensajes` before it was proved.

### TeamPasos and TeamProofs

`TeamPasos` has first the lemmas about the operators of the lists: filtering and ordering the queues keeps their elements and
repeats none, the nearest trainer is found where there is one, and `agregarPokemon`, `quitarPokemon` and
`intercambiarNormalPokemon` keep one record for each species. Their recursive functions walk a list from its first
position; that such a function exists is proved by a least counterexample (`Recursion`), and what its steps keep it
keeps to the last (`Conserva`).

Then come the invariant and the steps of the planners and of the trainers' threads; `TeamProofs` has those of the threads that receive
messages and the theorems. The hypothesis of all but `SiempreSuRespuesta` is `SinAjenos`: no CATCH of another Team waits for its answer. It is needed.
Every CAUGHT posts `sem_esperar_caught`, another Team's too (`utilsTeam.c:494`), a trainer goes on before its answer
arrived, and its reservation is then taken away twice or by another.

The broker falls and returns in all of them. Until some CATCH fails each of them has an id and an answer that finds it (`IdsInv`, which
`SiempreSuRespuesta` needs); while all of them fail nobody waits; when one failed and another did not (`Mezcla`, which never ceases, lemma `MezclaQueda`)
the answers are mistaken for others', as section 3 tells, and nothing is claimed: the theorems have the form `[](Mezcla \/ ...)`.
`IInv` is

- `TiposPlan`, `TiposRecep`: the kinds of values;
- `Lugares`: READY, BLOCKED and EXIT repeat nobody and share nobody, and the CPU has whoever is in none;
- `Turnos`: the trainer in the CPU has the turn, runs or has given it back, one of the three; the other threads sleep;
- `Medio`: what the medium-term planner counted before a wait (`mp.cola`, `mp.entrenadores`, `mp.pokemones`) is still
  right, or short, when it uses it;
- `Reservas`: who has a reservation, by state and place, and that it is one;
- `Captura`: where the only CATCH under way is, when the broker has it, from the first lock of `mutex_idCorrelativos` to the reservation's
  end: being sent, waiting for its id, answered, in the hands of a CAUGHT's thread, or applied.

The last three are claimed while the process lives (`vivo`): after following a NULL nothing is owed. TLC checked `IInv`
on the instance of `TeamIntercambio` before it was proved, and found several earlier forms of `Captura` false.
`ReservaSiempreHallada` is what `IInv` says of `SinPunteroNulo`: a process that falls does so for
an empty READY or for a trainer it does not find, never in a search for a reservation.

`AtrapadosSiempreExactos`. The pokemons of a species caught by the Team are the sum of those its trainers have, a sum along the
trainers written by its partial sums (`EsSuma`, `Suman`). `CuentasInv` is `ListasOK`, `ObjetivosOK`, `SumasOK` and `Parejo`: a
trainer in DEADLOCK, or on its way to an exchange, has as many pokemons as it wants. Why it is needed: after receiving what it lacked
the trainer gives what it has in excess (`UltimoSobrante`), and were there nothing in excess the code
would give a species whose name was never set (`entrenador.c:727`). With as many as it wants and one more, some species is in excess
(`HaySobrante`, from the pigeonhole lemma `Palomar`), so `IntercambioConserva`: for each species, both have together what they
had.

`SoloCaeSiSobra` and `SoloCaeAlBuscar`. The Team falls (`vivo` is false) when the short-term planner takes a signal and READY is empty,
when the medium-term planner detects a deadlock and finds no trainer to send, and when a trainer finds no reservation, nobody to
exchange with, or nobody where it arrived. `Reservas` excludes the reservation; `EnPie` excludes all the others but one, and says of
that one that the Team had an excess (`Sobra`). It has

- `Senales`: READY has a trainer for each signal given (`sem.cplazoReady`) or owed (`PorAvisar`). `esLAPrimeraVez` has a phase of its
  own for each value: 2 until a trainer first moves, when the medium-term planner has had one turn at most (`AlPrincipio`); 1
  from then to the short-term planner's next choice (`ElPrimero`), when the trainer that moved goes back to READY with no signal of its
  own and a turn that assigns pokemons signals once more than it sent; 0 afterwards.
- `Solos`: the medium-term planner sends a trainer to an exchange when all are in EXIT, or in BLOCKED in DEADLOCK, not all
  of them in EXIT; until that trainer is done no other goes.
- `Encuentros`: who walks to an exchange walks towards a trainer in DEADLOCK that has what it lacks and has to spare what it gives, as
  many steps as the distance is; nobody can take that trainer away before, by `Solos`, so it is there at the arrival.

That there is such a trainer to walk to (`HayCandidato`) is a double count. Of a species that trainer *e* lacks, the Team wants
more than *e* and those in EXIT hold; were nobody in BLOCKED to have it to spare, the others, who hold together as many pokemons as they
want, would have of some species more than all of them want (`Conteo`, on `Cuadran`: sums along the trainers
and the species in both orders), and with the sums of `CuentasInv` the Team would have caught more of it
than it wants. The hypothesis is needed, as section 3 tells.

### Only model-checked

`DesalojoNecesario`, everything in `Mensajes`, of the Team
`SinPunteroNulo` only when more pokemons are caught than wanted (in the run's instance that never
happens), and the liveness properties (`SeGuarda` of the partitions, `SeEntrega`, `FinTermina`,
`SeEnvia`, `SiempreVuelveUna`, `SeTermina`, `CatchTerminaSiNoEspera`), which the prover does not reach.

## 6. What is not modelled

- In delivery: reuse by a new client of a descriptor that was closed while the old thread still has it
  (`broker_utils.c:218`); the torn walk of a list under a concurrent append (`broker_oper.c:844`);
  `rcv_codigo_operacion` on a closed connection returns an uninitialized variable
  (`delibird/delibird/mensajeria.c:538`), and only the outcome in which it is no valid operation is taken;
  `recibido_por_todos`, which nothing reads.
- A record freed while another thread uses it (`broker_utils.c:501`): that thread stops, in the model.
- Evictions and lost connections in `Mensajes`, partial reads and writes on a socket.
- A crash of the GameCard: at the next start the code repairs nothing, it reads the bitmap and the metadata as they
  are (`tall_grass.c:766`), so the disk is what the interrupted step of `GameCardOperaciones` left.
- The heap: buffers shorter than what is copied into them (`suscripcion.c:197`), memory freed twice or never.
- The subscription threads of the Team, the same scheme as the GameCard's: of its reconnection there is only that a broker
  that returned is found by the next CATCH, and that messages arrive.
- `team2`, an earlier copy of `team` whose medium-term planner chooses trainers differently.
- Start-up, configuration, logs, the dump of the cache on a signal, `testServer`, tests and scripts: reading, formatting and
  printing. The handlers of signals of the broker take the cache mutex (`broker_utils.c:1190`); any
  thread may run them at any instruction.

## 7. Plan

What would come next, in this order:

1. The invariants of `Mensajes`: that what is in each stream of bytes is a whole packet, or the rest of one, of the reader's state.
2. `CacheAbstracta`, a map from ids to sizes with a capacity; `BrokerPartitions` and `BrokerBuddy` as implementations.
3. The subscriptions of the Team over `BrokerDelivery`, and a Team and a GameCard joined by the broker: a CATCH, its
   CAUGHT, and a GET answered once for each species.
