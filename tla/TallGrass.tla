------------------------------- MODULE TallGrass -------------------------------
(***************************************************************************)
(* The TallGrass file system of the GameCard: a bitmap of blocks, the      *)
(* blocks, and one Metadata.bin for each pokemon that names its size, its  *)
(* blocks and whether it is open.                                          *)
(*                                                                         *)
(* The text of a file is a line "X-Y=C" for each position.  A line is      *)
(* Largo units long; a unit stands for a few bytes of it, so that a line   *)
(* can be split between two blocks.  The files are those of the commons    *)
(* library: config_create, config_set_value and config_save together are   *)
(* one step.                                                               *)
(***************************************************************************)
EXTENDS Integers, SequencesExt

CONSTANTS
    Pokemones,
    Posiciones,
    block_size,       \* units in a block
    total_blocks,
    Largo,            \* units in the line of a position
    Existentes        \* scenario: pokemon that have a file at the start, in the
                      \* order they were created

ASSUME TallGrassAssumption ==
    /\ Posiciones # {}
    /\ block_size \in Nat \ {0}
    /\ total_blocks \in Nat \ {0}
    /\ Largo \in 1 .. block_size
    /\ Existentes \in Seq(Pokemones) /\ IsInjective(Existentes)
    /\ Len(Existentes) <= total_blocks

VARIABLES
    bitmap,               \* the blocks whose bit is set: g_bitmap_bloques
    bloque,               \* contents of each block file, <<>> when there is none
    metadata,             \* Metadata.bin of each pokemon
    g_archivos_abiertos   \* list of open files

disco == <<bitmap, bloque, metadata>>

\* obtener_ultimo_nro_bloque looks from 1 to total_blocks: block 0 is never used.
Bloques == 1 .. total_blocks

Posicion == [pos : Posiciones, cantidad : Nat]

\* A metadata is missing, truncated by fopen and not yet written, or whole.
Metadata == [estado : {"ausente", "vacia", "entera"}, size : Nat,
             blocks : Seq(Bloques), open : {"Y", "N"}]

Ausente == [estado |-> "ausente", size |-> 0, blocks |-> <<>>, open |-> "N"]
Vacia   == [Ausente EXCEPT !.estado = "vacia"]

TypeOKDisco ==
    /\ bitmap \subseteq Bloques
    /\ DOMAIN bloque = Bloques
    /\ metadata \in [Pokemones -> Metadata]
    /\ g_archivos_abiertos \in Seq(Pokemones)

(***************************************************************************)
(* Text                                                                    *)
(***************************************************************************)
serializar_lista_posiciones_pokemon(posiciones) ==
    [n \in 1 .. Largo * Len(posiciones) |->
        [linea |-> posiciones[((n - 1) \div Largo) + 1], unidad |-> ((n - 1) % Largo) + 1]]

obtener_posiciones(texto) ==
    [i \in 1 .. Len(texto) \div Largo |-> texto[(i - 1) * Largo + 1].linea]

\* Blocks a text of this size takes: at least one.
CantidadBloques(size) ==
    IF size < block_size THEN 1 ELSE (size + block_size - 1) \div block_size

\* The units the n-th block of a text of this size holds: the last one, what is left.
UnidadesDe(size, n) ==
    IF size - (n - 1) * block_size < block_size THEN size - (n - 1) * block_size ELSE block_size

\* The pieces armar_guardar_data_bloques_file_pokemon stores, one block each.
Partes(texto) ==
    [n \in 1 .. CantidadBloques(Len(texto)) |->
        SubSeq(texto, (n - 1) * block_size + 1,
                      (n - 1) * block_size + UnidadesDe(Len(texto), n))]

(***************************************************************************)
(* Blocks                                                                  *)
(***************************************************************************)
HayBloque == \E b \in Bloques : b \notin bitmap

obtener_ultimo_nro_bloque == CHOOSE b \in Bloques \ bitmap : \A c \in Bloques \ bitmap : b <= c

grabar_bloque(nro, parte) ==
    /\ bitmap' = bitmap \cup {nro}
    /\ bloque' = [bloque EXCEPT ![nro] = parte]

\* Mutant: the file of the block is removed and its bit stays.
EliminarSinLiberar(nro) ==
    /\ bloque' = [bloque EXCEPT ![nro] = <<>>]
    /\ UNCHANGED bitmap

\* Mutant: the bit is cleared and the file of the block stays.
EliminarSinBorrar(nro) ==
    /\ bitmap' = bitmap \ {nro}
    /\ UNCHANGED bloque

eliminar_bloque(nro) ==
    /\ bloque' = [bloque EXCEPT ![nro] = <<>>]
    /\ bitmap' = bitmap \ {nro}

(***************************************************************************)
(* Files                                                                   *)
(***************************************************************************)
existe_archivo(p) == metadata[p].estado # "ausente"

get_contenido_bloques(md) ==
    [n \in 1 .. md.size |->
        bloque[md.blocks[((n - 1) \div block_size) + 1]][((n - 1) % block_size) + 1]]

\* The metadata has its keys, and its blocks hold whole lines.  With less,
\* a NULL is dereferenced (a key, a block of the list, a file or a field of
\* a line that is not there) or obtener_posiciones never ends.
Legible(md) ==
    /\ md.estado = "entera"
    /\ md.size > 0 =>
         /\ Len(md.blocks) >= CantidadBloques(md.size)
         /\ \A n \in 1 .. CantidadBloques(md.size) :
              Len(bloque[md.blocks[n]]) >= UnidadesDe(md.size, n)
         /\ get_contenido_bloques(md) =
              serializar_lista_posiciones_pokemon(obtener_posiciones(get_contenido_bloques(md)))

\* The positions abrir_archivo_pokemon loads.
Cargadas(md) == IF md.size = 0 THEN <<>> ELSE obtener_posiciones(get_contenido_bloques(md))

modificar_metadata_pokemon(p, clave, valor) ==
    metadata' = [metadata EXCEPT ![p][clave] = valor]

\* The metadata of a new file, whole at fclose.
grabar_metadata_pokemon(p, blocks, size) ==
    metadata' = [metadata EXCEPT ![p] =
                   [estado |-> "entera", size |-> size, blocks |-> blocks, open |-> "N"]]

quitar_de_lista_archivos_abiertos(p) ==
    g_archivos_abiertos' =
        IF Contains(g_archivos_abiertos, p)
        THEN RemoveAt(g_archivos_abiertos, SelectInSeq(g_archivos_abiertos, LAMBDA q : q = p))
        ELSE g_archivos_abiertos

\* si_no knows "S" and "N": for the "Y" of an open file it returns a variable
\* nobody has set, so either answer may come.
si_no(valor) == IF valor = "N" THEN {FALSE} ELSE BOOLEAN

(***************************************************************************)
(* Positions                                                               *)
(***************************************************************************)
DondeEsta(posiciones, pos) == SelectInSeq(posiciones, LAMBDA q : q.pos = pos)

existe_posicion_en_archivo(posiciones, pos) == DondeEsta(posiciones, pos) # 0

agregar_nueva_posicion_en_archivo(posiciones, pos, cantidad) ==
    Append(posiciones, [pos |-> pos, cantidad |-> cantidad])

\* Mutant: the quantity is replaced.
ReemplazarCantidad(posiciones, pos, cantidad) ==
    [posiciones EXCEPT ![DondeEsta(posiciones, pos)].cantidad = cantidad]

modificar_posicion_en_archivo(posiciones, pos, cantidad) ==
    [posiciones EXCEPT ![DondeEsta(posiciones, pos)].cantidad = @ + cantidad]

actualizar_posiciones_archivo(posiciones, pos, cantidad) ==
    IF existe_posicion_en_archivo(posiciones, pos)
    THEN modificar_posicion_en_archivo(posiciones, pos, cantidad)
    ELSE agregar_nueva_posicion_en_archivo(posiciones, pos, cantidad)

\* One pokemon less; with none left the position goes.
eliminar_posicion_en_archivo(posiciones, pos) ==
    LET i == DondeEsta(posiciones, pos)
    IN  IF posiciones[i].cantidad = 1
        THEN RemoveAt(posiciones, i)
        ELSE [posiciones EXCEPT ![i].cantidad = @ - 1]
(***************************************************************************)
(* The disk at the start: one pokemon at one position in each existing     *)
(* file, of a file system used before.                                     *)
(***************************************************************************)
NumeroDe(p) == SelectInSeq(Existentes, LAMBDA q : q = p)

Primera == [pos |-> CHOOSE q \in Posiciones : TRUE, cantidad |-> 1]

InitDisco ==
    /\ bitmap = DOMAIN Existentes
    /\ bloque = [b \in Bloques |-> IF b \in DOMAIN Existentes
                                   THEN serializar_lista_posiciones_pokemon(<<Primera>>) ELSE <<>>]
    /\ metadata = [p \in Pokemones |->
                     IF NumeroDe(p) = 0 THEN Ausente
                     ELSE [estado |-> "entera", size |-> Largo, blocks |-> <<NumeroDe(p)>>, open |-> "N"]]
    /\ g_archivos_abiertos = <<>>

=============================================================================
