---------------------------- MODULE TeamEntrenador ----------------------------
(***************************************************************************)
(* A trainer of the Team: what it has, what it wants, how it moves and how *)
(* two trainers exchange pokemons.  Pure operators, with no state.         *)
(*                                                                         *)
(* A list of pokemons has one record per species, as list_buscar and       *)
(* agregarPokemon keep it.                                                 *)
(***************************************************************************)
EXTENDS Integers, Sequences, FiniteSets

CONSTANTS
    Especies,            \* the names of pokemons
    Escala,              \* estimations are kept in parts of 1/Escala
    ALPHA                \* the ALPHA of the config, in parts of 1/Escala

ASSUME EntrenadorAssumption ==
    /\ Escala \in Nat \ {0}
    /\ ALPHA \in 0..Escala

\* The elements of a finite set, as a total order on it, given by its pairs, sorts them.
Ordenados(S, orden) ==
    [k \in 1 .. Cardinality(S) |->
        CHOOSE i \in S : Cardinality({j \in S : <<j, i>> \in orden}) = k]

\* What a list has at some positions, in its order.
EnPosiciones(lista, I) ==
    LET orden == Ordenados(I, {r \in I \X I : r[1] <= r[2]})
    IN [k \in 1 .. Cardinality(I) |-> lista[orden[k]]]

\* A list with no element i.
SinPosicion(lista, i) == SubSeq(lista, 1, i - 1) \o SubSeq(lista, i + 1, Len(lista))

\* The least of a set of positions.
Primera(I) == CHOOSE i \in I : \A j \in I : i <= j

Especie(p, n) == [pokemon |-> p, cantidad |-> n]

\* The record of a species, given as its count: 0 when it is not there.
list_buscar(lista, p) ==
    LET hay == {i \in DOMAIN lista : lista[i].pokemon = p}
    IN IF hay = {} THEN 0 ELSE lista[CHOOSE i \in hay : TRUE].cantidad

cantidadDePokemonesEnLista(lista) ==
    LET hasta[i \in 0..Len(lista)] ==
            IF i = 0 THEN 0 ELSE hasta[i - 1] + lista[i].cantidad
    IN hasta[Len(lista)]

Sumar(lista, p, n) ==
    [i \in DOMAIN lista |->
        IF lista[i].pokemon = p THEN [lista[i] EXCEPT !.cantidad = @ + n] ELSE lista[i]]

agregarPokemon(lista, p) ==
    IF list_buscar(lista, p) > 0 THEN Sumar(lista, p, 1) ELSE Append(lista, Especie(p, 1))

\* Mutant: the last one of a species is not removed.
quitarSalvoElUltimo(lista, p) ==
    IF list_buscar(lista, p) > 1 THEN Sumar(lista, p, -1) ELSE lista

quitarPokemon(lista, p) ==
    IF list_buscar(lista, p) = 0 THEN lista
    ELSE IF list_buscar(lista, p) > 1 THEN Sumar(lista, p, -1)
    ELSE LET i == CHOOSE i \in DOMAIN lista : lista[i].pokemon = p IN SinPosicion(lista, i)

\* Every species a trainer has is in the list: one it has in no more than the
\* number it wants is taken like one it does not want.
pokemonesInnecesarios(obtenidos, objetivo) ==
    [i \in DOMAIN obtenidos |->
        LET o == obtenidos[i]
            quiere == list_buscar(objetivo, o.pokemon)
        IN IF quiere > 0 /\ o.cantidad > quiere
           THEN Especie(o.pokemon, o.cantidad - quiere) ELSE o]

\* Where in the objective the species are of which some lack still.
pokemonesPendientes(obtenidos, objetivo) ==
    {i \in DOMAIN objetivo : objetivo[i].cantidad > list_buscar(obtenidos, objetivo[i].pokemon)}

\* Where what the second trainer can give that the first one lacks is.
LeSirven(e1, e2) ==
    LET sobran == pokemonesInnecesarios(e2.obtenidos, e2.objetivo)
        pendientes == pokemonesPendientes(e1.obtenidos, e1.objetivo)
    IN {i \in DOMAIN sobran : \E j \in pendientes : e1.objetivo[j].pokemon = sobran[i].pokemon}

puedoIntercambiar(e1, e2) == LeSirven(e1, e2) # {}

\* The last species of which a trainer has more than it wants.
Sobrantes(obtenidos, objetivo) ==
    {i \in DOMAIN obtenidos : obtenidos[i].cantidad > list_buscar(objetivo, obtenidos[i].pokemon)}

UltimoSobrante(obtenidos, objetivo) ==
    obtenidos[CHOOSE i \in Sobrantes(obtenidos, objetivo) :
                 \A j \in Sobrantes(obtenidos, objetivo) : j <= i].pokemon

\* The first trainer takes one of each species that suits it, and gives the
\* last one of those it has left over.
intercambiarNormalPokemon(e1, e2) ==
    LET suyos == e2.obtenidos
        da == LeSirven(e1, e2)
        recibe[i \in 0 .. Len(suyos)] ==
            IF i = 0 THEN e1.obtenidos
            ELSE IF i \in da THEN agregarPokemon(recibe[i - 1], suyos[i].pokemon) ELSE recibe[i - 1]
        entrega[i \in 0 .. Len(suyos)] ==
            IF i = 0 THEN suyos
            ELSE IF i \in da THEN quitarPokemon(entrega[i - 1], suyos[i].pokemon) ELSE entrega[i - 1]
        tiene == recibe[Len(suyos)]
        sobra == UltimoSobrante(tiene, e1.objetivo)
    IN [uno |-> quitarPokemon(tiene, sobra),
        otro |-> agregarPokemon(entrega[Len(suyos)], sobra)]

tieneDeadlockEntrenador(e) ==
    \E i \in DOMAIN e.objetivo :
        list_buscar(e.obtenidos, e.objetivo[i].pokemon) # e.objetivo[i].cantidad

\* Mutant: a trainer with as many as it wants has ended.
SalePorCantidad(e) ==
    IF cantidadDePokemonesEnLista(e.objetivo) = cantidadDePokemonesEnLista(e.obtenidos)
    THEN "EXIT" ELSE "MOVERSE_A_POKEMON"

\* The state of a trainer that ended an exchange or caught a pokemon.
verificarYCambiarEstadoEntrenador(e) ==
    IF pokemonesPendientes(e.obtenidos, e.objetivo) = {} THEN "EXIT"
    ELSE IF /\ cantidadDePokemonesEnLista(e.objetivo) = cantidadDePokemonesEnLista(e.obtenidos)
            /\ tieneDeadlockEntrenador(e)
         THEN "DEADLOCK"
    ELSE "MOVERSE_A_POKEMON"

Modulo(n) == IF n < 0 THEN -n ELSE n

calcularDistancia(a, b) == Modulo(a[1] - b[1]) + Modulo(a[2] - b[2])

HaciaUno(x, y) == IF x > y THEN x - 1 ELSE IF x < y THEN x + 1 ELSE x

\* One cycle of CPU: along x first, then along y.
moverEntrenador(a, b) ==
    IF a[1] # b[1] THEN <<HaciaUno(a[1], b[1]), a[2]>> ELSE <<a[1], HaciaUno(a[2], b[2])>>

\* The next estimation of SJF, from what the trainer executed.
Estimacion(e) == (ALPHA * e.instruccion * Escala + (Escala - ALPHA) * e.real) \div Escala

NombresUnicos(lista) ==
    \A i, j \in DOMAIN lista : lista[i].pokemon = lista[j].pokemon => i = j
=============================================================================
