------------------------------ MODULE MCMensajes ------------------------------
(* Instances of Mensajes for TLC.                                          *)
EXTENDS Mensajes

\* The words of a command line.
Num(v) == [texto |-> "num", valor |-> v, letras |-> <<>>]
Pal(t) == [texto |-> t, valor |-> 0, letras |-> <<>>]
Nom(ls) == [texto |-> "nombre", valor |-> 0,
            letras |-> [i \in 1 .. Len(ls) + 1 |-> <<IF i <= Len(ls) THEN ls[i] ELSE 0, 0>>]]

Linea(proceso, tipo, as) == [proceso |-> proceso, tipo |-> tipo, argumentos |-> as]

Localized(id, ps, ls) ==
    [proceso |-> "GAMECARD_CLIENTE", tipo |-> "LOCALIZED_POKEMON", id_correlativo |-> id,
     posiciones |-> ps, pokemon |-> Nom(ls).letras]

Pos(x, y) == [pos_x |-> x, pos_y |-> y]

NumNeg == Num(-1)

Pika == <<7, 8, 9>>
Uno  == <<5>>

\* Accepted lines and messages, by queue.
Buenas ==
    {Linea("BROKER", "NEW_POKEMON", <<Nom(Pika), Num(1), Num(2), Num(3)>>),
     Linea("BROKER", "APPEARED_POKEMON", <<Nom(Pika), Num(1), Num(2), Num(30)>>),
     Linea("BROKER", "CATCH_POKEMON", <<Nom(Pika), Num(4), Num(2)>>),
     Linea("BROKER", "CAUGHT_POKEMON", <<Num(31), Pal("OK")>>),
     Linea("BROKER", "GET_POKEMON", <<Nom(Pika)>>),
     Localized(32, <<Pos(1, 2), Pos(4, 3)>>, Pika)}

\* The other publisher: another message of the same queue.
Otra(o) ==
    CASE o.tipo = "NEW_POKEMON" -> Linea("BROKER", o.tipo, <<Nom(Uno), Num(0), Num(4), Num(1)>>)
      [] o.tipo = "APPEARED_POKEMON" ->
            Linea("BROKER", o.tipo, <<Nom(Uno), Num(0), Num(4), Num(33)>>)
      [] o.tipo = "CATCH_POKEMON" -> Linea("BROKER", o.tipo, <<Nom(Uno), Num(0), Num(4)>>)
      [] o.tipo = "CAUGHT_POKEMON" -> Linea("BROKER", o.tipo, <<Num(34), Pal("FAIL")>>)
      [] o.tipo = "GET_POKEMON" -> Linea("BROKER", o.tipo, <<Nom(Uno)>>)
      [] o.tipo = "LOCALIZED_POKEMON" -> Localized(35, <<>>, Uno)

\* Lines that are refused, that hand a NULL to atoi, that do not fit the cache, or
\* that go to GameCard and Team.
Demas ==
    <<Linea("UNKNOWN_PROC", "GET_POKEMON", <<Nom(Pika)>>),
     Linea("BROKER", "NULL", <<>>),
     Linea("BROKER", "UNKNOWN_QUEUE", <<Nom(Pika)>>),
     Linea("BROKER", "LOCALIZED_POKEMON", <<Nom(Pika), Num(1), Num(2)>>),
     Linea("BROKER", "NEW_POKEMON", <<Nom(Pika)>>),
     Linea("BROKER", "NEW_POKEMON", <<Nom(Pika), Num(9), Num(2), Num(3)>>),
     Linea("BROKER", "NEW_POKEMON", <<Nom(Pika), Num(1), Num(2)>>),
     Linea("BROKER", "NEW_POKEMON", <<Nom(Pika), Num(1), NumNeg>>),
     Linea("BROKER", "CAUGHT_POKEMON", <<Num(31), Pal("SI")>>),
     Linea("BROKER", "CATCH_POKEMON", <<Nom(Pika), Num(1)>>),
     Linea("GAMECARD", "GET_POKEMON", <<Nom(Pika), Num(10000)>>),
     Localized(32, [i \in 1 .. 7 |-> Pos(i, i)], Pika),
     Linea("GAMECARD", "NEW_POKEMON", <<Nom(Pika), Num(1), Num(2), Num(3), Num(40)>>),
     Linea("GAMECARD", "CATCH_POKEMON", <<Nom(Pika), Num(1), Num(2), Num(41)>>),
     Linea("GAMECARD", "GET_POKEMON", <<Nom(Pika), Num(42)>>),
     Linea("TEAM", "APPEARED_POKEMON", <<Nom(Pika), Num(1), Num(2)>>)>>

\* Both publishers on the queue of the subscriber; lines of the other kinds, in twos;
\* the subscriber with a time over the limit.
Con(o1, o2, tipo, tiempo) ==
    [orden |-> [p1 |-> o1, p2 |-> o2],
     suscripcion |-> Linea("SUSCRIPTOR", tipo, <<Num(tiempo)>>)]

DosMensajes == {Con(o, Otra(o), o.tipo, 10) : o \in Buenas}

DeADos ==
    {Con(Demas[i], Demas[i + 8], IF i = 1 THEN "UNKNOWN_QUEUE" ELSE "GET_POKEMON",
         IF i = 2 THEN 99 ELSE 10) : i \in 1 .. 8}

TodosLosCasos == DosMensajes \cup DeADos

LosPublicadores == {"p1", "p2"}
=============================================================================
