------------------------ MODULE MCGameCardSuscripcion ------------------------
(* The instances of GameCardSuscripcion that TLC checks: their            *)
(* configurations give the constants.                                     *)
EXTENDS GameCardSuscripcion

DosColas == <<"NEW", "GET">>
TresHilos == {<<"NEW", 1>>, <<"NEW", 2>>, <<"GET", 1>>}

=============================================================================
