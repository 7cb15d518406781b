SPECIFICATION FairSpec
CONSTANTS
  Pokemones = {"pikachu", "onix"}
  Posiciones = {"a", "b"}
  block_size = 3
  total_blocks = 2
  Largo = 2
  msj <- Mensajes
  DelBroker = {"n3"}
  SinBroker = {"n2"}
  Tranquilos = {"n1", "n2"}
  Existentes <- ConPikachu
INVARIANT TypeOK
INVARIANT BitmapExacto
INVARIANT AbiertoMientrasSeUsa
PROPERTY CadaMensajeEsAtomico
PROPERTY SeTermina
CHECK_DEADLOCK FALSE
