SPECIFICATION Spec
CONSTANTS
  Pokemones = {"pikachu", "onix"}
  Posiciones = {"a", "b"}
  block_size = 3
  total_blocks = 3
  Largo = 2
  msj <- DosNuevos
  DelBroker = {}
  SinBroker = {}
  Tranquilos = {}
  Existentes <- SinArchivos
PROPERTY CadaMensajeEsAtomico
CHECK_DEADLOCK FALSE
