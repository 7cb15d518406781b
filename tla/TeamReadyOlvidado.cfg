SPECIFICATION Spec
CONSTANTS
  Especies = {"pikachu", "onix"}
  Escala = 16
  ALPHA = 8
  cantidadDeEntrenadores = 2
  Objetivos <- Cruzados
  Obtenidos <- SinPokemones
  Posiciones <- DosLugares
  Algoritmos = {"FIFO", "RR", "SJF-SD", "SJF-CD"}
  QUANTUM = 1
  ESTIMACION_INICIAL = 2
  Llegadas <- UnoDeCadaUno
  Brokers = {TRUE, FALSE}
  Resultados = {"OK", "FAIL"}
  Ajenos = {}
  Cambios <- DosCambios
  MaxCatch = 3
  LargoDelError = 75
INVARIANT SinReadyOlvidado
CHECK_DEADLOCK FALSE
