SPECIFICATION Spec
CONSTANTS
  TamanoMemoria = 10
  TamanoMinimo = 2
  AlgoritmoParticionLibre = "BF"
  AlgoritmoReemplazo = "LRU"
  FrecuenciaCompactacion = 0
  LimiteConsolidar = 3
  Colas = {"NEW", "GET"}
  Tamanos = {1, 3, 7, 9}
  MaxMensajes = 6
  MaxLecturas = 1
INVARIANT DatosIntactos
INVARIANT ColasYCache
CHECK_DEADLOCK FALSE
