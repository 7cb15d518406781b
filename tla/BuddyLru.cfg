SPECIFICATION Spec
CONSTANTS
  TamanoMemoria = 32
  TamanoMinimo = 4
  MaxBitarrays = 4
  AlgoritmoReemplazo = "LRU"
  Colas = {"NEW"}
  Tamanos = {3, 5, 9, 17, 33}
  MaxMensajes = 9
  MaxLecturas = 1
INVARIANT TypeOK
INVARIANT SinSolapar
INVARIANT BitmapsExactos
INVARIANT CuentasExactas
INVARIANT ColasYCache
INVARIANT SeGuarda
