SPECIFICATION FairSpec
CONSTANTS
  TamanoMemoria = 10
  TamanoMinimo = 2
  AlgoritmoParticionLibre = "FF"
  AlgoritmoReemplazo = "FIFO"
  FrecuenciaCompactacion <- NuncaCompactar
  LimiteConsolidar = 10
  Colas = {"NEW"}
  Tamanos = {1, 3, 4, 7, 11}
  MaxMensajes = 6
  MaxLecturas = 0
INVARIANT TypeOK
INVARIANT Mosaico
INVARIANT EspacioUsado
PROPERTY DesalojoNecesario
PROPERTY SeGuarda
