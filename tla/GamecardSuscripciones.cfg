SPECIFICATION FairSpec
CONSTANTS
  Cola <- DosColas
  Hilos <- TresHilos
  Envios = {"e1"}
  MaxEventos = 3
INVARIANT CuentaExacta
PROPERTY SeEnvia
PROPERTY SiempreVuelveUna
CHECK_DEADLOCK FALSE
