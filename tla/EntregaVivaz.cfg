SPECIFICATION FairSpec
CONSTANTS
  Publicadores = {p1}
  Suscriptores = {20, 30}
  MaxConexiones = 1
  MaxMensajes = 2
  MaxFines = 1
  Capacidad = 2
  AltasAntes = TRUE
INVARIANT EsperaSoloSiRecibioTodo
PROPERTY SeEntrega
PROPERTY FinTermina
CHECK_DEADLOCK FALSE
