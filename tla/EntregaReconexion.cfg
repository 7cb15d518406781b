SPECIFICATION Spec
CONSTANTS
  Publicadores = {p1}
  Suscriptores = {20}
  MaxConexiones = 2
  MaxMensajes = 3
  MaxFines = 1
  Capacidad = 2
  AltasAntes = FALSE
INVARIANT TypeOK
INVARIANT EntregaEnOrden
INVARIANT MarcadoEsRecibido
CHECK_DEADLOCK FALSE
