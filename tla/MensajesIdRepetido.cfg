SPECIFICATION Spec
CONSTANTS
  Publicadores <- LosPublicadores
  Escenarios <- TodosLosCasos
  tamano_memoria = 64
  tamano_minimo_particion = 32
  coord_x_max = 5
  coord_y_max = 5
  cant_max_pokemon = 9
  time_suscrip_max = 60
  id_mensaje_unico = 50
  id_suscriptor = 11
CHECK_DEADLOCK FALSE
INVARIANT SinParticionInvalida
