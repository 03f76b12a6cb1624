SPECIFICATION Spec
CONSTANTS
  Keys = {1, 3}
  MasterKey = 2
  Master = Master
  Values = {a, b}
  None = None
  Written = Written
  Erased = Erased
  Torn = Torn
  WriteOnce = {3}
  Geometries <- AllLayouts
  VersionMod = 2
INVARIANTS
  TypeOK
  Durable
  GetAgrees
  ProgramsErased
PROPERTIES
  ImplementsKVStore
SYMMETRY Symmetry
