SPECIFICATION ObjectsSpec
CONSTANTS
  Users = {t, u}
  Objs = {a, b}
  Names = {m, n}
  nil = nil
  AnyNode = TRUE
PROPERTIES
  WalkEnds
