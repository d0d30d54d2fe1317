SPECIFICATION Spec
CONSTANTS
  Rsn = {r1, r2}
  Tag = {t1, t2}
  Nothing = Nothing
  RingSizes = {2, 4}
  IndexMod = 8
  Ne = 2
INVARIANTS
  TypeOK
  ResizeCompletes
PROPERTY
  IsFifo
