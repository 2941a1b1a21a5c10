SPECIFICATION Spec
CONSTANTS
  o1 = o1
  l1 = l1
  t1 = t1
  t2 = t2
  Owners = {o1}
  LogicRefs = {l1}
  LabelRefs = {t1, t2}
  Quantities = {1, 3}
  Seeds = {s1, s2}
  NoSeed = NoSeed
  MaxConsumed = 2
  MaxCreated = 2
  MaxMagnitude = 3
  PoolNotes <- Notes
  TreeDepth = 3
SYMMETRY Symmetry
CHECK_DEADLOCK FALSE
INVARIANTS
  TypeOK
  DeltaExact
  TokensBackNotes
  EveryTagInActionTree
  PathsOpen
  MergeRebuilds
PROPERTY
  KeepsContract
