SPECIFICATION Spec
CONSTANTS
  Owners = {o1}
  LogicRefs = {l1}
  LabelRefs = {t1}
  Quantities = {1}
  Seeds = {s1, s2}
  NoSeed = NoSeed
  MaxConsumed = 2
  MaxCreated = 2
  MaxBuilt = 3
SYMMETRY Symmetry
INVARIANT OnlyAcceptedNullify
