SPECIFICATION Spec
CONSTANTS
  Procs = {p, q, r}
  Aliases = {a}
  Items = {"spending_key", "signing_key"}
  MayCrash = TRUE
  None = None
SYMMETRY Symmetry
INVARIANTS TypeOK Coherent StoredStays
