SPECIFICATION Spec
CONSTANTS
  Procs = {p, q}
  Aliases = {a}
  Items = {"spending_key", "signing_key"}
  MayCrash = FALSE
  None = None
PROPERTY RemovalSynchronized
