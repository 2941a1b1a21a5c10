SPECIFICATION Spec
CONSTANTS
  alice = alice
  bob = bob
  logic = logic
  token = token
  Owners = {alice, bob}
  LogicRefs = {logic}
  LabelRefs = {token}
  Quantities = {1, 3}
  Procs = {p, q, r, s}
  Seeds = {p, q, r, s}
  NoSeed = NoSeed
  MaxConsumed = 2
  MaxCreated = 2
  External = External
  Unknown = Unknown
  Transfers <- SomeTransfers
  MaxConcurrent = 2
SYMMETRY Symmetry
CHECK_DEADLOCK FALSE
INVARIANTS TypeOK RefusedIffNobodyIsPaid TransfersStay UnreadableOnlyByChance
PROPERTY MovesAmount
