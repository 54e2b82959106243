SPECIFICATION Spec
CONSTANTS
  Generated = {k1, k2, k3}
  Guests = {g1}
  FirstKey = k1
  NoKey = NoKey
  Archives = {a1}
  Requests = {r1}
  Restore = restore
  MaxSlots = 1
INVARIANTS TypeOK DiskKeyHeld ArchivesOpen
CONSTRAINT UntilApart
SYMMETRY NewKeys
CHECK_DEADLOCK FALSE
