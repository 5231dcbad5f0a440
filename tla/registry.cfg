SPECIFICATION Spec
CONSTANTS
  Ports = {auth, secure}
  SecurePort = secure
  Remotes = {r1, r2}
  Conns = {c1, c2}
  NoConn = NoConn
  Pids = {p1}
  NoPid = NoPid
  MAX_PARTICIPANTS_PER_GATHERING = 2
  MaxGatherings = 2
  SlotChoices = {1}
  MaxTxn = 0
  DbFaults = FALSE
SYMMETRY Symmetry
INVARIANTS
  TypeOK
  OwnerIndexExact
  NoOrphans
PROPERTIES
  ImplementsDirectory
