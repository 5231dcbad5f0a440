SPECIFICATION VersionsSpec
CONSTANTS
  Ports = {secure}
  SecurePort = secure
  Remotes = {r1, r2}
  Conns = {c1, c2}
  NoConn = NoConn
  Pids = {p1}
  NoPid = NoPid
  MAX_PARTICIPANTS_PER_GATHERING = 2
  MaxGatherings = 1
  SlotChoices = {1}
  MaxTxn = 2
  DbFaults = TRUE
SYMMETRY Symmetry
VIEW WithoutOut
INVARIANTS
  TimersMatchHandles
PROPERTIES
  ReportsNotDropped
  ReportersAdvance
