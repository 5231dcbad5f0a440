SPECIFICATION Spec
CONSTANTS
  Ports = {secure}
  SecurePort = secure
  Remotes = {r1, r2}
  Conns = {c1, c2, c3}
  NoConn = NoConn
  Pids = {p1, p2}
  NoPid = NoPid
  MAX_PARTICIPANTS_PER_GATHERING = 2
  MaxGatherings = 1
  SlotChoices = {0, 1, 2}
  MaxTxn = 0
  DbFaults = FALSE
SYMMETRY Symmetry
INVARIANTS
  LobbyCapacity
  UniquePids
  NoOrphans
  QuickMatchJoinable
