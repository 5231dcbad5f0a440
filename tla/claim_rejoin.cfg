SPECIFICATION Spec
CONSTANTS
  Ports = {secure}
  SecurePort = secure
  Remotes = {r1, r2, r3}
  Conns = {c1, c2, c3}
  NoConn = NoConn
  Pids = {p1, p2}
  NoPid = NoPid
  MAX_PARTICIPANTS_PER_GATHERING = 3
  MaxGatherings = 1
  SlotChoices = {2}
  MaxTxn = 0
  DbFaults = FALSE
SYMMETRY Symmetry
PROPERTIES
  RejoinedKept
