SPECIFICATION PeersSpec
CONSTANTS
  Ports = {secure}
  SecurePort = secure
  Remotes = {r1, r2}
  Conns = {c1, c2, c3}
  NoConn = NoConn
  Pids = {p1, p2}
  NoPid = NoPid
  MAX_PARTICIPANTS_PER_GATHERING = 3
  MaxGatherings = 1
  SlotChoices = {2}
  MaxTxn = 0
  DbFaults = FALSE
SYMMETRY Symmetry
INVARIANTS
  RostersComplete
  AddressesOwned
  ProbesHaveListener
PROPERTY
  NoSilentLeave
