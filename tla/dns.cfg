SPECIFICATION FairSpec
CONSTANTS
  MaxQueries = 3
  Txids <- TwoTxids
  Hosts = {game, web}
  HijackHosts = {game}
  DNS_HIJACK_ALL = FALSE
INVARIANTS
  SlotsLive
  NewestHasSlot
  LoneQueryKeepsSlot
PROPERTIES
  EveryQueryReplied
CHECK_DEADLOCK FALSE
