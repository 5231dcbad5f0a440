SPECIFICATION FairSpec
CONSTANTS
  MigrationCount = 2
  ScriptLength = 2
  MaxCrashes = 2
  Names = {ann, bob}
  NoName = NoName
  InstantModes <- OneMode
  MaxAccounts = 2
  MaxCash = 3
  ReadFaults = FALSE
  AROUNDSELF_LEAD = 1
  AROUNDSELF_TRAIL = 0
INVARIANTS
  ServedIsPersisted
  PidsDistinct
  BoardsBehindCareer
  BoardsPaged
  SchemaComplete
  StatementsOnce
PROPERTIES
  NoBackslide
  ImplementsService
  BackUpUnlessTorn
