SPECIFICATION Spec
CONSTANTS
  MigrationCount = 2
  ScriptLength = 2
  MaxCrashes = 1
  Names = {ann, bob}
  NoName = NoName
  InstantModes <- OneMode
  MaxAccounts = 2
  MaxCash = 2
  ReadFaults = TRUE
  AROUNDSELF_LEAD = 1
  AROUNDSELF_TRAIL = 0
PROPERTIES
  NoBackslide
