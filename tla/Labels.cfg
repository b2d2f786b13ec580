SPECIFICATION Spec
CONSTANTS
  Keys <- MCKeys
  Values <- MCValues
  EmptyKey = ""
  EmptyValue = ""
  CleanKey <- MCCleanKey
  CleanValue <- MCCleanValue
  EssKeys = {"ess_enabled", "ess_error"}
  EssEnabled = "ess_enabled"
  ManagedKeys = {"managed"}
  Dictionaries <- MCDictionaries
  NoLabels = NoLabels
INVARIANTS
  TypeOK
  EveryLabelIsWanted
  UserActionsHaveACounterName
PROPERTY
  HeldPlayKeepsItsLabels
