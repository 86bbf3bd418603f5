CONSTANTS
  WitnessOrder <- MCWitnesses
  Shuffle <- MCShuffle
  Threshold = 70
  Window = 4
  Settings <- MCSettings
SPECIFICATION Spec
INVARIANTS HistorySuffices MaintenanceAhead SlotsAreUsable MissedRightly BlocksKeepComing
PROPERTIES IrreversibleIsBacked
CHECK_DEADLOCK FALSE
