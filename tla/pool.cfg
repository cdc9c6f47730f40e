SPECIFICATION HistorySpec
CONSTANTS
  Models = {a, b, c, d, e}
  NoModel = NoModel
  MaxModels = 4
INVARIANTS
  ActiveIsLoaded
  CapacityBound
PROPERTIES
  ActiveLeavesOnlyByEvict
  InUseStays
