SPECIFICATION FairSpec
CONSTANTS
  Scalars = {0, 1}
  Items = {"a", "b"}
  Sections <- OneSection
  Counted = {"mappings"}
  Files <- OneFile
  NewRows = {}
  NewScalars = {}
  Blank <- Empty
  Defaults <- Empty
  Firmwares = {"current", "older", "newer"}
  UserDoes = {"replace", "monitor", "other"}
  Capacity = 1
  MaxRows = 2
  MaxAttempts = 2
  UsagePackets = 1
  Torn = Torn
  None = None
PROPERTIES BusyEnds SavedConfigRuns
