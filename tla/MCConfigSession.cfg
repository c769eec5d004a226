SPECIFICATION Spec
CONSTANTS
  Scalars = {0, 1}
  Items = {"a", "b"}
  Sections <- TwoSections
  Counted = {"mappings"}
  Files <- OneFile
  NewRows = {"a"}
  NewScalars = {1}
  Blank <- Empty
  Defaults <- Empty
  Firmwares = {"current"}
  UserDoes = {"replace", "add", "set", "reload"}
  Capacity = 1
  MaxRows = 2
  MaxAttempts = 1
  UsagePackets = 0
  Torn = Torn
  None = None
INVARIANTS FramesRunWholeConfigs
PROPERTIES ImplementsStore LoadIsFaithful
