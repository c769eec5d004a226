CONSTANTS
  Scenarios <- UpperScenarios
  Limit = 3300
SPECIFICATION MCSpec
INVARIANT TriggersAreMapped
