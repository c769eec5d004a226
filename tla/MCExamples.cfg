CONSTANTS
  Scenarios <- MCScenarios
  Limit = 3300
SPECIFICATION MCSpec
INVARIANTS OutIsTheImage
PROPERTIES LocksByGesture OppositesAreResolved TextIsTypedOnce MovementIsKept SpeedsAreAsSet PressesAreEarned
