SPECIFICATION FairPathSpec
CONSTANTS
  keyboard = keyboard
  mouse = mouse
  button = button
  ReportIds <- MCReportIds
  Relative <- MCRelative
  Controls <- MCControls
  Moves <- MCMoves
  Unit = 2
  Half = 1
  Capacity = 2
  Entry <- MCEntry
  Size = 2
  Blank <- MCBlank
INVARIANTS PrevIsWhatHostWillSee MovementIsConserved
PROPERTIES ChangesAreQueued ImplementsFifo PressReachesHost HostCatchesUp
