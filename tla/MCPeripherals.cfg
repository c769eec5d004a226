SPECIFICATION PeripheralsSpec
CONSTANTS
  Pins = {p1}
  Debounce = 2
  Lossy = TRUE
  Trailing = TRUE
  key1 = key1
  key2 = key2
  Keys = {plain}
  MacroKeys <- MCMacroKeys
  MacroList <- MCMacroList
  Durations = {0, 1}
  Capacity = 2
  MaxQueued = 1
  Moved = Moved
  x = x
  END = END
  ESC = ESC
  ESC_END = ESC_END
  ESC_ESC = ESC_ESC
  Bytes <- MCBytes
  Messages <- MCMessages
  Droppable <- MCDroppable
  ChecksumSize = 1
  BUFFER_SIZE = 5
  ReadSize = 3
  LineSize = 1
  MaxRestarts = 1
INVARIANTS LossesOnlyByRestart WholePacketsAreUnderstood
PROPERTIES SteadyLevelIsTaken EntriesAreTypedInOrder MacrosEnd
