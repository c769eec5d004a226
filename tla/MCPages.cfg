SPECIFICATION PagesSpec
CONSTANTS
  Sources <- MCSources
  Targets <- MCTargets
  Rank <- MCRank
  Ports = {0}
  Flags = {"sticky"}
  Layers = {0, 1}
  MappingFiles <- MCFiles
  MaxMappings = 2
  NMACROS = 2
  A = A
  NoUsage = NoUsage
  Usages <- MCUsages
  MacroFiles <- MCMacroFiles
  MaxEntries = 2
  MaxItems = 2
  NEXPRESSIONS = 2
  Texts <- MCTexts
  ExpressionFiles <- MCExpressionFiles
  Devices <- MCDevices
  MACRO_ITEMS_IN_PACKET = 6
  SendBytes = 24
  ReplyBytes = 27
  Wide = 5
  Separator = 0
  SomeMacros <- MCSomeMacros
  SomeExpressions <- MCSomeExpressions
  OldMacro <- MCOldMacro
  OldExpression <- MCOldExpression
  Tried <- MCTried
\* The transfer is over when it is done.
CHECK_DEADLOCK FALSE
INVARIANTS TabsShowConfig ReadsBackWhatWasSent
PROPERTIES LateChoicesAreHarmless
