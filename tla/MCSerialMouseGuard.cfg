\* Any byte can get lost.
SPECIFICATION SerialSpec
CONSTANTS
  Lossy = TRUE
  Trailing = FALSE
PROPERTY ReportsStartWithFirstByte
