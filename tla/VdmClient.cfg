SPECIFICATION FairSpec
CONSTANTS
  MAX_WINDOWS = 2
  Keycodes = {30, 102}
  WindowIds = {1, 101, 102}
  FdNumbers = {7, 101}
  TextWords = {0}
  MaxCreates = 5
  DownCap = 14
INVARIANTS StreamSound WindowsAnswered
PROPERTIES CallsReturn
