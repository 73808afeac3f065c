CONSTANTS
  Names = {main, a}
  Main = main
  A = a
  Contents = {0, 65}
  Absent = absent
  Torn = torn
  Unset = unset
  Native = "L"
  Order = "B"
  MaxLinks = 2
  Initial <- MCInitial
\* An archive that no command can open stops everything.
CHECK_DEADLOCK FALSE
SPECIFICATION Spec
PROPERTIES DumpReadsBack
