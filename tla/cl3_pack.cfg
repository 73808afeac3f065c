CONSTANTS
  Names = {main, a}
  Main = main
  A = a
  Contents = {0, 65}
  Absent = absent
  Torn = torn
  Unset = unset
  Native = "L"
  Order = "L"
  MaxLinks = 2
  Initial <- MCInitial
SPECIFICATION Spec
INVARIANTS ArchiveSurvives
PROPERTIES DumpReadsBack SizeReserved ImplementsArchiveStore
