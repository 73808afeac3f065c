CONSTANTS
  Tables <- MCTables
  Words <- MCWords
  Char = {"a", "n", "r"}
  MaxOps = 2
SPECIFICATION Spec
INVARIANTS TypeOK
PROPERTIES ImportComplete DumpAsserts SavedReadsBack
