CONSTANTS
  Size = 120
  MaxItems = 24
  Names = {1, 2, 3, 4, 5, 6, 7, 8, 9, 10, 11, 12}
  Unset = unset
  Texts = {21, 22}
  Odd = {}
  Files <- MCFiles
  TextFiles <- MCTextFiles
  DefaultBit = 4
  CountMask = 1
SPECIFICATION ScriptSpec
INVARIANTS ParseKeepsFile ReachedCodeParsed DumpKeepsFile DumpOpensAgain LabelsFollow
PROPERTIES ParseEnds
