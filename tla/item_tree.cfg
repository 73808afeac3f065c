CONSTANTS
  Size = 4
  MaxItems = 6
  Names = {n1, n2}
  Unset = unset
  Texts = {2}
  Odd = {}
SPECIFICATION Spec
INVARIANTS ItemsOwned UnparsedFound PointersInside DumpedPointers
PROPERTIES ImplementsLabelledFile
SYMMETRY NameSymmetry
