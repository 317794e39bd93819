CONSTANTS
  Names = {bin, a}
  Bin = bin
  MaxDepth = 2
  Handles = {h}
  MaxFiles = 5
  Limits <- MCLimits
  MaxData = 3
  Word = 8
  MaxCount = 2
SPECIFICATION RamfsSpec
INVARIANTS
  RamfsTypeOK
  ListsWellFormed
  NamesUniqueBelowRoot
  PlainFilesDisjoint
CHECK_DEADLOCK FALSE
