CONSTANTS
  Start <- MCStart
  End <- MCEnd
  Header = 20
  HEAP_MIN_BLOCK = 16
  HEAP_ALIGN = 8
  WordMod = 65536
  Sizes = {5, 32, 60}
  MaxLive = 3
SPECIFICATION HeapSpec
INVARIANT
  AllocationsDisjoint
