SPECIFICATION Spec
CONSTANTS
  FCounts <- MCFCounts
  GCounts <- MCGCounts
  Programs <- MCPrograms
  Spilled <- MCSpilled
  StackTop = 1600
INVARIANTS TypeOK Aligned UnitComplete
PROPERTIES ReturnRestores WritesOwnFrame CallsImplemented
