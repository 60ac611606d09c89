SPECIFICATION Spec
CONSTANTS
  Sets = {1, 2}
  Items = {3}
  SetOf <- MCSetOf
  SetLen = 1
  ItemLen = 2
  MaxEdits = 3
  MaxSaves = 3
INVARIANTS
  TypeOK
  NeverPartlySaved
  StayedEntriesSaved
  CleanShutdownRecorded
