INIT MCInit
NEXT MCNext
CONSTANTS
  a = a
  b = b
  c = c
  r1 = r1
  r2 = r2
  r3 = r3
  r4 = r4
  bad = bad
  Null = Null
  Capacity = 4
  Values <- MCValues
  Names <- MCNames
  ValidNames <- MCValid
INVARIANTS
  TypeOK
  ReadableSlotsAreOwned
  ReadersSeeContents
  NamesMirrorRooms
PROPERTIES
  KeepsLatestElements
  BehavesAsSet
CHECK_DEADLOCK FALSE
