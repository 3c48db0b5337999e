CONSTANTS
  Sym = {s1, s2, s3}
  NoHash = NoHash
  MaxIdx = 3
  MaxSyms = 3
  AddAfterProduce = FALSE
SPECIFICATION Spec
INVARIANTS
  TypeOK
  HeapOrdered
  ScheduleConsistent
PROPERTIES
  ImplementsCodedStream
