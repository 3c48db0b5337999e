CONSTANTS
  Sym = {s1, s2}
  NoHash = NoHash
  MaxIdx = 2
  EarlyProduce = FALSE
SPECIFICATION FairSpec
PROPERTIES
  WasmTerminates
