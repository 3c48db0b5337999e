CONSTANTS
  Sym = {s1, s2}
  NoHash = NoHash
  MaxIdx = 3
  EarlyProduce = FALSE
SPECIFICATION Spec
SYMMETRY SymSymmetry
INVARIANTS
  TypeOK
  CountedOnce
PROPERTIES
  WasmImplementsDecoderSpec
