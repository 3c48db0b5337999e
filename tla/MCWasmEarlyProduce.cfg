CONSTANTS
  Sym = {s1, s2}
  NoHash = NoHash
  MaxIdx = 2
  EarlyProduce = TRUE
SPECIFICATION Spec
SYMMETRY SymSymmetry
PROPERTIES
  WasmImplementsDecoderSpec
