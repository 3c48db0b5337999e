CONSTANTS
  Sym = {s1, s2, s3}
  NoHash = NoHash
  MaxIdx = 2
  Sizes = {0, 2}
  MaxCount = 1
SPECIFICATION Spec
SYMMETRY SymSymmetry
INVARIANT SketchDecodeSound
