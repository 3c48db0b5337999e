CONSTANTS
  Sym = {s1, s2, s3}
  NoHash = NoHash
  MaxIdx = 2
  Sizes = {2, 3}
  MaxCount = 1
SPECIFICATION Spec
SYMMETRY SymSymmetry
INVARIANTS TypeOK CellsMatchContent SketchDecodeSound
