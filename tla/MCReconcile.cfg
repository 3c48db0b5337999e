CONSTANTS
  Sym = {s1, s2, s3}
  NoHash = NoHash
  MaxIdx = 3
SPECIFICATION Spec
SYMMETRY SymSymmetry
INVARIANTS
  DecoderStaysAligned
  TypeOK
  DecodeSound
  PeelingMatchesReference
  DecodedIffComplete
  NeverInvalidDegree
