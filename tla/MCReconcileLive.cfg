CONSTANTS
  Sym = {s1, s2}
  NoHash = NoHash
  MaxIdx = 3
SPECIFICATION FairSpec
PROPERTIES
  ReconcileTerminates
