CONSTANTS
  SymbolSize = 64
  U64Bits = 64
  Inputs = {1, 128, 255, 256, 65535, 16777216, 536870912, 1073741823}
SPECIFICATION Spec
INVARIANTS
  SymbolEncodesValue
