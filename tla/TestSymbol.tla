------------------------------ MODULE TestSymbol ------------------------------
(***************************************************************************)
(* The 64-byte test symbol of src/.../testing.rs: new_test_symbol writes a *)
(* u64 into a byte array, zero is new_test_symbol(0) and xor is bytewise.  *)
(* A caller builds a symbol by new_test_symbol and xors others into it;    *)
(* val is a history variable, the u64 the symbol should stand for (the     *)
(* XOR of the inputs used).  That the array is always the little-endian    *)
(* encoding of val is what lets the other modules treat TestSymbol like    *)
(* TestU64: a value of the xor algebra with an injective encoding.        *)
(***************************************************************************)
EXTENDS Integers, Bitwise

CONSTANTS SymbolSize,   \* TEST_SYMBOL_SIZE
          U64Bits,      \* the width of x in new_test_symbol
          Inputs        \* the u64 values a caller passes

\* TLC's integers stop at 2^31 - 1 (and Bitwise's ^^ below it): the inputs lie
\* below 2^30, so only their low four bytes can be non-zero.
ASSUME \A x \in Inputs : x >= 0 /\ x < 2^30

Bytes == 0 .. SymbolSize - 1

VARIABLES sym,          \* the TestSymbol the caller holds
          val           \* history: the u64 it should encode

vars == <<sym, val>>

\* u64 >> s for s < 64, on a value below 2^31.
Shr(x, s) == IF s >= 31 THEN 0 ELSE x \div 2^s

\* Mutant of NewTestSymbol: a wrapping shift (x >> (8i mod 64)) instead of
\* checked_shr.
NewTestSymbolWrapping(x) ==
  [i \in Bytes |-> Shr(x, (8 * i) % U64Bits) % 256]

\* new_test_symbol: byte i is x.checked_shr(8 i), 0 when the shift is not
\* below the width, cast to u8.
NewTestSymbol(x) ==
  [i \in Bytes |-> IF 8 * i >= U64Bits THEN 0 ELSE Shr(x, 8 * i) % 256]

\* Symbol::zero for TestSymbol
TestZero == NewTestSymbol(0)

\* Symbol::xor for TestSymbol
TestXor(a, b) == [i \in Bytes |-> a[i] ^^ b[i]]

Init ==
  /\ sym = TestZero
  /\ val = 0

\* The caller replaces its symbol by new_test_symbol(x).
Make(x) ==
  /\ sym' = NewTestSymbol(x)
  /\ val' = x

\* The caller xors new_test_symbol(x) into its symbol.
XorWith(x) ==
  /\ sym' = TestXor(sym, NewTestSymbol(x))
  /\ val' = val ^^ x

Next == \E x \in Inputs : Make(x) \/ XorWith(x)

Spec == Init /\ [][Next]_vars

-----------------------------------------------------------------------------
\* Reference: digit i of n in base 256 (0 from the fifth on, as n < 2^32).
Digit(n, i) == IF i < 4 THEN (n \div 256^i) % 256 ELSE 0

(***************************************************************************)
(* After any sequence of new_test_symbol and xor calls the symbol is the   *)
(* little-endian encoding of the XOR of the inputs: bytes 0..7 are the     *)
(* base-256 digits of val and bytes 8..63 are 0.  It fails if a shift of   *)
(* 64 or more bits (i >= 8) wraps instead of yielding 0, if a byte is not *)
(* cut to 8 bits, or if xor is not bytewise.                              *)
(***************************************************************************)
SymbolEncodesValue ==
  \A i \in Bytes : sym[i] = Digit(val, i)

=============================================================================
