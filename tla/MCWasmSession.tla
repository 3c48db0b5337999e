---------------------------- MODULE MCWasmSession ----------------------------
(* Model-checking instance of WasmSession: sets over three base symbols,  *)
(* streams of up to MaxIdx+1 coded symbols, every mapping shape.          *)
EXTENDS WasmSession

\* Base symbols are interchangeable: nothing in the code inspects them.
SymSymmetry == Permutations(Sym)
=============================================================================
