------------------------------ MODULE MCEncoder ------------------------------
(* Model-checking instance of Encoder: three base symbols, coded indices  *)
(* 0..3, at most three symbols held (duplicates allowed).                 *)
EXTENDS Encoder

\* Base symbols are interchangeable: nothing in the code inspects them.
SymSymmetry == Permutations(Sym)
=============================================================================
