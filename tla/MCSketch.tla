------------------------------- MODULE MCSketch -------------------------------
(* Model-checking instance of Sketch: two sketches over three base        *)
(* symbols, of the sizes Sizes, every mapping shape.                       *)
EXTENDS Sketch

\* Base symbols are interchangeable: nothing in the code inspects them.
SymSymmetry == Permutations(Sym)
=============================================================================
