----------------------------- MODULE MCReconcile -----------------------------
(* Model-checking instance of Reconcile: sets over three base symbols,    *)
(* streams of up to MaxIdx+1 coded symbols, every mapping shape.          *)
EXTENDS Reconcile

\* Base symbols are interchangeable: nothing in the code inspects them.
SymSymmetry == Permutations(Sym)
=============================================================================
