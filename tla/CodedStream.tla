----------------------------- MODULE CodedStream -----------------------------
(***************************************************************************)
(* What an Encoder promises (spec.md 4.4 and property 8), with no heap:   *)
(* the coded symbol produced at index k is the XOR, over the symbols held *)
(* at that moment, of those whose mapping sequence contains k, with count *)
(* the number of them.  Every mapping sequence starts at index 0.  Adds   *)
(* and removals change what later indices contain; they never rewind.     *)
(***************************************************************************)
EXTENDS Encoding

VARIABLES symbols, next_idx, out

vars == <<hits, symbols, next_idx, out>>

\* The reference coded symbol for index k over the symbol sequence syms.
RECURSIVE CellOf(_, _)
CellOf(syms, k) ==
  IF syms = <<>> THEN ZeroCell
  ELSE LET rest == CellOf(Tail(syms), k)
       IN  IF Contributes(Head(syms).hash, k)
           THEN Apply(rest, Head(syms), ADD) ELSE rest

Init ==
  /\ hits \in [BaseSymbols -> SUBSET (1 .. MaxIdx)]
  /\ symbols = <<>>
  /\ next_idx = 0
  /\ out = ZeroCell

CallAdd(v) ==
  /\ symbols' = Append(symbols, HashedSymbol(v))
  /\ UNCHANGED <<hits, next_idx, out>>

CallRemove(v) ==
  /\ symbols' = RemoveFirst(symbols, HashedSymbol(v))
  /\ UNCHANGED <<hits, next_idx, out>>

CallProduce ==
  /\ out' = CellOf(symbols, next_idx)
  /\ next_idx' = next_idx + 1
  /\ UNCHANGED <<hits, symbols>>

CallReset ==
  /\ symbols' = <<>>
  /\ next_idx' = 0
  /\ UNCHANGED <<hits, out>>

Next ==
  \/ \E v \in BaseSymbols : CallAdd(v) \/ CallRemove(v)
  \/ CallProduce
  \/ CallReset

Spec == Init /\ [][Next]_vars

=============================================================================
