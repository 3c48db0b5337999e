------------------------------- MODULE Encoder -------------------------------
(***************************************************************************)
(* One Encoder<T> driven by its caller: add_symbol, remove_symbol,        *)
(* produce_next_coded_symbol and reset, each one atomic step (the type is *)
(* single-threaded and no call re-enters).  out is the coded symbol the   *)
(* last produce_next_coded_symbol returned.                                *)
(***************************************************************************)
EXTENDS Encoding

CONSTANTS
  MaxSyms,          \* bound on the number of symbols held at once
  AddAfterProduce   \* may the caller add symbols once production started?

ASSUME MaxSyms \in Nat /\ AddAfterProduce \in BOOLEAN

VARIABLES enc, out

vars == <<hits, enc, out>>

Init ==
  /\ hits \in [BaseSymbols -> SUBSET (1 .. MaxIdx)]
  /\ enc = NewEncoder
  /\ out = ZeroCell

\* Encoder::add_symbol
CallAdd(v) ==
  /\ Len(enc.symbols) < MaxSyms
  /\ AddAfterProduce \/ enc.next_idx = 0
  /\ enc' = AddSymbol(enc, v)
  /\ UNCHANGED <<hits, out>>

\* Encoder::remove_symbol
CallRemove(v) ==
  /\ enc' = RemoveSymbol(enc, v)
  /\ UNCHANGED <<hits, out>>

\* Encoder::produce_next_coded_symbol
CallProduce ==
  /\ enc.next_idx < Horizon
  /\ LET r == ProduceNextCodedSymbol(enc)
     IN  /\ enc' = r[1]
         /\ out' = r[2]
  /\ UNCHANGED hits

\* Encoder::reset
CallReset ==
  /\ enc' = NewEncoder
  /\ UNCHANGED <<hits, out>>

Next ==
  \/ \E v \in BaseSymbols : CallAdd(v) \/ CallRemove(v)
  \/ CallProduce
  \/ CallReset

Spec == Init /\ [][Next]_vars

-----------------------------------------------------------------------------
TypeOK ==
  /\ hits \in [BaseSymbols -> SUBSET (1 .. MaxIdx)]
  /\ enc.symbols \in Seq([symbol : BaseSymbols, hash : BaseSymbols])
  /\ enc.mappings \in Seq([prng : BaseSymbols, last_idx : 0 .. Parked])
  /\ enc.queue \in Seq([source_idx : Nat, coded_idx : 0 .. Parked])
  /\ enc.next_idx \in 0 .. Horizon
  /\ out \in [symbol : SUBSET Sym, hash : SUBSET Sym, count : 0 .. MaxSyms]

\* The first index at or after k in the mapping sequence of hash h.
NextContribution(h, k) ==
  LET ks == {j \in {0} \cup IndicesOf(h) : j >= k}
  IN  IF ks = {} THEN Parked ELSE Min(ks)

(***************************************************************************)
(* The heap's array satisfies the min-heap order on coded_idx after every *)
(* call: the sift-up of add, the head fix-up of apply_window and the      *)
(* rebuild of remove_symbol each restore it.                              *)
(***************************************************************************)
HeapOrdered ==
  \A i \in 1 .. Len(enc.queue) - 1 :
    Key(enc.queue, (i - 1) \div 2) <= Key(enc.queue, i)

(***************************************************************************)
(* The scheduler's bookkeeping agrees with the symbols: every position i  *)
(* of symbols has exactly one heap entry; that entry, and mappings[i],    *)
(* hold the first index at or after next_idx in the sequence of the       *)
(* symbol now at position i.  remove_symbol shifts positions and must     *)
(* shift the heap's source_idx with them.                                 *)
(***************************************************************************)
ScheduleConsistent ==
  /\ Len(enc.queue) = Len(enc.symbols)
  /\ Len(enc.mappings) = Len(enc.symbols)
  /\ \A i \in 0 .. Len(enc.symbols) - 1 :
       LET sym == enc.symbols[i + 1]
           due == NextContribution(sym.hash, enc.next_idx)
       IN  /\ enc.mappings[i + 1] = [prng |-> sym.hash, last_idx |-> due]
           /\ \E j \in 0 .. Len(enc.queue) - 1 :
                /\ enc.queue[j + 1] = [source_idx |-> i, coded_idx |-> due]
                /\ \A j2 \in 0 .. Len(enc.queue) - 1 :
                     enc.queue[j2 + 1].source_idx = i => j2 = j

(***************************************************************************)
(* Refinement: the heap-scheduled Encoder implements CodedStream, i.e.    *)
(* every coded symbol it produces is exactly the XOR of the symbols it    *)
(* holds whose mapping hits that index (spec.md 4.4 and property 8).      *)
(***************************************************************************)
Abs == INSTANCE CodedStream WITH symbols <- enc.symbols, next_idx <- enc.next_idx

ImplementsCodedStream == Abs!Spec

=============================================================================
