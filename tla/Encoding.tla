------------------------------ MODULE Encoding ------------------------------
(***************************************************************************)
(* The data structures and operations of                                   *)
(* src/packages/utils/rateless-iblt/src/encoding.rs as pure operators over *)
(* record-valued states: RandomMapping, CodedSymbol, the array-backed      *)
(* min-heap of SymbolMapping entries, Encoder and Decoder.  Specifications *)
(* (Encoder, Reconcile, Sketch) EXTEND this module and hold the records in *)
(* their variables.                                                        *)
(*                                                                         *)
(* Data abstraction.  A symbol value of type T is an element of the XOR    *)
(* group generated by the base symbols Sym: the set of base symbols XORed  *)
(* into it (Zero is {}, xor is symmetric difference).  A 64-bit hash is    *)
(* likewise the set of base-symbol hashes XORed into it (0 is {}).  The    *)
(* hash of a base symbol s is {s}; the hash of any other value (zero, or   *)
(* the XOR of several symbols) is {NoHash}: the keyed 64-bit hash is taken *)
(* to be collision free.  Indices are 0-based as in the code; a Seq q is   *)
(* read at position i as q[i+1].                                           *)
(***************************************************************************)
EXTENDS Integers, Sequences, FiniteSets, FiniteSetsExt, SequencesExt

CONSTANTS
  Sym,      \* base symbols (model values)
  NoHash,   \* the hash of a value that is not a single base symbol
  MaxIdx    \* the largest coded index the model produces

ASSUME NoHash \notin Sym /\ MaxIdx \in Nat

(***************************************************************************)
(* hits[h] is the set of coded indices in 1..MaxIdx that a RandomMapping   *)
(* seeded with hash h returns from next_index().  The recurrence (64-bit   *)
(* wrapping multiply, IEEE-754 sqrt and ceil) is beyond TLC's integers, so *)
(* the mapping is a parameter of the behaviour, chosen in Init and never   *)
(* changed: every strictly increasing sequence is allowed.                 *)
(***************************************************************************)
VARIABLE hits

\* Indices at or beyond Horizon are never produced by the modelled
\* parties.  A mapping whose next index would lie there is parked at
\* Parked, beyond every index any encoder of a model reaches (a window
\* cloned from an encoder that produced Horizon cells, then fed Horizon
\* more, reaches 2 * Horizon).
Horizon == MaxIdx + 1
Parked == 2 * Horizon + 1

BaseSymbols == {{s} : s \in Sym}
Zero == {}
Xor(a, b) == SymDiff(a, b)
Hash(v) == IF Cardinality(v) = 1 THEN v ELSE {NoHash}

ADD == 1
REMOVE == -1

HashedSymbol(v) == [symbol |-> v, hash |-> Hash(v)]

ZeroCell == [symbol |-> Zero, hash |-> {}, count |-> 0]

\* Mutant of Apply: the direction's sign is inverted.
ApplyFlipped(cell, sym, direction) ==
  [symbol |-> Xor(cell.symbol, sym.symbol),
   hash   |-> Xor(cell.hash, sym.hash),
   count  |-> cell.count - direction]

\* CodedSymbol::apply
Apply(cell, sym, direction) ==
  [symbol |-> Xor(cell.symbol, sym.symbol),
   hash   |-> Xor(cell.hash, sym.hash),
   count  |-> cell.count + direction]

(***************************************************************************)
(* RandomMapping: the seed (prng) is the symbol's hash; since the index    *)
(* sequence is strictly increasing, (seed, last_idx) determines the state. *)
(***************************************************************************)
IndicesOf(seed) == IF seed \in DOMAIN hits THEN hits[seed] ELSE {}

\* Mutant of NewMapping: the first index is 1 instead of 0.
NewMappingFromOne(seed) == [prng |-> seed, last_idx |-> 1]

NewMapping(seed) == [prng |-> seed, last_idx |-> 0]

\* Does the mapping sequence seeded with h (0 first) contain index k?
Contributes(h, k) == k = 0 \/ k \in IndicesOf(h)

NextIndex(m) ==
  LET later == {k \in IndicesOf(m.prng) : k > m.last_idx}
  IN  [m EXCEPT !.last_idx = IF later = {} THEN Parked ELSE Min(later)]

(***************************************************************************)
(* The heap: a Seq of [source_idx, coded_idx], min-ordered on coded_idx.   *)
(***************************************************************************)
Key(q, i) == q[i + 1].coded_idx

Swap(q, i, j) == [q EXCEPT ![i + 1] = q[j + 1], ![j + 1] = q[i + 1]]

\* The "Fix tail" loop of add_hashed_symbol_with_mapping.
RECURSIVE SiftUp(_, _)
SiftUp(q, cur) ==
  IF cur = 0 THEN q
  ELSE LET parent == (cur - 1) \div 2
       IN  IF Key(q, parent) <= Key(q, cur) THEN q
           ELSE SiftUp(Swap(q, parent, cur), parent)

\* Mutant of HeapifyDown: always descends to the left child.
RECURSIVE HeapifyDownLeftOnly(_, _)
HeapifyDownLeftOnly(q, cur) ==
  LET left == 2 * cur + 1
  IN  IF left >= Len(q) \/ Key(q, cur) <= Key(q, left) THEN q
      ELSE HeapifyDownLeftOnly(Swap(q, cur, left), left)

\* heapify_down, and the identical "Fix head" loop of apply_window.
RECURSIVE HeapifyDown(_, _)
HeapifyDown(q, cur) ==
  LET left == 2 * cur + 1
      child == IF left + 1 < Len(q) /\ Key(q, left + 1) < Key(q, left)
               THEN left + 1 ELSE left
  IN  IF left >= Len(q) \/ Key(q, cur) <= Key(q, child) THEN q
      ELSE HeapifyDown(Swap(q, cur, child), child)

RECURSIVE HeapifyFrom(_, _)
HeapifyFrom(q, i) == IF i < 0 THEN q ELSE HeapifyFrom(HeapifyDown(q, i), i - 1)

BuildQueueHeap(q) == HeapifyFrom(q, Len(q) \div 2 - 1)

(***************************************************************************)
(* Encoder                                                                 *)
(***************************************************************************)
NewEncoder == [symbols |-> <<>>, mappings |-> <<>>, queue |-> <<>>, next_idx |-> 0]

AddHashedSymbolWithMapping(e, sym, mapp) ==
  LET q == Append(e.queue, [source_idx |-> Len(e.symbols),
                            coded_idx  |-> mapp.last_idx])
  IN  [e EXCEPT !.symbols  = Append(@, sym),
                !.mappings = Append(@, mapp),
                !.queue    = SiftUp(q, Len(q) - 1)]

AddHashedSymbol(e, sym) == AddHashedSymbolWithMapping(e, sym, NewMapping(sym.hash))

AddSymbol(e, v) == AddHashedSymbol(e, HashedSymbol(v))

\* Mutant of WindowLoop: an if instead of the while, one symbol per index.
WindowLoopOnce(e, cell, direction) ==
  IF Key(e.queue, 0) # e.next_idx THEN <<e, cell>>
  ELSE LET src  == e.queue[1].source_idx
           mapp == NextIndex(e.mappings[src + 1])
       IN  <<[e EXCEPT !.mappings[src + 1] = mapp,
                       !.queue = HeapifyDown([@ EXCEPT ![1].coded_idx = mapp.last_idx], 0)],
             Apply(cell, e.symbols[src + 1], direction)>>

\* The while loop of apply_window: apply every symbol whose next index is
\* next_idx, advance its mapping, rewrite the root and fix the heap head.
RECURSIVE WindowLoop(_, _, _)
WindowLoop(e, cell, direction) ==
  IF Key(e.queue, 0) # e.next_idx THEN <<e, cell>>
  ELSE LET src  == e.queue[1].source_idx
           mapp == NextIndex(e.mappings[src + 1])
           q    == [e.queue EXCEPT ![1].coded_idx = mapp.last_idx]
       IN  WindowLoop([e EXCEPT !.mappings[src + 1] = mapp,
                                !.queue = HeapifyDown(q, 0)],
                      Apply(cell, e.symbols[src + 1], direction),
                      direction)

\* apply_window returns <<encoder after the call, resulting cell>>.
ApplyWindow(e, cell, direction) ==
  LET r == IF e.queue = <<>> THEN <<e, cell>> ELSE WindowLoop(e, cell, direction)
  IN  <<[r[1] EXCEPT !.next_idx = @ + 1], r[2]>>

ProduceNextCodedSymbol(e) == ApplyWindow(e, ZeroCell, ADD)

\* Mutant of RemoveSymbol: later heap entries keep their old source_idx.
RemoveSymbolNoShift(e, v) ==
  LET found == {i \in 1 .. Len(e.symbols) :
                  e.symbols[i].hash = Hash(v) /\ e.symbols[i].symbol = v}
      pos   == Min(found) - 1
  IN  IF found = {} THEN e
      ELSE [e EXCEPT !.symbols  = RemoveAt(@, pos + 1),
                     !.mappings = RemoveAt(@, pos + 1),
                     !.queue    = BuildQueueHeap(SelectSeq(@, LAMBDA sm : sm.source_idx # pos))]

\* remove_symbol: drop the first matching symbol and its mapping, drop its
\* heap entries, shift the source_idx of later ones, rebuild the heap.  A
\* missing symbol only prints a diagnostic.
RemoveSymbol(e, v) ==
  LET h     == Hash(v)
      found == {i \in 1 .. Len(e.symbols) :
                  e.symbols[i].hash = h /\ e.symbols[i].symbol = v}
      pos   == Min(found) - 1
      kept  == SelectSeq(e.queue, LAMBDA sm : sm.source_idx # pos)
      Shift(sm) == IF sm.source_idx > pos
                   THEN [sm EXCEPT !.source_idx = @ - 1] ELSE sm
  IN  IF found = {} THEN e
      ELSE [e EXCEPT !.symbols  = RemoveAt(@, pos + 1),
                     !.mappings = RemoveAt(@, pos + 1),
                     !.queue    = BuildQueueHeap([i \in DOMAIN kept |-> Shift(kept[i])])]

(***************************************************************************)
(* Decoder                                                                 *)
(***************************************************************************)
NewDecoder ==
  [coded |-> <<>>, local |-> NewEncoder, remote |-> NewEncoder,
   window |-> NewEncoder, decodable |-> <<>>, num_decoded |-> 0]

\* Mutant of DecoderReset: remote.reset() is missing.
DecoderResetKeepRemote(d) == [NewDecoder EXCEPT !.remote = d.remote]

\* Decoder::reset: every part of the decoder is cleared.
DecoderReset(d) == NewDecoder

\* Encoder::to_decoder: a fresh decoder whose window is a clone of e.
ToDecoder(e) == [NewDecoder EXCEPT !.window = e]

DecoderAddSymbol(d, v) == [d EXCEPT !.window = AddSymbol(@, v)]

\* Mutant of DegreeOne: the hash check is left out.
DegreeOneNoHash(c) == c.count = 1 \/ c.count = -1

\* The degree-one test of apply_new_symbol ...
DegreeOne(c) == (c.count = 1 \/ c.count = -1) /\ c.hash = Hash(c.symbol)

\* Mutant of IsPure: empty cells are not queued.
IsPureNoEmpty(c) == DegreeOne(c)

\* ... and the purity test of add_coded_symbol, which also accepts empty cells.
IsPure(c) == DegreeOne(c) \/ (c.count = 0 /\ c.hash = {})

AddCodedSymbol(d, sym) ==
  LET w    == ApplyWindow(d.window, sym, REMOVE)
      r    == ApplyWindow(d.remote, w[2], REMOVE)
      l    == ApplyWindow(d.local, r[2], ADD)
      next == l[2]
  IN  [d EXCEPT !.window = w[1], !.remote = r[1], !.local = l[1],
                !.coded = Append(@, next),
                !.decodable = IF IsPure(next) THEN Append(@, Len(d.coded)) ELSE @]

\* Mutant of NewSymbolLoop: cells that become pure are not queued.
RECURSIVE NewSymbolLoopNoPush(_, _, _, _)
NewSymbolLoopNoPush(d, sym, direction, mapp) ==
  IF mapp.last_idx >= Len(d.coded) THEN <<d, mapp>>
  ELSE NewSymbolLoopNoPush(
         [d EXCEPT !.coded[mapp.last_idx + 1] = Apply(@, sym, direction)],
         sym, direction, NextIndex(mapp))

\* Mutant of NewSymbolLoop: cells are queued by the purity test of
\* add_coded_symbol, so cells that become empty are queued as well.
RECURSIVE NewSymbolLoopQueuePure(_, _, _, _)
NewSymbolLoopQueuePure(d, sym, direction, mapp) ==
  IF mapp.last_idx >= Len(d.coded) THEN <<d, mapp>>
  ELSE LET n == mapp.last_idx
           c == Apply(d.coded[n + 1], sym, direction)
       IN  NewSymbolLoopQueuePure(
             [d EXCEPT !.coded[n + 1] = c,
                       !.decodable = IF IsPure(c) THEN Append(@, n) ELSE @],
             sym, direction, NextIndex(mapp))

\* The loop of apply_new_symbol: returns <<decoder, advanced mapping>>.
RECURSIVE NewSymbolLoop(_, _, _, _)
NewSymbolLoop(d, sym, direction, mapp) ==
  IF mapp.last_idx >= Len(d.coded) THEN <<d, mapp>>
  ELSE LET n == mapp.last_idx
           c == Apply(d.coded[n + 1], sym, direction)
       IN  NewSymbolLoop(
             [d EXCEPT !.coded[n + 1] = c,
                       !.decodable = IF DegreeOne(c) THEN Append(@, n) ELSE @],
             sym, direction, NextIndex(mapp))

\* Mutant of ApplyNewSymbol: every found symbol is subtracted, whatever
\* its side.
ApplyNewSymbolAlwaysRemove(d, sym, direction) ==
  NewSymbolLoop(d, sym, REMOVE, NewMapping(sym.hash))

ApplyNewSymbol(d, sym, direction) ==
  NewSymbolLoop(d, sym, direction, NewMapping(sym.hash))

\* Mutant of PeelOne: the found symbol is recorded with a fresh mapping
\* (add_hashed_symbol instead of add_hashed_symbol_with_mapping).
PeelOneFreshMapping(d, sym, direction) ==
  LET r == ApplyNewSymbol(d, sym, direction)
  IN  IF direction = REMOVE
      THEN [r[1] EXCEPT !.remote = AddHashedSymbolWithMapping(@, sym, NewMapping(sym.hash)),
                        !.num_decoded = @ + 1]
      ELSE [r[1] EXCEPT !.local = AddHashedSymbolWithMapping(@, sym, NewMapping(sym.hash)),
                        !.num_decoded = @ + 1]

\* The count 1 and count -1 arms of try_decode: cancel the found symbol from
\* every received cell, then record it, with its advanced mapping, as
\* remote (direction REMOVE) or local (direction ADD).
PeelOne(d, sym, direction) ==
  LET r == ApplyNewSymbol(d, sym, direction)
  IN  IF direction = REMOVE
      THEN [r[1] EXCEPT !.remote = AddHashedSymbolWithMapping(@, sym, r[2]),
                        !.num_decoded = @ + 1]
      ELSE [r[1] EXCEPT !.local = AddHashedSymbolWithMapping(@, sym, r[2]),
                        !.num_decoded = @ + 1]

\* The loop of try_decode from position didx of decodable; returns the
\* decoder and the Result.  An Err returns at once, leaving decodable as is.
RECURSIVE PeelFrom(_, _)
PeelFrom(d, didx) ==
  IF didx >= Len(d.decodable)
  THEN [dec |-> [d EXCEPT !.decodable = <<>>], result |-> "Ok"]
  ELSE LET sym     == d.coded[d.decodable[didx + 1] + 1]
           new_sym == [symbol |-> Xor(Zero, sym.symbol), hash |-> sym.hash]
       IN  CASE sym.count = 1  -> PeelFrom(PeelOne(d, new_sym, REMOVE), didx + 1)
             [] sym.count = -1 -> PeelFrom(PeelOne(d, new_sym, ADD), didx + 1)
             [] sym.count = 0  -> PeelFrom([d EXCEPT !.num_decoded = @ + 1], didx + 1)
             [] OTHER -> [dec |-> d, result |-> "InvalidDegree"]

TryDecode(d) == PeelFrom(d, 0)

Decoded(d) == d.num_decoded = Len(d.coded)

-----------------------------------------------------------------------------
(***************************************************************************)
(* A decoder's three encoders stay in step with the cells it received:    *)
(* window, remote and local have each produced exactly Len(coded) cells   *)
(* (add_coded_symbol advances all three), and no scheduled contribution of *)
(* any of them lies behind its next_idx, where apply_window, which only   *)
(* applies a heap root equal to next_idx, would never reach it again.  A  *)
(* symbol found by try_decode joins remote or local long after index 0,   *)
(* so this holds only if it is added with its mapping already advanced    *)
(* past the received cells.  Sessions assert it of their decoder.         *)
(***************************************************************************)
DecoderAligned(d) ==
  \A e \in {d.window, d.remote, d.local} :
    /\ e.next_idx = Len(d.coded)
    /\ \A q \in ToSet(e.queue) : q.coded_idx >= e.next_idx

-----------------------------------------------------------------------------
\* Reference peeling over the first n cells: repeatedly take every symbol
\* of D that is, among the symbols not yet taken, alone in some cell.
RECURSIVE PeelClosure(_, _, _)
PeelClosure(D, n, P) ==
  LET Alone(v) == \E k \in 0 .. n - 1 :
                    {u \in D \ P : Contributes(Hash(u), k)} = {v}
      found == {v \in D \ P : Alone(v)}
  IN  IF found = {} THEN P ELSE PeelClosure(D, n, P \cup found)

RefPeeled(D, n) == PeelClosure(D, n, {})

=============================================================================
