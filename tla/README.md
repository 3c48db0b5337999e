# TLA+ models of the rateless IBLT (`src/packages/utils/rateless-iblt`)

This directory holds TLA+ models of the Rust rateless invertible Bloom lookup
table in `src/packages/utils/rateless-iblt/src`: the encoding and decoding of
coded symbols (`encoding.rs`), the fixed-size sketch (`sketch.rs`) and the
wasm bindings a JavaScript host drives them through (`wasm.rs`). The
configurations let the TLC model checker check them. `spec.md` at the
repository root describes the intended behaviour.

## 1. The system

| Part | Source | State | Operations |
|---|---|---|---|
| Symbol | `encoding.rs` 9-13; `testing.rs` 16-50 | none (a trait) | `zero`, `xor`, `hash` (SipHash for `u64` and for 64-byte arrays) |
| RandomMapping | `encoding.rs` 34-38, 70-81 | `prng`, `last_idx` | `next_index`: a u64/f64 recurrence that yields a strictly increasing index sequence (in practice) starting at 0 |
| CodedSymbol | `encoding.rs` 46-51, 83-89 | `symbol`, `hash`, `count: i64` | `apply(sym, ±1)` |
| Encoder | `encoding.rs` 53-59, 91-262 | `symbols`, `mappings`, `queue` (array min-heap of `(source_idx, coded_idx)`), `next_idx` | `new`, `reset`, `add_symbol`, `remove_symbol`, `produce_next_coded_symbol` (through `apply_window`), and the heap helpers |
| Decoder | `encoding.rs` 61-68, 264-397 | `coded`, `local`, `remote` and `window` encoders, `decodable` queue, `num_decoded` | `new`, `reset`, `add_symbol`, `add_coded_symbol`, `try_decode` (through `apply_new_symbol`), `decoded`, `get_remote_symbols`, `get_local_symbols`; `Encoder::to_decoder` |
| Sketch | `sketch.rs` | `v`: a fixed-length vector of cells | `new(m)`, `add_symbol`, `remove_symbol`, `subtract`, `decode` |
| wasm bindings | `wasm.rs` | `EncoderWrapper` and `DecoderWrapper`, each owning one Encoder or Decoder over `u64` | `new`, `add_symbol(s)`, `produce_next_coded_symbol`, `reset`, `to_decoder`, `clone`; `add_coded_symbol`, `try_decode` (errors as strings), `decoded`, the symbol getters |
| bench | `benches/riblt_bench.rs` | — | timing only |

**How the parts interact.**
- Party A adds its set to an Encoder and then streams `produce_next_coded_symbol()` cells.
- Party B adds its set to a Decoder. Its `window` encoder produces B's own cell for the same index, and `add_coded_symbol` subtracts that cell from each received cell.
- The `remote` and `local` encoders subtract the symbols found so far. A cell that is then *pure* (count ±1 with a matching hash, or empty) is queued in `decodable`.
- `try_decode` peels the queued cells. Each found symbol is removed from every received cell it maps to (`apply_new_symbol`). Cells that become pure are queued in turn, which is the cascade.
- `decoded()` compares `num_decoded` with the number of received cells.
- Through the wasm bindings a host may also build B's decoder with `to_decoder`: the decoder's `window` is then a clone of B's encoder, including its `next_idx`.
- A Sketch is the fixed-size form of the same cells. `decode` feeds every cell to a fresh Decoder and peels once.

**What makes the code hard to test.** Each of these is a `hazards` entry in `PROJECT.json`, at the line where it bites.
- The heap root must stay in step with `next_idx`. This breaks when adds come after production has started, and when `remove_symbol` shifts indices and rebuilds the heap.
- Cells queued as pure are processed after later peels have changed them.
- The cascade must queue every cell that becomes degree-one.
- The `InvalidDegree` path returns without clearing `decodable`, so a retry counts some cells twice.
- `decoded()` is vacuously true when there are no cells. This includes a size-0 sketch.
- The u64/f64 index recurrence can repeat or wrap.
- Hash collisions.
- `to_decoder` can clone an encoder that has already produced cells.

## 2. Modules

| Module | Models | Notes |
|---|---|---|
| `Encoding` | the data structures and every operation of `encoding.rs`, as pure operators over records and sequences | shared by all modules |
| `CodedStream` | the abstract Encoder: spec.md's promise that cell *k* is the XOR and signed count of the current symbols whose mapping hits *k* | abstract specification |
| `Encoder` | one Encoder driven by its caller (`add_symbol`, `remove_symbol`, `produce_next_coded_symbol`, `reset`) | refines `CodedStream` |
| `Reconcile` | a session: Encoder of A → in-order stream → Decoder of B, with `try_decode` whenever B's caller chooses | |
| `DecoderSpec` | the abstract Decoder: what `get_remote_symbols` and `get_local_symbols` return is a growing subset of A\B and of B\A; `reset` empties both and may start a session between other sets | abstract specification |
| `WasmSession` | a session driven through `wasm.rs`: `add_symbols` on both parties' `EncoderWrapper` (or, for A, one `add_symbol` per element before it produces), A's stream to B, B's decoder built by `to_decoder` or by `DecoderWrapper::new` and `add_symbol`, `try_decode`, and the host's new round (`reset` on every wrapper, in-flight cells dropped) | refines `DecoderSpec` |
| `Sketch` | two sketches and their callers: add, remove, subtract, decode | |
| `TestSymbol` | the 64-byte `TestSymbol` of `testing.rs`: `new_test_symbol`, `zero`, `xor`, byte for byte, with a history variable `val` for the u64 the symbol stands for | checked against a little-endian reference |
| `MCEncoder`, `MCReconcile`, `MCSketch`, `MCWasmSession` | the TLC instances (symmetry over base symbols) | |

**Data abstraction.**
- A symbol value is a set of base symbols (`Sym` holds model values).
  - `xor` is symmetric difference, and `zero` is `{}`.
  - Every value the code can build from `xor` is represented.
- The hash of a base symbol `{s}` is `{s}`. Any other value hashes to `{NoHash}`. So SipHash is taken to be collision free, and the purity test `hash == symbol.hash()` holds exactly for single base symbols.
  - The XOR of hashes of distinct base symbols is their union.
  - The empty hash is the code's hash `0`.
- `count` is an unbounded integer. It never approaches the i64 range here.
- Indices are 0-based as in the code. A Rust `v[i]` is the TLA+ `v[i+1]`.

**RandomMapping.** `next_index` multiplies a u64 with wrapping and takes f64 square roots. Neither fits TLC, so the mapping is abstracted:
- The variable `hits` is chosen in `Init` and never changes.
- It gives every base symbol an arbitrary subset of `1..MaxIdx`. Index 0 is always hit, since `last_idx` starts at 0.
- `NextIndex` returns the next member above `last_idx`. When there is none it returns `Parked = 2*Horizon+1` (with `Horizon = MaxIdx+1`, beyond which a party produces nothing). `Parked` lies beyond every index any encoder, window or decoder cell can reach, so a parked entry never becomes due: a window cloned by `to_decoder` counts past `Horizon` and must not meet it.
- Checking all choices of `hits` therefore covers every strictly increasing mapping truncated at the horizon.
- The code's actual sequence is one of these. The caveat in hazard `encoding.rs:74` concerns sequences that are not strictly increasing.

**Correspondence of actions to code.**
- Each action is one whole public call, atomic, as the Rust code is single-threaded (`&mut self`).
- Internal loops are RECURSIVE operators that follow the loop line by line:
  - the sift-up in `add_hashed_symbol_with_mapping` → `SiftUp`;
  - the `while` of `apply_window` → `WindowLoop`;
  - `heapify_down` → `HeapifyDown`;
  - the loop of `apply_new_symbol` → `NewSymbolLoop`;
  - the loop of `try_decode` → `PeelFrom`. Its growing `decodable` is read at each iteration, and the `Err` return leaves `decodable` as it is.
- `map` in `PROJECT.json` gives the lines of every definition.

## 3. Runs

| Run | Cfg | Checks | Result |
|---|---|---|---|
| `encoder` | `MCEncoder.cfg` | `TypeOK`, `HeapOrdered`, `ScheduleConsistent`, `ImplementsCodedStream` | pass (≈420k states) |
| `encoder_late_add` | `MCEncoderLateAdd.cfg` | `ImplementsCodedStream` with adds after production | **violation** |
| `reconcile` | `MCReconcile.cfg` | `TypeOK`, `DecoderStaysAligned`, `DecodeSound`, `PeelingMatchesReference`, `DecodedIffComplete`, `NeverInvalidDegree` | pass (≈1.4M states) |
| `reconcile_live` | `MCReconcileLive.cfg` | `ReconcileTerminates` under fairness | pass (≈98k states) |
| `sketch` | `MCSketch.cfg` | `TypeOK`, `CellsMatchContent`, `SketchDecodeSound` | pass (≈135k states) |
| `sketch_empty` | `MCSketchEmpty.cfg` | `SketchDecodeSound` with size-0 sketches | **violation** |
| `wasm_session` | `MCWasmSession.cfg` | `TypeOK`, `CountedOnce`, `WasmImplementsDecoderSpec` | pass (≈404k states) |
| `wasm_session_live` | `MCWasmSessionLive.cfg` | `WasmTerminates` under fairness | pass (≈111k states) |
| `test_symbol` | `TestSymbol.cfg` | `SymbolEncodesValue` | pass (256 states) |
| `wasm_early_produce` | `MCWasmEarlyProduce.cfg` | `WasmImplementsDecoderSpec` when B's encoder may produce before `to_decoder` | **violation** |

**The properties.**
- **`HeapOrdered`, `ScheduleConsistent`** (Encoder). The queue is a min-heap on `coded_idx`. It holds one entry per symbol. The entry of symbol *i* carries exactly the next index at which its mapping is due, and that index is the mapping's `last_idx`. Together these are the invariant that lets `apply_window` stop at the first root that is not due.
- **`ImplementsCodedStream`**. The Encoder refines the abstract `CodedStream` under the refinement mapping `symbols <- enc.symbols, next_idx <- enc.next_idx`. Every produced cell equals the ideal cell of the current symbol list, through any sequence of adds, removes and resets.
- **`DecoderStaysAligned`** (Reconcile; the operator `DecoderAligned` of `Encoding`). The decoder's `window`, `remote` and `local` encoders have each produced exactly as many cells as were received, and no heap entry of any of them lies behind its `next_idx`. A symbol that `try_decode` finds joins `remote` or `local` long after index 0. Only the mapping that `apply_new_symbol` advanced past the received cells keeps it schedulable (`encoding.rs:354`, `365`); with a fresh mapping, later cells would never have it cancelled. In the `wasm_early_produce` counterexample it is exactly this alignment that `to_decoder` breaks.
- **`DecodeSound`**. What the decoder reports is in A\B (remote) or B\A (local), each symbol once, with its own hash.
- **`PeelingMatchesReference`**. Whenever `decodable` is empty, the decoder has found exactly what a reference peeling of the ideal cells finds. The reference (`RefPeeled`) is written independently as a fixpoint over sets.
- **`DecodedIffComplete`**. Once a cell was received and none awaits peeling, `decoded()` holds exactly when the whole difference is known.
- **`NeverInvalidDegree`**. `try_decode` never returns `InvalidDegree` on an honest stream, although it acts on purity tests made earlier.
- **`WasmImplementsDecoderSpec`**. `WasmSession` refines `DecoderSpec` under the mapping `remoteSet <- symbols of dec.remote, localSet <- symbols of dec.local`. The reported lists only grow, only with members of the right difference, until a host reset; this holds whichever way B's decoder was built, and across rounds between changed sets. `Reconcile` is not checked against `DecoderSpec`: it has no reset and fixed sets, so there the refinement says no more than `DecodeSound`.
- **`CountedOnce`** (WasmSession). `num_decoded` never exceeds the cells received, so `decoded()` true means every cell was explained: a peeled cell is never queued and counted again, also not after a reset.
- **`WasmTerminates`** (WasmSession). Under a fair host, every round whose difference reference peeling of all `Horizon` cells finds ends with `decoded()` true and the getters returning the whole difference, unless the host ends the round first. It covers both ways of building B's decoder.
- **`SymbolEncodesValue`** (TestSymbol). After any sequence of `new_test_symbol` and `xor` calls, byte *i* of the symbol is digit *i* in base 256 of the XOR of the inputs, so bytes 8..63 are zero. This is what `checked_shr` guarantees where a plain shift by 64 or more bits would panic or wrap. It also justifies modelling both symbol types with one xor algebra.
- **`ReconcileTerminates`**. If peeling all `MaxIdx+1` cells recovers the difference, a fair caller ends with `decoded()` true forever.
- **`CellsMatchContent`** (Sketch). Each cell is the XOR, hash XOR and signed count of the sketch's content, which is history variable `cnt`, restricted to the symbols mapped to that cell. This holds through add, remove, subtract and `InvalidSize`.
- **`SketchDecodeSound`**. Decoding a sketch whose content is a set difference returns no error. It returns only +1 symbols as `fwd` and only −1 symbols as `rev`, and all of them when `is_decoded` is true.

Every property of a passing run has a mutant in `PROJECT.json`: a plausible bug in the mapped definition that TLC catches. Examples are heapify comparing only the left child, `remove_symbol` without the index shift, `apply_window` with `if` instead of `while`, the cascade without the queue push, subtract adding counts, the cascade queuing cells that became empty, and `Decoder::reset` that forgets `remote`, a found symbol recorded with a fresh mapping, and `new_test_symbol` with a wrapping shift.

**Findings.**
1. **Late adds are lost.**
   - `add_hashed_symbol_with_mapping` queues a new symbol at `coded_idx = 0` (`encoding.rs:114`). `apply_window` only applies roots whose `coded_idx == next_idx` (line 155).
   - After the first produce, an added symbol therefore never appears. Once its entry is the root, no symbol appears again.
   - Counterexample: produce cell 0; add `s3`, whose mapping hits 1; produce cell 1. Cell 1 is empty instead of holding `s3`.
   - spec.md §8, property 8, says the stream equals that of a fresh encoder over the net set.
2. **A size-0 sketch claims success.**
   - `Sketch::new(0)`, then `add_symbol`, then `decode` returns `is_decoded = true` with empty `fwd` and `rev`.
   - The cause is `num_decoded == coded.len()`, which is `0 == 0`.
   - spec.md §8, S5, expects `false` when the sketch is too small.

3. **`to_decoder` of an encoder that has produced is misaligned.**
   - `Encoder::to_decoder` (`encoding.rs:264`, `wasm.rs:89`) clones the whole encoder, `next_idx` included.
   - If B's encoder has already streamed cells to A (a two-way sync), the window starts past index 0, and A's cell 0 is not cancelled by B's cell 0.
   - Counterexample: A = B = {s1}; B produces one cell, then `to_decoder`; A's cell 0 arrives; `try_decode` reports `s1` as remote although B has it.
   - spec.md does not describe `to_decoder`; §8 property 5 says decoding with B yields exactly A\B and B\A. With `EarlyProduce = FALSE` (B produces only after `to_decoder`) the `wasm_session` run shows the refinement holds.

## 4. Bounds and why they are enough

**Base symbols.** There are three, `{s1,s2,s3}`. This gives sets with symbols in A only, in B only and in both. It gives cells holding 0–3 symbols, so a cell can be pure only after one or two peels, which is the cascade.

**Horizon.**
- `MaxIdx = 3` (4 cells) for `Encoder`, `Reconcile` and the liveness run, and `MaxIdx = 2` for `Sketch`.
- The liveness run uses two base symbols. A difference of two symbols that share cell 0 still needs a cascade: one is peeled from a cell it has alone, and that frees the other in cell 0. Fairness checking over three symbols takes minutes per run.
- With every mapping shape, this covers:
  - symbols that share all cells (undecodable);
  - symbols that collide in cell 0 only;
  - chains that need a cascade.
- Mappings that hit no index in range reproduce the "stream too short" case.

**WasmSession.** Two base symbols and `MaxIdx = 3`: sets in A only, in B only and in both, cells shared by both symbols, and a decoder built either way. Three symbols take over seven minutes. The early-produce run needs only one symbol for its counterexample and uses two with `MaxIdx = 2`. A host round ends in a `Restart`; as it leads back to initial-like states, rounds need no bound.

**WasmSession liveness.** Two base symbols and `MaxIdx = 2`, without symmetry (unsound with liveness). With `MaxIdx = 3` the run passes as well but takes over nine minutes.

**TestSymbol.** The real sizes (64 bytes, 64-bit `x`). The inputs are eight values below 2^30 (TLC's integers end at 2^31 − 1), chosen so that every one of the low four bytes takes a non-zero value and their XOR span has 256 members. Bytes 4..7 of a u64 are then always 0, but the edge the property is about, shifts of 64 bits and more from byte 8 on, is independent of the value. `x >> s` is modelled as `x ÷ 2^s`, and as 0 once `s ≥ 31`, which is exact for these inputs.

**Other bounds.**
- `MaxSyms = 3` bounds the encoder's list. Repeated adds of the same value give duplicates in the list.
- Sketch sizes `{2,3}`. Two sizes are needed for `subtract`'s `InvalidSize` branch.
- `MaxCount = 1` keeps the contents in the set-difference range.
  - With `MaxCount = 2` the run takes over four minutes, and counts ±2 lie outside `SketchDecodeSound`'s premise anyway.
  - `CellsMatchContent` is a linear identity, and linearity shows at count ±1.

**Symmetry.** Symmetry over `Sym` is sound because no operation inspects a base symbol. It is used only in safety runs.

## 5. Fairness

The liveness run assumes that B's caller keeps calling:
- adds until its set is in;
- `add_coded_symbol` while cells are on the wire;
- `try_decode` while it would change the decoder.

A's caller likewise keeps producing up to the horizon. `WasmSession`'s `FairSpec` asks the same of a JS host: A adds and streams, and B adds to its decoder, absorbs every cell and retries `try_decode`. Nothing forces a host round (`Restart`), B's own stream, or how B builds its decoder; `WasmTerminates` therefore lets a round end early. This is weak fairness of each call: the library has no scheduler of its own, and a session that wants the difference loops exactly like this (spec.md §5).

Weak fairness is written as `[]<>~En \/ []<><<A>>_vars` with explicit state predicates `En`, instead of `WF_vars(A)`. That way TLC does not evaluate `ENABLED` over the recursive operators: with `WF_vars` the `reconcile_live` run did not finish in 30 minutes, against 15 seconds with the explicit form. This is equivalent because every action is deterministic once its guard holds.

## 6. Not modelled, and the plan

**Not modelled.**
- The arithmetic of `next_index`, as explained above.
- SipHash itself and its collisions (`testing.rs` 26-30, 44-49): the hash is taken to be injective.
- The JS conversions in `wasm.rs` (the cells cross the transport as values), `EncoderWrapper::clone` (a value copy sharing nothing), and `EncoderWrapper::add_symbol` after production has begun (the same `Encoder` call as the `encoder_late_add` run).
- Duplicated, lost or reordered cells: the code has no defence against them and spec.md §6 requires an in-order, gap-free transport.
- The benchmarks.
- `TestSymbol`'s hash (SipHash over the 64 bytes); its constructor, zero and xor are the `TestSymbol` module.

**Further work**, in order of value:
1. **Resets inside `Reconcile`.** `PeelingMatchesReference` across a host round, as `WasmSession` does for the refinement.
2. **Late decoder adds** (hazard `encoding.rs:293`): spec.md §5 makes the behaviour after interleaving undefined, so this stays out of the sessions.
3. **The `InvalidDegree` retry.** It needs a corrupt or colliding stream, which the honest transport never produces (`encoding.rs:374`).
