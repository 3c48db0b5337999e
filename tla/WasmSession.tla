----------------------------- MODULE WasmSession -----------------------------
(***************************************************************************)
(* A reconciliation driven through the wasm bindings (src/.../wasm.rs),   *)
(* the way a host uses them: each party fills an EncoderWrapper with one  *)
(* add_symbols call; the decoding party B turns its encoder into a        *)
(* DecoderWrapper with to_decoder, and may also stream its own encoder to *)
(* the other side; A's coded symbols cross a transport to B's decoder,    *)
(* which calls try_decode whenever it likes.  B's host may instead build *)
(* its decoder with DecoderWrapper::new and one add_symbol per element.  *)
(* The transport keeps order and loses nothing (spec.md 6).               *)
(***************************************************************************)
EXTENDS Encoding

CONSTANT EarlyProduce      \* may B's encoder produce before to_decoder?

VARIABLES setA, setB,      \* the parties' sets
          encA, encB,      \* the EncoderWrappers of A and B
          opened,          \* has B's host built its decoder?
          dec,             \* B's DecoderWrapper (meaningful once opened)
          wire,            \* A's coded symbols in transit to B, in order
          result           \* what B's last try_decode returned

vars == <<hits, setA, setB, encA, encB, opened, dec, wire, result>>

SymbolsOf(e) == {x.symbol : x \in ToSet(e.symbols)}

\* EncoderWrapper::add_symbols: add_symbol for each element, in the order
\* of the Vec.
AddSymbols(e, s) == FoldLeft(AddSymbol, e, s)

Init ==
  /\ hits \in [BaseSymbols -> SUBSET (1 .. MaxIdx)]
  /\ setA \in SUBSET BaseSymbols
  /\ setB \in SUBSET BaseSymbols
  /\ encA = NewEncoder
  /\ encB = NewEncoder
  /\ opened = FALSE
  /\ dec = NewDecoder
  /\ wire = <<>>
  /\ result = "none"

\* A's host passes its whole set, in some order, to add_symbols once.
AAddSymbols ==
  /\ encA.symbols = <<>> /\ setA # {}
  /\ \E s \in SetToSeqs(setA) : encA' = AddSymbols(encA, s)
  /\ UNCHANGED <<hits, setA, setB, encB, opened, dec, wire, result>>

\* ... or one EncoderWrapper::add_symbol per element, before it produces.
AAddSymbol(v) ==
  /\ v \in setA \ SymbolsOf(encA) /\ encA.next_idx = 0
  /\ encA' = AddSymbol(encA, v)
  /\ UNCHANGED <<hits, setA, setB, encB, opened, dec, wire, result>>

BAddSymbols ==
  /\ encB.symbols = <<>> /\ setB # {} /\ ~opened
  /\ \E s \in SetToSeqs(setB) : encB' = AddSymbols(encB, s)
  /\ UNCHANGED <<hits, setA, setB, encA, opened, dec, wire, result>>

\* EncoderWrapper::produce_next_coded_symbol on A's encoder, sent to B.
AProduce ==
  /\ SymbolsOf(encA) = setA
  /\ encA.next_idx < Horizon
  /\ LET r == ProduceNextCodedSymbol(encA)
     IN  /\ encA' = r[1]
         /\ wire' = Append(wire, r[2])
  /\ UNCHANGED <<hits, setA, setB, encB, opened, dec, result>>

\* B streams its own encoder to A (the other direction of a two-way sync;
\* A's use of it is not modelled).  Only after to_decoder unless
\* EarlyProduce.
BProduce ==
  /\ SymbolsOf(encB) = setB
  /\ opened \/ EarlyProduce
  /\ encB.next_idx < Horizon
  /\ encB' = ProduceNextCodedSymbol(encB)[1]
  /\ UNCHANGED <<hits, setA, setB, encA, opened, dec, wire, result>>

\* EncoderWrapper::to_decoder: B's decoder gets a clone of its encoder.
BToDecoder ==
  /\ ~opened
  /\ SymbolsOf(encB) = setB
  /\ opened' = TRUE
  /\ dec' = ToDecoder(encB)
  /\ UNCHANGED <<hits, setA, setB, encA, encB, wire, result>>

\* DecoderWrapper::new, the other way to build B's decoder ...
BNewDecoder ==
  /\ ~opened
  /\ opened' = TRUE
  /\ dec' = NewDecoder
  /\ UNCHANGED <<hits, setA, setB, encA, encB, wire, result>>

\* ... followed by DecoderWrapper::add_symbol of each element of B, before
\* any coded symbol (spec.md 5).
BDecoderAdd(v) ==
  /\ opened /\ dec.coded = <<>>
  /\ v \in setB \ SymbolsOf(dec.window)
  /\ dec' = DecoderAddSymbol(dec, v)
  /\ UNCHANGED <<hits, setA, setB, encA, encB, opened, wire, result>>

\* DecoderWrapper::add_coded_symbol, once B's decoder holds B's set.
BReceive ==
  /\ opened /\ wire # <<>> /\ SymbolsOf(dec.window) = setB
  /\ dec' = AddCodedSymbol(dec, Head(wire))
  /\ wire' = Tail(wire)
  /\ UNCHANGED <<hits, setA, setB, encA, encB, opened, result>>

\* DecoderWrapper::try_decode: the Err is turned into a string for the host.
ErrorString(r) == IF r = "InvalidDegree" THEN "Invalid degree" ELSE r

BTryDecode ==
  /\ opened
  /\ LET r == TryDecode(dec)
     IN  /\ dec' = r.dec
         /\ result' = ErrorString(r.result)
  /\ UNCHANGED <<hits, setA, setB, encA, encB, opened, wire>>

\* EncoderWrapper::reset (Encoder::reset): symbols, mappings and queue are
\* cleared and next_idx is 0, i.e. a new encoder.
EncoderWrapperReset(e) == NewEncoder

\* A new round of the host: A's and B's EncoderWrapper::reset and B's
\* DecoderWrapper::reset, the coded symbols still in transit dropped, and
\* the parties' sets possibly changed since.  B's host then builds its
\* decoder again.
Restart ==
  /\ opened
  /\ setA' \in SUBSET BaseSymbols
  /\ setB' \in SUBSET BaseSymbols
  /\ encA' = EncoderWrapperReset(encA)
  /\ encB' = EncoderWrapperReset(encB)
  /\ dec' = DecoderReset(dec)
  /\ opened' = FALSE
  /\ wire' = <<>>
  /\ result' = "none"
  /\ UNCHANGED hits

Next ==
  \/ AAddSymbols \/ \E v \in BaseSymbols : AAddSymbol(v)
  \/ BAddSymbols \/ AProduce \/ BProduce
  \/ BToDecoder \/ BNewDecoder \/ \E v \in BaseSymbols : BDecoderAdd(v)
  \/ BReceive \/ BTryDecode \/ Restart

Spec == Init /\ [][Next]_vars

(***************************************************************************)
(* A host that wants the difference keeps calling: A adds and streams, B  *)
(* adds to its decoder, absorbs every cell and retries try_decode.  Weak   *)
(* fairness of each of these calls, written out as []<>~En \/ []<><<A>>_v *)
(* with En the state predicate under which the call changes something.    *)
(* Nothing forces a host round (Restart), B's own stream or the choice of *)
(* how B builds its decoder.                                               *)
(***************************************************************************)
AAddEn == encA.symbols = <<>> /\ setA # {}
AAddOneEn(v) == v \in setA \ SymbolsOf(encA) /\ encA.next_idx = 0
AProduceEn == SymbolsOf(encA) = setA /\ encA.next_idx < Horizon
BDecoderAddEn(v) == opened /\ dec.coded = <<>> /\ v \in setB \ SymbolsOf(dec.window)
BReceiveEn == opened /\ wire # <<>> /\ SymbolsOf(dec.window) = setB
BTryDecodeEn == opened /\ TryDecode(dec).dec # dec

Fairness ==
  /\ ([]<>~AAddEn \/ []<><<AAddSymbols>>_vars)
  /\ \A v \in BaseSymbols : ([]<>~AAddOneEn(v) \/ []<><<AAddSymbol(v)>>_vars)
  /\ ([]<>~AProduceEn \/ []<><<AProduce>>_vars)
  /\ \A v \in BaseSymbols : ([]<>~BDecoderAddEn(v) \/ []<><<BDecoderAdd(v)>>_vars)
  /\ ([]<>~BReceiveEn \/ []<><<BReceive>>_vars)
  /\ ([]<>~BTryDecodeEn \/ []<><<BTryDecode>>_vars)

FairSpec == Spec /\ Fairness

-----------------------------------------------------------------------------
RemoteSet == SymbolsOf(dec.remote)
LocalSet == SymbolsOf(dec.local)

\* DecoderWrapper::decoded
HostDecoded == Decoded(dec)

TypeOK ==
  /\ encA.next_idx \in 0 .. Horizon /\ encB.next_idx \in 0 .. Horizon
  /\ opened \in BOOLEAN
  /\ wire \in Seq([symbol : SUBSET Sym, hash : SUBSET Sym, count : Nat])
  /\ result \in {"none", "Ok", "Invalid degree"}

(***************************************************************************)
(* What B's host reads back through get_remote_symbols and               *)
(* get_local_symbols implements the abstract DecoderSpec: a growing       *)
(* subset of A \ B and of B \ A, whichever way the decoder was built,    *)
(* though one built by to_decoder is a clone of an encoder that also      *)
(* streams to A.                                                          *)
(***************************************************************************)
AbsDecoder == INSTANCE DecoderSpec
                WITH Universe <- BaseSymbols, remoteSet <- RemoteSet, localSet <- LocalSet

WasmImplementsDecoderSpec == AbsDecoder!Spec

(***************************************************************************)
(* decoded() never over-counts: num_decoded stays within the cells        *)
(* received, so decoded() true means every received cell was explained    *)
(* (spec.md 4.5): a peeled cell is never queued and counted again.       *)
(***************************************************************************)
CountedOnce == dec.num_decoded <= Len(dec.coded)

(***************************************************************************)
(* Every round of a fair host whose difference A's stream can decode      *)
(* (reference peeling of all Horizon cells finds it) ends with decoded()   *)
(* true and the getters returning the whole difference, or is ended by    *)
(* the host.  It fails if a cell stays queued, the cascade stops early or *)
(* the decoder built by to_decoder never cancels B's own symbols.         *)
(***************************************************************************)
Diff == SymDiff(setA, setB)

WasmTerminates ==
  (opened /\ RefPeeled(Diff, Horizon) = Diff)
    ~> ( ~opened
         \/ (dec.coded # <<>> /\ HostDecoded /\ RemoteSet \cup LocalSet = Diff))

=============================================================================
