------------------------------ MODULE Reconcile ------------------------------
(***************************************************************************)
(* A rateless reconciliation session (spec.md 2, 4.4, 4.5, 5): party A    *)
(* feeds its set setA to an Encoder (sender) and streams coded symbols;   *)
(* party B feeds its set setB to a Decoder (dec), then absorbs the stream *)
(* in order with add_coded_symbol and peels with try_decode whenever its  *)
(* caller chooses.  wire is the in-order transport (spec.md 6: order is   *)
(* preserved); result is what the last try_decode returned.               *)
(***************************************************************************)
EXTENDS Encoding

VARIABLES setA, setB, sender, dec, wire, result

vars == <<hits, setA, setB, sender, dec, wire, result>>

SymbolsOf(e) == {x.symbol : x \in ToSet(e.symbols)}

Init ==
  /\ hits \in [BaseSymbols -> SUBSET (1 .. MaxIdx)]
  /\ setA \in SUBSET BaseSymbols
  /\ setB \in SUBSET BaseSymbols
  /\ sender = NewEncoder
  /\ dec = NewDecoder
  /\ wire = <<>>
  /\ result = "none"

\* A's caller adds its set, one Encoder::add_symbol per element, before it
\* produces anything.
SenderAdd(v) ==
  /\ v \in setA \ SymbolsOf(sender)
  /\ sender.next_idx = 0
  /\ sender' = AddSymbol(sender, v)
  /\ UNCHANGED <<hits, setA, setB, dec, wire, result>>

\* B's caller adds its set with Decoder::add_symbol before any coded symbol
\* (spec.md 5).
DecoderAdd(v) ==
  /\ v \in setB \ SymbolsOf(dec.window)
  /\ dec.coded = <<>>
  /\ dec' = DecoderAddSymbol(dec, v)
  /\ UNCHANGED <<hits, setA, setB, sender, wire, result>>

\* Encoder::produce_next_coded_symbol, the cell put on the wire.
Produce ==
  /\ SymbolsOf(sender) = setA
  /\ sender.next_idx < Horizon
  /\ LET r == ProduceNextCodedSymbol(sender)
     IN  /\ sender' = r[1]
         /\ wire' = Append(wire, r[2])
  /\ UNCHANGED <<hits, setA, setB, dec, result>>

\* Decoder::add_coded_symbol on the next cell of the stream.
Receive ==
  /\ wire # <<>>
  /\ SymbolsOf(dec.window) = setB
  /\ dec' = AddCodedSymbol(dec, Head(wire))
  /\ wire' = Tail(wire)
  /\ UNCHANGED <<hits, setA, setB, sender, result>>

\* Decoder::try_decode
CallTryDecode ==
  /\ LET r == TryDecode(dec)
     IN  /\ dec' = r.dec
         /\ result' = r.result
  /\ UNCHANGED <<hits, setA, setB, sender, wire>>

Next ==
  \/ \E v \in BaseSymbols : SenderAdd(v) \/ DecoderAdd(v)
  \/ Produce
  \/ Receive
  \/ CallTryDecode

(***************************************************************************)
(* A caller that wants the difference keeps adding, streaming and          *)
(* decoding: weak fairness of every call.  WF_vars(A) is written out as    *)
(* []<>~En \/ []<><<A>>_vars with En the state predicate under which A    *)
(* makes a step (each action is deterministic once its guard holds), so    *)
(* that TLC need not evaluate ENABLED over the recursive operators.        *)
(***************************************************************************)
SenderAddEn(v) == v \in setA \ SymbolsOf(sender) /\ sender.next_idx = 0
DecoderAddEn(v) == v \in setB \ SymbolsOf(dec.window) /\ dec.coded = <<>>
ProduceEn == SymbolsOf(sender) = setA /\ sender.next_idx < Horizon
ReceiveEn == wire # <<>> /\ SymbolsOf(dec.window) = setB
TryDecodeEn == TryDecode(dec) # [dec |-> dec, result |-> result]

Fairness ==
  /\ \A v \in BaseSymbols : ([]<>~SenderAddEn(v) \/ []<><<SenderAdd(v)>>_vars)
  /\ \A v \in BaseSymbols : ([]<>~DecoderAddEn(v) \/ []<><<DecoderAdd(v)>>_vars)
  /\ ([]<>~ProduceEn \/ []<><<Produce>>_vars)
  /\ ([]<>~ReceiveEn \/ []<><<Receive>>_vars)
  /\ ([]<>~TryDecodeEn \/ []<><<CallTryDecode>>_vars)

Spec == Init /\ [][Next]_vars

FairSpec == Spec /\ Fairness

-----------------------------------------------------------------------------
RemoteSet == SymbolsOf(dec.remote)
LocalSet == SymbolsOf(dec.local)
Diff == SymDiff(setA, setB)

TypeOK ==
  /\ setA \subseteq BaseSymbols /\ setB \subseteq BaseSymbols
  /\ wire \in Seq([symbol : SUBSET Sym, hash : SUBSET Sym, count : Nat])
  /\ dec.coded \in Seq([symbol : SUBSET Sym, hash : SUBSET Sym, count : Int])
  /\ dec.decodable \in Seq(0 .. MaxIdx)
  /\ dec.num_decoded \in Nat
  /\ result \in {"none", "Ok", "InvalidDegree"}

(***************************************************************************)
(* Soundness: every symbol get_remote_symbols returns is in A but not B,  *)
(* every one get_local_symbols returns is in B but not A, each is         *)
(* reported once and carries its own hash.  Peeling acts on cells whose    *)
(* purity was tested when they were queued, possibly many peels earlier.  *)
(***************************************************************************)
DecodeSound ==
  /\ RemoteSet \subseteq setA \ setB
  /\ LocalSet \subseteq setB \ setA
  /\ Len(dec.remote.symbols) = Cardinality(RemoteSet)
  /\ Len(dec.local.symbols) = Cardinality(LocalSet)
  /\ \A x \in ToSet(dec.remote.symbols) \cup ToSet(dec.local.symbols) :
       x.hash = Hash(x.symbol)

(***************************************************************************)
(* Whenever no cell awaits peeling, the decoder has found exactly the     *)
(* symbols that peeling the received cells can find (a reference peeling  *)
(* over the ideal cells): cascading discovery through apply_new_symbol,   *)
(* and the cancelling of found symbols from later cells by the remote and *)
(* local encoders, miss nothing and invent nothing.                       *)
(***************************************************************************)
PeelingMatchesReference ==
  dec.decodable = <<>> =>
    RemoteSet \cup LocalSet = RefPeeled(Diff, Len(dec.coded))

(***************************************************************************)
(* decoded() is true, once a cell was received and none awaits peeling,   *)
(* exactly when the whole difference has been recovered: num_decoded      *)
(* counts each explained cell once, and cell 0 holds every symbol.        *)
(***************************************************************************)
DecodedIffComplete ==
  (dec.coded # <<>> /\ dec.decodable = <<>>) =>
    (Decoded(dec) <=> (RemoteSet = setA \ setB /\ LocalSet = setB \ setA))

(***************************************************************************)
(* try_decode never fails with InvalidDegree on an honest stream: a cell  *)
(* queued as pure is still pure or empty when its turn comes.             *)
(***************************************************************************)
NeverInvalidDegree == result # "InvalidDegree"

(***************************************************************************)
(* Liveness: if peeling all MaxIdx+1 cells recovers the difference, a     *)
(* caller that keeps streaming and decoding ends with decoded() true.     *)
(***************************************************************************)
ReconcileTerminates ==
  RefPeeled(Diff, Horizon) = Diff => <>[](dec.coded # <<>> /\ Decoded(dec))

\* B's decoder keeps window, remote and local aligned with the cells it
\* received, through every add_coded_symbol and try_decode
\* (Encoding's DecoderAligned).
DecoderStaysAligned == DecoderAligned(dec)

=============================================================================
