------------------------------- MODULE Sketch -------------------------------
(***************************************************************************)
(* Two fixed-size sketches (src/.../sketch.rs), one per party, driven by  *)
(* their callers: add_symbol, remove_symbol, subtract and decode, each an *)
(* atomic call.  cnt[p][v] is a history variable: the signed number of    *)
(* times base symbol v has been added to sketch p, net of removals and of *)
(* what subtract took away; it is what the sketch should encode.          *)
(***************************************************************************)
EXTENDS Encoding

CONSTANTS Sizes,    \* the sizes Sketch::new may be called with
          MaxCount  \* bound on |cnt|: repeated subtracts grow it without end

ASSUME Sizes \subseteq 0 .. Horizon

Parties == {"A", "B"}
Other(p) == IF p = "A" THEN "B" ELSE "A"

VARIABLES sk, cnt, res

vars == <<hits, sk, cnt, res>>

\* Mutant of NewSketch: one cell too many.
NewSketchOneMore(size) == [i \in 1 .. size + 1 |-> ZeroCell]

\* Sketch::new
NewSketch(size) == [i \in 1 .. size |-> ZeroCell]

\* The loop of add_hashed_symbol / remove_hashed_symbol: update every cell
\* the mapping of sym hits below the sketch's length by delta.
RECURSIVE UpdateCells(_, _, _, _)
UpdateCells(v, sym, delta, mapp) ==
  IF mapp.last_idx >= Len(v) THEN v
  ELSE UpdateCells([v EXCEPT ![mapp.last_idx + 1] = Apply(@, sym, delta)],
                   sym, delta, NextIndex(mapp))

\* Mutant of SketchRemoveHashedSymbol: the count is incremented, as in add.
SketchRemoveCountUp(v, sym) == UpdateCells(v, sym, 1, NewMapping(sym.hash))

SketchAddHashedSymbol(v, sym) == UpdateCells(v, sym, 1, NewMapping(sym.hash))

SketchRemoveHashedSymbol(v, sym) == UpdateCells(v, sym, -1, NewMapping(sym.hash))

\* Mutant of Subtract: the counts are added.
SubtractAddCounts(v, w) ==
  [i \in DOMAIN v |-> [symbol |-> Xor(v[i].symbol, w[i].symbol),
                       hash   |-> Xor(v[i].hash, w[i].hash),
                       count  |-> v[i].count + w[i].count]]

\* Sketch::subtract on cells of equal length.
Subtract(v, w) ==
  [i \in DOMAIN v |-> [symbol |-> Xor(v[i].symbol, w[i].symbol),
                       hash   |-> Xor(v[i].hash, w[i].hash),
                       count  |-> v[i].count - w[i].count]]

\* Sketch::decode: a fresh Decoder fed every cell in index order, then
\* try_decode once.
RECURSIVE FeedCells(_, _, _)
FeedCells(d, v, i) ==
  IF i >= Len(v) THEN d ELSE FeedCells(AddCodedSymbol(d, v[i + 1]), v, i + 1)

\* res is what the call of the last step returned, on the sketch of party p
\* (adds and removes return nothing).
Result(op, p, err, fwd, rev, isd) ==
  [op |-> op, party |-> p, err |-> err, fwd |-> fwd, rev |-> rev, is_decoded |-> isd]

None == Result("none", "A", "Ok", <<>>, <<>>, FALSE)

SketchDecode(v, p) ==
  LET r == TryDecode(FeedCells(NewDecoder, v, 0))
  IN  IF r.result = "Ok"
      THEN Result("decode", p, "Ok", r.dec.remote.symbols, r.dec.local.symbols,
                  Decoded(r.dec))
      ELSE Result("decode", p, r.result, <<>>, <<>>, FALSE)


Init ==
  /\ hits \in [BaseSymbols -> SUBSET (1 .. MaxIdx)]
  /\ \E m \in [Parties -> Sizes] : sk = [p \in Parties |-> NewSketch(m[p])]
  /\ cnt = [p \in Parties |-> [v \in BaseSymbols |-> 0]]
  /\ res = None

\* Sketch::add_symbol.  The caller keeps sets: it adds what is not in.
Add(p, v) ==
  /\ cnt[p][v] < 1
  /\ sk' = [sk EXCEPT ![p] = SketchAddHashedSymbol(@, HashedSymbol(v))]
  /\ cnt' = [cnt EXCEPT ![p][v] = @ + 1]
  /\ res' = None
  /\ UNCHANGED hits

\* Sketch::remove_symbol of what is in (or of what was never added).
Del(p, v) ==
  /\ cnt[p][v] > -1
  /\ sk' = [sk EXCEPT ![p] = SketchRemoveHashedSymbol(@, HashedSymbol(v))]
  /\ cnt' = [cnt EXCEPT ![p][v] = @ - 1]
  /\ res' = None
  /\ UNCHANGED hits

\* Sketch::subtract(p, other): InvalidSize leaves both sketches as they are.
CallSubtract(p) ==
  \/ /\ Len(sk[p]) # Len(sk[Other(p)])
     /\ res' = Result("subtract", p, "InvalidSize", <<>>, <<>>, FALSE)
     /\ UNCHANGED <<hits, sk, cnt>>
  \/ /\ Len(sk[p]) = Len(sk[Other(p)])
     /\ \A v \in BaseSymbols : cnt[p][v] - cnt[Other(p)][v] \in -MaxCount .. MaxCount
     /\ sk' = [sk EXCEPT ![p] = Subtract(@, sk[Other(p)])]
     /\ cnt' = [cnt EXCEPT ![p] = [v \in BaseSymbols |-> @[v] - cnt[Other(p)][v]]]
     /\ res' = None
  /\ UNCHANGED hits

\* Sketch::decode of sketch p; the sketch itself is left as it is.
CallDecode(p) ==
  /\ res' = SketchDecode(sk[p], p)
  /\ UNCHANGED <<hits, sk, cnt>>

Next ==
  \/ \E p \in Parties, v \in BaseSymbols : Add(p, v) \/ Del(p, v)
  \/ \E p \in Parties : CallSubtract(p) \/ CallDecode(p)

Spec == Init /\ [][Next]_vars

-----------------------------------------------------------------------------
\* Symbols present with count +1 (forward) and -1 (reverse) in content c.
Pos(c) == {v \in BaseSymbols : c[v] = 1}
Neg(c) == {v \in BaseSymbols : c[v] = -1}
AsSet(s) == {x.symbol : x \in ToSet(s)}

TypeOK ==
  /\ hits \in [BaseSymbols -> SUBSET (1 .. MaxIdx)]
  /\ \A p \in Parties : Len(sk[p]) \in Sizes
  /\ cnt \in [Parties -> [BaseSymbols -> -MaxCount .. MaxCount]]
  /\ res.op \in {"none", "subtract", "decode"}
  /\ res.err \in {"Ok", "InvalidSize", "InvalidDegree"}

(***************************************************************************)
(* Every cell of a sketch holds exactly the symbols of its content whose  *)
(* mapping hits that cell: XOR of those with odd count, and their signed  *)
(* count.  Adds, removes and subtract of the other sketch all keep the    *)
(* cells linear in the content.                                           *)
(***************************************************************************)
CellsMatchContent ==
  \A p \in Parties : \A i \in 0 .. Len(sk[p]) - 1 :
    LET in  == {v \in BaseSymbols : Contributes(Hash(v), i)}
        odd == {v \in in : cnt[p][v] % 2 = 1}
    IN  sk[p][i + 1] =
          [symbol |-> UNION odd, hash |-> UNION {Hash(v) : v \in odd},
           count |-> MapThenSumSet(LAMBDA v : cnt[p][v], in)]

(***************************************************************************)
(* A decode of a sketch whose content is a set difference (every count in *)
(* -1..1) never fails, returns only true members (fwd the +1 symbols, rev *)
(* the -1 symbols) and, when is_decoded is true, all of them.  S4 and S5   *)
(* of spec.md 8.                                                          *)
(***************************************************************************)
SketchDecodeSound ==
  LET c == cnt[res.party]
  IN  (res.op = "decode" /\ \A v \in BaseSymbols : c[v] \in -1 .. 1) =>
        /\ res.err = "Ok"
        /\ AsSet(res.fwd) \subseteq Pos(c) /\ AsSet(res.rev) \subseteq Neg(c)
        /\ res.is_decoded => (AsSet(res.fwd) = Pos(c) /\ AsSet(res.rev) = Neg(c))

=============================================================================
