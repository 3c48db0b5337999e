----------------------------- MODULE DecoderSpec -----------------------------
(***************************************************************************)
(* What a Decoder promises its caller (spec.md 4.5, 8 property 5), with   *)
(* no cells, heaps or peeling: the symbols it reports as remote are a     *)
(* growing subset of A \ B and those it reports as local a growing subset *)
(* of B \ A, for the sets A and B of the two parties, which do not change *)
(* during a session.  A step may report any number of new symbols.  A     *)
(* reset (Decoder::reset) ends the session: both lists are emptied and the *)
(* next session may be between other sets.                                 *)
(***************************************************************************)
CONSTANT Universe          \* the symbols the parties' sets are drawn from

VARIABLES setA, setB,      \* the sets of the encoding and decoding party
          remoteSet,       \* what get_remote_symbols returns
          localSet         \* what get_local_symbols returns

vars == <<setA, setB, remoteSet, localSet>>

Init ==
  /\ setA \in SUBSET Universe
  /\ setB \in SUBSET Universe
  /\ remoteSet = {}
  /\ localSet = {}

Discover ==
  /\ \E R \in SUBSET (setA \ setB), L \in SUBSET (setB \ setA) :
       /\ remoteSet \subseteq R /\ localSet \subseteq L
       /\ remoteSet' = R /\ localSet' = L
  /\ UNCHANGED <<setA, setB>>

Reset ==
  /\ setA' \in SUBSET Universe
  /\ setB' \in SUBSET Universe
  /\ remoteSet' = {}
  /\ localSet' = {}

Next == Discover \/ Reset

Spec == Init /\ [][Next]_vars
=============================================================================
