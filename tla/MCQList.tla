------------------------------ MODULE MCQList ------------------------------
(* Instances of QList, QListOrder and QListLinks for TLC.                  *)
EXTENDS QListLinks, TLC

CONSTANTS a1, a2, a3, a4

(* Every viewer's weight may change from one request to the next. *)
FreeWeights == [a \in Anchorages |-> [weight : {1, 2, 3}]]

(* Every viewer keeps one weight; a2 and a4 share theirs. *)
FixedWeights ==
  (a1 :> {[weight |-> 1]}) @@ (a2 :> {[weight |-> 2]}) @@
  (a3 :> {[weight |-> 3]}) @@ (a4 :> {[weight |-> 2]})

SymmetryOfFree ==
  UNION {Permutations(Anchorages), Permutations(Writers), Permutations(Readers)}
=============================================================================
