----------------------------- MODULE MCPriQueue -----------------------------
(* Instances of PriQueueOrder for TLC: two elements are equally urgent.    *)
EXTENDS PriQueueOrder, TLC

CONSTANTS t1, t2

TwoThreads == {t1, t2}
Symmetry == Permutations(TwoThreads)

SixElements == 1..6
PriorityOf == [e \in 1..6 |-> IF e = 3 THEN 2 ELSE e]
=============================================================================
