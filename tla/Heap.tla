-------------------------------- MODULE Heap --------------------------------
(***************************************************************************)
(* The binary heap under the priority queue (pri_queue.c).  A heap is the  *)
(* sequence of the data in heap_mem[1] .. heap_mem[cur_size].              *)
(***************************************************************************)
EXTENDS Naturals, Sequences, FiniteSetsExt

CONSTANT elem_compare_cb(_, _)  \* is the first at least as urgent as the second?

(* i, the half of i, the half of that, ... down to the root: the least set *)
(* that holds i, and the half of all it holds.                             *)
Halved(S) == \A k \in S : k > 1 => k \div 2 \in S

Ancestors(i) ==
  {j \in 1..i : \A S \in SUBSET (1..i) : i \in S /\ Halved(S) => j \in S}

(* Mutation: the element rises where it should stay. *)
SettlesInverted(h, j) == j = 1 \/ elem_compare_cb(h[j], h[j \div 2])

(* __heap_sort: the element at i rises along its ancestors.  The loop      *)
(* compares what it finds in two slots, and the slot it has just come to   *)
(* still holds the parent it has copied down, not the element that rises:  *)
(* after the first step it compares the parent with the grandparent.       *)
Settles(h, j) == j = 1 \/ elem_compare_cb(h[j \div 2], h[j])

__heap_sort(h, i) ==
  LET path == Ancestors(i)
      stop == Max({j \in path : Settles(h, j)})
  IN [k \in 1..Len(h) |->
        IF k = stop THEN h[i]
        ELSE IF k \in path /\ k > stop THEN h[k \div 2]
        ELSE h[k]]

__heap_push(h, data) == __heap_sort(Append(h, data), Len(h) + 1)

(* The child that takes the place of i when i sinks. *)
Winner(h, i) ==
  IF 2 * i # Len(h) /\ elem_compare_cb(h[2 * i + 1], h[2 * i])
  THEN 2 * i + 1 ELSE 2 * i

(* The places a hole at i sinks through before tail fits into it: at each  *)
(* of them the winning child was more urgent than tail.                    *)
SinkPath(h, tail, i) ==
  {k \in 1..Len(h) :
     /\ i \in Ancestors(k)
     /\ \A a \in Ancestors(k) \ {k} :
          a >= i => /\ Winner(h, a) \in Ancestors(k)
                    /\ ~ elem_compare_cb(tail, h[Winner(h, a)])}

(* Mutation: the last element is not moved into the hole. *)
__heap_removeTailDropped(h, i) ==
  LET tail == h[Len(h)]
      rest == SubSeq(h, 1, Len(h) - 1)
      path == SinkPath(rest, tail, i)
  IN IF i > Len(rest) THEN rest
     ELSE [k \in 1..Len(rest) |->
             IF k \in path \ {Max(path)} THEN rest[Winner(rest, k)]
             ELSE rest[k]]

(* __heap_remove: the last element fills the hole, once that has sunk as   *)
(* deep as it can, and rises from there.                                   *)
__heap_remove(h, i) ==
  LET tail == h[Len(h)]
      rest == SubSeq(h, 1, Len(h) - 1)
      path == SinkPath(rest, tail, i)
      land == Max(path)
      sunk == [k \in 1..Len(rest) |->
                 IF k = land THEN tail
                 ELSE IF k \in Ancestors(land) /\ k >= i THEN rest[Winner(rest, k)]
                 ELSE rest[k]]
  IN IF i > Len(rest) THEN rest ELSE __heap_sort(sunk, land)

__heap_peek(h) == h[1]

__heap_pop(h) == __heap_remove(h, 1)
=============================================================================
