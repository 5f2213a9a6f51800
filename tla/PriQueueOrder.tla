--------------------------- MODULE PriQueueOrder ---------------------------
(***************************************************************************)
(* The order of the heap of PriQueue.  The sift of __heap_sort carries an  *)
(* element up one level and no further (see Heap), so the heap is known to *)
(* be in order only as long as no element was pushed that had further to   *)
(* go: the history variable shallow tells whether that is so since the     *)
(* heap was last empty.                                                    *)
(***************************************************************************)
EXTENDS PriQueue

VARIABLE shallow

orderVars == <<vars, shallow>>

(* The element is to stand no higher than its parent at the bottom of the  *)
(* heap: the parent's parent, if there is one, is as urgent.               *)
RisesOneLevel(e) ==
  LET bottom == Len(heap) + 1
  IN bottom < 4 \/ elem_compare_cb(heap[bottom \div 4], e)

OrderInit == Init /\ shallow = TRUE

OrderNext ==
  /\ Next
  /\ shallow' = \/ heap' = <<>>
                \/ shallow /\ \A e \in accepted' \ accepted : RisesOneLevel(e)

OrderSpec == OrderInit /\ [][OrderNext]_orderVars

-----------------------------------------------------------------------------
(* The first of the queue is as urgent as any other (pri_queue.c:374,386:  *)
(* an element rises until it reaches the root or a parent not less urgent).*)
FirstIsBest ==
  shallow => \A i \in 1..Len(heap) : elem_compare_cb(heap[1], heap[i])
=============================================================================
