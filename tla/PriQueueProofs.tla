--------------------------- MODULE PriQueueProofs ---------------------------
(***************************************************************************)
(* That nobody sleeps while the queue holds something, that it gives out   *)
(* only what was put into it, and that it holds what it has not given out, *)
(* each datum once; and when the first of it is the most urgent: for any   *)
(* number of threads and elements, and a queue of any size.                *)
(***************************************************************************)
EXTENDS PriQueueOrder, SequenceTheorems, TLAPS

HeapFacts == INSTANCE HeapProofs

(* The two instances of Heap are the same. *)
LEMMA SamePush ==
  ASSUME NEW h, NEW data
  PROVE  H!__heap_push(h, data) = HeapFacts!__heap_push(h, data)
BY DEF H!__heap_push, HeapFacts!__heap_push, H!__heap_sort,
       HeapFacts!__heap_sort, H!Max, HeapFacts!Max, H!Ancestors,
       HeapFacts!Ancestors, H!Halved, HeapFacts!Halved, H!Settles, HeapFacts!Settles

LEMMA SamePop ==
  ASSUME NEW h
  PROVE  H!__heap_pop(h) = HeapFacts!__heap_pop(h)
BY ZenonT(60) DEF H!__heap_pop, HeapFacts!__heap_pop, H!__heap_remove, HeapFacts!__heap_remove,
       H!__heap_sort, HeapFacts!__heap_sort, H!Max, HeapFacts!Max,
       H!Ancestors, HeapFacts!Ancestors, H!Halved, HeapFacts!Halved, H!Settles, HeapFacts!Settles,
       H!SinkPath, HeapFacts!SinkPath, H!Winner, HeapFacts!Winner

LEMMA HeapPush ==
  ASSUME NEW S, NEW h \in Seq(S), NEW data \in S
  PROVE  /\ H!__heap_push(h, data) \in Seq(S)
         /\ Len(H!__heap_push(h, data)) = Len(h) + 1
         /\ HeapFacts!Distinct(h) /\ data \notin HeapFacts!Elems(h) =>
              /\ HeapFacts!Distinct(H!__heap_push(h, data))
              /\ \A x : x \in HeapFacts!Elems(H!__heap_push(h, data))
                         <=> x \in HeapFacts!Elems(h) \/ x = data
<1>1. H!__heap_push(h, data) = HeapFacts!__heap_push(h, data)
  BY SamePush
<1>2. /\ HeapFacts!__heap_push(h, data) \in Seq(S)
      /\ Len(HeapFacts!__heap_push(h, data)) = Len(h) + 1
  BY HeapFacts!PushKeeps
<1>3. ASSUME HeapFacts!Distinct(h), data \notin HeapFacts!Elems(h)
      PROVE  /\ HeapFacts!Distinct(HeapFacts!__heap_push(h, data))
             /\ \A x : x \in HeapFacts!Elems(HeapFacts!__heap_push(h, data))
                        <=> x \in HeapFacts!Elems(h) \/ x = data
  <2>1. HeapFacts!Distinct(HeapFacts!__heap_push(h, data))
    BY <1>3, HeapFacts!PushHolds
  <2>2. HeapFacts!Elems(HeapFacts!__heap_push(h, data)) = HeapFacts!Elems(h) \cup {data}
    BY <1>3, HeapFacts!PushHolds, SMTT(30)
  <2> QED BY <2>1, <2>2
<1> QED BY <1>1, <1>2, <1>3

LEMMA HeapPop ==
  ASSUME NEW S, NEW h \in Seq(S), h # <<>>
  PROVE  /\ H!__heap_pop(h) \in Seq(S)
         /\ Len(H!__heap_pop(h)) = Len(h) - 1
         /\ HeapFacts!Distinct(h) =>
              /\ HeapFacts!Distinct(H!__heap_pop(h))
              /\ HeapFacts!Elems(H!__heap_pop(h)) = HeapFacts!Elems(h) \ {h[1]}
<1>1. H!__heap_pop(h) = HeapFacts!__heap_remove(h, 1)
  BY SamePop DEF HeapFacts!__heap_pop
<1>2. 1 \in 1..Len(h)
  OBVIOUS
<1> QED BY <1>1, <1>2, HeapFacts!RemoveKeeps, HeapFacts!RemoveHolds

-----------------------------------------------------------------------------
(* The invariant.  What the heap holds was accepted.  (With Elements in    *)
(* the place of accepted it would not follow that popped is.)              *)
HeapHoldsAccepted == heap \in Seq(accepted) /\ Len(heap) <= max_size

(* What was accepted and not given out is in the heap, at one place each.  *)
(* This is what a step keeps: a push adds one datum to both sides, a pop   *)
(* takes one from both, and the sifts only move what is there.             *)
HoldsTheRest ==
  /\ HeapFacts!Distinct(heap)
  /\ HeapFacts!Elems(heap) = accepted \ popped

Rest ==
  /\ slots \in Nat
  /\ state \in [Threads -> ThreadState]
  /\ ret \in [Threads -> Codes]
  /\ pdata \in [Threads -> Elements \cup {None}]
  /\ accepted \subseteq Elements
  /\ popped \subseteq accepted

IInv == HeapHoldsAccepted /\ HoldsTheRest /\ Rest /\ NobodySleepsOnData

LEMMA InitInvariant == Init => IInv
<1> SUFFICES ASSUME Init PROVE IInv
  OBVIOUS
<1>1. HeapHoldsAccepted /\ Rest
  BY PriQueueAssumption DEF Init, HeapHoldsAccepted, Rest, ThreadState, Codes
<1>2. NobodySleepsOnData
  BY DEF Init, NobodySleepsOnData
<1>3. HoldsTheRest
  BY DEF Init, HoldsTheRest, HeapFacts!Distinct, HeapFacts!Elems
<1> QED BY <1>1, <1>2, <1>3 DEF IInv

(* What a call returns to one thread. *)
LEMMA Returned ==
  ASSUME Rest, NEW t \in Threads, NEW code \in Codes,
         NEW data \in Elements \cup {None}, Return(t, code, data)
  PROVE  ret' \in [Threads -> Codes] /\ pdata' \in [Threads -> Elements \cup {None}]
BY DEF Rest, Return

LEMMA PushStep ==
  ASSUME IInv, NEW t \in Threads, NEW e \in Elements, pri_queue_push(t, e)
  PROVE  IInv'
<1> USE PriQueueAssumption
<1>1. Len(heap) \in Nat /\ heap \in Seq(accepted \cup {e})
  BY LenProperties DEF IInv, HeapHoldsAccepted
<1>2. /\ \A u \in Threads : state'[u] \notin {"waiting", "timed_waiting"}
      /\ state' \in [Threads -> ThreadState]
  BY DEF pri_queue_push, Broadcast, IInv, Rest, ThreadState
<1>3. CASE PushStored(t, e)
  <2>1. /\ heap' = H!__heap_push(heap, e) /\ accepted' = accepted \cup {e}
        /\ Len(heap) < max_size /\ UNCHANGED <<slots, popped>>
        /\ Return(t, "OK", None)
    BY <1>3 DEF PushStored, pri_queue_push
  <2>2. heap' \in Seq(accepted') /\ Len(heap') = Len(heap) + 1
    BY <1>1, <2>1, HeapPush
  <2>3. HeapHoldsAccepted'
    BY <1>1, <2>1, <2>2 DEF HeapHoldsAccepted
  <2>4. Rest'
    BY <1>2, <2>1, Returned DEF Rest, Codes, IInv
  <2>5. e \notin accepted /\ e \notin popped
    BY DEF pri_queue_push, IInv, Rest
  <2>6. HoldsTheRest'
    <3>1. /\ HeapFacts!Distinct(heap) /\ HeapFacts!Elems(heap) = accepted \ popped
      BY DEF IInv, HoldsTheRest
    <3>2. e \notin HeapFacts!Elems(heap) /\ e \in accepted \cup {e}
      BY <2>5, <3>1
    <3>3. /\ HeapFacts!Distinct(heap')
          /\ \A x : x \in HeapFacts!Elems(heap') <=> x \in HeapFacts!Elems(heap) \/ x = e
      <4>1. PICK A : heap \in Seq(A) /\ e \in A
        BY <1>1, <3>2
      <4>2. HeapFacts!Distinct(H!__heap_push(heap, e))
        BY <3>1, <3>2, <4>1, HeapPush
      <4>3. \A x : x \in HeapFacts!Elems(H!__heap_push(heap, e))
                   <=> x \in HeapFacts!Elems(heap) \/ x = e
        BY <3>1, <3>2, <4>1, HeapPush
      <4> QED BY <2>1, <4>2, <4>3
    <3>4. HeapFacts!Elems(heap') = accepted' \ popped'
      BY <2>1, <2>5, <3>1, <3>3
    <3> QED BY <3>3, <3>4 DEF HoldsTheRest, HeapFacts!Distinct, HeapFacts!Elems
  <2> QED BY <1>2, <2>3, <2>4, <2>6 DEF IInv, NobodySleepsOnData
<1>4. CASE PushFull(t)
  <2>1. /\ slots' \in Nat /\ Return(t, "RESOURCE", None)
        /\ UNCHANGED <<heap, accepted, popped>>
    BY <1>4 DEF PushFull, pri_queue_push
  <2>2. Rest'
    BY <1>2, <2>1, Returned DEF Rest, Codes, IInv
  <2> QED BY <1>2, <2>1, <2>2 DEF IInv, HeapHoldsAccepted, HoldsTheRest,
                                   HeapFacts!Distinct, HeapFacts!Elems, NobodySleepsOnData
<1> QED BY <1>3, <1>4 DEF pri_queue_push

LEMMA PopFirstStep ==
  ASSUME IInv, NEW t \in Threads, PopFirst(t)
  PROVE  IInv'
<1>1. /\ heap \in Seq(accepted) /\ Len(heap) \in Nat /\ heap # <<>>
      /\ heap[1] \in accepted
  BY LenProperties DEF IInv, HeapHoldsAccepted, PopFirst
<1>2. /\ heap' = H!__heap_pop(heap) /\ popped' = popped \cup {heap[1]}
      /\ Return(t, "OK", heap[1]) /\ UNCHANGED <<slots, state, accepted>>
  BY DEF PopFirst
<1>3. heap' \in Seq(accepted') /\ Len(heap') = Len(heap) - 1
  BY <1>1, <1>2, HeapPop
<1>4. HeapHoldsAccepted'
  BY <1>1, <1>3, PriQueueAssumption DEF IInv, HeapHoldsAccepted
<1>5. Rest'
  BY <1>1, <1>2, Returned DEF IInv, Rest, Codes
<1>6. NobodySleepsOnData'
  BY <1>1, <1>2 DEF IInv, NobodySleepsOnData
<1>7. HoldsTheRest'
  <2>1. HeapFacts!Distinct(heap) /\ HeapFacts!Elems(heap) = accepted \ popped
    BY DEF IInv, HoldsTheRest
  <2>2. /\ HeapFacts!Distinct(heap')
        /\ HeapFacts!Elems(heap') = HeapFacts!Elems(heap) \ {heap[1]}
    BY <1>1, <1>2, <2>1, HeapPop
  <2>3. HeapFacts!Elems(heap') = accepted' \ popped'
    BY <1>2, <2>1, <2>2
  <2> QED BY <2>2, <2>3 DEF HoldsTheRest, HeapFacts!Distinct, HeapFacts!Elems
<1> QED BY <1>4, <1>5, <1>6, <1>7 DEF IInv

LEMMA NextInvariant == IInv /\ [Next]_vars => IInv'
<1> SUFFICES ASSUME IInv, [Next]_vars PROVE IInv'
  OBVIOUS
<1>1. ASSUME NEW t \in Threads, pri_queue_peek(t) PROVE IInv'
  <2>1. heap # <<>> => heap[1] \in Elements
    BY DEF IInv, HeapHoldsAccepted, Rest
  <2>2. /\ ret' \in [Threads -> Codes] /\ pdata' \in [Threads -> Elements \cup {None}]
        /\ UNCHANGED <<heap, slots, state, accepted, popped>>
    BY <1>1, <2>1, Returned DEF pri_queue_peek, IInv, Codes, H!__heap_peek
  <2> QED BY <2>2 DEF IInv, HeapHoldsAccepted, HoldsTheRest, HeapFacts!Distinct,
              HeapFacts!Elems, Rest, NobodySleepsOnData
<1>2. ASSUME NEW t \in Threads, PopNothing(t) \/ PopReturns(t) PROVE IInv'
  <2>1. /\ ret' \in [Threads -> Codes] /\ pdata' \in [Threads -> Elements \cup {None}]
        /\ UNCHANGED <<heap, slots, accepted, popped>>
        /\ state' = state \/ state' = [state EXCEPT ![t] = "idle"]
    BY <1>2, Returned DEF PopNothing, PopReturns, IInv, Codes
  <2> QED BY <2>1 DEF IInv, HeapHoldsAccepted, HoldsTheRest, HeapFacts!Distinct,
              HeapFacts!Elems, Rest, ThreadState, NobodySleepsOnData
<1>3. ASSUME NEW t \in Threads, NEW how \in {"waiting", "timed_waiting"},
             PopBlocks(t, how)
      PROVE  IInv'
  BY <1>3 DEF PopBlocks, IInv, HeapHoldsAccepted, HoldsTheRest, HeapFacts!Distinct,
              HeapFacts!Elems, Rest, ThreadState, NobodySleepsOnData
<1>4. ASSUME NEW t \in Threads, TimesOut(t) PROVE IInv'
  BY <1>4 DEF TimesOut, IInv, HeapHoldsAccepted, HoldsTheRest, HeapFacts!Distinct,
              HeapFacts!Elems, Rest, ThreadState, NobodySleepsOnData
<1>5. CASE UNCHANGED vars
  BY <1>5 DEF vars, IInv, HeapHoldsAccepted, HoldsTheRest, HeapFacts!Distinct,
              HeapFacts!Elems, Rest, NobodySleepsOnData
<1> QED BY <1>1, <1>2, <1>3, <1>4, <1>5, PushStep, PopFirstStep DEF Next, Pop

LEMMA Invariant == Spec => []IInv
BY InitInvariant, NextInvariant, PTL DEF Spec

(* Nobody sleeps over a datum: between the look at the empty heap and the  *)
(* wait no push can come, and every push wakes all who wait                *)
(* (pri_queue.c:168, 229-235), for any number of threads.                  *)
THEOREM NobodyOversleeps == Spec => []NobodySleepsOnData
BY Invariant, PTL DEF IInv

(* The types: the heap never exceeds its size, and what is popped was      *)
(* pushed before.                                                          *)
THEOREM TypesHold == Spec => []TypeOK
<1>1. IInv => TypeOK
  BY DEF IInv, HeapHoldsAccepted, Rest, TypeOK
<1> QED BY <1>1, Invariant, PTL

(* Nothing is lost, and nothing is there twice: the heap holds exactly the *)
(* data the pushes accepted and no pop has given out                       *)
(* (pri_queue.c:259-401, the copying loops of the heap), whatever the      *)
(* priorities, though the loops do not keep the heap in order.             *)
THEOREM NothingIsLost == Spec => []NothingLost
<1>1. IInv => NothingLost
  <2> SUFFICES ASSUME IInv PROVE NothingLost
    OBVIOUS
  <2>1. /\ heap \in Seq(accepted) /\ HeapFacts!Distinct(heap)
        /\ HeapFacts!Elems(heap) = accepted \ popped
    BY DEF IInv, HeapHoldsAccepted, HoldsTheRest
  <2>2. Cardinality(HeapFacts!Elems(heap)) = Len(heap)
    <3>1. HeapFacts!Cardinality(HeapFacts!Elems(heap)) = Len(heap)
      BY <2>1, HeapFacts!ElemsCounted
    <3> QED BY <3>1 DEF HeapFacts!Cardinality, Cardinality
  <2>3. {heap[i] : i \in 1..Len(heap)} = accepted \ popped
    BY <2>1 DEF HeapFacts!Elems
  <2>4. Len(heap) = Cardinality(accepted \ popped)
    BY <2>1, <2>2
  <2> QED BY <2>3, <2>4 DEF NothingLost
<1> QED BY <1>1, Invariant, PTL

-----------------------------------------------------------------------------
(* The order of the heap. *)
InOrder == HeapFacts!Ordered(heap)

LEMMA PrioritiesOrder == HeapFacts!Orders(Elements)
<1>1. \A e \in Elements : Priority[e] \in Int
  BY PriQueueAssumption
<1> QED BY <1>1 DEF HeapFacts!Orders, elem_compare_cb

LEMMA HeapPushOrder ==
  ASSUME NEW h \in Seq(Elements), NEW e \in Elements, HeapFacts!Ordered(h)
  PROVE  HeapFacts!Ordered(H!__heap_push(h, e))
         <=> Len(h) + 1 < 4 \/ elem_compare_cb(h[(Len(h) + 1) \div 4], e)
<1>1. H!__heap_push(h, e) = HeapFacts!__heap_push(h, e)
  BY SamePush
<1>2. HeapFacts!Ordered(HeapFacts!__heap_push(h, e))
      <=> Len(h) + 1 < 4 \/ elem_compare_cb(h[(Len(h) + 1) \div 4], e)
  BY PrioritiesOrder, HeapFacts!PushOrdered, Zenon
<1> QED BY <1>1, <1>2

LEMMA HeapPopOrder ==
  ASSUME NEW h \in Seq(Elements), h # <<>>, HeapFacts!Ordered(h)
  PROVE  HeapFacts!Ordered(H!__heap_pop(h))
<1>1. H!__heap_pop(h) = HeapFacts!__heap_pop(h)
  BY SamePop
<1>2. HeapFacts!Ordered(HeapFacts!__heap_pop(h))
  BY PrioritiesOrder, HeapFacts!PopOrdered, Zenon
<1> QED BY <1>1, <1>2

(* What a step does to the elements. *)
HeapKept == UNCHANGED <<heap, accepted>>

HeapPushed(e) ==
  /\ e \in Elements \ accepted
  /\ heap' = H!__heap_push(heap, e) /\ accepted' = accepted \cup {e}

HeapPopped ==
  heap # <<>> /\ heap' = H!__heap_pop(heap) /\ UNCHANGED accepted

LEMMA HeapSteps ==
  ASSUME [Next]_vars
  PROVE  HeapKept \/ (\E e \in Elements : HeapPushed(e)) \/ HeapPopped
BY DEF Next, vars, Pop, pri_queue_push, PushStored, PushFull, pri_queue_peek, PopFirst,
       PopNothing, PopBlocks, TimesOut, PopReturns, HeapKept, HeapPushed, HeapPopped

(* From a heap in order, the order lasts exactly as long as shallow says.  *)
LEMMA OrderStep ==
  ASSUME IInv, InOrder, shallow \in BOOLEAN, shallow, [OrderNext]_orderVars
  PROVE  shallow' <=> InOrder'
<1>1. heap \in Seq(Elements) /\ HeapFacts!Ordered(heap) /\ Len(heap) \in Nat
  <2>1. PICK A : heap \in Seq(A) /\ A \subseteq Elements
    BY DEF IInv, HeapHoldsAccepted, Rest
  <2>2. \A i \in 1..Len(heap) : heap[i] \in Elements
    BY <2>1, LenProperties
  <2> QED BY <2>1, <2>2, LenProperties DEF InOrder
<1>2. InOrder' <=> HeapFacts!Ordered(heap')
  BY DEF InOrder, HeapFacts!Ordered
<1>3. CASE UNCHANGED orderVars
  BY <1>3, <1>1 DEF orderVars, vars, InOrder, HeapFacts!Ordered
<1>4. CASE OrderNext
  <2>1. /\ [Next]_vars
        /\ shallow' <=> \/ heap' = <<>>
                        \/ \A e \in accepted' \ accepted : RisesOneLevel(e)
    BY <1>4 DEF OrderNext
  <2>2. CASE HeapKept
    BY <1>1, <1>2, <2>1, <2>2 DEF HeapKept
  <2>3. CASE HeapPopped
    <3>1. HeapFacts!Ordered(heap')
      BY <1>1, <2>3, HeapPopOrder DEF HeapPopped
    <3>2. accepted' \ accepted = {}
      BY <2>3 DEF HeapPopped
    <3> QED BY <1>2, <2>1, <3>1, <3>2
  <2>4. ASSUME NEW e \in Elements, HeapPushed(e)
        PROVE  shallow' <=> InOrder'
    <3>1. accepted' \ accepted = {e} /\ heap' = H!__heap_push(heap, e)
      BY <2>4 DEF HeapPushed
    <3>2. Len(heap') = Len(heap) + 1 /\ heap' # <<>>
      <4>1. Len(heap') = Len(heap) + 1
        BY <1>1, <3>1, HeapPush
      <4>2. Len(heap') # 0
        BY <1>1, <4>1
      <4> QED BY <4>1, <4>2
    <3>3. HeapFacts!Ordered(heap') <=> RisesOneLevel(e)
      BY <1>1, <3>1, HeapPushOrder DEF RisesOneLevel
    <3>4. shallow' <=> RisesOneLevel(e)
      BY <2>1, <3>1, <3>2
    <3> QED BY <1>2, <3>3, <3>4
  <2> QED BY <2>1, <2>2, <2>3, <2>4, HeapSteps
<1> QED BY <1>3, <1>4

OrderInv == IInv /\ shallow \in BOOLEAN /\ (shallow => InOrder)

LEMMA OrderInitInvariant == OrderInit => OrderInv
<1> SUFFICES ASSUME OrderInit PROVE OrderInv
  OBVIOUS
<1>1. IInv /\ shallow = TRUE /\ heap = <<>>
  BY InitInvariant DEF OrderInit, Init
<1>2. InOrder
  BY <1>1 DEF InOrder, HeapFacts!Ordered
<1> QED BY <1>1, <1>2 DEF OrderInv

LEMMA OrderNextInvariant == OrderInv /\ [OrderNext]_orderVars => OrderInv'
<1> SUFFICES ASSUME OrderInv, [OrderNext]_orderVars PROVE OrderInv'
  OBVIOUS
<1>1. IInv'
  <2>1. [Next]_vars
    BY DEF OrderNext, orderVars
  <2> QED BY <2>1, NextInvariant DEF OrderInv
<1>2. shallow' \in BOOLEAN
  BY DEF OrderInv, OrderNext, orderVars
<1>3. ASSUME shallow' PROVE InOrder'
  <2>1. CASE shallow
    BY <1>3, <2>1, OrderStep DEF OrderInv
  <2>2. CASE ~ shallow
    <3>1. heap' = <<>>
      BY <1>3, <2>2 DEF OrderNext, orderVars
    <3> QED BY <3>1 DEF InOrder, HeapFacts!Ordered
  <2> QED BY <2>1, <2>2
<1> QED BY <1>1, <1>2, <1>3 DEF OrderInv

LEMMA OrderInvariant == OrderSpec => []OrderInv
BY OrderInitInvariant, OrderNextInvariant, PTL DEF OrderSpec

(* The first of the queue is as urgent as any other (pri_queue.c:374, 386),*)
(* as long as no element was pushed that had to rise above its parent's    *)
(* place: every pop and every other push keeps the heap in order.          *)
THEOREM FirstIsTheBest == OrderSpec => []FirstIsBest
<1>1. OrderInv => FirstIsBest
  <2> SUFFICES ASSUME OrderInv, shallow, NEW i \in 1..Len(heap)
               PROVE  elem_compare_cb(heap[1], heap[i])
    BY DEF FirstIsBest
  <2>1. heap \in Seq(Elements)
    <3>1. PICK A : heap \in Seq(A) /\ A \subseteq Elements
      BY DEF OrderInv, IInv, HeapHoldsAccepted, Rest
    <3> QED BY <3>1, LenProperties
  <2> QED BY <2>1, PrioritiesOrder, HeapFacts!RootLeads DEF OrderInv, InOrder
<1> QED BY <1>1, OrderInvariant, PTL

(* The premise is exact: a push that has further to go than its parent's   *)
(* place leaves the heap out of order (pri_queue.c:389: the loop compares  *)
(* the copied parent with the grandparent), and no other step does.        *)
THEOREM OrderEndsAtSteepPush ==
  OrderSpec => [][shallow => (shallow' <=> InOrder')]_orderVars
<1>1. OrderInv /\ [OrderNext]_orderVars
        => [shallow => (shallow' <=> InOrder')]_orderVars
  BY OrderStep DEF OrderInv
<1> QED BY <1>1, OrderInvariant, PTL DEF OrderSpec
=============================================================================
