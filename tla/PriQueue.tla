------------------------------ MODULE PriQueue ------------------------------
(***************************************************************************)
(* The priority queue of pri_queue.c, shared by threads: each operation    *)
(* holds the queue's mutex from beginning to end, but for the two that     *)
(* wait on its condition.                                                  *)
(***************************************************************************)
EXTENDS Integers, Sequences, FiniteSets

CONSTANTS
  Threads,
  Elements,       \* the data pushed, each at most once
  Priority,       \* [Elements -> Int], the smallest is the most urgent
  max_size,       \* the size the queue is created with
  PointerSize,    \* in bytes
  None

ASSUME PriQueueAssumption ==
  /\ Priority \in [Elements -> Int]
  /\ max_size \in Nat \ {0}
  /\ PointerSize \in Nat \ {0}
  /\ None \notin Elements

VARIABLES
  heap,     \* see Heap
  slots,    \* how many pointers the block of the heap has room for
  state,    \* per thread: what it is doing in the queue
  ret,      \* per thread: the return code of its last call
  pdata,    \* per thread: what its last call stored through pdata
  accepted, \* history: the data of the pushes that returned OK
  popped    \* history: the data the pops have given out

vars == <<heap, slots, state, ret, pdata, accepted, popped>>

elem_compare_cb(e, f) == Priority[e] <= Priority[f]

H == INSTANCE Heap

ThreadState == {"idle", "waiting", "timed_waiting", "woken"}
Codes == {"none", "OK", "RESOURCE"}

TypeOK ==
  /\ heap \in Seq(Elements) /\ Len(heap) <= max_size
  /\ slots \in Nat
  /\ state \in [Threads -> ThreadState]
  /\ ret \in [Threads -> Codes]
  /\ pdata \in [Threads -> Elements \cup {None}]
  /\ accepted \subseteq Elements
  /\ popped \subseteq accepted

-----------------------------------------------------------------------------
(* heap_mem[0] is not used, so a heap of n elements takes n + 1 slots.     *)
(* What the program does once the heap has outgrown its block is undefined *)
(* and not modelled: InBlock is a guard of every call.                     *)
InBlock == Len(heap) + 1 <= slots

(* pri_queue_create *)
Init ==
  /\ heap = <<>>
  /\ slots = max_size + 1
  /\ state = [t \in Threads |-> "idle"]
  /\ ret = [t \in Threads |-> "none"]
  /\ pdata = [t \in Threads |-> None]
  /\ accepted = {}
  /\ popped = {}

Return(t, code, data) ==
  /\ ret' = [ret EXCEPT ![t] = code]
  /\ pdata' = [pdata EXCEPT ![t] = data]

(* Mutation: nobody is told of the datum. *)
BroadcastLost == state' = state

Broadcast ==
  state' = [t \in Threads |->
              IF state[t] \in {"waiting", "timed_waiting"} THEN "woken"
              ELSE state[t]]

(* Mutation: the size is checked after the element is stored. *)
PushStoredLate(t, e) ==
  /\ Len(heap) <= max_size
  /\ heap' = H!__heap_push(heap, e)
  /\ accepted' = accepted \cup {e}
  /\ Return(t, "OK", None)
  /\ UNCHANGED slots

(* pri_queue_push.  A queue that is full gets a block of 2 * max_size + 1  *)
(* bytes for its pointers, and keeps its max_size: the second attempt      *)
(* fails as the first did.                                                 *)
PushStored(t, e) ==
  /\ Len(heap) < max_size
  /\ heap' = H!__heap_push(heap, e)
  /\ accepted' = accepted \cup {e}
  /\ Return(t, "OK", None)
  /\ UNCHANGED slots

PushFull(t) ==
  /\ Len(heap) >= max_size
  /\ slots' = (2 * max_size + 1) \div PointerSize
  /\ Return(t, "RESOURCE", None)
  /\ UNCHANGED <<heap, accepted>>

pri_queue_push(t, e) ==
  /\ state[t] = "idle" /\ InBlock
  /\ e \notin accepted
  /\ PushStored(t, e) \/ PushFull(t)
  /\ Broadcast
  /\ UNCHANGED popped

pri_queue_peek(t) ==
  /\ state[t] = "idle" /\ InBlock
  /\ IF heap # <<>> THEN Return(t, "OK", H!__heap_peek(heap))
                    ELSE Return(t, "RESOURCE", None)
  /\ UNCHANGED <<heap, slots, state, accepted, popped>>

(* __queue_pop of a queue that holds something, whatever the timeout. *)
PopFirst(t) ==
  /\ state[t] = "idle" /\ InBlock
  /\ heap # <<>>
  /\ heap' = H!__heap_pop(heap)
  /\ popped' = popped \cup {heap[1]}
  /\ Return(t, "OK", heap[1])
  /\ UNCHANGED <<slots, state, accepted>>

(* Of an empty one, pop_trywait returns, ... *)
PopNothing(t) ==
  /\ state[t] = "idle" /\ heap = <<>>
  /\ Return(t, "RESOURCE", None)
  /\ UNCHANGED <<heap, slots, state, accepted, popped>>

(* ... pop_wait and pop_timedwait wait on the condition ... *)
PopBlocks(t, how) ==
  /\ state[t] = "idle" /\ heap = <<>>
  /\ state' = [state EXCEPT ![t] = how]
  /\ UNCHANGED <<heap, slots, ret, pdata, accepted, popped>>

(* ... (the timeout, in milliseconds, is taken for a time of day, which    *)
(* has long passed) ...                                                    *)
TimesOut(t) ==
  /\ state[t] = "timed_waiting"
  /\ state' = [state EXCEPT ![t] = "woken"]
  /\ UNCHANGED <<heap, slots, ret, pdata, accepted, popped>>

(* ... and return OK when they are woken, whatever the queue holds then,   *)
(* without having stored anything.                                         *)
PopReturns(t) ==
  /\ state[t] = "woken"
  /\ state' = [state EXCEPT ![t] = "idle"]
  /\ Return(t, "OK", None)
  /\ UNCHANGED <<heap, slots, accepted, popped>>

Pop(t) ==
  \/ PopFirst(t)
  \/ PopNothing(t)
  \/ \E how \in {"waiting", "timed_waiting"} : PopBlocks(t, how)
  \/ TimesOut(t)
  \/ PopReturns(t)

Next ==
  \E t \in Threads :
    \/ \E e \in Elements : pri_queue_push(t, e)
    \/ pri_queue_peek(t)
    \/ Pop(t)

Spec == Init /\ [][Next]_vars

-----------------------------------------------------------------------------
(* What was accepted and not given out is in the heap, each datum once: no *)
(* sift of __heap_sort or __heap_remove overwrites or doubles an element.  *)
NothingLost ==
  /\ {heap[i] : i \in 1..Len(heap)} = accepted \ popped
  /\ Len(heap) = Cardinality(accepted \ popped)

(* Nobody sleeps over a datum: who waits on the condition waits on an      *)
(* empty queue (pri_queue.c:168, every push wakes them all).               *)
NobodySleepsOnData ==
  \A t \in Threads :
    state[t] \in {"waiting", "timed_waiting"} => heap = <<>>
=============================================================================
