------------------------------- MODULE QList -------------------------------
(***************************************************************************)
(* The waiting list of source/utils/qlist.c: a ring of units, each with an *)
(* anchorage (the viewer's uid) and the viewer's data, kept in order of    *)
(* falling weight, with a one-unit search cache (tmp_unit) and a mutex.    *)
(*                                                                         *)
(* list is the ring read from list_head.next (position 1, the front) to    *)
(* list_head.prev (the tail).  A pointer to a unit is the anchorage of the *)
(* unit.  All calls but one run wholly inside the mutex; qlist_foreach     *)
(* reads elem_num before it takes it, so a call that changes elem_num is   *)
(* cut between the change of the ring and the change of elem_num, and the  *)
(* walk of qlist_foreach is cut at every call of its callback.             *)
(***************************************************************************)
EXTENDS Integers, Sequences, SequencesExt

CONSTANTS
  Anchorages,   \* the anchorages callers may pass
  DataOf,       \* DataOf[a]: the data that may be passed with anchorage a
  Writers,      \* threads that call every function but qlist_foreach
  Readers,      \* threads that call qlist_foreach
  None          \* the NULL pointer, and the owner of a free mutex

ASSUME QListAssumption ==
  /\ None \notin Anchorages \cup Writers \cup Readers
  /\ Writers \cap Readers = {}
  /\ \A a \in Anchorages : \A d \in DataOf[a] : d.weight \in Nat

VARIABLES
  list,         \* the units of the ring, front first
  elem_num,     \* the unit count
  tmp_unit,     \* the cached unit, or None
  lock,         \* the thread that holds the mutex, or None
  pc,           \* where each thread is in its call
  shown,        \* per reader: the units its walk has given the callback
  invert,       \* per reader: the invert_seq argument of its call
  ret           \* what the last call to finish has returned

vars == <<list, elem_num, tmp_unit, lock, pc, shown, invert, ret>>

Threads == Writers \cup Readers
Data == UNION {DataOf[a] : a \in Anchorages}
Unit == [anchorage : Anchorages, data : Data]

RetCodes == {"OK", "UNKNOWN", "OUTOFMEM", "RESOURCE", "TERMINATE",
             "True", "False"}
WriterPc == {"idle", "counting_up", "counting_down"}
ReaderPc == {"idle", "wants_lock", "walking"}

TypeOK ==
  /\ list \in Seq(Unit)
  /\ elem_num \in Nat
  /\ tmp_unit \in Anchorages \cup {None}
  /\ lock \in Threads \cup {None}
  /\ pc \in [Threads -> WriterPc \cup ReaderPc]
  /\ shown \in [Readers -> Seq(Unit)]
  /\ invert \in [Readers -> BOOLEAN]
  /\ ret \in RetCodes

Weight(i) == list[i].data.weight

-----------------------------------------------------------------------------
(* qlist_search: elem_num steps from the tail, after a look at the cache.  *)
(* The result is a position of list, 0 standing for NULL.                  *)

PosOf(a) == CHOOSE i \in 1..Len(list) : list[i].anchorage = a

(* Mutation: the walk stops one unit short of the front. *)
HitsShort(a) == {i \in 1..Len(list) : /\ i > Len(list) - elem_num + 1
                                      /\ list[i].anchorage = a}

Hits(a) == {i \in 1..Len(list) : /\ i > Len(list) - elem_num
                                 /\ list[i].anchorage = a}

qlist_search(a) ==
  IF elem_num = 0 THEN 0
  ELSE IF tmp_unit = a THEN PosOf(a)
  ELSE IF Hits(a) = {} THEN 0
  ELSE Max(Hits(a))

(* What a search leaves in the cache. *)
TmpAfterSearch(a) == IF qlist_search(a) = 0 THEN tmp_unit ELSE a

-----------------------------------------------------------------------------
(* qlist_append: the position after which a unit of weight w is linked, 0  *)
(* standing for the ring's head, Nowhere for the BLIVE_ERR_UNKNOWN return. *)

Nowhere == -1

(* The walk goes from BeginUnit towards the front and stops at EndUnit;    *)
(* tmp is the cache.                                                       *)
(* Mutation: a cached unit of the same weight bounds the walk too. *)
BeginUnitAtPeer(w, tmp) ==
  IF tmp # None /\ Weight(PosOf(tmp)) <= w THEN PosOf(tmp) ELSE Len(list)

BeginUnit(w, tmp) ==
  IF tmp # None /\ Weight(PosOf(tmp)) < w THEN PosOf(tmp) ELSE Len(list)

EndUnit(w, tmp) ==
  IF tmp # None /\ Weight(PosOf(tmp)) > w THEN PosOf(tmp) ELSE 1

NotLighter(w, tmp) ==
  {i \in (EndUnit(w, tmp) + 1)..BeginUnit(w, tmp) : Weight(i) >= w}

(* Mutation: the comparison with the tail is the wrong way round. *)
qlist_appendTailInverted(w, tmp) ==
  IF elem_num = 0 THEN 0
  ELSE IF Weight(1) < w THEN 0
  ELSE IF Weight(Len(list)) <= w THEN Len(list)
  ELSE IF NotLighter(w, tmp) # {} THEN Max(NotLighter(w, tmp))
  ELSE EndUnit(w, tmp)

(* Mutation: a unit as heavy as the front is linked ahead of it. *)
qlist_appendAheadOfPeer(w, tmp) ==
  IF elem_num = 0 THEN 0
  ELSE IF Weight(1) <= w THEN 0
  ELSE IF Weight(Len(list)) >= w THEN Len(list)
  ELSE IF NotLighter(w, tmp) # {} THEN Max(NotLighter(w, tmp))
  ELSE EndUnit(w, tmp)

qlist_append(w, tmp) ==
  IF elem_num = 0 THEN 0
  ELSE IF Weight(1) < w THEN 0
  ELSE IF Weight(Len(list)) >= w THEN Len(list)
  ELSE IF NotLighter(w, tmp) # {} THEN Max(NotLighter(w, tmp))
  ELSE IF Weight(EndUnit(w, tmp)) > w THEN EndUnit(w, tmp)
  ELSE Nowhere

-----------------------------------------------------------------------------
Init ==
  /\ list = <<>>
  /\ elem_num = 0
  /\ tmp_unit = None
  /\ lock = None
  /\ pc = [t \in Threads |-> "idle"]
  /\ shown = [r \in Readers |-> <<>>]
  /\ invert = [r \in Readers |-> FALSE]
  /\ ret = "OK"

(* A thread between two calls finds the mutex free. *)
MayEnter(t) == pc[t] = "idle" /\ lock = None

qlist_anchorage_existence(t, a) ==
  /\ MayEnter(t)
  /\ tmp_unit' = TmpAfterSearch(a)
  /\ ret' = IF qlist_search(a) # 0 THEN "True" ELSE "False"
  /\ UNCHANGED <<list, elem_num, lock, pc, shown, invert>>

(* Mutation: a refreshed unit goes to the end of the ring. *)
RefreshAtTail(t, a, d) ==
  /\ MayEnter(t)
  /\ qlist_search(a) # 0
  /\ list' = Append(RemoveAt(list, qlist_search(a)),
                    [anchorage |-> a, data |-> d])
  /\ tmp_unit' = a
  /\ ret' = "OK"
  /\ UNCHANGED <<elem_num, lock, pc, shown, invert>>

(* Mutation: a unit is refreshed before the mutex is asked for, so a walk   *)
(* does not hold it off.                                                   *)
RefreshDuringWalk(t, a, d) ==
  /\ pc[t] = "idle" /\ lock \notin Writers
  /\ qlist_search(a) # 0
  /\ list' = [list EXCEPT ![qlist_search(a)].data = d]
  /\ tmp_unit' = a
  /\ ret' = "OK"
  /\ UNCHANGED <<elem_num, lock, pc, shown, invert>>

(* qlist_append_update on a queued anchorage: the data is overwritten where *)
(* the unit stands.                                                         *)
Refresh(t, a, d) ==
  /\ MayEnter(t)
  /\ qlist_search(a) # 0
  /\ list' = [list EXCEPT ![qlist_search(a)].data = d]
  /\ tmp_unit' = a
  /\ ret' = "OK"
  /\ UNCHANGED <<elem_num, lock, pc, shown, invert>>

(* ... on a new anchorage: the unit is linked ... *)
Link(t, a, d) ==
  /\ MayEnter(t)
  /\ qlist_search(a) = 0
  /\ qlist_append(d.weight, tmp_unit) # Nowhere
  /\ list' = InsertAt(list, qlist_append(d.weight, tmp_unit) + 1,
                      [anchorage |-> a, data |-> d])
  /\ lock' = t
  /\ pc' = [pc EXCEPT ![t] = "counting_up"]
  /\ UNCHANGED <<elem_num, tmp_unit, shown, invert, ret>>

(* ... and counted. *)
CountUp(t) ==
  /\ pc[t] = "counting_up"
  /\ elem_num' = elem_num + 1
  /\ lock' = None
  /\ pc' = [pc EXCEPT ![t] = "idle"]
  /\ ret' = "OK"
  /\ UNCHANGED <<list, tmp_unit, shown, invert>>

(* Mutation: a unit is counted whether qlist_append linked it or not. *)
RefuseCounted(t, a, d) ==
  /\ MayEnter(t)
  /\ qlist_search(a) = 0
  /\ qlist_append(d.weight, tmp_unit) = Nowhere
  /\ elem_num' = elem_num + 1
  /\ ret' = "UNKNOWN"
  /\ UNCHANGED <<list, tmp_unit, lock, pc, shown, invert>>

(* ... or it is dropped, because qlist_append finds no place for it ... *)
Refuse(t, a, d) ==
  /\ MayEnter(t)
  /\ qlist_search(a) = 0
  /\ qlist_append(d.weight, tmp_unit) = Nowhere
  /\ ret' = "UNKNOWN"
  /\ UNCHANGED <<list, elem_num, tmp_unit, lock, pc, shown, invert>>

(* ... or because there is no memory for it. *)
NoMemory(t, a, d) ==
  /\ MayEnter(t)
  /\ qlist_search(a) = 0
  /\ ret' = "OUTOFMEM"
  /\ UNCHANGED <<list, elem_num, tmp_unit, lock, pc, shown, invert>>

qlist_append_update(t, a, d) ==
  \/ Refresh(t, a, d)
  \/ Link(t, a, d)
  \/ Refuse(t, a, d)
  \/ NoMemory(t, a, d)

(* Mutation: the cache keeps the unit that is freed. *)
UnlinkKeepsCache(t, a) ==
  /\ MayEnter(t)
  /\ qlist_search(a) # 0
  /\ list' = RemoveAt(list, qlist_search(a))
  /\ tmp_unit' = TmpAfterSearch(a)
  /\ lock' = t
  /\ pc' = [pc EXCEPT ![t] = "counting_down"]
  /\ UNCHANGED <<elem_num, shown, invert, ret>>

(* qlist_subtract: the unit is unlinked and the cache forgets it ... *)
Unlink(t, a) ==
  /\ MayEnter(t)
  /\ qlist_search(a) # 0
  /\ list' = RemoveAt(list, qlist_search(a))
  /\ tmp_unit' = IF TmpAfterSearch(a) = a THEN None ELSE TmpAfterSearch(a)
  /\ lock' = t
  /\ pc' = [pc EXCEPT ![t] = "counting_down"]
  /\ UNCHANGED <<elem_num, shown, invert, ret>>

(* ... and no longer counted; *)
CountDown(t) ==
  /\ pc[t] = "counting_down"
  /\ elem_num' = elem_num - 1
  /\ lock' = None
  /\ pc' = [pc EXCEPT ![t] = "idle"]
  /\ ret' = "OK"
  /\ UNCHANGED <<list, tmp_unit, shown, invert>>

(* Mutation: the count goes down before the search is looked at. *)
NotQueuedCounted(t, a) ==
  /\ MayEnter(t)
  /\ qlist_search(a) = 0
  /\ elem_num' = elem_num - 1
  /\ ret' = "RESOURCE"
  /\ UNCHANGED <<list, tmp_unit, lock, pc, shown, invert>>

(* an anchorage that is not queued is reported. *)
NotQueued(t, a) ==
  /\ MayEnter(t)
  /\ qlist_search(a) = 0
  /\ ret' = "RESOURCE"
  /\ UNCHANGED <<list, elem_num, tmp_unit, lock, pc, shown, invert>>

qlist_subtract(t, a) == Unlink(t, a) \/ NotQueued(t, a)

-----------------------------------------------------------------------------
(* qlist_foreach: elem_num is looked at outside the mutex ... *)
ForeachCall(r, inv) ==
  /\ pc[r] = "idle"
  /\ IF elem_num = 0
     THEN ret' = "RESOURCE" /\ UNCHANGED <<invert, pc>>
     ELSE /\ invert' = [invert EXCEPT ![r] = inv]
          /\ pc' = [pc EXCEPT ![r] = "wants_lock"]
          /\ UNCHANGED ret
  /\ UNCHANGED <<list, elem_num, tmp_unit, lock, shown>>

ForeachLock(r) ==
  /\ pc[r] = "wants_lock"
  /\ lock = None
  /\ lock' = r
  /\ pc' = [pc EXCEPT ![r] = "walking"]
  /\ UNCHANGED <<list, elem_num, tmp_unit, shown, invert, ret>>

(* The call gives the mutex back, and its local variables with it. *)
ForeachReturn(r, code) ==
  /\ lock' = None
  /\ pc' = [pc EXCEPT ![r] = "idle"]
  /\ shown' = [shown EXCEPT ![r] = <<>>]
  /\ invert' = [invert EXCEPT ![r] = FALSE]
  /\ ret' = code

(* ... then the callback is given elem_num units from the front, or from   *)
(* the tail, ...                                                           *)
NextPos(r) == IF invert[r] THEN Len(list) - Len(shown[r])
                           ELSE Len(shown[r]) + 1

(* ... until it answers False ... *)
ForeachVisit(r, goOn) ==
  /\ pc[r] = "walking"
  /\ Len(shown[r]) < elem_num
  /\ IF goOn
     THEN /\ shown' = [shown EXCEPT ![r] = Append(@, list[NextPos(r)])]
          /\ UNCHANGED <<lock, pc, invert, ret>>
     ELSE ForeachReturn(r, "TERMINATE")
  /\ UNCHANGED <<list, elem_num, tmp_unit>>

(* Mutation: the walk stops one unit short. *)
ForeachDoneShort(r) ==
  /\ pc[r] = "walking"
  /\ Len(shown[r]) >= elem_num - 1
  /\ ForeachReturn(r, "OK")
  /\ UNCHANGED <<list, elem_num, tmp_unit>>

(* ... or has seen them all. *)
ForeachDone(r) ==
  /\ pc[r] = "walking"
  /\ Len(shown[r]) >= elem_num
  /\ ForeachReturn(r, "OK")
  /\ UNCHANGED <<list, elem_num, tmp_unit>>

qlist_foreach(r) ==
  \/ \E inv \in BOOLEAN : ForeachCall(r, inv)
  \/ ForeachLock(r)
  \/ \E goOn \in BOOLEAN : ForeachVisit(r, goOn)
  \/ ForeachDone(r)

-----------------------------------------------------------------------------
WriterStep(t) ==
  \/ \E a \in Anchorages :
       \/ qlist_anchorage_existence(t, a)
       \/ \E d \in DataOf[a] : qlist_append_update(t, a, d)
       \/ qlist_subtract(t, a)
  \/ CountUp(t)
  \/ CountDown(t)

Next ==
  \/ \E t \in Writers : WriterStep(t)
  \/ \E r \in Readers : qlist_foreach(r)

Spec == Init /\ [][Next]_vars

-----------------------------------------------------------------------------
(* An anchorage is never queued twice: qlist_append_update links a unit    *)
(* only when qlist_search misses the anchorage, so a search that misses a  *)
(* queued unit (a stale cache, a count behind the ring) queues it twice.   *)
NoDuplicates ==
  \A i, j \in 1..Len(list) :
    list[i].anchorage = list[j].anchorage => i = j

(* elem_num is the length of the ring, but for the call that holds the     *)
(* mutex between changing the one and changing the other.                  *)
CountMatches ==
  elem_num = Len(list) + (IF \E t \in Writers : pc[t] = "counting_up"
                          THEN -1
                          ELSE IF \E t \in Writers : pc[t] = "counting_down"
                          THEN 1 ELSE 0)

(* The mutex is held by exactly the thread that is between the two halves  *)
(* of a change, or in a walk.                                              *)
LockProtocol ==
  /\ \A t \in Writers : pc[t] \in WriterPc
  /\ \A r \in Readers : pc[r] \in ReaderPc
  /\ \A t \in Threads :
       lock = t <=> pc[t] \in {"counting_up", "counting_down", "walking"}

(* The cached unit is in the ring: qlist_append walks from it or to it and *)
(* would leave the ring otherwise (comment at qlist.c:95-99).              *)
CacheInRing ==
  tmp_unit # None => \E i \in 1..Len(list) : list[i].anchorage = tmp_unit

(* A walk shows the callback the ring as it is: what a reader has seen is  *)
(* a prefix of the ring, in the direction of its walk, however long the    *)
(* reader waited for the mutex after it looked at elem_num.                *)
SeenPrefix(r) ==
  /\ Len(shown[r]) <= Len(list)
  /\ \A k \in 1..Len(shown[r]) :
       shown[r][k] = list[IF invert[r] THEN Len(list) + 1 - k ELSE k]

WalkSeesRing ==
  \A r \in Readers :
    IF pc[r] = "walking" THEN SeenPrefix(r) ELSE shown[r] = <<>>

(* A foreach that returns OK has shown the whole ring, as it stands when   *)
(* the call returns: the count read before the mutex was taken is not the  *)
(* count the walk stops at.                                                *)
WholeRingShown ==
  [][\A r \in Readers :
       ForeachDone(r) => shown[r] = (IF invert[r] THEN Reverse(list)
                                                  ELSE list)]_vars

(* Two queued viewers never change places: no call, not even a refresh of  *)
(* their data, reorders units that stay in the ring.                       *)
Before(s, a, b) ==
  \E i, j \in 1..Len(s) : i < j /\ s[i].anchorage = a /\ s[j].anchorage = b

NobodyOvertakes ==
  [][\A a, b \in Anchorages :
       Before(list, a, b) => ~ Before(list', b, a)]_vars

(* qlist_append_update inserts or refreshes (qlist.h:78): it never ends in *)
(* BLIVE_ERR_UNKNOWN.                                                      *)
NeverRefused == ret # "UNKNOWN"
=============================================================================
