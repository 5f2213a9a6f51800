---------------------------- MODULE QListProofs ----------------------------
(***************************************************************************)
(* What holds of the waiting list for any number of viewers, of weights    *)
(* and of threads.                                                         *)
(***************************************************************************)
EXTENDS QList, TLAPS, FiniteSetTheorems, SequenceTheorems

-----------------------------------------------------------------------------
(* Facts about the operators on sequences and sets QList is built from.    *)

(* A non-empty set of positions has a greatest element, and Max is it.     *)
LEMMA MaxOfPositions ==
  ASSUME NEW n \in Nat, NEW S \in SUBSET (1..n), S # {}
  PROVE  /\ Max(S) \in S
         /\ \A i \in S : i <= Max(S)
<1> DEFINE Above(i) == {j \in S : j > i}
           Aboves == {Above(i) : i \in S}
<1>1. IsFiniteSet(S)
  <2>1. IsFiniteSet(1..n)
    BY FS_Interval
  <2> QED BY <2>1, FS_Subset
<1>2. /\ Aboves # {}
      /\ Aboves \subseteq SUBSET S
  OBVIOUS
<1>3. PICK A \in Aboves : \A B \in Aboves : <<B, A>> \notin StrictSubsetOrdering(S)
  <2> HIDE DEF Aboves
  <2>1. IsWellFoundedOn(StrictSubsetOrdering(S), SUBSET S)
    BY <1>1, FS_FiniteSubsetsOfFinite, FS_StrictSubsetOrderingWellFounded
  <2> QED BY <1>2, <2>1, WFMin
<1>4. PICK i \in S : A = Above(i)
  OBVIOUS
<1>5. ASSUME NEW j \in S, j > i PROVE FALSE
  <2>1. Above(j) \subseteq A /\ j \in A /\ j \notin Above(j)
    <3>1. i \in Int /\ j \in Int
      OBVIOUS
    <3>2. \A k \in S : k > j => k > i
      BY <3>1, <1>5
    <3>3. ~ (j > j)
      BY <3>1
    <3> QED BY <1>4, <1>5, <3>2, <3>3, Zenon
  <2>2. <<Above(j), A>> \in StrictSubsetOrdering(S)
    BY <2>1, <1>4 DEF StrictSubsetOrdering
  <2> QED BY <1>3, <2>2
<1>6. \A j \in S : j <= i
  BY <1>5
<1> QED BY <1>6 DEF Max

(* What InsertAt leaves at each position. *)
LEMMA InsertAtProperties ==
  ASSUME NEW S, NEW s \in Seq(S), NEW i \in 1..(Len(s) + 1), NEW e \in S
  PROVE  /\ InsertAt(s, i, e) \in Seq(S)
         /\ Len(InsertAt(s, i, e)) = Len(s) + 1
         /\ InsertAt(s, i, e)[i] = e
         /\ \A k \in 1..(i - 1) : InsertAt(s, i, e)[k] = s[k]
         /\ \A k \in (i + 1)..(Len(s) + 1) : InsertAt(s, i, e)[k] = s[k - 1]
<1> DEFINE pre == SubSeq(s, 1, i - 1)
           mid == <<e>>
           post == SubSeq(s, i, Len(s))
<1>1. /\ pre \in Seq(S)
      /\ Len(pre) = i - 1
      /\ \A k \in 1..(i - 1) : pre[k] = s[k]
  BY SubSeqProperties, ElementOfSeq
<1>2. /\ post \in Seq(S)
      /\ Len(post) = Len(s) + 1 - i
      /\ \A k \in 1..(Len(s) + 1 - i) : post[k] = s[i + k - 1]
  BY SubSeqProperties, ElementOfSeq
<1>3. mid \in Seq(S) /\ Len(mid) = 1 /\ mid[1] = e
  OBVIOUS
<1> HIDE DEF pre, mid, post
<1>4. /\ pre \o mid \in Seq(S)
      /\ Len(pre \o mid) = i
      /\ \A k \in 1..i : (pre \o mid)[k] = IF k < i THEN s[k] ELSE e
  <2>1. /\ pre \o mid \in Seq(S)
        /\ Len(pre \o mid) = Len(pre) + Len(mid)
        /\ \A k \in 1..(Len(pre) + Len(mid)) :
             (pre \o mid)[k] = IF k <= Len(pre) THEN pre[k] ELSE mid[k - Len(pre)]
    BY <1>1, <1>3, ConcatProperties, Zenon
  <2> QED BY <1>1, <1>3, <2>1
<1>5. /\ (pre \o mid) \o post \in Seq(S)
      /\ Len((pre \o mid) \o post) = Len(s) + 1
      /\ \A k \in 1..(Len(s) + 1) :
           ((pre \o mid) \o post)[k] = IF k < i THEN s[k]
                                     ELSE IF k = i THEN e ELSE s[k - 1]
  <2> DEFINE half == pre \o mid
  <2> HIDE DEF half
  <2>1. /\ half \in Seq(S)
        /\ Len(half) = i
        /\ \A k \in 1..i : half[k] = IF k < i THEN s[k] ELSE e
    BY <1>4 DEF half
  <2>2. /\ half \o post \in Seq(S)
        /\ Len(half \o post) = Len(half) + Len(post)
        /\ \A k \in 1..(Len(half) + Len(post)) :
             (half \o post)[k] = IF k <= Len(half) THEN half[k]
                                                 ELSE post[k - Len(half)]
    BY <2>1, <1>2, ConcatProperties, Zenon
  <2>3. /\ half \o post \in Seq(S)
        /\ Len(half \o post) = Len(s) + 1
        /\ \A k \in 1..(Len(s) + 1) :
             (half \o post)[k] = IF k < i THEN s[k]
                                ELSE IF k = i THEN e ELSE s[k - 1]
    BY <2>1, <2>2, <1>2
  <2> QED BY <2>3 DEF half
<1> DEFINE all == (pre \o mid) \o post
<1>6. InsertAt(s, i, e) = all
  BY DEF InsertAt, pre, mid, post
<1>7. all \in Seq(S) /\ Len(all) = Len(s) + 1
  BY <1>5
<1>8. all[i] = e
  BY <1>5
<1>9. \A k \in 1..(i - 1) : all[k] = s[k]
  BY <1>5
<1>10. \A k \in (i + 1)..(Len(s) + 1) : all[k] = s[k - 1]
  BY <1>5
<1> HIDE DEF all
<1> QED BY <1>6, <1>7, <1>8, <1>9, <1>10

(* What RemoveAt leaves at each position. *)
LEMMA RemoveAtProperties ==
  ASSUME NEW S, NEW s \in Seq(S), NEW i \in 1..Len(s)
  PROVE  /\ RemoveAt(s, i) \in Seq(S)
         /\ Len(RemoveAt(s, i)) = Len(s) - 1
         /\ \A k \in 1..(Len(s) - 1) :
              RemoveAt(s, i)[k] = IF k < i THEN s[k] ELSE s[k + 1]
<1> DEFINE pre == SubSeq(s, 1, i - 1)
           post == SubSeq(s, i + 1, Len(s))
<1>1. /\ pre \in Seq(S)
      /\ Len(pre) = i - 1
      /\ \A k \in 1..(i - 1) : pre[k] = s[k]
  BY SubSeqProperties, ElementOfSeq
<1>2. /\ post \in Seq(S)
      /\ Len(post) = Len(s) - i
      /\ \A k \in 1..(Len(s) - i) : post[k] = s[i + k]
  BY SubSeqProperties, ElementOfSeq
<1> HIDE DEF pre, post
<1>3. /\ pre \o post \in Seq(S)
      /\ Len(pre \o post) = Len(s) - 1
      /\ \A k \in 1..(Len(s) - 1) :
           (pre \o post)[k] = IF k < i THEN s[k] ELSE s[k + 1]
  <2>1. /\ pre \o post \in Seq(S)
        /\ Len(pre \o post) = Len(pre) + Len(post)
        /\ \A k \in 1..(Len(pre) + Len(post)) :
             (pre \o post)[k] = IF k <= Len(pre) THEN pre[k]
                                                ELSE post[k - Len(pre)]
    BY <1>1, <1>2, ConcatProperties, Zenon
  <2>2. Len(s) \in Nat /\ i \in 1..Len(s)
    BY LenProperties
  <2>3. ASSUME NEW k \in 1..(Len(s) - 1), k < i
        PROVE  (pre \o post)[k] = s[k]
    BY <1>1, <1>2, <2>1, <2>2, <2>3
  <2>4. ASSUME NEW k \in 1..(Len(s) - 1), ~ (k < i)
        PROVE  (pre \o post)[k] = s[k + 1]
    <3>1. k - Len(pre) \in 1..(Len(s) - i) /\ i + (k - Len(pre)) = k + 1
      BY <1>1, <2>2, <2>4
    <3>2. post[k - Len(pre)] = s[i + (k - Len(pre))]
      BY <1>2, <3>1
    <3>3. (pre \o post)[k] = post[k - Len(pre)]
      BY <1>1, <1>2, <2>1, <2>2, <2>4
    <3> QED BY <3>1, <3>2, <3>3
  <2> QED BY <1>1, <1>2, <2>1, <2>2, <2>3, <2>4
<1> QED BY <1>3 DEF RemoveAt, pre, post
-----------------------------------------------------------------------------
(* The inductive invariant: the properties need one another, and all need  *)
(* that only the holder of the mutex is inside a call.                     *)
IInv ==
  /\ TypeOK
  /\ NoDuplicates
  /\ CountMatches
  /\ LockProtocol
  /\ CacheInRing
  /\ WalkSeesRing

(* The unit a position stands for. *)
LEMMA UnitAt ==
  ASSUME TypeOK, NEW i \in 1..Len(list)
  PROVE  /\ list[i] \in Unit
         /\ list[i].anchorage \in Anchorages
         /\ list[i].data \in Data
         /\ Weight(i) \in Nat
<1>1. list[i] \in Unit
  BY ElementOfSeq DEF TypeOK
<1>2. \A d \in Data : d.weight \in Nat
  BY QListAssumption DEF Data
<1> QED BY <1>1, <1>2 DEF Unit, Weight

(* While the mutex is free the count is the length of the ring. *)
LEMMA CountWhenFree ==
  ASSUME IInv, lock = None
  PROVE  elem_num = Len(list)
<1>1. \A t \in Threads : lock # t
  BY QListAssumption DEF Threads
<1>2. \A t \in Writers : pc[t] # "counting_up" /\ pc[t] # "counting_down"
  BY <1>1 DEF IInv, LockProtocol, Threads
<1> QED BY <1>2, LenProperties DEF IInv, CountMatches, TypeOK

(* A search finds an anchorage exactly when a unit of the ring has it. *)
LEMMA SearchFinds ==
  ASSUME IInv, lock = None, NEW a \in Anchorages
  PROVE  /\ qlist_search(a) \in 0..Len(list)
         /\ qlist_search(a) # 0 => list[qlist_search(a)].anchorage = a
         /\ qlist_search(a) = 0 =>
              \A i \in 1..Len(list) : list[i].anchorage # a
<1> USE DEF IInv
<1>1. elem_num = Len(list) /\ Len(list) \in Nat
  BY CountWhenFree, LenProperties DEF TypeOK
<1>2. CASE elem_num = 0
  BY <1>1, <1>2 DEF qlist_search
<1>3. CASE elem_num # 0 /\ tmp_unit = a
  <2>1. tmp_unit # None
    BY <1>3, QListAssumption
  <2>2. PICK i \in 1..Len(list) : list[i].anchorage = a
    BY <2>1, <1>3 DEF CacheInRing
  <2>3. PosOf(a) \in 1..Len(list) /\ list[PosOf(a)].anchorage = a
    BY <2>2 DEF PosOf
  <2> QED BY <1>1, <1>3, <2>3 DEF qlist_search
<1>4. CASE elem_num # 0 /\ tmp_unit # a
  <2>1. Hits(a) \in SUBSET (1..Len(list))
    BY DEF Hits
  <2>2. \A i \in 1..Len(list) : i \in Hits(a) <=> list[i].anchorage = a
    BY <1>1 DEF Hits
  <2>3. CASE Hits(a) = {}
    BY <1>1, <1>4, <2>2, <2>3 DEF qlist_search
  <2>4. CASE Hits(a) # {}
    <3>1. Max(Hits(a)) \in Hits(a)
      BY <1>1, <2>1, <2>4, MaxOfPositions
    <3>2. qlist_search(a) = Max(Hits(a))
      BY <1>4, <2>4 DEF qlist_search
    <3> QED BY <1>1, <2>1, <2>2, <3>1, <3>2
  <2> QED BY <2>3, <2>4
<1> QED BY <1>2, <1>3, <1>4

(* The place qlist_append finds is in the ring. *)
LEMMA AppendPlace ==
  ASSUME IInv, lock = None, NEW w \in Nat
  PROVE  qlist_append(w, tmp_unit) \in 0..Len(list) \cup {Nowhere}
<1> USE DEF IInv
<1>1. elem_num = Len(list) /\ Len(list) \in Nat
  BY CountWhenFree, LenProperties DEF TypeOK
<1>2. tmp_unit # None => PosOf(tmp_unit) \in 1..Len(list)
  BY DEF CacheInRing, PosOf
<1>3. elem_num # 0 => EndUnit(w, tmp_unit) \in 1..Len(list)
  BY <1>1, <1>2 DEF EndUnit
<1>4. elem_num # 0 => BeginUnit(w, tmp_unit) \in 1..Len(list)
  BY <1>1, <1>2 DEF BeginUnit
<1>5. elem_num # 0 => NotLighter(w, tmp_unit) \in SUBSET (1..Len(list))
  BY <1>1, <1>3, <1>4 DEF NotLighter
<1>6. elem_num # 0 /\ NotLighter(w, tmp_unit) # {}
        => Max(NotLighter(w, tmp_unit)) \in 1..Len(list)
  BY <1>1, <1>5, MaxOfPositions
<1> QED BY <1>1, <1>3, <1>6 DEF qlist_append

-----------------------------------------------------------------------------
(* The initial state: an empty ring that nobody uses. *)
THEOREM InitInvariant == Init => IInv
<1> SUFFICES ASSUME Init PROVE IInv
  OBVIOUS
<1> USE DEF Init
<1>1. list = <<>> /\ Len(list) = 0
  OBVIOUS
<1>2. TypeOK
  BY DEF TypeOK, RetCodes, WriterPc, ReaderPc
<1>3. NoDuplicates /\ CacheInRing
  BY <1>1 DEF NoDuplicates, CacheInRing
<1>4. CountMatches
  BY <1>1 DEF CountMatches, Threads
<1>5. LockProtocol
  BY QListAssumption DEF LockProtocol, Threads, WriterPc, ReaderPc
<1>6. WalkSeesRing
  BY DEF WalkSeesRing, Threads
<1> QED BY <1>2, <1>3, <1>4, <1>5, <1>6 DEF IInv

(* A step outside every walk leaves the walks as they are. *)
LEMMA NobodyWalks ==
  ASSUME WalkSeesRing, shown' = shown,
         \A r \in Readers : pc[r] # "walking" /\ pc'[r] # "walking"
  PROVE  WalkSeesRing'
BY DEF WalkSeesRing

(* A call that finds the mutex free and leaves the ring, the count and the *)
(* mutex as they are, keeps the invariant if what it leaves in the cache   *)
(* is in the ring.                                                         *)
LEMMA QuietStep ==
  ASSUME IInv,
         UNCHANGED <<list, elem_num, lock, pc, shown, invert>>,
         ret' \in RetCodes,
         tmp_unit' \in Anchorages \cup {None},
         tmp_unit' # None =>
           \E i \in 1..Len(list) : list[i].anchorage = tmp_unit'
  PROVE  IInv'
<1> USE DEF IInv
<1>1. TypeOK'
  BY DEF TypeOK
<1>2. NoDuplicates' /\ CountMatches' /\ LockProtocol' /\ CacheInRing'
  BY DEF NoDuplicates, CountMatches, LockProtocol, CacheInRing
<1>3. WalkSeesRing'
  BY DEF WalkSeesRing, SeenPrefix
<1> QED BY <1>1, <1>2, <1>3

(* What a search leaves in the cache is in the ring. *)
LEMMA CacheAfterSearch ==
  ASSUME IInv, lock = None, NEW a \in Anchorages
  PROVE  /\ TmpAfterSearch(a) \in Anchorages \cup {None}
         /\ TmpAfterSearch(a) # None =>
              \E i \in 1..Len(list) : list[i].anchorage = TmpAfterSearch(a)
<1>1. CASE qlist_search(a) = 0
  BY <1>1 DEF TmpAfterSearch, IInv, TypeOK, CacheInRing
<1>2. CASE qlist_search(a) # 0
  <2>1. qlist_search(a) \in 1..Len(list) /\ list[qlist_search(a)].anchorage = a
    BY <1>2, SearchFinds, LenProperties DEF IInv, TypeOK
  <2> QED BY <1>2, <2>1 DEF TmpAfterSearch
<1> QED BY <1>1, <1>2

(* qlist_anchorage_existence changes nothing but the cache. *)
LEMMA ExistenceStep ==
  ASSUME IInv, NEW t \in Writers, NEW a \in Anchorages,
         qlist_anchorage_existence(t, a)
  PROVE  IInv'
<1>1. ret' \in RetCodes
  BY DEF qlist_anchorage_existence, RetCodes
<1> QED BY <1>1, CacheAfterSearch, QuietStep
        DEF qlist_anchorage_existence, MayEnter

(* Refuse, NoMemory and NotQueued change nothing but the returned code. *)
LEMMA RefusalStep ==
  ASSUME IInv, ret' \in RetCodes,
         UNCHANGED <<list, elem_num, tmp_unit, lock, pc, shown, invert>>
  PROVE  IInv'
<1>1. tmp_unit' \in Anchorages \cup {None}
  BY DEF IInv, TypeOK
<1>2. tmp_unit' # None =>
        \E i \in 1..Len(list) : list[i].anchorage = tmp_unit'
  BY DEF IInv, CacheInRing
<1> QED BY <1>1, <1>2, QuietStep

(* What Refresh makes of the ring: the same anchorages in the same places. *)
LEMMA RefreshRing ==
  ASSUME IInv, NEW t \in Writers, NEW a \in Anchorages, NEW d \in DataOf[a],
         Refresh(t, a, d)
  PROVE  /\ lock = None
         /\ list' \in Seq(Unit)
         /\ Len(list') = Len(list)
         /\ \A i \in 1..Len(list) : list'[i].anchorage = list[i].anchorage
         /\ \E p \in 1..Len(list) :
              /\ list[p].anchorage = a
              /\ list'[p].data = d
              /\ \A i \in 1..Len(list) : i # p => list'[i] = list[i]
<1> DEFINE p == qlist_search(a)
<1>1. lock = None
  BY DEF Refresh, MayEnter
<1>2. p \in 1..Len(list) /\ list[p].anchorage = a
  BY <1>1, SearchFinds, LenProperties DEF Refresh, IInv, TypeOK
<1>3. [list[p] EXCEPT !.data = d] \in Unit
  BY <1>2, UnitAt DEF Unit, Data, IInv
<1>4. list' = [list EXCEPT ![p] = [list[p] EXCEPT !.data = d]]
  BY DEF Refresh
<1> HIDE DEF p
<1>5. /\ list' \in Seq(Unit)
      /\ Len(list') = Len(list)
      /\ \A i \in 1..Len(list) :
           list'[i] = IF i = p THEN [list[p] EXCEPT !.data = d] ELSE list[i]
  BY <1>2, <1>3, <1>4, ExceptSeq DEF IInv, TypeOK
<1>6. \A i \in 1..Len(list) : list'[i].anchorage = list[i].anchorage
  <2>1. [list[p] EXCEPT !.data = d].anchorage = list[p].anchorage
    BY <1>2, UnitAt DEF IInv, Unit
  <2> QED BY <1>5, <2>1
<1>7. [list[p] EXCEPT !.data = d].data = d
  BY <1>2, UnitAt DEF IInv, Unit
<1> QED BY <1>1, <1>2, <1>5, <1>6, <1>7

(* Refresh keeps the invariant. *)
LEMMA RefreshStep ==
  ASSUME IInv, NEW t \in Writers, NEW a \in Anchorages, NEW d \in DataOf[a],
         Refresh(t, a, d)
  PROVE  IInv'
<1>1. lock = None
  BY RefreshRing
<1>5. list' \in Seq(Unit) /\ Len(list') = Len(list)
  BY RefreshRing
<1>6. \A i \in 1..Len(list) : list'[i].anchorage = list[i].anchorage
  BY RefreshRing
<1>2. \E p \in 1..Len(list) : list[p].anchorage = a
  BY RefreshRing
<1>7. TypeOK'
  BY <1>5 DEF IInv, TypeOK, Refresh, RetCodes
<1>8. NoDuplicates'
  BY <1>5, <1>6 DEF IInv, NoDuplicates
<1>9. CountMatches' /\ LockProtocol'
  BY <1>5 DEF IInv, CountMatches, LockProtocol, Refresh
<1>10. CacheInRing'
  BY <1>2, <1>5, <1>6 DEF CacheInRing, Refresh
<1>11. WalkSeesRing'
  <2>1. \A r \in Readers : pc[r] # "walking"
    BY <1>1, QListAssumption DEF IInv, LockProtocol, Threads
  <2>2. \A r \in Readers : pc'[r] # "walking" /\ shown'[r] = shown[r]
    BY <2>1 DEF Refresh
  <2> QED BY <2>1, <2>2 DEF IInv, WalkSeesRing
<1> QED BY <1>7, <1>8, <1>9, <1>10, <1>11 DEF IInv

(* The position at which Link puts a unit of data d. *)
PlaceOf(d) == qlist_append(d.weight, tmp_unit) + 1

(* What Link makes of the ring: a unit more, in one place. *)
LEMMA LinkRing ==
  ASSUME IInv, NEW t \in Writers, NEW a \in Anchorages, NEW d \in DataOf[a],
         Link(t, a, d)
  PROVE  /\ lock = None /\ elem_num = Len(list) /\ Len(list) \in Nat
         /\ \A i \in 1..Len(list) : list[i].anchorage # a
         /\ list' \in Seq(Unit)
         /\ Len(list') = Len(list) + 1
         /\ PlaceOf(d) \in 1..(Len(list) + 1)
         /\ list'[PlaceOf(d)] = [anchorage |-> a, data |-> d]
         /\ \A k \in 1..(PlaceOf(d) - 1) : list'[k] = list[k]
         /\ \A k \in (PlaceOf(d) + 1)..(Len(list) + 1) : list'[k] = list[k - 1]
<1> DEFINE p == PlaceOf(d)
           u == [anchorage |-> a, data |-> d]
<1>1. lock = None /\ elem_num = Len(list) /\ Len(list) \in Nat
  BY CountWhenFree, LenProperties DEF Link, MayEnter, IInv, TypeOK
<1>2. \A i \in 1..Len(list) : list[i].anchorage # a
  BY <1>1, SearchFinds DEF Link
<1>3. p \in 1..(Len(list) + 1)
  <2>1. d.weight \in Nat
    BY QListAssumption
  <2> QED BY <1>1, <2>1, AppendPlace DEF Link, Nowhere, PlaceOf
<1>4. u \in Unit /\ u.anchorage = a
  BY DEF Unit, Data
<1>5. list' = InsertAt(list, p, u)
  BY DEF Link, PlaceOf
<1> HIDE DEF p, u
<1>6. /\ list' \in Seq(Unit)
      /\ Len(list') = Len(list) + 1
      /\ list'[p] = u
      /\ \A k \in 1..(p - 1) : list'[k] = list[k]
      /\ \A k \in (p + 1)..(Len(list) + 1) : list'[k] = list[k - 1]
  <2>1. list \in Seq(Unit) /\ u \in Unit
    BY <1>4 DEF IInv, TypeOK
  <2> DEFINE new == InsertAt(list, p, u)
  <2>2. new \in Seq(Unit) /\ Len(new) = Len(list) + 1
    BY <1>3, <2>1, InsertAtProperties
  <2>3. new[p] = u
    BY <1>3, <2>1, InsertAtProperties
  <2>4. \A k \in 1..(p - 1) : new[k] = list[k]
    BY <1>3, <2>1, InsertAtProperties
  <2>5. \A k \in (p + 1)..(Len(list) + 1) : new[k] = list[k - 1]
    BY <1>3, <2>1, InsertAtProperties
  <2> HIDE DEF new
  <2>6. list' = new
    BY <1>5 DEF new
  <2> QED BY <2>2, <2>3, <2>4, <2>5, <2>6
<1> QED BY <1>1, <1>2, <1>3, <1>6 DEF u, p

(* Link keeps the invariant: the new unit is new, and counted later. *)
LEMMA LinkStep ==
  ASSUME IInv, NEW t \in Writers, NEW a \in Anchorages, NEW d \in DataOf[a],
         Link(t, a, d)
  PROVE  IInv'
<1> DEFINE u == [anchorage |-> a, data |-> d]
<1>1. lock = None /\ elem_num = Len(list) /\ Len(list) \in Nat
  BY LinkRing
<1>2. \A i \in 1..Len(list) : list[i].anchorage # a
  BY LinkRing
<1>3. u.anchorage = a
  OBVIOUS
<1> HIDE DEF u
<1> DEFINE p == PlaceOf(d)
<1>4. /\ p \in 1..(Len(list) + 1)
      /\ list'[p] = u
      /\ \A k \in 1..(p - 1) : list'[k] = list[k]
      /\ \A k \in (p + 1)..(Len(list) + 1) : list'[k] = list[k - 1]
  BY LinkRing DEF u
<1> HIDE DEF p
<1>6. /\ list' \in Seq(Unit)
      /\ Len(list') = Len(list) + 1
      /\ \A k \in 1..(Len(list) + 1) :
           list'[k] = IF k < p THEN list[k] ELSE IF k = p THEN u ELSE list[k - 1]
  <2>1. list' \in Seq(Unit) /\ Len(list') = Len(list) + 1
    BY LinkRing
  <2>2. \A k \in 1..(Len(list) + 1) :
          list'[k] = IF k < p THEN list[k] ELSE IF k = p THEN u ELSE list[k - 1]
    BY <1>1, <1>4
  <2> QED BY <2>1, <2>2
<1>7. /\ t \in Threads /\ t # None
      /\ pc' = [pc EXCEPT ![t] = "counting_up"]
      /\ lock' = t
      /\ UNCHANGED <<elem_num, tmp_unit, shown, invert, ret>>
  BY QListAssumption DEF Link, Threads
<1>8. TypeOK'
  BY <1>6, <1>7 DEF IInv, TypeOK, WriterPc
<1>9. NoDuplicates'
  <2> SUFFICES ASSUME NEW i \in 1..Len(list'), NEW j \in 1..Len(list'), i < j,
                      list'[i].anchorage = list'[j].anchorage
               PROVE  FALSE
    BY <1>1, <1>6 DEF NoDuplicates
  <2>1. i \in 1..(Len(list) + 1) /\ j \in 1..(Len(list) + 1)
    BY <1>6
  <2>2. CASE i = p \/ j = p
    <3>1. CASE i = p
      <4>1. j - 1 \in 1..Len(list) /\ ~ (j < p) /\ j # p
        BY <1>1, <1>4, <2>1, <3>1
      <4>2. list'[j] = list[j - 1] /\ list'[i] = u
        BY <1>4, <1>6, <2>1, <3>1, <4>1
      <4> QED BY <1>2, <1>3, <4>1, <4>2
    <3>2. CASE j = p
      <4>1. i \in 1..Len(list) /\ i < p
        BY <1>1, <1>4, <2>1, <3>2
      <4>2. list'[i] = list[i] /\ list'[j] = u
        BY <1>4, <1>6, <2>1, <3>2, <4>1
      <4> QED BY <1>2, <1>3, <4>1, <4>2
    <3> QED BY <2>2, <3>1, <3>2
  <2>3. CASE i # p /\ j # p
    <3> DEFINE from(k) == IF k < p THEN k ELSE k - 1
    <3>1. from(i) \in 1..Len(list) /\ from(j) \in 1..Len(list) /\ from(i) # from(j)
      BY <1>1, <1>4, <2>1, <2>3
    <3>2. list'[i] = list[from(i)] /\ list'[j] = list[from(j)]
      BY <1>6, <2>1, <2>3
    <3> HIDE DEF from
    <3> QED BY <3>1, <3>2 DEF IInv, NoDuplicates
  <2> QED BY <2>2, <2>3
<1>10. CountMatches'
  BY <1>1, <1>6, <1>7 DEF IInv, TypeOK, CountMatches
<1>11. LockProtocol'
  BY <1>1, <1>7, QListAssumption
     DEF IInv, TypeOK, LockProtocol, Threads, WriterPc
<1>12. CacheInRing'
  <2> SUFFICES ASSUME tmp_unit # None
               PROVE  \E k \in 1..Len(list') : list'[k].anchorage = tmp_unit
    BY <1>7 DEF CacheInRing
  <2>1. PICK i \in 1..Len(list) : list[i].anchorage = tmp_unit
    BY DEF IInv, CacheInRing
  <2>2. CASE i < p
    BY <1>1, <1>4, <1>6, <2>1, <2>2
  <2>3. CASE ~ (i < p)
    <3>1. /\ i + 1 \in 1..(Len(list) + 1)
          /\ ~ (i + 1 < p) /\ i + 1 # p
          /\ (i + 1) - 1 = i
      BY <1>1, <1>4, <2>3
    <3>2. list'[i + 1] = list[i]
      BY <1>6, <3>1
    <3> QED BY <1>6, <2>1, <3>1, <3>2
  <2> QED BY <2>2, <2>3
<1>13. WalkSeesRing'
  <2>1. \A r \in Readers : pc[r] # "walking" /\ pc'[r] # "walking"
    BY <1>1, <1>7, QListAssumption DEF IInv, TypeOK, LockProtocol, Threads
  <2> QED BY <1>7, <2>1, NobodyWalks DEF IInv
<1> QED BY <1>8, <1>9, <1>10, <1>11, <1>12, <1>13 DEF IInv

(* What Unlink makes of the ring: a unit less. *)
LEMMA UnlinkRing ==
  ASSUME IInv, NEW t \in Writers, NEW a \in Anchorages, Unlink(t, a)
  PROVE  /\ lock = None /\ elem_num = Len(list) /\ Len(list) \in Nat
         /\ tmp_unit' = None
         /\ list' \in Seq(Unit)
         /\ Len(list') = Len(list) - 1
         /\ \E p \in 1..Len(list) :
              /\ list[p].anchorage = a
              /\ \A k \in 1..(Len(list) - 1) :
                   list'[k] = IF k < p THEN list[k] ELSE list[k + 1]
<1> DEFINE p == qlist_search(a)
<1>1. lock = None /\ elem_num = Len(list) /\ Len(list) \in Nat
  BY CountWhenFree, LenProperties DEF Unlink, MayEnter, IInv, TypeOK
<1>2. p \in 1..Len(list) /\ list[p].anchorage = a
  BY <1>1, SearchFinds DEF Unlink
<1>3. list' = RemoveAt(list, p)
  BY DEF Unlink
<1>4. tmp_unit' = None
  BY <1>2 DEF Unlink, TmpAfterSearch
<1> HIDE DEF p
<1>5. /\ list' \in Seq(Unit)
      /\ Len(list') = Len(list) - 1
      /\ \A k \in 1..(Len(list) - 1) :
           list'[k] = IF k < p THEN list[k] ELSE list[k + 1]
  <2>1. list \in Seq(Unit)
    BY DEF IInv, TypeOK
  <2> QED BY <1>2, <1>3, <2>1, RemoveAtProperties
<1> QED BY <1>1, <1>2, <1>4, <1>5

(* Unlink keeps the invariant: no cache and no walk has the unit. *)
LEMMA UnlinkStep ==
  ASSUME IInv, NEW t \in Writers, NEW a \in Anchorages, Unlink(t, a)
  PROVE  IInv'
<1>1. lock = None /\ elem_num = Len(list) /\ Len(list) \in Nat
  BY UnlinkRing
<1>4. tmp_unit' = None
  BY UnlinkRing
<1>5. list' \in Seq(Unit) /\ Len(list') = Len(list) - 1
  BY UnlinkRing
<1>2. PICK p \in 1..Len(list) :
        \A k \in 1..(Len(list) - 1) :
          list'[k] = IF k < p THEN list[k] ELSE list[k + 1]
  BY UnlinkRing
<1>6. /\ t \in Threads /\ t # None
      /\ pc' = [pc EXCEPT ![t] = "counting_down"]
      /\ lock' = t
      /\ UNCHANGED <<elem_num, shown, invert, ret>>
  BY QListAssumption DEF Unlink, Threads
<1>7. TypeOK'
  BY <1>4, <1>5, <1>6 DEF IInv, TypeOK, WriterPc
<1>8. NoDuplicates'
  <2> DEFINE from(k) == IF k < p THEN k ELSE k + 1
  <2>1. ASSUME NEW i \in 1..Len(list'), NEW j \in 1..Len(list'), i # j
        PROVE  list'[i].anchorage # list'[j].anchorage
    <3>1. from(i) \in 1..Len(list) /\ from(j) \in 1..Len(list) /\ from(i) # from(j)
      BY <1>1, <1>2, <1>5, <2>1
    <3>2. list'[i] = list[from(i)] /\ list'[j] = list[from(j)]
      BY <1>2, <1>5, <2>1
    <3> HIDE DEF from
    <3> QED BY <3>1, <3>2 DEF IInv, NoDuplicates
  <2> QED BY <2>1 DEF NoDuplicates
<1>9. CountMatches'
  <2>1. \A s \in Writers : pc'[s] # "counting_up"
    BY <1>1, <1>6, QListAssumption DEF IInv, TypeOK, LockProtocol, Threads
  <2>2. pc'[t] = "counting_down"
    BY <1>6 DEF IInv, TypeOK
  <2> QED BY <1>1, <1>5, <1>6, <2>1, <2>2 DEF CountMatches
<1>10. LockProtocol'
  BY <1>1, <1>6, QListAssumption
     DEF IInv, TypeOK, LockProtocol, Threads, WriterPc
<1>11. CacheInRing'
  BY <1>4 DEF CacheInRing
<1>12. WalkSeesRing'
  <2>1. \A r \in Readers : pc[r] # "walking" /\ pc'[r] # "walking"
    BY <1>1, <1>6, QListAssumption DEF IInv, TypeOK, LockProtocol, Threads
  <2> QED BY <1>6, <2>1, NobodyWalks DEF IInv
<1> QED BY <1>7, <1>8, <1>9, <1>10, <1>11, <1>12 DEF IInv

(* The second halves of Link and Unlink: the count catches up. *)
LEMMA CountStep ==
  ASSUME IInv, NEW t \in Writers, CountUp(t) \/ CountDown(t)
  PROVE  IInv'
<1> USE DEF CountUp, CountDown
<1>1. /\ t \in Threads /\ lock = t /\ lock' = None
      /\ pc' = [pc EXCEPT ![t] = "idle"]
      /\ UNCHANGED <<list, tmp_unit, shown, invert>>
      /\ Len(list) \in Nat
  BY LenProperties DEF IInv, TypeOK, LockProtocol, Threads
<1>2. \A s \in Threads : s # t =>
        pc[s] \notin {"counting_up", "counting_down", "walking"}
  BY <1>1 DEF IInv, LockProtocol
<1>3. \A s \in Threads :
        pc'[s] \notin {"counting_up", "counting_down", "walking"}
  BY <1>1, <1>2 DEF IInv, TypeOK
<1>4. elem_num' = Len(list)
  <2>1. CASE CountUp(t)
    BY <1>1, <2>1 DEF IInv, CountMatches
  <2>2. CASE CountDown(t)
    <3>1. \A s \in Writers : pc[s] # "counting_up"
      BY <1>2, <2>2 DEF Threads
    <3> QED BY <1>1, <2>2, <3>1 DEF IInv, CountMatches
  <2> QED BY <2>1, <2>2
<1>5. TypeOK'
  BY <1>1, <1>4 DEF IInv, TypeOK, WriterPc, RetCodes
<1>6. NoDuplicates' /\ CacheInRing'
  BY <1>1 DEF IInv, NoDuplicates, CacheInRing
<1>7. CountMatches'
  BY <1>1, <1>3, <1>4 DEF CountMatches, Threads
<1>8. LockProtocol'
  BY <1>1, <1>3, QListAssumption
     DEF IInv, TypeOK, LockProtocol, Threads, WriterPc
<1>9. WalkSeesRing'
  <2>1. \A r \in Readers : pc[r] # "walking" /\ pc'[r] # "walking"
    BY <1>1, <1>2, <1>3 DEF Threads
  <2> QED BY <1>1, <2>1, NobodyWalks DEF IInv
<1> QED BY <1>5, <1>6, <1>7, <1>8, <1>9 DEF IInv

(* qlist_foreach, before it has the mutex and as it takes it. *)
LEMMA ForeachEnterStep ==
  ASSUME IInv, NEW r \in Readers,
         (\E inv \in BOOLEAN : ForeachCall(r, inv)) \/ ForeachLock(r)
  PROVE  IInv'
<1>1. r \in Threads /\ r \notin Writers /\ r # None
  BY QListAssumption DEF Threads
<1>2. UNCHANGED <<list, elem_num, tmp_unit, shown>>
  BY DEF ForeachCall, ForeachLock
<1>3. \A s \in Threads : s # r => pc'[s] = pc[s]
  BY DEF ForeachCall, ForeachLock, IInv, TypeOK
<1>4. TypeOK'
  BY <1>1, <1>2
     DEF IInv, TypeOK, ForeachCall, ForeachLock, ReaderPc, RetCodes
<1>5. NoDuplicates' /\ CacheInRing'
  BY <1>2 DEF IInv, NoDuplicates, CacheInRing
<1>6. CountMatches'
  <2>1. \A t \in Writers : pc'[t] = pc[t]
    BY <1>1, <1>3 DEF Threads
  <2> QED BY <1>2, <2>1 DEF IInv, CountMatches
<1>7. LockProtocol'
  <2>1. CASE \E inv \in BOOLEAN : ForeachCall(r, inv)
    BY <1>1, <1>3, <2>1
       DEF IInv, TypeOK, LockProtocol, ForeachCall, Threads, ReaderPc
  <2>2. CASE ForeachLock(r)
    BY <1>1, <1>3, <2>2, QListAssumption
       DEF IInv, TypeOK, LockProtocol, ForeachLock, Threads, ReaderPc
  <2> QED BY <2>1, <2>2
<1>8. WalkSeesRing'
  <2>1. \A s \in Readers : s # r => invert'[s] = invert[s]
    BY DEF ForeachCall, ForeachLock, IInv, TypeOK
  <2>2. \A s \in Readers : s # r => (SeenPrefix(s) <=> SeenPrefix(s)')
    BY <1>2, <2>1 DEF SeenPrefix
  <2>3. shown'[r] = <<>>
    BY <1>2 DEF ForeachCall, ForeachLock, IInv, WalkSeesRing
  <2>4. SeenPrefix(r)'
    BY <1>2, <2>3, LenProperties DEF SeenPrefix, IInv, TypeOK
  <2> QED BY <1>2, <1>3, <2>2, <2>3, <2>4
          DEF IInv, WalkSeesRing, Threads
<1> QED BY <1>4, <1>5, <1>6, <1>7, <1>8 DEF IInv

(* The end of a walk, at the end of the ring or at the callback's word. *)
LEMMA ForeachReturnStep ==
  ASSUME IInv, NEW r \in Readers, NEW code \in RetCodes,
         pc[r] = "walking", ForeachReturn(r, code),
         UNCHANGED <<list, elem_num, tmp_unit>>
  PROVE  IInv'
<1> USE DEF ForeachReturn
<1>1. r \in Threads /\ r # None /\ r \notin Writers /\ lock = r
  BY QListAssumption DEF Threads, IInv, LockProtocol
<1>2. \A s \in Threads :
        /\ s # r => pc'[s] = pc[s]
        /\ pc'[s] \notin {"counting_up", "counting_down", "walking"}
  BY <1>1 DEF IInv, TypeOK, LockProtocol
<1>3. TypeOK'
  BY <1>1 DEF IInv, TypeOK, ReaderPc
<1>4. NoDuplicates' /\ CacheInRing'
  BY DEF IInv, NoDuplicates, CacheInRing
<1>5. CountMatches'
  <2>1. \A t \in Writers : pc'[t] = pc[t]
    BY <1>1, <1>2 DEF Threads
  <2> QED BY <2>1 DEF IInv, CountMatches
<1>6. LockProtocol'
  BY <1>1, <1>2, QListAssumption DEF IInv, TypeOK, LockProtocol, Threads, ReaderPc
<1>7. WalkSeesRing'
  <2>1. \A s \in Readers : pc'[s] # "walking"
    BY <1>2 DEF Threads
  <2>2. \A s \in Readers : shown'[s] = <<>>
    BY <1>1, <1>2 DEF IInv, TypeOK, WalkSeesRing, LockProtocol, Threads
  <2> QED BY <2>1, <2>2 DEF WalkSeesRing
<1> QED BY <1>3, <1>4, <1>5, <1>6, <1>7 DEF IInv

(* One call of the callback. *)
LEMMA ForeachVisitStep ==
  ASSUME IInv, NEW r \in Readers, NEW goOn \in BOOLEAN, ForeachVisit(r, goOn)
  PROVE  IInv'
<1>1. CASE ~ goOn
  <2>1. "TERMINATE" \in RetCodes
    BY DEF RetCodes
  <2> QED BY <1>1, <2>1, ForeachReturnStep DEF ForeachVisit
<1>2. CASE goOn
  <2> DEFINE n == Len(shown[r])
             u == list[NextPos(r)]
  <2>1. UNCHANGED <<list, elem_num, tmp_unit, lock, pc, invert, ret>>
    BY <1>2 DEF ForeachVisit
  <2>2. n \in Nat /\ n < Len(list) /\ Len(list) \in Nat
    <3>1. lock = r
      BY DEF ForeachVisit, IInv, LockProtocol, Threads
    <3>2. \A t \in Writers : pc[t] # "counting_up" /\ pc[t] # "counting_down"
      BY <3>1, QListAssumption DEF IInv, LockProtocol, Threads
    <3>3. elem_num = Len(list)
      BY <3>2, LenProperties DEF IInv, TypeOK, CountMatches
    <3> QED BY <3>3, LenProperties DEF ForeachVisit, IInv, TypeOK
  <2>3. NextPos(r) \in 1..Len(list)
    BY <2>2 DEF NextPos
  <2>4. u \in Unit
    BY <2>3, UnitAt DEF IInv
  <2>5. shown' = [shown EXCEPT ![r] = Append(@, u)]
    BY <1>2 DEF ForeachVisit
  <2> HIDE DEF u
  <2>6. /\ Append(shown[r], u) \in Seq(Unit)
        /\ Len(Append(shown[r], u)) = n + 1
        /\ \A k \in 1..n : Append(shown[r], u)[k] = shown[r][k]
        /\ Append(shown[r], u)[n + 1] = u
    BY <2>4, AppendProperties DEF IInv, TypeOK
  <2>7. TypeOK'
    BY <2>1, <2>5, <2>6 DEF IInv, TypeOK
  <2>8. NoDuplicates' /\ CountMatches' /\ LockProtocol' /\ CacheInRing'
    BY <2>1 DEF IInv, NoDuplicates, CountMatches, LockProtocol, CacheInRing
  <2>9. WalkSeesRing'
    <3>1. \A s \in Readers : s # r => shown'[s] = shown[s]
      BY <2>5 DEF IInv, TypeOK
    <3>2. \A s \in Readers : s # r => (SeenPrefix(s) <=> SeenPrefix(s)')
      BY <2>1, <3>1 DEF SeenPrefix
    <3>3. shown'[r] = Append(shown[r], u)
      BY <2>5 DEF IInv, TypeOK
    <3>4. u = list[IF invert[r] THEN Len(list) + 1 - (n + 1) ELSE n + 1]
      BY <2>2 DEF u, NextPos
    <3>5. SeenPrefix(r)
      BY DEF IInv, WalkSeesRing, ForeachVisit
    <3>6. SeenPrefix(r)'
      <4>1. ASSUME NEW k \in 1..(n + 1)
            PROVE  Append(shown[r], u)[k] =
                     list[IF invert[r] THEN Len(list) + 1 - k ELSE k]
        <5>1. CASE k = n + 1
          BY <2>6, <3>4, <5>1
        <5>2. CASE k # n + 1
          BY <2>2, <2>6, <3>5, <5>2 DEF SeenPrefix
        <5> QED BY <5>1, <5>2
      <4> HIDE DEF n
      <4> QED BY <2>1, <2>2, <2>6, <3>3, <4>1 DEF SeenPrefix
    <3>7. pc'[r] = "walking"
      BY <2>1 DEF ForeachVisit
    <3> QED BY <2>1, <3>1, <3>2, <3>6, <3>7 DEF IInv, WalkSeesRing
  <2> QED BY <2>7, <2>8, <2>9 DEF IInv
<1> QED BY <1>1, <1>2

(* The end of a walk, whichever way it comes. *)
LEMMA ForeachDoneStep ==
  ASSUME IInv, NEW r \in Readers, ForeachDone(r)
  PROVE  IInv'
<1>1. "OK" \in RetCodes
  BY DEF RetCodes
<1> QED BY <1>1, ForeachReturnStep DEF ForeachDone

(* Every step keeps the invariant. *)
THEOREM NextInvariant == IInv /\ [Next]_vars => IInv'
<1> SUFFICES ASSUME IInv, [Next]_vars PROVE IInv'
  OBVIOUS
<1>1. ASSUME NEW t \in Writers, WriterStep(t) PROVE IInv'
  <2>1. ASSUME NEW a \in Anchorages, qlist_anchorage_existence(t, a) PROVE IInv'
    BY <2>1, ExistenceStep
  <2>2. ASSUME NEW a \in Anchorages, NEW d \in DataOf[a],
               qlist_append_update(t, a, d)
        PROVE  IInv'
    <3>1. CASE Refuse(t, a, d) \/ NoMemory(t, a, d)
      BY <3>1, RefusalStep DEF Refuse, NoMemory, RetCodes
    <3> QED BY <2>2, <3>1, RefreshStep, LinkStep DEF qlist_append_update
  <2>3. ASSUME NEW a \in Anchorages, qlist_subtract(t, a) PROVE IInv'
    <3>1. CASE Unlink(t, a)
      BY <3>1, UnlinkStep
    <3>2. CASE NotQueued(t, a)
      BY <3>2, RefusalStep DEF NotQueued, RetCodes
    <3> QED BY <2>3, <3>1, <3>2 DEF qlist_subtract
  <2>4. CASE CountUp(t) \/ CountDown(t)
    BY <2>4, CountStep
  <2> QED BY <1>1, <2>1, <2>2, <2>3, <2>4 DEF WriterStep
<1>2. ASSUME NEW r \in Readers, qlist_foreach(r) PROVE IInv'
  BY <1>2, ForeachEnterStep, ForeachVisitStep, ForeachDoneStep
     DEF qlist_foreach
<1>3. CASE UNCHANGED vars
  BY <1>3 DEF vars, IInv, TypeOK, NoDuplicates, CountMatches, LockProtocol,
              CacheInRing, WalkSeesRing, SeenPrefix
<1> QED BY <1>1, <1>2, <1>3 DEF Next

(* The invariant holds in every reachable state. *)
THEOREM Invariant == Spec => []IInv
BY InitInvariant, NextInvariant, PTL DEF Spec

-----------------------------------------------------------------------------
(* For any number of viewers and threads, the waiting list is well-typed   *)
(* (qlist.c:30-35), holds a viewer once, and counts its units.             *)
THEOREM TypeCorrect == Spec => []TypeOK
BY Invariant, PTL DEF IInv

(* qlist_append_update never queues a viewer twice (qlist.c:184-202).      *)
THEOREM NeverQueuedTwice == Spec => []NoDuplicates
BY Invariant, PTL DEF IInv

(* elem_num is the length of the ring whenever the mutex is free.          *)
THEOREM CountIsRight == Spec => []CountMatches
BY Invariant, PTL DEF IInv

(* The mutex is held by exactly the thread in a walk or between the two    *)
(* halves of a change (qlist.c:183-211, 218-234, 248-265).                 *)
THEOREM MutexIsHeld == Spec => []LockProtocol
BY Invariant, PTL DEF IInv

(* The cached unit is never a freed one (qlist.c:226-228).                 *)
THEOREM CacheIsAlive == Spec => []CacheInRing
BY Invariant, PTL DEF IInv

(* A walk never meets a ring that changes under it (qlist.c:248-264).      *)
THEOREM WalkIsSafe == Spec => []WalkSeesRing
BY Invariant, PTL DEF IInv

-----------------------------------------------------------------------------
(* Two units never change places: every unit of the new ring comes from a  *)
(* place f[k] of the old one, and f rises.                                 *)
LEMMA OrderFollowsPlaces ==
  ASSUME NoDuplicates, NEW a, NEW b, Len(list) \in Nat, Len(list') \in Nat,
         NEW f \in [1..Len(list') -> Int],
         \A k \in 1..Len(list') : list'[k].anchorage \in {a, b} =>
           f[k] \in 1..Len(list) /\ list[f[k]].anchorage = list'[k].anchorage,
         \A k, l \in 1..Len(list') :
           /\ k < l
           /\ list'[k].anchorage \in {a, b}
           /\ list'[l].anchorage \in {a, b}
           => f[k] < f[l],
         Before(list, a, b)
  PROVE  ~ Before(list', b, a)
<1> SUFFICES ASSUME Before(list', b, a) PROVE FALSE
  OBVIOUS
<1>1. PICK i \in 1..Len(list), j \in 1..Len(list) :
        i < j /\ list[i].anchorage = a /\ list[j].anchorage = b
  BY DEF Before
<1>2. PICK k \in 1..Len(list'), l \in 1..Len(list') :
        k < l /\ list'[k].anchorage = b /\ list'[l].anchorage = a
  BY DEF Before
<1>3. f[k] = j /\ f[l] = i
  <2>1. \A m \in 1..Len(list), n \in 1..Len(list) :
          list[m].anchorage = list[n].anchorage => m = n
    BY DEF NoDuplicates
  <2>2. /\ f[k] \in 1..Len(list) /\ list[f[k]].anchorage = b
        /\ f[l] \in 1..Len(list) /\ list[f[l]].anchorage = a
    BY <1>2
  <2> QED BY <1>1, <2>1, <2>2
<1>4. f[k] < f[l]
  BY <1>2
<1> QED BY <1>1, <1>3, <1>4

(* No step makes two units change places: their places only shift. *)
LEMMA OrderKept ==
  ASSUME IInv, [Next]_vars, NEW a \in Anchorages, NEW b \in Anchorages,
         Before(list, a, b)
  PROVE  ~ Before(list', b, a)
<1>1. NoDuplicates /\ NoDuplicates' /\ Len(list) \in Nat /\ Len(list') \in Nat
  BY NextInvariant, LenProperties DEF IInv, TypeOK
<1>2. CASE /\ Len(list') = Len(list)
           /\ \A i \in 1..Len(list) : list'[i].anchorage = list[i].anchorage
  <2> DEFINE f == [k \in 1..Len(list') |-> k]
  <2>1. f \in [1..Len(list') -> Int]
    OBVIOUS
  <2> QED BY <1>1, <1>2, <2>1, OrderFollowsPlaces
<1>3. ASSUME NEW t \in Writers, NEW c \in Anchorages, NEW d \in DataOf[c],
             Link(t, c, d)
      PROVE  ~ Before(list', b, a)
  <2>1. c # a /\ c # b
    <3>1. \A i \in 1..Len(list) : list[i].anchorage # c
      BY <1>3, LinkRing
    <3> QED BY <3>1 DEF Before
  <2> DEFINE p == PlaceOf(d)
  <2>2. /\ p \in 1..(Len(list) + 1)
        /\ list'[p] = [anchorage |-> c, data |-> d]
        /\ \A k \in 1..(p - 1) : list'[k] = list[k]
        /\ \A k \in (p + 1)..(Len(list) + 1) : list'[k] = list[k - 1]
    BY <1>3, LinkRing
  <2> HIDE DEF p
  <2>3. Len(list') = Len(list) + 1
    BY <1>3, LinkRing
  <2>4. list'[p].anchorage = c
    BY <2>2
  <2> DEFINE f == [k \in 1..Len(list') |-> IF k < p THEN k ELSE k - 1]
  <2>5. f \in [1..Len(list') -> Int]
    OBVIOUS
  <2>6. ASSUME NEW k \in 1..Len(list'), k # p
        PROVE  f[k] \in 1..Len(list) /\ list'[k] = list[f[k]]
    BY <1>1, <2>2, <2>3, <2>6
  <2>7. ASSUME NEW k \in 1..Len(list'), NEW l \in 1..Len(list'),
               k # p, l # p, k < l
        PROVE  f[k] < f[l]
    BY <1>1, <2>2, <2>3, <2>7
  <2> HIDE DEF f
  <2> QED BY <1>1, <2>1, <2>4, <2>5, <2>6, <2>7, OrderFollowsPlaces
<1>4. ASSUME NEW t \in Writers, NEW c \in Anchorages, Unlink(t, c)
      PROVE  ~ Before(list', b, a)
  <2>1. PICK p \in 1..Len(list) :
          \A k \in 1..(Len(list) - 1) :
            list'[k] = IF k < p THEN list[k] ELSE list[k + 1]
    BY <1>4, UnlinkRing
  <2>2. Len(list') = Len(list) - 1
    BY <1>4, UnlinkRing
  <2> DEFINE f == [k \in 1..Len(list') |-> IF k < p THEN k ELSE k + 1]
  <2>3. f \in [1..Len(list') -> Int]
    OBVIOUS
  <2>4. ASSUME NEW k \in 1..Len(list')
        PROVE  f[k] \in 1..Len(list) /\ list'[k] = list[f[k]]
    BY <1>1, <2>1, <2>2
  <2>5. ASSUME NEW k \in 1..Len(list'), NEW l \in 1..Len(list'), k < l
        PROVE  f[k] < f[l]
    BY <1>1, <2>2, <2>5
  <2> HIDE DEF f
  <2> QED BY <1>1, <2>3, <2>4, <2>5, OrderFollowsPlaces
<1>5. ASSUME NEW t \in Writers, WriterStep(t) PROVE ~ Before(list', b, a)
  <2>1. ASSUME NEW c \in Anchorages, NEW d \in DataOf[c], Refresh(t, c, d)
        PROVE  ~ Before(list', b, a)
    BY <1>2, <2>1, RefreshRing
  <2>2. CASE list' = list
    BY <1>2, <2>2
  <2>3. CASE CountUp(t) \/ CountDown(t)
    BY <2>2, <2>3 DEF CountUp, CountDown
  <2>4. ASSUME NEW c \in Anchorages,
               qlist_anchorage_existence(t, c) \/ NotQueued(t, c)
        PROVE  ~ Before(list', b, a)
    BY <2>2, <2>4 DEF qlist_anchorage_existence, NotQueued
  <2>5. ASSUME NEW c \in Anchorages, NEW d \in DataOf[c],
               Refuse(t, c, d) \/ NoMemory(t, c, d)
        PROVE  ~ Before(list', b, a)
    BY <2>2, <2>5 DEF Refuse, NoMemory
  <2> QED BY <1>3, <1>4, <1>5, <2>1, <2>3, <2>4, <2>5
          DEF WriterStep, qlist_append_update, qlist_subtract
<1>6. ASSUME NEW r \in Readers, qlist_foreach(r) PROVE list' = list
  BY <1>6 DEF qlist_foreach, ForeachCall, ForeachLock, ForeachVisit, ForeachDone
<1>7. CASE UNCHANGED vars
  BY <1>2, <1>7 DEF vars
<1> QED BY <1>2, <1>5, <1>6, <1>7 DEF Next

(* However viewers come, go and change their weight, of two that wait the  *)
(* one ahead stays ahead (qlist.c:186-189 updates a unit where it stands). *)
THEOREM OrderIsStable == Spec => NobodyOvertakes
<1>1. IInv /\ [Next]_vars
        => [\A a, b \in Anchorages :
              Before(list, a, b) => ~ Before(list', b, a)]_vars
  BY OrderKept
<1> QED BY <1>1, Invariant, PTL DEF Spec, NobodyOvertakes

-----------------------------------------------------------------------------
(* A walk that ends has shown as many units as there are: the count it     *)
(* stops at is the one that holds while it has the mutex, not the one read *)
(* before (qlist.c:244, 248-265).                                          *)
LEMMA WalkIsWhole ==
  ASSUME IInv, NEW r \in Readers, ForeachDone(r)
  PROVE  shown[r] = IF invert[r] THEN Reverse(list) ELSE list
<1>1. pc[r] = "walking" /\ Len(shown[r]) >= elem_num
  BY DEF ForeachDone
<1>2. /\ list \in Seq(Unit) /\ shown[r] \in Seq(Unit)
      /\ Len(list) \in Nat /\ Len(shown[r]) \in Nat
  BY LenProperties DEF IInv, TypeOK
<1>3. elem_num = Len(list)
  <2>1. lock = r /\ r \notin Writers
    BY <1>1, QListAssumption DEF IInv, LockProtocol, Threads
  <2>2. \A t \in Writers : pc[t] # "counting_up" /\ pc[t] # "counting_down"
    BY <2>1 DEF IInv, LockProtocol, Threads
  <2> QED BY <1>2, <2>2 DEF IInv, CountMatches
<1>4. /\ Len(shown[r]) = Len(list)
      /\ \A k \in 1..Len(shown[r]) :
           shown[r][k] = list[IF invert[r] THEN Len(list) + 1 - k ELSE k]
  BY <1>1, <1>2, <1>3 DEF IInv, WalkSeesRing, SeenPrefix
<1>5. CASE ~ invert[r]
  BY <1>2, <1>4, <1>5, SeqEqual
<1>6. CASE invert[r]
  <2>1. shown[r] = [k \in 1..Len(list) |-> shown[r][k]]
    BY <1>2, <1>4
  <2>2. \A k \in 1..Len(list) : shown[r][k] = list[(Len(list) - k) + 1]
    BY <1>2, <1>4, <1>6
  <2> QED BY <1>6, <2>1, <2>2 DEF Reverse
<1> QED BY <1>5, <1>6

(* A page that was walked to the end shows everybody who waits, in order   *)
(* or in reverse, as the list is when the walk ends.                       *)
THEOREM NobodyIsLeftOut == Spec => WholeRingShown
<1>1. IInv /\ [Next]_vars
        => [\A r \in Readers :
              ForeachDone(r) => shown[r] = (IF invert[r] THEN Reverse(list)
                                                         ELSE list)]_vars
  BY WalkIsWhole
<1> QED BY <1>1, Invariant, PTL DEF Spec, WholeRingShown
=============================================================================
