-------------------------- MODULE QListOrderProofs --------------------------
(***************************************************************************)
(* The order of the waiting list, for any number of viewers, weights and   *)
(* threads: as long as it is in order, the cache decides nothing, and a    *)
(* newcomer stands behind his peers and ahead of all lighter viewers.  And *)
(* that the pointers of its ring are right.                                *)
(***************************************************************************)
EXTENDS QListLinks, QListProofs

InOrder == \A i, j \in 1..Len(list) : i < j => Weight(i) >= Weight(j)

(* The one place in order for a newcomer of weight w, and when qlist_append*)
(* has none for it: a single peer stands at the front.                     *)
GoesAt(w, p) ==
  /\ p \in 0..Len(list)
  /\ \A i \in 1..p : Weight(i) >= w
  /\ \A i \in (p + 1)..Len(list) : Weight(i) < w

NoPlace(w) ==
  Len(list) > 1 /\ Weight(1) = w /\ \A i \in 2..Len(list) : Weight(i) < w

LEMMA PlaceIsUnique ==
  ASSUME IInv, NEW w \in Nat, NEW p, NEW q, GoesAt(w, p), GoesAt(w, q)
  PROVE  p = q
<1>1. /\ p \in 0..Len(list) /\ q \in 0..Len(list) /\ Len(list) \in Nat
      /\ \A i \in 1..Len(list) : Weight(i) \in Nat
  BY UnitAt, LenProperties DEF GoesAt, IInv, TypeOK
<1>2. ASSUME p < q PROVE FALSE
  <2>1. q \in (p + 1)..Len(list) /\ q \in 1..q
    BY <1>1, <1>2
  <2> QED BY <1>1, <2>1 DEF GoesAt
<1>3. ASSUME q < p PROVE FALSE
  <2>1. p \in (q + 1)..Len(list) /\ p \in 1..p
    BY <1>1, <1>3
  <2> QED BY <1>1, <2>1 DEF GoesAt
<1> QED BY <1>1, <1>2, <1>3

(* qlist_append finds the place wherever the cache makes it begin and end  *)
(* its walk.                                                               *)
LEMMA PlaceInOrder ==
  ASSUME IInv, lock = None, InOrder, NEW w \in Nat, NEW tmp \in {tmp_unit, None}
  PROVE  IF NoPlace(w) THEN qlist_append(w, tmp) = Nowhere
                       ELSE GoesAt(w, qlist_append(w, tmp))
<1> DEFINE n == Len(list)
           b == BeginUnit(w, tmp)
           e == EndUnit(w, tmp)
           near == NotLighter(w, tmp)
<1>1. elem_num = n /\ n \in Nat /\ \A i \in 1..n : Weight(i) \in Nat
  BY CountWhenFree, UnitAt, LenProperties DEF IInv, TypeOK
<1>2. tmp # None => PosOf(tmp) \in 1..n
  BY DEF IInv, CacheInRing, PosOf
<1>3. \A i, j \in 1..n : i <= j => Weight(i) >= Weight(j)
  BY <1>1 DEF InOrder
<1>4. CASE n = 0
  BY <1>1, <1>4 DEF qlist_append, GoesAt, NoPlace
<1>5. CASE n # 0 /\ Weight(1) < w
  <2>1. \A i \in 1..n : Weight(i) < w
    BY <1>1, <1>3, <1>5
  <2>2. qlist_append(w, tmp) = 0
    BY <1>1, <1>5 DEF qlist_append
  <2>3. ~ NoPlace(w)
    BY <1>1, <1>5 DEF NoPlace
  <2> QED BY <1>1, <2>1, <2>2, <2>3 DEF GoesAt
<1>6. CASE n # 0 /\ Weight(1) >= w /\ Weight(n) >= w
  <2>1. \A i \in 1..n : Weight(i) >= w
    BY <1>1, <1>3, <1>6
  <2>2. qlist_append(w, tmp) = n
    BY <1>1, <1>6 DEF qlist_append
  <2>3. ~ NoPlace(w)
    BY <1>1, <1>6 DEF NoPlace
  <2> QED BY <1>1, <2>1, <2>2, <2>3 DEF GoesAt
<1>7. CASE n # 0 /\ Weight(1) >= w /\ Weight(n) < w
  <2>1. /\ b \in 1..n /\ \A i \in (b + 1)..n : Weight(i) < w
    <3>1. CASE tmp # None /\ Weight(PosOf(tmp)) < w
      BY <1>1, <1>2, <1>3, <3>1 DEF BeginUnit
    <3>2. CASE ~ (tmp # None /\ Weight(PosOf(tmp)) < w)
      BY <1>1, <1>7, <3>2 DEF BeginUnit
    <3> QED BY <3>1, <3>2
  <2>2. /\ e \in 1..n /\ Weight(e) >= w
        /\ Weight(e) > w \/ e = 1
    <3>1. CASE tmp # None /\ Weight(PosOf(tmp)) > w
      BY <1>1, <1>2, <3>1 DEF EndUnit
    <3>2. CASE ~ (tmp # None /\ Weight(PosOf(tmp)) > w)
      BY <1>1, <1>7, <3>2 DEF EndUnit
    <3> QED BY <3>1, <3>2
  <2>3. near = {i \in (e + 1)..b : Weight(i) >= w}
    BY DEF NotLighter
  <2>4. qlist_append(w, tmp) = IF near # {} THEN Max(near)
                               ELSE IF Weight(e) > w THEN e ELSE Nowhere
    BY <1>1, <1>7 DEF qlist_append
  <2> HIDE DEF b, e, near
  <2>5. CASE near # {}
    <3> DEFINE m == Max(near)
    <3>1. near \in SUBSET (1..n)
      BY <1>1, <2>1, <2>2, <2>3
    <3>2. m \in near /\ \A i \in near : i <= m
      BY <1>1, <2>5, <3>1, MaxOfPositions
    <3> HIDE DEF m
    <3>3. /\ m \in (e + 1)..b /\ m \in 1..n /\ m >= 2 /\ Weight(m) >= w
      BY <1>1, <2>1, <2>2, <2>3, <3>1, <3>2
    <3>4. \A i \in 1..m : Weight(i) >= w
      BY <1>1, <1>3, <3>3
    <3>5. ASSUME NEW i \in (m + 1)..n PROVE Weight(i) < w
      <4>1. CASE i <= b
        <5>1. i \notin near /\ i \in (e + 1)..b
          BY <1>1, <2>1, <2>2, <3>2, <3>3, <4>1
        <5> QED BY <1>1, <2>3, <3>3, <5>1
      <4>2. CASE i > b
        BY <1>1, <2>1, <3>3, <4>2
      <4> QED BY <1>1, <2>1, <3>3, <4>1, <4>2
    <3>6. ~ NoPlace(w)
      BY <1>1, <3>3 DEF NoPlace
    <3>7. qlist_append(w, tmp) = m
      BY <2>4, <2>5 DEF m
    <3> QED BY <1>1, <3>3, <3>4, <3>5, <3>6, <3>7 DEF GoesAt
  <2>6. CASE near = {}
    <3>1. ASSUME NEW i \in (e + 1)..n PROVE Weight(i) < w
      <4>1. CASE i <= b
        <5>1. i \in (e + 1)..b /\ i \notin near
          BY <1>1, <2>1, <2>2, <2>6, <4>1
        <5> QED BY <1>1, <2>2, <2>3, <5>1
      <4>2. CASE i > b
        BY <1>1, <2>1, <2>2, <4>2
      <4> QED BY <1>1, <2>1, <2>2, <4>1, <4>2
    <3>2. \A i \in 1..e : Weight(i) >= w
      BY <1>1, <1>3, <2>2
    <3>3. CASE Weight(e) > w
      <4>1. qlist_append(w, tmp) = e
        BY <2>4, <2>6, <3>3
      <4>2. ~ NoPlace(w)
        BY <1>1, <1>3, <2>2, <3>3 DEF NoPlace
      <4> QED BY <1>1, <2>2, <3>1, <3>2, <4>1, <4>2 DEF GoesAt
    <3>4. CASE ~ (Weight(e) > w)
      <4>1. qlist_append(w, tmp) = Nowhere
        BY <2>4, <2>6, <3>4
      <4>2. e = 1 /\ Weight(1) = w /\ n > 1
        BY <1>1, <1>7, <2>2, <3>4
      <4>3. NoPlace(w)
        BY <1>1, <3>1, <4>2 DEF NoPlace
      <4> QED BY <4>1, <4>3
    <3> QED BY <3>3, <3>4
  <2> QED BY <2>5, <2>6
<1>8. n # 0 => Weight(1) \in Nat /\ Weight(n) \in Nat
  BY <1>1
<1> QED BY <1>1, <1>4, <1>5, <1>6, <1>7, <1>8

-----------------------------------------------------------------------------
(* What a step may do to the ring. *)
Refreshes == \E t \in Writers, a \in Anchorages : \E d \in DataOf[a] : Refresh(t, a, d)
Links == \E t \in Writers, a \in Anchorages : \E d \in DataOf[a] : Link(t, a, d)
Unlinks == \E t \in Writers, a \in Anchorages : Unlink(t, a)

LEMMA RingSteps ==
  ASSUME [Next]_vars
  PROVE  Refreshes \/ Links \/ Unlinks \/ list' = list
<1>1. ASSUME NEW t \in Writers, WriterStep(t)
      PROVE  Refreshes \/ Links \/ Unlinks \/ list' = list
  <2>1. CASE CountUp(t) \/ CountDown(t)
    BY <2>1 DEF CountUp, CountDown
  <2>2. ASSUME NEW a \in Anchorages,
               qlist_anchorage_existence(t, a) \/ qlist_subtract(t, a)
        PROVE  Unlinks \/ list' = list
    BY <2>2 DEF qlist_anchorage_existence, qlist_subtract, NotQueued, Unlinks
  <2>3. ASSUME NEW a \in Anchorages, NEW d \in DataOf[a],
               qlist_append_update(t, a, d)
        PROVE  Refreshes \/ Links \/ list' = list
    BY <2>3 DEF qlist_append_update, Refuse, NoMemory, Refreshes, Links
  <2> QED BY <1>1, <2>1, <2>2, <2>3 DEF WriterStep
<1>2. ASSUME NEW r \in Readers, qlist_foreach(r) PROVE list' = list
  BY <1>2 DEF qlist_foreach, ForeachCall, ForeachLock, ForeachVisit, ForeachDone
<1> QED BY <1>1, <1>2 DEF Next, vars

(* A newcomer is linked where it goes. *)
LEMMA LinkInOrder ==
  ASSUME IInv, InOrder, NEW t \in Writers, NEW a \in Anchorages,
         NEW d \in DataOf[a], Link(t, a, d)
  PROVE  GoesAt(d.weight, PlaceOf(d) - 1)
<1>1. d.weight \in Nat /\ lock = None /\ Len(list) \in Nat
  BY QListAssumption, LinkRing
<1>2. qlist_append(d.weight, tmp_unit) # Nowhere
  BY DEF Link
<1>3. GoesAt(d.weight, qlist_append(d.weight, tmp_unit))
  BY <1>1, <1>2, PlaceInOrder
<1>4. PlaceOf(d) - 1 = qlist_append(d.weight, tmp_unit)
  <2>1. qlist_append(d.weight, tmp_unit) \in 0..Len(list)
    BY <1>3 DEF GoesAt
  <2> QED BY <1>1, <2>1 DEF PlaceOf
<1> QED BY <1>3, <1>4

(* The weights of the ring after it was linked. *)
LEMMA LinkWeights ==
  ASSUME IInv, InOrder, NEW t \in Writers, NEW a \in Anchorages,
         NEW d \in DataOf[a], Link(t, a, d)
  PROVE  \E p \in 1..(Len(list) + 1) :
           /\ Len(list') = Len(list) + 1 /\ d.weight \in Nat
           /\ list'[p].anchorage = a /\ list'[p].data.weight = d.weight
           /\ \A k \in 1..(p - 1) :
                /\ list'[k].data.weight = Weight(k)
                /\ list'[k].anchorage = list[k].anchorage
                /\ Weight(k) >= d.weight
           /\ \A k \in (p + 1)..(Len(list) + 1) :
                /\ list'[k].data.weight = Weight(k - 1)
                /\ list'[k].anchorage = list[k - 1].anchorage
                /\ Weight(k - 1) < d.weight
<1> DEFINE p == PlaceOf(d)
           u == [anchorage |-> a, data |-> d]
<1>1. u.anchorage = a /\ u.data.weight = d.weight
  OBVIOUS
<1> HIDE DEF u
<1>2. /\ Len(list) \in Nat /\ Len(list') = Len(list) + 1
      /\ p \in 1..(Len(list) + 1) /\ list'[p] = u
      /\ \A k \in 1..(p - 1) : list'[k] = list[k]
      /\ \A k \in (p + 1)..(Len(list) + 1) : list'[k] = list[k - 1]
  BY LinkRing, SMTT(30) DEF u
<1>3. GoesAt(d.weight, p - 1)
  BY LinkInOrder
<1>4. d.weight \in Nat
  BY QListAssumption
<1> HIDE DEF p
<1>5. ASSUME NEW k \in 1..(p - 1)
      PROVE  /\ list'[k].data.weight = Weight(k)
             /\ list'[k].anchorage = list[k].anchorage
             /\ Weight(k) >= d.weight
  BY <1>2, <1>3 DEF GoesAt, Weight
<1>6. ASSUME NEW k \in (p + 1)..(Len(list) + 1)
      PROVE  /\ list'[k].data.weight = Weight(k - 1)
             /\ list'[k].anchorage = list[k - 1].anchorage
             /\ Weight(k - 1) < d.weight
  <2>1. k - 1 \in ((p - 1) + 1)..Len(list)
    BY <1>2
  <2> QED BY <1>2, <1>3, <2>1 DEF GoesAt, Weight
<1> QED BY <1>1, <1>2, <1>4, <1>5, <1>6

(* While no weight is changed under a unit the ring stays in order. *)
LEMMA OrderedOn ==
  ASSUME IInv, IInv', [Next]_vars, InOrder, WeightsKept \/ list' = list
  PROVE  InOrder'
<1>1. /\ Len(list) \in Nat /\ Len(list') \in Nat
      /\ \A i \in 1..Len(list) : Weight(i) \in Nat
  BY UnitAt, LenProperties DEF IInv, TypeOK
<1>2. CASE list' = list
  BY <1>2 DEF InOrder, Weight
<1>3. CASE Refreshes /\ WeightsKept
  <2>1. /\ Len(list') = Len(list)
        /\ \A i \in 1..Len(list) : list'[i].anchorage = list[i].anchorage
    BY <1>3, RefreshRing DEF Refreshes
  <2>2. \A i \in 1..Len(list) : list'[i].data.weight = Weight(i)
    BY <1>3, <2>1 DEF WeightsKept, Weight
  <2> QED BY <2>1, <2>2 DEF InOrder, Weight
<1>4. CASE Links
  <2>1. PICK t \in Writers, a \in Anchorages : \E d \in DataOf[a] : Link(t, a, d)
    BY <1>4 DEF Links
  <2>2. PICK d \in DataOf[a] : Link(t, a, d)
    BY <2>1
  <2> DEFINE w == d.weight
             n == Len(list)
  <2>3. PICK p \in 1..(n + 1) :
           /\ Len(list') = n + 1 /\ w \in Nat
           /\ list'[p].data.weight = w
           /\ \A k \in 1..(p - 1) :
                list'[k].data.weight = Weight(k) /\ Weight(k) >= w
           /\ \A k \in (p + 1)..(n + 1) :
                list'[k].data.weight = Weight(k - 1) /\ Weight(k - 1) < w
    BY <2>2, LinkWeights
  <2> HIDE DEF w
  <2>4. ASSUME NEW i \in 1..(n + 1), NEW j \in 1..(n + 1), i < j
        PROVE  list'[i].data.weight >= list'[j].data.weight
    <3>1. CASE i < p
      <4>1. /\ i \in 1..(p - 1) /\ i \in 1..n
            /\ list'[i].data.weight = Weight(i) /\ Weight(i) >= w
        BY <1>1, <2>3, <3>1
      <4>2. CASE j < p
        BY <1>1, <2>3, <2>4, <4>1, <4>2 DEF InOrder
      <4>3. CASE j = p
        BY <2>3, <4>1, <4>3
      <4>4. CASE j > p
        <5>1. j \in (p + 1)..(n + 1) /\ j - 1 \in 1..n
          BY <1>1, <4>4
        <5>2. list'[j].data.weight = Weight(j - 1) /\ Weight(j - 1) < w
          BY <2>3, <5>1
        <5> QED BY <1>1, <2>3, <4>1, <5>1, <5>2
      <4> QED BY <1>1, <4>2, <4>3, <4>4
    <3>2. CASE i >= p
      <4>1. j \in (p + 1)..(n + 1) /\ j - 1 \in 1..n
        BY <1>1, <2>4, <3>2
      <4>2. list'[j].data.weight = Weight(j - 1) /\ Weight(j - 1) < w
        BY <2>3, <4>1
      <4>3. CASE i = p
        BY <1>1, <2>3, <4>1, <4>2, <4>3
      <4>4. CASE i > p
        <5>1. i \in (p + 1)..(n + 1) /\ i - 1 \in 1..n /\ i - 1 < j - 1
          BY <1>1, <2>4, <4>4
        <5>2. list'[i].data.weight = Weight(i - 1)
          BY <2>3, <5>1
        <5> QED BY <4>1, <4>2, <5>1, <5>2 DEF InOrder
      <4> QED BY <1>1, <3>2, <4>3, <4>4
    <3> QED BY <1>1, <3>1, <3>2
  <2> QED BY <2>3, <2>4 DEF InOrder, Weight
<1>5. CASE Unlinks
  <2>1. PICK p \in 1..Len(list) :
          \A k \in 1..(Len(list) - 1) :
            list'[k] = IF k < p THEN list[k] ELSE list[k + 1]
    BY <1>5, UnlinkRing DEF Unlinks
  <2>2. Len(list') = Len(list) - 1
    BY <1>5, UnlinkRing DEF Unlinks
  <2> DEFINE from(k) == IF k < p THEN k ELSE k + 1
  <2>3. ASSUME NEW k \in 1..Len(list')
        PROVE  from(k) \in 1..Len(list) /\ list'[k] = list[from(k)]
    BY <1>1, <2>1, <2>2
  <2>4. ASSUME NEW i \in 1..Len(list'), NEW j \in 1..Len(list'), i < j
        PROVE  from(i) < from(j)
    BY <1>1, <2>1, <2>2, <2>4
  <2> HIDE DEF from
  <2> QED BY <2>3, <2>4 DEF InOrder, Weight
<1> QED BY <1>2, <1>3, <1>4, <1>5, RingSteps

-----------------------------------------------------------------------------
(* The invariant: that of QList, and the order while the ring is steady.   *)
OrderInv == IInv /\ (steady => InOrder)

LEMMA OrderInvInit == OrderInit => OrderInv
<1> SUFFICES ASSUME OrderInit PROVE OrderInv
  OBVIOUS
<1>1. IInv
  BY InitInvariant DEF OrderInit
<1>2. Len(list) = 0
  BY DEF OrderInit, Init
<1> QED BY <1>1, <1>2 DEF OrderInv, InOrder

LEMMA OrderInvNext == OrderInv /\ [OrderNext]_orderVars => OrderInv'
<1> SUFFICES ASSUME OrderInv, [OrderNext]_orderVars PROVE OrderInv'
  OBVIOUS
<1>1. IInv /\ [Next]_vars
  BY DEF OrderInv, OrderNext, orderVars
<1>2. IInv'
  BY <1>1, NextInvariant
<1>3. ASSUME steady' PROVE InOrder'
  <2>1. CASE list' = <<>>
    <3>1. Len(list') = 0
      BY <2>1
    <3> QED BY <3>1 DEF InOrder
  <2>2. CASE steady /\ (WeightsKept \/ list' = list)
    BY <1>1, <1>2, <2>2, OrderedOn DEF OrderInv
  <2> QED BY <1>3, <2>1, <2>2 DEF OrderNext, orderVars, vars
<1> QED BY <1>2, <1>3 DEF OrderInv

LEMMA OrderInvariant == OrderSpec => []OrderInv
BY OrderInvInit, OrderInvNext, PTL DEF OrderSpec

(* The ring is in order of falling weight for as long as no refresh has    *)
(* changed the weight of a queued unit (qlist.c:86-138), whatever the      *)
(* cache makes of the walk of qlist_append.                                *)
THEOREM RingIsSorted == OrderSpec => []Sorted
<1>1. OrderInv => Sorted
  BY DEF OrderInv, Sorted, InOrder
<1> QED BY <1>1, OrderInvariant, PTL

(* qlist_append links, or refuses, a unit of any weight just as it would   *)
(* without a cached unit (comment at qlist.c:95-99).                       *)
THEOREM CacheOnlySavesTime == OrderSpec => []CacheTransparent
<1>1. OrderInv => CacheTransparent
  <2> SUFFICES ASSUME OrderInv, steady, lock = None, NEW w \in Weights
               PROVE  qlist_append(w, tmp_unit) = qlist_append(w, None)
    BY DEF CacheTransparent
  <2>1. IInv /\ InOrder /\ w \in Nat
    BY QListAssumption DEF OrderInv, Weights, Data
  <2>2. CASE NoPlace(w)
    BY <2>1, <2>2, PlaceInOrder
  <2>3. CASE ~ NoPlace(w)
    <3>1. GoesAt(w, qlist_append(w, tmp_unit)) /\ GoesAt(w, qlist_append(w, None))
      BY <2>1, <2>3, PlaceInOrder
    <3> QED BY <2>1, <3>1, PlaceIsUnique
  <2> QED BY <2>2, <2>3
<1> QED BY <1>1, OrderInvariant, PTL

(* First come, first served within a weight: a newcomer is linked behind   *)
(* everybody of his weight or more and ahead of all others                 *)
(* (qlist.c:106-137).                                                      *)
LEMMA NewcomerLinked ==
  ASSUME OrderInv, [Next]_vars, steady, NEW k \in 1..Len(list'),
         \A i \in 1..Len(list) : list[i].anchorage # list'[k].anchorage
  PROVE  \A i \in 1..Len(list') :
           i < k <=> i # k /\ list'[i].data.weight >= list'[k].data.weight
<1>1. IInv /\ IInv' /\ InOrder
  BY NextInvariant DEF OrderInv
<1>2. /\ Len(list) \in Nat /\ Len(list') \in Nat
      /\ \A i \in 1..Len(list) : Weight(i) \in Nat
  BY <1>1, UnitAt, LenProperties DEF IInv, TypeOK
<1>3. CASE list' = list
  BY <1>3
<1>4. CASE Refreshes
  <2>1. /\ Len(list') = Len(list)
        /\ \A i \in 1..Len(list) : list'[i].anchorage = list[i].anchorage
    BY <1>1, <1>4, RefreshRing DEF Refreshes
  <2> QED BY <2>1
<1>5. CASE Unlinks
  <2>1. PICK p \in 1..Len(list) :
          \A i \in 1..(Len(list) - 1) :
            list'[i] = IF i < p THEN list[i] ELSE list[i + 1]
    BY <1>1, <1>5, UnlinkRing DEF Unlinks
  <2>2. Len(list') = Len(list) - 1
    BY <1>1, <1>5, UnlinkRing DEF Unlinks
  <2>3. k \in 1..(Len(list) - 1) /\ k \in 1..Len(list) /\ k + 1 \in 1..Len(list)
    BY <1>2, <2>2
  <2>4. list'[k] = list[k] \/ list'[k] = list[k + 1]
    BY <2>1, <2>3
  <2> QED BY <2>3, <2>4
<1>6. CASE Links
  <2>1. PICK t \in Writers, a \in Anchorages : \E d \in DataOf[a] : Link(t, a, d)
    BY <1>6 DEF Links
  <2>2. PICK d \in DataOf[a] : Link(t, a, d)
    BY <2>1
  <2> DEFINE w == d.weight
             n == Len(list)
  <2>3. PICK p \in 1..(n + 1) :
           /\ Len(list') = n + 1 /\ w \in Nat
           /\ list'[p].data.weight = w
           /\ \A i \in 1..(p - 1) :
                /\ list'[i].data.weight = Weight(i)
                /\ list'[i].anchorage = list[i].anchorage /\ Weight(i) >= w
           /\ \A i \in (p + 1)..(n + 1) :
                /\ list'[i].data.weight = Weight(i - 1)
                /\ list'[i].anchorage = list[i - 1].anchorage /\ Weight(i - 1) < w
    BY <1>1, <2>2, LinkWeights
  <2> HIDE DEF w
  <2>4. k = p
    <3>1. ASSUME k < p PROVE FALSE
      <4>1. k \in 1..(p - 1) /\ k \in 1..n
        BY <1>2, <3>1
      <4> QED BY <2>3, <4>1
    <3>2. ASSUME k > p PROVE FALSE
      <4>1. k \in (p + 1)..(n + 1) /\ k - 1 \in 1..n
        BY <1>2, <2>3, <3>2
      <4> QED BY <2>3, <4>1
    <3> QED BY <1>2, <3>1, <3>2
  <2>5. ASSUME NEW i \in 1..Len(list')
        PROVE  i < k <=> i # k /\ list'[i].data.weight >= list'[k].data.weight
    <3>1. CASE i < p
      <4>1. i \in 1..(p - 1) /\ i \in 1..n
        BY <1>2, <3>1
      <4> QED BY <1>2, <2>3, <2>4, <3>1, <4>1
    <3>2. CASE i > p
      <4>1. i \in (p + 1)..(n + 1) /\ i - 1 \in 1..n
        BY <1>2, <2>3, <3>2
      <4>2. list'[i].data.weight = Weight(i - 1) /\ Weight(i - 1) < w
        BY <2>3, <4>1
      <4> QED BY <1>2, <2>3, <2>4, <3>2, <4>1, <4>2
    <3>3. CASE i = p
      BY <2>4, <3>3
    <3> QED BY <1>2, <3>1, <3>2, <3>3
  <2> QED BY <2>5
<1> QED BY <1>3, <1>4, <1>5, <1>6, RingSteps

(* So it is at every link that the list makes, as long as no refresh has    *)
(* changed a weight: first come, first served (qlist.c:106-137).           *)
THEOREM FirstComeFirstServed == OrderSpec => NewcomerBehindPeers
<1>1. OrderInv /\ [OrderNext]_orderVars
        => [\A k \in 1..Len(list') :
              steady /\ (\A i \in 1..Len(list) :
                           list[i].anchorage # list'[k].anchorage)
                => \A i \in 1..Len(list') :
                     i < k <=> /\ i # k
                               /\ list'[i].data.weight
                                    >= list'[k].data.weight]_orderVars
  BY NewcomerLinked DEF OrderNext
<1> QED BY <1>1, OrderInvariant, PTL DEF OrderSpec, NewcomerBehindPeers

-----------------------------------------------------------------------------
(* The pointers.                                                           *)
(* The nodes of a memory m, with pointers in P. *)
Nodes(P) == [prev : P, next : P]
Holds(P, D, m) == m \in [D -> Nodes(P)]

Memory(P, m) == DOMAIN m \subseteq P /\ m \in [DOMAIN m -> Nodes(P)]

(* a is linked between x and y, and no other pointer is changed. *)
LinkedBetween(m, new, x, a, y) ==
  /\ \A n : n \in DOMAIN new <=> n \in DOMAIN m \/ n = a
  /\ new[x].next = a /\ new[a].prev = x
  /\ new[a].next = y /\ new[y].prev = a
  /\ \A n \in DOMAIN m : n # x => new[n].next = m[n].next
  /\ \A n \in DOMAIN m : n # y => new[n].prev = m[n].prev

LEMMA NodeMade ==
  ASSUME NEW P, NEW m, Memory(P, m), NEW a \in P, a \notin DOMAIN m
  PROVE  /\ LIST_NODE_INIT(m, a) \in [DOMAIN m \cup {a} -> Nodes(P)]
         /\ \A n \in DOMAIN m : LIST_NODE_INIT(m, a)[n] = m[n]
<1> DEFINE i == LIST_NODE_INIT(m, a)
<1>1. \A n \in DOMAIN m : i[n] = m[n]
  BY DEF LIST_NODE_INIT
<1>2. ASSUME NEW n \in DOMAIN m \cup {a} PROVE i[n] \in Nodes(P)
  <2>1. CASE n = a
    BY <2>1 DEF LIST_NODE_INIT, Nodes
  <2>2. CASE n # a
    BY <2>2, <1>1 DEF Memory
  <2> QED BY <2>1, <2>2
<1>3. i = [n \in DOMAIN m \cup {a} |-> i[n]]
  BY DEF LIST_NODE_INIT
<1> HIDE DEF i
<1>4. i \in [DOMAIN m \cup {a} -> Nodes(P)]
  BY <1>2, <1>3
<1> QED BY <1>1, <1>4 DEF i

(* What the assignment of one pointer does to the memory. *)
LEMMA NextSet ==
  ASSUME NEW P, NEW D, NEW m, Holds(P, D, m),
         NEW x \in D, NEW y \in P
  PROVE  /\ Holds(P, D, SetNext(m, x, y))
         /\ \A n \in D : /\ SetNext(m, x, y)[n].prev = m[n].prev
                         /\ n = x => SetNext(m, x, y)[n].next = y
                         /\ n # x => SetNext(m, x, y)[n].next = m[n].next
<1>1. m \in [D -> Nodes(P)] /\ m[x] \in Nodes(P)
  BY DEF Holds
<1>2. /\ [m[x] EXCEPT !.next = y] \in Nodes(P)
      /\ [m[x] EXCEPT !.next = y].prev = m[x].prev
      /\ [m[x] EXCEPT !.next = y].next = y
  BY <1>1 DEF Nodes
<1> QED BY <1>1, <1>2 DEF Holds, SetNext

LEMMA PrevSet ==
  ASSUME NEW P, NEW D, NEW m, Holds(P, D, m),
         NEW x \in D, NEW y \in P
  PROVE  /\ Holds(P, D, SetPrev(m, x, y))
         /\ \A n \in D : /\ SetPrev(m, x, y)[n].next = m[n].next
                         /\ n = x => SetPrev(m, x, y)[n].prev = y
                         /\ n # x => SetPrev(m, x, y)[n].prev = m[n].prev
<1>1. m \in [D -> Nodes(P)] /\ m[x] \in Nodes(P)
  BY DEF Holds
<1>2. /\ [m[x] EXCEPT !.prev = y] \in Nodes(P)
      /\ [m[x] EXCEPT !.prev = y].next = m[x].next
      /\ [m[x] EXCEPT !.prev = y].prev = y
  BY <1>1 DEF Nodes
<1> QED BY <1>1, <1>2 DEF Holds, SetPrev

(* Both pointers between two nodes set, in either order. *)
Spliced(P, D, m, new, x, v, y, w) ==
  /\ Holds(P, D, new)
  /\ \A n \in D : /\ n = x => new[n].next = v
                  /\ n # x => new[n].next = m[n].next
                  /\ n = y => new[n].prev = w
                  /\ n # y => new[n].prev = m[n].prev

LEMMA BothSet ==
  ASSUME NEW P, NEW D, NEW m, Holds(P, D, m),
         NEW x \in D, NEW y \in D, NEW v \in P, NEW w \in P
  PROVE  /\ Spliced(P, D, m, SetNext(SetPrev(m, y, w), x, v), x, v, y, w)
         /\ Spliced(P, D, m, SetPrev(SetNext(m, x, v), y, w), x, v, y, w)
<1>1. Spliced(P, D, m, SetNext(SetPrev(m, y, w), x, v), x, v, y, w)
  <2> DEFINE b == SetPrev(m, y, w)
  <2>1. Holds(P, D, b)
    BY PrevSet
  <2>2. ASSUME NEW n \in D
        PROVE  /\ b[n].next = m[n].next
               /\ n = y => b[n].prev = w
               /\ n # y => b[n].prev = m[n].prev
    BY PrevSet
  <2> HIDE DEF b
  <2>3. Holds(P, D, SetNext(b, x, v))
    BY <2>1, NextSet
  <2>4. ASSUME NEW n \in D
        PROVE  /\ SetNext(b, x, v)[n].prev = b[n].prev
               /\ n = x => SetNext(b, x, v)[n].next = v
               /\ n # x => SetNext(b, x, v)[n].next = b[n].next
    BY <2>1, NextSet
  <2>5. Spliced(P, D, m, SetNext(b, x, v), x, v, y, w)
    BY <2>2, <2>3, <2>4 DEF Spliced
  <2> QED BY <2>5 DEF b
<1>2. Spliced(P, D, m, SetPrev(SetNext(m, x, v), y, w), x, v, y, w)
  <2> DEFINE b == SetNext(m, x, v)
  <2>1. Holds(P, D, b)
    BY NextSet
  <2>2. ASSUME NEW n \in D
        PROVE  /\ b[n].prev = m[n].prev
               /\ n = x => b[n].next = v
               /\ n # x => b[n].next = m[n].next
    BY NextSet
  <2> HIDE DEF b
  <2>3. Holds(P, D, SetPrev(b, y, w))
    BY <2>1, PrevSet
  <2>4. ASSUME NEW n \in D
        PROVE  /\ SetPrev(b, y, w)[n].next = b[n].next
               /\ n = y => SetPrev(b, y, w)[n].prev = w
               /\ n # y => SetPrev(b, y, w)[n].prev = b[n].prev
    BY <2>1, PrevSet
  <2>5. Spliced(P, D, m, SetPrev(b, y, w), x, v, y, w)
    BY <2>2, <2>3, <2>4 DEF Spliced
  <2> QED BY <2>5 DEF b
<1> QED BY <1>1, <1>2

(* The two macros do the same between two neighbours. *)
LEMMA AppendLinks ==
  ASSUME NEW P, NEW m, Memory(P, m), NEW a \in P, a \notin DOMAIN m,
         NEW x \in DOMAIN m, NEW y \in DOMAIN m, m[x].next = y, m[y].prev = x,
         NEW new \in {LIST_APPEND_REAR(LIST_NODE_INIT(m, a), x, a),
                      LIST_APPEND_AHEAD(LIST_NODE_INIT(m, a), y, a)}
  PROVE  Memory(P, new) /\ LinkedBetween(m, new, x, a, y)
<1> DEFINE i == LIST_NODE_INIT(m, a)
           D == DOMAIN m \cup {a}
           made == [i EXCEPT ![a] = [prev |-> x, next |-> y]]
<1>1. Holds(P, D, i) /\ \A n \in DOMAIN m : i[n] = m[n]
  BY NodeMade DEF Holds
<1>2. x \in D /\ y \in D /\ a \in D /\ D \subseteq P /\ x # a /\ y # a
  BY DEF Memory
<1>3. i[x].next = y /\ i[y].prev = x
  BY <1>1
<1>4. new \in {LIST_APPEND_REAR(i, x, a), LIST_APPEND_AHEAD(i, y, a)}
  OBVIOUS
<1> HIDE DEF i, D
<1>5. [prev |-> x, next |-> y] \in Nodes(P)
  BY <1>2 DEF Nodes
<1>6. /\ Holds(P, D, made) /\ made[a] = [prev |-> x, next |-> y]
      /\ \A n \in D : n # a => made[n] = i[n]
  BY <1>1, <1>2, <1>5 DEF Holds
<1>7. made[x].next = y /\ made[y].prev = x
  BY <1>2, <1>3, <1>6
<1>8. /\ LIST_APPEND_REAR(i, x, a) = SetNext(SetPrev(made, y, a), x, a)
      /\ LIST_APPEND_AHEAD(i, y, a) = SetPrev(SetNext(made, x, a), y, a)
  BY <1>3, <1>7, Zenon DEF LIST_APPEND_REAR, LIST_APPEND_AHEAD
<1> HIDE DEF made
<1>9. Spliced(P, D, made, new, x, a, y, a)
  <2>1. /\ Spliced(P, D, made, SetNext(SetPrev(made, y, a), x, a), x, a, y, a)
        /\ Spliced(P, D, made, SetPrev(SetNext(made, x, a), y, a), x, a, y, a)
    BY <1>2, <1>6, BothSet
  <2> QED BY <1>4, <1>8, <2>1
<1>10. /\ new[x].next = a /\ new[a].prev = x
       /\ new[a].next = y /\ new[y].prev = a
  BY <1>2, <1>6, <1>9 DEF Spliced
<1>11. ASSUME NEW n \in DOMAIN m
       PROVE  /\ n # x => new[n].next = m[n].next
              /\ n # y => new[n].prev = m[n].prev
  <2>1. n \in D /\ n # a /\ made[n] = m[n]
    BY <1>1, <1>6 DEF D
  <2> QED BY <1>9, <2>1 DEF Spliced
<1>12. \A n : n \in DOMAIN new <=> n \in DOMAIN m \/ n = a
  BY <1>9 DEF D, Holds, Spliced
<1>13. Memory(P, new)
  BY <1>2, <1>9 DEF Memory, Holds, Spliced
<1> QED BY <1>10, <1>11, <1>12, <1>13 DEF LinkedBetween

(* The nodes s[0], the head, to s[n] differ; s[n + 1] is the head again;   *)
(* and in the memory m they are linked into a ring.                        *)
Apart(n, s) ==
  s[n + 1] = s[0] /\ \A i, j \in 0..n : s[i] = s[j] => i = j

IsRing(n, m, s) ==
  /\ \A x : x \in DOMAIN m <=> \E i \in 0..n : x = s[i]
  /\ \A i \in 0..n : m[s[i]].next = s[i + 1] /\ m[s[i + 1]].prev = s[i]

Inserted(n, p, a, old, new) ==
  /\ \A k \in 0..(p - 1) : new[k] = old[k]
  /\ new[p] = a
  /\ \A k \in (p + 1)..(n + 2) : new[k] = old[k - 1]

Removed(n, p, old, new) ==
  /\ \A k \in 0..(p - 1) : new[k] = old[k]
  /\ \A k \in p..n : new[k] = old[k + 1]

(* A unit linked into a ring between two neighbours makes a longer ring. *)
LEMMA LongerRing ==
  ASSUME NEW n \in Nat, NEW p \in 1..(n + 1), NEW a, NEW m, NEW mm,
         NEW old, NEW new, Apart(n, old), IsRing(n, m, old),
         Inserted(n, p, a, old, new), LinkedBetween(m, mm, old[p - 1], a, old[p])
  PROVE  IsRing(n + 1, mm, new)
<1> USE DEF Apart, IsRing, Inserted
<1>1. \A i \in 0..n : old[i] \in DOMAIN m
  OBVIOUS
<1>2. old[n + 1] \in DOMAIN m
  BY <1>1
<1>3. ASSUME NEW k \in 0..(n + 1)
      PROVE  mm[new[k]].next = new[k + 1]
  <2>1. CASE k < p - 1
    <3>1. k \in 0..n /\ k \in 0..(p - 1) /\ k + 1 \in 0..(p - 1) /\ p - 1 \in 0..n
      BY <2>1
    <3>2. old[k] # old[p - 1] /\ old[k] \in DOMAIN m
      BY <1>1, <2>1, <3>1
    <3> QED BY <3>1, <3>2 DEF LinkedBetween
  <2>2. CASE k = p - 1
    <3>1. k \in 0..(p - 1) /\ k + 1 = p
      BY <2>2
    <3> QED BY <2>2, <3>1 DEF LinkedBetween
  <2>3. CASE k = p
    <3>1. p + 1 \in (p + 1)..(n + 2) /\ (p + 1) - 1 = p
      OBVIOUS
    <3> QED BY <2>3, <3>1 DEF LinkedBetween
  <2>4. CASE k > p
    <3>1. /\ k \in (p + 1)..(n + 2) /\ k + 1 \in (p + 1)..(n + 2)
          /\ k - 1 \in 0..n /\ p - 1 \in 0..n /\ (k + 1) - 1 = k /\ (k - 1) + 1 = k
          /\ k - 1 # p - 1
      BY <2>4
    <3>2. old[k - 1] # old[p - 1] /\ old[k - 1] \in DOMAIN m
      BY <1>1, <3>1
    <3> QED BY <3>1, <3>2 DEF LinkedBetween
  <2> QED BY <2>1, <2>2, <2>3, <2>4
<1>4. ASSUME NEW k \in 0..(n + 1)
      PROVE  mm[new[k + 1]].prev = new[k]
  <2>1. CASE k < p - 1
    <3>1. /\ k \in 0..n /\ k \in 0..(p - 1) /\ k + 1 \in 0..(p - 1) /\ k + 1 \in 1..n
      BY <2>1
    <3>2. old[k + 1] # old[p]
      <4>1. CASE p = n + 1
        BY <3>1, <4>1
      <4>2. CASE p # n + 1
        <5>1. p \in 0..n /\ k + 1 # p /\ k + 1 \in 0..n
          BY <2>1, <3>1, <4>2
        <5> QED BY <5>1
      <4> QED BY <4>1, <4>2
    <3>3. old[k + 1] \in DOMAIN m
      BY <1>1, <3>1
    <3> QED BY <3>1, <3>2, <3>3 DEF LinkedBetween
  <2>2. CASE k = p - 1
    <3>1. k \in 0..(p - 1) /\ k + 1 = p
      BY <2>2
    <3> QED BY <2>2, <3>1 DEF LinkedBetween
  <2>3. CASE k = p
    <3>1. p + 1 \in (p + 1)..(n + 2) /\ (p + 1) - 1 = p
      OBVIOUS
    <3> QED BY <2>3, <3>1 DEF LinkedBetween
  <2>4. CASE k > p
    <3>1. /\ k \in (p + 1)..(n + 2) /\ k + 1 \in (p + 1)..(n + 2)
          /\ k - 1 \in 0..n /\ (k + 1) - 1 = k /\ (k - 1) + 1 = k
          /\ p \in 1..n
      BY <2>4
    <3>2. old[k] # old[p] /\ old[k] \in DOMAIN m
      <4>1. CASE k = n + 1
        BY <1>2, <3>1, <4>1
      <4>2. CASE k # n + 1
        <5>1. k \in 0..n /\ p \in 0..n /\ k # p
          BY <2>4, <3>1, <4>2
        <5> QED BY <1>1, <5>1
      <4> QED BY <4>1, <4>2
    <3> QED BY <3>1, <3>2 DEF LinkedBetween
  <2> QED BY <2>1, <2>2, <2>3, <2>4
<1>5. ASSUME NEW x PROVE x \in DOMAIN mm <=> \E k \in 0..(n + 1) : x = new[k]
  <2>1. x \in DOMAIN mm <=> x = a \/ \E i \in 0..n : x = old[i]
    BY DEF LinkedBetween
  <2>2. ASSUME NEW i \in 0..n PROVE \E k \in 0..(n + 1) : old[i] = new[k]
    <3>1. CASE i <= p - 1
      <4>1. i \in 0..(p - 1) /\ i \in 0..(n + 1)
        BY <3>1
      <4> QED BY <4>1
    <3>2. CASE i > p - 1
      <4>1. i + 1 \in (p + 1)..(n + 2) /\ i + 1 \in 0..(n + 1) /\ (i + 1) - 1 = i
        BY <3>2
      <4> QED BY <4>1
    <3> QED BY <3>1, <3>2
  <2>3. ASSUME NEW k \in 0..(n + 1)
        PROVE  new[k] = a \/ \E i \in 0..n : new[k] = old[i]
    <3>1. CASE k < p
      <4>1. k \in 0..(p - 1) /\ k \in 0..n
        BY <3>1
      <4> QED BY <4>1
    <3>2. CASE k > p
      <4>1. k \in (p + 1)..(n + 2) /\ k - 1 \in 0..n
        BY <3>2
      <4> QED BY <4>1
    <3> QED BY <3>1, <3>2
  <2>4. p \in 0..(n + 1)
    OBVIOUS
  <2> QED BY <2>1, <2>2, <2>3, <2>4
<1> QED BY <1>3, <1>4, <1>5

(* a is taken out from between x and y, and no other pointer is changed. *)
CutBetween(m, new, x, a, y) ==
  /\ \A n : n \in DOMAIN new <=> n \in DOMAIN m /\ n # a
  /\ new[x].next = y /\ new[y].prev = x
  /\ \A n \in DOMAIN m \ {a} : n # x => new[n].next = m[n].next
  /\ \A n \in DOMAIN m \ {a} : n # y => new[n].prev = m[n].prev

LEMMA SubtractCuts ==
  ASSUME NEW P, NEW m, Memory(P, m), NEW a \in DOMAIN m,
         NEW x \in DOMAIN m, NEW y \in DOMAIN m, x # a, y # a,
         m[x].next = a, m[a].prev = x, m[a].next = y, m[y].prev = a,
         NEW new, new = [n \in DOMAIN m \ {a} |-> LIST_SUBTRACT(m, a)[n]]
  PROVE  Memory(P, new) /\ CutBetween(m, new, x, a, y)
<1> DEFINE D == DOMAIN m
           forth == SetNext(m, x, y)
           cut == SetPrev(forth, y, x)
<1>1. Holds(P, D, m) /\ x \in D /\ y \in D /\ a \in D /\ x \in P /\ y \in P
      /\ D \subseteq P
  BY DEF Memory, Holds
<1> HIDE DEF D
<1>2. forth[a].next = y /\ forth[a].prev = x
  <2>1. ASSUME NEW n \in D
        PROVE  forth[n].prev = m[n].prev /\ (n # x => forth[n].next = m[n].next)
    BY <1>1, NextSet
  <2> QED BY <1>1, <2>1
<1>3. LIST_SUBTRACT(m, a) = cut
  BY <1>2, Zenon DEF LIST_SUBTRACT
<1>4. Spliced(P, D, m, cut, x, y, y, x)
  BY <1>1, BothSet
<1> HIDE DEF cut
<1>5. DOMAIN new = D \ {a} /\ \A n \in D \ {a} : new[n] = cut[n]
  BY <1>3 DEF D
<1>6. new \in [D \ {a} -> Nodes(P)]
  <2>1. new = [n \in D \ {a} |-> cut[n]]
    BY <1>3 DEF D
  <2>2. \A n \in D \ {a} : cut[n] \in Nodes(P)
    BY <1>4 DEF Spliced, Holds
  <2> QED BY <2>1, <2>2
<1>7. Memory(P, new)
  BY <1>1, <1>5, <1>6 DEF Memory
<1>8. x \in D \ {a} /\ y \in D \ {a}
  BY <1>1
<1>9. CutBetween(m, new, x, a, y)
  <2>1. \A n : n \in DOMAIN new <=> n \in DOMAIN m /\ n # a
    BY <1>5 DEF D
  <2>2. new[x].next = y /\ new[y].prev = x
    <3>1. cut[x].next = y /\ cut[y].prev = x
      BY <1>1, <1>4 DEF Spliced
    <3>2. new[x] = cut[x] /\ new[y] = cut[y]
      BY <1>5, <1>8
    <3> QED BY <3>1, <3>2
  <2>3. ASSUME NEW n \in DOMAIN m \ {a}
        PROVE  /\ n # x => new[n].next = m[n].next
               /\ n # y => new[n].prev = m[n].prev
    <3>1. n \in D /\ new[n] = cut[n]
      BY <1>5 DEF D
    <3> QED BY <1>4, <3>1 DEF Spliced
  <2> QED BY <2>1, <2>2, <2>3 DEF CutBetween
<1> QED BY <1>7, <1>9

(* A place behind the one taken out, counted from the one before. *)
LEMMA OneDown ==
  ASSUME NEW n \in Nat, NEW p \in 1..n, NEW i \in 0..n, i # p, i > p - 1
  PROVE  i - 1 \in p..n /\ i - 1 \in 0..(n - 1) /\ (i - 1) + 1 = i
OBVIOUS

(* A unit taken out of a ring leaves a shorter ring. *)
LEMMA ShorterRing ==
  ASSUME NEW n \in Nat, NEW p \in 1..n, NEW m, NEW mm, NEW old, NEW new,
         Apart(n, old), IsRing(n, m, old), Removed(n, p, old, new),
         CutBetween(m, mm, old[p - 1], old[p], old[p + 1])
  PROVE  IsRing(n - 1, mm, new)
<1> USE DEF Apart, IsRing, Removed
<1>1. \A i \in 0..n : i # p => old[i] # old[p] /\ old[i] \in DOMAIN m \ {old[p]}
  <2>1. p \in 0..n
    OBVIOUS
  <2> QED BY <2>1
<1>2. old[n + 1] # old[p] /\ old[n + 1] \in DOMAIN m \ {old[p]}
  <2>1. 0 \in 0..n /\ 0 # p
    OBVIOUS
  <2> QED BY <1>1, <2>1
<1>3. ASSUME NEW k \in 0..(n - 1)
      PROVE  mm[new[k]].next = new[k + 1]
  <2>1. CASE k < p - 1
    <3>1. k \in 0..n /\ k \in 0..(p - 1) /\ k + 1 \in 0..(p - 1) /\ p - 1 \in 0..n
          /\ k # p
      BY <2>1
    <3>2. old[k] # old[p - 1] /\ old[k] \in DOMAIN m \ {old[p]}
      BY <1>1, <2>1, <3>1
    <3> QED BY <3>1, <3>2 DEF CutBetween
  <2>2. CASE k = p - 1
    <3>1. k \in 0..(p - 1) /\ k + 1 = p /\ p \in p..n
      BY <2>2
    <3> QED BY <2>2, <3>1 DEF CutBetween
  <2>3. CASE k > p - 1
    <3>1. /\ k \in p..n /\ k + 1 \in p..n /\ k + 1 \in 0..n /\ p - 1 \in 0..n
          /\ k + 1 # p - 1 /\ k + 1 # p
      BY <2>3
    <3>2. old[k + 1] # old[p - 1] /\ old[k + 1] \in DOMAIN m \ {old[p]}
      BY <1>1, <3>1
    <3> QED BY <3>1, <3>2 DEF CutBetween
  <2> QED BY <2>1, <2>2, <2>3
<1>4. ASSUME NEW k \in 0..(n - 1)
      PROVE  mm[new[k + 1]].prev = new[k]
  <2>1. CASE k < p - 1
    <3>1. /\ k \in 0..n /\ k \in 0..(p - 1) /\ k + 1 \in 0..(p - 1) /\ k + 1 \in 1..n
          /\ k + 1 # p /\ k + 1 \in 0..n
      BY <2>1
    <3>2. old[k + 1] # old[p + 1]
      <4>1. CASE p = n
        BY <3>1, <4>1
      <4>2. CASE p # n
        <5>1. p + 1 \in 0..n /\ k + 1 # p + 1
          BY <2>1, <3>1, <4>2
        <5> QED BY <3>1, <5>1
      <4> QED BY <4>1, <4>2
    <3>3. old[k + 1] \in DOMAIN m \ {old[p]}
      BY <1>1, <3>1
    <3> QED BY <3>1, <3>2, <3>3 DEF CutBetween
  <2>2. CASE k = p - 1
    <3>1. k \in 0..(p - 1) /\ k + 1 = p /\ p \in p..n
      BY <2>2
    <3> QED BY <2>2, <3>1 DEF CutBetween
  <2>3. CASE k > p - 1
    <3>1. /\ k \in p..n /\ k + 1 \in p..n /\ k + 1 \in 0..n /\ (k + 1) + 1 \in 1..(n + 1)
      BY <2>3
    <3>2. old[(k + 1) + 1] # old[p + 1] /\ old[(k + 1) + 1] \in DOMAIN m \ {old[p]}
      <4>1. p + 1 \in 0..n
        BY <2>3
      <4>2. CASE (k + 1) + 1 = n + 1
        <5>1. 0 \in 0..n /\ p + 1 # 0
          OBVIOUS
        <5> QED BY <1>2, <4>1, <4>2, <5>1
      <4>3. CASE (k + 1) + 1 # n + 1
        <5>1. (k + 1) + 1 \in 0..n /\ (k + 1) + 1 # p + 1 /\ (k + 1) + 1 # p
          BY <2>3, <3>1, <4>3
        <5> QED BY <1>1, <4>1, <5>1
      <4> QED BY <4>2, <4>3
    <3> QED BY <3>1, <3>2 DEF CutBetween
  <2> QED BY <2>1, <2>2, <2>3
<1>5. ASSUME NEW x PROVE x \in DOMAIN mm <=> \E k \in 0..(n - 1) : x = new[k]
  <2>1. x \in DOMAIN mm <=> x # old[p] /\ \E i \in 0..n : x = old[i]
    BY DEF CutBetween
  <2>2. ASSUME NEW i \in 0..n, i # p PROVE \E k \in 0..(n - 1) : old[i] = new[k]
    <3>1. CASE i <= p - 1
      <4>1. i \in 0..(p - 1) /\ i \in 0..(n - 1)
        BY <3>1
      <4> QED BY <4>1
    <3>2. CASE i > p - 1
      <4>1. i - 1 \in p..n /\ i - 1 \in 0..(n - 1) /\ (i - 1) + 1 = i
        BY <2>2, <3>2, OneDown
      <4>2. old[i] = new[i - 1]
        BY <4>1
      <4> QED BY <4>1, <4>2, Zenon
    <3> QED BY <3>1, <3>2
  <2>3. ASSUME NEW k \in 0..(n - 1)
        PROVE  new[k] # old[p] /\ \E i \in 0..n : new[k] = old[i]
    <3>1. CASE k < p
      <4>1. k \in 0..(p - 1) /\ k \in 0..n /\ k # p
        BY <3>1
      <4> QED BY <1>1, <4>1
    <3>2. CASE k >= p
      <4>1. k \in p..n /\ k + 1 \in 0..n /\ k + 1 # p
        BY <3>2
      <4> QED BY <1>1, <4>1
    <3> QED BY <3>1, <3>2
  <2>4. ASSUME x \in DOMAIN mm PROVE \E k \in 0..(n - 1) : x = new[k]
    BY <2>1, <2>2, <2>4
  <2>5. ASSUME NEW k \in 0..(n - 1), x = new[k] PROVE x \in DOMAIN mm
    BY <2>1, <2>3, <2>5
  <2> QED BY <2>4, <2>5
<1> QED BY <1>3, <1>4, <1>5

-----------------------------------------------------------------------------
(* The invariant of the ring's pointers. *)
LinksInv ==
  IInv /\ Memory(Anchorages \cup {list_head}, node) /\ RingIsLinked

LEMMA NodesApart ==
  ASSUME IInv
  PROVE  /\ Len(list) \in Nat
         /\ NodeAt(Len(list) + 1) = NodeAt(0)
         /\ \A i \in 1..Len(list) : NodeAt(i) = list[i].anchorage
         /\ \A i, j \in 0..Len(list) : NodeAt(i) = NodeAt(j) => i = j
<1>1. Len(list) \in Nat /\ \A i \in 1..Len(list) : list[i].anchorage \in Anchorages
  BY UnitAt, LenProperties DEF IInv, TypeOK, Unit
<1>2. \A i \in 1..Len(list) : NodeAt(i) = list[i].anchorage /\ NodeAt(i) # None
  BY <1>1, QListAssumption DEF NodeAt
<1>3. NodeAt(0) = None /\ NodeAt(Len(list) + 1) = None
  BY <1>1 DEF NodeAt, list_head
<1>4. ASSUME NEW i \in 0..Len(list), NEW j \in 0..Len(list), NodeAt(i) = NodeAt(j)
      PROVE  i = j
  <2>1. CASE i = 0 \/ j = 0
    BY <1>1, <1>2, <1>3, <1>4, <2>1
  <2>2. CASE i # 0 /\ j # 0
    <3>1. i \in 1..Len(list) /\ j \in 1..Len(list)
      BY <1>1, <2>2
    <3> QED BY <1>2, <1>4, <3>1 DEF IInv, NoDuplicates
  <2> QED BY <2>1, <2>2
<1> QED BY <1>1, <1>2, <1>3, <1>4

(* The nodes of the ring as a function, and what RingIsLinked says of it. *)
LEMMA RingAsFunction ==
  ASSUME LinksInv, NEW old, old = [i \in 0..(Len(list) + 1) |-> NodeAt(i)]
  PROVE  Apart(Len(list), old) /\ IsRing(Len(list), node, old)
<1> DEFINE n == Len(list)
<1>1. n \in Nat /\ NodeAt(n + 1) = NodeAt(0)
      /\ \A i, j \in 0..n : NodeAt(i) = NodeAt(j) => i = j
  BY NodesApart DEF LinksInv
<1>2. \A i \in 0..n : i + 1 \in 0..(n + 1) /\ i \in 0..(n + 1)
  BY <1>1
<1>3. /\ DOMAIN node = {NodeAt(i) : i \in 0..n}
      /\ \A i \in 0..n : /\ node[NodeAt(i)].next = NodeAt(i + 1)
                         /\ node[NodeAt(i + 1)].prev = NodeAt(i)
  BY DEF LinksInv, RingIsLinked
<1> HIDE DEF n
<1>4. \A i \in 0..(n + 1) : old[i] = NodeAt(i)
  BY DEF n
<1>5. n + 1 \in 0..(n + 1) /\ 0 \in 0..(n + 1)
  BY <1>1
<1>6. old[n + 1] = old[0]
  BY <1>1, <1>4, <1>5
<1>7. \A i, j \in 0..n : old[i] = old[j] => i = j
  BY <1>1, <1>2, <1>4
<1>8. \A i \in 0..n : node[old[i]].next = old[i + 1] /\ node[old[i + 1]].prev = old[i]
  BY <1>2, <1>3, <1>4
<1>9. \A x : x \in DOMAIN node <=> \E i \in 0..n : x = old[i]
  BY <1>2, <1>3, <1>4
<1> QED BY <1>6, <1>7, <1>8, <1>9 DEF n, Apart, IsRing

LEMMA FunctionAsRing ==
  ASSUME NEW new, new = [k \in 0..(Len(list') + 1) |-> NodeAt(k)'], Len(list') \in Nat,
         IsRing(Len(list'), node', new)
  PROVE  RingIsLinked'
<1> DEFINE n == Len(list')
<1>1. \A k \in 0..n : /\ new[k] = NodeAt(k)' /\ new[k + 1] = NodeAt(k + 1)'
                     /\ k + 1 \in 0..(n + 1) /\ k \in 0..(n + 1)
  OBVIOUS
<1> HIDE DEF n
<1>2. \A k \in 0..n : /\ node'[NodeAt(k)'].next = NodeAt(k + 1)'
                     /\ node'[NodeAt(k + 1)'].prev = NodeAt(k)'
  BY <1>1 DEF n, IsRing
<1>3. \A x : x \in DOMAIN node' <=> \E k \in 0..n : x = NodeAt(k)'
  <2>1. \A x : x \in DOMAIN node' <=> \E k \in 0..n : x = new[k]
    BY DEF n, IsRing
  <2> QED BY <1>1, <2>1
<1>4. DOMAIN node' = {NodeAt(k)' : k \in 0..n}
  BY <1>3
<1> QED BY <1>2, <1>4 DEF RingIsLinked, n

(* Whichever way qlist_append links a unit, it does so between the units   *)
(* behind which and ahead of which the unit goes.                          *)
LEMMA LinkedInPlace ==
  ASSUME LinksInv, NEW t \in Writers, NEW a \in Anchorages, NEW d \in DataOf[a],
         Link(t, a, d)
  PROVE  /\ a \notin DOMAIN node
         /\ NodeAt(PlaceOf(d) - 1) \in DOMAIN node /\ NodeAt(PlaceOf(d)) \in DOMAIN node
         /\ node[NodeAt(PlaceOf(d) - 1)].next = NodeAt(PlaceOf(d))
         /\ node[NodeAt(PlaceOf(d))].prev = NodeAt(PlaceOf(d) - 1)
         /\ NodeLinked(a, d.weight) \in
              {LIST_APPEND_REAR(LIST_NODE_INIT(node, a), NodeAt(PlaceOf(d) - 1), a),
               LIST_APPEND_AHEAD(LIST_NODE_INIT(node, a), NodeAt(PlaceOf(d)), a)}
<1> DEFINE n == Len(list)
           p == PlaceOf(d)
           m == LIST_NODE_INIT(node, a)
<1>1. /\ elem_num = n /\ n \in Nat /\ p \in 1..(n + 1)
      /\ \A i \in 1..n : list[i].anchorage # a
  BY LinkRing DEF LinksInv
<1>2. /\ NodeAt(n + 1) = NodeAt(0) /\ NodeAt(0) = list_head
      /\ \A i \in 1..n : NodeAt(i) = list[i].anchorage
  BY NodesApart DEF LinksInv, NodeAt
<1>3. a # NodeAt(0)
  BY <1>2, QListAssumption DEF list_head
<1>4. /\ DOMAIN node = {NodeAt(i) : i \in 0..n}
      /\ \A i \in 0..n : /\ node[NodeAt(i)].next = NodeAt(i + 1)
                         /\ node[NodeAt(i + 1)].prev = NodeAt(i)
  BY DEF LinksInv, RingIsLinked
<1>5. qlist_append(d.weight, tmp_unit) = p - 1
  <2>1. qlist_append(d.weight, tmp_unit) \in 0..n
    BY <1>1, QListAssumption, AppendPlace DEF Link, LinksInv, MayEnter, Nowhere
  <2> QED BY <1>1, <2>1 DEF PlaceOf
<1> HIDE DEF n, p
<1>6. p - 1 \in 0..n /\ (p - 1) + 1 = p
  BY <1>1
<1>7. NodeAt(p - 1) \in DOMAIN node
  BY <1>4, <1>6
<1>8. NodeAt(p) \in DOMAIN node
  <2>1. CASE p = n + 1
    BY <1>1, <1>2, <1>4, <2>1
  <2>2. CASE p # n + 1
    BY <1>1, <1>4, <2>2
  <2> QED BY <2>1, <2>2
<1>9. a \notin DOMAIN node
  BY <1>1, <1>2, <1>3, <1>4
<1>10. node[NodeAt(p - 1)].next = NodeAt(p) /\ node[NodeAt(p)].prev = NodeAt(p - 1)
  BY <1>4, <1>6
<1>11. \A x \in DOMAIN node : m[x] = node[x]
  BY <1>9 DEF LIST_NODE_INIT
<1>12. list_head \in DOMAIN node
  BY <1>1, <1>2, <1>4
<1> HIDE DEF m
<1>13. NodeLinked(a, d.weight) =
         IF n = 0 THEN LIST_APPEND_REAR(m, list_head, a)
         ELSE IF p - 1 = 0 THEN LIST_APPEND_AHEAD(m, m[list_head].next, a)
         ELSE IF p - 1 = n THEN LIST_APPEND_REAR(m, m[list_head].prev, a)
         ELSE LIST_APPEND_REAR(m, list[p - 1].anchorage, a)
  BY <1>1, <1>5, Zenon DEF NodeLinked, n, m
<1>14. NodeLinked(a, d.weight) \in {LIST_APPEND_REAR(m, NodeAt(p - 1), a),
                                    LIST_APPEND_AHEAD(m, NodeAt(p), a)}
  <2>1. CASE n = 0
    <3>1. p - 1 = 0
      BY <1>1, <2>1
    <3> QED BY <1>2, <1>13, <2>1, <3>1
  <2>2. CASE n # 0 /\ p - 1 = 0
    <3>1. m[list_head].next = NodeAt(p)
      BY <1>2, <1>10, <1>11, <1>12, <2>2
    <3> QED BY <1>13, <2>2, <3>1
  <2>3. CASE n # 0 /\ p - 1 # 0 /\ p - 1 = n
    <3>1. m[list_head].prev = NodeAt(p - 1)
      BY <1>2, <1>6, <1>10, <1>11, <1>12, <2>3
    <3> QED BY <1>13, <2>3, <3>1
  <2>4. CASE n # 0 /\ p - 1 # 0 /\ p - 1 # n
    <3>1. list[p - 1].anchorage = NodeAt(p - 1)
      BY <1>1, <1>2, <1>6, <2>4
    <3> QED BY <1>13, <2>4, <3>1
  <2> QED BY <2>1, <2>2, <2>3, <2>4
<1> QED BY <1>7, <1>8, <1>9, <1>10, <1>14 DEF p, m

LEMMA LinkKeepsRing ==
  ASSUME LinksInv, NEW t \in Writers, NEW a \in Anchorages, NEW d \in DataOf[a],
         Link(t, a, d), node' = NodeLinked(a, d.weight)
  PROVE  Memory(Anchorages \cup {list_head}, node') /\ RingIsLinked'
<1>link. /\ Len(list') = Len(list) + 1 /\ Len(list) \in Nat
         /\ PlaceOf(d) \in 1..(Len(list) + 1)
         /\ list'[PlaceOf(d)] = [anchorage |-> a, data |-> d]
         /\ \A k \in 1..(PlaceOf(d) - 1) : list'[k] = list[k]
         /\ \A k \in (PlaceOf(d) + 1)..(Len(list) + 1) : list'[k] = list[k - 1]
  <2>1. IInv
    BY DEF LinksInv
  <2> QED BY <2>1, LinkRing
<1> DEFINE n == Len(list)
           p == PlaceOf(d)
           P == Anchorages \cup {list_head}
           old == [i \in 0..(Len(list) + 1) |-> NodeAt(i)]
           new == [k \in 0..(Len(list') + 1) |-> NodeAt(k)']
<1>1. /\ n \in Nat /\ p \in 1..(n + 1) /\ Len(list') = n + 1
      /\ list'[p].anchorage = a
      /\ \A k \in 1..(p - 1) : list'[k] = list[k]
      /\ \A k \in (p + 1)..(n + 1) : list'[k] = list[k - 1]
  BY <1>link
<1>2. Memory(P, node') /\ LinkedBetween(node, node', NodeAt(p - 1), a, NodeAt(p))
  <2>1. /\ Memory(P, node) /\ a \in P
    BY DEF LinksInv
  <2>2. /\ a \notin DOMAIN node
        /\ NodeAt(p - 1) \in DOMAIN node /\ NodeAt(p) \in DOMAIN node
        /\ node[NodeAt(p - 1)].next = NodeAt(p) /\ node[NodeAt(p)].prev = NodeAt(p - 1)
        /\ node' \in {LIST_APPEND_REAR(LIST_NODE_INIT(node, a), NodeAt(p - 1), a),
                      LIST_APPEND_AHEAD(LIST_NODE_INIT(node, a), NodeAt(p), a)}
    BY LinkedInPlace
  <2> HIDE DEF P, p
  <2> QED BY <2>1, <2>2, AppendLinks
<1>3. Apart(n, old) /\ IsRing(n, node, old)
  BY RingAsFunction
<1>4. old[p - 1] = NodeAt(p - 1) /\ old[p] = NodeAt(p)
  BY <1>1
<1>5. /\ \A k \in 0..(n + 1) : old[k] = IF k \in 1..n THEN list[k].anchorage ELSE list_head
      /\ \A k \in 0..(n + 2) :
           new[k] = IF k \in 1..(n + 1) THEN list'[k].anchorage ELSE list_head
  BY <1>1 DEF NodeAt, list_head
<1> HIDE DEF n, p, old, new
<1>6. Inserted(n, p, a, old, new)
  <2>1. ASSUME NEW k \in 0..(p - 1) PROVE new[k] = old[k]
    BY <1>1, <1>5
  <2>2. new[p] = a
    BY <1>1, <1>5
  <2>3. ASSUME NEW k \in (p + 1)..(n + 2) PROVE new[k] = old[k - 1]
    <3>1. CASE k = n + 2
      BY <1>1, <1>5, <3>1
    <3>2. CASE k # n + 2
      <4>1. k \in (p + 1)..(n + 1) /\ k \in 1..(n + 1) /\ k - 1 \in 1..n
        BY <1>1, <3>2
      <4> QED BY <1>1, <1>5, <4>1
    <3> QED BY <3>1, <3>2
  <2> QED BY <2>1, <2>2, <2>3 DEF Inserted
<1>7. IsRing(n + 1, node', new)
  BY <1>1, <1>2, <1>3, <1>4, <1>6, LongerRing
<1>8. RingIsLinked'
  <2>1. Len(list') \in Nat /\ new = [k \in 0..(Len(list') + 1) |-> NodeAt(k)']
    BY <1>1 DEF new
  <2> QED BY <1>1, <1>7, <2>1, FunctionAsRing
<1> QED BY <1>2, <1>8 DEF P

LEMMA UnlinkKeepsRing ==
  ASSUME LinksInv, NEW t \in Writers, NEW a \in Anchorages,
         Unlink(t, a), node' = NodeUnlinked(a)
  PROVE  Memory(Anchorages \cup {list_head}, node') /\ RingIsLinked'
<1> DEFINE n == Len(list)
           P == Anchorages \cup {list_head}
           old == [i \in 0..(Len(list) + 1) |-> NodeAt(i)]
           new == [k \in 0..(Len(list') + 1) |-> NodeAt(k)']
<1>1. n \in Nat /\ Len(list') = n - 1
  BY UnlinkRing DEF LinksInv
<1>2. PICK p \in 1..n : /\ list[p].anchorage = a
                        /\ \A k \in 1..(n - 1) :
                             list'[k] = IF k < p THEN list[k] ELSE list[k + 1]
  BY UnlinkRing DEF LinksInv
<1>3. Apart(n, old) /\ IsRing(n, node, old)
  BY RingAsFunction
<1>4. /\ \A k \in 0..(n + 1) : old[k] = IF k \in 1..n THEN list[k].anchorage ELSE list_head
      /\ \A k \in 0..n :
           new[k] = IF k \in 1..(n - 1) THEN list'[k].anchorage ELSE list_head
  BY <1>1 DEF NodeAt, list_head
<1> HIDE DEF n, old, new
<1>5. /\ p - 1 \in 0..n /\ p \in 0..n /\ (p - 1) + 1 = p /\ p + 1 \in 1..(n + 1)
      /\ n \in Nat /\ p \in 1..n
  BY <1>1
<1>6. old[p] = a
  BY <1>2, <1>4, <1>5
<1>7. old[p - 1] # a /\ old[p + 1] # a
  <2>1. old[p - 1] # a
    BY <1>3, <1>5, <1>6 DEF Apart, IsRing
  <2>2. CASE p = n
    <3>1. 0 \in 0..n /\ 0 # p
      BY <1>5
    <3>2. old[p + 1] = old[0]
      BY <1>3, <2>2 DEF Apart
    <3> QED BY <1>3, <1>5, <1>6, <2>1, <3>1, <3>2 DEF Apart
  <2>3. CASE p # n
    <3>1. p + 1 \in 0..n /\ p + 1 # p
      BY <1>5, <2>3
    <3> QED BY <1>3, <1>5, <1>6, <2>1, <3>1 DEF Apart
  <2> QED BY <2>2, <2>3
<1>8. /\ old[p - 1] \in DOMAIN node /\ a \in DOMAIN node /\ old[p + 1] \in DOMAIN node
  <2>1. old[p - 1] \in DOMAIN node /\ a \in DOMAIN node
    BY <1>3, <1>5, <1>6 DEF Apart, IsRing
  <2>2. CASE p = n
    <3>1. 0 \in 0..n
      BY <1>5
    <3> QED BY <1>3, <2>1, <2>2, <3>1 DEF Apart, IsRing
  <2>3. CASE p # n
    <3>1. p + 1 \in 0..n
      BY <1>5, <2>3
    <3> QED BY <1>3, <2>1, <3>1 DEF IsRing
  <2> QED BY <2>2, <2>3
<1>9. /\ node[old[p - 1]].next = a /\ node[a].prev = old[p - 1]
      /\ node[a].next = old[p + 1] /\ node[old[p + 1]].prev = a
  BY <1>3, <1>5, <1>6 DEF IsRing
<1>10. Memory(P, node') /\ CutBetween(node, node', old[p - 1], old[p], old[p + 1])
  <2>1. Memory(P, node)
    BY DEF LinksInv
  <2>2. node' = [x \in DOMAIN node \ {a} |-> LIST_SUBTRACT(node, a)[x]]
    BY Zenon DEF NodeUnlinked
  <2> HIDE DEF P
  <2> QED BY <1>6, <1>7, <1>8, <1>9, <2>1, <2>2, SubtractCuts
<1>11. Removed(n, p, old, new)
  <2>1. ASSUME NEW k \in 0..(p - 1) PROVE new[k] = old[k]
    <3>1. k \in 0..n /\ k \in 0..(n + 1) /\ k < p /\ k \in 0..(n - 1)
      BY <1>5
    <3>2. CASE k = 0
      BY <1>4, <3>1, <3>2
    <3>3. CASE k # 0
      <4>1. k \in 1..n /\ k \in 1..(n - 1)
        BY <3>1, <3>3
      <4> QED BY <1>2, <1>4, <3>1, <4>1
    <3> QED BY <3>2, <3>3
  <2>2. ASSUME NEW k \in p..n PROVE new[k] = old[k + 1]
    <3>1. k \in 0..n /\ k + 1 \in 0..(n + 1) /\ ~ (k < p)
      BY <1>5
    <3>2. CASE k = n
      BY <1>4, <1>5, <3>1, <3>2
    <3>3. CASE k # n
      <4>1. k + 1 \in 1..n /\ k \in 1..(n - 1)
        BY <1>5, <3>1, <3>3
      <4> QED BY <1>2, <1>4, <3>1, <4>1
    <3> QED BY <3>2, <3>3
  <2> QED BY <2>1, <2>2 DEF Removed
<1>12. IsRing(n - 1, node', new)
  BY <1>3, <1>5, <1>10, <1>11, ShorterRing
<1>13. RingIsLinked'
  <2>1. Len(list') \in Nat /\ new = [k \in 0..(Len(list') + 1) |-> NodeAt(k)']
    BY <1>1, <1>5 DEF new
  <2> QED BY <1>1, <1>12, <2>1, FunctionAsRing
<1> QED BY <1>10, <1>13 DEF P

(* No other step changes the ring or its pointers. *)
LEMMA QuietKeepsRing ==
  ASSUME LinksInv, [Next]_vars, Len(list') = Len(list), UNCHANGED node
  PROVE  RingIsLinked'
<1>1. Len(list) \in Nat
  BY NodesApart DEF LinksInv
<1>2. \A i \in 1..Len(list) : list'[i].anchorage = list[i].anchorage
  <2>1. CASE list' = list
    BY <2>1
  <2>2. CASE Refreshes
    BY <2>2, RefreshRing DEF Refreshes, LinksInv
  <2>3. CASE Links
    <3>1. Len(list') = Len(list) + 1
      BY <2>3, LinkRing DEF Links, LinksInv
    <3> QED BY <1>1, <3>1
  <2>4. CASE Unlinks
    <3>1. Len(list') = Len(list) - 1
      BY <2>4, UnlinkRing DEF Unlinks, LinksInv
    <3> QED BY <1>1, <3>1
  <2> QED BY <2>1, <2>2, <2>3, <2>4, RingSteps
<1>3. \A i : NodeAt(i)' = NodeAt(i)
  BY <1>2 DEF NodeAt, list_head
<1> QED BY <1>3 DEF LinksInv, RingIsLinked

LEMMA LinksInvInit == LinksInit => LinksInv
<1> SUFFICES ASSUME LinksInit PROVE LinksInv
  OBVIOUS
<1>1. IInv
  BY InitInvariant DEF LinksInit, OrderInit
<1>2. Len(list) = 0
  BY DEF LinksInit, OrderInit, Init
<1>3. NodeAt(0) = list_head /\ NodeAt(1) = list_head
  BY <1>2 DEF NodeAt
<1>4. node = [x \in {list_head} |-> [prev |-> x, next |-> x]]
  BY DEF LinksInit
<1>5. RingIsLinked
  BY <1>2, <1>3, <1>4 DEF RingIsLinked
<1>6. Memory(Anchorages \cup {list_head}, node)
  BY <1>4 DEF Memory, Nodes
<1> QED BY <1>1, <1>5, <1>6 DEF LinksInv

LEMMA LinksInvNext == LinksInv /\ [LinksNext]_linkVars => LinksInv'
<1> SUFFICES ASSUME LinksInv, [LinksNext]_linkVars PROVE LinksInv'
  OBVIOUS
<1>1. [Next]_vars
  BY DEF LinksNext, OrderNext, linkVars, orderVars
<1>2. IInv'
  BY <1>1, NextInvariant DEF LinksInv
<1>3. CASE UNCHANGED linkVars
  <2>1. list' = list /\ node' = node
    BY <1>3 DEF linkVars, orderVars, vars
  <2>2. RingIsLinked'
    BY <1>1, <2>1, QuietKeepsRing
  <2> QED BY <1>2, <2>1, <2>2 DEF LinksInv
<1>4. CASE Len(list') = Len(list) /\ UNCHANGED node
  <2>1. RingIsLinked'
    BY <1>1, <1>4, QuietKeepsRing
  <2> QED BY <1>2, <1>4, <2>1 DEF LinksInv
<1>5. CASE \E t \in Writers, a \in Anchorages : \E d \in DataOf[a] :
             Link(t, a, d) /\ node' = NodeLinked(a, d.weight)
  <2>1. Memory(Anchorages \cup {list_head}, node') /\ RingIsLinked'
    BY <1>5, LinkKeepsRing
  <2> QED BY <1>2, <2>1 DEF LinksInv, list_head
<1>6. CASE \E t \in Writers, a \in Anchorages : Unlink(t, a) /\ node' = NodeUnlinked(a)
  <2>1. Memory(Anchorages \cup {list_head}, node') /\ RingIsLinked'
    BY <1>6, UnlinkKeepsRing
  <2> QED BY <1>2, <2>1 DEF LinksInv, list_head
<1> QED BY <1>3, <1>4, <1>5, <1>6 DEF LinksNext

(* The ring's pointers are right after every call, in both directions,     *)
(* whichever macro linked a unit or took it out, and they lead to units    *)
(* of the ring only (utils.h:73-97, qlist.c:68-138, 225), for any number   *)
(* of viewers.                                                             *)
THEOREM PointersAreRight == LinksSpec => []RingIsLinked
<1>1. LinksInv => RingIsLinked
  BY DEF LinksInv
<1> QED BY <1>1, LinksInvInit, LinksInvNext, PTL DEF LinksSpec
=============================================================================
