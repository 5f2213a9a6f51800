----------------------------- MODULE HeapProofs -----------------------------
(***************************************************************************)
(* That a heap of any size stays a sequence of the same kind of elements,  *)
(* one longer after a push and one shorter after a removal, no sift looking*)
(* beyond the last element or before the first; that no sift loses or      *)
(* doubles an element: it only rearranges them; and which pushes and       *)
(* removals keep a heap in order.                                          *)
(***************************************************************************)
EXTENDS Heap, SequenceTheorems, FiniteSetTheorems, WellFoundedInduction, TLAPS

LEMMA LessIsWellFounded == IsWellFoundedOn({p \in Nat \X Nat : p[1] < p[2]}, Nat)
<1>1. OpToRel(<, Nat) = {p \in Nat \X Nat : p[1] < p[2]}
  BY DEF OpToRel
<1> QED BY <1>1, NatLessThanWellFounded

LEMMA Largest ==
  ASSUME NEW n \in Nat, NEW S, S \subseteq 1..n, S # {}
  PROVE  Max(S) \in S /\ \A y \in S : Max(S) >= y
<1> DEFINE T == {n - y : y \in S}
           R == {p \in Nat \X Nat : p[1] < p[2]}
<1>1. T \subseteq Nat /\ T # {}
  <2>1. ASSUME NEW y \in S PROVE n - y \in Nat
    <3>1. y \in 1..n
      OBVIOUS
    <3> QED BY <3>1
  <2>2. T # {}
    OBVIOUS
  <2> QED BY <2>1, <2>2
<1>2. PICK m \in T : \A k \in T : <<k, m>> \notin R
  <2>1. IsWellFoundedOn(R, Nat)
    BY LessIsWellFounded
  <2> HIDE DEF T, R
  <2> QED BY <1>1, <2>1, WFMin
<1>3. ASSUME NEW k \in T PROVE m <= k
  <2> HIDE DEF T
  <2>1. k \in Nat /\ m \in Nat /\ <<k, m>> \notin R
    BY <1>1, <1>2
  <2> QED BY <2>1
<1>4. \E x \in S : \A y \in S : x >= y
  <2>1. PICK x \in S : m = n - x
    OBVIOUS
  <2>2. ASSUME NEW y \in S PROVE x >= y
    <3>1. n - y \in T /\ x \in 1..n /\ y \in 1..n
      OBVIOUS
    <3> QED BY <1>3, <2>1, <3>1
  <2> QED BY <2>2
<1> QED BY <1>4 DEF Max

LEMMA AncestorsUpTo ==
  ASSUME NEW i \in Nat \ {0}
  PROVE  i \in Ancestors(i) /\ Ancestors(i) \subseteq 1..i
                            /\ \A j \in Ancestors(i) : j = i \/ j < i
<1>1. i \in 1..i
  OBVIOUS
<1> QED BY <1>1 DEF Ancestors

LEMMA AncestorsHalved ==
  ASSUME NEW i \in Nat \ {0}, NEW j \in Ancestors(i), j > 1
  PROVE  j \div 2 \in Ancestors(i)
<1>1. j \in 1..i /\ j \div 2 \in 1..i
  <2>1. j \in 1..i
    BY AncestorsUpTo
  <2> QED BY <2>1
<1>2. ASSUME NEW T \in SUBSET (1..i), i \in T, Halved(T) PROVE j \div 2 \in T
  <2>1. j \in T
    BY <1>2 DEF Ancestors
  <2> QED BY <1>2, <2>1 DEF Halved
<1> QED BY <1>1, <1>2 DEF Ancestors

(* What holds i and all halves is among the ancestors, is the ancestors.   *)
LEMMA AncestorsLeast ==
  ASSUME NEW i \in Nat \ {0}, NEW T, T \subseteq Ancestors(i), i \in T, Halved(T)
  PROVE  T = Ancestors(i)
<1>1. T \in SUBSET (1..i)
  BY AncestorsUpTo
<1>2. \A j \in Ancestors(i) : j \in T
  BY <1>1 DEF Ancestors
<1> QED BY <1>2

(* Between an ancestor and its half there is no other.                     *)
LEMMA AncestorsApart ==
  ASSUME NEW i \in Nat \ {0}, NEW j \in Ancestors(i), NEW k \in Ancestors(i), k < j
  PROVE  k <= j \div 2
<1> DEFINE A == Ancestors(i)
           apart(y) == \A x \in A : x >= y \/ x <= y \div 2
           T == {y \in A : apart(y)}
<1>1. A \subseteq 1..i /\ i \in A
  BY AncestorsUpTo
<1>2. Halved(A)
  BY AncestorsHalved DEF Halved
<1> HIDE DEF A
<1>3. apart(i)
  <2> DEFINE U == {x \in A : x >= i \/ x <= i \div 2}
  <2>1. i \in U /\ Halved(U)
    <3>1. ASSUME NEW x \in U, x > 1 PROVE x \div 2 \in U
      <4>1. x \in 1..i /\ x \div 2 \in A
        BY <1>1, <1>2, <3>1 DEF Halved
      <4>2. x \div 2 <= i \div 2
        BY <4>1
      <4> QED BY <4>1, <4>2
    <3> QED BY <1>1, <3>1 DEF Halved
  <2>2. U = A
    BY <2>1, AncestorsLeast DEF A
  <2> QED BY <2>2
<1>4. ASSUME NEW y \in T, y > 1 PROVE y \div 2 \in T
  <2> DEFINE h == y \div 2
             U == {x \in A : x >= h \/ x <= h \div 2}
  <2>1. y \in 1..i /\ h \in A /\ h \in 1..i /\ h < y
    <3>1. y \in 1..i /\ h \in A
      BY <1>1, <1>2, <1>4 DEF Halved
    <3> QED BY <1>1, <1>4, <3>1
  <2>2. i \in U
    BY <1>1, <2>1
  <2>3. ASSUME NEW x \in U, x > 1 PROVE x \div 2 \in U
    <3>1. x \in A /\ x \in 1..i /\ x \div 2 \in A
      BY <1>1, <1>2, <2>3 DEF Halved
    <3>2. x >= y \/ x <= h
      BY <1>4, <3>1
    <3>3. x >= y => x \div 2 >= h
      BY <2>1, <3>1
    <3>4. x = h => x \div 2 <= h \div 2
      BY <2>1
    <3>5. x <= h \div 2 => x \div 2 <= h \div 2
      BY <2>1, <3>1
    <3>6. x < y /\ x >= h => x = h
      BY <2>1, <3>1, <3>2
    <3>7. x >= y \/ x = h \/ x <= h \div 2
      <4> HIDE DEF h
      <4> QED BY <2>1, <2>3, <3>1, <3>6
    <3> QED BY <3>1, <3>3, <3>4, <3>5, <3>7
  <2>4. U = A
    BY <2>2, <2>3, AncestorsLeast DEF A, Halved
  <2> QED BY <2>1, <2>4
<1>5. T = A
  BY <1>1, <1>3, <1>4, AncestorsLeast DEF A, Halved
<1>6. apart(j)
  BY <1>5 DEF A
<1>7. j \in 1..i /\ k \in 1..i /\ k \in A
  BY <1>1 DEF A
<1> QED BY <1>6, <1>7

LEMMA RootIsAncestor ==
  ASSUME NEW i \in Nat \ {0}
  PROVE  1 \in Ancestors(i)
<1> DEFINE path == Ancestors(i)
           R == {p \in Nat \X Nat : p[1] < p[2]}
<1>1. path \subseteq 1..i /\ i \in path
  BY AncestorsUpTo
<1>2. PICK j \in path : \A k \in path : <<k, j>> \notin R
  <2>1. path \subseteq Nat /\ path # {}
    BY <1>1
  <2> HIDE DEF path
  <2> QED BY <2>1, LessIsWellFounded, WFMin
<1>3. ASSUME NEW k \in path, k < j PROVE FALSE
  <2>1. <<k, j>> \in R
    BY <1>1, <1>3
  <2> QED BY <1>2, <2>1
<1>4. j > 1 => j \div 2 \in path /\ j \div 2 < j
  BY <1>1, AncestorsHalved
<1>5. j = 1
  <2> HIDE DEF path, R
  <2> QED BY <1>1, <1>3, <1>4
<1> QED BY <1>2, <1>5

LEMMA AncestorsOfChild ==
  ASSUME NEW i \in Nat, i > 1, NEW j \in Ancestors(i)
  PROVE  j = i \/ j \in Ancestors(i \div 2)
<1> DEFINE T == {k \in Ancestors(i) : k = i \/ k \in Ancestors(i \div 2)}
<1>1. i \div 2 \in Nat \ {0} /\ i \in Nat \ {0}
  OBVIOUS
<1>2. i \in T /\ T \subseteq Ancestors(i)
  BY AncestorsUpTo
<1>3. ASSUME NEW k \in T, k > 1 PROVE k \div 2 \in T
  <2>1. k \div 2 \in Ancestors(i)
    BY <1>3, AncestorsHalved
  <2>2. k = i => k \div 2 \in Ancestors(i \div 2)
    BY <1>1, AncestorsUpTo
  <2>3. k \in Ancestors(i \div 2) => k \div 2 \in Ancestors(i \div 2)
    BY <1>1, <1>3, AncestorsHalved
  <2> QED BY <1>3, <2>1, <2>2, <2>3
<1>4. T = Ancestors(i)
  <2>1. Halved(T)
    BY <1>3 DEF Halved
  <2> HIDE DEF T
  <2> QED BY <1>1, <1>2, <2>1, AncestorsLeast
<1>5. j \in T
  <2> HIDE DEF T
  <2> QED BY <1>4
<1> QED BY <1>5

(* An element that rises moves its ancestors down, as far as the root.     *)
LEMMA SortKeeps ==
  ASSUME NEW S, NEW h \in Seq(S), NEW i \in 1..Len(h)
  PROVE  __heap_sort(h, i) \in Seq(S) /\ Len(__heap_sort(h, i)) = Len(h)
<1> DEFINE path == Ancestors(i)
           settled == {j \in path : Settles(h, j)}
           stop == Max(settled)
           val(k) == IF k = stop THEN h[i]
                     ELSE IF k \in path /\ k > stop THEN h[k \div 2]
                     ELSE h[k]
<1>1. Len(h) \in Nat /\ \A k \in 1..Len(h) : h[k] \in S
  BY LenProperties
<1>2. path \subseteq 1..i
  BY AncestorsUpTo
<1>3. ASSUME NEW k \in 1..Len(h), k \in path, k > stop PROVE k \div 2 \in 1..Len(h)
  <2>1. k # 1
    <3>1. SUFFICES ASSUME k = 1 PROVE FALSE
      OBVIOUS
    <3>2. 1 \in settled /\ settled \subseteq 1..i
      BY <1>2, <1>3, <3>1 DEF Settles
    <3>3. stop >= 1 /\ stop \in 1..i
      BY <3>2, Largest, SMTT(60)
    <3> QED BY <1>3, <3>1, <3>3
  <2> QED BY <1>1, <2>1
<1>4. \A k \in 1..Len(h) : val(k) \in S
  BY <1>1, <1>3
<1>5. __heap_sort(h, i) = [k \in 1..Len(h) |-> val(k)]
  BY DEF __heap_sort
<1> HIDE DEF val
<1> QED BY <1>1, <1>4, <1>5

LEMMA PushKeeps ==
  ASSUME NEW S, NEW h \in Seq(S), NEW data \in S
  PROVE  /\ __heap_push(h, data) \in Seq(S)
         /\ Len(__heap_push(h, data)) = Len(h) + 1
<1>1. /\ Append(h, data) \in Seq(S) /\ Len(Append(h, data)) = Len(h) + 1
      /\ Len(h) \in Nat
  BY LenProperties
<1>2. Len(h) + 1 \in 1..Len(Append(h, data))
  BY <1>1
<1> QED BY <1>1, <1>2, SortKeeps DEF __heap_push

(* A sequence without its last element. *)
LEMMA CutLast ==
  ASSUME NEW S, NEW h \in Seq(S), NEW n \in Nat \ {0}, Len(h) = n
  PROVE  /\ SubSeq(h, 1, n - 1) \in Seq(S)
         /\ Len(SubSeq(h, 1, n - 1)) = n - 1
<1>1. \A k \in 1..n : h[k] \in S
  BY LenProperties
<1>2. \A k \in 1..(n - 1) : h[k] \in S
  BY <1>1
<1>3. 1 \in Int /\ n - 1 \in Int
  OBVIOUS
<1>4. /\ SubSeq(h, 1, n - 1) \in Seq(S)
      /\ Len(SubSeq(h, 1, n - 1)) = IF 1 <= n - 1 THEN n - 1 - 1 + 1 ELSE 0
  BY <1>2, <1>3, SubSeqProperties
<1>5. (IF 1 <= n - 1 THEN n - 1 - 1 + 1 ELSE 0) = n - 1
  OBVIOUS
<1> QED BY <1>4, <1>5

(* A hole that sinks is filled by a child that is there. *)
LEMMA RemoveKeeps ==
  ASSUME NEW S, NEW h \in Seq(S), NEW i \in 1..Len(h)
  PROVE  /\ __heap_remove(h, i) \in Seq(S)
         /\ Len(__heap_remove(h, i)) = Len(h) - 1
<1> DEFINE tail == h[Len(h)]
           rest == SubSeq(h, 1, Len(h) - 1)
           path == SinkPath(rest, tail, i)
           land == Max(path)
           val(k) == IF k = land THEN tail
                     ELSE IF k \in Ancestors(land) /\ k >= i THEN rest[Winner(rest, k)]
                     ELSE rest[k]
           sunk == [k \in 1..Len(rest) |-> val(k)]
<1>1. Len(h) \in Nat \ {0} /\ \A k \in 1..Len(h) : h[k] \in S
  BY LenProperties
<1>2. rest \in Seq(S) /\ Len(rest) = Len(h) - 1
  BY <1>1, CutLast
<1>5. __heap_remove(h, i) = IF i > Len(rest) THEN rest ELSE __heap_sort(sunk, land)
  BY DEF __heap_remove
<1>3. CASE i > Len(rest)
  BY <1>2, <1>3, <1>5
<1>4. CASE i <= Len(rest)
  <2> HIDE DEF rest
  <2>1. tail \in S /\ Len(rest) \in Nat /\ \A k \in 1..Len(rest) : rest[k] \in S
    BY <1>1, <1>2, LenProperties
  <2>2. i \in path /\ path \subseteq 1..Len(rest)
    BY <1>4, <2>1, AncestorsUpTo DEF SinkPath
  <2>3. land \in path /\ land \in 1..Len(rest)
    <3> HIDE DEF path
    <3> QED BY <2>1, <2>2, Largest
  <2>4. Ancestors(land) \subseteq 1..Len(rest)
    BY <2>1, <2>3, AncestorsUpTo
  <2>5. ASSUME NEW k \in 1..Len(rest), k # land, k \in Ancestors(land), k >= i
        PROVE  Winner(rest, k) \in 1..Len(rest)
    <3>1. Winner(rest, k) \in Ancestors(land)
      BY <2>3, <2>5 DEF SinkPath
    <3> QED BY <2>4, <3>1
  <2>6. \A k \in 1..Len(rest) : val(k) \in S
    BY <2>1, <2>5
  <2>7. sunk \in Seq(S) /\ Len(sunk) = Len(rest)
    <3> HIDE DEF val
    <3> QED BY <2>1, <2>6
  <2>8. __heap_remove(h, i) = __heap_sort(sunk, land)
    BY <1>4, <1>5, <2>1
  <2> HIDE DEF sunk, land
  <2> QED BY <1>2, <2>3, <2>7, <2>8, SortKeeps
<1> QED BY <1>1, <1>2, <1>3, <1>4

-----------------------------------------------------------------------------
(* No element is lost or doubled. *)
Distinct(s) == \A p, q \in 1..Len(s) : s[p] = s[q] => p = q

Elems(s) == {s[p] : p \in 1..Len(s)}

LEMMA UpTo ==
  ASSUME NEW n \in Nat
  PROVE  IsFiniteSet(1..n) /\ Cardinality(1..n) = n
BY FS_Interval

(* As many elements as places. *)
LEMMA ElemsCounted ==
  ASSUME NEW S, NEW s \in Seq(S), Distinct(s)
  PROVE  Cardinality(Elems(s)) = Len(s)
<1> DEFINE n == Len(s)
<1>1. n \in Nat /\ s \in [1..n -> Elems(s)]
  BY LenProperties DEF Elems
<1>2. \A x \in Elems(s) : \E p \in 1..n : s[p] = x
  BY DEF Elems
<1>3. \A p, q \in 1..n : s[p] = s[q] => p = q
  BY DEF Distinct
<1> HIDE DEF n
<1>4. s \in Bijection(1..n, Elems(s))
  BY <1>1, <1>2, <1>3 DEF Bijection, Injection, Surjection, IsInjective
<1>5. IsFiniteSet(1..n) /\ Cardinality(1..n) = n
  BY <1>1, UpTo
<1> QED BY <1>4, <1>5, FS_Bijection DEF ExistsBijection, n

(* t has what h has, at other places.                                      *)
Rearranged(t, h) ==
  \E f \in [1..Len(t) -> 1..Len(h)] :
    /\ \A p, q \in 1..Len(t) : f[p] = f[q] => p = q
    /\ \A p \in 1..Len(t) : t[p] = h[f[p]]

LEMMA RearrangedHolds ==
  ASSUME NEW S, NEW h \in Seq(S), NEW t \in Seq(S), Len(t) = Len(h),
         Rearranged(t, h), Distinct(h)
  PROVE  Distinct(t) /\ Elems(t) = Elems(h)
<1> DEFINE n == Len(h)
<1>1. PICK f \in [1..n -> 1..n] :
        /\ \A p, q \in 1..n : f[p] = f[q] => p = q
        /\ \A p \in 1..n : t[p] = h[f[p]]
  BY DEF Rearranged
<1>2. Distinct(t)
  BY <1>1, SMTT(60) DEF Distinct
<1>3. \A q \in 1..n : \E p \in 1..n : f[p] = q
  <2>1. n \in Nat
    BY LenProperties
  <2> HIDE DEF n
  <2>2. f \in Injection(1..n, 1..n)
    BY <1>1 DEF Injection, IsInjective
  <2>3. IsFiniteSet(1..n)
    BY <2>1, UpTo
  <2>4. f \in Surjection(1..n, 1..n)
    BY <2>2, <2>3, FS_Injection
  <2> QED BY <2>4 DEF Surjection
<1>4. Elems(t) \subseteq Elems(h)
  BY <1>1 DEF Elems
<1>5. Elems(h) \subseteq Elems(t)
  <2> SUFFICES ASSUME NEW q \in 1..n PROVE h[q] \in Elems(t)
    BY DEF Elems
  <2>1. PICK p \in 1..n : f[p] = q
    BY <1>3
  <2>2. t[p] = h[q]
    BY <1>1, <2>1
  <2> QED BY <2>2 DEF Elems
<1> QED BY <1>2, <1>4, <1>5

(* An element that rises takes the place of an ancestor, and those above   *)
(* it that of their half.                                                  *)
LEMMA SortRearranges ==
  ASSUME NEW S, NEW h \in Seq(S), NEW i \in 1..Len(h)
  PROVE  Rearranged(__heap_sort(h, i), h)
<1> DEFINE path == Ancestors(i)
           settled == {j \in path : Settles(h, j)}
           stop == Max(settled)
           n == Len(h)
           f == [k \in 1..n |-> IF k = stop THEN i
                                ELSE IF k \in path /\ k > stop THEN k \div 2
                                ELSE k]
           t == __heap_sort(h, i)
<1>1. n \in Nat /\ i \in Nat \ {0} /\ path \subseteq 1..i /\ i \in path
  BY LenProperties, AncestorsUpTo
<1>2. stop \in path
  <2>1. \E j \in path : j = 1
    BY <1>1, RootIsAncestor
  <2>2. settled # {} /\ settled \subseteq 1..i
    BY <1>1, <2>1 DEF Settles
  <2>3. stop \in settled
    <3> HIDE DEF settled
    <3> QED BY <1>1, <2>2, Largest
  <2> QED BY <2>3
<1>3. t = [k \in 1..n |-> IF k = stop THEN h[i]
                          ELSE IF k \in path /\ k > stop THEN h[k \div 2]
                          ELSE h[k]]
  BY DEF __heap_sort
<1>4. \A j \in path : j > 1 => j \div 2 \in path
  BY <1>1, AncestorsHalved
<1>5. \A j, k \in path : k < j => k <= j \div 2
  BY <1>1, AncestorsApart
<1> HIDE DEF path, stop, t, settled
<1>6. ASSUME NEW k \in 1..n, k \in path, k > stop
      PROVE  /\ k \div 2 \in path /\ k \div 2 >= stop
             /\ k \div 2 < i /\ k \div 2 \in 1..n
  <2>1. k \in 1..i /\ stop \in 1..i /\ k > 1
    BY <1>1, <1>2, <1>6
  <2>2. k \div 2 \in path /\ k \div 2 >= stop
    BY <1>2, <1>4, <1>5, <1>6, <2>1
  <2> QED BY <1>1, <2>1, <2>2
<1>7. f \in [1..n -> 1..n]
  BY <1>6
<1>8. \A k \in 1..n : t[k] = h[f[k]]
  BY <1>3
<1>9. ASSUME NEW k \in 1..n, NEW l \in 1..n, k < l PROVE f[k] # f[l]
  <2>1. f[k] = (IF k = stop THEN i
                ELSE IF k \in path /\ k > stop THEN k \div 2 ELSE k)
        /\ f[l] = (IF l = stop THEN i
                   ELSE IF l \in path /\ l > stop THEN l \div 2 ELSE l)
    OBVIOUS
  <2>2. i \in path /\ stop \in path /\ i \in 1..n /\ stop \in 1..i
    BY <1>1, <1>2
  <2>3. CASE k = stop
    <3>1. f[k] = i
      BY <2>1, <2>3
    <3>2. CASE l \in path
      BY <1>6, <1>9, <2>1, <2>2, <2>3, <3>1, <3>2
    <3>3. CASE l \notin path
      BY <2>1, <2>2, <3>1, <3>3
    <3> QED BY <3>2, <3>3
  <2>4. CASE k # stop /\ k \in path /\ k > stop
    <3>1. f[k] = k \div 2 /\ k \div 2 \in path /\ k \div 2 < k
      BY <1>6, <2>1, <2>4
    <3>2. CASE l \in path
      <4>1. f[l] = l \div 2 /\ k <= l \div 2
        BY <1>5, <1>9, <2>1, <2>2, <2>4, <3>2
      <4> QED BY <3>1, <4>1
    <3>3. CASE l \notin path
      BY <2>1, <2>2, <3>1, <3>3
    <3> QED BY <3>2, <3>3
  <2>5. CASE k # stop /\ ~ (k \in path /\ k > stop)
    <3>1. f[k] = k
      BY <2>1, <2>5
    <3>2. CASE l = stop
      <4>1. f[l] = i /\ k < i
        BY <1>9, <2>1, <2>2, <3>2
      <4> QED BY <3>1, <4>1
    <3>3. CASE l # stop /\ l \in path /\ l > stop
      <4>1. f[l] = l \div 2 /\ l \div 2 \in path /\ l \div 2 >= stop
        BY <1>6, <2>1, <3>3
      <4> QED BY <2>2, <2>5, <3>1, <4>1
    <3>4. CASE l # stop /\ ~ (l \in path /\ l > stop)
      BY <1>9, <2>1, <3>1, <3>4
    <3> QED BY <3>2, <3>3, <3>4
  <2> QED BY <2>3, <2>4, <2>5
<1>10. \A k, l \in 1..n : f[k] = f[l] => k = l
  <2> SUFFICES ASSUME NEW k \in 1..n, NEW l \in 1..n, f[k] = f[l] PROVE k = l
    OBVIOUS
  <2>1. ~ (k < l) /\ ~ (l < k)
    BY <1>9
  <2> QED BY <2>1
<1>11. Len(t) = n
  BY SortKeeps DEF t
<1> HIDE DEF f
<1> QED BY <1>7, <1>8, <1>10, <1>11 DEF Rearranged, t

LEMMA PushHolds ==
  ASSUME NEW S, NEW h \in Seq(S), NEW data \in S, Distinct(h), data \notin Elems(h)
  PROVE  /\ Distinct(__heap_push(h, data))
         /\ Elems(__heap_push(h, data)) = Elems(h) \cup {data}
<1> DEFINE a == Append(h, data)
           n == Len(h)
<1>1. /\ n \in Nat /\ a \in Seq(S) /\ Len(a) = n + 1 /\ a[n + 1] = data
      /\ \A p \in 1..n : a[p] = h[p] /\ a[p] # data
  BY LenProperties, AppendProperties DEF Elems
<1> HIDE DEF a, n
<1>2. \A p \in 1..(n + 1) : p = n + 1 \/ p \in 1..n
  BY <1>1
<1>3. Distinct(a)
  BY <1>1, <1>2 DEF Distinct, n
<1>4. Elems(a) = Elems(h) \cup {data}
  <2>1. \A p \in 1..n : p \in 1..(n + 1)
    BY <1>1
  <2>2. n + 1 \in 1..(n + 1)
    BY <1>1
  <2>3. Elems(a) \subseteq Elems(h) \cup {data}
    BY <1>1, <1>2 DEF Elems, n
  <2>4. Elems(h) \subseteq Elems(a)
    BY <1>1, <2>1 DEF Elems, n
  <2>5. data \in Elems(a)
    BY <1>1, <2>2 DEF Elems
  <2> QED BY <2>3, <2>4, <2>5
<1>5. __heap_push(h, data) = __heap_sort(a, n + 1) /\ n + 1 \in 1..Len(a)
  BY <1>1 DEF __heap_push, a, n
<1>6. /\ __heap_sort(a, n + 1) \in Seq(S) /\ Len(__heap_sort(a, n + 1)) = Len(a)
      /\ Rearranged(__heap_sort(a, n + 1), a)
  BY <1>1, <1>5, SortKeeps, SortRearranges
<1> QED BY <1>1, <1>3, <1>4, <1>5, <1>6, RearrangedHolds

(* t has what h has at the places other than i, at places of its own.      *)
AllBut(t, h, i) ==
  \E g \in [1..Len(t) -> (1..Len(h)) \ {i}] :
    /\ \A p, q \in 1..Len(t) : g[p] = g[q] => p = q
    /\ \A p \in 1..Len(t) : t[p] = h[g[p]]

LEMMA OneDropped ==
  ASSUME NEW S, NEW h \in Seq(S), NEW i \in 1..Len(h), Distinct(h),
         NEW t \in Seq(S), Len(t) = Len(h) - 1, AllBut(t, h, i)
  PROVE  Distinct(t) /\ Elems(t) = Elems(h) \ {h[i]}
<1> DEFINE n == Len(h)
           m == Len(t)
           Q == (1..n) \ {i}
<1>1. n \in Nat /\ m \in Nat /\ m = n - 1 /\ i \in 1..n /\ Len(h) = n /\ Len(t) = m
  BY LenProperties
<1>2. PICK g \in [1..m -> Q] :
        /\ \A p, q \in 1..m : g[p] = g[q] => p = q
        /\ \A p \in 1..m : t[p] = h[g[p]]
  BY DEF AllBut
<1> HIDE DEF n, m
<1>3. \A p, q \in 1..n : h[p] = h[q] => p = q
  BY <1>1 DEF Distinct
<1>4. Distinct(t)
  <2> SUFFICES ASSUME NEW p \in 1..m, NEW q \in 1..m, t[p] = t[q] PROVE p = q
    BY <1>1 DEF Distinct
  <2>1. g[p] \in 1..n /\ g[q] \in 1..n /\ h[g[p]] = h[g[q]]
    BY <1>2
  <2> QED BY <1>2, <1>3, <2>1
<1>5. \A q \in Q : \E p \in 1..m : g[p] = q
  <2>1. IsFiniteSet(1..m) /\ Cardinality(1..m) = m
    BY <1>1, UpTo
  <2>2. IsFiniteSet(Q) /\ Cardinality(Q) = m
    <3>1. IsFiniteSet(1..n) /\ Cardinality(1..n) = n
      BY <1>1, UpTo
    <3> QED BY <1>1, <3>1, FS_RemoveElement, ZenonT(60)
  <2> HIDE DEF Q
  <2>3. g \in Injection(1..m, Q)
    BY <1>2 DEF Injection, IsInjective
  <2>4. g \in Surjection(1..m, Q)
    BY <2>1, <2>2, <2>3, FS_Injection
  <2> QED BY <2>4 DEF Surjection
<1>6. Elems(t) = {t[p] : p \in 1..m} /\ Elems(h) = {h[q] : q \in 1..n}
  BY <1>1 DEF Elems
<1>7. ASSUME NEW p \in 1..m PROVE t[p] \in Elems(h) \ {h[i]}
  <2>1. g[p] \in 1..n /\ g[p] # i /\ t[p] = h[g[p]]
    BY <1>2
  <2> QED BY <1>1, <1>3, <1>6, <2>1
<1>8. ASSUME NEW q \in 1..n, q # i PROVE h[q] \in Elems(t)
  <2>1. PICK p \in 1..m : g[p] = q
    BY <1>5, <1>8
  <2>2. t[p] = h[q]
    BY <1>2, <2>1
  <2> QED BY <1>6, <2>2
<1>9. Elems(t) = Elems(h) \ {h[i]}
  <2>1. Elems(t) \subseteq Elems(h) \ {h[i]}
    BY <1>6, <1>7
  <2>2. Elems(h) \ {h[i]} \subseteq Elems(t)
    BY <1>6, <1>8
  <2> QED BY <2>1, <2>2
<1> QED BY <1>4, <1>9

LEMMA RemoveHolds ==
  ASSUME NEW S, NEW h \in Seq(S), NEW i \in 1..Len(h), Distinct(h)
  PROVE  /\ Distinct(__heap_remove(h, i))
         /\ Elems(__heap_remove(h, i)) = Elems(h) \ {h[i]}
<1> DEFINE n == Len(h)
           tail == h[n]
           rest == SubSeq(h, 1, n - 1)
           path == SinkPath(rest, tail, i)
           land == Max(path)
           val(k) == IF k = land THEN tail
                     ELSE IF k \in Ancestors(land) /\ k >= i THEN rest[Winner(rest, k)]
                     ELSE rest[k]
           sunk == [k \in 1..Len(rest) |-> val(k)]
           from(k) == IF k = land THEN n
                      ELSE IF k \in Ancestors(land) /\ k >= i THEN Winner(rest, k)
                      ELSE k
           g == [k \in 1..(n - 1) |-> from(k)]
           same == [k \in 1..(n - 1) |-> k]
<1>1. n \in Nat \ {0} /\ \A k \in 1..n : h[k] \in S
  BY LenProperties
<1>2. /\ rest \in Seq(S) /\ Len(rest) = n - 1 /\ n - 1 \in Nat
      /\ \A k \in 1..(n - 1) : rest[k] = h[k]
  <2>1. rest \in Seq(S) /\ Len(rest) = n - 1
    BY <1>1, CutLast
  <2>2. \A k \in 1..n : h[k] \in S
    BY <1>1
  <2>3. \A k \in 1..(n - 1) : rest[k] = h[1 + k - 1] /\ 1 + k - 1 = k
    BY <1>1, <2>1, <2>2, SubSeqProperties
  <2> QED BY <1>1, <2>1, <2>3
<1>3. __heap_remove(h, i) = IF i > Len(rest) THEN rest ELSE __heap_sort(sunk, land)
  BY DEF __heap_remove
<1>4. CASE i > Len(rest)
  <2>1. i = n /\ __heap_remove(h, i) = rest
    BY <1>1, <1>2, <1>3, <1>4
  <2> HIDE DEF rest
  <2>2. same \in [1..(n - 1) -> (1..n) \ {i}]
    BY <1>1, <2>1
  <2>3. \A k \in 1..(n - 1) : rest[k] = h[same[k]]
    BY <1>2
  <2>4. \A p, q \in 1..(n - 1) : same[p] = same[q] => p = q
    OBVIOUS
  <2> HIDE DEF same
  <2>5. AllBut(rest, h, i)
    BY <1>2, <2>2, <2>3, <2>4 DEF AllBut
  <2> QED BY <1>2, <2>1, <2>5, OneDropped
<1>5. CASE i <= Len(rest)
  <2> HIDE DEF rest
  <2>1. i \in path /\ path \subseteq 1..(n - 1)
    BY <1>2, <1>5, AncestorsUpTo DEF SinkPath
  <2>2. land \in path /\ land \in 1..(n - 1)
    <3> HIDE DEF path
    <3> QED BY <1>2, <2>1, Largest
  <2>3. Ancestors(land) \subseteq 1..(n - 1) /\ i \in Ancestors(land)
        /\ \A k \in Ancestors(land) : k = land \/ k < land
    <3>1. i \in Ancestors(land)
      BY <2>2 DEF SinkPath
    <3> QED BY <1>2, <2>2, <3>1, AncestorsUpTo
  <2>4. ASSUME NEW k \in Ancestors(land), k # land, k >= i
        PROVE  /\ Winner(rest, k) \in Ancestors(land) /\ Winner(rest, k) \in 1..(n - 1)
               /\ Winner(rest, k) = 2 * k \/ Winner(rest, k) = 2 * k + 1
    <3>1. Winner(rest, k) \in Ancestors(land)
      BY <2>2, <2>4 DEF SinkPath
    <3> QED BY <2>3, <3>1 DEF Winner
  <2> HIDE DEF land
  <2>5. \A k \in 1..(n - 1) : from(k) \in (1..n) \ {i}
    <3> SUFFICES ASSUME NEW k \in 1..(n - 1) PROVE from(k) \in (1..n) \ {i}
      OBVIOUS
    <3>1. CASE k = land
      BY <1>1, <1>2, <1>5, <3>1
    <3>2. CASE k # land /\ k \in Ancestors(land) /\ k >= i
      <4>1. from(k) = Winner(rest, k) /\ k \in Nat \ {0}
        BY <3>2
      <4>2. Winner(rest, k) > k /\ Winner(rest, k) \in 1..(n - 1)
        BY <2>4, <3>2, <4>1
      <4> QED BY <1>1, <3>2, <4>1, <4>2
    <3>3. CASE k # land /\ ~ (k \in Ancestors(land) /\ k >= i)
      <4>1. k # i
        BY <2>3, <3>3
      <4> QED BY <1>1, <3>3, <4>1
    <3> QED BY <3>1, <3>2, <3>3
  <2>6. ASSUME NEW k \in 1..(n - 1), NEW l \in 1..(n - 1), k < l PROVE from(k) # from(l)
    <3>1. ASSUME NEW x \in 1..(n - 1), x # land
          PROVE  from(x) \in 1..(n - 1)
      BY <2>4, <3>1
    <3>2. CASE k = land \/ l = land
      BY <1>1, <2>6, <3>1, <3>2
    <3>3. CASE k # land /\ l # land
      <4> DEFINE sinks(x) == x \in Ancestors(land) /\ x >= i
      <4>1. CASE sinks(k) /\ sinks(l)
        <5>1. from(k) <= 2 * k + 1 /\ from(l) >= 2 * l /\ from(k) \in Int /\ from(l) \in Int
          BY <2>4, <3>3, <4>1, SMTT(30)
        <5>2. 2 * k + 1 < 2 * l
          BY <2>6
        <5> QED BY <5>1, <5>2
      <4>2. CASE sinks(k) /\ ~ sinks(l)
        <5>1. sinks(from(k))
          <6>1. from(k) = Winner(rest, k)
            BY <3>3, <4>2
          <6>2. Winner(rest, k) >= i
            BY <2>4, <3>3, <4>2
          <6> QED BY <2>4, <3>3, <4>2, <6>1, <6>2
        <5>2. from(l) = l
          BY <3>3, <4>2
        <5> QED BY <4>2, <5>1, <5>2
      <4>3. CASE ~ sinks(k) /\ sinks(l)
        <5>1. sinks(from(l))
          <6>1. from(l) = Winner(rest, l)
            BY <3>3, <4>3
          <6>2. Winner(rest, l) >= i
            BY <2>4, <3>3, <4>3
          <6> QED BY <2>4, <3>3, <4>3, <6>1, <6>2
        <5>2. from(k) = k
          BY <3>3, <4>3
        <5> QED BY <4>3, <5>1, <5>2
      <4>4. CASE ~ sinks(k) /\ ~ sinks(l)
        BY <2>6, <3>3, <4>4
      <4> QED BY <4>1, <4>2, <4>3, <4>4
    <3> QED BY <3>2, <3>3
  <2>7. g \in [1..(n - 1) -> (1..n) \ {i}]
    <3> HIDE DEF from
    <3> QED BY <2>5
  <2>8. \A p, q \in 1..(n - 1) : g[p] = g[q] => p = q
    <3> HIDE DEF from
    <3> SUFFICES ASSUME NEW p \in 1..(n - 1), NEW q \in 1..(n - 1), g[p] = g[q]
                 PROVE  p = q
      OBVIOUS
    <3>1. ~ (p < q) /\ ~ (q < p)
      BY <2>6
    <3> QED BY <3>1
  <2>9. \A k \in 1..(n - 1) : val(k) = h[from(k)]
    <3> SUFFICES ASSUME NEW k \in 1..(n - 1) PROVE val(k) = h[from(k)]
      OBVIOUS
    <3>1. CASE k # land /\ k \in Ancestors(land) /\ k >= i
      BY <1>2, <2>4, <3>1
    <3>2. CASE k = land
      BY <3>2
    <3>3. CASE k # land /\ ~ (k \in Ancestors(land) /\ k >= i)
      BY <1>2, <3>3
    <3> QED BY <3>1, <3>2, <3>3
  <2>10. sunk \in Seq(S) /\ Len(sunk) = n - 1 /\ \A k \in 1..(n - 1) : sunk[k] = h[g[k]]
    <3>1. \A k \in 1..(n - 1) : val(k) \in S
      <4> HIDE DEF val, from
      <4> QED BY <1>1, <2>5, <2>9
    <3> HIDE DEF val, from
    <3> QED BY <1>2, <2>9, <3>1, SMTT(30)
  <2> HIDE DEF sunk, g
  <2>11. Distinct(sunk) /\ Elems(sunk) = Elems(h) \ {h[i]}
    <3>1. AllBut(sunk, h, i)
      <4>1. Len(sunk) = n - 1 /\ Len(h) = n
        BY <2>10
      <4>2. \E x \in [1..(n - 1) -> (1..n) \ {i}] :
              /\ \A p, q \in 1..(n - 1) : x[p] = x[q] => p = q
              /\ \A p \in 1..(n - 1) : sunk[p] = h[x[p]]
        BY ONLY <2>7, <2>8, <2>10, ZenonT(60)
      <4> QED BY ONLY <4>1, <4>2 DEF AllBut
    <3> QED BY <2>10, <3>1, OneDropped
  <2>12. __heap_remove(h, i) = __heap_sort(sunk, land) /\ land \in 1..Len(sunk)
    BY <1>2, <1>3, <1>5, <2>2, <2>10
  <2>13. /\ __heap_sort(sunk, land) \in Seq(S)
         /\ Len(__heap_sort(sunk, land)) = Len(sunk)
         /\ Rearranged(__heap_sort(sunk, land), sunk)
    BY <2>10, <2>12, SortKeeps, SortRearranges
  <2>14. /\ Distinct(__heap_sort(sunk, land))
         /\ Elems(__heap_sort(sunk, land)) = Elems(sunk)
    BY <2>10, <2>11, <2>13, RearrangedHolds
  <2> QED BY <2>11, <2>12, <2>14
<1> QED BY <1>1, <1>2, <1>4, <1>5

-----------------------------------------------------------------------------
(* An element no more urgent than its parent stays where it is, ...        *)
LEMMA SortSettled ==
  ASSUME NEW S, NEW h \in Seq(S), NEW i \in 1..Len(h), Settles(h, i)
  PROVE  __heap_sort(h, i) = h
<1> DEFINE settled == {j \in Ancestors(i) : Settles(h, j)}
<1>1. Len(h) \in Nat /\ i \in Nat \ {0} /\ h = [k \in 1..Len(h) |-> h[k]]
  BY LenProperties
<1>2. i \in settled /\ settled \subseteq 1..i /\ Ancestors(i) \subseteq 1..i
  BY <1>1, AncestorsUpTo
<1>3. Max(settled) = i
  <2> HIDE DEF settled
  <2>1. Max(settled) \in settled /\ Max(settled) >= i
    BY <1>1, <1>2, Largest
  <2> QED BY <1>1, <1>2, <2>1
<1> HIDE DEF settled
<1>4. \A k \in 1..Len(h) :
        (IF k = i THEN h[i]
         ELSE IF k \in Ancestors(i) /\ k > i THEN h[k \div 2] ELSE h[k]) = h[k]
  BY <1>1, <1>2
<1>5. __heap_sort(h, i) = [k \in 1..Len(h) |-> h[k]]
  BY <1>3, <1>4 DEF __heap_sort, settled
<1> QED BY <1>1, <1>5

(* ... and one that is more urgent changes places with it, and stays there *)
(* if the parent was settled.                                              *)
LEMMA SortOneLevel ==
  ASSUME NEW S, NEW h \in Seq(S), NEW i \in 2..Len(h),
         ~ Settles(h, i), Settles(h, i \div 2)
  PROVE  __heap_sort(h, i) = [k \in 1..Len(h) |->
                                IF k = i THEN h[i \div 2]
                                ELSE IF k = i \div 2 THEN h[i] ELSE h[k]]
<1> DEFINE settled == {j \in Ancestors(i) : Settles(h, j)}
<1>1. Len(h) \in Nat /\ i \in Nat \ {0} /\ i > 1 /\ i \div 2 < i /\ i \div 2 \in Nat
  BY LenProperties
<1>2. /\ i \in Ancestors(i) /\ i \div 2 \in Ancestors(i)
      /\ Ancestors(i) \subseteq 1..i
  BY <1>1, AncestorsUpTo, AncestorsHalved
<1>3. \A k \in Ancestors(i) : k = i \/ k <= i \div 2
  <2> SUFFICES ASSUME NEW k \in Ancestors(i), k # i PROVE k <= i \div 2
    OBVIOUS
  <2>1. k < i
    BY <1>1, AncestorsUpTo
  <2> QED BY <1>1, <1>2, <2>1, AncestorsApart
<1>4. Max(settled) = i \div 2
  <2>1. i \div 2 \in settled /\ i \notin settled /\ settled \subseteq Ancestors(i)
    BY <1>2
  <2> HIDE DEF settled
  <2>2. Max(settled) \in settled /\ Max(settled) >= i \div 2
    BY <1>1, <1>2, <2>1, Largest
  <2>3. Max(settled) \in 1..i /\ Max(settled) <= i \div 2
    BY <1>2, <1>3, <2>1, <2>2
  <2> QED BY <1>1, <2>2, <2>3
<1> HIDE DEF settled
<1>5. \A k \in 1..Len(h) :
        (IF k = i \div 2 THEN h[i]
         ELSE IF k \in Ancestors(i) /\ k > i \div 2 THEN h[k \div 2] ELSE h[k])
        = (IF k = i THEN h[i \div 2] ELSE IF k = i \div 2 THEN h[i] ELSE h[k])
  BY <1>1, <1>2, <1>3
<1> QED BY <1>4, <1>5 DEF __heap_sort, settled

-----------------------------------------------------------------------------
(* The order of the heap, for a comparison that orders its elements. *)
Ordered(h) == \A k \in 2..Len(h) : elem_compare_cb(h[k \div 2], h[k])

Orders(S) ==
  /\ \A x, y \in S : elem_compare_cb(x, y) \/ elem_compare_cb(y, x)
  /\ \A x, y, z \in S :
       elem_compare_cb(x, y) /\ elem_compare_cb(y, z) => elem_compare_cb(x, z)

(* The root of a heap in order is as urgent as any other element.          *)
LEMMA RootLeads ==
  ASSUME NEW S, NEW h \in Seq(S), Orders(S), Ordered(h), NEW i \in 1..Len(h)
  PROVE  elem_compare_cb(h[1], h[i])
<1> DEFINE T == {j \in Ancestors(i) : elem_compare_cb(h[j], h[i])}
<1>1. Len(h) \in Nat /\ i \in Nat \ {0} /\ \A k \in 1..Len(h) : h[k] \in S
  BY LenProperties
<1>2. Ancestors(i) \subseteq 1..Len(h) /\ i \in Ancestors(i)
  BY <1>1, AncestorsUpTo
<1>3. i \in T
  BY <1>1, <1>2 DEF Orders
<1>4. ASSUME NEW j \in T, j > 1 PROVE j \div 2 \in T
  <2>1. j \div 2 \in Ancestors(i)
    BY <1>1, <1>4, AncestorsHalved
  <2>2. elem_compare_cb(h[j \div 2], h[j]) /\ elem_compare_cb(h[j], h[i])
    BY <1>1, <1>2, <1>4 DEF Ordered
  <2>3. h[j \div 2] \in S /\ h[j] \in S /\ h[i] \in S
    BY <1>1, <1>2, <2>1
  <2> QED BY <2>1, <2>2, <2>3 DEF Orders
<1>5. T = Ancestors(i)
  <2>1. Halved(T) /\ T \subseteq Ancestors(i)
    BY <1>4 DEF Halved
  <2> HIDE DEF T
  <2> QED BY <1>1, <1>3, <2>1, AncestorsLeast
<1> QED BY <1>1, <1>5, RootIsAncestor

(* What a push leaves in order, exactly: an element that need not rise     *)
(* above its parent's place.                                               *)
LEMMA PushOrdered ==
  ASSUME NEW S, NEW h \in Seq(S), NEW data \in S, Orders(S), Ordered(h)
  PROVE  Ordered(__heap_push(h, data))
         <=> Len(h) + 1 < 4 \/ elem_compare_cb(h[(Len(h) + 1) \div 4], data)
<1> DEFINE a == Append(h, data)
           m == Len(h) + 1
           p == m \div 2
           t == __heap_push(h, data)
<1>1. /\ Len(h) \in Nat /\ m \in Nat \ {0} /\ a \in Seq(S) /\ Len(a) = m
      /\ a[m] = data /\ \A k \in 1..Len(h) : a[k] = h[k]
      /\ \A k \in 1..m : a[k] \in S
      /\ Len(h) = 0 => h = <<>>
  BY LenProperties, AppendProperties
<1>2. t = __heap_sort(a, m)
  BY DEF __heap_push
<1> HIDE DEF a, t
<1>3. m < 4 <=> p < 2
  BY <1>1
<1>4. m \div 4 = p \div 2
  BY <1>1
<1>5. m > 1 => p \in 1..Len(h)
  BY <1>1
<1>6. \A k \in 2..Len(h) : elem_compare_cb(a[k \div 2], a[k])
  BY <1>1 DEF Ordered
<1>7. p >= 2 => p \div 2 \in 1..Len(h) /\ elem_compare_cb(a[p \div 2], a[p])
                 /\ a[p \div 2] = h[p \div 2]
  BY <1>1, <1>5, <1>6
<1>8. CASE Settles(a, m)
  <2>1. t = a
    <3>1. m \in 1..Len(a)
      BY <1>1
    <3> QED BY <1>1, <1>2, <1>8, <3>1, SortSettled
  <2>2. ASSUME NEW k \in 2..m PROVE elem_compare_cb(a[k \div 2], a[k])
    <3>1. CASE k = m
      <4>1. m # 1
        BY <1>1, <2>2, <3>1
      <4> QED BY <1>8, <3>1, <4>1 DEF Settles
    <3>2. CASE k # m
      BY <1>1, <1>6, <2>2, <3>2
    <3> QED BY <3>1, <3>2
  <2>3. Ordered(t)
    BY <1>1, <2>1, <2>2 DEF Ordered
  <2>4. p >= 2 => elem_compare_cb(h[p \div 2], data)
    <3>1. p >= 2 => elem_compare_cb(a[p], a[m]) /\ a[p] \in S /\ a[m] \in S /\ a[p \div 2] \in S
      BY <1>1, <1>5, <1>7, <1>8 DEF Settles
    <3> QED BY <1>1, <1>7, <3>1 DEF Orders
  <2> QED BY <1>1, <1>3, <1>4, <2>3, <2>4 DEF t
<1>9. CASE ~ Settles(a, m)
  <2>1. m \in 2..Len(a) /\ p \in 1..Len(h) /\ ~ elem_compare_cb(a[p], a[m]) /\ m # 1
    BY <1>1, <1>5, <1>9 DEF Settles
  <2>2. Settles(a, p)
    <3>1. p = 1 \/ p >= 2
      BY <1>1, <2>1
    <3> HIDE DEF p, m
    <3> QED BY <1>7, <3>1 DEF Settles
  <2>3. t = [k \in 1..m |-> IF k = m THEN a[p] ELSE IF k = p THEN a[m] ELSE a[k]]
    <3>1. /\ a \in Seq(S) /\ m \in 2..Len(a) /\ Len(a) = m
          /\ ~ Settles(a, m) /\ Settles(a, m \div 2)
      BY <1>1, <1>9, <2>1, <2>2
    <3> HIDE DEF m
    <3>2. __heap_sort(a, m) = [k \in 1..Len(a) |->
                                 IF k = m THEN a[m \div 2]
                                 ELSE IF k = m \div 2 THEN a[m] ELSE a[k]]
      BY <3>1, SortOneLevel
    <3> QED BY <1>2, <3>1, <3>2
  <2>4. p < m /\ elem_compare_cb(a[m], a[p])
    <3>1. a[p] \in S /\ a[m] \in S /\ p < m
      BY <1>1, <2>1
    <3> QED BY <2>1, <3>1 DEF Orders
  <2> HIDE DEF t, a, p, m
  <2>5. /\ m \in Nat /\ p \in 1..m /\ p < m /\ Len(t) = m
        /\ t[m] = a[p] /\ t[p] = a[m]
        /\ \A k \in 1..m : k # m /\ k # p => t[k] = a[k]
    BY <1>1, <2>1, <2>3, <2>4
  <2>6. ASSUME NEW k \in 2..m, k # p PROVE elem_compare_cb(t[k \div 2], t[k])
    <3>1. k \div 2 \in 1..m /\ k \div 2 # m /\ k \in 1..m
      BY <2>5, <2>6
    <3>2. CASE k = m
      BY <2>4, <2>5, <3>2 DEF p
    <3>3. CASE k # m /\ k \div 2 = p
      <4>1. elem_compare_cb(a[p], a[k]) /\ a[k] \in S /\ a[p] \in S /\ a[m] \in S
        <5>1. k \in 2..Len(h)
          BY <1>1, <2>5, <3>3 DEF m
        <5> QED BY <1>1, <1>6, <2>5, <3>1, <3>3, <5>1
      <4>2. t[k] = a[k] /\ t[k \div 2] = a[m]
        BY <2>5, <2>6, <3>1, <3>3
      <4> QED BY <2>4, <4>1, <4>2 DEF Orders
    <3>4. CASE k # m /\ k \div 2 # p
      <4>1. k \in 2..Len(h)
        BY <1>1, <2>5, <3>4 DEF m
      <4>2. t[k] = a[k] /\ t[k \div 2] = a[k \div 2]
        BY <2>5, <2>6, <3>1, <3>4
      <4> QED BY <1>6, <4>1, <4>2
    <3> QED BY <3>2, <3>3, <3>4
  <2>7. p >= 2 => t[p] = data /\ t[p \div 2] = h[p \div 2]
    <3>1. p >= 2 => p \div 2 \in 1..m /\ p \div 2 # m /\ p \div 2 # p
      BY <2>5
    <3> QED BY <1>1, <1>7, <2>5, <3>1
  <2>8. Ordered(t) <=> (p >= 2 => elem_compare_cb(t[p \div 2], t[p]))
    <3>1. Ordered(t) <=> \A k \in 2..m : elem_compare_cb(t[k \div 2], t[k])
      BY <2>5 DEF Ordered
    <3>2. p >= 2 <=> p \in 2..m
      BY <2>5
    <3> QED BY <2>6, <3>1, <3>2
  <2>9. p < 2 <=> ~ (p >= 2)
    BY <2>5
  <2> QED BY <1>3, <1>4, <2>7, <2>8, <2>9 DEF t, m
<1> QED BY <1>8, <1>9

(* The winning child is as urgent as the other.                            *)
LEMMA WinnerLeads ==
  ASSUME NEW S, NEW h \in Seq(S), Orders(S), NEW k \in 2..Len(h)
  PROVE  /\ Winner(h, k \div 2) \in 2..Len(h)
         /\ Winner(h, k \div 2) \div 2 = k \div 2
         /\ elem_compare_cb(h[Winner(h, k \div 2)], h[k])
<1> DEFINE p == k \div 2
           w == Winner(h, p)
<1>1. Len(h) \in Nat /\ \A j \in 1..Len(h) : h[j] \in S
  BY LenProperties
<1>2. p \in Nat /\ p >= 1 /\ (k = 2 * p \/ k = 2 * p + 1) /\ 2 * p \in 2..Len(h)
  BY <1>1
<1> HIDE DEF p
<1>3. /\ (2 * p) \div 2 = p /\ (2 * p + 1) \div 2 = p
      /\ 2 * p # Len(h) => 2 * p + 1 \in 2..Len(h)
      /\ h[k] \in S /\ h[2 * p] \in S
      /\ 2 * p # Len(h) => h[2 * p + 1] \in S
  BY <1>1, <1>2
<1>4. CASE 2 * p # Len(h) /\ elem_compare_cb(h[2 * p + 1], h[2 * p])
  <2>1. w = 2 * p + 1
    BY <1>4 DEF Winner
  <2>2. elem_compare_cb(h[2 * p + 1], h[k])
    BY <1>2, <1>3, <1>4 DEF Orders
  <2> QED BY <1>3, <1>4, <2>1, <2>2 DEF p
<1>5. CASE ~ (2 * p # Len(h) /\ elem_compare_cb(h[2 * p + 1], h[2 * p]))
  <2>1. w = 2 * p
    BY <1>5 DEF Winner
  <2>2. k = 2 * p + 1 => 2 * p # Len(h)
    BY <1>1, <1>2
  <2>3. elem_compare_cb(h[2 * p], h[k])
    BY <1>2, <1>3, <1>5, <2>2 DEF Orders
  <2> QED BY <1>2, <1>3, <2>1, <2>3 DEF p
<1> QED BY <1>4, <1>5

(* Where the hole of a pop ends.  It went from each ancestor of that place *)
(* to the winning child, which was more urgent than the last element; the  *)
(* children of the place itself are not.                                   *)
LEMMA PopLands ==
  ASSUME NEW S, NEW h \in Seq(S), Len(h) > 0, NEW tail \in S
  PROVE  LET land == Max(SinkPath(h, tail, 1))
         IN /\ land \in 1..Len(h)
            /\ \A a \in Ancestors(land) \ {land} :
                 /\ Winner(h, a) \in Ancestors(land)
                 /\ Winner(h, a) \div 2 = a /\ Winner(h, a) > 1
                 /\ ~ elem_compare_cb(tail, h[Winner(h, a)])
            /\ 2 * land <= Len(h) => elem_compare_cb(tail, h[Winner(h, land)])
<1> DEFINE m == Len(h)
           P == SinkPath(h, tail, 1)
           land == Max(P)
<1>1. m \in Nat /\ m >= 1
  BY LenProperties
<1>2. P \subseteq 1..m /\ 1 \in P
  <2>1. 1 \in Ancestors(1) /\ Ancestors(1) \subseteq 1..1
    BY AncestorsUpTo
  <2> QED BY <1>1, <2>1 DEF SinkPath
<1>3. land \in P /\ land \in 1..m /\ \A y \in P : land >= y
  <2> HIDE DEF P
  <2> QED BY <1>1, <1>2, Largest
<1> HIDE DEF land
<1>4. land \in Nat \ {0} /\ Ancestors(land) \subseteq 1..land /\ 1 \in Ancestors(land)
  BY <1>1, <1>3, AncestorsUpTo, RootIsAncestor
<1>5. ASSUME NEW a \in Ancestors(land), a # land
      PROVE  /\ Winner(h, a) \in Ancestors(land)
             /\ Winner(h, a) \div 2 = a /\ Winner(h, a) > 1
             /\ ~ elem_compare_cb(tail, h[Winner(h, a)])
  <2>1. a >= 1 /\ a \in Nat
    BY <1>4
  <2>2. /\ Winner(h, a) \in Ancestors(land)
        /\ ~ elem_compare_cb(tail, h[Winner(h, a)])
    BY <1>3, <1>5, <2>1 DEF SinkPath
  <2>3. Winner(h, a) \div 2 = a /\ Winner(h, a) > 1
    BY <2>1 DEF Winner
  <2> QED BY <2>2, <2>3
<1>6. ASSUME 2 * land <= m, ~ elem_compare_cb(tail, h[Winner(h, land)])
      PROVE  FALSE
  <2> DEFINE w == Winner(h, land)
  <2>1. w \in 1..m /\ w \div 2 = land /\ w > land /\ w \in Nat \ {0} /\ w > 1
    <3>1. w = 2 * land \/ (w = 2 * land + 1 /\ 2 * land # m)
      BY DEF Winner
    <3> HIDE DEF w
    <3> QED BY <1>1, <1>4, <1>6, <3>1
  <2> HIDE DEF w
  <2>2. ASSUME NEW a \in Ancestors(land) PROVE a \in Ancestors(w)
    <3>1. ASSUME NEW T \in SUBSET (1..w), w \in T, Halved(T) PROVE a \in T
      <4> DEFINE U == {x \in T : x \in 1..land}
      <4>1. land \in U
        <5>1. w \div 2 \in T
          BY <2>1, <3>1 DEF Halved
        <5>2. land \in 1..land
          BY <1>4
        <5> QED BY <2>1, <5>1, <5>2
      <4>2. ASSUME NEW x \in U, x > 1 PROVE x \div 2 \in U
        <5>1. x \div 2 \in T /\ x \in 1..land
          BY <3>1, <4>2 DEF Halved
        <5>2. x \div 2 \in 1..land
          BY <1>4, <4>2, <5>1
        <5> QED BY <5>1, <5>2
      <4>3. U \in SUBSET (1..land) /\ Halved(U)
        BY <4>2 DEF Halved
      <4>4. a \in U
        <5> HIDE DEF U
        <5> QED BY <2>2, <4>1, <4>3 DEF Ancestors
      <4> QED BY <4>4
    <3>2. a \in 1..w
      BY <1>4, <2>1, <2>2
    <3> QED BY <3>1, <3>2 DEF Ancestors
  <2>3. \A a \in Ancestors(w) \ {w} : a \in Ancestors(land)
    BY <2>1, AncestorsOfChild
  <2>4. w \in Ancestors(w)
    BY <2>1, AncestorsUpTo
  <2>5. ASSUME NEW a \in Ancestors(w) \ {w}
        PROVE  Winner(h, a) \in Ancestors(w) /\ ~ elem_compare_cb(tail, h[Winner(h, a)])
    <3>1. CASE a = land
      BY <1>6, <2>4, <3>1 DEF w
    <3>2. CASE a # land
      BY <1>5, <2>2, <2>3, <3>2
    <3> QED BY <3>1, <3>2
  <2>6. w \in P
    <3>1. 1 \in Ancestors(w)
      BY <2>1, RootIsAncestor
    <3> QED BY <2>1, <2>5, <3>1 DEF SinkPath
  <2> QED BY <1>3, <1>4, <2>1, <2>6
<1> QED BY <1>3, <1>5, <1>6 DEF land

(* A pop keeps the order of the heap.                                      *)
LEMMA PopOrdered ==
  ASSUME NEW S, NEW h \in Seq(S), h # <<>>, Orders(S), Ordered(h)
  PROVE  Ordered(__heap_pop(h))
<1> DEFINE n == Len(h)
           m == n - 1
           tail == h[n]
           rest == SubSeq(h, 1, n - 1)
           land == Max(SinkPath(rest, tail, 1))
           val(k) == IF k = land THEN tail
                     ELSE IF k \in Ancestors(land) /\ k >= 1 THEN rest[Winner(rest, k)]
                     ELSE rest[k]
           sunk == [k \in 1..Len(rest) |-> val(k)]
<1>1. n \in Nat \ {0} /\ m \in Nat /\ tail \in S
  BY LenProperties
<1>2. /\ rest \in Seq(S) /\ Len(rest) = m
      /\ \A k \in 1..m : rest[k] = h[k] /\ rest[k] \in S
  <2>1. rest \in Seq(S) /\ Len(rest) = m
    BY <1>1, CutLast
  <2>2. \A k \in 1..n : h[k] \in S
    BY LenProperties
  <2>3. \A k \in 1..m : rest[k] = h[1 + k - 1] /\ 1 + k - 1 = k /\ k \in 1..n
    BY <1>1, <2>1, <2>2, SubSeqProperties
  <2> QED BY <2>1, <2>2, <2>3
<1>3. __heap_pop(h) = IF 1 > Len(rest) THEN rest ELSE __heap_sort(sunk, land)
  BY DEF __heap_pop, __heap_remove
<1> HIDE DEF n, m, tail, rest
<1>4. \A k \in 2..m : elem_compare_cb(rest[k \div 2], rest[k])
  <2> SUFFICES ASSUME NEW k \in 2..m PROVE elem_compare_cb(rest[k \div 2], rest[k])
    OBVIOUS
  <2>1. k \in 1..m /\ k \div 2 \in 1..m /\ k \in 2..Len(h)
    BY <1>1 DEF n, m
  <2> QED BY <1>2, <2>1 DEF Ordered
<1>5. CASE m = 0
  BY <1>2, <1>3, <1>5 DEF Ordered
<1>6. CASE m # 0
  <2>1. /\ land \in 1..m
        /\ \A a \in Ancestors(land) \ {land} :
             /\ Winner(rest, a) \in Ancestors(land)
             /\ Winner(rest, a) \div 2 = a /\ Winner(rest, a) > 1
             /\ ~ elem_compare_cb(tail, rest[Winner(rest, a)])
        /\ 2 * land <= m => elem_compare_cb(tail, rest[Winner(rest, land)])
    <3>1. Len(rest) = m /\ Len(rest) > 0 /\ rest \in Seq(S) /\ tail \in S
      BY <1>1, <1>2, <1>6
    <3>2. /\ land \in 1..Len(rest)
          /\ \A a \in Ancestors(land) \ {land} :
               /\ Winner(rest, a) \in Ancestors(land)
               /\ Winner(rest, a) \div 2 = a /\ Winner(rest, a) > 1
               /\ ~ elem_compare_cb(tail, rest[Winner(rest, a)])
          /\ 2 * land <= Len(rest) => elem_compare_cb(tail, rest[Winner(rest, land)])
      BY <3>1, PopLands, Zenon
    <3> HIDE DEF land
    <3> QED BY <3>1, <3>2
  <2> HIDE DEF land
  <2>2. /\ land \in Nat \ {0} /\ land \in Ancestors(land)
        /\ Ancestors(land) \subseteq 1..m
        /\ \A k \in Ancestors(land) : k >= 1 /\ k <= land
    BY <1>1, <2>1, AncestorsUpTo
  <2>3. \A k \in 1..m : val(k) \in S
    <3> SUFFICES ASSUME NEW k \in 1..m PROVE val(k) \in S
      OBVIOUS
    <3>1. k # land /\ k \in Ancestors(land) => rest[Winner(rest, k)] \in S
      BY <1>2, <2>1, <2>2
    <3> QED BY <1>1, <1>2, <3>1
  <2>4. sunk \in Seq(S) /\ Len(sunk) = m /\ \A k \in 1..m : sunk[k] = val(k)
    <3> HIDE DEF val
    <3> QED BY <1>1, <1>2, <2>3
  <2>5. \A x, y \in S : ~ elem_compare_cb(x, y) => elem_compare_cb(y, x)
    BY DEF Orders
  (* The last element stays where the hole ended. *)
  <2>6. Settles(sunk, land)
    <3>1. CASE land = 1
      BY <3>1 DEF Settles
    <3>2. CASE land # 1
      <4> DEFINE p == land \div 2
      <4>1. p \in Ancestors(land) /\ p # land
        <5>1. land > 1 /\ land \div 2 # land
          BY <2>2, <3>2
        <5> QED BY <2>2, <5>1, AncestorsHalved
      <4>2. Winner(rest, p) = land
        <5> DEFINE w == Winner(rest, p)
        <5>1. w \in Ancestors(land) /\ w \div 2 = p /\ w > 1
          BY <2>1, <4>1
        <5>2. w < land => w <= p
          BY <2>2, <5>1, AncestorsApart
        <5>3. w \in Nat /\ p < w /\ w <= land
          <6> HIDE DEF w
          <6> QED BY <2>2, <5>1
        <5> HIDE DEF w
        <5>4. p \in Nat
          BY <2>2
        <5> QED BY <2>2, <5>2, <5>3, <5>4 DEF w
      <4>3. ~ elem_compare_cb(tail, rest[land])
        BY <2>1, <4>1, <4>2
      <4>4. sunk[p] = rest[land] /\ sunk[land] = tail
        BY <2>1, <2>2, <2>4, <4>1, <4>2
      <4> QED BY <1>1, <1>2, <2>1, <2>5, <4>3, <4>4 DEF Settles
    <3> QED BY <3>1, <3>2
  <2>7. __heap_pop(h) = sunk
    <3> HIDE DEF sunk
    <3> QED BY <1>1, <1>2, <1>3, <1>6, <2>1, <2>4, <2>6, SortSettled
  <2> HIDE DEF sunk
  <2>8. ASSUME NEW k \in 2..m PROVE elem_compare_cb(sunk[k \div 2], sunk[k])
    <3> DEFINE p == k \div 2
               w == Winner(rest, p)
    <3>1. p \in 1..m /\ k \in 1..m /\ p < k /\ p \in Nat /\ k > 1
      BY <1>1
    <3>2. w \in 2..m /\ w \div 2 = p /\ elem_compare_cb(rest[w], rest[k])
      BY <1>2, WinnerLeads
    <3> HIDE DEF p, w
    <3>3. k \in Ancestors(land) => p \in Ancestors(land)
      BY <2>2, <3>1, AncestorsHalved DEF p
    <3>4. CASE p = land
      <4>1. 2 * land <= m
        BY <1>1, <2>2, <3>4 DEF p
      <4>2. elem_compare_cb(tail, rest[w])
        BY <2>1, <3>4, <4>1 DEF w
      <4>3. k \notin Ancestors(land) /\ k # land
        BY <2>2, <3>1, <3>4
      <4>4. sunk[p] = tail /\ sunk[k] = rest[k]
        BY <2>4, <3>1, <3>4, <4>3
      <4>5. w \in 1..m
        BY <3>2
      <4> QED BY <1>1, <1>2, <3>1, <3>2, <4>2, <4>4, <4>5 DEF Orders, p
    <3>5. CASE p # land /\ p \in Ancestors(land)
      <4>1. w \in Ancestors(land) /\ ~ elem_compare_cb(tail, rest[w])
        BY <2>1, <3>5 DEF w
      <4>2. sunk[p] = rest[w]
        BY <2>2, <2>4, <3>1, <3>5 DEF w
      <4>3. CASE k # w
        <5>1. k \notin Ancestors(land)
          <6> SUFFICES ASSUME k \in Ancestors(land) PROVE FALSE
            OBVIOUS
          <6>1. k < w => k <= p
            BY <2>2, <3>2, <4>1, AncestorsApart
          <6>2. w < k => w <= p
            BY <2>2, <3>1, <4>1, AncestorsApart DEF p
          <6>3. p < w /\ w \in Nat
            BY <3>1, <3>2
          <6> QED BY <3>1, <4>3, <6>1, <6>2, <6>3
        <5>2. sunk[k] = rest[k]
          BY <2>2, <2>4, <3>1, <5>1
        <5> QED BY <3>2, <4>2, <5>2 DEF p
      <4>4. CASE k = w /\ w = land
        <5>1. sunk[k] = tail
          BY <2>4, <3>1, <4>4
        <5> QED BY <1>1, <1>2, <2>5, <3>1, <4>1, <4>2, <4>4, <5>1 DEF p
      <4>5. CASE k = w /\ w # land
        <5> DEFINE v == Winner(rest, w)
        <5>1. v \in Ancestors(land) /\ v \div 2 = w /\ v > 1
          BY <2>1, <4>1, <4>5
        <5>2. sunk[k] = rest[v]
          BY <2>2, <2>4, <3>1, <4>1, <4>5
        <5>3. v \in 2..m
          <6> HIDE DEF v
          <6> QED BY <2>2, <5>1
        <5>4. elem_compare_cb(rest[w], rest[v])
          <6> HIDE DEF v
          <6> QED BY <1>4, <5>1, <5>3
        <5> QED BY <4>2, <5>2, <5>4 DEF p
      <4> QED BY <4>3, <4>4, <4>5
    <3>6. CASE p # land /\ p \notin Ancestors(land)
      <4>1. k \notin Ancestors(land) /\ k # land
        BY <2>2, <3>3, <3>6
      <4>2. sunk[p] = rest[p] /\ sunk[k] = rest[k]
        BY <2>4, <3>1, <3>6, <4>1
      <4> QED BY <1>4, <4>2 DEF p
    <3> QED BY <3>4, <3>5, <3>6
  <2> QED BY <2>4, <2>7, <2>8 DEF Ordered
<1> QED BY <1>5, <1>6

(* In a heap of any shape, whatever is pushed behind a root as urgent      *)
(* leaves the root where it is.                                            *)
LEMMA RootStays ==
  ASSUME NEW S, NEW h \in Seq(S), NEW data \in S, Orders(S), h # <<>>,
         elem_compare_cb(h[1], data)
  PROVE  __heap_push(h, data)[1] = h[1]
<1> DEFINE a == Append(h, data)
           m == Len(h) + 1
           path == Ancestors(m)
           settled == {j \in path : Settles(a, j)}
           stop == Max(settled)
<1>1. /\ Len(h) \in Nat /\ Len(h) # 0 /\ m \in Nat \ {0} /\ a \in Seq(S) /\ Len(a) = m
      /\ a[m] = data /\ \A k \in 1..Len(h) : a[k] = h[k]
      /\ \A k \in 1..m : a[k] \in S
  BY LenProperties, AppendProperties
<1>2. path \subseteq 1..m /\ m \in path /\ 1 \in path
  BY <1>1, AncestorsUpTo, RootIsAncestor
<1>3. \A j \in path : j > 1 => j \div 2 \in path
  BY <1>1, AncestorsHalved
<1>4. 1 # m /\ a[1] = h[1]
  BY <1>1
<1>5. __heap_push(h, data) = [k \in 1..m |->
                                IF k = stop THEN a[m]
                                ELSE IF k \in path /\ k > stop THEN a[k \div 2]
                                ELSE a[k]]
  BY <1>1 DEF __heap_push, __heap_sort
<1> HIDE DEF a, m
<1>6. stop \in settled /\ stop \in 1..m /\ \A j \in settled : stop >= j
  <2>1. 1 \in settled /\ settled \subseteq 1..m
    BY <1>2 DEF Settles
  <2> HIDE DEF settled, path
  <2> QED BY <1>1, <2>1, Largest
<1> HIDE DEF stop
<1>7. CASE stop = 1
  <2> DEFINE T == {j \in path : j = m \/ ~ elem_compare_cb(a[j], data)}
  <2>1. ASSUME NEW j \in path, j > 1 PROVE ~ elem_compare_cb(a[j \div 2], a[j])
    <3>1. j \notin settled /\ j # 1
      BY <1>2, <1>6, <1>7, <2>1
    <3> QED BY <2>1, <3>1 DEF Settles
  <2>2. ASSUME NEW j \in T, j > 1 PROVE j \div 2 \in T
    <3>1. j \div 2 \in path /\ ~ elem_compare_cb(a[j \div 2], a[j])
      BY <1>3, <2>1, <2>2
    <3>2. a[j] \in S /\ a[j \div 2] \in S /\ data \in S
      BY <1>1, <1>2, <3>1
    <3>3. CASE j = m
      BY <1>1, <3>1, <3>3
    <3>4. CASE j # m
      <4>1. ~ elem_compare_cb(a[j], data)
        BY <2>2, <3>4
      <4> QED BY <3>1, <3>2, <4>1 DEF Orders
    <3> QED BY <3>3, <3>4
  <2>3. m \in T /\ T \subseteq path /\ Halved(T)
    BY <1>2, <2>2 DEF Halved
  <2>4. T = path
    <3> HIDE DEF T
    <3> QED BY <1>1, <2>3, AncestorsLeast
  <2>5. 1 \in T
    <3> HIDE DEF T
    <3> QED BY <1>2, <2>4
  <2> QED BY <1>4, <2>5
<1>8. CASE stop # 1
  BY <1>1, <1>4, <1>5, <1>6, <1>8
<1> QED BY <1>7, <1>8
=============================================================================
