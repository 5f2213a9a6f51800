----------------------------- MODULE HashProofs -----------------------------
(***************************************************************************)
(* The hash table of any initial size, over any finite set of keys.  IInv  *)
(* is inductive: the chains hold every entry once, in the bucket of its    *)
(* key, and a walk has met what is ahead of the entry it meets next.  From *)
(* it follow Hash's invariants, and that the table implements Dictionary.  *)
(***************************************************************************)
EXTENDS Hash, SequenceTheorems, FiniteSetTheorems, TLAPS

-----------------------------------------------------------------------------
(* Numbers: the remainder by a divisor of the divisor.                     *)

(* Division with remainder has one answer. *)
LEMMA RemainderIsUnique ==
  ASSUME NEW n \in Nat \ {0}, NEW a \in Nat, NEW b \in Nat,
         NEW r \in 0..(n - 1), NEW s \in 0..(n - 1), n * a + r = n * b + s
  PROVE  r = s
<1>1. ~ (a < b)
  <2> SUFFICES ASSUME a < b PROVE FALSE
    OBVIOUS
  <2>1. a + 1 <= b
    OBVIOUS
  <2>2. n * (a + 1) <= n * b
    BY <2>1
  <2>3. n * (a + 1) = n * a + n
    OBVIOUS
  <2> QED BY <2>2, <2>3
<1>2. ~ (b < a)
  <2> SUFFICES ASSUME b < a PROVE FALSE
    OBVIOUS
  <2>1. b + 1 <= a
    OBVIOUS
  <2>2. n * (b + 1) <= n * a
    BY <2>1
  <2>3. n * (b + 1) = n * b + n
    OBVIOUS
  <2> QED BY <2>2, <2>3
<1> QED BY <1>1, <1>2

(* Division with remainder.                                                *)
LEMMA Remainder ==
  ASSUME NEW n \in Nat \ {0}, NEW k \in Nat
  PROVE  k % n \in 0..(n - 1) /\ k \div n \in Nat /\ k = n * (k \div n) + (k % n)
OBVIOUS

LEMMA Distributes ==
  ASSUME NEW n \in Nat, NEW a \in Nat, NEW b \in Nat
  PROVE  n * (2 * a + b) = (2 * n) * a + n * b
OBVIOUS

LEMMA RemainderOfDouble ==
  ASSUME NEW n \in Nat \ {0}, NEW k \in Nat
  PROVE  k % n = (k % (2 * n)) % n
<1> DEFINE r == k % (2 * n)
           q == k \div (2 * n)
<1>1. r \in 0..(2 * n - 1) /\ q \in Nat /\ k = (2 * n) * q + r
  <2>1. 2 * n \in Nat \ {0}
    OBVIOUS
  <2> QED BY <2>1, Remainder
<1> HIDE DEF r, q
<1>2. k % n \in 0..(n - 1) /\ k \div n \in Nat /\ k = n * (k \div n) + (k % n)
  BY Remainder
<1>3. r % n \in 0..(n - 1) /\ r \div n \in Nat /\ r = n * (r \div n) + (r % n)
  <2>1. r \in Nat
    BY <1>1
  <2> QED BY <2>1, Remainder
<1> DEFINE d == r \div n
<1> HIDE DEF d
<1>4. k = n * (2 * q + d) + (r % n) /\ 2 * q + d \in Nat
  <2>1. d \in Nat /\ r = n * d + (r % n) /\ (r % n) \in Int
    BY <1>3 DEF d
  <2>2. n * (2 * q + d) = (2 * n) * q + n * d
    BY <1>1, <2>1, Distributes
  <2>3. (2 * n) * q \in Int /\ n * d \in Int
    BY <1>1, <2>1
  <2> QED BY <1>1, <2>1, <2>2, <2>3
<1>5. n * (k \div n) + (k % n) = n * (2 * q + d) + (r % n)
  BY <1>2, <1>4
<1>6. k % n = r % n
  <2> DEFINE a == k \div n
             b == 2 * q + d
             x == k % n
             y == r % n
  <2>1. a \in Nat /\ b \in Nat /\ x \in 0..(n - 1) /\ y \in 0..(n - 1)
        /\ n * a + x = n * b + y
    BY <1>2, <1>3, <1>4, <1>5
  <2> HIDE DEF a, b, x, y
  <2>2. x = y
    BY <2>1, RemainderIsUnique
  <2> QED BY <2>2 DEF x, y
<1> QED BY <1>6 DEF r

-----------------------------------------------------------------------------
(* Lists.                                                                  *)

NoRepeats(s) == \A p, q \in 1..Len(s) : s[p] = s[q] => p = q

(* The elements of a list are those at its places.                         *)
LEMMA Ranges ==
  ASSUME NEW S, NEW s \in Seq(S)
  PROVE  Len(s) \in Nat /\ DOMAIN s = 1..Len(s) /\ Range(s) = {s[p] : p \in 1..Len(s)}
         /\ \A p \in 1..Len(s) : s[p] \in S
BY LenProperties DEF Range

(* An entry of a list without repeats has one place, and one behind it.    *)
LEMMA PlaceIs ==
  ASSUME NEW S, NEW s \in Seq(S), NoRepeats(s), NEW p \in 1..Len(s)
  PROVE  PlaceOf(s, s[p]) = p
<1>1. DOMAIN s = 1..Len(s)
  BY LenProperties
<1>2. \A q \in 1..Len(s) : s[q] = s[p] <=> q = p
  BY DEF NoRepeats
<1> QED BY <1>1, <1>2 DEF PlaceOf

LEMMA BehindIs ==
  ASSUME NEW S, NEW s \in Seq(S), NoRepeats(s), NEW p \in 1..Len(s)
  PROVE  Behind(s, s[p]) = IF p < Len(s) THEN s[p + 1] ELSE NULL
BY PlaceIs DEF Behind

(* What a list holds when an entry is put at its end, and when one is      *)
(* taken out.                                                              *)
LEMMA Appended ==
  ASSUME NEW S, NEW s \in Seq(S), NEW e \in S
  PROVE  /\ Append(s, e) \in Seq(S) /\ Len(Append(s, e)) = Len(s) + 1
         /\ \A p \in 1..(Len(s) + 1) :
              Append(s, e)[p] = IF p = Len(s) + 1 THEN e ELSE s[p]
         /\ Range(Append(s, e)) = Range(s) \cup {e}
<1> DEFINE t == Append(s, e)
<1>1. /\ t \in Seq(S) /\ Len(t) = Len(s) + 1 /\ Len(s) \in Nat
      /\ \A p \in 1..Len(s) : t[p] = s[p]
      /\ t[Len(s) + 1] = e
  BY AppendProperties, LenProperties
<1> HIDE DEF t
<1>2. \A p \in 1..(Len(s) + 1) : p = Len(s) + 1 \/ p \in 1..Len(s)
  BY <1>1
<1>3. \A p \in 1..(Len(s) + 1) : t[p] = IF p = Len(s) + 1 THEN e ELSE s[p]
  BY <1>1, <1>2
<1>4. /\ Range(t) = {t[p] : p \in 1..(Len(s) + 1)}
      /\ Range(s) = {s[p] : p \in 1..Len(s)}
  BY <1>1, Ranges
<1>5. Len(s) + 1 \in 1..(Len(s) + 1) /\ 1..Len(s) \subseteq 1..(Len(s) + 1)
      /\ Len(s) + 1 \notin 1..Len(s)
  BY <1>1
<1>6. Range(t) = Range(s) \cup {e}
  BY <1>1, <1>2, <1>4, <1>5
<1> QED BY <1>1, <1>3, <1>6 DEF t

LEMMA Removed ==
  ASSUME NEW S, NEW s \in Seq(S), NoRepeats(s), NEW p \in 1..Len(s)
  PROVE  /\ RemoveAt(s, p) \in Seq(S) /\ Len(RemoveAt(s, p)) = Len(s) - 1
         /\ \A k \in 1..(Len(s) - 1) :
              RemoveAt(s, p)[k] = IF k < p THEN s[k] ELSE s[k + 1]
         /\ Range(RemoveAt(s, p)) = Range(s) \ {s[p]}
<1> DEFINE pre == SubSeq(s, 1, p - 1)
           post == SubSeq(s, p + 1, Len(s))
           t == RemoveAt(s, p)
<1>1. Len(s) \in Nat /\ p \in Nat /\ \A k \in 1..Len(s) : s[k] \in S
  BY LenProperties
<1>2. /\ pre \in Seq(S) /\ Len(pre) = p - 1
      /\ \A k \in 1..(p - 1) : pre[k] = s[k]
  BY SubSeqProperties, ElementOfSeq
<1>3. /\ post \in Seq(S) /\ Len(post) = Len(s) - p
      /\ \A k \in 1..(Len(s) - p) : post[k] = s[p + k]
  BY SubSeqProperties, ElementOfSeq
<1>4. t = pre \o post
  BY DEF RemoveAt
<1> HIDE DEF pre, post, t
<1>5. /\ t \in Seq(S) /\ Len(t) = Len(pre) + Len(post)
      /\ \A k \in 1..(Len(pre) + Len(post)) :
           t[k] = IF k <= Len(pre) THEN pre[k] ELSE post[k - Len(pre)]
  BY <1>2, <1>3, <1>4, ConcatProperties, Zenon
<1>6. Len(pre) + Len(post) = Len(s) - 1
  BY <1>1, <1>2, <1>3
<1>7. ASSUME NEW k \in 1..(Len(s) - 1)
      PROVE  t[k] = IF k < p THEN s[k] ELSE s[k + 1]
  <2>1. CASE k < p
    BY <1>1, <1>2, <1>5, <1>6, <2>1
  <2>2. CASE ~ (k < p)
    <3>1. k - (p - 1) \in 1..(Len(s) - p) /\ p + (k - (p - 1)) = k + 1
      BY <1>1, <2>2
    <3>2. t[k] = post[k - (p - 1)]
      BY <1>1, <1>2, <1>5, <1>6, <2>2
    <3> QED BY <1>3, <2>2, <3>1, <3>2
  <2> QED BY <2>1, <2>2
<1>8. Range(t) = {t[k] : k \in 1..(Len(s) - 1)} /\ Range(s) = {s[k] : k \in 1..Len(s)}
  BY <1>5, <1>6, Ranges
<1>9. Range(t) \subseteq Range(s) \ {s[p]}
  <2> SUFFICES ASSUME NEW k \in 1..(Len(s) - 1) PROVE t[k] \in Range(s) \ {s[p]}
    BY <1>8
  <2>2. k \in 1..Len(s) /\ k + 1 \in 1..Len(s)
    BY <1>1
  <2>3. k < p => k # p
    BY <1>1
  <2>4. ~ (k < p) => k + 1 # p
    BY <1>1
  <2> QED BY <1>7, <1>8, <2>2, <2>3, <2>4 DEF NoRepeats
<1>10. Range(s) \ {s[p]} \subseteq Range(t)
  <2> SUFFICES ASSUME NEW q \in 1..Len(s), q # p PROVE s[q] \in Range(t)
    BY <1>8
  <2>1. CASE q < p
    <3>1. q \in 1..(Len(s) - 1)
      BY <1>1, <2>1
    <3> QED BY <1>7, <1>8, <2>1, <3>1
  <2>2. CASE ~ (q < p)
    <3>1. q - 1 \in 1..(Len(s) - 1) /\ ~ (q - 1 < p) /\ (q - 1) + 1 = q
      BY <1>1, <2>2
    <3>2. t[q - 1] = s[q]
      BY <1>7, <3>1
    <3> QED BY <1>8, <3>1, <3>2
  <2> QED BY <2>1, <2>2
<1> QED BY <1>5, <1>6, <1>7, <1>9, <1>10 DEF t

(* Counted from the last, every place has a number of its own. *)
LEMMA Numbered ==
  ASSUME NEW n \in Nat, NEW P \in SUBSET (1..n)
  PROVE  /\ Cardinality(P) \in Nat
         /\ \A p \in P : Cardinality({q \in P : q >= p}) \in 1..Cardinality(P)
         /\ \A k \in 1..Cardinality(P) : \E p \in P : Cardinality({q \in P : q >= p}) = k
         /\ \A p, r \in P :
              Cardinality({q \in P : q >= p}) = Cardinality({q \in P : q >= r}) => p = r
<1> DEFINE from(p) == {q \in P : q >= p}
           number == [p \in P |-> Cardinality(from(p))]
           N == Cardinality(P)
<1>1. IsFiniteSet(P) /\ N \in Nat
  <2>1. IsFiniteSet(1..n)
    BY FS_Interval
  <2>2. IsFiniteSet(P)
    BY <2>1, FS_Subset
  <2> QED BY <2>2, FS_CardinalityType
<1>2. ASSUME NEW p \in P
      PROVE  /\ IsFiniteSet(from(p)) /\ Cardinality(from(p)) \in 1..N
             /\ p \in from(p)
  <2>1. from(p) \in SUBSET P /\ p \in from(p)
    OBVIOUS
  <2> HIDE DEF from
  <2>2. IsFiniteSet(from(p)) /\ Cardinality(from(p)) <= N
    BY <1>1, <2>1, FS_Subset
  <2>3. Cardinality(from(p)) \in Nat /\ Cardinality(from(p)) # 0
    BY <2>1, <2>2, FS_CardinalityType, FS_EmptySet
  <2> QED BY <1>1, <2>1, <2>2, <2>3
<1>3. ASSUME NEW p \in P, NEW r \in P, p < r
      PROVE  Cardinality(from(p)) # Cardinality(from(r))
  <2>1. from(r) \in SUBSET from(p) /\ p \notin from(r) /\ p \in from(p)
    <3>1. p \in Int /\ r \in Int /\ \A q \in P : q \in Int
      OBVIOUS
    <3>2. \A q \in P : q >= r => q >= p
      BY <1>3, <3>1
    <3>3. ~ (p >= r) /\ p >= p
      BY <1>3, <3>1
    <3> QED BY <3>2, <3>3
  <2>2. IsFiniteSet(from(p))
    BY <1>2
  <2> HIDE DEF from
  <2> QED BY <2>1, <2>2, FS_Subset
<1>4. \A p, r \in P : Cardinality(from(p)) = Cardinality(from(r)) => p = r
  <2> SUFFICES ASSUME NEW p \in P, NEW r \in P,
                      Cardinality(from(p)) = Cardinality(from(r)), p # r
               PROVE  FALSE
    OBVIOUS
  <2>1. p < r \/ r < p
    OBVIOUS
  <2> QED BY <1>3, <2>1
<1> HIDE DEF from
<1>5. number \in Injection(P, 1..N)
  <2>1. number \in [P -> 1..N]
    BY <1>2
  <2>2. IsInjective(number)
    BY <1>4 DEF IsInjective
  <2> QED BY <2>1, <2>2 DEF Injection
<1>6. number \in Surjection(P, 1..N)
  <2>1. IsFiniteSet(1..N) /\ Cardinality(1..N) = N
    BY <1>1, FS_Interval
  <2> HIDE DEF number
  <2> QED BY <1>5, <2>1, FS_Injection
<1>7. \A k \in 1..N : \E p \in P : Cardinality(from(p)) = k
  BY <1>6 DEF Surjection
<1> QED BY <1>1, <1>2, <1>4, <1>7 DEF from

(* The places taken backwards, each of them once.                          *)
LEMMA BackwardsHolds ==
  ASSUME NEW S, NEW s \in Seq(S), NoRepeats(s), NEW P \in SUBSET (1..Len(s))
  PROVE  /\ Backwards(s, P) \in Seq(S) /\ NoRepeats(Backwards(s, P))
         /\ Range(Backwards(s, P)) = {s[p] : p \in P}
<1> DEFINE number(p) == Cardinality({q \in P : q >= p})
           pick(k) == CHOOSE p \in P : number(p) = k
           N == Cardinality(P)
           b == Backwards(s, P)
<1>1. Len(s) \in Nat /\ \A p \in 1..Len(s) : s[p] \in S
  BY LenProperties
<1>2. /\ N \in Nat
      /\ \A p \in P : number(p) \in 1..N
      /\ \A k \in 1..N : \E p \in P : number(p) = k
      /\ \A p, r \in P : number(p) = number(r) => p = r
  BY <1>1, Numbered, Zenon
<1>3. b = [k \in 1..N |-> s[pick(k)]]
  BY DEF Backwards
<1> HIDE DEF number, b, N
<1>4. \A k \in 1..N : pick(k) \in P /\ number(pick(k)) = k
  BY <1>2
<1>5. \A p \in P : pick(number(p)) = p
  BY <1>2, <1>4
<1> HIDE DEF pick
<1>6. b \in Seq(S) /\ Len(b) = N
  <2>1. \A k \in 1..N : s[pick(k)] \in S
    BY <1>1, <1>4
  <2> QED BY <1>2, <1>3, <2>1
<1>7. NoRepeats(b)
  <2> SUFFICES ASSUME NEW k \in 1..N, NEW l \in 1..N, b[k] = b[l] PROVE k = l
    BY <1>6 DEF NoRepeats
  <2>1. s[pick(k)] = s[pick(l)] /\ pick(k) \in 1..Len(s) /\ pick(l) \in 1..Len(s)
    BY <1>3, <1>4
  <2>2. pick(k) = pick(l)
    BY <2>1 DEF NoRepeats
  <2> QED BY <1>4, <2>2
<1>8. Range(b) = {b[k] : k \in 1..N}
  BY <1>6, Ranges
<1>9. Range(b) = {s[p] : p \in P}
  <2>1. \A k \in 1..N : b[k] = s[pick(k)] /\ pick(k) \in P
    BY <1>3, <1>4
  <2>2. \A p \in P : number(p) \in 1..N /\ b[number(p)] = s[p]
    BY <1>2, <1>3, <1>5
  <2>3. \A x \in Range(b) : \E p \in P : x = s[p]
    BY <1>8, <2>1
  <2>4. \A p \in P : s[p] \in Range(b)
    BY <1>8, <2>2
  <2> QED BY <2>3, <2>4
<1> QED BY <1>6, <1>7, <1>9 DEF b

-----------------------------------------------------------------------------
(* The inductive invariant.                                                *)

(* A chain holds each of its entries once, and those whose keys belong to  *)
(* its bucket; no two entries of the table have the same key.              *)
ChainHolds(chain, b, m, keys) ==
  /\ NoRepeats(chain)
  /\ \A e \in Range(chain) : keys[e] \in Keys /\ Index(keys[e], m) = b

InPlace ==
  /\ max \in Nat
  /\ array \in [0..max -> Seq(Entries)]
  /\ \A b \in 0..max : ChainHolds(array[b], b, max, key)
  /\ \A e, f \in InTable : key[e] = key[f] => e = f

(* An entry is in the table or in the free list, and has a value while it  *)
(* is in the table.                                                        *)
Stored ==
  /\ free \in Seq(Entries) /\ NoRepeats(free)
  /\ heap \subseteq Entries
  /\ InTable \cap Range(free) = {} /\ InTable \cup Range(free) = heap
  /\ key \in [Entries -> Keys \cup {None}] /\ \A e \in heap : key[e] \in Keys
  /\ value \in [Entries -> Values \cup {None}]
  /\ \A e \in InTable : value[e] \in Values
  /\ ~ destroyed => \A e \in Entries \ InTable : value[e] = None

Counted == count = Cardinality(InTable) /\ count <= max

Rest ==
  /\ ret \in Values \cup {None}
  /\ destroyed \in BOOLEAN
  /\ destroyed => walk = None

(* The walk has met what is ahead of the entry it meets next.              *)
Passed(b, p) ==
  \/ b < walk.i
  \/ /\ b = walk.i
     /\ \/ walk.next = NULL
        \/ \E n \in 1..Len(array[b]) : array[b][n] = walk.next /\ p < n

MetSoFar ==
  \A b \in 0..max : \A p \in 1..Len(array[b]) :
    key[array[b][p]] \in walk.followed =>
      walk.met[key[array[b][p]]] = IF Passed(b, p) THEN 1 ELSE 0

Walking ==
  walk # None =>
    /\ walk \in Walks /\ walk.i \in 0..max /\ walk.next \in heap \cup {NULL}
    /\ \A k \in walk.followed : \E e \in InTable : key[e] = k
    /\ walk.followed # {} =>
         walk.next = NULL \/ walk.next \in Range(array[walk.i])
    /\ MetSoFar

IInv == InPlace /\ Stored /\ Counted /\ Rest /\ Walking

(* What the table holds is what its chains hold. *)
LEMMA InTableIs == \A e : e \in InTable <=> \E b \in 0..max : e \in Range(array[b])
BY DEF InTable

(* An entry of the table is in the chain its key belongs to.               *)
LEMMA Chained ==
  ASSUME InPlace, NEW e \in InTable
  PROVE  /\ e \in Entries /\ key[e] \in Keys
         /\ Index(key[e], max) \in 0..max
         /\ e \in Range(array[Index(key[e], max)])
<1>1. PICK b \in 0..max : e \in Range(array[b])
  BY InTableIs
<1>2. Index(key[e], max) = b /\ key[e] \in Keys
  BY <1>1 DEF InPlace, ChainHolds
<1>3. array[b] \in Seq(Entries)
  BY DEF InPlace
<1>4. e \in Entries
  BY <1>1, <1>3, Ranges
<1> QED BY <1>1, <1>2, <1>4

LEMMA IndexIs ==
  ASSUME NEW k \in Keys, NEW m \in Nat
  PROVE  Index(k, m) \in 0..m
<1>1. k \in Nat /\ m + 1 \in Nat \ {0}
  BY HashAssumption
<1>2. k % (m + 1) \in 0..((m + 1) - 1)
  BY <1>1, Remainder
<1> QED BY <1>2 DEF Index

(* A key is looked up in its bucket. *)
LEMMA Found ==
  ASSUME InPlace, NEW k \in Keys, NEW e \in InTable, key[e] = k
  PROVE  find_entry(k) = e
<1> DEFINE here == {f \in Range(array[Index(k, max)]) : key[f] = k}
<1>1. e \in here
  BY Chained
<1>2. Index(k, max) \in 0..max
  BY Chained
<1>3. \A f \in here : f \in InTable /\ key[f] = key[e]
  BY <1>2, InTableIs
<1>4. \A f \in here : f = e
  BY <1>3 DEF InPlace
<1>5. here = {e}
  BY <1>1, <1>4
<1> QED BY <1>5 DEF find_entry

LEMMA NotFound ==
  ASSUME InPlace, NEW k \in Keys, \A e \in InTable : key[e] # k
  PROVE  find_entry(k) = NULL
<1>1. Index(k, max) \in 0..max
  BY IndexIs DEF InPlace
<1>2. {f \in Range(array[Index(k, max)]) : key[f] = k} = {}
  BY <1>1, InTableIs
<1> QED BY <1>2 DEF find_entry

LEMMA LookedUp ==
  ASSUME InPlace, NEW k \in Keys
  PROVE  \/ find_entry(k) = NULL /\ \A e \in InTable : key[e] # k
         \/ /\ find_entry(k) # NULL /\ find_entry(k) \in InTable
            /\ find_entry(k) \in Entries /\ key[find_entry(k)] = k
<1>1. CASE \A e \in InTable : key[e] # k
  BY <1>1, NotFound
<1>2. CASE \E e \in InTable : key[e] = k
  <2>1. PICK e \in InTable : key[e] = k
    BY <1>2
  <2>2. find_entry(k) = e /\ e \in Entries
    BY <2>1, Found, Chained
  <2>3. e # NULL
    BY <2>2 DEF Entries, NULL
  <2> QED BY <2>1, <2>2, <2>3
<1> QED BY <1>1, <1>2

(* There is an entry for every key. *)
LEMMA EntriesFinite ==
  /\ Cardinality(Keys) \in Nat /\ IsFiniteSet(Entries)
  /\ Cardinality(Entries) = Cardinality(Keys)
<1>1. Cardinality(Keys) \in Nat
  BY HashAssumption, FS_CardinalityType
<1> QED BY <1>1, FS_Interval DEF Entries

(* When the free list is empty, a new key finds an entry to allocate.      *)
LEMMA FreshIs ==
  ASSUME InPlace, Stored, free = <<>>, NEW k \in Keys, find_entry(k) = NULL
  PROVE  Fresh \in Entries /\ Fresh \notin heap
<1>1. \A e \in InTable : key[e] # k /\ key[e] \in Keys
  BY LookedUp, Chained
<1>2. heap = InTable
  <2>1. Range(free) = {}
    <3>1. DOMAIN free = {} /\ Range(free) = {free[p] : p \in DOMAIN free}
      BY DEF Range
    <3> QED BY <3>1
  <2> QED BY <2>1 DEF Stored
<1>3. \E e \in Entries : e \notin heap
  <2> SUFFICES ASSUME Entries \subseteq InTable PROVE FALSE
    BY <1>2
  <2> DEFINE keyOf == [e \in Entries |-> key[e]]
             others == Keys \ {k}
  <2>1. keyOf \in Injection(Entries, others)
    <3>1. keyOf \in [Entries -> others]
      BY <1>1
    <3>2. IsInjective(keyOf)
      BY DEF IsInjective, InPlace
    <3> QED BY <3>1, <3>2 DEF Injection
  <2>2. IsFiniteSet(others) /\ Cardinality(others) = Cardinality(Keys) - 1
    BY HashAssumption, FS_RemoveElement
  <2> HIDE DEF keyOf, others
  <2>3. Cardinality(Entries) <= Cardinality(others)
    BY <2>1, <2>2, FS_Injection
  <2> QED BY <2>2, <2>3, EntriesFinite
<1> QED BY <1>3 DEF Fresh

(* The part of a chain that goes to a bucket.                              *)
LEMMA SpreadIs ==
  ASSUME NEW s \in Seq(Entries), NoRepeats(s), NEW j, NEW m, NEW keys
  PROVE  /\ Spread(s, j, m, keys) \in Seq(Entries)
         /\ NoRepeats(Spread(s, j, m, keys))
         /\ Range(Spread(s, j, m, keys)) = {e \in Range(s) : Index(keys[e], m) = j}
<1> DEFINE P == {p \in DOMAIN s : Index(keys[s[p]], m) = j}
<1>1. DOMAIN s = 1..Len(s) /\ Range(s) = {s[p] : p \in 1..Len(s)}
  BY Ranges
<1>2. P \in SUBSET (1..Len(s))
  BY <1>1
<1>3. /\ Backwards(s, P) \in Seq(Entries) /\ NoRepeats(Backwards(s, P))
      /\ Range(Backwards(s, P)) = {s[p] : p \in P}
  <2> HIDE DEF P
  <2> QED BY <1>2, BackwardsHolds
<1>4. Spread(s, j, m, keys) = Backwards(s, P)
  BY DEF Spread
<1>5. {s[p] : p \in P} = {e \in Range(s) : Index(keys[e], m) = j}
  <2>1. \A p \in P : s[p] \in Range(s) /\ Index(keys[s[p]], m) = j
    BY <1>1
  <2>2. \A e \in Range(s) : Index(keys[e], m) = j => \E p \in P : e = s[p]
    BY <1>1
  <2> QED BY <2>1, <2>2
<1> QED BY <1>3, <1>4, <1>5

(* The doubling keeps the entries, and puts each where its key belongs.    *)
LEMMA Expanded ==
  ASSUME NEW m \in Nat, NEW keys, NEW a \in [0..m -> Seq(Entries)],
         \A b \in 0..m : ChainHolds(a[b], b, m, keys)
  PROVE  /\ __expand_array(a, m, keys) \in [0..(2 * m + 1) -> Seq(Entries)]
         /\ \A j \in 0..(2 * m + 1) :
              ChainHolds(__expand_array(a, m, keys)[j], j, 2 * m + 1, keys)
         /\ \A e : (\E j \in 0..(2 * m + 1) : e \in Range(__expand_array(a, m, keys)[j]))
                     <=> (\E b \in 0..m : e \in Range(a[b]))
<1> DEFINE x == __expand_array(a, m, keys)
           w == 2 * m + 1
<1>1. w \in Nat
  OBVIOUS
<1>2. ASSUME NEW j \in 0..w
      PROVE  /\ Index(j, m) \in 0..m
             /\ x[j] = Spread(a[Index(j, m)], j, w, keys)
  <2>1. j \in Nat /\ m + 1 \in Nat \ {0}
    OBVIOUS
  <2>2. j % (m + 1) \in 0..((m + 1) - 1)
    BY <2>1, Remainder
  <2> QED BY <2>2 DEF Index, __expand_array
<1>3. DOMAIN x = 0..w /\ x = [j \in 0..w |-> x[j]]
  BY DEF __expand_array
<1> HIDE DEF x, w
<1>4. ASSUME NEW j \in 0..w
      PROVE  /\ x[j] \in Seq(Entries) /\ NoRepeats(x[j])
             /\ Range(x[j]) = {e \in Range(a[Index(j, m)]) : Index(keys[e], w) = j}
             /\ \A e \in Range(a[Index(j, m)]) : keys[e] \in Keys
  <2>1. a[Index(j, m)] \in Seq(Entries) /\ NoRepeats(a[Index(j, m)])
        /\ \A e \in Range(a[Index(j, m)]) : keys[e] \in Keys
    BY <1>2 DEF ChainHolds
  <2> QED BY <1>2, <2>1, SpreadIs
<1>5. x \in [0..w -> Seq(Entries)]
  BY <1>3, <1>4
<1>6. \A j \in 0..w : ChainHolds(x[j], j, w, keys)
  BY <1>4 DEF ChainHolds
<1>7. ASSUME NEW e, NEW b \in 0..m, e \in Range(a[b])
      PROVE  \E j \in 0..w : e \in Range(x[j])
  <2>1. keys[e] \in Keys /\ Index(keys[e], m) = b
    BY <1>7 DEF ChainHolds
  <2>2. Index(keys[e], w) \in 0..w
    BY <1>1, <2>1, IndexIs
  <2>3. Index(Index(keys[e], w), m) = b
    <3> DEFINE k == keys[e]
    <3>1. k \in Nat /\ m + 1 \in Nat \ {0}
      <4>1. k \in Keys
        BY <2>1
      <4> HIDE DEF k
      <4> QED BY <4>1, HashAssumption
    <3>2. k % (m + 1) = (k % (2 * (m + 1))) % (m + 1)
      <4> HIDE DEF k
      <4> QED BY <3>1, RemainderOfDouble
    <3>3. 2 * (m + 1) = w + 1
      BY DEF w
    <3> QED BY <2>1, <3>2, <3>3 DEF Index
  <2> QED BY <1>4, <1>7, <2>2, <2>3
<1>8. ASSUME NEW e, NEW j \in 0..w, e \in Range(x[j])
      PROVE  \E b \in 0..m : e \in Range(a[b])
  BY <1>2, <1>4, <1>8
<1> QED BY <1>5, <1>6, <1>7, <1>8 DEF x, w

-----------------------------------------------------------------------------
(* The calls.                                                              *)

(* What Touch leaves of the walk. *)
LEMMA Touched ==
  ASSUME walk # None, walk \in Walks, NEW k \in Keys, NEW disturbs \in BOOLEAN,
         Touch(k, disturbs)
  PROVE  /\ walk' # None /\ walk' \in Walks
         /\ walk'.i = walk.i /\ walk'.next = walk.next /\ walk'.inside = walk.inside
         /\ walk'.followed = IF disturbs THEN {} ELSE walk.followed \ {k}
         /\ \A l \in walk'.followed : walk'.met[l] = walk.met[l]
<1> DEFINE left == IF disturbs THEN {} ELSE walk.followed \ {k}
           m == [l \in Keys |-> IF l \in left THEN walk.met[l] ELSE 0]
<1>1. walk' = [walk EXCEPT !.followed = left, !.met = m]
  BY DEF Touch
<1>2. left \in SUBSET Keys /\ m \in [Keys -> 0..2] /\ \A l \in left : m[l] = walk.met[l]
  <2>1. walk.followed \in SUBSET Keys /\ walk.met \in [Keys -> 0..2]
    BY DEF Walks
  <2> QED BY <2>1
<1>3. walk' = [i |-> walk.i, next |-> walk.next, inside |-> walk.inside,
               followed |-> left, met |-> m]
  <2> HIDE DEF left, m
  <2> QED BY <1>1 DEF Walks
<1>4. /\ walk'.i = walk.i /\ walk'.next = walk.next /\ walk'.inside = walk.inside
      /\ walk'.followed = left /\ walk'.met = m
  <2> HIDE DEF left, m
  <2> QED BY <1>3
<1>5. walk' \in Walks
  <2> HIDE DEF left, m
  <2> QED BY <1>2, <1>3 DEF Walks
<1>6. walk' # None
  BY <1>5, NoneAssumption
<1> QED BY <1>2, <1>4, <1>5, <1>6

(* A call keeps what is said of a walk, when it keeps the entries of the   *)
(* keys followed in their order.                                           *)
LEMMA WalkGoesOn ==
  ASSUME Walking, NEW k \in Keys, NEW disturbs \in BOOLEAN, Touch(k, disturbs),
         max \in Nat, max' \in Nat, max <= max', heap \subseteq heap',
         walk # None /\ ~ disturbs =>
           /\ \A e \in InTable :
                key[e] \in walk.followed \ {k} => e \in InTable' /\ key'[e] = key[e]
           /\ walk.next \in Range(array[walk.i]) =>
                walk.next \in Range(array'[walk.i])
           /\ \A b \in 0..max' : \A p \in 1..Len(array'[b]) :
                key'[array'[b][p]] \in walk.followed \ {k} =>
                  /\ b \in 0..max
                  /\ \E q \in 1..Len(array[b]) :
                       /\ key[array[b][q]] = key'[array'[b][p]]
                       /\ Passed(b, q) <=> Passed(b, p)'
  PROVE  Walking'
<1> SUFFICES ASSUME walk # None PROVE Walking'
  BY DEF Walking, Touch
<1>1. /\ walk \in Walks /\ walk.i \in 0..max /\ walk.next \in heap \cup {NULL}
      /\ \A l \in walk.followed : \E e \in InTable : key[e] = l
      /\ walk.followed # {} => walk.next = NULL \/ walk.next \in Range(array[walk.i])
      /\ MetSoFar
  BY DEF Walking
<1>2. /\ walk' # None /\ walk' \in Walks
      /\ walk'.i = walk.i /\ walk'.next = walk.next
      /\ walk'.followed = IF disturbs THEN {} ELSE walk.followed \ {k}
      /\ \A l \in walk'.followed : walk'.met[l] = walk.met[l]
  BY <1>1, Touched
<1>3. walk'.i \in 0..max' /\ walk'.next \in heap' \cup {NULL}
  BY <1>1, <1>2
<1>4. \A l \in walk'.followed : \E e \in InTable' : key'[e] = l
  BY <1>1, <1>2, SMTT(60)
<1>5. walk'.followed # {} => walk'.next = NULL \/ walk'.next \in Range(array'[walk'.i])
  BY <1>1, <1>2
<1>6. MetSoFar'
  <2> SUFFICES ASSUME NEW b \in 0..max', NEW p \in 1..Len(array'[b]),
                      key'[array'[b][p]] \in walk'.followed
               PROVE  walk'.met[key'[array'[b][p]]] = IF Passed(b, p)' THEN 1 ELSE 0
    BY DEF MetSoFar
  <2> DEFINE l == key'[array'[b][p]]
  <2>1. ~ disturbs /\ l \in walk.followed \ {k} /\ walk'.met[l] = walk.met[l]
    BY <1>2
  <2>2. /\ b \in 0..max
        /\ \E q \in 1..Len(array[b]) :
             key[array[b][q]] = l /\ (Passed(b, q) <=> Passed(b, p)')
    BY <2>1
  <2>3. PICK q \in 1..Len(array[b]) :
               key[array[b][q]] = l /\ (Passed(b, q) <=> Passed(b, p)')
    BY <2>2
  <2>4. walk.met[l] = IF Passed(b, q) THEN 1 ELSE 0
    <3>1. key[array[b][q]] \in walk.followed
      BY <2>1, <2>3
    <3>2. walk.met[key[array[b][q]]] = IF Passed(b, q) THEN 1 ELSE 0
      <4>1. MetSoFar
        BY <1>1
      <4> QED BY ONLY <2>2, <2>3, <3>1, <4>1 DEF MetSoFar
    <3> QED BY <2>3, <3>2
  <2> QED BY <2>1, <2>3, <2>4
<1> QED BY <1>2, <1>3, <1>4, <1>5, <1>6 DEF Walking

(* A new value for a key that has one. *)
LEMMA Replaces ==
  ASSUME IInv, NEW k \in Keys, NEW v \in Values, Replace(k, v)
  PROVE  IInv'
<1> DEFINE e == find_entry(k)
<1>1. /\ e # NULL /\ ret' = value[e] /\ value' = [value EXCEPT ![e] = v]
      /\ UNCHANGED <<array, max, count, free, key, heap, destroyed>>
      /\ Touch(k, FALSE) /\ MayCall
  BY DEF Replace
<1>2. e \in InTable /\ e \in Entries /\ key[e] = k
  BY <1>1, LookedUp DEF IInv
<1> HIDE DEF e
<1>3. InTable' = InTable
  BY <1>1 DEF InTable
<1>4. InPlace'
  BY <1>1, <1>3 DEF IInv, InPlace, ChainHolds, NoRepeats
<1>5. Stored'
  <2>1. value \in [Entries -> Values \cup {None}]
    BY DEF IInv, Stored
  <2>2. value' \in [Entries -> Values \cup {None}]
        /\ \A f \in Entries : value'[f] = IF f = e THEN v ELSE value[f]
    BY <1>1, <1>2, <2>1
  <2>3. (\A f \in InTable : value'[f] \in Values)
        /\ (~ destroyed => \A f \in Entries \ InTable : value'[f] = None)
    <3>1. \A f \in InTable : f \in Entries
      BY Chained DEF IInv
    <3> QED BY <1>2, <2>2, <3>1 DEF IInv, Stored
  <2> QED BY <1>1, <1>3, <2>2, <2>3 DEF IInv, Stored, NoRepeats
<1>6. Counted'
  BY <1>1, <1>3 DEF IInv, Counted
<1>7. Rest'
  <2>1. value[e] \in Values
    BY <1>2 DEF IInv, Stored
  <2> QED BY <1>1, <2>1 DEF IInv, Rest, MayCall
<1>8. Walking'
  <2>1. walk # None => \A b, p : Passed(b, p) <=> Passed(b, p)'
    <3> SUFFICES ASSUME walk # None, NEW b, NEW p PROVE Passed(b, p) <=> Passed(b, p)'
      OBVIOUS
    <3>1. walk'.i = walk.i /\ walk'.next = walk.next
      BY <1>1, Touched DEF IInv, Walking
    <3> QED BY <1>1, <3>1 DEF Passed
  <2>2. Walking /\ max \in Nat /\ max <= max
    BY DEF IInv, InPlace
  <2> QED BY <1>1, <1>3, <2>1, <2>2, WalkGoesOn
<1> QED BY <1>4, <1>5, <1>6, <1>7, <1>8 DEF IInv

(* A look at a value leaves the table as it is.                            *)
LEMMA Peeks ==
  ASSUME IInv, NEW k \in Keys, hash_peek(k)
  PROVE  IInv'
<1>1. /\ find_entry(k) # NULL /\ ret' = value[find_entry(k)]
      /\ UNCHANGED <<tableVars, walk, destroyed>>
  BY DEF hash_peek
<1>2. ret' \in Values
  BY <1>1, LookedUp DEF IInv, Stored
<1>3. InTable' = InTable
  BY <1>1 DEF InTable, tableVars
<1>4. InPlace' /\ Counted' /\ Rest'
  BY <1>1, <1>2, <1>3 DEF IInv, InPlace, ChainHolds, NoRepeats, Counted, Rest, tableVars
<1>5. Stored'
  BY <1>1, <1>3 DEF IInv, Stored, NoRepeats, tableVars
<1>6. Walking'
  BY <1>1, <1>3 DEF IInv, Walking, MetSoFar, Passed, tableVars
<1> QED BY <1>4, <1>5, <1>6 DEF IInv

(* An entry put in front of a list.                                        *)
LEMMA PutFirst ==
  ASSUME NEW S, NEW s \in Seq(S), NoRepeats(s), NEW e \in S, e \notin Range(s)
  PROVE  /\ <<e>> \o s \in Seq(S) /\ NoRepeats(<<e>> \o s)
         /\ Range(<<e>> \o s) = Range(s) \cup {e}
<1> DEFINE one == <<e>>
           t == one \o s
<1>1. one \in Seq(S) /\ Len(one) = 1 /\ one[1] = e
  OBVIOUS
<1> HIDE DEF one
<1>2. /\ t \in Seq(S) /\ Len(t) = Len(one) + Len(s)
      /\ \A n \in 1..(Len(one) + Len(s)) :
           t[n] = IF n <= Len(one) THEN one[n] ELSE s[n - Len(one)]
  BY <1>1, ConcatProperties, Zenon
<1>3. Len(s) \in Nat /\ Range(s) = {s[n] : n \in 1..Len(s)}
  BY Ranges
<1> HIDE DEF t
<1>4. Len(t) = Len(s) + 1 /\ Range(t) = {t[n] : n \in 1..(Len(s) + 1)}
  <2>1. Len(t) = Len(s) + 1
    BY <1>1, <1>2, <1>3
  <2> QED BY <1>2, <2>1, Ranges
<1>5. t[1] = e /\ 1 \in 1..(Len(s) + 1)
  BY <1>1, <1>2, <1>3
<1>6. ASSUME NEW n \in 1..(Len(s) + 1), n # 1
      PROVE  n - 1 \in 1..Len(s) /\ t[n] = s[n - 1]
  BY <1>1, <1>2, <1>3, <1>6
<1>7. ASSUME NEW n \in 1..Len(s)
      PROVE  n + 1 \in 1..(Len(s) + 1) /\ t[n + 1] = s[n]
  <2>1. n + 1 \in 1..(Len(s) + 1) /\ n + 1 # 1 /\ (n + 1) - 1 = n
    BY <1>3
  <2> QED BY <1>6, <2>1
<1>8. Range(t) = Range(s) \cup {e}
  <2>1. \A n \in 1..(Len(s) + 1) : t[n] \in Range(s) \cup {e}
    BY <1>3, <1>5, <1>6
  <2>2. \A n \in 1..Len(s) : s[n] \in Range(t)
    BY <1>4, <1>7
  <2>3. e \in Range(t)
    BY <1>4, <1>5
  <2> QED BY <1>3, <1>4, <2>1, <2>2, <2>3
<1>9. NoRepeats(t)
  <2> SUFFICES ASSUME NEW m \in 1..(Len(s) + 1), NEW n \in 1..(Len(s) + 1),
                      t[m] = t[n]
               PROVE  m = n
    BY <1>4 DEF NoRepeats
  <2>1. \A x \in 1..Len(s) : s[x] # e
    BY <1>3
  <2>2. CASE m = 1 \/ n = 1
    BY <1>5, <1>6, <2>1, <2>2
  <2>3. CASE m # 1 /\ n # 1
    <3>1. m - 1 = n - 1
      BY <1>3, <1>6, <2>3 DEF NoRepeats
    <3> QED BY <3>1
  <2> QED BY <2>2, <2>3
<1> QED BY <1>2, <1>8, <1>9 DEF t, one

(* A key is taken out: its entry leaves its chain for the free list.       *)
LEMMA Pops ==
  ASSUME IInv, NEW k \in Keys, hash_pop(k)
  PROVE  IInv' /\ InTable' = InTable \ {find_entry(k)}
<1> DEFINE e == find_entry(k)
           i == Index(k, max)
           c == array[i]
           place == PlaceOf(c, e)
           drops == walk # None /\ walk.next = e
<1>1. CASE e = NULL
  <2>1. ret' = None /\ Touch(k, FALSE) /\ UNCHANGED tableVars /\ UNCHANGED destroyed
        /\ MayCall
    BY <1>1 DEF hash_pop
  <2>2. InTable' = InTable
    BY <2>1 DEF InTable, tableVars
  <2>3. InPlace' /\ Counted' /\ Rest' /\ Stored'
    BY <2>1, <2>2 DEF IInv, InPlace, ChainHolds, NoRepeats, Counted, Rest, Stored,
                      tableVars, MayCall
  <2>4. walk # None => \A b, p : Passed(b, p) <=> Passed(b, p)'
    <3> SUFFICES ASSUME walk # None, NEW b, NEW p PROVE Passed(b, p) <=> Passed(b, p)'
      OBVIOUS
    <3>1. walk'.i = walk.i /\ walk'.next = walk.next
      BY <2>1, Touched DEF IInv, Walking
    <3> QED BY <2>1, <3>1 DEF Passed, tableVars
  <2>5. Walking /\ max \in Nat /\ max <= max
    BY DEF IInv, InPlace
  <2>6. Walking'
    BY <2>1, <2>2, <2>4, <2>5, WalkGoesOn DEF tableVars
  <2>7. NULL \notin InTable
    BY Chained, EntriesFinite DEF IInv, Entries, NULL
  <2> QED BY <1>1, <2>2, <2>3, <2>6, <2>7 DEF IInv
<1>2. CASE e # NULL
  <2>1. /\ array' = [array EXCEPT ![i] = RemoveAt(c, place)]
        /\ free' = <<e>> \o free
        /\ count' = count - 1
        /\ ret' = value[e]
        /\ value' = [value EXCEPT ![e] = None]
        /\ Touch(k, drops)
        /\ UNCHANGED <<max, key, heap, destroyed>>
        /\ MayCall
    BY <1>2 DEF hash_pop
  <2>2. e \in InTable /\ e \in Entries /\ key[e] = k
    BY <1>2, LookedUp DEF IInv
  <2>3. i \in 0..max /\ e \in Range(c) /\ c \in Seq(Entries) /\ NoRepeats(c)
    <3>1. Index(key[e], max) \in 0..max /\ e \in Range(array[Index(key[e], max)])
      BY <2>2, Chained DEF IInv
    <3> QED BY <2>2, <3>1 DEF IInv, InPlace, ChainHolds
  <2>4. place \in 1..Len(c) /\ c[place] = e
    <3>1. PICK p \in 1..Len(c) : c[p] = e
      BY <2>3, Ranges
    <3> QED BY <2>3, <3>1, PlaceIs
  <2> HIDE DEF e, place, i, c
  <2> DEFINE t == RemoveAt(c, place)
  <2>5. /\ t \in Seq(Entries) /\ Len(t) = Len(c) - 1 /\ Len(c) \in Nat
        /\ \A n \in 1..(Len(c) - 1) : t[n] = IF n < place THEN c[n] ELSE c[n + 1]
        /\ Range(t) = Range(c) \ {e}
    BY <2>3, <2>4, Removed, LenProperties
  <2> HIDE DEF t
  <2>6. /\ array' \in [0..max -> Seq(Entries)] /\ array'[i] = t /\ array[i] = c
        /\ \A b \in 0..max : b # i => array'[b] = array[b]
    BY <2>1, <2>3, <2>5 DEF IInv, InPlace, t, c
  <2>7. NoRepeats(t)
    <3> SUFFICES ASSUME NEW m \in 1..Len(t), NEW n \in 1..Len(t), t[m] = t[n]
                 PROVE  m = n
      BY DEF NoRepeats
    <3> DEFINE from(x) == IF x < place THEN x ELSE x + 1
    <3>1. from(m) \in 1..Len(c) /\ from(n) \in 1..Len(c)
      BY <2>4, <2>5
    <3>2. c[from(m)] = c[from(n)]
      BY <2>5
    <3>3. from(m) = from(n)
      <4> HIDE DEF from
      <4> QED BY <2>3, <3>1, <3>2 DEF NoRepeats
    <3> QED BY <2>4, <2>5, <3>3
  <2>8. \A b \in 0..max : Range(array'[b]) = Range(array[b]) \ {e}
    <3> SUFFICES ASSUME NEW b \in 0..max, b # i PROVE e \notin Range(array[b])
      BY <2>5, <2>6
    <3>1. e \in Range(array[b]) => Index(key[e], max) = b
      BY DEF IInv, InPlace, ChainHolds
    <3> QED BY <2>2, <3>1 DEF i
  <2>9. InTable' = InTable \ {e}
    <3>1. \A f : f \in InTable' <=> \E b \in 0..max : f \in Range(array'[b])
      BY <2>1 DEF InTable
    <3> QED BY <2>8, <3>1, InTableIs
  <2>10. InPlace'
    <3>1. max' = max /\ key' = key /\ max \in Nat
      BY <2>1 DEF IInv, InPlace
    <3>2. \A b \in 0..max : ChainHolds(array'[b], b, max, key)
      <4> SUFFICES ASSUME NEW b \in 0..max PROVE ChainHolds(array'[b], b, max, key)
        OBVIOUS
      <4>1. NoRepeats(array'[b])
        BY <2>6, <2>7 DEF IInv, InPlace, ChainHolds
      <4> QED BY <2>8, <4>1 DEF IInv, InPlace, ChainHolds
    <3>3. \A f, g \in InTable' : key[f] = key[g] => f = g
      BY <2>9 DEF IInv, InPlace
    <3> QED BY <2>6, <3>1, <3>2, <3>3 DEF InPlace
  <2>11. e \in heap /\ e \notin Range(free) /\ value[e] \in Values
    BY <2>2 DEF IInv, Stored
  <2>12. free' \in Seq(Entries) /\ NoRepeats(free') /\ Range(free') = Range(free) \cup {e}
    <3>1. free \in Seq(Entries) /\ NoRepeats(free)
      BY DEF IInv, Stored
    <3> QED BY <2>1, <2>2, <2>11, <3>1, PutFirst
  <2>13. Stored'
    <3>1. value' \in [Entries -> Values \cup {None}]
          /\ \A f \in Entries : value'[f] = IF f = e THEN None ELSE value[f]
      BY <2>1, <2>2 DEF IInv, Stored
    <3>2. \A f \in InTable : f \in Entries
      BY Chained DEF IInv
    <3>3. \A f \in InTable' : value'[f] \in Values
      BY <2>9, <3>1, <3>2 DEF IInv, Stored
    <3>4. ~ destroyed => \A f \in Entries \ InTable' : value'[f] = None
      BY <2>9, <3>1 DEF IInv, Stored
    <3>5. InTable' \cap Range(free') = {} /\ InTable' \cup Range(free') = heap
      BY <2>2, <2>9, <2>12 DEF IInv, Stored
    <3> QED BY <2>1, <2>12, <3>1, <3>3, <3>4, <3>5 DEF IInv, Stored
  <2>14. Counted'
    <3>1. IsFiniteSet(InTable)
      <4>1. InTable \in SUBSET Entries
        BY Chained DEF IInv
      <4> QED BY <4>1, EntriesFinite, FS_Subset
    <3>2. Cardinality(InTable \ {e}) = Cardinality(InTable) - 1
          /\ Cardinality(InTable) \in Nat
      BY <2>2, <3>1, FS_RemoveElement, FS_CardinalityType
    <3> QED BY <2>1, <2>9, <3>2 DEF IInv, Counted, InPlace
  <2>15. Rest'
    BY <2>1, <2>11 DEF IInv, Rest, MayCall
  <2>16. Walking'
    <3>1. drops \in BOOLEAN /\ Walking /\ max \in Nat /\ max' = max /\ max <= max
          /\ heap' = heap /\ key' = key
      BY <2>1 DEF IInv, InPlace
    <3>2. ASSUME walk # None, ~ drops
          PROVE  walk'.i = walk.i /\ walk'.next = walk.next /\ walk.next # e
      BY <2>1, <3>1, <3>2, Touched DEF IInv, Walking
    <3>3. ASSUME walk # None, ~ drops
          PROVE  \A f \in InTable : key[f] \in walk.followed \ {k} =>
                   f \in InTable' /\ key'[f] = key[f]
      BY <2>2, <2>9, <3>1
    <3>4. ASSUME walk # None, ~ drops
          PROVE  walk.next \in Range(array[walk.i]) =>
                   walk.next \in Range(array'[walk.i])
      BY <2>8, <3>1, <3>2, <3>4 DEF Walking
    <3>5. ASSUME walk # None, ~ drops, NEW b \in 0..max, NEW p \in 1..Len(array'[b])
          PROVE  \E q \in 1..Len(array[b]) :
                   /\ key[array[b][q]] = key'[array'[b][p]]
                   /\ Passed(b, q) <=> Passed(b, p)'
      <4>1. CASE b # i
        BY <2>6, <3>1, <3>2, <3>5, <4>1 DEF Passed
      <4>2. CASE b = i
        <5> DEFINE from(x) == IF x < place THEN x ELSE x + 1
        <5>1. \A x \in 1..Len(t) : from(x) \in 1..Len(c) /\ t[x] = c[from(x)]
          BY <2>4, <2>5
        <5>2. \A x, y \in 1..Len(t) : x < y <=> from(x) < from(y)
          BY <2>4, <2>5
        <5>3. \A y \in 1..Len(c) : c[y] # e => \E x \in 1..Len(t) : y = from(x)
          <6> SUFFICES ASSUME NEW y \in 1..Len(c), c[y] # e
                       PROVE  \E x \in 1..Len(t) : y = from(x)
            OBVIOUS
          <6>1. y # place
            BY <2>4
          <6>2. CASE y < place
            <7>1. y \in 1..Len(t) /\ y = from(y)
              BY <2>4, <2>5, <6>2
            <7> QED BY <7>1
          <6>3. CASE y > place
            <7>1. y - 1 \in 1..Len(t) /\ y = from(y - 1)
              BY <2>4, <2>5, <6>3
            <7> QED BY <7>1
          <6> QED BY <2>4, <6>1, <6>2, <6>3
        <5> HIDE DEF from
        <5>4. p \in 1..Len(t) /\ from(p) \in 1..Len(c)
          BY <2>6, <4>2, <5>1
        <5>5. (\E n \in 1..Len(c) : c[n] = walk.next /\ from(p) < n)
                <=> (\E n \in 1..Len(t) : t[n] = walk.next /\ p < n)
          BY <3>2, <3>5, <5>1, <5>2, <5>3, <5>4
        <5>6. Passed(b, from(p)) <=> Passed(b, p)'
          BY <2>6, <3>2, <3>5, <4>2, <5>5 DEF Passed
        <5> QED BY <2>6, <3>1, <4>2, <5>1, <5>4, <5>6
      <4> QED BY <4>1, <4>2
    <3> HIDE DEF drops
    <3> QED BY <2>1, <3>1, <3>3, <3>4, <3>5, WalkGoesOn
  <2> QED BY <2>9, <2>10, <2>13, <2>14, <2>15, <2>16 DEF IInv, e
<1> QED BY <1>1, <1>2

(* What is left of the free list when its first entry is taken.            *)
LEMMA Taken ==
  ASSUME NEW S, NEW s \in Seq(S), NoRepeats(s), s # <<>>
  PROVE  /\ Head(s) \in S /\ Head(s) \in Range(s)
         /\ Tail(s) \in Seq(S) /\ NoRepeats(Tail(s))
         /\ Range(Tail(s)) = Range(s) \ {Head(s)}
<1> DEFINE t == Tail(s)
<1>1. /\ Head(s) = s[1] /\ t \in Seq(S) /\ Len(t) = Len(s) - 1
      /\ \A n \in 1..(Len(s) - 1) : t[n] = s[n + 1]
  BY HeadTailProperties
<1> HIDE DEF t
<1>2. Len(s) \in Nat /\ Len(s) # 0
  BY LenProperties, EmptySeq
<1>3. Range(s) = {s[n] : n \in 1..Len(s)} /\ \A n \in 1..Len(s) : s[n] \in S
  BY Ranges
<1>4. \A n \in 1..(Len(s) - 1) : t[n] \in Range(t)
  BY <1>1, Ranges
<1>5. \A x \in Range(t) : \E n \in 1..(Len(s) - 1) : x = t[n]
  BY <1>1, Ranges
<1>6. 1 \in 1..Len(s) /\ \A n \in 1..(Len(s) - 1) : n + 1 \in 1..Len(s) /\ n + 1 # 1
  BY <1>2
<1>7. \A n \in 1..Len(s) : n # 1 => n - 1 \in 1..(Len(s) - 1) /\ (n - 1) + 1 = n
  BY <1>2
<1>8. Range(t) \subseteq Range(s) \ {s[1]}
  <2>1. \A n \in 1..(Len(s) - 1) : t[n] \in Range(s) /\ t[n] # s[1]
    BY <1>1, <1>3, <1>6 DEF NoRepeats
  <2> QED BY <1>5, <2>1
<1>9. Range(s) \ {s[1]} \subseteq Range(t)
  <2>1. \A n \in 1..Len(s) : n # 1 => s[n] \in Range(t)
    BY <1>1, <1>4, <1>7
  <2> QED BY <1>3, <2>1
<1>10. NoRepeats(t)
  <2> SUFFICES ASSUME NEW m \in 1..(Len(s) - 1), NEW n \in 1..(Len(s) - 1),
                      t[m] = t[n]
               PROVE  m = n
    BY <1>1 DEF NoRepeats
  <2>1. m + 1 = n + 1
    BY <1>1, <1>6 DEF NoRepeats
  <2> QED BY <2>1
<1> QED BY <1>1, <1>3, <1>6, <1>8, <1>9, <1>10 DEF t

(* A new key gets an entry, at the end of its chain or after a doubling.   *)
LEMMA Inserts ==
  ASSUME IInv, NEW k \in Keys, NEW v \in Values, Insert(k, v)
  PROVE  /\ IInv'
         /\ \E e \in Entries \ InTable :
              /\ InTable' = InTable \cup {e} /\ ret' = value[e]
              /\ key' = [key EXCEPT ![e] = k] /\ value' = [value EXCEPT ![e] = v]
<1> DEFINE e == IF free # <<>> THEN Head(free) ELSE Fresh
           i == Index(k, max)
           c == array[i]
           linked == [array EXCEPT ![i] = Append(c, e)]
           full == count + 1 > max
<1>1. /\ MayCall /\ find_entry(k) = NULL
      /\ free' = IF free # <<>> THEN Tail(free) ELSE free
      /\ heap' = heap \cup {e}
      /\ key' = [key EXCEPT ![e] = k]
      /\ ret' = value[e]
      /\ value' = [value EXCEPT ![e] = v]
      /\ count' = count + 1
      /\ array' = IF full THEN __expand_array(linked, max, key') ELSE linked
      /\ max' = IF full THEN 2 * max + 1 ELSE max
      /\ Touch(k, full)
      /\ UNCHANGED destroyed
  BY DEF Insert
<1>2. \A f \in InTable : key[f] # k /\ f \in Entries
  BY <1>1, LookedUp, Chained DEF IInv
<1>3. /\ e \in Entries /\ e \notin InTable
      /\ free' \in Seq(Entries) /\ NoRepeats(free')
      /\ InTable \cap Range(free') = {} /\ e \notin Range(free')
      /\ InTable \cup Range(free') \cup {e} = heap'
  <2>1. free \in Seq(Entries) /\ NoRepeats(free) /\ InTable \cap Range(free) = {}
        /\ InTable \cup Range(free) = heap
    BY DEF IInv, Stored
  <2>2. CASE free # <<>>
    <3>1. e = Head(free) /\ free' = Tail(free)
      BY <1>1, <2>2
    <3>2. /\ Head(free) \in Entries /\ Head(free) \in Range(free)
          /\ Tail(free) \in Seq(Entries) /\ NoRepeats(Tail(free))
          /\ Range(Tail(free)) = Range(free) \ {Head(free)}
      BY <2>1, <2>2, Taken
    <3> HIDE DEF e
    <3> QED BY <1>1, <2>1, <3>1, <3>2
  <2>3. CASE free = <<>>
    <3>1. e = Fresh /\ free' = free
      BY <1>1, <2>3
    <3>2. Fresh \in Entries /\ Fresh \notin heap
      BY <1>1, <2>3, FreshIs DEF IInv
    <3> HIDE DEF e
    <3> QED BY <1>1, <2>1, <3>1, <3>2
  <2> QED BY <2>2, <2>3
<1> HIDE DEF e
<1>4. /\ max \in Nat /\ array \in [0..max -> Seq(Entries)]
      /\ key \in [Entries -> Keys \cup {None}]
      /\ value \in [Entries -> Values \cup {None}]
      /\ i \in 0..max
  BY IndexIs DEF IInv, InPlace, Stored
<1>5. /\ key' \in [Entries -> Keys \cup {None}]
      /\ \A f \in Entries : key'[f] = IF f = e THEN k ELSE key[f]
  BY <1>1, <1>3, <1>4
<1> HIDE DEF i
<1>6. /\ c \in Seq(Entries) /\ Append(c, e) \in Seq(Entries)
      /\ Len(Append(c, e)) = Len(c) + 1 /\ Len(c) \in Nat
      /\ \A p \in 1..(Len(c) + 1) :
           Append(c, e)[p] = IF p = Len(c) + 1 THEN e ELSE c[p]
      /\ Range(Append(c, e)) = Range(c) \cup {e}
  <2>1. c \in Seq(Entries)
    BY <1>4
  <2> HIDE DEF c
  <2> QED BY <1>3, <2>1, Appended, LenProperties
<1>7. /\ linked \in [0..max -> Seq(Entries)] /\ linked[i] = Append(c, e)
      /\ \A b \in 0..max : b # i => linked[b] = array[b]
  BY <1>4, <1>6
<1> HIDE DEF linked, c, full
<1>8. \A b \in 0..max : ChainHolds(linked[b], b, max, key')
  <2> SUFFICES ASSUME NEW b \in 0..max PROVE ChainHolds(linked[b], b, max, key')
    OBVIOUS
  <2>1. /\ ChainHolds(array[b], b, max, key)
        /\ \A f \in Range(array[b]) : f \in InTable
    BY InTableIs DEF IInv, InPlace
  <2>2. \A f \in Range(array[b]) : key'[f] = key[f] /\ f # e
    BY <1>2, <1>3, <1>5, <2>1
  <2>3. CASE b # i
    BY <1>7, <2>1, <2>2, <2>3 DEF ChainHolds
  <2>4. CASE b = i
    <3>1. NoRepeats(Append(c, e))
      <4> SUFFICES ASSUME NEW m \in 1..(Len(c) + 1), NEW n \in 1..(Len(c) + 1),
                          Append(c, e)[m] = Append(c, e)[n]
                   PROVE  m = n
        BY <1>6 DEF NoRepeats
      <4>1. \A p \in 1..Len(c) : c[p] # e
        BY <1>6, <2>2, <2>4, Ranges DEF c
      <4>2. NoRepeats(c)
        BY <2>1, <2>4 DEF ChainHolds, c
      <4>3. \A p \in 1..(Len(c) + 1) : p = Len(c) + 1 \/ p \in 1..Len(c)
        BY <1>6
      <4> QED BY <1>6, <4>1, <4>2, <4>3 DEF NoRepeats
    <3>2. \A f \in Range(Append(c, e)) : key'[f] \in Keys /\ Index(key'[f], max) = i
      <4>1. key'[e] = k
        BY <1>3, <1>5
      <4>2. \A f \in Range(c) : key'[f] \in Keys /\ Index(key'[f], max) = i
        BY <2>1, <2>2, <2>4 DEF ChainHolds, c
      <4> QED BY <1>6, <4>1, <4>2 DEF i
    <3> QED BY <1>7, <2>4, <3>1, <3>2 DEF ChainHolds
  <2> QED BY <2>3, <2>4
<1>9. \A f : (\E b \in 0..max : f \in Range(linked[b])) <=> f \in InTable \/ f = e
  <2>1. Range(linked[i]) = Range(array[i]) \cup {e}
    BY <1>6, <1>7 DEF c
  <2>2. \A b \in 0..max : b # i => Range(linked[b]) = Range(array[b])
    BY <1>7
  <2> QED BY <1>4, <2>1, <2>2, InTableIs
<1>10. /\ max' \in Nat /\ max <= max' /\ array' \in [0..max' -> Seq(Entries)]
       /\ \A b \in 0..max' : ChainHolds(array'[b], b, max', key')
       /\ \A f : f \in InTable' <=> f \in InTable \/ f = e
  <2>1. \A f : f \in InTable' <=> \E b \in 0..max' : f \in Range(array'[b])
    BY DEF InTable
  <2>2. CASE full
    <3>1. max' = 2 * max + 1 /\ array' = __expand_array(linked, max, key')
      BY <1>1, <2>2
    <3>2. /\ array' \in [0..max' -> Seq(Entries)]
          /\ \A b \in 0..max' : ChainHolds(array'[b], b, max', key')
          /\ \A f : (\E b \in 0..max' : f \in Range(array'[b]))
                      <=> (\E b \in 0..max : f \in Range(linked[b]))
      BY <1>4, <1>7, <1>8, <3>1, Expanded, ZenonT(60)
    <3>3. max' \in Nat /\ max <= max'
      BY <1>4, <3>1
    <3>4. \A f : f \in InTable' <=> f \in InTable \/ f = e
      BY <1>9, <2>1, <3>2
    <3> QED BY <3>2, <3>3, <3>4
  <2>3. CASE ~ full
    <3>1. max' = max /\ array' = linked
      BY <1>1, <2>3
    <3>2. \A f : f \in InTable' <=> f \in InTable \/ f = e
      BY <1>9, <2>1, <3>1
    <3> QED BY <1>4, <1>7, <1>8, <3>1, <3>2
  <2> QED BY <2>2, <2>3
<1>11. InTable' = InTable \cup {e}
  BY <1>10
<1>12. InPlace'
  <2>1. \A f, g \in InTable' : key'[f] = key'[g] => f = g
    BY <1>2, <1>3, <1>5, <1>11 DEF IInv, InPlace
  <2> QED BY <1>10, <2>1 DEF InPlace
<1>13. Stored'
  <2>1. value' \in [Entries -> Values \cup {None}]
        /\ \A f \in Entries : value'[f] = IF f = e THEN v ELSE value[f]
    BY <1>1, <1>3, <1>4
  <2>2. heap' \subseteq Entries /\ \A f \in heap' : key'[f] \in Keys
    BY <1>1, <1>3, <1>5 DEF IInv, Stored
  <2>3. InTable' \cap Range(free') = {} /\ InTable' \cup Range(free') = heap'
    BY <1>3, <1>11
  <2>4. \A f \in InTable' : value'[f] \in Values
    BY <1>2, <1>3, <1>11, <2>1 DEF IInv, Stored
  <2>5. ~ destroyed' => \A f \in Entries \ InTable' : value'[f] = None
    BY <1>1, <1>11, <2>1 DEF IInv, Stored
  <2> QED BY <1>3, <1>5, <2>1, <2>2, <2>3, <2>4, <2>5 DEF Stored
<1>14. Counted'
  <2>1. IsFiniteSet(InTable)
    <3>1. InTable \in SUBSET Entries
      BY <1>2
    <3> QED BY <3>1, EntriesFinite, FS_Subset
  <2>2. /\ Cardinality(InTable \cup {e}) = Cardinality(InTable) + 1
        /\ Cardinality(InTable) \in Nat
    BY <1>3, <2>1, FS_AddElement, FS_CardinalityType
  <2>3. count = Cardinality(InTable) /\ count <= max
    BY DEF IInv, Counted
  <2>4. count' <= max'
    BY <1>1, <1>4, <2>2, <2>3 DEF full
  <2> QED BY <1>1, <1>11, <2>2, <2>3, <2>4 DEF Counted
<1>15. Rest'
  <2>1. ret' \in Values \cup {None}
    BY <1>1, <1>3, <1>4
  <2> QED BY <1>1, <2>1 DEF IInv, Rest, MayCall
<1>16. Walking'
  <2>1. full \in BOOLEAN /\ Walking /\ heap \subseteq heap'
    BY <1>1 DEF IInv, full
  <2>2. \A f \in InTable : f \in InTable' /\ key'[f] = key[f]
    BY <1>2, <1>3, <1>5, <1>11
  <2>3. ASSUME walk # None, ~ full, NEW b \in 0..max, NEW x \in Range(array[b])
        PROVE  x \in Range(array'[b])
    <3>1. array'[b] = linked[b]
      BY <1>1, <2>3
    <3>2. CASE b # i
      BY <1>7, <2>3, <3>1, <3>2
    <3>3. CASE b = i
      BY <1>6, <1>7, <2>3, <3>1, <3>3 DEF c
    <3> QED BY <3>2, <3>3
  <2>4. ASSUME walk # None, ~ full
        PROVE  walk'.i = walk.i /\ walk'.next = walk.next
    BY <1>1, <2>1, <2>4, Touched DEF Walking
  <2>5. ASSUME walk # None, ~ full, NEW b \in 0..max', NEW p \in 1..Len(array'[b]),
               key'[array'[b][p]] \in walk.followed \ {k}
        PROVE  /\ b \in 0..max
               /\ \E q \in 1..Len(array[b]) :
                    /\ key[array[b][q]] = key'[array'[b][p]]
                    /\ Passed(b, q) <=> Passed(b, p)'
    <3>1. array' = linked /\ max' = max
      BY <1>1, <2>5
    <3>2. CASE b # i
      <4>1. array'[b] = array[b] /\ array[b] \in Seq(Entries) /\ b \in 0..max
        BY <1>4, <1>7, <2>5, <3>1, <3>2
      <4>2. array[b][p] \in InTable
        BY <4>1, Ranges, InTableIs
      <4>3. Passed(b, p) <=> Passed(b, p)'
        BY <2>4, <2>5, <4>1 DEF Passed
      <4> QED BY <2>2, <4>1, <4>2, <4>3
    <3>3. CASE b = i
      <4>1. array'[i] = Append(c, e) /\ array[i] = c
        BY <1>7, <3>1 DEF c
      <4>2. key'[e] = k
        BY <1>3, <1>5
      <4>3. p \in 1..Len(c) /\ array'[b][p] = c[p]
        BY <1>6, <2>5, <3>3, <4>1, <4>2
      <4>4. c[p] \in InTable
        BY <1>4, <1>6, <4>1, <4>3, Ranges, InTableIs
      <4>5. walk.next = NULL \/ walk.next \in InTable
        BY <2>5, InTableIs DEF IInv, Walking
      <4>6. e # NULL /\ e # walk.next
        BY <1>3, <4>5 DEF Entries, NULL
      <4>7. (\E n \in 1..Len(c) : c[n] = walk.next /\ p < n)
              <=> (\E n \in 1..(Len(c) + 1) : Append(c, e)[n] = walk.next /\ p < n)
        <5>1. \A n \in 1..(Len(c) + 1) : n = Len(c) + 1 \/ n \in 1..Len(c)
          BY <1>6
        <5>2. \A n \in 1..Len(c) : n \in 1..(Len(c) + 1) /\ n # Len(c) + 1
          BY <1>6
        <5> QED BY <1>6, <4>6, <5>1, <5>2
      <4>8. Passed(b, p) <=> Passed(b, p)'
        BY <1>6, <2>4, <2>5, <3>3, <4>1, <4>7 DEF Passed
      <4> QED BY <1>4, <2>2, <3>3, <4>1, <4>3, <4>4, <4>8
    <3> QED BY <3>2, <3>3
  <2>6. walk # None => walk.i \in 0..max
    BY <2>1 DEF Walking
  <2>7. walk # None /\ ~ full =>
          /\ \A f \in InTable :
               key[f] \in walk.followed \ {k} => f \in InTable' /\ key'[f] = key[f]
          /\ walk.next \in Range(array[walk.i]) =>
               walk.next \in Range(array'[walk.i])
          /\ \A b \in 0..max' : \A p \in 1..Len(array'[b]) :
               key'[array'[b][p]] \in walk.followed \ {k} =>
                 /\ b \in 0..max
                 /\ \E q \in 1..Len(array[b]) :
                      /\ key[array[b][q]] = key'[array'[b][p]]
                      /\ Passed(b, q) <=> Passed(b, p)'
    <3>1. walk # None /\ ~ full =>
            (walk.next \in Range(array[walk.i]) =>
               walk.next \in Range(array'[walk.i]))
      BY <2>3, <2>6
    <3> QED BY <2>2, <2>5, <3>1
  <2>8. Touch(k, full) /\ max \in Nat /\ max' \in Nat /\ max <= max'
    BY <1>1, <1>4, <1>10
  <2> QED BY <2>1, <2>7, <2>8, WalkGoesOn
<1>17. IInv'
  BY <1>12, <1>13, <1>14, <1>15, <1>16 DEF IInv
<1> QED BY <1>1, <1>3, <1>11, <1>17

-----------------------------------------------------------------------------
(* The walk.                                                               *)

(* The head of a list, if it has one.                                      *)
LEMMA HeadIs ==
  ASSUME NEW S, NEW s \in Seq(S)
  PROVE  \/ HeadOf(s) = NULL /\ Len(s) = 0
         \/ HeadOf(s) = s[1] /\ 1 \in 1..Len(s) /\ s[1] \in Range(s)
<1>1. CASE s = <<>>
  BY <1>1 DEF HeadOf
<1>2. CASE s # <<>>
  <2>1. Len(s) \in Nat /\ Len(s) # 0 /\ Head(s) = s[1]
    BY <1>2, LenProperties, EmptySeq, HeadTailProperties
  <2>2. 1 \in 1..Len(s)
    BY <2>1
  <2> QED BY <1>2, <2>1, <2>2, Ranges DEF HeadOf
<1> QED BY <1>1, <1>2

(* The steps of a walk leave the table alone.                              *)
LEMMA OnlyWalks ==
  ASSUME IInv, UNCHANGED <<tableVars, destroyed>>, ret' \in Values \cup {None},
         ~ destroyed \/ walk' = None, Walking'
  PROVE  IInv'
<1>1. InTable' = InTable
  BY DEF InTable, tableVars
<1>2. InPlace' /\ Counted'
  BY <1>1 DEF IInv, InPlace, ChainHolds, NoRepeats, Counted, tableVars
<1>3. Stored'
  BY <1>1 DEF IInv, Stored, NoRepeats, tableVars
<1>4. Rest'
  BY DEF IInv, Rest, tableVars
<1> QED BY <1>2, <1>3, <1>4 DEF IInv

(* A walk begins at the first entry of the first bucket, none met yet.     *)
LEMMA Begins ==
  ASSUME IInv, WalkBegins
  PROVE  IInv'
<1> DEFINE followed == {key[e] : e \in InTable}
           met == [k \in Keys |-> 0]
           next == HeadOf(array[0])
<1>1. /\ ~ destroyed /\ ret' = None /\ UNCHANGED <<tableVars, destroyed>>
      /\ walk' = [i |-> 0, next |-> next, inside |-> FALSE, followed |-> followed,
                  met |-> met]
  BY DEF WalkBegins
<1>2. 0 \in 0..max /\ array[0] \in Seq(Entries) /\ NoRepeats(array[0])
  BY DEF IInv, InPlace, ChainHolds
<1>3. \/ next = NULL /\ Len(array[0]) = 0
      \/ next = array[0][1] /\ 1 \in 1..Len(array[0]) /\ next \in Range(array[0])
  BY <1>2, HeadIs
<1>4. \A e \in InTable : e \in Entries /\ e \in heap /\ key[e] \in Keys
  BY Chained DEF IInv, Stored
<1>5. next \in heap \cup {NULL} /\ next \in Entries \cup {NULL}
  BY <1>2, <1>3, <1>4, InTableIs
<1>6. followed \in SUBSET Keys /\ \A l \in followed : \E e \in InTable : key[e] = l
  BY <1>4
<1>7. met \in [Keys -> 0..2] /\ \A l \in Keys : met[l] = 0
  OBVIOUS
<1> HIDE DEF next, followed, met
<1>8. /\ walk' \in Walks /\ walk'.i = 0 /\ walk'.next = next
      /\ walk'.followed = followed /\ walk'.met = met
  BY <1>1, <1>5, <1>6, <1>7 DEF Walks
<1>9. MetSoFar'
  <2> SUFFICES ASSUME NEW b \in 0..max, NEW p \in 1..Len(array[b]),
                      key[array[b][p]] \in walk'.followed
               PROVE  walk'.met[key[array[b][p]]] = IF Passed(b, p)' THEN 1 ELSE 0
    BY <1>1 DEF MetSoFar, tableVars
  <2>1. walk'.met[key[array[b][p]]] = 0
    BY <1>6, <1>7, <1>8
  <2>2. ~ Passed(b, p)'
    <3> SUFFICES ASSUME b = 0,
                        \/ next = NULL
                        \/ \E n \in 1..Len(array[0]) : array[0][n] = next /\ p < n
                 PROVE  FALSE
      <4>1. ~ (b < 0)
        OBVIOUS
      <4>2. array' = array
        BY <1>1 DEF tableVars
      <4> QED BY <1>8, <4>1, <4>2 DEF Passed
    <3>1. next # NULL
      <4>1. Len(array[0]) # 0
        OBVIOUS
      <4>2. next \in Entries
        BY <1>2, <1>3, <4>1, Ranges
      <4> QED BY <4>2 DEF Entries, NULL
    <3>2. PICK n \in 1..Len(array[0]) : array[0][n] = next /\ p < n
      BY <3>1
    <3>3. n = 1
      BY <1>2, <1>3, <3>1, <3>2 DEF NoRepeats
    <3> QED BY <3>2, <3>3
  <2> QED BY <2>1, <2>2
<1>10. Walking'
  <2>1. InTable' = InTable /\ heap' = heap /\ key' = key /\ max' = max /\ array' = array
    BY <1>1 DEF InTable, tableVars
  <2>2. next = NULL \/ next \in Range(array[0])
    BY <1>3
  <2> QED BY <1>2, <1>5, <1>6, <1>8, <1>9, <2>1, <2>2 DEF Walking
<1> QED BY <1>1, <1>10, OnlyWalks

(* In the chain of the entry met next, the places ahead of it are passed.  *)
LEMMA Ahead ==
  ASSUME NEW s \in Seq(Entries), NoRepeats(s), NEW n \in 1..Len(s), NEW p \in 1..Len(s)
  PROVE  /\ s[n] # NULL
         /\ (\E m \in 1..Len(s) : s[m] = s[n] /\ p < m) <=> p < n
<1>1. s[n] \in Entries
  BY Ranges
<1>2. s[n] # NULL
  BY <1>1, EntriesFinite DEF Entries, NULL
<1>3. \A m \in 1..Len(s) : s[m] = s[n] => m = n
  BY DEF NoRepeats
<1> QED BY <1>2, <1>3

(* The callback returns, and goes on with the walk or ends it.             *)
LEMMA Returns ==
  ASSUME IInv, CallbackReturns
  PROVE  IInv'
<1>1. /\ walk # None /\ walk.inside /\ UNCHANGED <<tableVars, ret, destroyed>>
      /\ walk' = [walk EXCEPT !.inside = FALSE] \/ walk' = None
  BY DEF CallbackReturns
<1>2. InTable' = InTable /\ heap' = heap /\ key' = key /\ max' = max /\ array' = array
  BY <1>1 DEF InTable, tableVars
<1>3. ~ destroyed /\ ret' \in Values \cup {None} /\ walk \in Walks
  BY <1>1 DEF IInv, Rest, Walking
<1>4. CASE walk' = None
  BY <1>1, <1>3, <1>4, OnlyWalks DEF Walking
<1>5. CASE walk' = [walk EXCEPT !.inside = FALSE]
  <2>1. /\ walk' \in Walks /\ walk'.i = walk.i /\ walk'.next = walk.next
        /\ walk'.followed = walk.followed /\ walk'.met = walk.met
    BY <1>3, <1>5 DEF Walks
  <2>2. \A b, p : Passed(b, p)' <=> Passed(b, p)
    BY <1>2, <2>1 DEF Passed
  <2>3. MetSoFar'
    BY <1>1, <1>2, <2>1, <2>2 DEF IInv, Walking, MetSoFar
  <2>4. Walking'
    BY <1>1, <1>2, <2>1, <2>3 DEF IInv, Walking
  <2> QED BY <1>1, <1>3, <2>4, OnlyWalks
<1> QED BY <1>1, <1>4, <1>5

(* The next bucket: all of the one before it is passed.                    *)
LEMMA NextBuckets ==
  ASSUME IInv, NextBucket
  PROVE  IInv'
<1> DEFINE i == walk.i
           next == HeadOf(array[walk.i + 1])
<1>1. /\ walk # None /\ walk.next = NULL /\ i < max
      /\ UNCHANGED <<tableVars, ret, destroyed>>
      /\ walk' = [walk EXCEPT !.i = i + 1, !.next = next]
  BY DEF NextBucket
<1>2. InTable' = InTable /\ heap' = heap /\ key' = key /\ max' = max /\ array' = array
  BY <1>1 DEF InTable, tableVars
<1>3. ~ destroyed /\ ret' \in Values \cup {None} /\ walk \in Walks /\ i \in 0..max
      /\ max \in Nat
  BY <1>1 DEF IInv, Rest, Walking, InPlace
<1>4. i + 1 \in 0..max /\ array[i + 1] \in Seq(Entries) /\ NoRepeats(array[i + 1])
  <2>1. i + 1 \in 0..max
    BY <1>1, <1>3
  <2> QED BY <2>1 DEF IInv, InPlace, ChainHolds
<1>5. \/ next = NULL /\ Len(array[i + 1]) = 0
      \/ /\ next = array[i + 1][1] /\ 1 \in 1..Len(array[i + 1])
         /\ next \in Range(array[i + 1])
  BY <1>4, HeadIs
<1>6. next \in heap \cup {NULL} /\ next \in Entries \cup {NULL}
  <2>1. \A e \in InTable : e \in Entries /\ e \in heap
    BY Chained DEF IInv, Stored
  <2> QED BY <1>4, <1>5, <2>1, InTableIs
<1> HIDE DEF next
<1>7. /\ walk' \in Walks /\ walk'.i = i + 1 /\ walk'.next = next
      /\ walk'.followed = walk.followed /\ walk'.met = walk.met
  <2> DEFINE j == i + 1
  <2>1. j \in Nat /\ walk' = [walk EXCEPT !.i = j, !.next = next]
    BY <1>1, <1>3
  <2> HIDE DEF j
  <2>2. /\ walk' \in Walks /\ walk'.i = j /\ walk'.next = next
        /\ walk'.followed = walk.followed /\ walk'.met = walk.met
    BY <1>3, <1>6, <2>1 DEF Walks
  <2> QED BY <2>2 DEF j
<1>8. ASSUME NEW b \in 0..max, NEW p \in 1..Len(array[b])
      PROVE  Passed(b, p)' <=> Passed(b, p)
  <2>1. Passed(b, p) <=> b < i \/ b = i
    BY <1>1 DEF Passed
  <2>2. CASE b # i + 1
    <3>1. b < i + 1 <=> b < i \/ b = i
      BY <1>3
    <3> QED BY <1>2, <1>7, <2>1, <2>2, <3>1 DEF Passed
  <2>3. CASE b = i + 1
    <3>1. ~ (b < i) /\ b # i /\ b \in Nat
      BY <1>3, <2>3
    <3>2. Len(array[b]) # 0
      OBVIOUS
    <3>3. next = array[b][1] /\ 1 \in 1..Len(array[b])
      BY <1>5, <2>3, <3>2
    <3>4. array[b] \in Seq(Entries) /\ NoRepeats(array[b])
      BY <1>4, <2>3
    <3>5. /\ next # NULL
          /\ (\E m \in 1..Len(array[b]) : array[b][m] = next /\ p < m) <=> p < 1
      BY <3>3, <3>4, Ahead
    <3>6. ~ (b < i + 1) /\ ~ (p < 1)
      BY <1>3, <2>3
    <3>7. ~ Passed(b, p)'
      BY <1>2, <1>7, <2>3, <3>5, <3>6 DEF Passed
    <3> QED BY <2>1, <3>1, <3>7
  <2> QED BY <2>2, <2>3
<1>9. MetSoFar'
  BY <1>1, <1>2, <1>7, <1>8 DEF IInv, Walking, MetSoFar
<1>10. Walking'
  BY <1>1, <1>2, <1>4, <1>5, <1>6, <1>7, <1>9 DEF IInv, Walking
<1> QED BY <1>1, <1>3, <1>10, OnlyWalks

(* The entry behind one of the table, which is in the same chain.          *)
LEMMA NextInChain ==
  ASSUME InPlace, InTable \cap Range(free) = {}, NEW b \in 0..max,
         NEW n \in 1..Len(array[b])
  PROVE  NextOf(array[b][n]) = IF n < Len(array[b]) THEN array[b][n + 1] ELSE NULL
<1> DEFINE e == array[b][n]
<1>1. array[b] \in Seq(Entries) /\ NoRepeats(array[b])
  BY DEF InPlace, ChainHolds
<1>2. e \in Range(array[b]) /\ e \in InTable
  BY <1>1, Ranges, InTableIs
<1> HIDE DEF e
<1>3. \A i \in 0..max : e \in Range(array[i]) => i = b
  BY <1>2 DEF InPlace, ChainHolds
<1>4. (CHOOSE i \in 0..max : e \in Range(array[i])) = b
  BY <1>2, <1>3
<1>5. NextOf(e) = Behind(array[b], e)
  BY <1>2, <1>4 DEF NextOf
<1>6. Behind(array[b], array[b][n]) = IF n < Len(array[b]) THEN array[b][n + 1] ELSE NULL
  BY <1>1, BehindIs
<1> QED BY <1>5, <1>6 DEF e

(* The entry behind is one that is allocated. *)
LEMMA NextAllocated ==
  ASSUME InPlace, Stored, NEW e \in heap
  PROVE  NextOf(e) \in heap \cup {NULL}
<1>1. InTable \cap Range(free) = {} /\ InTable \cup Range(free) = heap
      /\ free \in Seq(Entries) /\ NoRepeats(free)
  BY DEF Stored
<1>2. CASE e \in Range(free)
  <2>1. PICK n \in 1..Len(free) : free[n] = e
    BY <1>1, <1>2, Ranges
  <2>2. NextOf(e) = Behind(free, e)
    BY <1>2 DEF NextOf
  <2>3. Behind(free, e) = IF n < Len(free) THEN free[n + 1] ELSE NULL
    BY <1>1, <2>1, BehindIs
  <2>4. n < Len(free) => free[n + 1] \in Range(free)
    <3>1. Len(free) \in Nat /\ \A m \in 1..Len(free) : free[m] \in Range(free)
      BY <1>1, Ranges
    <3>2. n < Len(free) => n + 1 \in 1..Len(free)
      BY <3>1
    <3> QED BY <3>1, <3>2
  <2> QED BY <1>1, <2>2, <2>3, <2>4
<1>3. CASE e \in InTable
  <2>1. PICK b \in 0..max : e \in Range(array[b])
    BY <1>3, InTableIs
  <2>2. array[b] \in Seq(Entries)
    BY DEF InPlace
  <2>3. PICK n \in 1..Len(array[b]) : array[b][n] = e
    BY <2>1, <2>2, Ranges
  <2>4. NextOf(e) = IF n < Len(array[b]) THEN array[b][n + 1] ELSE NULL
    BY <1>1, <2>3, NextInChain
  <2>5. n < Len(array[b]) => array[b][n + 1] \in Range(array[b])
    <3>1. /\ Len(array[b]) \in Nat
          /\ \A m \in 1..Len(array[b]) : array[b][m] \in Range(array[b])
      BY <2>2, Ranges
    <3>2. n < Len(array[b]) => n + 1 \in 1..Len(array[b])
      BY <3>1
    <3> QED BY <3>1, <3>2
  <2> QED BY <1>1, <2>4, <2>5, InTableIs
<1> QED BY <1>1, <1>2, <1>3

(* The callback meets an entry, the place of which is passed from then on. *)
LEMMA Meets ==
  ASSUME IInv, WalkMeets
  PROVE  IInv'
<1> DEFINE e == walk.next
           next == NextOf(walk.next)
           m == [walk.met EXCEPT ![key[e]] =
                   IF key[e] \in walk.followed /\ @ < 2 THEN @ + 1 ELSE @]
<1>1. /\ walk # None /\ ~ walk.inside /\ e # NULL
      /\ UNCHANGED <<tableVars, ret, destroyed>>
      /\ walk' = [walk EXCEPT !.inside = TRUE, !.next = next,
                              !.met[key[e]] = IF key[e] \in walk.followed /\ @ < 2
                                              THEN @ + 1 ELSE @]
  BY DEF WalkMeets
<1>2. InTable' = InTable /\ heap' = heap /\ key' = key /\ max' = max /\ array' = array
  BY <1>1 DEF InTable, tableVars
<1>3. /\ ~ destroyed /\ ret' \in Values \cup {None} /\ walk \in Walks
      /\ walk.i \in 0..max /\ max \in Nat /\ e \in heap /\ key[e] \in Keys
      /\ heap \subseteq Entries
  BY <1>1 DEF IInv, Rest, Walking, InPlace, Stored
<1>4. next \in heap \cup {NULL}
  BY <1>3, NextAllocated DEF IInv
<1>5. m \in [Keys -> 0..2]
      /\ m[key[e]] = (IF key[e] \in walk.followed /\ walk.met[key[e]] < 2
                      THEN walk.met[key[e]] + 1 ELSE walk.met[key[e]])
      /\ \A k \in Keys : k # key[e] => m[k] = walk.met[k]
  <2>1. walk.met \in [Keys -> 0..2] /\ \A x \in 0..2 : x < 2 => x + 1 \in 0..2
    BY <1>3 DEF Walks
  <2> QED BY <1>3, <2>1
<1>6. walk' = [i |-> walk.i, next |-> next, inside |-> TRUE,
               followed |-> walk.followed, met |-> m]
  BY <1>1, <1>3 DEF Walks
<1> HIDE DEF next, m
<1>7. /\ walk' \in Walks /\ walk'.i = walk.i /\ walk'.next = next
      /\ walk'.followed = walk.followed /\ walk'.met = m
  <2>1. walk.i \in Nat /\ walk.followed \in SUBSET Keys /\ next \in Entries \cup {NULL}
    BY <1>3, <1>4 DEF Walks
  <2> QED BY <1>5, <1>6, <2>1 DEF Walks
<1>8. CASE walk.followed = {}
  <2>1. Walking'
    BY <1>1, <1>2, <1>3, <1>4, <1>7, <1>8 DEF IInv, Walking, MetSoFar
  <2> QED BY <1>1, <1>3, <2>1, OnlyWalks
<1>9. CASE walk.followed # {}
  <2> DEFINE c == array[walk.i]
  <2>1. c \in Seq(Entries) /\ NoRepeats(c) /\ e \in Range(c) /\ Len(c) \in Nat
    <3>1. c \in Seq(Entries) /\ NoRepeats(c) /\ e \in Range(c)
      BY <1>1, <1>3, <1>9 DEF IInv, Walking, InPlace, ChainHolds
    <3> QED BY <3>1, LenProperties
  <2>2. PICK n \in 1..Len(c) : c[n] = e
    BY <2>1, Ranges
  <2>3. next = IF n < Len(c) THEN c[n + 1] ELSE NULL
    BY <1>3, <2>2, NextInChain DEF IInv, Stored, next
  <2>4. n < Len(c) => n + 1 \in 1..Len(c)
    BY <2>1
  <2>5. next = NULL \/ next \in Range(c)
    BY <2>1, <2>3, <2>4, Ranges
  <2>6. ASSUME NEW b \in 0..max, NEW p \in 1..Len(array[b])
        PROVE  key[array[b][p]] = key[e] <=> b = walk.i /\ p = n
    <3>1. array[b] \in Seq(Entries)
      BY DEF IInv, InPlace
    <3>2. array[b][p] \in Range(array[b]) /\ array[b][p] \in InTable /\ e \in InTable
      BY <1>3, <2>1, <3>1, Ranges, InTableIs, SMTT(30)
    <3>3. ASSUME key[array[b][p]] = key[e] PROVE b = walk.i /\ p = n
      <4>1. array[b][p] = e
        BY <3>2, <3>3 DEF IInv, InPlace
      <4>2. b = walk.i
        BY <1>3, <2>1, <3>2, <4>1 DEF IInv, InPlace, ChainHolds
      <4> QED BY <2>1, <2>2, <4>1, <4>2 DEF NoRepeats
    <3> QED BY <2>2, <3>3
  <2>7. ASSUME NEW b \in 0..max, b = walk.i, NEW p \in 1..Len(c)
        PROVE  /\ Passed(b, p) <=> p < n
               /\ Passed(b, p)' <=> p < n + 1
    <3>1. ~ (b < b) /\ b = walk.i /\ array[b] = c
      BY <2>7
    <3>2. Passed(b, p) <=> p < n
      <4>1. (\E x \in 1..Len(c) : c[x] = c[n] /\ p < x) <=> p < n
        BY <2>1, Ahead
      <4> QED BY <1>1, <2>2, <3>1, <4>1 DEF Passed
    <3>3. CASE n < Len(c)
      <4>1. /\ c[n + 1] # NULL
            /\ (\E x \in 1..Len(c) : c[x] = c[n + 1] /\ p < x) <=> p < n + 1
        BY <2>1, <2>4, <3>3, Ahead
      <4>2. Passed(b, p)' <=> p < n + 1
        BY <1>2, <1>7, <2>3, <3>1, <3>3, <4>1 DEF Passed
      <4> QED BY <3>2, <4>2
    <3>4. CASE ~ (n < Len(c))
      <4>1. p < n + 1
        BY <2>1, <3>4
      <4>2. Passed(b, p)'
        BY <1>2, <1>7, <2>3, <3>1, <3>4 DEF Passed
      <4> QED BY <3>2, <4>1, <4>2
    <3> QED BY <3>3, <3>4
  <2>8. ASSUME NEW b \in 0..max, b # walk.i, NEW p
        PROVE  Passed(b, p)' <=> Passed(b, p)
    BY <1>7, <2>8 DEF Passed
  <2>9. ASSUME NEW b \in 0..max, NEW p \in 1..Len(array[b]),
               key[array[b][p]] \in walk.followed
        PROVE  m[key[array[b][p]]] = IF Passed(b, p)' THEN 1 ELSE 0
    <3> DEFINE k == key[array[b][p]]
    <3>1. k \in Keys /\ walk.met[k] = IF Passed(b, p) THEN 1 ELSE 0
      BY <1>1, <1>3, <2>9 DEF IInv, Walking, MetSoFar, Walks
    <3>2. CASE b = walk.i /\ p = n
      <4>1. k = key[e] /\ ~ Passed(b, p) /\ Passed(b, p)'
        BY <2>1, <2>2, <2>7, <3>2
      <4>2. walk.met[key[e]] = 0 /\ key[e] \in walk.followed
        BY <2>9, <3>1, <4>1
      <4> QED BY <1>5, <4>1, <4>2
    <3>3. CASE ~ (b = walk.i /\ p = n)
      <4>1. m[k] = walk.met[k]
        BY <1>5, <2>6, <3>1, <3>3
      <4>2. Passed(b, p)' <=> Passed(b, p)
        <5>1. CASE b # walk.i
          BY <2>8, <5>1
        <5>2. CASE b = walk.i
          <6>1. p # n /\ p \in 1..Len(c)
            BY <3>3, <5>2
          <6>2. p < n <=> p < n + 1
            BY <6>1
          <6> QED BY <2>7, <5>2, <6>1, <6>2
        <5> QED BY <5>1, <5>2
      <4> QED BY <3>1, <4>1, <4>2
    <3> QED BY <3>2, <3>3
  <2>10. MetSoFar'
    BY <1>2, <1>7, <2>9 DEF MetSoFar
  <2>11. Walking'
    BY <1>1, <1>2, <1>3, <1>4, <1>7, <2>5, <2>10 DEF IInv, Walking
  <2> QED BY <1>1, <1>3, <2>11, OnlyWalks
<1> QED BY <1>8, <1>9

-----------------------------------------------------------------------------
(* The theorems.                                                           *)

(* hash_destroy gives every entry back.                                    *)
LEMMA Destroys ==
  ASSUME IInv, hash_destroy
  PROVE  IInv'
<1>1. /\ destroyed' = TRUE /\ walk = None /\ walk' = None
      /\ heap' = (heap \ InTable) \ Range(free)
      /\ array' = [i \in 0..max |-> <<>>] /\ free' = <<>> /\ count' = 0
      /\ max' = max /\ key' = key /\ value' = value /\ ret' = ret
  BY DEF hash_destroy
<1>2. max \in Nat /\ InTable \cup Range(free) = heap
  BY DEF IInv, InPlace, Stored
<1>3. Range(<<>>) = {} /\ NoRepeats(<<>>) /\ <<>> \in Seq(Entries) /\ Len(<<>>) = 0
  BY DEF Range, NoRepeats
<1>4. InTable' = {}
  BY <1>1, <1>3 DEF InTable
<1>5. InPlace'
  BY <1>1, <1>2, <1>3, <1>4 DEF InPlace, ChainHolds
<1>6. heap' = {}
  BY <1>1, <1>2
<1>7. Stored'
  BY <1>1, <1>3, <1>4, <1>6 DEF IInv, Stored
<1>8. Counted' /\ Rest' /\ Walking'
  BY <1>1, <1>2, <1>4, FS_EmptySet DEF IInv, Counted, Rest, Walking
<1> QED BY <1>5, <1>7, <1>8 DEF IInv

(* hash_create makes an empty table.                                       *)
LEMMA Starts ==
  ASSUME Init
  PROVE  IInv
<1>1. /\ max \in Nat /\ array = [i \in 0..max |-> <<>>] /\ count = 0 /\ free = <<>>
      /\ key = [e \in Entries |-> None] /\ value = [e \in Entries |-> None]
      /\ heap = {} /\ walk = None /\ ret = None /\ destroyed = FALSE
  BY SizeAssumption DEF Init
<1>2. Range(<<>>) = {} /\ NoRepeats(<<>>) /\ <<>> \in Seq(Entries) /\ Len(<<>>) = 0
  BY DEF Range, NoRepeats
<1>3. InTable = {}
  BY <1>1, <1>2 DEF InTable
<1>4. InPlace
  BY <1>1, <1>2, <1>3 DEF InPlace, ChainHolds
<1>5. Stored
  BY <1>1, <1>2, <1>3 DEF Stored
<1>6. Counted /\ Rest /\ Walking
  BY <1>1, <1>3, FS_EmptySet DEF Counted, Rest, Walking
<1> QED BY <1>4, <1>5, <1>6 DEF IInv

(* Every step keeps the invariant.                                         *)
LEMMA Steps ==
  ASSUME IInv, [Next]_vars
  PROVE  IInv'
<1>1. ASSUME NEW k \in Keys, hash_pop(k) PROVE IInv'
  BY <1>1, Pops
<1>2. ASSUME NEW k \in Keys, hash_peek(k) PROVE IInv'
  BY <1>2, Peeks
<1>3. ASSUME NEW k \in Keys, NEW v \in Values, hash_push(k, v) PROVE IInv'
  BY <1>3, Replaces, Inserts DEF hash_push
<1>4. CASE WalkEnds
  <2>1. walk # None /\ walk' = None /\ UNCHANGED <<tableVars, ret, destroyed>>
    BY <1>4 DEF WalkEnds, AtEnd
  <2>2. ret' \in Values \cup {None} /\ Walking'
    BY <2>1 DEF IInv, Rest, Walking
  <2> QED BY <2>1, <2>2, OnlyWalks
<1>5. CASE hash_foreach
  BY <1>4, <1>5, Begins, Meets, Returns, NextBuckets DEF hash_foreach
<1>6. CASE hash_destroy
  BY <1>6, Destroys
<1>7. CASE UNCHANGED vars
  <2>1. UNCHANGED <<tableVars, walk, ret, destroyed>>
    BY <1>7 DEF vars
  <2>2. InTable' = InTable
    BY <2>1 DEF InTable, tableVars
  <2>3. Walking'
    BY <2>1, <2>2, SMTT(30) DEF IInv, Walking, MetSoFar, Passed, tableVars
  <2>4. ret' \in Values \cup {None} /\ (~ destroyed \/ walk' = None)
    BY <2>1 DEF IInv, Rest
  <2> QED BY <2>1, <2>3, <2>4, OnlyWalks
<1> QED BY <1>1, <1>2, <1>3, <1>5, <1>6, <1>7 DEF Next

(* IInv holds of every behaviour of hash.c's table: hash_push with its     *)
(* doublings, hash_pop, hash_peek, hash_destroy, and hash_foreach with a   *)
(* callback that calls them.                                               *)
THEOREM InvariantHolds == Spec => []IInv
<1>1. Init => IInv
  BY Starts
<1>2. IInv /\ [Next]_vars => IInv'
  BY Steps
<1> QED BY <1>1, <1>2, PTL DEF Spec

(* There are no more entries in the table than keys. *)
LEMMA TypeHolds ==
  ASSUME IInv
  PROVE  TypeOK
<1>1. count \in 0..Cardinality(Keys)
  <2>1. InTable \in SUBSET Entries
    BY Chained DEF IInv
  <2>2. Cardinality(InTable) \in Nat /\ Cardinality(InTable) <= Cardinality(Keys)
    BY <2>1, EntriesFinite, FS_Subset, FS_CardinalityType
  <2> QED BY <2>2, EntriesFinite DEF IInv, Counted
<1>2. walk \in Walks \cup {None}
  BY DEF IInv, Walking
<1> QED BY <1>1, <1>2 DEF IInv, InPlace, Stored, Rest, TypeOK

(* The types, among them that an allocated entry is never out of those     *)
(* there is one of for each key, and that the count never wraps below zero.*)
THEOREM TypesHold == Spec => []TypeOK
BY InvariantHolds, TypeHolds, PTL

(* A walk at its end has passed every place. *)
LEMMA MetHolds ==
  ASSUME IInv
  PROVE  MetOnce
<1> SUFFICES ASSUME AtEnd, NEW k \in walk.followed PROVE walk.met[k] = 1
  BY DEF MetOnce
<1>1. /\ walk # None /\ walk.next = NULL /\ walk.i >= max /\ walk.i \in 0..max
      /\ max \in Nat /\ MetSoFar
      /\ \A l \in walk.followed : \E e \in InTable : key[e] = l
  BY DEF AtEnd, IInv, Walking, InPlace
<1>2. PICK e \in InTable : key[e] = k
  BY <1>1
<1>3. PICK b \in 0..max : e \in Range(array[b])
  BY InTableIs
<1>4. array[b] \in Seq(Entries)
  BY DEF IInv, InPlace
<1>5. PICK p \in 1..Len(array[b]) : array[b][p] = e
  BY <1>3, <1>4, Ranges
<1>6. Passed(b, p)
  BY <1>1 DEF Passed
<1> QED BY <1>1, <1>2, <1>5, <1>6 DEF MetSoFar

(* hash_foreach meets every key that no callback has touched exactly once, *)
(* whatever the callbacks add and remove, unless the buckets were doubled  *)
(* or the entry to be met next was removed.                                *)
THEOREM EverybodyMetOnce == Spec => []MetOnce
BY InvariantHolds, MetHolds, PTL

(* A list without repeats has as many elements as places.                  *)
LEMMA RangeSize ==
  ASSUME NEW S, NEW s \in Seq(S), NoRepeats(s)
  PROVE  Cardinality(Range(s)) = Len(s) /\ IsFiniteSet(Range(s))
<1> DEFINE n == Len(s)
<1>1. n \in Nat /\ Range(s) = {s[p] : p \in 1..n} /\ \A p \in 1..n : s[p] \in Range(s)
  BY Ranges
<1>2. s \in [1..n -> Range(s)]
  BY <1>1, LenProperties
<1>3. \A p, q \in 1..n : s[p] = s[q] => p = q
  BY DEF NoRepeats
<1>4. \A x \in Range(s) : \E p \in 1..n : s[p] = x
  BY <1>1
<1> HIDE DEF n
<1>5. s \in Bijection(1..n, Range(s))
  BY <1>2, <1>3, <1>4 DEF Bijection, Injection, Surjection, IsInjective
<1>6. IsFiniteSet(1..n) /\ Cardinality(1..n) = n
  BY <1>1, FS_Interval
<1> QED BY <1>5, <1>6, FS_Bijection DEF ExistsBijection, n

(* A chain is no longer than there are keys.                               *)
LEMMA ChainLength ==
  ASSUME NEW s \in Seq(Entries), NoRepeats(s)
  PROVE  Len(s) <= Cardinality(Keys)
<1>1. Range(s) \in SUBSET Entries
  BY Ranges
<1> QED BY <1>1, RangeSize, EntriesFinite, FS_Subset

(* The places of the chains are as many as the entries of the table.       *)
LEMMA PlacesHold ==
  ASSUME IInv
  PROVE  EntriesInPlace
<1> DEFINE at(x) == array[x[1]][x[2]]
           entry == [x \in Positions |-> at(x)]
<1>1. ASSUME NEW x \in Positions
      PROVE  /\ x[1] \in 0..max /\ x[2] \in 1..Len(array[x[1]]) /\ x = <<x[1], x[2]>>
             /\ array[x[1]] \in Seq(Entries) /\ at(x) \in Range(array[x[1]])
             /\ at(x) \in InTable /\ Index(key[at(x)], max) = x[1]
  <2>1. x[1] \in 0..max /\ x[2] \in 1..Len(array[x[1]]) /\ x = <<x[1], x[2]>>
    <3>1. x \in (0..max) \X (1..Cardinality(Keys)) /\ x[2] <= Len(array[x[1]])
      BY DEF Positions
    <3>2. x[1] \in 0..max /\ x[2] \in 1..Cardinality(Keys) /\ x = <<x[1], x[2]>>
      BY <3>1
    <3>3. Len(array[x[1]]) \in Nat
      BY <3>2, LenProperties DEF IInv, InPlace
    <3> QED BY <3>1, <3>2, <3>3, EntriesFinite
  <2>2. array[x[1]] \in Seq(Entries)
    BY <2>1 DEF IInv, InPlace
  <2>3. at(x) \in Range(array[x[1]])
    BY <2>1, <2>2, Ranges
  <2>4. at(x) \in InTable
    BY <2>1, <2>3, InTableIs
  <2>5. Index(key[at(x)], max) = x[1]
    BY <2>1, <2>3 DEF IInv, InPlace, ChainHolds
  <2> QED BY <2>1, <2>2, <2>3, <2>4, <2>5
<1>2. \A x, y \in Positions : key[at(x)] = key[at(y)] => x = y
  <2> SUFFICES ASSUME NEW x \in Positions, NEW y \in Positions, key[at(x)] = key[at(y)]
               PROVE  x = y
    OBVIOUS
  <2>1. x[1] = y[1] /\ at(x) = at(y)
    BY <1>1 DEF IInv, InPlace
  <2>2. x[2] = y[2]
    <3>1. NoRepeats(array[x[1]])
      BY <1>1 DEF IInv, InPlace, ChainHolds
    <3> QED BY <1>1, <2>1, <3>1 DEF NoRepeats
  <2> QED BY <1>1, <2>1, <2>2
<1>3. \A e \in InTable : \E x \in Positions : at(x) = e
  <2> SUFFICES ASSUME NEW e \in InTable PROVE \E x \in Positions : at(x) = e
    OBVIOUS
  <2>1. PICK b \in 0..max : e \in Range(array[b])
    BY InTableIs
  <2>2. array[b] \in Seq(Entries) /\ NoRepeats(array[b])
    BY DEF IInv, InPlace, ChainHolds
  <2>3. PICK p \in 1..Len(array[b]) : array[b][p] = e
    BY <2>1, <2>2, Ranges
  <2>4. p \in 1..Cardinality(Keys) /\ p <= Len(array[b])
    BY <2>2, ChainLength, LenProperties, EntriesFinite
  <2>5. <<b, p>> \in Positions
    BY <2>4 DEF Positions
  <2> QED BY <2>3, <2>5
<1> HIDE DEF at
<1>4. entry \in Bijection(Positions, InTable)
  <2>1. entry \in [Positions -> InTable]
    BY <1>1
  <2>2. IsInjective(entry)
    BY <1>2 DEF IsInjective
  <2>3. \A e \in InTable : \E x \in Positions : entry[x] = e
    BY <1>3
  <2> QED BY <2>1, <2>2, <2>3 DEF Bijection, Injection, Surjection
<1>5. IsFiniteSet(Positions)
  <2>1. IsFiniteSet(0..max) /\ IsFiniteSet(1..Cardinality(Keys))
    <3>1. max \in Nat /\ 0 \in Int /\ max \in Int
      BY DEF IInv, InPlace
    <3> QED BY <3>1, FS_Interval, EntriesFinite
  <2>2. IsFiniteSet((0..max) \X (1..Cardinality(Keys)))
    BY <2>1, FS_Product
  <2>3. Positions \in SUBSET ((0..max) \X (1..Cardinality(Keys)))
    BY DEF Positions
  <2> QED BY <2>2, <2>3, FS_Subset
<1>6. count = Cardinality(Positions) /\ count <= max
  <2>1. Cardinality(InTable) = Cardinality(Positions)
    <3> HIDE DEF entry
    <3> QED BY <1>4, <1>5, FS_Bijection DEF ExistsBijection
  <2> QED BY <2>1 DEF IInv, Counted
<1>7. Cardinality(Range(free)) = Len(free)
  BY RangeSize DEF IInv, Stored
<1>8. InTable \cap Range(free) = {} /\ InTable \cup Range(free) = heap
  BY DEF IInv, Stored
<1> QED BY <1>1, <1>2, <1>6, <1>7, <1>8 DEF EntriesInPlace, at

(* No entry is lost or in two places, in a chain twice or in a wrong       *)
(* bucket, whatever hash_push, hash_pop and __expand_array have done; the  *)
(* count is right; and hash_destroy leaves nothing allocated.              *)
THEOREM EntriesStayInPlace == Spec => []EntriesInPlace
BY InvariantHolds, PlacesHold, PTL

-----------------------------------------------------------------------------
(* The refinement.                                                         *)

(* What the dictionary has for a key is what its entry has.                *)
Mapped ==
  \A k \in Keys :
    /\ \A e \in InTable : key[e] = k => ValueOf(k) = value[e]
    /\ (\A e \in InTable : key[e] # k) => ValueOf(k) = None

LEMMA MappedHolds == IInv => Mapped
<1> SUFFICES ASSUME IInv, NEW k \in Keys
             PROVE  /\ \A e \in InTable : key[e] = k => ValueOf(k) = value[e]
                    /\ (\A e \in InTable : key[e] # k) => ValueOf(k) = None
  BY DEF Mapped
<1>1. ASSUME NEW e \in InTable, key[e] = k PROVE ValueOf(k) = value[e]
  <2>1. find_entry(k) = e /\ e \in Entries
    BY <1>1, Found, Chained DEF IInv
  <2>2. e # NULL
    BY <2>1, EntriesFinite DEF Entries, NULL
  <2> QED BY <2>1, <2>2 DEF ValueOf
<1>2. ASSUME \A e \in InTable : key[e] # k PROVE ValueOf(k) = None
  BY <1>2, NotFound DEF IInv, ValueOf
<1> QED BY <1>1, <1>2

(* When the entries of the other keys stay, one place of the map changes.  *)
LEMMA OneChanges ==
  ASSUME Mapped, Mapped', NEW k \in Keys, NEW x, ValueOf(k)' = x,
         \A l \in Keys : l # k =>
           \/ \E e \in InTable : /\ e \in InTable' /\ key[e] = l /\ key'[e] = l
                                 /\ value'[e] = value[e]
           \/ (\A e \in InTable : key[e] # l) /\ (\A e \in InTable' : key'[e] # l)
  PROVE  [l \in Keys |-> ValueOf(l)'] = [[l \in Keys |-> ValueOf(l)] EXCEPT ![k] = x]
<1>1. ASSUME NEW l \in Keys, l # k PROVE ValueOf(l)' = ValueOf(l)
  <2>1. CASE \E e \in InTable : /\ e \in InTable' /\ key[e] = l /\ key'[e] = l
                                /\ value'[e] = value[e]
    BY <2>1 DEF Mapped
  <2>2. CASE (\A e \in InTable : key[e] # l) /\ (\A e \in InTable' : key'[e] # l)
    BY <2>2 DEF Mapped
  <2> QED BY <1>1, <2>1, <2>2
<1> QED BY <1>1

(* Each call is the call of the dictionary.                                *)
LEMMA ReplaceIsPush ==
  ASSUME IInv, IInv', Mapped, Mapped', NEW k \in Keys, NEW v \in Values, Replace(k, v)
  PROVE  Map!Push(k, v)
<1> DEFINE e == find_entry(k)
<1>1. /\ e # NULL /\ ret' = value[e] /\ value' = [value EXCEPT ![e] = v]
      /\ UNCHANGED <<array, max, key>>
  BY DEF Replace
<1>2. e \in InTable /\ e \in Entries /\ key[e] = k
  BY <1>1, LookedUp DEF IInv
<1> HIDE DEF e
<1>3. InTable' = InTable /\ \A f \in InTable : f \in Entries
  BY <1>1, Chained DEF IInv, InTable
<1>4. value' \in [Entries -> Values \cup {None}] /\ value'[e] = v
      /\ \A f \in Entries : f # e => value'[f] = value[f]
  BY <1>1, <1>2 DEF IInv, Stored
<1>5. ValueOf(k) = value[e] /\ ValueOf(k)' = v
  BY <1>1, <1>2, <1>3, <1>4 DEF Mapped
<1>6. \A l \in Keys : l # k =>
        \/ \E f \in InTable : /\ f \in InTable' /\ key[f] = l /\ key'[f] = l
                              /\ value'[f] = value[f]
        \/ (\A f \in InTable : key[f] # l) /\ (\A f \in InTable' : key'[f] # l)
  BY <1>1, <1>2, <1>3, <1>4
<1>7. [l \in Keys |-> ValueOf(l)'] = [[l \in Keys |-> ValueOf(l)] EXCEPT ![k] = v]
  BY <1>5, <1>6, OneChanges
<1> QED BY <1>1, <1>5, <1>7 DEF Map!Push

LEMMA InsertIsPush ==
  ASSUME IInv, IInv', Mapped, Mapped', NEW k \in Keys, NEW v \in Values, Insert(k, v)
  PROVE  Map!Push(k, v)
<1>1. find_entry(k) = NULL /\ ~ destroyed
  BY DEF Insert, MayCall
<1>2. \A f \in InTable : f \in Entries /\ key[f] # k
  BY <1>1, LookedUp, Chained DEF IInv
<1>3. PICK e \in Entries \ InTable :
        /\ InTable' = InTable \cup {e} /\ ret' = value[e]
        /\ key' = [key EXCEPT ![e] = k] /\ value' = [value EXCEPT ![e] = v]
  BY Inserts
<1>4. /\ key'[e] = k /\ value'[e] = v
      /\ \A f \in Entries : f # e => key'[f] = key[f] /\ value'[f] = value[f]
  BY <1>3 DEF IInv, Stored
<1>5. ValueOf(k) = None /\ ret' = None
  BY <1>1, <1>2, <1>3 DEF Mapped, IInv, Stored
<1>6. ValueOf(k)' = v
  BY <1>3, <1>4 DEF Mapped
<1>7. \A l \in Keys : l # k =>
        \/ \E f \in InTable : /\ f \in InTable' /\ key[f] = l /\ key'[f] = l
                              /\ value'[f] = value[f]
        \/ (\A f \in InTable : key[f] # l) /\ (\A f \in InTable' : key'[f] # l)
  BY <1>2, <1>3, <1>4
<1>8. [l \in Keys |-> ValueOf(l)'] = [[l \in Keys |-> ValueOf(l)] EXCEPT ![k] = v]
  BY <1>6, <1>7, OneChanges
<1> QED BY <1>5, <1>8 DEF Map!Push

LEMMA PopIsPop ==
  ASSUME IInv, IInv', Mapped, Mapped', NEW k \in Keys, hash_pop(k)
  PROVE  Map!Pop(k)
<1> DEFINE e == find_entry(k)
<1>1. InTable' = InTable \ {e}
  BY Pops
<1>2. /\ e = NULL => ret' = None /\ UNCHANGED tableVars
      /\ e # NULL => /\ ret' = value[e] /\ value' = [value EXCEPT ![e] = None]
                     /\ UNCHANGED key
  BY DEF hash_pop
<1>3. \/ e = NULL /\ \A f \in InTable : key[f] # k
      \/ e # NULL /\ e \in InTable /\ e \in Entries /\ key[e] = k
  BY LookedUp DEF IInv
<1> HIDE DEF e
<1>4. \A f \in InTable : f \in Entries
  BY Chained DEF IInv
<1>5. key' = key /\ \A f \in Entries : f # e => value'[f] = value[f]
  BY <1>2 DEF IInv, Stored, tableVars
<1>6. \A f \in InTable' : key'[f] # k
  BY <1>1, <1>3, <1>5 DEF IInv, InPlace
<1>7. ret' = ValueOf(k) /\ ValueOf(k)' = None
  BY <1>2, <1>3, <1>6 DEF Mapped
<1>8. \A l \in Keys : l # k =>
        \/ \E f \in InTable : /\ f \in InTable' /\ key[f] = l /\ key'[f] = l
                              /\ value'[f] = value[f]
        \/ (\A f \in InTable : key[f] # l) /\ (\A f \in InTable' : key'[f] # l)
  <2>1. \A f \in InTable : key[f] # k => f # e
    <3>1. \A f \in InTable : f # NULL
      BY <1>4, EntriesFinite DEF Entries, NULL
    <3> QED BY <1>3, <3>1
  <2> SUFFICES ASSUME NEW l \in Keys, l # k, NEW f \in InTable, key[f] = l
               PROVE  f \in InTable' /\ key'[f] = l /\ value'[f] = value[f]
    BY <1>1, <1>5
  <2> QED BY <1>1, <1>4, <1>5, <2>1
<1>9. [l \in Keys |-> ValueOf(l)'] = [[l \in Keys |-> ValueOf(l)] EXCEPT ![k] = None]
  BY <1>7, <1>8, OneChanges
<1> QED BY <1>7, <1>9 DEF Map!Pop

(* The map is that of the entries in the table.                            *)
LEMMA SameMap ==
  ASSUME Mapped, Mapped', UNCHANGED tableVars
  PROVE  [k \in Keys |-> ValueOf(k)'] = [k \in Keys |-> ValueOf(k)]
<1>1. InTable' = InTable
  BY DEF InTable, tableVars
<1>2. key' = key /\ value' = value
  BY DEF tableVars
<1>3. ASSUME NEW k \in Keys PROVE ValueOf(k)' = ValueOf(k)
  BY <1>1, <1>2 DEF Mapped
<1> QED BY <1>3

LEMMA DestroyIsDestroy ==
  ASSUME Mapped', hash_destroy
  PROVE  Map!Destroy
<1>1. ret' = ret /\ array' = [i \in 0..max |-> <<>>] /\ max' = max
  BY DEF hash_destroy
<1>2. Range(<<>>) = {}
  BY DEF Range
<1>3. InTable' = {}
  BY <1>1, <1>2 DEF InTable
<1>4. \A k \in Keys : ValueOf(k)' = None
  BY <1>3 DEF Mapped
<1> QED BY <1>1, <1>4 DEF Map!Destroy

(* Every step is one of the dictionary, or leaves it as it is.             *)
LEMMA StepsImplement ==
  ASSUME IInv, IInv', Mapped, Mapped', [Next]_vars
  PROVE  [Map!Next]_(<<[k \in Keys |-> ValueOf(k)], ret>>)
<1> DEFINE same == [k \in Keys |-> ValueOf(k)'] = [k \in Keys |-> ValueOf(k)]
<1>1. ASSUME NEW k \in Keys, hash_pop(k) PROVE Map!Next
  BY <1>1, PopIsPop DEF Map!Next
<1>2. ASSUME NEW k \in Keys, hash_peek(k) PROVE Map!Next
  <2>1. /\ find_entry(k) # NULL /\ ret' = value[find_entry(k)]
        /\ UNCHANGED tableVars
    BY <1>2 DEF hash_peek
  <2>2. ret' = ValueOf(k)
    BY <2>1 DEF ValueOf
  <2>3. same
    BY <2>1, SameMap
  <2>4. Map!Peek(k)
    BY <2>2, <2>3 DEF Map!Peek
  <2> QED BY <2>4 DEF Map!Next
<1>3. ASSUME NEW k \in Keys, NEW v \in Values, hash_push(k, v) PROVE Map!Next
  <2>1. Map!Push(k, v)
    BY <1>3, ReplaceIsPush, InsertIsPush DEF hash_push
  <2> QED BY <2>1 DEF Map!Next
<1>4. CASE WalkBegins
  <2>1. ret' = None /\ same
    BY <1>4, SameMap DEF WalkBegins
  <2> QED BY <2>1 DEF Map!Next, Map!Walk
<1>5. CASE WalkMeets \/ CallbackReturns \/ NextBucket \/ WalkEnds \/ UNCHANGED vars
  <2>1. UNCHANGED tableVars /\ ret' = ret
    BY <1>5 DEF WalkMeets, CallbackReturns, NextBucket, WalkEnds, vars
  <2>2. same
    BY <2>1, SameMap
  <2> QED BY <2>1, <2>2
<1>6. CASE hash_destroy
  BY <1>6, DestroyIsDestroy DEF Map!Next
<1> QED BY <1>1, <1>2, <1>3, <1>4, <1>5, <1>6 DEF Next, hash_foreach

(* An empty table is an empty dictionary.                                  *)
LEMMA StartsEmpty ==
  ASSUME Init, Mapped
  PROVE  Map!Init
<1>1. Range(<<>>) = {}
  BY DEF Range
<1>2. InTable = {}
  BY <1>1 DEF Init, InTable
<1>3. \A k \in Keys : ValueOf(k) = None
  BY <1>2 DEF Mapped
<1> QED BY <1>3 DEF Init, Map!Init

(* The table of hash.c is a dictionary: hash_push, hash_pop and hash_peek  *)
(* give back what the key was given last, from a callback of hash_foreach  *)
(* too, however often the buckets were doubled and entries used again.     *)
THEOREM TableIsDictionary == Spec => ImplementsDictionary
<1>1. Init => IInv /\ Mapped /\ Map!Init
  BY Starts, MappedHolds, StartsEmpty
<1>2. IInv /\ [Next]_vars => IInv'
  BY Steps
<1>3. IInv => Mapped
  BY MappedHolds
<1>4. IInv /\ IInv' /\ Mapped /\ Mapped' /\ [Next]_vars
        => [Map!Next]_(<<[k \in Keys |-> ValueOf(k)], ret>>)
  BY StepsImplement
<1> QED BY <1>1, <1>2, <1>3, <1>4, PTL DEF Spec, ImplementsDictionary, Map!Spec
=============================================================================
