-------------------------------- MODULE Hash --------------------------------
(***************************************************************************)
(* The hash table of hash.c: buckets that are chains of entries, a free    *)
(* list from which removed entries are used again, and the doubling of the *)
(* buckets.  hash_foreach calls a callback for every entry, and the        *)
(* callback may call the table.  The hash of a key is the key              *)
(* (__fd_poll_hash_func of select.c: the key is a descriptor's number).    *)
(***************************************************************************)
EXTENDS Integers, Sequences, FiniteSets, SequencesExt

CONSTANTS
  Keys,
  Values,
  size,       \* the size asked of hash_create
  None

ASSUME HashAssumption ==
  /\ Keys \subseteq Nat /\ IsFiniteSet(Keys)
  /\ size \in Nat
  /\ None \notin Values \cup Keys

INITIAL_MAX == 15

(* The least 2^n - 1 that leaves a quarter free. *)
MaxFor(s) ==
  IF s = 0 THEN INITIAL_MAX
  ELSE CHOOSE m \in {2^n - 1 : n \in 0..(2 * s)} :
         /\ m + 1 >= (s * 4) \div 3
         /\ \A n \in 0..(2 * s) : 2^n >= (s * 4) \div 3 => m + 1 <= 2^n

(* The loop of hash_create that doubles comes to its end (a size of some   *)
(* 2^31 would be beyond every uint32_t).                                   *)
ASSUME SizeAssumption == MaxFor(size) \in Nat

Entries == 1..Cardinality(Keys)
NULL == 0

VARIABLES
  array,       \* per bucket: its chain of entries
  max,
  count,
  free,        \* the entries that may be used again, the next one first
  key, value,  \* per entry
  heap,        \* the entries allocated
  walk,        \* how far a hash_foreach is, or None
  ret,         \* what the last call has returned
  destroyed

tableVars == <<array, max, count, free, key, value, heap>>
vars == <<tableVars, walk, ret, destroyed>>

Index(k, m) == k % (m + 1)

InTable == UNION {Range(array[i]) : i \in 0..max}

PlaceOf(list, e) == CHOOSE p \in DOMAIN list : list[p] = e

(* The entry behind e, in its chain or in the free list. *)
Behind(list, e) ==
  IF PlaceOf(list, e) < Len(list) THEN list[PlaceOf(list, e) + 1] ELSE NULL

NextOf(e) ==
  IF e \in Range(free) THEN Behind(free, e)
  ELSE Behind(array[CHOOSE i \in 0..max : e \in Range(array[i])], e)

HeadOf(list) == IF list = <<>> THEN NULL ELSE Head(list)

(* Mutation: the key is not compared, the first entry of the bucket is it. *)
find_entryAnyKey(k) == HeadOf(array[Index(k, max)])

(* find_entry: the entry of the key, or NULL. *)
find_entry(k) ==
  LET here == {e \in Range(array[Index(k, max)]) : key[e] = k}
  IN IF here = {} THEN NULL ELSE CHOOSE e \in here : TRUE

(* What a list has at some of its places, the last of them first. *)
Backwards(list, places) ==
  [n \in 1..Cardinality(places) |->
     list[CHOOSE p \in places : Cardinality({q \in places : q >= p}) = n]]

Spread(chain, j, m, keys) ==
  Backwards(chain, {p \in DOMAIN chain : Index(keys[chain[p]], m) = j})

(* Mutation: the entries are spread by the old number of buckets. *)
__expand_arrayOldMask(a, m, keys) ==
  [j \in 0..(2 * m + 1) |-> IF j <= m THEN Spread(a[j], j, m, keys) ELSE <<>>]

(* __expand_array: the chains are taken apart from the front, and every    *)
(* entry becomes the first of its new chain.                               *)
__expand_array(a, m, keys) ==
  [j \in 0..(2 * m + 1) |-> Spread(a[Index(j, m)], j, 2 * m + 1, keys)]

(* A walk of hash_foreach: its bucket, the entry it meets next (read before*)
(* the callback is called) and whether it is inside the callback; and, as  *)
(* a history, the keys of which it can be said what the walk does: those   *)
(* no callback has touched, as long as the buckets are not doubled and the *)
(* entry to be met next is not removed; and how often each of them was met *)
(* (0, 1 or more).                                                         *)
Walks == [i : Nat, next : Entries \cup {NULL}, inside : BOOLEAN,
          followed : SUBSET Keys, met : [Keys -> 0..2]]

ASSUME NoneAssumption == None \notin Walks

TypeOK ==
  /\ max \in Nat /\ count \in 0..Cardinality(Keys)
  /\ array \in [0..max -> Seq(Entries)] /\ free \in Seq(Entries)
  /\ key \in [Entries -> Keys \cup {None}]
  /\ value \in [Entries -> Values \cup {None}]
  /\ heap \subseteq Entries
  /\ walk \in Walks \cup {None}
  /\ ret \in Values \cup {None}
  /\ destroyed \in BOOLEAN

(* hash_create *)
Init ==
  /\ max = MaxFor(size)
  /\ array = [i \in 0..max |-> <<>>]
  /\ count = 0
  /\ free = <<>>
  /\ key = [e \in Entries |-> None] /\ value = [e \in Entries |-> None]
  /\ heap = {}
  /\ walk = None
  /\ ret = None
  /\ destroyed = FALSE

-----------------------------------------------------------------------------
(* The calls.  The table is called between walks and from a callback.      *)
MayCall == ~ destroyed /\ (walk # None => walk.inside)

Touch(k, disturbs) ==
  LET left == IF disturbs THEN {} ELSE walk.followed \ {k}
  IN walk' = IF walk = None THEN None
             ELSE [walk EXCEPT
                     !.followed = left,
                     !.met = [l \in Keys |-> IF l \in left THEN @[l] ELSE 0]]

Replace(k, v) ==
  LET e == find_entry(k)
  IN /\ MayCall /\ e # NULL
     /\ ret' = value[e]
     /\ value' = [value EXCEPT ![e] = v]
     /\ Touch(k, FALSE)
     /\ UNCHANGED <<array, max, count, free, key, heap, destroyed>>

(* A new key takes the first entry of the free list, or else a new one, to *)
(* the end of its chain; the buckets are doubled when they are fewer than  *)
(* the entries.                                                            *)
Fresh == CHOOSE e \in Entries : e \notin heap

Insert(k, v) ==
  LET e == IF free # <<>> THEN Head(free) ELSE Fresh
      linked == [array EXCEPT ![Index(k, max)] = Append(@, e)]
      full == count + 1 > max
  IN /\ MayCall /\ find_entry(k) = NULL
     /\ free' = IF free # <<>> THEN Tail(free) ELSE free
     /\ heap' = heap \cup {e}
     /\ key' = [key EXCEPT ![e] = k]
     /\ ret' = value[e]
     /\ value' = [value EXCEPT ![e] = v]
     /\ count' = count + 1
     /\ array' = IF full THEN __expand_array(linked, max, key') ELSE linked
     /\ max' = IF full THEN 2 * max + 1 ELSE max
     /\ Touch(k, full)
     /\ UNCHANGED destroyed

hash_push(k, v) == Replace(k, v) \/ Insert(k, v)

(* Mutation: the entry is not taken off the count. *)
hash_popNoCount(k) ==
  LET e == find_entry(k)
      i == Index(k, max)
  IN /\ MayCall
     /\ IF e = NULL
        THEN ret' = None /\ Touch(k, FALSE) /\ UNCHANGED tableVars
        ELSE /\ array' = [array EXCEPT ![i] = RemoveAt(@, PlaceOf(@, e))]
             /\ free' = <<e>> \o free
             /\ ret' = value[e]
             /\ value' = [value EXCEPT ![e] = None]
             /\ Touch(k, walk # None /\ walk.next = e)
             /\ UNCHANGED <<max, count, key, heap>>
     /\ UNCHANGED destroyed

hash_pop(k) ==
  LET e == find_entry(k)
      i == Index(k, max)
  IN /\ MayCall
     /\ IF e = NULL
        THEN ret' = None /\ Touch(k, FALSE) /\ UNCHANGED tableVars
        ELSE /\ array' = [array EXCEPT ![i] = RemoveAt(@, PlaceOf(@, e))]
             /\ free' = <<e>> \o free
             /\ count' = count - 1
             /\ ret' = value[e]
             /\ value' = [value EXCEPT ![e] = None]
             /\ Touch(k, walk # None /\ walk.next = e)
             /\ UNCHANGED <<max, key, heap>>
     /\ UNCHANGED destroyed

(* (The value of a key that is not there is looked for at NULL.)           *)
hash_peek(k) ==
  /\ MayCall /\ find_entry(k) # NULL
  /\ ret' = value[find_entry(k)]
  /\ UNCHANGED <<tableVars, walk, destroyed>>

(* The entries in the chains and those in the free list are given back.    *)
hash_destroy ==
  /\ ~ destroyed /\ walk = None
  /\ destroyed' = TRUE
  /\ heap' = (heap \ InTable) \ Range(free)
  /\ array' = [i \in 0..max |-> <<>>]
  /\ free' = <<>>
  /\ count' = 0
  /\ UNCHANGED <<max, key, value, walk, ret>>

-----------------------------------------------------------------------------
(* hash_foreach *)
WalkBegins ==
  /\ ~ destroyed /\ walk = None
  /\ walk' = [i |-> 0, next |-> HeadOf(array[0]), inside |-> FALSE,
              followed |-> {key[e] : e \in InTable},
              met |-> [k \in Keys |-> 0]]
  /\ ret' = None
  /\ UNCHANGED <<tableVars, destroyed>>

(* The entry behind is looked up, and the callback is called ...           *)
WalkMeets ==
  /\ walk # None /\ ~ walk.inside /\ walk.next # NULL
  /\ LET k == key[walk.next]
     IN walk' = [walk EXCEPT
                   !.inside = TRUE,
                   !.next = NextOf(@),
                   !.met[k] = IF k \in walk.followed /\ @ < 2 THEN @ + 1 ELSE @]
  /\ UNCHANGED <<tableVars, ret, destroyed>>

(* ... and goes on or stops the walk.                                      *)
CallbackReturns ==
  /\ walk # None /\ walk.inside
  /\ walk' \in {[walk EXCEPT !.inside = FALSE], None}
  /\ UNCHANGED <<tableVars, ret, destroyed>>

(* Mutation: the bucket just left is walked again. *)
NextBucketAgain ==
  /\ walk # None /\ ~ walk.inside /\ walk.next = NULL /\ walk.i < max
  /\ walk' = [walk EXCEPT !.i = @ + 1, !.next = HeadOf(array[walk.i])]
  /\ UNCHANGED <<tableVars, ret, destroyed>>

NextBucket ==
  /\ walk # None /\ ~ walk.inside /\ walk.next = NULL /\ walk.i < max
  /\ walk' = [walk EXCEPT !.i = @ + 1, !.next = HeadOf(array[walk.i + 1])]
  /\ UNCHANGED <<tableVars, ret, destroyed>>

AtEnd == walk # None /\ ~ walk.inside /\ walk.next = NULL /\ walk.i >= max

WalkEnds ==
  /\ AtEnd
  /\ walk' = None
  /\ UNCHANGED <<tableVars, ret, destroyed>>

hash_foreach ==
  WalkBegins \/ WalkMeets \/ CallbackReturns \/ NextBucket \/ WalkEnds

Next ==
  \/ \E k \in Keys : hash_pop(k) \/ hash_peek(k) \/ \E v \in Values : hash_push(k, v)
  \/ hash_foreach
  \/ hash_destroy

Spec == Init /\ [][Next]_vars

-----------------------------------------------------------------------------
(* Every entry allocated is in one chain or in the free list, once, and in *)
(* the chain its key belongs to; the count is that of the entries in the   *)
(* chains, and less than the buckets, so that a replaced value never       *)
(* doubles them; none is left after hash_destroy.                          *)
Positions ==
  {x \in (0..max) \X (1..Cardinality(Keys)) : x[2] <= Len(array[x[1]])}

EntriesInPlace ==
  /\ \A x, y \in Positions :
       key[array[x[1]][x[2]]] = key[array[y[1]][y[2]]] => x = y
  /\ \A x \in Positions : Index(key[array[x[1]][x[2]]], max) = x[1]
  /\ InTable \cap Range(free) = {} /\ InTable \cup Range(free) = heap
  /\ Cardinality(Range(free)) = Len(free)
  /\ count = Cardinality(Positions) /\ count <= max

(* A walk that has come to its end has met every key nobody touched        *)
(* meanwhile exactly once, whatever its callbacks have added or removed,   *)
(* unless the buckets were doubled or the entry to be met next was removed *)
(* (hash.h:103: the callback gets every element in turn).                  *)
MetOnce == AtEnd => \A k \in walk.followed : walk.met[k] = 1

(* The table is a dictionary: what a key was given last is what it gives   *)
(* back, however often the buckets have been doubled and entries used      *)
(* again.                                                                  *)
ValueOf(k) == IF find_entry(k) = NULL THEN None ELSE value[find_entry(k)]

Map == INSTANCE Dictionary WITH map <- [k \in Keys |-> ValueOf(k)]

ImplementsDictionary == Map!Spec
=============================================================================
