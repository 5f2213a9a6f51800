----------------------------- MODULE QListLinks -----------------------------
(***************************************************************************)
(* The pointers of the ring of QList: node[n] is the list_node of unit n,  *)
(* or of the head of the ring, which belongs to no unit.  The macros of    *)
(* utils.h are given the memory and the nodes they are called with, and    *)
(* give back what they make of the memory.                                 *)
(***************************************************************************)
EXTENDS QListOrder

VARIABLE node

linkVars == <<orderVars, node>>

list_head == None

LIST_NODE_INIT(m, n) ==
  [x \in DOMAIN m \cup {n} |-> IF x = n THEN [prev |-> n, next |-> n] ELSE m[x]]

(* The assignments (x)->next = y and (x)->prev = y.                        *)
SetNext(m, x, y) == [m EXCEPT ![x].next = y]
SetPrev(m, x, y) == [m EXCEPT ![x].prev = y]

LIST_APPEND_REAR(m, dst, src) ==
  LET made == [m EXCEPT ![src] = [prev |-> dst, next |-> m[dst].next]]
  IN SetNext(SetPrev(made, made[dst].next, src), dst, src)

LIST_APPEND_AHEAD(m, dst, src) ==
  LET made == [m EXCEPT ![src] = [prev |-> m[dst].prev, next |-> dst]]
  IN SetPrev(SetNext(made, made[dst].prev, src), dst, src)

(* Mutation: the next unit still points back to the one that is freed. *)
LIST_SUBTRACTOneWay(m, dst) == SetNext(m, m[dst].prev, m[dst].next)

LIST_SUBTRACT(m, dst) ==
  LET forth == SetNext(m, m[dst].prev, m[dst].next)
  IN SetPrev(forth, forth[dst].next, forth[dst].prev)

(* qlist_append_update makes a node for the new unit, and qlist_append     *)
(* links it: into an empty ring, ahead of the front, behind the tail, or   *)
(* behind the unit its walk has stopped at.                                *)
NodeLinked(a, w) ==
  LET m == LIST_NODE_INIT(node, a)
      place == qlist_append(w, tmp_unit)
  IN IF elem_num = 0 THEN LIST_APPEND_REAR(m, list_head, a)
     ELSE IF place = 0 THEN LIST_APPEND_AHEAD(m, m[list_head].next, a)
     ELSE IF place = Len(list) THEN LIST_APPEND_REAR(m, m[list_head].prev, a)
     ELSE LIST_APPEND_REAR(m, list[place].anchorage, a)

(* qlist_subtract takes the unit out of the ring and frees it.             *)
NodeUnlinked(a) ==
  [n \in DOMAIN node \ {a} |-> LIST_SUBTRACT(node, a)[n]]

LinksInit ==
  /\ OrderInit
  /\ node = [n \in {list_head} |-> [prev |-> n, next |-> n]]

LinksNext ==
  /\ OrderNext
  /\ \/ /\ Len(list') > Len(list)
        /\ \E t \in Writers, a \in Anchorages : \E d \in DataOf[a] :
             Link(t, a, d) /\ node' = NodeLinked(a, d.weight)
     \/ /\ Len(list') < Len(list)
        /\ \E t \in Writers, a \in Anchorages :
             Unlink(t, a) /\ node' = NodeUnlinked(a)
     \/ Len(list') = Len(list) /\ UNCHANGED node

LinksSpec == LinksInit /\ [][LinksNext]_linkVars

-----------------------------------------------------------------------------
(* The nodes are those of the head and of the units of the ring, no more   *)
(* and no less, and each points to the next one and back: so a walk in     *)
(* either direction meets the whole ring in order and comes back to the    *)
(* head (qlist.c:43-62, 111-118, 251-257), and never meets a freed unit.   *)
NodeAt(i) == IF i \in 1..Len(list) THEN list[i].anchorage ELSE list_head

RingIsLinked ==
  /\ DOMAIN node = {NodeAt(i) : i \in 0..Len(list)}
  /\ \A i \in 0..Len(list) : /\ node[NodeAt(i)].next = NodeAt(i + 1)
                             /\ node[NodeAt(i + 1)].prev = NodeAt(i)
=============================================================================
