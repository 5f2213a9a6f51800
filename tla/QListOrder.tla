----------------------------- MODULE QListOrder -----------------------------
(***************************************************************************)
(* The order of the waiting list of QList.  A refresh overwrites a weight  *)
(* where the unit stands, so the ring is known to be in order only as long *)
(* as no refresh has changed the weight of a queued unit: the history      *)
(* variable steady tells whether that is so since the ring was last empty. *)
(***************************************************************************)
EXTENDS QList

VARIABLE steady

orderVars == <<vars, steady>>

WeightsKept ==
  \A i \in 1..Len(list), j \in 1..Len(list') :
    list[i].anchorage = list'[j].anchorage =>
      list[i].data.weight = list'[j].data.weight

OrderInit == Init /\ steady = TRUE

OrderNext ==
  /\ Next
  /\ steady' = (list' = <<>> \/ (steady /\ WeightsKept))

OrderSpec == OrderInit /\ [][OrderNext]_orderVars

-----------------------------------------------------------------------------
(* The ring is in order of falling weight, the order its users rely on     *)
(* (callbacks.c:91: the weight is what the line is sorted by).             *)
Sorted ==
  steady =>
    \A i, j \in 1..Len(list) : i < j => Weight(i) >= Weight(j)

(* A newcomer is linked behind every unit of its weight or more and ahead  *)
(* of every lighter one (first come, first served within a weight).        *)
NewcomerBehindPeers ==
  [][\A k \in 1..Len(list') :
       steady /\ (\A i \in 1..Len(list) : list[i].anchorage # list'[k].anchorage)
         => \A i \in 1..Len(list') :
              i < k <=> /\ i # k
                        /\ list'[i].data.weight >= list'[k].data.weight]_orderVars

(* The cache only saves time (comment at qlist.c:95-99): qlist_append puts *)
(* a unit of any weight where it would put it with an empty cache.         *)
Weights == {d.weight : d \in Data}

CacheTransparent ==
  steady /\ lock = None =>
    \A w \in Weights : qlist_append(w, tmp_unit) = qlist_append(w, None)
=============================================================================
