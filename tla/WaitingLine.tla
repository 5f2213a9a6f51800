---------------------------- MODULE WaitingLine ----------------------------
(***************************************************************************)
(* What the queue assistant promises a viewer when fleet members have no   *)
(* priority: requests are served one at a time in the order they were      *)
(* sent, a new viewer joins the end of the line (if the line is open at    *)
(* all, which is settled once and for ever), a viewer who is already       *)
(* in line keeps his place, a viewer who cancels leaves it, and the page   *)
(* shows the line as it is at some instant of the page's making.           *)
(***************************************************************************)
EXTENDS Naturals, Sequences, SequencesExt

CONSTANTS
  Users,
  MaxPending    \* bound on the requests sent and not yet served

VARIABLES
  open,         \* whether viewers may join
  line,         \* the viewers who wait, first to last
  pending,      \* the requests sent and not yet served, oldest first
  page          \* the viewers on the page the host looks at

vars == <<open, line, pending, page>>

Request == [user : Users, cancel : BOOLEAN]

Waits(u) == \E i \in 1..Len(line) : line[i] = u

PlaceOf(u) == CHOOSE i \in 1..Len(line) : line[i] = u

(* The line after a request is served; nobody is in it twice. *)
Served(req) ==
  IF req.cancel
  THEN IF Waits(req.user) THEN RemoveAt(line, PlaceOf(req.user)) ELSE line
  ELSE IF ~ open \/ Waits(req.user) THEN line
  ELSE Append(line, req.user)

-----------------------------------------------------------------------------
Init ==
  /\ open \in BOOLEAN
  /\ line = <<>>
  /\ pending = <<>>
  /\ page = <<>>

Ask(req) ==
  /\ Len(pending) < MaxPending
  /\ pending' = Append(pending, req)
  /\ UNCHANGED <<open, line, page>>

Serve ==
  /\ pending # <<>>
  /\ line' = Served(Head(pending))
  /\ pending' = Tail(pending)
  /\ UNCHANGED <<open, page>>

Show ==
  /\ page' = line
  /\ UNCHANGED <<open, line, pending>>

Next ==
  \/ \E req \in Request : Ask(req)
  \/ Serve
  \/ Show

Fairness == WF_vars(Serve) /\ WF_vars(Show)

Spec == Init /\ [][Next]_vars /\ Fairness
=============================================================================
