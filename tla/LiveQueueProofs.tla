-------------------------- MODULE LiveQueueProofs --------------------------
(***************************************************************************)
(* For any number of viewers, danmus of any kind in any order, any config  *)
(* files and a socket pair of any size: a viewer's last word counts, the   *)
(* program is a waiting line, who is blacklisted stays out of it, and with *)
(* priority for the fleet nobody waits ahead of a higher level.            *)
(***************************************************************************)
EXTENDS LiveQueue, SequenceTheorems, TLAPS

(* The waiting list is that of QListProofs and QListOrderProofs.  (What is *)
(* taken from the latter depends neither on the history of the weights nor *)
(* on the pointers of the ring.)                                           *)
QP == INSTANCE QListOrderProofs WITH
       Anchorages <- Users, DataOf <- [u \in Users |-> UnitData],
       Writers <- {engine}, Readers <- {http}, steady <- TRUE,
       node <- TRUE

LEMMA ListAssumption == QP!QListAssumption
BY LiveQueueAssumption, NoneAssumption
   DEF QP!QListAssumption, UnitData, QueueWeights, engine, http

LEMMA SameInit == Q!Init => QP!Init
BY DEF Q!Init, QP!Init, Q!Threads, QP!Threads

LEMMA SameSearch == \A u : Q!qlist_search(u) = QP!qlist_search(u)
BY DEF Q!qlist_search, QP!qlist_search, Q!PosOf, QP!PosOf, Q!Hits, QP!Hits,
       Q!Max, QP!Max

LEMMA SameAppend == \A w, tmp : Q!qlist_append(w, tmp) = QP!qlist_append(w, tmp)
BY DEF Q!qlist_append, QP!qlist_append, Q!PosOf, QP!PosOf, Q!Weight, QP!Weight,
       Q!BeginUnit, QP!BeginUnit, Q!EndUnit, QP!EndUnit, Q!NotLighter,
       QP!NotLighter, Q!Max, QP!Max, Q!Nowhere, QP!Nowhere

LEMMA SameWriterSteps ==
  ASSUME NEW u, NEW d
  PROVE  /\ Q!Refresh(engine, u, d) => QP!Refresh(engine, u, d)
         /\ Q!Link(engine, u, d) => QP!Link(engine, u, d)
         /\ Q!Refuse(engine, u, d) => QP!Refuse(engine, u, d)
         /\ Q!Unlink(engine, u) => QP!Unlink(engine, u)
         /\ Q!NotQueued(engine, u) => QP!NotQueued(engine, u)
         /\ Q!CountUp(engine) => QP!CountUp(engine)
         /\ Q!CountDown(engine) => QP!CountDown(engine)
<1> USE SameSearch, SameAppend DEF Q!MayEnter, QP!MayEnter, Q!Nowhere, QP!Nowhere
<1>1. Q!Refresh(engine, u, d) => QP!Refresh(engine, u, d)
  BY DEF Q!Refresh, QP!Refresh
<1>2. Q!Link(engine, u, d) => QP!Link(engine, u, d)
  BY DEF Q!Link, QP!Link, Q!InsertAt, QP!InsertAt
<1>3. Q!Refuse(engine, u, d) => QP!Refuse(engine, u, d)
  BY DEF Q!Refuse, QP!Refuse
<1>4. Q!Unlink(engine, u) => QP!Unlink(engine, u)
  BY DEF Q!Unlink, QP!Unlink, Q!RemoveAt, QP!RemoveAt, Q!TmpAfterSearch,
         QP!TmpAfterSearch
<1>5. Q!NotQueued(engine, u) => QP!NotQueued(engine, u)
  BY DEF Q!NotQueued, QP!NotQueued
<1>6. /\ Q!CountUp(engine) => QP!CountUp(engine)
      /\ Q!CountDown(engine) => QP!CountDown(engine)
  BY DEF Q!CountUp, QP!CountUp, Q!CountDown, QP!CountDown
<1> QED BY <1>1, <1>2, <1>3, <1>4, <1>5, <1>6

LEMMA SameReaderSteps ==
  /\ Q!ForeachCall(http, FALSE) => QP!ForeachCall(http, FALSE)
  /\ Q!ForeachLock(http) => QP!ForeachLock(http)
  /\ Q!ForeachVisit(http, TRUE) => QP!ForeachVisit(http, TRUE)
  /\ Q!ForeachDone(http) => QP!ForeachDone(http)
BY DEF Q!ForeachCall, QP!ForeachCall, Q!ForeachLock, QP!ForeachLock,
       Q!ForeachVisit, QP!ForeachVisit, Q!ForeachDone, QP!ForeachDone,
       Q!NextPos, QP!NextPos, Q!ForeachReturn, QP!ForeachReturn

LEMMA SameTypes == QP!TypeOK => Q!TypeOK
BY DEF Q!TypeOK, QP!TypeOK, Q!Unit, QP!Unit, Q!Data, QP!Data, Q!Threads,
       QP!Threads, Q!WriterPc, QP!WriterPc, Q!ReaderPc, QP!ReaderPc,
       Q!RetCodes, QP!RetCodes
-----------------------------------------------------------------------------
(* The invariant of the waiting list is kept by the program's use of it.   *)
LEMMA InfoData ==
  ASSUME info \in UserInfo PROVE DataOfInfo \in UnitData /\ info.uid \in Users
BY DEF UserInfo, FleetLevels, DataOfInfo, UnitData, QueueWeight, QueueWeights,
       FLEET_LV_MAX

LEMMA ListInit == Init => QP!IInv
BY SameInit, ListAssumption, QP!InitInvariant DEF Init

LEMMA ListStep ==
  ASSUME info \in UserInfo \cup {None}, [Next]_vars
  PROVE  [QP!Next]_(QP!vars)
<1>2. CASE ApplyInfo
  <2>1. info.uid \in Users /\ DataOfInfo \in UnitData
    BY <1>2, InfoData DEF ApplyInfo
  <2>2. \/ QP!qlist_subtract(engine, info.uid)
        \/ QP!qlist_append_update(engine, info.uid, DataOfInfo)
    BY <1>2, SameWriterSteps
       DEF ApplyInfo, Q!qlist_subtract, QP!qlist_subtract,
           QP!qlist_append_update
  <2>3. DataOfInfo \in [u \in Users |-> UnitData][info.uid]
    BY <2>1
  <2> QED BY <2>1, <2>2, <2>3 DEF QP!Next, QP!WriterStep
<1>3. CASE FinishInfo
  BY <1>3, SameWriterSteps DEF FinishInfo, QP!Next, QP!WriterStep
<1>4. CASE HttpStep
  BY <1>4, SameReaderSteps
     DEF HttpStep, PageRequest, PageLock, PageRow, PageSent, QP!Next,
         QP!qlist_foreach
<1>5. CASE (\E danmu \in Danmus : danmu_callback(danmu)) \/ ReadInfo
           \/ IgnoreInfo \/ UNCHANGED vars
  BY <1>5 DEF danmu_callback, ReadInfo, IgnoreInfo, vars, queueVars, QP!vars
<1> QED BY <1>2, <1>3, <1>4, <1>5 DEF Next, EngineStep

LEMMA ListNext ==
  ASSUME QP!IInv, info \in UserInfo \cup {None}, [Next]_vars
  PROVE  QP!IInv'
<1>1. [QP!Next]_(QP!vars)
  BY ListStep
<1> QED BY <1>1, ListAssumption, QP!NextInvariant
-----------------------------------------------------------------------------
(* The invariant of the requests.  The program sends itself requests that  *)
(* came as danmus only.                                                    *)
DanmuInfo == {i \in UserInfo : i.info_type = "DANMU_MSG"}

Types ==
  /\ file \in ConfigFiles
  /\ socket \in Seq(DanmuInfo) /\ Len(socket) <= SocketSize
  /\ info \in DanmuInfo \cup {None}
  /\ page \in Seq(Users)
  /\ wants \subseteq Users

(* A change of the list that is under way is that of the request at hand.  *)
InHand ==
  /\ pc[engine] = "counting_up" =>
       info # None /\ ~ info.cancel_queue_up /\ conf.allow_danmu_queueup
  /\ pc[engine] = "counting_down" => info # None /\ info.cancel_queue_up

(* Nobody waits where nobody may; without priority all weigh the same.     *)
EqualWeights == \A i \in 1..Len(list) : list[i].data.weight = 1

ClosedIsEmpty == ~ conf.allow_danmu_queueup => list = <<>>

(* The last request of a viewer that is on its way is his last word; if    *)
(* none is, the line has him as he wants.                                  *)
Unsaid(u) == \A i \in 1..Len(socket) : socket[i].uid # u

LastOf(i, u) ==
  socket[i].uid = u /\ \A j \in (i + 1)..Len(socket) : socket[j].uid # u

AtHand(u) == info # None /\ info.uid = u /\ pc[engine] = "idle"

Obeyed(u) == InLine(u) <=> u \in wants /\ conf.allow_danmu_queueup

LastWord(u) ==
  /\ \A i \in 1..Len(socket) :
       LastOf(i, u) => (u \in wants <=> ~ socket[i].cancel_queue_up)
  /\ Unsaid(u) => IF AtHand(u) THEN u \in wants <=> ~ info.cancel_queue_up
                               ELSE Obeyed(u)

IInv ==
  /\ QP!IInv /\ Types /\ InHand /\ ClosedIsEmpty
  /\ ~ conf.capt_first => EqualWeights /\ \A u \in Users : LastWord(u)

LEMMA EngineThread ==
  ASSUME QP!IInv
  PROVE  /\ pc[engine] \in {"idle", "counting_up", "counting_down"}
         /\ pc \in [{engine, http} -> {"idle", "counting_up", "counting_down",
                                       "wants_lock", "walking"}]
         /\ engine # http
BY DEF QP!IInv, QP!TypeOK, QP!LockProtocol, QP!Threads, QP!WriterPc,
       QP!ReaderPc, engine, http

LEMMA RingTypes ==
  ASSUME QP!IInv
  PROVE  /\ list \in Seq([anchorage : Users, data : UnitData])
         /\ Len(list) \in Nat
         /\ \A i \in 1..Len(list) : list[i].anchorage \in Users
         /\ shown[http] \in Seq([anchorage : Users, data : UnitData])
<1>1. QP!Unit \subseteq [anchorage : Users, data : UnitData]
  BY DEF QP!Unit, QP!Data
<1>2. list \in Seq(QP!Unit) /\ shown[http] \in Seq(QP!Unit)
  BY DEF QP!IInv, QP!TypeOK
<1> DEFINE U == QP!Unit
           T == [anchorage : Users, data : UnitData]
<1>3. U \subseteq T /\ list \in Seq(U) /\ shown[http] \in Seq(U)
  BY <1>1, <1>2
<1> HIDE DEF U, T
<1>4. list \in Seq(T) /\ shown[http] \in Seq(T)
  <2>1. ASSUME NEW s \in Seq(U) PROVE s \in Seq(T)
    <3>1. Len(s) \in Nat /\ \A i \in 1..Len(s) : s[i] \in T
      BY <1>3
    <3>2. s = [i \in 1..Len(s) |-> s[i]]
      OBVIOUS
    <3> QED BY <3>1, <3>2
  <2> QED BY <1>3, <2>1
<1>5. Len(list) \in Nat /\ \A i \in 1..Len(list) : list[i] \in T
  BY <1>4
<1> QED BY <1>4, <1>5 DEF T

LEMMA InitIInv == Init => IInv
<1> SUFFICES ASSUME Init PROVE IInv
  OBVIOUS
<1>1. QP!IInv
  BY ListInit
<1>2. pc[engine] = "idle" /\ list = <<>>
  BY DEF Init, Q!Init, Q!Threads
<1>3. Types
  BY LiveQueueAssumption DEF Init, Types
<1>4. InHand /\ ClosedIsEmpty
  BY <1>2 DEF InHand, ClosedIsEmpty
<1>5. EqualWeights /\ \A u \in Users : LastWord(u)
  BY <1>2 DEF Init, EqualWeights, LastWord, Unsaid, LastOf, AtHand, Obeyed, InLine
<1> QED BY <1>1, <1>3, <1>4, <1>5 DEF IInv

(* A viewer's danmu: it is his last word now, and nobody else's. *)
LEMMA DanmuStep ==
  ASSUME IInv, NEW danmu \in Danmus, danmu_callback(danmu)
  PROVE  Types' /\ \A u \in Users : LastWord(u) => LastWord(u)'
<1> DEFINE new == UserInfoOf(danmu)
           n == Len(socket)
<1>1. /\ danmu \in Danmu /\ danmu.body \in {"queue", "cancel"}
      /\ socket' = Append(socket, new) /\ n < SocketSize
      /\ wants' = IF danmu.body = "queue" THEN wants \cup {danmu.uid}
                                          ELSE wants \ {danmu.uid}
      /\ UNCHANGED <<list, pc, file, info, page>>
  BY LiveQueueAssumption DEF danmu_callback, queueVars, Danmu
<1>2. /\ new \in DanmuInfo /\ new.uid = danmu.uid
      /\ new.cancel_queue_up = (danmu.body = "cancel")
  BY <1>1 DEF UserInfoOf, DanmuInfo, UserInfo, Danmu
<1>3. /\ n \in Nat /\ Len(socket') = n + 1 /\ socket' \in Seq(DanmuInfo)
      /\ socket'[n + 1] = new /\ \A i \in 1..n : socket'[i] = socket[i]
  BY <1>1, <1>2, LenProperties DEF IInv, Types
<1>4. Types'
  <2>1. danmu.uid \in Users /\ wants' \subseteq Users
    BY <1>1 DEF IInv, Types, Danmu
  <2>2. Len(socket') <= SocketSize
    BY <1>1, <1>3, LiveQueueAssumption
  <2> QED BY <1>1, <1>3, <2>1, <2>2 DEF IInv, Types
<1> HIDE DEF new, n
<1>5. ASSUME NEW u \in Users, LastWord(u) PROVE LastWord(u)'
  <2>1. CASE u = danmu.uid
    <3>1. ~ Unsaid(u)'
      BY <1>2, <1>3, <2>1 DEF Unsaid
    <3>2. ASSUME NEW i \in 1..(n + 1), LastOf(i, u)' PROVE i = n + 1
      BY <1>2, <1>3, <2>1, <3>2 DEF LastOf
    <3>3. u \in wants' <=> ~ new.cancel_queue_up
      BY <1>1, <1>2, <2>1
    <3> QED BY <1>3, <3>1, <3>2, <3>3 DEF LastWord
  <2>2. CASE u # danmu.uid
    <3>1. u \in wants' <=> u \in wants
      BY <1>1, <2>2
    <3>2. Unsaid(u)' => Unsaid(u)
      BY <1>3 DEF Unsaid, n
    <3>3. /\ (AtHand(u)' <=> AtHand(u)) /\ (Obeyed(u)' <=> Obeyed(u))
          /\ info' = info
      BY <1>1, <3>1 DEF AtHand, Obeyed, InLine, conf
    <3>4. ASSUME NEW i \in 1..(n + 1), LastOf(i, u)'
          PROVE  i \in 1..n /\ LastOf(i, u)
      <4>1. i # n + 1
        BY <1>2, <1>3, <2>2, <3>4 DEF LastOf
      <4>2. \A j \in (i + 1)..n : j \in (i + 1)..(n + 1) /\ j \in 1..n
        BY <1>3
      <4> QED BY <1>3, <3>4, <4>1, <4>2 DEF LastOf, n
    <3> QED BY <1>3, <1>5, <3>1, <3>2, <3>3, <3>4 DEF LastWord, n
  <2> QED BY <2>1, <2>2
<1> QED BY <1>4, <1>5

(* The request that is read was the oldest. *)
LEMMA ReadStep ==
  ASSUME IInv, ReadInfo
  PROVE  Types' /\ \A u \in Users : LastWord(u) => LastWord(u)'
<1> DEFINE n == Len(socket)
<1>1. /\ info = None /\ socket # <<>>
      /\ info' = Head(socket) /\ socket' = Tail(socket)
      /\ UNCHANGED <<list, pc, file, page, wants>>
  BY DEF ReadInfo, queueVars
<1>2. /\ n \in Nat /\ n > 0 /\ Len(socket') = n - 1 /\ socket' \in Seq(DanmuInfo)
      /\ info' = socket[1] /\ info' \in DanmuInfo
      /\ \A i \in 1..(n - 1) : socket'[i] = socket[i + 1]
  BY <1>1, LenProperties, HeadTailProperties DEF IInv, Types
<1>3. Types'
  BY <1>1, <1>2, LiveQueueAssumption DEF IInv, Types
<1>4. pc'[engine] = "idle" /\ info' # None
  BY <1>1, <1>2, EngineThread, NoneAssumption DEF IInv, InHand, DanmuInfo
<1> HIDE DEF n
<1>5. ASSUME NEW u \in Users, LastWord(u) PROVE LastWord(u)'
  <2>1. ASSUME NEW i \in 1..(n - 1), LastOf(i, u)' PROVE LastOf(i + 1, u)
    <3>1. \A j \in (i + 2)..n : j - 1 \in (i + 1)..(n - 1) /\ j = (j - 1) + 1
      BY <1>2
    <3>2. \A j \in (i + 1)..(n - 1) : socket'[j].uid # u
      BY <1>2, <2>1 DEF LastOf
    <3>3. \A j \in (i + 2)..n : socket[j].uid # u
      BY <1>2, <3>1, <3>2
    <3>4. socket[i + 1].uid = u
      BY <1>2, <2>1 DEF LastOf
    <3>5. (i + 1) + 1 = i + 2
      OBVIOUS
    <3> QED BY <3>3, <3>4, <3>5 DEF LastOf, n
  <2>2. \A i \in 1..(n - 1) :
          LastOf(i, u)' => (u \in wants <=> ~ socket'[i].cancel_queue_up)
    BY <1>2, <1>5, <2>1 DEF LastWord, n
  <2>3. ASSUME Unsaid(u)' PROVE \A j \in 2..n : socket[j].uid # u
    <3>1. \A j \in 2..n : j - 1 \in 1..(n - 1) /\ j = (j - 1) + 1
      BY <1>2
    <3> QED BY <1>2, <2>3, <3>1, ZenonT(60) DEF Unsaid
  <2>4. CASE socket[1].uid = u
    <3>1. AtHand(u)'
      BY <1>2, <1>4, <2>4 DEF AtHand
    <3>2. Unsaid(u)' => LastOf(1, u)
      BY <2>3, <2>4 DEF LastOf, n
    <3>3. Unsaid(u)' => (u \in wants <=> ~ info'.cancel_queue_up)
      BY <1>2, <1>5, <3>2 DEF LastWord, n
    <3> QED BY <1>1, <1>2, <2>2, <3>1, <3>3 DEF LastWord
  <2>5. CASE socket[1].uid # u
    <3>1. ~ AtHand(u)' /\ ~ AtHand(u)
      BY <1>1, <1>2, <2>5 DEF AtHand
    <3>2. Unsaid(u)' => Unsaid(u)
      BY <1>2, <2>3, <2>5 DEF Unsaid, n
    <3>3. Obeyed(u)' <=> Obeyed(u)
      BY <1>1 DEF Obeyed, InLine, conf
    <3> QED BY <1>1, <1>2, <1>5, <2>2, <3>1, <3>2, <3>3 DEF LastWord
  <2> QED BY <2>4, <2>5
<1> QED BY <1>3, <1>5
(* What is done to the list for viewer v, for whom it was time, is what he *)
(* has asked for, and touches nobody else.                                 *)
LEMMA WordObeyed ==
  ASSUME NEW v \in Users,
         \A u \in Users : LastWord(u),
         info # None => info.uid = v,
         info' = None \/ info' = info,
         \A u \in Users : ~ AtHand(u)',
         \A u \in Users : u # v => (InLine(u)' <=> InLine(u)),
         Unsaid(v) => Obeyed(v)',
         UNCHANGED <<file, socket, wants>>
  PROVE  \A u \in Users : LastWord(u)'
<1> SUFFICES ASSUME NEW u \in Users PROVE LastWord(u)'
  OBVIOUS
<1>1. Unsaid(u)' <=> Unsaid(u)
  BY DEF Unsaid
<1>2. \A i \in 1..Len(socket) : LastOf(i, u)' <=> LastOf(i, u)
  BY DEF LastOf
<1>3. u # v => ~ AtHand(u) /\ (Obeyed(u)' <=> Obeyed(u))
  BY DEF AtHand, Obeyed, conf
<1>4. LastWord(u)
  OBVIOUS
<1>5. Unsaid(u)' => Obeyed(u)'
  BY <1>1, <1>3, <1>4 DEF LastWord
<1> QED BY <1>1, <1>2, <1>4, <1>5 DEF LastWord

(* The request is one to queue, and nobody may. *)
LEMMA IgnoreStep ==
  ASSUME IInv, IgnoreInfo
  PROVE  Types' /\ InHand' /\ ClosedIsEmpty'
         /\ (~ conf.capt_first => EqualWeights' /\ \A u \in Users : LastWord(u)')
<1>1. /\ info # None /\ ~ info.cancel_queue_up /\ ~ Allowed /\ info' = None
      /\ UNCHANGED <<list, pc, file, socket, page, wants>>
  BY DEF IgnoreInfo, queueVars
<1>2. info \in DanmuInfo /\ info.uid \in Users /\ ~ conf.allow_danmu_queueup
  BY <1>1 DEF IInv, Types, DanmuInfo, UserInfo, Allowed
<1>3. Types' /\ ClosedIsEmpty'
  BY <1>1 DEF IInv, Types, ClosedIsEmpty, conf
<1>4. InHand'
  BY <1>1, <1>2 DEF IInv, InHand
<1>5. ASSUME ~ conf.capt_first
      PROVE  EqualWeights' /\ \A u \in Users : LastWord(u)'
  <2>1. PICK v \in Users : info.uid = v
    BY <1>2
  <2>2. \A u \in Users : ~ AtHand(u)' /\ (InLine(u)' <=> InLine(u))
    BY <1>1 DEF AtHand, InLine
  <2>3. Obeyed(v)'
    BY <1>1, <1>2 DEF IInv, ClosedIsEmpty, Obeyed, InLine, conf
  <2>4. EqualWeights /\ \A u \in Users : LastWord(u)
    BY <1>5 DEF IInv
  <2>5. EqualWeights'
    BY <1>1, <2>4 DEF EqualWeights
  <2>6. UNCHANGED <<file, socket, wants>>
    BY <1>1
  <2>7. \A u \in Users : LastWord(u)'
    BY <1>1, <2>1, <2>2, <2>3, <2>4, <2>6, WordObeyed
  <2> QED BY <2>5, <2>7
<1> QED BY <1>3, <1>4, <1>5

(* The call has returned. *)
LEMMA FinishStep ==
  ASSUME IInv, FinishInfo
  PROVE  Types' /\ InHand' /\ ClosedIsEmpty'
         /\ (~ conf.capt_first => EqualWeights' /\ \A u \in Users : LastWord(u)')
<1>1. /\ pc[engine] \in {"counting_up", "counting_down"}
      /\ pc' = [pc EXCEPT ![engine] = "idle"] /\ info' = None
      /\ UNCHANGED <<list, file, socket, page, wants>>
  BY DEF FinishInfo, Q!CountUp, Q!CountDown
<1>2. info # None /\ info \in DanmuInfo /\ info.uid \in Users
  BY <1>1 DEF IInv, InHand, Types, DanmuInfo, UserInfo
<1>3. Types' /\ ClosedIsEmpty'
  BY <1>1 DEF IInv, Types, ClosedIsEmpty, conf
<1>4. pc'[engine] = "idle"
  BY <1>1, EngineThread DEF IInv
<1>5. InHand'
  BY <1>4 DEF InHand
<1>6. ASSUME ~ conf.capt_first
      PROVE  EqualWeights' /\ \A u \in Users : LastWord(u)'
  <2>1. PICK v \in Users : info.uid = v
    BY <1>2
  <2>2. \A u \in Users : ~ AtHand(u)' /\ (InLine(u)' <=> InLine(u))
    BY <1>1 DEF AtHand, InLine
  <2>3. EqualWeights /\ \A u \in Users : LastWord(u)
    BY <1>6 DEF IInv
  <2>4. Unsaid(v) => Obeyed(v)
    <3>1. LastWord(v) /\ ~ AtHand(v)
      BY <1>1, <2>3 DEF AtHand
    <3> QED BY <3>1 DEF LastWord
  <2>5. Obeyed(v)' <=> Obeyed(v)
    BY <1>1 DEF Obeyed, InLine, conf
  <2>6. EqualWeights'
    BY <1>1, <2>3 DEF EqualWeights
  <2>7. UNCHANGED <<file, socket, wants>>
    BY <1>1
  <2>8. \A u \in Users : LastWord(u)'
    BY <1>1, <2>1, <2>2, <2>3, <2>4, <2>5, <2>7, WordObeyed
  <2> QED BY <2>6, <2>8
<1> QED BY <1>3, <1>5, <1>6

-----------------------------------------------------------------------------
(* The request is acted upon.  What the calls make of the line: ...        *)
LEMMA UnlinkInLine ==
  ASSUME QP!IInv, NEW v \in Users, QP!Unlink(engine, v)
  PROVE  /\ ~ InLine(v)' /\ (\A u \in Users : u # v => (InLine(u)' <=> InLine(u)))
         /\ EqualWeights => EqualWeights'
<1>1. /\ Len(list) \in Nat /\ Len(list') = Len(list) - 1
      /\ \E p \in 1..Len(list) :
           /\ list[p].anchorage = v
           /\ \A k \in 1..(Len(list) - 1) :
                list'[k] = IF k < p THEN list[k] ELSE list[k + 1]
  BY ListAssumption, QP!UnlinkRing
<1>2. PICK p \in 1..Len(list) :
           /\ list[p].anchorage = v
           /\ \A k \in 1..(Len(list) - 1) :
                list'[k] = IF k < p THEN list[k] ELSE list[k + 1]
  BY <1>1
<1>3. \A i, j \in 1..Len(list) : list[i].anchorage = list[j].anchorage => i = j
  BY DEF QP!IInv, QP!NoDuplicates
<1> DEFINE from(k) == IF k < p THEN k ELSE k + 1
<1>4. \A k \in 1..(Len(list) - 1) :
        /\ from(k) \in 1..Len(list) /\ from(k) # p /\ list'[k] = list[from(k)]
  BY <1>1, <1>2
<1>5. ASSUME NEW i \in 1..Len(list), i # p
      PROVE  \E k \in 1..(Len(list) - 1) : from(k) = i
  <2>1. CASE i < p
    BY <1>1, <2>1
  <2>2. CASE i > p
    <3>1. i - 1 \in 1..(Len(list) - 1) /\ from(i - 1) = i
      BY <1>1, <2>2
    <3> QED BY <3>1
  <2> QED BY <1>5, <2>1, <2>2
<1> HIDE DEF from
<1>6. ~ InLine(v)'
  BY <1>1, <1>2, <1>3, <1>4 DEF InLine
<1>7. ASSUME NEW u \in Users, u # v PROVE InLine(u)' <=> InLine(u)
  <2>1. InLine(u)' => InLine(u)
    BY <1>1, <1>4 DEF InLine
  <2>2. InLine(u) => InLine(u)'
    <3>1. SUFFICES ASSUME NEW i \in 1..Len(list), list[i].anchorage = u
                   PROVE  InLine(u)'
      BY DEF InLine
    <3>2. i # p
      BY <1>2, <1>7, <3>1
    <3>3. PICK k \in 1..(Len(list) - 1) : from(k) = i
      BY <1>5, <3>2
    <3> QED BY <1>1, <1>4, <3>1, <3>3 DEF InLine
  <2> QED BY <2>1, <2>2
<1>8. EqualWeights => EqualWeights'
  BY <1>1, <1>4 DEF EqualWeights
<1> QED BY <1>6, <1>7, <1>8

LEMMA LinkInLine ==
  ASSUME QP!IInv, NEW v \in Users, NEW d \in UnitData, QP!Link(engine, v, d)
  PROVE  /\ InLine(v)' /\ (\A u \in Users : u # v => (InLine(u)' <=> InLine(u)))
         /\ EqualWeights /\ d.weight = 1 => EqualWeights'
<1> DEFINE p == QP!PlaceOf(d)
           n == Len(list)
<1>1. d \in [u \in Users |-> UnitData][v]
  OBVIOUS
<1>2. /\ n \in Nat /\ Len(list') = n + 1 /\ p \in 1..(n + 1)
      /\ list'[p] = [anchorage |-> v, data |-> d]
      /\ \A k \in 1..(p - 1) : list'[k] = list[k]
      /\ \A k \in (p + 1)..(n + 1) : list'[k] = list[k - 1]
  BY <1>1, ListAssumption, QP!LinkRing
<1> HIDE DEF p
<1>3. InLine(v)'
  BY <1>2 DEF InLine
<1>4. \A k \in 1..(n + 1) : k # p =>
        \E i \in 1..n : list'[k] = list[i]
  <2>1. SUFFICES ASSUME NEW k \in 1..(n + 1), k # p
                 PROVE  \E i \in 1..n : list'[k] = list[i]
    OBVIOUS
  <2>2. CASE k < p
    <3>1. k \in 1..n /\ list'[k] = list[k]
      BY <1>2, <2>2
    <3> QED BY <3>1
  <2>3. CASE k > p
    <3>1. k - 1 \in 1..n /\ list'[k] = list[k - 1]
      BY <1>2, <2>3
    <3> QED BY <3>1
  <2> QED BY <1>2, <2>1, <2>2, <2>3
<1>5. \A i \in 1..n : \E k \in 1..(n + 1) : list'[k] = list[i]
  <2>1. SUFFICES ASSUME NEW i \in 1..n
                 PROVE  \E k \in 1..(n + 1) : list'[k] = list[i]
    OBVIOUS
  <2>2. CASE i < p
    <3>1. i \in 1..(n + 1) /\ list'[i] = list[i]
      BY <1>2, <2>2
    <3> QED BY <3>1
  <2>3. CASE i >= p
    <3>1. i + 1 \in (p + 1)..(n + 1) /\ i + 1 \in 1..(n + 1) /\ (i + 1) - 1 = i
      BY <1>2, <2>3
    <3>2. list'[i + 1] = list[i]
      BY <1>2, <3>1
    <3> QED BY <3>1, <3>2
  <2> QED BY <1>2, <2>1, <2>2, <2>3
<1>6. ASSUME NEW u \in Users, u # v PROVE InLine(u)' <=> InLine(u)
  <2>1. InLine(u)' => InLine(u)
    BY <1>2, <1>4, <1>6 DEF InLine
  <2>2. InLine(u) => InLine(u)'
    BY <1>2, <1>5 DEF InLine
  <2> QED BY <2>1, <2>2
<1>7. ASSUME EqualWeights, d.weight = 1 PROVE EqualWeights'
  BY <1>2, <1>4, <1>7, SMTT(30) DEF EqualWeights
<1> QED BY <1>3, <1>6, <1>7

LEMMA RefreshInLine ==
  ASSUME QP!IInv, NEW v \in Users, NEW d \in UnitData, QP!Refresh(engine, v, d)
  PROVE  /\ InLine(v)' /\ (\A u \in Users : InLine(u)' <=> InLine(u))
         /\ EqualWeights /\ d.weight = 1 => EqualWeights'
<1>1. d \in [u \in Users |-> UnitData][v]
  OBVIOUS
<1>2. /\ Len(list') = Len(list)
      /\ \A i \in 1..Len(list) : list'[i].anchorage = list[i].anchorage
      /\ \E p \in 1..Len(list) :
           /\ list[p].anchorage = v
           /\ list'[p].data = d
           /\ \A i \in 1..Len(list) : i # p => list'[i] = list[i]
  BY <1>1, ListAssumption, QP!RefreshRing
<1> QED BY <1>2 DEF InLine, EqualWeights

(* ... a call that changes nothing has met a viewer who is not there, or,  *)
(* if all weigh the same, is not made.                                     *)
LEMMA NotQueuedInLine ==
  ASSUME QP!IInv, NEW v \in Users, QP!NotQueued(engine, v)
  PROVE  ~ InLine(v) /\ list' = list
<1>1. lock = None /\ QP!qlist_search(v) = 0 /\ list' = list
  BY DEF QP!NotQueued, QP!MayEnter
<1>2. \A i \in 1..Len(list) : list[i].anchorage # v
  BY <1>1, ListAssumption, QP!SearchFinds
<1> QED BY <1>1, <1>2 DEF InLine

LEMMA NobodyRefused ==
  ASSUME QP!IInv, NEW v, NEW d, EqualWeights, d.weight = 1
  PROVE  ~ QP!Refuse(engine, v, d)
<1> SUFFICES ASSUME QP!Refuse(engine, v, d) PROVE FALSE
  OBVIOUS
<1>1. lock = None /\ QP!qlist_append(1, tmp_unit) = -1
  BY DEF QP!Refuse, QP!MayEnter, QP!Nowhere
<1>2. elem_num = Len(list) /\ Len(list) \in Nat
  BY <1>1, ListAssumption, QP!CountWhenFree, RingTypes
<1>3. elem_num # 0 => QP!Weight(1) = 1 /\ QP!Weight(Len(list)) = 1
  BY <1>2 DEF EqualWeights, QP!Weight
<1> QED BY <1>1, <1>2, <1>3 DEF QP!qlist_append
(* Together: the request at hand is done, at once or but for the count. *)
LEMMA ApplyStep ==
  ASSUME IInv, ApplyInfo
  PROVE  Types' /\ InHand' /\ ClosedIsEmpty'
         /\ (~ conf.capt_first => EqualWeights' /\ \A u \in Users : LastWord(u)')
<1>1. /\ info # None /\ info' \in {None, info}
      /\ UNCHANGED <<file, socket, page, wants>>
  BY DEF ApplyInfo
<1>2. /\ info \in DanmuInfo /\ info \in UserInfo /\ DataOfInfo \in UnitData
      /\ info.info_type = "DANMU_MSG"
  BY <1>1, InfoData DEF IInv, Types, DanmuInfo
<1>3. PICK v \in Users : info.uid = v
  BY <1>2 DEF UserInfo
<1>4. PICK d \in UnitData : d = DataOfInfo
  BY <1>2
<1>5. \/ /\ info.cancel_queue_up
         /\ QP!Unlink(engine, v) \/ QP!NotQueued(engine, v)
      \/ /\ ~ info.cancel_queue_up /\ conf.allow_danmu_queueup
         /\ \/ QP!Refresh(engine, v, d) \/ QP!Link(engine, v, d)
            \/ QP!Refuse(engine, v, d)
  BY <1>2, <1>3, <1>4, SameWriterSteps
     DEF ApplyInfo, Allowed, Q!qlist_subtract
<1>6. /\ QP!IInv /\ pc[engine] = "idle"
      /\ pc' \in {pc, [pc EXCEPT ![engine] = "counting_up"],
                      [pc EXCEPT ![engine] = "counting_down"]}
      /\ info' = IF pc'[engine] = "idle" THEN None ELSE info
  BY <1>5 DEF IInv, ApplyInfo, QP!Unlink, QP!NotQueued, QP!Refresh, QP!Link,
              QP!Refuse, QP!MayEnter
<1>7. /\ pc'[engine] = "counting_up" => ~ info.cancel_queue_up
                                        /\ conf.allow_danmu_queueup
      /\ pc'[engine] = "counting_down" => info.cancel_queue_up
  BY <1>5, <1>6, EngineThread
     DEF QP!Unlink, QP!NotQueued, QP!Refresh, QP!Link, QP!Refuse
<1>8. Types'
  BY <1>1 DEF IInv, Types
<1>9. InHand'
  BY <1>1, <1>6, <1>7 DEF InHand, conf
<1>10. ClosedIsEmpty'
  <2>1. SUFFICES ASSUME ~ conf.allow_danmu_queueup PROVE list' = <<>>
    BY <1>1 DEF ClosedIsEmpty, conf
  <2>2. list = <<>> /\ ~ QP!Unlink(engine, v)
    <3>1. list = <<>>
      BY <2>1 DEF IInv, ClosedIsEmpty
    <3>2. QP!Unlink(engine, v) => \E p \in 1..Len(list) : list[p].anchorage = v
      BY <1>6, ListAssumption, QP!UnlinkRing
    <3> QED BY <3>1, <3>2
  <2> QED BY <1>5, <1>6, <2>1, <2>2, NotQueuedInLine
<1>11. ASSUME ~ conf.capt_first
       PROVE  EqualWeights' /\ \A u \in Users : LastWord(u)'
  <2>1. EqualWeights /\ \A u \in Users : LastWord(u)
    BY <1>11 DEF IInv
  <2>2. d.weight = 1
    BY <1>2, <1>4, <1>11 DEF DataOfInfo, QueueWeight
  <2>3. ~ QP!Refuse(engine, v, d)
    BY <1>6, <2>1, <2>2, NobodyRefused
  <2>4. /\ EqualWeights'
        /\ InLine(v)' <=> ~ info.cancel_queue_up
        /\ \A u \in Users : u # v => (InLine(u)' <=> InLine(u))
        /\ ~ info.cancel_queue_up => conf.allow_danmu_queueup
    <3>1. CASE QP!Unlink(engine, v) /\ info.cancel_queue_up
      BY <1>6, <2>1, <3>1, UnlinkInLine
    <3>2. CASE QP!NotQueued(engine, v) /\ info.cancel_queue_up
      <4>1. ~ InLine(v) /\ list' = list
        BY <1>6, <3>2, NotQueuedInLine
      <4> QED BY <2>1, <3>2, <4>1 DEF InLine, EqualWeights
    <3>3. CASE QP!Refresh(engine, v, d) /\ ~ info.cancel_queue_up
      BY <1>5, <1>6, <2>1, <2>2, <3>3, RefreshInLine
    <3>4. CASE QP!Link(engine, v, d) /\ ~ info.cancel_queue_up
      BY <1>5, <1>6, <2>1, <2>2, <3>4, LinkInLine
    <3> QED BY <1>5, <2>3, <3>1, <3>2, <3>3, <3>4
  <2>5. Unsaid(v) => Obeyed(v)'
    <3>1. Unsaid(v) => (v \in wants <=> ~ info.cancel_queue_up)
      <4>1. LastWord(v) /\ AtHand(v)
        BY <1>1, <1>3, <1>6, <2>1 DEF AtHand
      <4> QED BY <4>1 DEF LastWord
    <3> QED BY <1>1, <2>4, <3>1 DEF Obeyed, conf
  <2>6. \A u \in Users : ~ AtHand(u)'
    BY <1>6 DEF AtHand
  <2>7. \A u \in Users : LastWord(u)'
    BY <1>1, <1>3, <2>1, <2>4, <2>5, <2>6, WordObeyed
  <2> QED BY <2>4, <2>7
<1> QED BY <1>8, <1>9, <1>10, <1>11

(* The page takes nothing from the line. *)
LEMMA HttpSteps ==
  ASSUME IInv, HttpStep
  PROVE  /\ UNCHANGED <<list, file, socket, info, wants>>
         /\ pc'[engine] = pc[engine] /\ page' \in Seq(Users)
<1>1. UNCHANGED <<list, file, socket, info, wants>>
  BY DEF HttpStep, PageRequest, PageLock, PageRow, PageSent, Q!ForeachCall,
         Q!ForeachLock, Q!ForeachVisit, Q!ForeachDone
<1>2. pc' = pc \/ \E to : pc' = [pc EXCEPT ![http] = to]
  BY DEF HttpStep, PageRequest, PageLock, PageRow, PageSent, Q!ForeachCall,
         Q!ForeachLock, Q!ForeachVisit, Q!ForeachDone, Q!ForeachReturn
<1>3. pc'[engine] = pc[engine]
  BY <1>2, EngineThread DEF IInv
<1>4. page' \in Seq(Users)
  <2>1. CASE PageSent
    <3> DEFINE rows == shown[http]
               n == Len(rows)
               row(i) == RowOf(rows[i])
    <3>1. rows \in Seq([anchorage : Users, data : UnitData])
      BY RingTypes DEF IInv
    <3>2. page' = [i \in 1..n |-> row(i)]
      BY <2>1 DEF PageSent
    <3> HIDE DEF rows
    <3>3. n \in Nat /\ \A i \in 1..n : rows[i] \in [anchorage : Users, data : UnitData]
      BY <3>1, LenProperties
    <3>4. \A i \in 1..n : row(i) \in Users
      BY <3>3 DEF RowOf
    <3> HIDE DEF n, row
    <3> QED BY <3>2, <3>3, <3>4
  <2>2. CASE ~ PageSent
    <3>1. page' = page \/ page' = <<>>
      BY <2>2 DEF HttpStep, PageRequest, PageLock, PageRow
    <3>2. page \in Seq(Users) /\ <<>> \in Seq(Users)
      BY DEF IInv, Types
    <3> QED BY <3>1, <3>2
  <2> QED BY <2>1, <2>2
<1> QED BY <1>1, <1>3, <1>4

LEMMA NextIInv == IInv /\ [Next]_vars => IInv'
<1> SUFFICES ASSUME IInv, [Next]_vars PROVE IInv'
  OBVIOUS
<1>1. QP!IInv'
  BY ListNext DEF IInv, Types, DanmuInfo
<1>2. conf' = conf
  <2>1. file' = file
    BY DEF Next, EngineStep, HttpStep, danmu_callback, ReadInfo, IgnoreInfo,
           ApplyInfo, FinishInfo, PageRequest, PageLock, PageRow, PageSent, vars
  <2> QED BY <2>1 DEF conf
<1>3. CASE IgnoreInfo \/ FinishInfo \/ ApplyInfo
  BY <1>1, <1>2, <1>3, IgnoreStep, FinishStep, ApplyStep DEF IInv
<1>4. ASSUME UNCHANGED list, pc'[engine] = pc[engine], InHand => InHand',
             Types', \A u \in Users : LastWord(u) => LastWord(u)'
      PROVE  IInv'
  <2>1. ClosedIsEmpty' /\ (EqualWeights => EqualWeights')
    BY <1>2, <1>4 DEF IInv, ClosedIsEmpty, EqualWeights
  <2> QED BY <1>1, <1>2, <1>4, <2>1 DEF IInv
<1>5. CASE \E danmu \in Danmus : danmu_callback(danmu)
  <2>1. UNCHANGED <<list, pc, info, file>>
    BY <1>5 DEF danmu_callback, queueVars
  <2>2. InHand => InHand'
    BY <1>2, <2>1 DEF InHand
  <2> QED BY <1>4, <1>5, <2>1, <2>2, DanmuStep
<1>6. CASE ReadInfo
  <2>1. UNCHANGED <<list, pc>> /\ info = None
    BY <1>6 DEF ReadInfo, queueVars
  <2>2. InHand => InHand'
    BY <2>1 DEF InHand
  <2> QED BY <1>4, <1>6, <2>1, <2>2, ReadStep
<1>7. CASE HttpStep \/ UNCHANGED vars
  <2>1. /\ UNCHANGED <<list, file, socket, info, wants>>
        /\ pc'[engine] = pc[engine] /\ page' \in Seq(Users)
    BY <1>7, HttpSteps DEF vars, queueVars, IInv, Types
  <2>2. Types' /\ (InHand => InHand')
    BY <1>2, <2>1 DEF IInv, Types, InHand
  <2>3. \A u \in Users : LastWord(u) => LastWord(u)'
    BY <1>2, <2>1 DEF LastWord, LastOf, Unsaid, AtHand, Obeyed, InLine
  <2> QED BY <1>4, <2>1, <2>2, <2>3
<1> QED BY <1>3, <1>5, <1>6, <1>7 DEF Next, EngineStep

LEMMA Invariant == Spec => []IInv
BY InitIInv, NextIInv, PTL DEF Spec

(* Once everything sent is dealt with, the viewers in line are those whose *)
(* last word was to queue: no request is lost, repeated or overtaken on    *)
(* its way through three threads (callbacks.c:70-103, 227-360), if danmus  *)
(* may queue and the fleet has no priority.                                *)
THEOREM TheLastWordCounts == Spec => []LastWordCounts
<1>1. IInv => LastWordCounts
  BY DEF IInv, LastWordCounts, Quiet, LastWord, Unsaid, AtHand, Obeyed
<1> QED BY <1>1, Invariant, PTL

(* The types: the socket pair never holds more than it can, and requests,  *)
(* line and page are made of viewers.                                      *)
THEOREM TypesHold == Spec => []TypeOK
<1>1. IInv => TypeOK
  <2> SUFFICES ASSUME IInv PROVE TypeOK
    OBVIOUS
  <2>1. Q!TypeOK
    BY SameTypes DEF IInv, QP!IInv
  <2>2. socket \in Seq(UserInfo) /\ info \in UserInfo \cup {None}
    <3>1. socket \in Seq(DanmuInfo) /\ DanmuInfo \subseteq UserInfo
      BY DEF IInv, Types, DanmuInfo
    <3> HIDE DEF DanmuInfo
    <3>2. Len(socket) \in Nat /\ \A i \in 1..Len(socket) : socket[i] \in UserInfo
      BY <3>1
    <3>3. socket \in Seq(UserInfo)
      BY <3>1, <3>2
    <3> QED BY <3>1, <3>3 DEF IInv, Types
  <2> QED BY <2>1, <2>2 DEF IInv, Types, TypeOK
<1> QED BY <1>1, Invariant, PTL
-----------------------------------------------------------------------------
(* Without priority for the fleet the program is a waiting line.  Who is   *)
(* linked and not yet counted is the last of the ring, and a page shows    *)
(* the ring from the front.                                                *)
LinkedLast ==
  pc[engine] = "counting_up" =>
    Len(list) > 0 /\ list[Len(list)].anchorage = info.uid

LineInv == IInv /\ ~ conf.capt_first /\ LinkedLast /\ ~ invert[http]

Counted == IF pc[engine] = "counting_up" THEN Len(list) - 1 ELSE Len(list)

ViewersOf(units, n) == [i \in 1..n |-> units[i].anchorage]

LEMMA LineIs == LineOfList = ViewersOf(list, Counted)
BY DEF LineOfList, ViewersOf, Counted

LEMMA ViewersAt ==
  ASSUME NEW units \in Seq([anchorage : Users, data : UnitData]),
         NEW n \in Nat, n <= Len(units)
  PROVE  /\ ViewersOf(units, n) \in Seq(Users) /\ Len(ViewersOf(units, n)) = n
         /\ \A i \in 1..n : ViewersOf(units, n)[i] = units[i].anchorage
<1>1. Len(units) \in Nat
      /\ \A i \in 1..Len(units) : units[i] \in [anchorage : Users, data : UnitData]
  BY LenProperties
<1>2. \A i \in 1..n : units[i].anchorage \in Users
  BY <1>1
<1> QED BY <1>2 DEF ViewersOf

RequestsOf(infos) == [i \in 1..Len(infos) |-> RequestOf(infos[i])]

Unserved == info # None /\ pc[engine] # "counting_down"

LEMMA PendingIs ==
  PendingOfSocket = IF Unserved THEN <<RequestOf(info)>> \o RequestsOf(socket)
                                ELSE RequestsOf(socket)
BY DEF PendingOfSocket, Unserved, RequestsOf

LEMMA NextPendingIs ==
  PendingOfSocket' = IF Unserved' THEN <<RequestOf(info')>> \o RequestsOf(socket')
                                  ELSE RequestsOf(socket')
BY DEF PendingOfSocket, Unserved, RequestsOf, RequestOf

LEMMA RequestIs ==
  ASSUME NEW i \in DanmuInfo
  PROVE  /\ RequestOf(i) \in Line!Request
         /\ RequestOf(i) = [user |-> i.uid, cancel |-> i.cancel_queue_up]
BY DEF RequestOf, DanmuInfo, UserInfo, Line!Request

LEMMA RequestsAt ==
  ASSUME NEW infos \in Seq(DanmuInfo)
  PROVE  /\ Len(infos) \in Nat
         /\ RequestsOf(infos) \in Seq(Line!Request)
         /\ Len(RequestsOf(infos)) = Len(infos)
         /\ \A i \in 1..Len(infos) :
              infos[i] \in DanmuInfo /\ RequestsOf(infos)[i] = RequestOf(infos[i])
<1>1. Len(infos) \in Nat /\ \A i \in 1..Len(infos) : infos[i] \in DanmuInfo
  BY LenProperties
<1>2. \A i \in 1..Len(infos) : RequestOf(infos[i]) \in Line!Request
  BY <1>1, RequestIs
<1>3. RequestsOf(infos) \in Seq(Line!Request) /\ Len(RequestsOf(infos)) = Len(infos)
  BY <1>1, <1>2 DEF RequestsOf
<1> QED BY <1>1, <1>3 DEF RequestsOf

(* A first element and the rest. *)
LEMMA FirstAndRest ==
  ASSUME NEW S, NEW x \in S, NEW s \in Seq(S)
  PROVE  /\ <<x>> \o s \in Seq(S) /\ Len(<<x>> \o s) = Len(s) + 1
         /\ <<x>> \o s # <<>>
         /\ Head(<<x>> \o s) = x /\ Tail(<<x>> \o s) = s
<1> DEFINE t == <<x>> \o s
<1>1. <<x>> \in Seq(S) /\ Len(<<x>>) = 1 /\ <<x>>[1] = x /\ Len(s) \in Nat
  BY LenProperties
<1>2. /\ t \in Seq(S) /\ Len(t) = 1 + Len(s)
      /\ \A i \in 1..(1 + Len(s)) :
           t[i] = IF i <= 1 THEN <<x>>[i] ELSE s[i - 1]
  BY <1>1, ConcatProperties
<1> HIDE DEF t
<1>3. t # <<>> /\ t[1] = x /\ Head(t) = t[1]
  BY <1>1, <1>2
<1>4. /\ Tail(t) \in Seq(S) /\ Len(Tail(t)) = Len(s)
      /\ \A i \in 1..Len(s) : Tail(t)[i] = t[i + 1]
  BY <1>1, <1>2, <1>3, HeadTailProperties
<1>5. \A i \in 1..Len(s) : t[i + 1] = s[i]
  BY <1>1, <1>2
<1>6. Tail(t) = s
  BY <1>4, <1>5, SeqEqual
<1> QED BY <1>1, <1>2, <1>3, <1>6 DEF t

LEMMA AppendToRest ==
  ASSUME NEW S, NEW x \in S, NEW y \in S, NEW s \in Seq(S)
  PROVE  <<x>> \o Append(s, y) = Append(<<x>> \o s, y)
<1>1. <<x>> \in Seq(S) /\ <<y>> \in Seq(S) /\ <<x>> \o s \in Seq(S)
  BY FirstAndRest
<1>2. Append(s, y) = s \o <<y>>
  BY AppendIsConcat
<1>3. Append(<<x>> \o s, y) = (<<x>> \o s) \o <<y>>
  BY <1>1, AppendIsConcat
<1>4. (<<x>> \o s) \o <<y>> = <<x>> \o (s \o <<y>>)
  BY <1>1, ConcatAssociative
<1> QED BY <1>2, <1>3, <1>4

LEMMA RequestsOfAppend ==
  ASSUME NEW infos \in Seq(DanmuInfo), NEW i \in DanmuInfo
  PROVE  RequestsOf(Append(infos, i)) = Append(RequestsOf(infos), RequestOf(i))
<1> DEFINE more == Append(infos, i)
           reqs == Append(RequestsOf(infos), RequestOf(i))
<1>1. /\ more \in Seq(DanmuInfo) /\ Len(more) = Len(infos) + 1
      /\ more[Len(infos) + 1] = i
      /\ \A k \in 1..Len(infos) : more[k] = infos[k]
  BY AppendProperties
<1>2. /\ reqs \in Seq(Line!Request) /\ Len(reqs) = Len(infos) + 1
      /\ reqs[Len(infos) + 1] = RequestOf(i)
      /\ \A k \in 1..Len(infos) : reqs[k] = RequestOf(infos[k])
  BY RequestIs, RequestsAt, AppendProperties
<1> HIDE DEF more, reqs
<1>3. /\ RequestsOf(more) \in Seq(Line!Request)
      /\ Len(RequestsOf(more)) = Len(infos) + 1
      /\ \A k \in 1..(Len(infos) + 1) : RequestsOf(more)[k] = RequestOf(more[k])
  BY <1>1, RequestsAt
<1>4. \A k \in 1..(Len(infos) + 1) : RequestsOf(more)[k] = reqs[k]
  <2>1. Len(infos) \in Nat
    BY RequestsAt
  <2> QED BY <1>1, <1>2, <1>3, <2>1
<1>5. RequestsOf(more) = reqs
  BY <1>2, <1>3, <1>4, SeqEqual
<1> QED BY <1>5 DEF more, reqs

LEMMA RequestsOfTail ==
  ASSUME NEW infos \in Seq(DanmuInfo), infos # <<>>
  PROVE  RequestsOf(infos) = <<RequestOf(Head(infos))>> \o RequestsOf(Tail(infos))
<1> DEFINE rest == Tail(infos)
           r == RequestOf(Head(infos))
           reqs == <<r>> \o RequestsOf(rest)
           n == Len(infos)
<1>1. /\ n \in Nat /\ n > 0 /\ Len(rest) = n - 1 /\ rest \in Seq(DanmuInfo)
      /\ Head(infos) = infos[1] /\ Head(infos) \in DanmuInfo
      /\ \A i \in 1..(n - 1) : rest[i] = infos[i + 1]
  BY LenProperties, HeadTailProperties
<1> HIDE DEF rest, n
<1>2. /\ r \in Line!Request /\ RequestsOf(rest) \in Seq(Line!Request)
      /\ Len(RequestsOf(rest)) = n - 1
      /\ \A i \in 1..(n - 1) : RequestsOf(rest)[i] = RequestOf(rest[i])
  BY <1>1, RequestIs, RequestsAt
<1>3. r = RequestOf(infos[1])
  BY <1>1
<1> HIDE DEF r
<1>4. <<r>> \in Seq(Line!Request) /\ Len(<<r>>) = 1 /\ <<r>>[1] = r
  BY <1>2
<1>5. /\ reqs \in Seq(Line!Request) /\ Len(reqs) = n
      /\ \A i \in 1..n :
           reqs[i] = IF i <= 1 THEN <<r>>[i] ELSE RequestsOf(rest)[i - 1]
  BY <1>1, <1>2, <1>4, ConcatProperties
<1> HIDE DEF reqs
<1>6. ASSUME NEW i \in 1..n PROVE reqs[i] = RequestOf(infos[i])
  <2>1. CASE i = 1
    BY <1>3, <1>4, <1>5, <2>1
  <2>2. CASE i # 1
    <3>1. i - 1 \in 1..(n - 1) /\ (i - 1) + 1 = i
      BY <1>1, <2>2
    <3>2. ~ (i <= 1)
      BY <1>1, <2>2
    <3>3. reqs[i] = RequestsOf(rest)[i - 1]
      BY <1>5, <3>2
    <3>4. RequestsOf(rest)[i - 1] = RequestOf(rest[i - 1])
      BY <1>2, <3>1
    <3>5. rest[i - 1] = infos[i]
      BY <1>1, <3>1
    <3> QED BY <3>3, <3>4, <3>5
  <2> QED BY <2>1, <2>2
<1>7. reqs = RequestsOf(infos)
  <2>1. /\ RequestsOf(infos) \in Seq(Line!Request) /\ Len(RequestsOf(infos)) = n
        /\ \A i \in 1..n : RequestsOf(infos)[i] = RequestOf(infos[i])
    BY RequestsAt DEF n
  <2> QED BY <1>5, <1>6, <2>1, SeqEqual
<1> QED BY <1>7 DEF reqs, r, rest

(* The line's steps: a danmu is a request more, ... *)
LEMMA AskImplemented ==
  ASSUME LineInv, NEW danmu \in Danmus, danmu_callback(danmu)
  PROVE  \E req \in Line!Request : Line!Ask(req)
<1> DEFINE new == UserInfoOf(danmu)
           r == RequestOf(new)
<1>1. /\ socket' = Append(socket, new) /\ Len(socket) < SocketSize
      /\ UNCHANGED <<list, pc, file, info, page>> /\ danmu \in Danmu
  BY LiveQueueAssumption DEF danmu_callback, queueVars
<1>2. new \in DanmuInfo /\ Types /\ socket \in Seq(DanmuInfo)
  BY <1>1 DEF UserInfoOf, DanmuInfo, UserInfo, Danmu, LineInv, IInv, Types
<1> HIDE DEF new
<1>3. r \in Line!Request
  BY <1>2, RequestIs
<1>4. RequestsOf(socket') = Append(RequestsOf(socket), r)
  BY <1>1, <1>2, RequestsOfAppend
<1>5. Unserved' <=> Unserved
  BY <1>1 DEF Unserved
<1>6. Unserved => RequestOf(info) \in Line!Request
  BY <1>2, RequestIs DEF Unserved, Types
<1>7. RequestsOf(socket) \in Seq(Line!Request)
      /\ Len(RequestsOf(socket)) = Len(socket) /\ Len(socket) \in Nat
  BY <1>2, RequestsAt
<1> HIDE DEF r
<1>8. PendingOfSocket' = Append(PendingOfSocket, r)
  <2>1. CASE Unserved
    <3>1. PendingOfSocket' = <<RequestOf(info)>> \o RequestsOf(socket')
      BY <1>1, <1>5, <2>1, NextPendingIs
    <3>2. PendingOfSocket = <<RequestOf(info)>> \o RequestsOf(socket)
      BY <2>1, PendingIs
    <3>3. <<RequestOf(info)>> \o Append(RequestsOf(socket), r)
            = Append(<<RequestOf(info)>> \o RequestsOf(socket), r)
      BY <1>3, <1>6, <1>7, <2>1, AppendToRest
    <3> QED BY <1>4, <3>1, <3>2, <3>3
  <2>2. CASE ~ Unserved
    BY <1>4, <1>5, <2>2, PendingIs, NextPendingIs
  <2> QED BY <2>1, <2>2
<1>9. Len(PendingOfSocket) < SocketSize + 1
  <2>1. Unserved => Len(<<RequestOf(info)>> \o RequestsOf(socket)) = Len(socket) + 1
    BY <1>6, <1>7, FirstAndRest
  <2>2. Len(PendingOfSocket) \in {Len(socket), Len(socket) + 1}
    BY <1>7, <2>1, PendingIs
  <2> QED BY <1>1, <1>7, <2>2, LiveQueueAssumption
<1>10. UNCHANGED <<conf, LineOfList, page>>
  BY <1>1 DEF conf, LineOfList
<1> QED BY <1>3, <1>8, <1>9, <1>10 DEF Line!Ask

(* ... reading it changes nothing, ... *)
LEMMA ReadImplemented ==
  ASSUME LineInv, ReadInfo
  PROVE  UNCHANGED Line!vars
<1>1. /\ info = None /\ socket # <<>>
      /\ info' = Head(socket) /\ socket' = Tail(socket)
      /\ UNCHANGED <<list, pc, file, page, wants>>
  BY DEF ReadInfo, queueVars
<1>2. socket \in Seq(DanmuInfo) /\ pc[engine] = "idle"
  BY <1>1, EngineThread DEF LineInv, IInv, InHand, Types
<1>3. info' # None
  <2>1. Head(socket) \in DanmuInfo
    BY <1>1, <1>2, HeadTailProperties
  <2> QED BY <1>1, <2>1, NoneAssumption DEF DanmuInfo
<1>4. PendingOfSocket = RequestsOf(socket)
  BY <1>1, PendingIs DEF Unserved
<1>5. PendingOfSocket' = <<RequestOf(info')>> \o RequestsOf(socket')
  BY <1>1, <1>2, <1>3, NextPendingIs DEF Unserved
<1>6. PendingOfSocket' = PendingOfSocket
  BY <1>1, <1>2, <1>4, <1>5, RequestsOfTail
<1>7. UNCHANGED <<conf, LineOfList, page>>
  BY <1>1 DEF conf, LineOfList
<1> QED BY <1>6, <1>7 DEF Line!vars
(* ... and who has been served leaves the requests. *)
LEMMA OneServed ==
  ASSUME LineInv, Unserved, ~ Unserved', UNCHANGED socket
  PROVE  /\ PendingOfSocket # <<>>
         /\ Head(PendingOfSocket) = [user |-> info.uid, cancel |-> info.cancel_queue_up]
         /\ PendingOfSocket' = Tail(PendingOfSocket)
<1>1. info \in DanmuInfo /\ socket \in Seq(DanmuInfo)
  BY DEF Unserved, LineInv, IInv, Types
<1> DEFINE r == RequestOf(info)
           reqs == RequestsOf(socket)
<1>2. /\ r \in Line!Request /\ reqs \in Seq(Line!Request)
      /\ r = [user |-> info.uid, cancel |-> info.cancel_queue_up]
  BY <1>1, RequestIs, RequestsAt
<1>3. PendingOfSocket = <<r>> \o reqs
  BY PendingIs
<1>4. PendingOfSocket' = reqs
  BY NextPendingIs
<1> HIDE DEF r, reqs
<1> QED BY <1>2, <1>3, <1>4, FirstAndRest

LEMMA NextLineIs ==
  LineOfList' = ViewersOf(list', IF pc'[engine] = "counting_up"
                                 THEN Len(list') - 1 ELSE Len(list'))
BY DEF LineOfList, ViewersOf

LEMMA LineAt ==
  ASSUME LineInv
  PROVE  /\ Counted \in Nat /\ Counted <= Len(list) /\ Len(list) \in Nat
         /\ LineOfList \in Seq(Users) /\ Len(LineOfList) = Counted
         /\ \A i \in 1..Counted : LineOfList[i] = list[i].anchorage
<1>1. /\ Len(list) \in Nat
      /\ list \in Seq([anchorage : Users, data : UnitData])
  BY RingTypes DEF LineInv, IInv
<1>2. Counted \in Nat /\ Counted <= Len(list)
  BY <1>1 DEF Counted, LineInv, LinkedLast
<1> HIDE DEF Counted
<1> QED BY <1>1, <1>2, LineIs, ViewersAt

LEMMA WaitsIs ==
  ASSUME LineInv, pc[engine] # "counting_up", NEW v
  PROVE  Line!Waits(v) <=> InLine(v)
<1>1. Counted = Len(list)
  BY DEF Counted
<1> QED BY <1>1, LineAt DEF Line!Waits, InLine

LEMMA IgnoreImplemented ==
  ASSUME LineInv, IgnoreInfo
  PROVE  Line!Serve
<1>1. /\ info # None /\ ~ info.cancel_queue_up /\ ~ Allowed /\ info' = None
      /\ UNCHANGED <<list, pc, file, socket, page, wants>>
  BY DEF IgnoreInfo, queueVars
<1>2. ~ conf.allow_danmu_queueup
  BY <1>1 DEF LineInv, IInv, Types, DanmuInfo, Allowed
<1>3. Unserved /\ ~ Unserved'
  BY <1>1 DEF LineInv, IInv, InHand, Unserved
<1>4. /\ PendingOfSocket # <<>>
      /\ Head(PendingOfSocket) = [user |-> info.uid, cancel |-> info.cancel_queue_up]
      /\ PendingOfSocket' = Tail(PendingOfSocket)
  BY <1>1, <1>3, OneServed
<1>5. Line!Served(Head(PendingOfSocket)) = LineOfList
  BY <1>1, <1>2, <1>4 DEF Line!Served
<1>6. UNCHANGED <<conf, LineOfList, page>>
  BY <1>1 DEF conf, LineOfList
<1> QED BY <1>4, <1>5, <1>6 DEF Line!Serve

LEMMA FinishImplemented ==
  ASSUME LineInv, FinishInfo
  PROVE  Line!Serve \/ UNCHANGED Line!vars
<1>1. /\ pc[engine] \in {"counting_up", "counting_down"}
      /\ pc' = [pc EXCEPT ![engine] = "idle"] /\ info' = None
      /\ UNCHANGED <<list, file, socket, page, wants>>
  BY DEF FinishInfo, Q!CountUp, Q!CountDown
<1>2. pc'[engine] = "idle" /\ UNCHANGED conf
  BY <1>1, EngineThread DEF LineInv, IInv, conf
<1>3. list \in Seq([anchorage : Users, data : UnitData]) /\ Len(list) \in Nat
  BY RingTypes DEF LineInv, IInv
<1> DEFINE all == ViewersOf(list, Len(list))
<1>4. LineOfList' = all
  BY <1>1, <1>2, NextLineIs
<1>5. CASE pc[engine] = "counting_down"
  <2>1. LineOfList = all
    BY <1>5, LineIs DEF Counted
  <2>2. ~ Unserved /\ ~ Unserved'
    BY <1>1, <1>5 DEF Unserved
  <2>3. PendingOfSocket' = PendingOfSocket
    BY <1>1, <2>2, PendingIs, NextPendingIs
  <2> QED BY <1>1, <1>2, <1>4, <2>1, <2>3 DEF Line!vars
<1>6. CASE pc[engine] = "counting_up"
  <2>1. /\ info # None /\ ~ info.cancel_queue_up /\ conf.allow_danmu_queueup
        /\ Len(list) > 0 /\ list[Len(list)].anchorage = info.uid
        /\ info.uid \in Users
    BY <1>6 DEF LineInv, IInv, InHand, LinkedLast, Types, DanmuInfo, UserInfo
  <2>2. Unserved /\ ~ Unserved'
    BY <1>1, <1>6, <2>1 DEF Unserved
  <2>3. /\ PendingOfSocket # <<>>
        /\ Head(PendingOfSocket) = [user |-> info.uid, cancel |-> info.cancel_queue_up]
        /\ PendingOfSocket' = Tail(PendingOfSocket)
    BY <1>1, <2>2, OneServed
  <2> DEFINE n == Len(list) - 1
  <2>4. /\ Counted = n /\ n \in Nat /\ Len(list) = n + 1
    BY <1>3, <1>6, <2>1 DEF Counted
  <2>5. /\ LineOfList \in Seq(Users) /\ Len(LineOfList) = n
        /\ \A i \in 1..n : LineOfList[i] = list[i].anchorage
    BY <2>4, LineAt
  <2> HIDE DEF n
  <2>6. ~ Line!Waits(info.uid)
    <3>1. \A i, j \in 1..Len(list) : list[i].anchorage = list[j].anchorage => i = j
      BY DEF LineInv, IInv, QP!IInv, QP!NoDuplicates
    <3>2. \A i \in 1..n : i \in 1..Len(list) /\ i # Len(list)
                         /\ Len(list) \in 1..Len(list)
      BY <2>4
    <3>3. \A i \in 1..n : LineOfList[i] # info.uid
      BY <2>1, <2>5, <3>1, <3>2
    <3> QED BY <2>5, <3>3 DEF Line!Waits
  <2>7. all = Append(LineOfList, info.uid)
    <3> DEFINE more == Append(LineOfList, info.uid)
    <3>1. /\ more \in Seq(Users) /\ Len(more) = n + 1
          /\ \A i \in 1..n : more[i] = list[i].anchorage
          /\ more[n + 1] = info.uid
      BY <2>1, <2>5, AppendProperties
    <3>2. /\ all \in Seq(Users) /\ Len(all) = n + 1
          /\ \A i \in 1..(n + 1) : all[i] = list[i].anchorage
      <4>1. /\ all \in Seq(Users) /\ Len(all) = Len(list)
            /\ \A i \in 1..Len(list) : all[i] = list[i].anchorage
        <5>1. Len(list) <= Len(list)
          BY <1>3
        <5> QED BY <1>3, <5>1, ViewersAt
      <4> QED BY <2>4, <4>1
    <3> HIDE DEF more, all
    <3>3. ASSUME NEW i \in 1..(n + 1) PROVE all[i] = more[i]
      <4>1. CASE i = n + 1
        BY <2>1, <2>4, <3>1, <3>2, <4>1
      <4>2. CASE i # n + 1
        <5>1. i \in 1..n
          BY <2>4, <4>2
        <5> QED BY <3>1, <3>2, <5>1
      <4> QED BY <4>1, <4>2
    <3>4. all = more
      BY <3>1, <3>2, <3>3, SeqEqual
    <3> QED BY <3>4 DEF more
  <2>8. Line!Served(Head(PendingOfSocket)) = Append(LineOfList, info.uid)
    BY <2>1, <2>3, <2>6 DEF Line!Served
  <2> HIDE DEF all
  <2> QED BY <1>1, <1>2, <1>4, <2>3, <2>7, <2>8 DEF Line!Serve
<1> QED BY <1>1, <1>5, <1>6
(* What an act upon the request makes of the line. *)
LEMMA UnlinkedLine ==
  ASSUME LineInv, NEW v \in Users, QP!Unlink(engine, v)
  PROVE  /\ Line!Waits(v)
         /\ LineOfList' = RemoveAt(LineOfList, Line!PlaceOf(v))
<1>1. /\ pc[engine] = "idle" /\ pc'[engine] = "counting_down" /\ QP!IInv
  BY EngineThread DEF QP!Unlink, QP!MayEnter, LineInv, IInv
<1>2. /\ Len(list) \in Nat /\ Len(list') = Len(list) - 1
      /\ list' \in Seq(QP!Unit)
      /\ \E p \in 1..Len(list) :
           /\ list[p].anchorage = v
           /\ \A k \in 1..(Len(list) - 1) :
                list'[k] = IF k < p THEN list[k] ELSE list[k + 1]
  BY <1>1, ListAssumption, QP!UnlinkRing
<1>3. PICK p \in 1..Len(list) :
           /\ list[p].anchorage = v
           /\ \A k \in 1..(Len(list) - 1) :
                list'[k] = IF k < p THEN list[k] ELSE list[k + 1]
  BY <1>2
<1>4. \A i, j \in 1..Len(list) : list[i].anchorage = list[j].anchorage => i = j
  BY <1>1 DEF QP!IInv, QP!NoDuplicates
<1>5. /\ LineOfList \in Seq(Users) /\ Len(LineOfList) = Len(list)
      /\ \A i \in 1..Len(list) : LineOfList[i] = list[i].anchorage
  BY <1>1, LineAt DEF Counted
<1>6. Line!Waits(v) /\ Line!PlaceOf(v) = p
  <2>1. Line!Waits(v)
    BY <1>3, <1>5 DEF Line!Waits
  <2>2. \A i \in 1..Len(LineOfList) : LineOfList[i] = v <=> i = p
    BY <1>3, <1>4, <1>5
  <2>3. Line!PlaceOf(v) = CHOOSE i \in 1..Len(LineOfList) : LineOfList[i] = v
    BY DEF Line!PlaceOf
  <2>4. p \in 1..Len(LineOfList)
    BY <1>3, <1>5
  <2> QED BY <2>1, <2>2, <2>3, <2>4
<1> DEFINE less == RemoveAt(LineOfList, p)
           left == ViewersOf(list', Len(list'))
<1>7. less = QP!RemoveAt(LineOfList, p)
  BY DEF RemoveAt, QP!RemoveAt
<1>8. /\ less \in Seq(Users) /\ Len(less) = Len(list) - 1
      /\ \A k \in 1..(Len(list) - 1) :
           less[k] = IF k < p THEN LineOfList[k] ELSE LineOfList[k + 1]
  <2>1. p \in 1..Len(LineOfList)
    BY <1>3, <1>5
  <2> DEFINE cut == QP!RemoveAt(LineOfList, p)
  <2>2. /\ cut \in Seq(Users) /\ Len(cut) = Len(LineOfList) - 1
        /\ \A k \in 1..(Len(LineOfList) - 1) :
             cut[k] = IF k < p THEN LineOfList[k] ELSE LineOfList[k + 1]
    BY <1>5, <2>1, ListAssumption, QP!RemoveAtProperties
  <2> HIDE DEF cut
  <2> QED BY <1>5, <1>7, <2>2 DEF cut
<1>9. LineOfList' = left
  BY <1>1, NextLineIs
<1>10. /\ left \in Seq(Users) /\ Len(left) = Len(list) - 1
       /\ \A k \in 1..(Len(list) - 1) : left[k] = list'[k].anchorage
  <2>1. QP!Unit \subseteq [anchorage : Users, data : UnitData]
    BY DEF QP!Unit, QP!Data
  <2>2. \A i \in 1..Len(list') : list'[i] \in QP!Unit
    BY <1>2
  <2>3. \A i \in 1..Len(list') : list'[i].anchorage \in Users
    BY <2>1, <2>2
  <2>4. Len(list') \in Nat
    BY <1>2, LenProperties
  <2> QED BY <1>2, <2>3, <2>4 DEF ViewersOf
<1> HIDE DEF less, left
<1>11. ASSUME NEW k \in 1..(Len(list) - 1) PROVE left[k] = less[k]
  <2>1. k \in 1..Len(list) /\ k + 1 \in 1..Len(list)
    BY <1>2
  <2> QED BY <1>3, <1>5, <1>8, <1>10, <2>1
<1>12. left = less
  BY <1>8, <1>10, <1>11, SeqEqual
<1> QED BY <1>6, <1>9, <1>12 DEF less

LEMMA LinkedLine ==
  ASSUME LineInv, NEW v \in Users, NEW d \in UnitData, d.weight = 1,
         QP!Link(engine, v, d)
  PROVE  /\ LineOfList' = LineOfList
         /\ Len(list') > 0 /\ list'[Len(list')].anchorage = v
<1>1. /\ pc[engine] = "idle" /\ pc'[engine] = "counting_up" /\ QP!IInv
      /\ EqualWeights
  BY EngineThread DEF QP!Link, QP!MayEnter, LineInv, IInv
<1> DEFINE p == QP!PlaceOf(d)
           n == Len(list)
<1>2. d \in [u \in Users |-> UnitData][v]
  OBVIOUS
<1>3. /\ elem_num = n /\ n \in Nat /\ Len(list') = n + 1 /\ list' \in Seq(QP!Unit)
      /\ p \in 1..(n + 1)
      /\ list'[p] = [anchorage |-> v, data |-> d]
      /\ \A k \in 1..(p - 1) : list'[k] = list[k]
  BY <1>1, <1>2, ListAssumption, QP!LinkRing
<1>4. p = n + 1
  <2>1. n # 0 => QP!Weight(1) = 1 /\ QP!Weight(n) = 1
    BY <1>1, <1>3 DEF EqualWeights, QP!Weight
  <2>2. QP!qlist_append(1, tmp_unit) = n
    BY <1>3, <2>1 DEF QP!qlist_append
  <2> QED BY <2>2 DEF QP!PlaceOf
<1> HIDE DEF p
<1>5. Len(list') > 0 /\ list'[Len(list')].anchorage = v
  BY <1>3, <1>4
<1>6. LineOfList' = ViewersOf(list', n)
  <2>1. Len(list') - 1 = n
    BY <1>3
  <2> QED BY <1>1, <2>1, NextLineIs
<1>7. LineOfList = ViewersOf(list, n)
  BY <1>1, LineIs DEF Counted
<1>8. \A i \in 1..n : list'[i] = list[i]
  BY <1>3, <1>4
<1>9. ViewersOf(list', n) = ViewersOf(list, n)
  BY <1>8 DEF ViewersOf
<1> QED BY <1>5, <1>6, <1>7, <1>9

LEMMA RefreshedLine ==
  ASSUME LineInv, NEW v \in Users, NEW d \in UnitData, QP!Refresh(engine, v, d)
  PROVE  LineOfList' = LineOfList /\ InLine(v)
<1>1. /\ pc[engine] = "idle" /\ pc' = pc /\ QP!IInv
  BY DEF QP!Refresh, QP!MayEnter, LineInv, IInv
<1>2. d \in [u \in Users |-> UnitData][v]
  OBVIOUS
<1>3. /\ Len(list') = Len(list)
      /\ \A i \in 1..Len(list) : list'[i].anchorage = list[i].anchorage
      /\ \E p \in 1..Len(list) : list[p].anchorage = v
  BY <1>1, <1>2, ListAssumption, QP!RefreshRing
<1>4. /\ LineOfList = ViewersOf(list, Len(list))
      /\ LineOfList' = ViewersOf(list', Len(list))
  BY <1>1, <1>3, LineIs, NextLineIs DEF Counted
<1> QED BY <1>3, <1>4 DEF ViewersOf, InLine
LEMMA ApplyImplemented ==
  ASSUME LineInv, ApplyInfo
  PROVE  (Line!Serve \/ UNCHANGED Line!vars) /\ LinkedLast'
<1>1. /\ info # None /\ info' = IF pc'[engine] = "idle" THEN None ELSE info
      /\ UNCHANGED <<file, socket, page, wants, conf>>
  BY DEF ApplyInfo, conf
<1>2. /\ info \in DanmuInfo /\ info \in UserInfo /\ DataOfInfo \in UnitData
      /\ info.info_type = "DANMU_MSG"
  BY <1>1, InfoData DEF LineInv, IInv, Types, DanmuInfo
<1>3. PICK v \in Users : info.uid = v
  BY <1>2 DEF UserInfo
<1>4. PICK d \in UnitData : d = DataOfInfo
  BY <1>2
<1>5. d.weight = 1
  BY <1>2, <1>4 DEF LineInv, DataOfInfo, QueueWeight
<1>6. \/ /\ info.cancel_queue_up
         /\ QP!Unlink(engine, v) \/ QP!NotQueued(engine, v)
      \/ /\ ~ info.cancel_queue_up /\ conf.allow_danmu_queueup
         /\ \/ QP!Refresh(engine, v, d) \/ QP!Link(engine, v, d)
            \/ QP!Refuse(engine, v, d)
  BY <1>2, <1>3, <1>4, SameWriterSteps
     DEF ApplyInfo, Allowed, Q!qlist_subtract
<1>7. ~ QP!Refuse(engine, v, d)
  BY <1>5, NobodyRefused DEF LineInv, IInv
<1>8. pc[engine] = "idle" /\ Unserved
  BY <1>1, <1>6 DEF QP!Unlink, QP!NotQueued, QP!Refresh, QP!Link, QP!Refuse,
                    QP!MayEnter, Unserved
<1>9. ~ Unserved' => /\ PendingOfSocket # <<>>
                     /\ Head(PendingOfSocket) = [user |-> v, cancel |-> info.cancel_queue_up]
                     /\ PendingOfSocket' = Tail(PendingOfSocket)
  BY <1>1, <1>3, <1>8, OneServed
<1>10. Line!Waits(v) <=> InLine(v)
  BY <1>8, WaitsIs
<1>11. ASSUME ~ Unserved', pc'[engine] # "counting_up",
              LineOfList' = Line!Served([user |-> v, cancel |-> info.cancel_queue_up])
       PROVE  Line!Serve /\ LinkedLast'
  <2>1. LinkedLast'
    BY <1>11 DEF LinkedLast
  <2> QED BY <1>1, <1>9, <1>11, <2>1 DEF Line!Serve
<1>12. CASE QP!Unlink(engine, v) /\ info.cancel_queue_up
  <2>1. pc'[engine] = "counting_down"
    BY <1>12, EngineThread DEF QP!Unlink, LineInv, IInv
  <2>2. ~ Unserved'
    BY <2>1 DEF Unserved
  <2>3. Line!Waits(v) /\ LineOfList' = RemoveAt(LineOfList, Line!PlaceOf(v))
    BY <1>12, UnlinkedLine
  <2>4. LineOfList' = Line!Served([user |-> v, cancel |-> info.cancel_queue_up])
    BY <1>12, <2>3 DEF Line!Served, Line!RemoveAt, RemoveAt
  <2> QED BY <1>11, <2>1, <2>2, <2>4
<1>13. CASE QP!NotQueued(engine, v) /\ info.cancel_queue_up
  <2>1. ~ InLine(v) /\ list' = list /\ pc' = pc
    BY <1>13, NotQueuedInLine DEF LineInv, IInv, QP!NotQueued
  <2>2. ~ Unserved' /\ pc'[engine] # "counting_up"
    BY <1>1, <1>8, <2>1 DEF Unserved
  <2>3. LineOfList' = LineOfList
    BY <2>1 DEF LineOfList
  <2>4. LineOfList' = Line!Served([user |-> v, cancel |-> info.cancel_queue_up])
    BY <1>10, <1>13, <2>1, <2>3 DEF Line!Served
  <2> QED BY <1>11, <2>2, <2>4
<1>14. CASE QP!Refresh(engine, v, d) /\ ~ info.cancel_queue_up
  <2>1. LineOfList' = LineOfList /\ InLine(v) /\ pc' = pc
    BY <1>14, RefreshedLine DEF QP!Refresh
  <2>2. ~ Unserved' /\ pc'[engine] # "counting_up"
    BY <1>1, <1>8, <2>1 DEF Unserved
  <2>3. LineOfList' = Line!Served([user |-> v, cancel |-> info.cancel_queue_up])
    BY <1>10, <1>14, <2>1 DEF Line!Served
  <2> QED BY <1>11, <2>2, <2>3
<1>15. CASE QP!Link(engine, v, d)
  <2>1. pc'[engine] = "counting_up"
    BY <1>15, EngineThread DEF QP!Link, LineInv, IInv
  <2>2. /\ LineOfList' = LineOfList
        /\ Len(list') > 0 /\ list'[Len(list')].anchorage = v
    BY <1>5, <1>15, LinkedLine
  <2>3. info' = info
    BY <1>1, <2>1
  <2>4. Unserved'
    BY <1>1, <2>1, <2>3 DEF Unserved
  <2>5. PendingOfSocket' = PendingOfSocket
    BY <1>1, <1>8, <2>3, <2>4, PendingIs, NextPendingIs
  <2>6. LinkedLast'
    BY <1>3, <2>2, <2>3 DEF LinkedLast
  <2> QED BY <1>1, <2>2, <2>5, <2>6 DEF Line!vars
<1> QED BY <1>6, <1>7, <1>12, <1>13, <1>14, <1>15

(* A page is the line of one instant. *)
LEMMA PageImplemented ==
  ASSUME LineInv, HttpStep
  PROVE  (Line!Show \/ UNCHANGED Line!vars) /\ ~ invert'[http]
<1>1. /\ UNCHANGED <<list, file, socket, info, wants, conf>>
      /\ pc'[engine] = pc[engine]
  BY HttpSteps DEF LineInv, conf
<1>2. LineOfList' = LineOfList
  BY <1>1 DEF LineOfList
<1>3. PendingOfSocket' = PendingOfSocket
  BY <1>1, PendingIs, NextPendingIs DEF Unserved
<1>4. ~ invert'[http]
  <2>1. invert \in [{http} -> BOOLEAN]
    BY DEF LineInv, IInv, QP!IInv, QP!TypeOK
  <2> QED BY <2>1 DEF HttpStep, PageRequest, PageLock, PageRow, PageSent,
         Q!ForeachCall, Q!ForeachLock, Q!ForeachVisit, Q!ForeachDone,
         Q!ForeachReturn, LineInv
<1>5. elem_num = Len(list) + (IF pc[engine] = "counting_up" THEN -1
                              ELSE IF pc[engine] = "counting_down" THEN 1 ELSE 0)
  BY DEF LineInv, IInv, QP!IInv, QP!CountMatches
<1>6. CASE page' = page
  BY <1>1, <1>2, <1>3, <1>4, <1>6 DEF Line!vars
<1>7. CASE page' # page
  <2>1. page' = LineOfList
    <3>1. CASE PageRequest
      <4>1. pc[http] = "idle" /\ page' = <<>> /\ pc'[http] = "idle"
        BY <1>7, <3>1 DEF PageRequest, Q!ForeachCall
      <4>2. elem_num = 0
        BY <3>1, <4>1, EngineThread DEF PageRequest, Q!ForeachCall, LineInv, IInv
      <4>3. Counted = 0
        BY <1>5, <4>2, LineAt DEF Counted
      <4>4. LineOfList = <<>>
        BY <4>3, LineAt
      <4> QED BY <4>1, <4>4
    <3>2. CASE PageSent
      <4>1. /\ pc[http] = "walking" /\ Len(shown[http]) >= elem_num
            /\ page' = [i \in 1..Len(shown[http]) |-> RowOf(shown[http][i])]
        BY <3>2 DEF PageSent, Q!ForeachDone
      <4>2. pc[engine] = "idle"
        <5>1. /\ lock = http
              /\ lock = engine <=> pc[engine] \in {"counting_up", "counting_down", "walking"}
          BY <4>1 DEF LineInv, IInv, QP!IInv, QP!LockProtocol, QP!Threads
        <5> QED BY <5>1, EngineThread DEF LineInv, IInv
      <4>3. /\ Len(shown[http]) <= Len(list)
            /\ \A k \in 1..Len(shown[http]) : shown[http][k] = list[k]
        BY <4>1 DEF LineInv, IInv, QP!IInv, QP!WalkSeesRing, QP!SeenPrefix
      <4>4. Len(shown[http]) = Len(list)
        <5>1. Len(shown[http]) \in Nat /\ Len(list) \in Nat
          BY RingTypes, LenProperties DEF LineInv, IInv
        <5> QED BY <1>5, <4>1, <4>2, <4>3, <5>1
      <4>5. LineOfList = [i \in 1..Len(list) |-> list[i].anchorage]
        BY <4>2, LineIs DEF Counted, ViewersOf
      <4> QED BY <4>1, <4>3, <4>4, <4>5 DEF RowOf
    <3>3. ~ PageLock /\ ~ PageRow
      BY <1>7 DEF PageLock, PageRow
    <3> QED BY <3>1, <3>2, <3>3 DEF HttpStep
  <2> QED BY <1>1, <1>2, <1>3, <1>4, <2>1 DEF Line!Show
<1> QED BY <1>6, <1>7

LEMMA LineNext ==
  ASSUME LineInv, [Next]_vars
  PROVE  LineInv' /\ [Line!Next]_(Line!vars)
<1>1. IInv'
  BY NextIInv DEF LineInv
<1>2. ~ conf'.capt_first
  <2>1. file' = file
    BY DEF Next, EngineStep, HttpStep, danmu_callback, ReadInfo, IgnoreInfo,
           ApplyInfo, FinishInfo, PageRequest, PageLock, PageRow, PageSent, vars
  <2> QED BY <2>1 DEF conf, LineInv
<1>3. SUFFICES LinkedLast' /\ ~ invert'[http] /\ [Line!Next]_(Line!vars)
  BY <1>1, <1>2 DEF LineInv
<1>4. CASE \E danmu \in Danmus : danmu_callback(danmu)
  <2>1. [Line!Next]_(Line!vars)
    BY <1>4, AskImplemented DEF Line!Next
  <2> QED BY <1>4, <2>1 DEF danmu_callback, queueVars, LineInv, LinkedLast
<1>5. CASE ReadInfo
  <2>1. UNCHANGED <<list, pc, invert>> /\ info = None
    BY <1>5 DEF ReadInfo, queueVars
  <2>2. pc'[engine] # "counting_up"
    BY <2>1 DEF LineInv, IInv, InHand
  <2> QED BY <1>5, <2>1, <2>2, ReadImplemented DEF LineInv, LinkedLast
<1>6. CASE IgnoreInfo
  <2>1. UNCHANGED <<list, pc, invert>> /\ ~ Allowed /\ info # None
    BY <1>6 DEF IgnoreInfo, queueVars
  <2>2. pc'[engine] # "counting_up"
    BY <2>1 DEF LineInv, IInv, InHand, Types, DanmuInfo, Allowed
  <2> QED BY <1>6, <2>1, <2>2, IgnoreImplemented DEF LineInv, LinkedLast, Line!Next
<1>7. CASE ApplyInfo
  <2>1. invert' = invert
    BY <1>7 DEF ApplyInfo, Q!qlist_subtract, Q!Unlink, Q!NotQueued, Q!Refresh,
                Q!Link, Q!Refuse
  <2> QED BY <1>7, <2>1, ApplyImplemented DEF LineInv, Line!Next
<1>8. CASE FinishInfo
  <2>1. invert' = invert /\ pc' = [pc EXCEPT ![engine] = "idle"]
    BY <1>8 DEF FinishInfo, Q!CountUp, Q!CountDown
  <2>2. pc'[engine] # "counting_up"
    BY <2>1, EngineThread DEF LineInv, IInv
  <2> QED BY <1>8, <2>1, <2>2, FinishImplemented DEF LineInv, LinkedLast, Line!Next
<1>9. CASE HttpStep
  <2>1. UNCHANGED <<list, info>> /\ pc'[engine] = pc[engine]
    BY <1>9, HttpSteps DEF LineInv
  <2> QED BY <1>9, <2>1, PageImplemented DEF LineInv, LinkedLast, Line!Next
<1>10. CASE UNCHANGED vars
  BY <1>10 DEF vars, queueVars, LineInv, LinkedLast, Line!vars, conf, LineOfList,
               PendingOfSocket, RequestOf
<1> QED BY <1>4, <1>5, <1>6, <1>7, <1>8, <1>9, <1>10 DEF Next, EngineStep

(* Without priority for the fleet what three threads do with danmus,       *)
(* socket pair, ring, count and mutex is a waiting line: every step of     *)
(* theirs is one of WaitingLine or changes nothing of it.                  *)
THEOREM ImplementsLineSafely ==
  ASSUME \A f \in ConfigFiles : /\ ~ f.queue_rules.capt_first
                                /\ f.queue_rules.allow_danmu \in BOOLEAN
  PROVE  Spec => Line!Init /\ [][Line!Next]_(Line!vars)
<1>1. ASSUME Init PROVE LineInv /\ Line!Init
  <2>1. /\ list = <<>> /\ pc[engine] = "idle" /\ ~ invert[http]
        /\ socket = <<>> /\ info = None /\ page = <<>> /\ file \in ConfigFiles
    BY <1>1 DEF Init, Q!Init, Q!Threads
  <2>2. ~ conf.capt_first /\ conf.allow_danmu_queueup \in BOOLEAN
    BY <2>1 DEF conf, parse_config
  <2>3. LineInv
    BY <1>1, <2>1, <2>2, InitIInv DEF LineInv, LinkedLast
  <2>4. LineOfList = <<>> /\ PendingOfSocket = <<>>
    BY <2>1 DEF LineOfList, PendingOfSocket
  <2> QED BY <2>1, <2>2, <2>3, <2>4 DEF Line!Init
<1> QED BY <1>1, LineNext, PTL DEF Spec

-----------------------------------------------------------------------------
(* Where what is on its way comes from, for any configuration: a request   *)
(* from a danmu that has passed the filter, a unit from a request to queue.*)
LEMMA RequestsFrom ==
  ASSUME IInv, [Next]_vars, NEW R,
         \A danmu \in Danmus : danmu_callback(danmu) => UserInfoOf(danmu) \in R,
         \A i \in 1..Len(socket) : socket[i] \in R,
         info # None => info \in R
  PROVE  /\ \A i \in 1..Len(socket') : socket'[i] \in R
         /\ info' # None => info' \in R
<1>1. socket \in Seq(DanmuInfo) /\ Len(socket) \in Nat
  BY LenProperties DEF IInv, Types
<1>2. ASSUME NEW danmu \in Danmus, danmu_callback(danmu)
      PROVE  /\ \A i \in 1..Len(socket') : socket'[i] \in R
             /\ info' = info
  <2>1. /\ socket' = Append(socket, UserInfoOf(danmu)) /\ info' = info
        /\ UserInfoOf(danmu) \in R
    BY <1>2 DEF danmu_callback
  <2>2. /\ Len(socket') = Len(socket) + 1
        /\ socket'[Len(socket) + 1] = UserInfoOf(danmu)
        /\ \A i \in 1..Len(socket) : socket'[i] = socket[i]
    BY <1>1, <2>1
  <2> QED BY <1>1, <2>1, <2>2
<1>3. CASE ReadInfo
  <2>1. socket # <<>> /\ info' = Head(socket) /\ socket' = Tail(socket)
    BY <1>3 DEF ReadInfo
  <2>2. /\ Len(socket) > 0 /\ info' = socket[1] /\ Len(socket') = Len(socket) - 1
        /\ \A i \in 1..(Len(socket) - 1) : socket'[i] = socket[i + 1]
    BY <1>1, <2>1, HeadTailProperties
  <2> QED BY <1>1, <2>2
<1>4. CASE IgnoreInfo \/ ApplyInfo \/ FinishInfo
  BY <1>4 DEF IgnoreInfo, ApplyInfo, FinishInfo
<1>5. CASE HttpStep \/ UNCHANGED vars
  BY <1>5, HttpSteps DEF vars
<1> QED BY <1>2, <1>3, <1>4, <1>5 DEF Next, EngineStep

NewUnit == [anchorage |-> info.uid, data |-> DataOfInfo]

LEMMA UnitsFrom ==
  ASSUME IInv, [Next]_vars, NEW k \in 1..Len(list')
  PROVE  \/ \E j \in 1..Len(list) : list'[k] = list[j]
         \/ info # None /\ list'[k] = NewUnit
<1>0. Len(list) \in Nat /\ QP!IInv
  BY RingTypes DEF IInv
<1>1. CASE list' = list
  BY <1>1
<1>2. CASE ApplyInfo /\ list' # list
  <2>1. info # None /\ info \in UserInfo /\ DataOfInfo \in UnitData
    BY <1>2, InfoData DEF ApplyInfo, IInv, Types, DanmuInfo
  <2>2. PICK v \in Users : info.uid = v
    BY <2>1 DEF UserInfo
  <2>3. PICK d \in UnitData : d = DataOfInfo
    BY <2>1
  <2>4. NewUnit = [anchorage |-> v, data |-> d]
    BY <2>2, <2>3 DEF NewUnit
  <2>5. QP!Unlink(engine, v) \/ QP!Refresh(engine, v, d) \/ QP!Link(engine, v, d)
    <3>1. \/ QP!Unlink(engine, v) \/ QP!NotQueued(engine, v)
          \/ QP!Refresh(engine, v, d) \/ QP!Link(engine, v, d)
          \/ QP!Refuse(engine, v, d)
      BY <1>2, <2>2, <2>3, SameWriterSteps DEF ApplyInfo, Q!qlist_subtract
    <3> QED BY <1>2, <3>1 DEF QP!NotQueued, QP!Refuse
  <2>6. d \in [u \in Users |-> UnitData][v]
    OBVIOUS
  <2>7. CASE QP!Unlink(engine, v)
    <3>1. /\ Len(list') = Len(list) - 1
          /\ \E p \in 1..Len(list) : \A j \in 1..(Len(list) - 1) :
                list'[j] = IF j < p THEN list[j] ELSE list[j + 1]
      BY <1>0, <2>7, ListAssumption, QP!UnlinkRing
    <3>2. k \in 1..Len(list) /\ k + 1 \in 1..Len(list)
      BY <1>0, <3>1
    <3>3. list'[k] = list[k] \/ list'[k] = list[k + 1]
      BY <1>0, <3>1
    <3> QED BY <3>2, <3>3
  <2>8. CASE QP!Refresh(engine, v, d)
    <3>1. /\ Len(list') = Len(list) /\ list' \in Seq(QP!Unit)
          /\ \A i \in 1..Len(list) : list'[i].anchorage = list[i].anchorage
          /\ \E p \in 1..Len(list) :
               /\ list[p].anchorage = v
               /\ list'[p].data = d
               /\ \A i \in 1..Len(list) : i # p => list'[i] = list[i]
      BY <1>0, <2>6, <2>8, ListAssumption, QP!RefreshRing
    <3>2. PICK p \in 1..Len(list) :
               /\ list[p].anchorage = v
               /\ list'[p].data = d
               /\ \A i \in 1..Len(list) : i # p => list'[i] = list[i]
      BY <3>1
    <3>3. CASE k = p
      <4>1. list'[k] \in QP!Unit
        BY <1>0, <3>1
      <4>2. list'[k] = [anchorage |-> list'[k].anchorage, data |-> list'[k].data]
        BY <4>1 DEF QP!Unit
      <4> QED BY <2>1, <2>4, <3>1, <3>2, <3>3, <4>2
    <3>4. CASE k # p
      BY <3>1, <3>2, <3>4
    <3> QED BY <3>3, <3>4
  <2>9. CASE QP!Link(engine, v, d)
    <3> DEFINE p == QP!PlaceOf(d)
    <3>1. /\ Len(list') = Len(list) + 1 /\ p \in 1..(Len(list) + 1)
          /\ list'[p] = [anchorage |-> v, data |-> d]
          /\ \A j \in 1..(p - 1) : list'[j] = list[j]
          /\ \A j \in (p + 1)..(Len(list) + 1) : list'[j] = list[j - 1]
      BY <1>0, <2>6, <2>9, ListAssumption, QP!LinkRing
    <3> HIDE DEF p
    <3>2. CASE k < p
      <4>1. k \in 1..Len(list) /\ list'[k] = list[k]
        BY <1>0, <3>1, <3>2
      <4> QED BY <4>1
    <3>3. CASE k > p
      <4>1. k - 1 \in 1..Len(list) /\ list'[k] = list[k - 1]
        BY <1>0, <3>1, <3>3
      <4> QED BY <4>1
    <3>4. CASE k = p
      BY <2>1, <2>4, <3>1, <3>4
    <3> QED BY <1>0, <3>1, <3>2, <3>3, <3>4
  <2> QED BY <2>5, <2>7, <2>8, <2>9
<1>3. ~ ApplyInfo => list' = list
  <2>1. HttpStep => list' = list
    BY HttpSteps
  <2> QED BY <2>1 DEF Next, EngineStep, danmu_callback, ReadInfo, IgnoreInfo,
                      FinishInfo, vars, queueVars, Q!CountUp, Q!CountDown
<1> QED BY <1>1, <1>2, <1>3

LEMMA SameFile == [Next]_vars => file' = file
BY DEF Next, EngineStep, HttpStep, danmu_callback, ReadInfo, IgnoreInfo,
       ApplyInfo, FinishInfo, PageRequest, PageLock, PageRow, PageSent, vars

-----------------------------------------------------------------------------
(* The lists.  Everybody whose request is on its way or who is in line has *)
(* passed the filter.                                                      *)
Passing == {i \in UserInfo : PassesFilter(i.uid)}

FilterInv ==
  /\ \A i \in 1..Len(socket) : socket[i] \in Passing
  /\ info # None => info \in Passing
  /\ \A k \in 1..Len(list) : PassesFilter(list[k].anchorage)

LEMMA FilterInit == Init => FilterInv
BY DEF Init, Q!Init, FilterInv

LEMMA FilterNext == IInv /\ FilterInv /\ [Next]_vars => FilterInv'
<1> SUFFICES ASSUME IInv, FilterInv, [Next]_vars PROVE FilterInv'
  OBVIOUS
<1>1. Passing' = Passing /\ \A u : PassesFilter(u)' = PassesFilter(u)
  BY SameFile DEF Passing, PassesFilter, conf
<1>2. ASSUME NEW danmu \in Danmus, danmu_callback(danmu)
      PROVE  UserInfoOf(danmu) \in Passing
  <2>1. danmu \in Danmu /\ PassesFilter(danmu.uid)
    BY <1>2, LiveQueueAssumption DEF danmu_callback
  <2> QED BY <2>1 DEF UserInfoOf, UserInfo, Danmu, Passing
<1> DEFINE R == Passing
<1>3. /\ \A danmu \in Danmus : danmu_callback(danmu) => UserInfoOf(danmu) \in R
      /\ \A i \in 1..Len(socket) : socket[i] \in R
      /\ info # None => info \in R
  BY <1>2 DEF FilterInv
<1> HIDE DEF R
<1>4. /\ \A i \in 1..Len(socket') : socket'[i] \in R
      /\ info' # None => info' \in R
  BY <1>3, RequestsFrom
<1>5. ASSUME NEW k \in 1..Len(list') PROVE PassesFilter(list'[k].anchorage)
  <2>1. CASE \E j \in 1..Len(list) : list'[k] = list[j]
    BY <2>1 DEF FilterInv
  <2>2. CASE info # None /\ list'[k] = NewUnit
    BY <2>2 DEF FilterInv, Passing, NewUnit
  <2> QED BY <2>1, <2>2, UnitsFrom
<1> QED BY <1>1, <1>4, <1>5 DEF FilterInv, R

LEMMA FilterInvariant == Spec => []FilterInv
BY FilterInit, FilterNext, Invariant, PTL DEF Spec

(* The blacklist as the program can read it: every viewer on it is there   *)
(* as a number, in the section of the rules for those who missed their     *)
(* turn.  (The file as it is shipped is not so.)                           *)
Readable(f) ==
  \A e \in ListIn(f.filter_rules, "blacklist") \cup ListIn(f.pass_rules, "blacklist") :
    \E d \in ListIn(f.pass_rules, "blacklist") :
      d.type = "number" /\ d.value = e.value

(* Nobody who is blacklisted and not whitelisted is ever in line           *)
(* (callbacks.c:340-349), whatever the whitelist looks like, if the        *)
(* program can read the blacklist.                                         *)
THEOREM BlacklistedStayOut ==
  ASSUME \A f \in ConfigFiles : Readable(f)
  PROVE  Spec => []BlacklistHolds
<1>1. IInv /\ FilterInv => BlacklistHolds
  <2> SUFFICES ASSUME IInv, FilterInv,
                      NEW u \in Listed("blacklist") \ Listed("whitelist"), InLine(u)
               PROVE  FALSE
    BY DEF BlacklistHolds
  <2>1. Readable(file)
    BY DEF IInv, Types
  <2>2. PICK e \in ListIn(file.filter_rules, "blacklist")
                   \cup ListIn(file.pass_rules, "blacklist") : e.value = u
    BY DEF Listed, Lists
  <2>3. PICK d \in ListIn(file.pass_rules, "blacklist") :
          d.type = "number" /\ d.value = u
    BY <2>1, <2>2 DEF Readable
  <2>4. search_user_in_list(u, conf.blacklist)
    <3>1. d \in conf.blacklist /\ valueint(d) = u
      BY <2>3 DEF conf, parse_config, valueint
    <3> QED BY <3>1 DEF search_user_in_list
  <2>5. u \in Users /\ u # 0 /\ PassesFilter(u)
    BY RingTypes, LiveQueueAssumption DEF InLine, IInv, FilterInv
  <2>6. ~ search_user_in_list(u, conf.whitelist)
    <3>1. SUFFICES ASSUME NEW w \in ListIn(file.pass_rules, "whitelist"), valueint(w) = u
                   PROVE  FALSE
      BY DEF search_user_in_list, conf, parse_config
    <3>2. w.value = u
      BY <2>5, <3>1 DEF valueint
    <3> QED BY <3>2 DEF Listed, Lists
  <2> QED BY <2>4, <2>5, <2>6 DEF PassesFilter
<1> QED BY <1>1, FilterInvariant, Invariant, PTL
-----------------------------------------------------------------------------
(* The fleet.  Requests and units have the level of a danmu of the viewer, *)
(* and with priority for the fleet a unit's weight is that of its level.   *)
LevelSeen(u, level) == \E danmu \in Danmus : danmu.uid = u /\ danmu.fleet_lv = level

FleetWeight(level) == IF level # 0 THEN (FLEET_LV_MAX - level) + 2 ELSE 1

OfTheFleet(unit) ==
  /\ LevelSeen(unit.anchorage, unit.data.fleet_lv)
  /\ unit.data.weight = FleetWeight(unit.data.fleet_lv)

Leveled == {i \in DanmuInfo : LevelSeen(i.uid, i.fleet_lv)}

FleetInv ==
  /\ \A i \in 1..Len(socket) : socket[i] \in Leveled
  /\ info # None => info \in Leveled
  /\ conf.capt_first => /\ \A k \in 1..Len(list) : OfTheFleet(list[k])
                        /\ QP!InOrder

(* The program never changes a viewer's level: the platform does. *)
SteadyLevels == \A c, d \in Danmus : c.uid = d.uid => c.fleet_lv = d.fleet_lv

LEMMA FleetInit == Init => FleetInv
BY DEF Init, Q!Init, FleetInv, QP!InOrder

LEMMA FleetUnits ==
  ASSUME IInv, FleetInv, [Next]_vars, conf.capt_first, NEW k \in 1..Len(list')
  PROVE  OfTheFleet(list'[k])
<1>1. CASE \E j \in 1..Len(list) : list'[k] = list[j]
  BY <1>1 DEF FleetInv
<1>2. CASE info # None /\ list'[k] = NewUnit
  <2>1. info \in DanmuInfo /\ LevelSeen(info.uid, info.fleet_lv)
    BY <1>2 DEF FleetInv, Leveled
  <2>2. info.info_type = "DANMU_MSG"
    BY <2>1 DEF DanmuInfo
  <2>3. QueueWeight = FleetWeight(info.fleet_lv)
    <3>1. info.fleet_lv \in 0..3
      BY <2>1 DEF DanmuInfo, UserInfo, FleetLevels
    <3> QED BY <2>2, <3>1 DEF QueueWeight, FleetWeight, FLEET_LV_MAX
  <2> QED BY <1>2, <2>1, <2>3 DEF OfTheFleet, NewUnit, DataOfInfo
<1> QED BY <1>1, <1>2, UnitsFrom

LEMMA FleetNext ==
  ASSUME SteadyLevels, IInv, FleetInv, [Next]_vars PROVE FleetInv'
<1>1. conf' = conf
  BY SameFile DEF conf
<1>2. ASSUME NEW danmu \in Danmus, danmu_callback(danmu)
      PROVE  UserInfoOf(danmu) \in Leveled
  <2>1. danmu \in Danmu
    BY LiveQueueAssumption
  <2>2. /\ UserInfoOf(danmu) \in DanmuInfo
        /\ UserInfoOf(danmu).uid = danmu.uid
        /\ UserInfoOf(danmu).fleet_lv = danmu.fleet_lv
    BY <2>1 DEF UserInfoOf, UserInfo, DanmuInfo, Danmu
  <2> QED BY <2>2 DEF Leveled, LevelSeen
<1> DEFINE R == Leveled
<1>3. /\ \A danmu \in Danmus : danmu_callback(danmu) => UserInfoOf(danmu) \in R
      /\ \A i \in 1..Len(socket) : socket[i] \in R
      /\ info # None => info \in R
  BY <1>2 DEF FleetInv
<1> HIDE DEF R
<1>4. /\ \A i \in 1..Len(socket') : socket'[i] \in R
      /\ info' # None => info' \in R
  BY <1>3, RequestsFrom
<1>5. ASSUME conf.capt_first
      PROVE  (\A k \in 1..Len(list') : OfTheFleet(list'[k])) /\ QP!InOrder'
  <2>1. \A k \in 1..Len(list') : OfTheFleet(list'[k])
    BY <1>5, FleetUnits
  <2>2. \A k \in 1..Len(list) : OfTheFleet(list[k])
    BY <1>5 DEF FleetInv
  <2>3. QP!WeightsKept
    <3>1. SUFFICES ASSUME NEW i \in 1..Len(list), NEW j \in 1..Len(list'),
                          list[i].anchorage = list'[j].anchorage
                   PROVE  list[i].data.weight = list'[j].data.weight
      BY DEF QP!WeightsKept
    <3>2. OfTheFleet(list[i]) /\ OfTheFleet(list'[j])
      BY <2>1, <2>2
    <3>3. list[i].data.fleet_lv = list'[j].data.fleet_lv
      BY <3>1, <3>2 DEF OfTheFleet, LevelSeen, SteadyLevels
    <3> QED BY <3>2, <3>3 DEF OfTheFleet
  <2>4. QP!IInv /\ QP!IInv'
    BY NextIInv DEF IInv
  <2>5. [QP!Next]_(QP!vars)
    BY ListStep DEF IInv, Types, DanmuInfo
  <2>6. QP!InOrder
    BY <1>5 DEF FleetInv
  <2>7. QP!InOrder'
    BY <2>3, <2>4, <2>5, <2>6, ListAssumption, QP!OrderedOn
  <2> QED BY <2>1, <2>7
<1> QED BY <1>1, <1>4, <1>5 DEF FleetInv, R

(* With priority for the fleet (capt_first, callbacks.c:110) and viewers   *)
(* whose level does not change, no viewer ever waits ahead of one of a     *)
(* higher level, however the requests come in.  (One whose level changes   *)
(* keeps his old place.)                                                   *)
THEOREM FleetComesFirst == ASSUME SteadyLevels PROVE Spec => []FleetFirst
<1>1. IInv /\ FleetInv => FleetFirst
  <2> SUFFICES ASSUME IInv, FleetInv, conf.capt_first,
                      NEW i \in 1..Len(list), NEW j \in 1..Len(list), i < j
               PROVE  Rank(list[i].data.fleet_lv) >= Rank(list[j].data.fleet_lv)
    BY DEF FleetFirst
  <2> DEFINE l == list[i].data.fleet_lv
             m == list[j].data.fleet_lv
  <2>1. l \in 0..3 /\ m \in 0..3
    <3>1. OfTheFleet(list[i]) /\ OfTheFleet(list[j])
      BY DEF FleetInv
    <3> QED BY <3>1, LiveQueueAssumption DEF OfTheFleet, LevelSeen, Danmu, FleetLevels
  <2>2. FleetWeight(l) >= FleetWeight(m)
    <3>1. QP!Weight(i) >= QP!Weight(j)
      BY DEF FleetInv, QP!InOrder
    <3>2. QP!Weight(i) = FleetWeight(l) /\ QP!Weight(j) = FleetWeight(m)
      BY DEF FleetInv, OfTheFleet, QP!Weight
    <3> QED BY <3>1, <3>2
  <2> HIDE DEF l, m
  <2>3. Rank(l) >= Rank(m)
    BY <2>1, <2>2 DEF Rank, FleetWeight, FLEET_LV_MAX
  <2> QED BY <2>3 DEF l, m
<1>2. IInv /\ FleetInv /\ [Next]_vars => FleetInv'
  BY FleetNext
<1> QED BY <1>1, <1>2, FleetInit, Invariant, PTL DEF Spec
=============================================================================
