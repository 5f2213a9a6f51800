----------------------------- MODULE LiveQueue -----------------------------
(***************************************************************************)
(* The path of a viewer's request: the blive thread parses and filters a   *)
(* danmu and writes it into a socket pair (danmu_callback), the engine     *)
(* thread reads it and changes the waiting list (liveroom_info_recv), and  *)
(* the main thread walks the waiting list for every page the host's        *)
(* browser asks for (liveroom_qlist_make_text).  The waiting list is the   *)
(* one of module QList, with the engine thread as its only writer and the  *)
(* main thread as its only reader.                                         *)
(***************************************************************************)
EXTENDS Integers, Sequences, SequencesExt

CONSTANTS
  Users,        \* uids
  Danmus,       \* the danmus the live room may deliver (see Danmu)
  ConfigFiles,  \* the config files there may be (see parse_config)
  SocketSize,   \* how many user_infos the socket pair holds
  None

FleetLevels == 0..3     \* FLEET_LV_NONE, _GOVERNOR, _SUPERVISOR, _CAPTAIN
FLEET_LV_MAX == 4

Danmu == [uid : Users, body : {"queue", "cancel", "chat"},
          fleet_lv : FleetLevels]

ASSUME LiveQueueAssumption ==
  /\ Danmus \subseteq Danmu
  /\ SocketSize \in Nat \ {0}
  /\ Users \subseteq Nat \ {0}

-----------------------------------------------------------------------------
(* parse_config: the sections of the file give the configuration.  A list  *)
(* that its section does not hold is NULL, and a search in it finds        *)
(* nobody; both lists are looked up in the section of the rules for        *)
(* viewers who missed their turn.                                          *)
ListIn(section, name) ==
  IF name \in DOMAIN section THEN section[name] ELSE {}

parse_config(f) ==
  [capt_first          |-> f.queue_rules.capt_first,
   allow_danmu_queueup |-> f.queue_rules.allow_danmu,
   allow_gift_queueup  |-> f.queue_rules.allow_gift,
   blacklist           |-> ListIn(f.pass_rules, "blacklist"),
   whitelist           |-> ListIn(f.pass_rules, "whitelist")]

(* cJSON's valueint of a string is 0. *)
valueint(json) == IF json.type = "number" THEN json.value ELSE 0

search_user_in_list(uid, entries) == \E e \in entries : valueint(e) = uid

-----------------------------------------------------------------------------
VARIABLES
  list, elem_num, tmp_unit, lock, pc, shown, invert, ret,  \* see QList
  file,         \* the config file the program was started with
  socket,       \* the user_infos written and not yet read, oldest first
  info,         \* the user_info liveroom_info_recv is about, or None
  page,         \* the rows of the last page the browser has been sent
  wants         \* history: the viewers whose last danmu to pass the filter
                \* asked to queue

queueVars == <<list, elem_num, tmp_unit, lock, pc, shown, invert, ret>>
vars == <<queueVars, file, socket, info, page, wants>>

conf == parse_config(file)

engine == "engine"
http == "http"

(* What is queued with a viewer. *)
QueueWeights == 1..8
UnitData == [weight : QueueWeights, fleet_lv : FleetLevels]

Q == INSTANCE QList WITH
       Anchorages <- Users, DataOf <- [u \in Users |-> UnitData],
       Writers <- {engine}, Readers <- {http}

UserInfo ==
  [info_type : {"DANMU_MSG", "SEND_GIFT"}, uid : Users,
   cancel_queue_up : BOOLEAN, fleet_lv : FleetLevels]

ASSUME NoneAssumption == None \notin Users \cup UserInfo \cup {engine, http}

TypeOK ==
  /\ Q!TypeOK
  /\ file \in ConfigFiles
  /\ socket \in Seq(UserInfo) /\ Len(socket) <= SocketSize
  /\ info \in UserInfo \cup {None}
  /\ page \in Seq(Users)
  /\ wants \subseteq Users

-----------------------------------------------------------------------------
(* danmu_callback, on the blive thread. *)

(* Mutation: a danmu that cancels is not told from one that queues. *)
UserInfoOfQueueing(danmu) ==
  [info_type |-> "DANMU_MSG", uid |-> danmu.uid,
   cancel_queue_up |-> FALSE, fleet_lv |-> danmu.fleet_lv]

UserInfoOf(danmu) ==
  [info_type |-> "DANMU_MSG", uid |-> danmu.uid,
   cancel_queue_up |-> danmu.body = "cancel", fleet_lv |-> danmu.fleet_lv]

(* Mutation: the two lists are swapped. *)
PassesFilterSwapped(uid) ==
  \/ search_user_in_list(uid, conf.blacklist)
  \/ ~ search_user_in_list(uid, conf.whitelist)

PassesFilter(uid) ==
  \/ search_user_in_list(uid, conf.whitelist)
  \/ ~ search_user_in_list(uid, conf.blacklist)

(* Mutation: the socket pair is thought to have room for everything. *)
danmu_callbackUnbounded(danmu) ==
  /\ danmu.body # "chat"
  /\ PassesFilter(danmu.uid)
  /\ Len(socket) <= SocketSize
  /\ socket' = Append(socket, UserInfoOf(danmu))
  /\ wants' = IF danmu.body = "queue" THEN wants \cup {danmu.uid}
                                      ELSE wants \ {danmu.uid}
  /\ UNCHANGED <<queueVars, file, info, page>>

(* The write blocks while the socket pair is full. *)
danmu_callback(danmu) ==
  /\ danmu.body # "chat"
  /\ PassesFilter(danmu.uid)
  /\ Len(socket) < SocketSize
  /\ socket' = Append(socket, UserInfoOf(danmu))
  /\ wants' = IF danmu.body = "queue" THEN wants \cup {danmu.uid}
                                      ELSE wants \ {danmu.uid}
  /\ UNCHANGED <<queueVars, file, info, page>>

-----------------------------------------------------------------------------
(* liveroom_info_recv, on the engine thread: the user_info is read, ...    *)
ReadInfo ==
  /\ info = None
  /\ socket # <<>>
  /\ info' = Head(socket)
  /\ socket' = Tail(socket)
  /\ UNCHANGED <<queueVars, file, page, wants>>

Allowed ==
  IF info.info_type = "DANMU_MSG" THEN conf.allow_danmu_queueup
                                  ELSE conf.allow_gift_queueup

(* Mutations: the fleet has priority though the configuration says no;    *)
(* the highest level gets the lowest weight.                               *)
QueueWeightAlways ==
  IF info.fleet_lv # 0 THEN (FLEET_LV_MAX - info.fleet_lv) + 2 ELSE 1

QueueWeightInverted ==
  IF conf.capt_first /\ info.fleet_lv # 0 THEN info.fleet_lv + 2 ELSE 1

QueueWeight ==
  LET base == IF info.info_type = "DANMU_MSG" THEN 1 ELSE 2
      lift == IF info.info_type = "DANMU_MSG" THEN 0 ELSE 3
  IN IF conf.capt_first /\ info.fleet_lv # 0
     THEN (FLEET_LV_MAX - info.fleet_lv) + 2 + lift
     ELSE base

DataOfInfo ==
  [weight |-> QueueWeight, fleet_lv |-> info.fleet_lv]

(* ... dropped, when the configuration does not let it queue, ... *)
IgnoreInfo ==
  /\ info # None
  /\ ~ info.cancel_queue_up
  /\ ~ Allowed
  /\ info' = None
  /\ UNCHANGED <<queueVars, file, socket, page, wants>>

(* ... or acted upon: the call to the waiting list returns at once, or it  *)
(* returns when the count has followed the ring.                           *)
ApplyInfo ==
  /\ info # None
  /\ IF info.cancel_queue_up
     THEN Q!qlist_subtract(engine, info.uid)
     ELSE /\ Allowed
          /\ \/ Q!Refresh(engine, info.uid, DataOfInfo)
             \/ Q!Link(engine, info.uid, DataOfInfo)
             \/ Q!Refuse(engine, info.uid, DataOfInfo)
  /\ info' = IF pc'[engine] = "idle" THEN None ELSE info
  /\ UNCHANGED <<file, socket, page, wants>>

FinishInfo ==
  /\ Q!CountUp(engine) \/ Q!CountDown(engine)
  /\ info' = None
  /\ UNCHANGED <<file, socket, page, wants>>

EngineStep == ReadInfo \/ IgnoreInfo \/ ApplyInfo \/ FinishInfo

-----------------------------------------------------------------------------
(* A request for the page, on the main thread: liveroom_qlist_make_text    *)
(* walks the waiting list from the front and writes a row for every unit   *)
(* (of which the colours are left out).                                    *)

(* qlist_foreach_make_text *)
RowOf(unit) == unit.anchorage

(* An empty waiting list gives an empty page. *)
PageRequest ==
  /\ Q!ForeachCall(http, FALSE)
  /\ page' = IF pc'[http] = "idle" THEN <<>> ELSE page
  /\ UNCHANGED <<file, socket, info, wants>>

PageLock == Q!ForeachLock(http) /\ UNCHANGED <<file, socket, info, page, wants>>

PageRow == Q!ForeachVisit(http, TRUE) /\ UNCHANGED <<file, socket, info, page, wants>>

(* Mutation: the last row is not sent. *)
PageSentShort ==
  /\ Q!ForeachDone(http)
  /\ page' = [i \in 1..(Len(shown[http]) - 1) |-> RowOf(shown[http][i])]
  /\ UNCHANGED <<file, socket, info, wants>>

PageSent ==
  /\ Q!ForeachDone(http)
  /\ page' = [i \in 1..Len(shown[http]) |-> RowOf(shown[http][i])]
  /\ UNCHANGED <<file, socket, info, wants>>

HttpStep == PageRequest \/ PageLock \/ PageRow \/ PageSent

-----------------------------------------------------------------------------
Init ==
  /\ Q!Init
  /\ file \in ConfigFiles
  /\ socket = <<>>
  /\ info = None
  /\ page = <<>>
  /\ wants = {}

Next ==
  \/ \E danmu \in Danmus : danmu_callback(danmu)
  \/ EngineStep
  \/ HttpStep

(* The engine's loop never stops (main never gets to select_engine_stop),  *)
(* the page asks for itself again two seconds after it has been shown, and *)
(* the mutex is given to a thread that keeps asking for it.                *)
Fairness ==
  /\ WF_vars(ReadInfo) /\ WF_vars(IgnoreInfo)
  /\ SF_vars(ApplyInfo) /\ WF_vars(FinishInfo)
  /\ WF_vars(PageRequest) /\ SF_vars(PageLock)
  /\ WF_vars(PageRow) /\ WF_vars(PageSent)

Spec == Init /\ [][Next]_vars /\ Fairness

-----------------------------------------------------------------------------
InLine(u) == \E i \in 1..Len(list) : list[i].anchorage = u
OnPage(u) == \E i \in 1..Len(page) : page[i] = u

(* Once everything sent has been dealt with, the viewers who wait are      *)
(* exactly those whose last word was to queue: no request is lost, dealt   *)
(* with twice or dealt with in another order.  (Where the fleet has        *)
(* priority a request may be lost: NeverRefused of QList.)                 *)
Quiet == socket = <<>> /\ info = None

LastWordCounts ==
  Quiet /\ ~ conf.capt_first =>
    \A u \in Users : InLine(u) <=> u \in wants /\ conf.allow_danmu_queueup

(* With priority for the fleet and viewers whose level does not change, no *)
(* viewer waits ahead of one of a higher level.                            *)
Rank(level) == IF level = 0 THEN 0 ELSE FLEET_LV_MAX - level

FleetFirst ==
  conf.capt_first =>
    \A i, j \in 1..Len(list) :
      i < j => Rank(list[i].data.fleet_lv) >= Rank(list[j].data.fleet_lv)

(* A viewer whom the config file blacklists and does not whitelist is      *)
(* never in line (comment at callbacks.c:344).                             *)
Lists(section, name) == {e.value : e \in ListIn(section, name)}
Listed(name) == Lists(file.filter_rules, name) \cup
                Lists(file.pass_rules, name)

BlacklistHolds ==
  \A u \in Listed("blacklist") \ Listed("whitelist") : ~ InLine(u)

(* Who asks to queue and does not cancel is some day on the page, and who  *)
(* cancels and does not ask again is some day off it.                      *)
EventuallyShown ==
  \A u \in Users :
    (u \in wants /\ conf.allow_danmu_queueup) ~> (OnPage(u) \/ u \notin wants)

EventuallyGone ==
  \A u \in Users :
    (u \notin wants) ~> (~ OnPage(u) \/ u \in wants)

-----------------------------------------------------------------------------
(* Without priority for the fleet the program is a waiting line, open if   *)
(* danmus may queue.  A viewer has joined once he is counted, and has left *)
(* once he is unlinked.                                                    *)
LineOfList ==
  LET n == IF pc[engine] = "counting_up" THEN Len(list) - 1 ELSE Len(list)
  IN [i \in 1..n |-> list[i].anchorage]

RequestOf(i) == [user |-> i.uid, cancel |-> i.cancel_queue_up]

PendingOfSocket ==
  LET unread == [i \in 1..Len(socket) |-> RequestOf(socket[i])]
  IN IF info = None \/ pc[engine] = "counting_down" THEN unread
     ELSE <<RequestOf(info)>> \o unread

Line == INSTANCE WaitingLine WITH
          open <- conf.allow_danmu_queueup,
          line <- LineOfList, pending <- PendingOfSocket,
          MaxPending <- SocketSize + 1

ImplementsLine == Line!Spec
=============================================================================
