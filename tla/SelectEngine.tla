---------------------------- MODULE SelectEngine ----------------------------
(***************************************************************************)
(* The event engine of select.c.  One thread runs select_engine_perform;   *)
(* other threads change the set of watched descriptors and the queue of    *)
(* timer events under its feet.  A thread that has made a change looks     *)
(* whether running_flag can be locked: if it cannot, the engine may be in  *)
(* select with the old descriptors or the old timeout, and is woken by a   *)
(* message in manage_pipe.                                                 *)
(***************************************************************************)
EXTENDS Integers, Sequences, FiniteSets, SequencesExt

CONSTANTS
  Fds,          \* the descriptors that may be watched; manage_fd is below
  Hows,         \* the ways they are added: "forever" or "once"
  Callers,      \* the threads that schedule events, apart from the engine
                \* and the main thread
  Delays,       \* the delays they ask for, in the clock's unit
  UsecPerSec,   \* the clock's units in a second
  ClockWaits,   \* TRUE: no time passes between the moment a thread reads the
                \* clock for an event and the moment it has pushed the event
  PRI_QUEUE_SIZE,
  PipeSize,     \* how many messages manage_pipe holds
  MaxEvents,    \* bound on the events ever scheduled
  StartTime,    \* the clock when the engine is made
  MaxTime,      \* bound on the clock
  MaxChanges,   \* bound on the calls that add or delete a descriptor
  MaxArrivals,  \* bound on the data that ever arrive
  None

manage_fd == 0
engine == "engine"
main == "main"    \* the thread that adds and deletes descriptors, and may schedule
Threads == Callers \cup {engine, main}

ASSUME SelectEngineAssumption ==
  /\ Fds \subseteq Nat \ {manage_fd} /\ Hows \subseteq {"forever", "once"}
  /\ engine \notin Callers /\ main \notin Callers
  /\ Delays \subseteq Nat
  /\ UsecPerSec \in Nat \ {0} /\ ClockWaits \in BOOLEAN
  /\ PRI_QUEUE_SIZE \in Nat \ {0} /\ PipeSize \in Nat \ {0}
  /\ MaxEvents \in Nat /\ StartTime \in Nat /\ MaxTime \in Nat
  /\ MaxChanges \in Nat /\ MaxArrivals \in Nat
  /\ None \notin Nat \cup Threads

VARIABLES
  at,             \* where the engine's thread is in select_engine_perform
  running_flag,   \* the thread that holds it, or None
  need_continue,
  fd_poll,        \* per descriptor: how it is watched
  read_fds,       \* what select watches, and then what it has found readable
  manage_pipe,    \* the messages written and not yet read
  event_queue,    \* a heap of events (see Heap)
  event,          \* the event the select waits for, or None
  timeout,        \* when the select returns at the latest, or None
  serving,        \* the entry whose callback is called, or was last, or None
  pc,             \* per thread: how far it is in a change of the engine
  arg,            \* per thread: what it adds, or None
  now,            \* the clock
  pending,        \* per descriptor: the data to be read
  changes,        \* history: how many calls added or deleted a descriptor
  arrivals,       \* history: how many data have arrived
  scheduled,      \* history: how many events have been scheduled
  fired,          \* history: per event, how often its callback was called
  shutdown        \* how far main is in stopping and destroying the engine

engineVars == <<at, read_fds, event, timeout, serving>>
history == <<changes, arrivals, scheduled, fired>>
vars == <<engineVars, running_flag, need_continue, fd_poll, manage_pipe,
          event_queue, pc, arg, now, pending, history, shutdown>>

-----------------------------------------------------------------------------
(* The time of an event: seconds and microseconds are added each on their  *)
(* own, and the sum of the microseconds may exceed a second.               *)
Time == [sec : Nat, usec : Nat]
Clock(t) == [sec |-> t \div UsecPerSec, usec |-> t % UsecPerSec]
TimeAfter(t, delay) ==
  [sec  |-> Clock(t).sec + Clock(delay).sec,
   usec |-> Clock(t).usec + Clock(delay).usec]
Due(e) == e.time.sec * UsecPerSec + e.time.usec

(* __event_queue_pri_comp *)
elem_compare_cb(e, f) ==
  \/ e.time.sec < f.time.sec
  \/ e.time.sec = f.time.sec /\ e.time.usec <= f.time.usec

Queue == INSTANCE Heap

(* How long the select waits for e from time t on. *)
Wait(e, t) ==
  LET s == e.time.sec - Clock(t).sec
      u == e.time.usec - Clock(t).usec
      sec  == IF u < 0 THEN s - 1 ELSE s
      usec == IF u < 0 THEN u + UsecPerSec ELSE u
  IN IF sec < 0 THEN 0 ELSE sec * UsecPerSec + usec

Events == [id : 1..MaxEvents, time : Time]
FdStates == {"none", "half_linked", "forever", "once"}
Messages == {"RESTART", "STOP"}

Registrations == [fd : Fds, how : {"forever", "once"}]

(* How far a thread is in a change: it has linked an entry whose value is  *)
(* still NULL (arg says what it will be); it has read the clock for an     *)
(* event (arg); it has made its change; it holds running_flag, having      *)
(* tried it; it could not lock it and is about to write to the pipe; it    *)
(* has pushed on a full queue.                                             *)
ThreadPc == {"idle", "linking", "timed", "changed", "probing", "telling", "undefined"}

(* The event queue is adaptive: a push when it is full gives its heap a    *)
(* block smaller than its elements (as in PriQueue).  What the program     *)
(* does from there is undefined and not modelled: InBlock is a guard of    *)
(* every step.                                                             *)
InBlock == \A t \in Threads : pc[t] # "undefined"

InSelect == {"locked", "filled", "selecting", "woken", "interrupted"}
Places == InSelect \cup {"top", "timer", "called", "dispatch", "serving", "ended"}

TypeOK ==
  /\ at \in Places
  /\ running_flag \in Threads \cup {None}
  /\ need_continue \in BOOLEAN
  /\ fd_poll \in [Fds -> FdStates]
  /\ read_fds \subseteq Fds \cup {manage_fd}
  /\ manage_pipe \in Seq(Messages) /\ Len(manage_pipe) <= PipeSize
  /\ InBlock => event_queue \in Seq(Events) /\ Len(event_queue) <= PRI_QUEUE_SIZE
  /\ event \in Events \cup {None}
  /\ timeout \in Nat \cup {None}
  /\ serving \in Registrations \cup {None}
  /\ pc \in [Threads -> ThreadPc]
  /\ arg \in [Threads -> Events \cup Registrations \cup {None}]
  /\ now \in Nat
  /\ pending \in [Fds -> Nat]
  /\ changes \in Nat
  /\ arrivals \in Nat
  /\ scheduled \in 0..MaxEvents
  /\ fired \in [1..MaxEvents -> Nat]
  /\ shutdown \in {"no", "stopped", "destroyed", "refused"}

Init ==
  /\ at = "top"
  /\ running_flag = None
  /\ need_continue = TRUE
  /\ fd_poll = [f \in Fds |-> "none"]
  /\ read_fds = {}
  /\ manage_pipe = <<>>
  /\ event_queue = <<>>
  /\ event = None
  /\ timeout = None
  /\ serving = None
  /\ pc = [t \in Threads |-> "idle"]
  /\ arg = [t \in Threads |-> None]
  /\ now = StartTime
  /\ pending = [f \in Fds |-> 0]
  /\ changes = 0
  /\ arrivals = 0
  /\ scheduled = 0
  /\ fired = [e \in 1..MaxEvents |-> 0]
  /\ shutdown = "no"

-----------------------------------------------------------------------------
(* Changes of the engine, on any thread. *)

Go(t, from, to) == pc[t] = from /\ pc' = [pc EXCEPT ![t] = to]

(* __engine_fd_add: hash_push links a new entry with its value NULL and    *)
(* then sets the value; the value of an entry that is there is replaced.   *)
FdAdd(f, how) ==
  /\ shutdown = "no"
  /\ changes < MaxChanges
  /\ changes' = changes + 1
  /\ IF fd_poll[f] = "none"
     THEN /\ Go(main, "idle", "linking")
          /\ fd_poll' = [fd_poll EXCEPT ![f] = "half_linked"]
          /\ arg' = [arg EXCEPT ![main] = [fd |-> f, how |-> how]]
     ELSE /\ Go(main, "idle", "changed")
          /\ fd_poll' = [fd_poll EXCEPT ![f] = how]
          /\ UNCHANGED arg
  /\ UNCHANGED <<engineVars, running_flag, need_continue, manage_pipe,
                 event_queue, now, pending, arrivals, scheduled,
                 fired, shutdown>>

(* (If the engine has removed the entry in between, the value is set in an *)
(* entry that is in the table no more.)                                    *)
FdLinked ==
  /\ Go(main, "linking", "changed")
  /\ fd_poll' = [fd_poll EXCEPT ![arg[main].fd] =
                   IF @ = "half_linked" THEN arg[main].how ELSE @]
  /\ arg' = [arg EXCEPT ![main] = None]
  /\ UNCHANGED <<engineVars, running_flag, need_continue, manage_pipe,
                 event_queue, now, pending, history, shutdown>>

FdDel(f) ==
  /\ shutdown = "no"
  /\ changes < MaxChanges
  /\ changes' = changes + 1
  /\ Go(main, "idle", "changed")
  /\ fd_poll' = [fd_poll EXCEPT ![f] = "none"]
  /\ UNCHANGED <<engineVars, running_flag, need_continue, manage_pipe,
                 event_queue, arg, now, pending, arrivals, scheduled,
                 fired, shutdown>>

(* select_engine_schedule_add: the time of the event is taken first ...    *)
ReadClock(t, delay) ==
  /\ scheduled < MaxEvents /\ now + delay <= MaxTime
  /\ Go(t, "idle", "timed")
  /\ scheduled' = scheduled + 1
  /\ arg' = [arg EXCEPT ![t] = [id |-> scheduled + 1,
                                time |-> TimeAfter(now, delay)]]
  /\ UNCHANGED <<engineVars, running_flag, need_continue, fd_poll,
                 manage_pipe, event_queue, now, pending, changes, arrivals,
                 fired, shutdown>>

(* ... and then the event is pushed.                                       *)
PushStored(t) ==
  /\ Len(event_queue) < PRI_QUEUE_SIZE
  /\ Go(t, "timed", "changed")
  /\ event_queue' = Queue!__heap_push(event_queue, arg[t])
  /\ arg' = [arg EXCEPT ![t] = None]

PushFull(t) ==
  /\ Len(event_queue) >= PRI_QUEUE_SIZE
  /\ Go(t, "timed", "undefined")
  /\ UNCHANGED <<event_queue, arg>>

PushEvent(t) ==
  /\ PushStored(t) \/ PushFull(t)
  /\ UNCHANGED <<engineVars, running_flag, need_continue, fd_poll,
                 manage_pipe, now, pending, history, shutdown>>

(* Mutation: a change made while the engine holds running_flag is not      *)
(* announced.                                                              *)
TryLockGivesUp(t) ==
  /\ IF running_flag = None
     THEN Go(t, "changed", "probing") /\ running_flag' = t
     ELSE Go(t, "changed", "idle") /\ UNCHANGED running_flag
  /\ UNCHANGED <<engineVars, need_continue, fd_poll, manage_pipe,
                 event_queue, arg, now, pending, history, shutdown>>

(* __engine_reload *)
TryLock(t) ==
  /\ IF running_flag = None
     THEN Go(t, "changed", "probing") /\ running_flag' = t
     ELSE Go(t, "changed", "telling") /\ UNCHANGED running_flag
  /\ UNCHANGED <<engineVars, need_continue, fd_poll, manage_pipe,
                 event_queue, arg, now, pending, history, shutdown>>

Unlock(t) ==
  /\ Go(t, "probing", "idle")
  /\ running_flag' = None
  /\ UNCHANGED <<engineVars, need_continue, fd_poll, manage_pipe,
                 event_queue, arg, now, pending, history, shutdown>>

(* The write blocks while the pipe is full. *)
Tell(t) ==
  /\ Go(t, "telling", "idle")
  /\ Len(manage_pipe) < PipeSize
  /\ manage_pipe' = Append(manage_pipe, "RESTART")
  /\ UNCHANGED <<engineVars, running_flag, need_continue, fd_poll,
                 event_queue, arg, now, pending, history, shutdown>>

Reload(t) == TryLock(t) \/ Unlock(t) \/ Tell(t)

(* The engine's own thread schedules events from a timer's callback only.  *)
select_engine_schedule_add(t) ==
  \/ \E delay \in Delays : ReadClock(t, delay)
  \/ PushEvent(t)

-----------------------------------------------------------------------------
(* select_engine_perform *)

At(from, to) == at = from /\ at' = to

Lock ==
  /\ need_continue
  /\ At("top", "locked")
  /\ running_flag = None
  /\ running_flag' = engine
  /\ UNCHANGED <<need_continue, fd_poll, read_fds, manage_pipe, event_queue,
                 event, timeout, serving, pc, arg, now, pending, history, shutdown>>

Leave ==
  /\ ~ need_continue
  /\ At("top", "ended")
  /\ need_continue' = TRUE
  /\ UNCHANGED <<running_flag, fd_poll, read_fds, manage_pipe, event_queue,
                 event, timeout, serving, pc, arg, now, pending, history, shutdown>>

(* hash_foreach with __fd_set_foreach: in the order of the descriptors,    *)
(* up to the first entry whose value is NULL.                              *)
Watched == {f \in Fds : fd_poll[f] \in {"forever", "once"}}
Reached(f) == \A g \in Fds : g <= f => fd_poll[g] # "half_linked"

FillFds ==
  /\ At("locked", "filled")
  /\ read_fds' = {manage_fd} \cup {f \in Watched : Reached(f)}
  /\ UNCHANGED <<running_flag, need_continue, fd_poll, manage_pipe,
                 event_queue, event, timeout, serving, pc, arg, now, pending, history,
                 shutdown>>

PeekEvent ==
  /\ At("filled", "selecting")
  /\ IF event_queue = <<>>
     THEN event' = None /\ timeout' = None
     ELSE LET e == Queue!__heap_peek(event_queue)
          IN event' = e /\ timeout' = now + Wait(e, now)
  /\ UNCHANGED <<running_flag, need_continue, fd_poll, read_fds, manage_pipe,
                 event_queue, serving, pc, arg, now, pending, history,
                 shutdown>>

Readable(f) == IF f = manage_fd THEN manage_pipe # <<>> ELSE pending[f] > 0

(* select returns: descriptors are readable, ... *)
SelectReadable ==
  /\ At("selecting", "woken")
  /\ \E f \in read_fds : Readable(f)
  /\ read_fds' = {f \in read_fds : Readable(f)}
  /\ UNCHANGED <<running_flag, need_continue, fd_poll, manage_pipe,
                 event_queue, event, timeout, serving, pc, arg, now, pending, history,
                 shutdown>>

(* Mutation: select comes back before its time is over. *)
SelectTimeoutAnyTime ==
  /\ At("selecting", "woken")
  /\ \A f \in read_fds : ~ Readable(f)
  /\ timeout # None
  /\ read_fds' = {}
  /\ UNCHANGED <<running_flag, need_continue, fd_poll, manage_pipe,
                 event_queue, event, timeout, serving, pc, arg, now, pending,
                 history, shutdown>>

(* ... or the time is over, ... *)
SelectTimeout ==
  /\ At("selecting", "woken")
  /\ \A f \in read_fds : ~ Readable(f)
  /\ timeout # None
  /\ now >= timeout
  /\ read_fds' = {}
  /\ UNCHANGED <<running_flag, need_continue, fd_poll, manage_pipe,
                 event_queue, event, timeout, serving, pc, arg, now, pending, history,
                 shutdown>>

(* ... or a signal has interrupted it; ... *)
SelectInterrupted ==
  /\ At("selecting", "interrupted")
  /\ UNCHANGED <<running_flag, need_continue, fd_poll, read_fds, manage_pipe,
                 event_queue, event, timeout, serving, pc, arg, now, pending,
                 history, shutdown>>

(* ... and running_flag is given back; the time select was given is over.  *)
EngineUnlock ==
  /\ \/ At("woken", IF read_fds = {} THEN "timer" ELSE "dispatch")
     \/ At("interrupted", "top")
  /\ running_flag' = None
  /\ timeout' = None
  /\ UNCHANGED <<need_continue, fd_poll, read_fds, manage_pipe, event_queue,
                 event, serving, pc, arg, now, pending, history, shutdown>>

(* The callback of the event that was waited for is called, ... *)
FireEvent ==
  /\ At("timer", "called")
  /\ fired' = [fired EXCEPT ![event.id] = @ + 1]
  /\ UNCHANGED <<running_flag, need_continue, fd_poll, read_fds, manage_pipe,
                 event_queue, event, timeout, serving, pc, arg, now, pending,
                 changes, arrivals, scheduled, shutdown>>

(* Mutations: the event stays in the queue; the last one is removed.       *)
PopEventKept ==
  /\ At("called", "top")
  /\ pc[engine] = "idle"
  /\ event' = Queue!__heap_peek(event_queue)
  /\ UNCHANGED <<running_flag, need_continue, fd_poll, read_fds, manage_pipe,
                 event_queue, timeout, serving, pc, arg, now, pending,
                 history, shutdown>>

PopEventLast ==
  /\ At("called", "top")
  /\ pc[engine] = "idle"
  /\ event' = event_queue[Len(event_queue)]
  /\ event_queue' = Queue!__heap_remove(event_queue, Len(event_queue))
  /\ UNCHANGED <<running_flag, need_continue, fd_poll, read_fds, manage_pipe,
                 timeout, serving, pc, arg, now, pending, history, shutdown>>

(* ... and when it returns the first event of the queue is removed. *)
PopEvent ==
  /\ At("called", "top")
  /\ pc[engine] = "idle"
  /\ event' = Queue!__heap_peek(event_queue)
  /\ event_queue' = Queue!__heap_pop(event_queue)
  /\ UNCHANGED <<running_flag, need_continue, fd_poll, read_fds, manage_pipe,
                 timeout, serving, pc, arg, now, pending, history, shutdown>>

(* Mutation: of the messages in the pipe only the first is looked at. *)
ServeManageFirst ==
  /\ at = "dispatch"
  /\ manage_fd \in read_fds
  /\ read_fds' = read_fds \ {manage_fd}
  /\ manage_pipe' = <<>>
  /\ need_continue' = (need_continue /\ manage_pipe[1] # "STOP")
  /\ UNCHANGED <<at, running_flag, fd_poll, event_queue, event, timeout,
                 serving, pc, arg, now, pending, history, shutdown>>

(* __manage_fd_callback *)
ServeManage ==
  /\ at = "dispatch"
  /\ manage_fd \in read_fds
  /\ read_fds' = read_fds \ {manage_fd}
  /\ manage_pipe' = <<>>
  /\ need_continue' = (need_continue /\ ~ Contains(manage_pipe, "STOP"))
  /\ UNCHANGED <<at, running_flag, fd_poll, event_queue, event, timeout,
                 serving, pc, arg, now, pending, history, shutdown>>

(* Mutation: the callbacks are called without asking what is readable.     *)
NextReadableUnasked(f) == \A g \in read_fds : f <= g

(* hash_foreach with __fd_isset_foreach goes on from the last entry served *)
(* to the next readable one.  An entry whose value is NULL ends it, and an *)
(* entry that is gone is not met.                                          *)
Passed == IF serving = None THEN manage_fd ELSE serving.fd
NextReadable(f) == f \in read_fds /\ \A g \in read_fds : f <= g
MeetsHalfLinked(f) ==
  \E g \in Fds : Passed < g /\ g <= f /\ fd_poll[g] = "half_linked"

FindReadable(f) ==
  /\ at = "dispatch"
  /\ f # manage_fd /\ NextReadable(f)
  /\ IF MeetsHalfLinked(f)
     THEN read_fds' = {} /\ UNCHANGED <<at, serving>>
     ELSE /\ read_fds' = read_fds \ {f}
          /\ IF f \in Watched
             THEN At("dispatch", "serving")
                  /\ serving' = [fd |-> f, how |-> fd_poll[f]]
             ELSE UNCHANGED <<at, serving>>
  /\ UNCHANGED <<running_flag, need_continue, fd_poll, manage_pipe,
                 event_queue, event, timeout, pc, arg, now, pending, history,
                 shutdown>>

(* The entry of a descriptor that was added for one time is removed before *)
(* its callback reads what can be read.                                    *)
ServeFd ==
  /\ At("serving", "dispatch")
  /\ fd_poll' = IF serving.how = "once"
                THEN [fd_poll EXCEPT ![serving.fd] = "none"] ELSE fd_poll
  /\ pending' = [pending EXCEPT ![serving.fd] = @ - 1]
  /\ UNCHANGED <<running_flag, need_continue, read_fds, manage_pipe,
                 event_queue, event, timeout, serving, pc, arg, now, history,
                 shutdown>>

EndRound ==
  /\ read_fds = {}
  /\ At("dispatch", "top")
  /\ serving' = None
  /\ UNCHANGED <<running_flag, need_continue, fd_poll, read_fds, manage_pipe,
                 event_queue, event, timeout, pc, arg, now, pending, history,
                 shutdown>>

EngineStep ==
  \/ Lock \/ Leave \/ FillFds \/ PeekEvent
  \/ SelectReadable \/ SelectTimeout \/ SelectInterrupted \/ EngineUnlock
  \/ FireEvent \/ PopEvent
  \/ ServeManage \/ (\E f \in Fds : FindReadable(f)) \/ ServeFd \/ EndRound

-----------------------------------------------------------------------------
(* main stops the engine, joins its thread and destroys the engine. *)
select_engine_stop ==
  /\ shutdown = "no" /\ pc[main] = "idle"
  /\ Len(manage_pipe) < PipeSize
  /\ manage_pipe' = Append(manage_pipe, "STOP")
  /\ shutdown' = "stopped"
  /\ UNCHANGED <<engineVars, running_flag, need_continue, fd_poll,
                 event_queue, pc, arg, now, pending, history>>

select_engine_destroy ==
  /\ shutdown = "stopped" /\ at = "ended"
  /\ shutdown' = IF need_continue THEN "refused" ELSE "destroyed"
  /\ UNCHANGED <<engineVars, running_flag, need_continue, fd_poll,
                 manage_pipe, event_queue, pc, arg, now, pending, history>>

(* The world: time passes and data arrive. *)
Tick ==
  /\ now < MaxTime
  /\ ClockWaits => \A t \in Threads : pc[t] # "timed"
  /\ now' = now + 1
  /\ UNCHANGED <<engineVars, running_flag, need_continue, fd_poll,
                 manage_pipe, event_queue, pc, arg, pending, history,
                 shutdown>>

Arrive(f) ==
  /\ arrivals < MaxArrivals
  /\ arrivals' = arrivals + 1
  /\ pending' = [pending EXCEPT ![f] = @ + 1]
  /\ UNCHANGED <<engineVars, running_flag, need_continue, fd_poll,
                 manage_pipe, event_queue, pc, arg, now, changes, scheduled,
                 fired,
                 shutdown>>

(* The main thread hands schedule_set_func to blive_establish_connection,  *)
(* long before it stops the engine.                                        *)
MainSchedules == shutdown = "no" /\ select_engine_schedule_add(main)

EngineSchedules == at = "called" /\ select_engine_schedule_add(engine)

Running ==
  \/ \E f \in Fds : (\E how \in Hows : FdAdd(f, how)) \/ FdDel(f)
  \/ FdLinked
  \/ \E t \in Callers : select_engine_schedule_add(t)
  \/ MainSchedules
  \/ EngineSchedules
  \/ \E t \in Threads : Reload(t)
  \/ EngineStep
  \/ select_engine_stop \/ select_engine_destroy
  \/ Tick \/ \E f \in Fds : Arrive(f)

Next == InBlock /\ Running

(* A thread that has begun a change finishes it, the mutex is given to a   *)
(* thread that keeps asking for it, a write to the pipe goes through when  *)
(* there is room time and again, and a select that finds what it waits for *)
(* is not interrupted for ever.                                            *)
Fairness ==
  /\ WF_vars(InBlock /\ FdLinked) /\ WF_vars(InBlock /\ Tick)
  /\ WF_vars(InBlock /\ select_engine_destroy)
  /\ \A t \in Threads :
       /\ WF_vars(InBlock /\ PushEvent(t)) /\ WF_vars(InBlock /\ TryLock(t))
       /\ WF_vars(InBlock /\ Unlock(t)) /\ SF_vars(InBlock /\ Tell(t))
  /\ SF_vars(InBlock /\ Lock)
  /\ SF_vars(InBlock /\ SelectReadable) /\ SF_vars(InBlock /\ SelectTimeout)
  /\ WF_vars(InBlock /\ (\/ Leave \/ FillFds \/ PeekEvent \/ EngineUnlock
                         \/ FireEvent \/ PopEvent \/ ServeManage
                         \/ (\E f \in Fds : FindReadable(f))
                         \/ ServeFd \/ EndRound))

Spec == Init /\ [][Next]_vars /\ Fairness

-----------------------------------------------------------------------------
(* No wake-up is lost: while the engine is in select and no message waits  *)
(* in the pipe, it watches exactly the descriptors that are registered and *)
(* waits for the first event of the queue, unless a thread is in the middle*)
(* of a change and has not looked at running_flag yet, or is about to      *)
(* write the message (comment at select.c:217-220).                        *)
Unannounced == \E t \in Threads : pc[t] \in {"linking", "changed", "telling"}

FirstEvent == IF event_queue = <<>> THEN None ELSE event_queue[1]

NoLostWakeup ==
  InBlock /\ at = "selecting" /\ manage_pipe = <<>> /\ ~ Unannounced =>
    read_fds = {manage_fd} \cup Watched /\ event = FirstEvent

(* No callback of a timer is called before its time (select.h:85: called   *)
(* when the timer has expired), unless the microseconds of the time needed *)
(* a carry, which schedule_add does not make (select.c:185); and even then *)
(* it is early by less than a second.                                      *)
Carried(e) == e.time.usec < UsecPerSec

EarlyForWantOfCarry ==
  at = "timer" => \/ Due(event) <= now
                  \/ ~ Carried(event) /\ Due(event) < now + UsecPerSec

(* The event that is removed from the queue is the one whose callback was  *)
(* called (comment at select.c:257: changes made during the callbacks need *)
(* no attention).                                                          *)
FiredIsPopped == [][PopEvent => event' = event]_vars

(* No event's callback is called twice.                                    *)
FiredOnce == \A e \in 1..MaxEvents : fired[e] <= 1

(* Every event that is scheduled is fired some day, ... *)
EventuallyFires ==
  \A e \in 1..MaxEvents :
    scheduled >= e ~> fired[e] > 0 \/ shutdown # "no"

(* ... the data of a watched descriptor are read, ... *)
EventuallyRead ==
  \A f \in Fds :
    pending[f] > 0 /\ fd_poll[f] = "forever" ~>
      pending[f] = 0 \/ fd_poll[f] # "forever" \/ shutdown # "no"

(* ... and an engine that is told to stop comes to its end. *)
EventuallyEnds == shutdown = "stopped" ~> at = "ended"
=============================================================================
