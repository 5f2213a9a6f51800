------------------------- MODULE SelectEngineProofs -------------------------
(***************************************************************************)
(* That the engine is woken for every change, and a timer early for want   *)
(* of a carry only, by less than a second: for any number of threads,      *)
(* descriptors and events and a pipe of any size.  And that the event      *)
(* removed is the one that was called, which is called once, unless one    *)
(* that is due earlier is pushed while the engine waits for it.            *)
(***************************************************************************)
EXTENDS SelectEngine, SequenceTheorems, TLAPS

HeapFacts == INSTANCE HeapProofs

(* The types the proof needs. *)
ProtocolTypes ==
  /\ at \in Places
  /\ pc \in [Threads -> ThreadPc]
  /\ arg = [t \in Threads |-> arg[t]]
  /\ fd_poll \in [Fds -> FdStates]
  /\ manage_pipe \in Seq(Messages)

(* running_flag is held by the engine from before it looks at the          *)
(* descriptors until select has returned, and by a thread that has tried   *)
(* it; the engine tries it in callbacks only.                              *)
FlagProtocol ==
  /\ at \in InSelect => running_flag = engine
  /\ \A t \in Threads : pc[t] = "probing" => running_flag = t
  /\ at # "called" => pc[engine] = "idle"

(* An entry without a value is one that main has just linked. *)
HalfLinkedByMain ==
  /\ pc[main] = "linking" => arg[main] \in Registrations
  /\ \A f \in Fds :
       fd_poll[f] = "half_linked" => pc[main] = "linking" /\ arg[main].fd = f

(* What the engine has collected for select is what there is, or somebody  *)
(* is about to say otherwise.                                              *)
Announced == manage_pipe # <<>> \/ Unannounced

Current ==
  /\ at \in {"filled", "selecting"} =>
       Announced \/ read_fds = {manage_fd} \cup Watched
  /\ at = "selecting" => Announced \/ event = FirstEvent

IInv == ProtocolTypes /\ FlagProtocol /\ HalfLinkedByMain /\ Current

-----------------------------------------------------------------------------
(* The initial state: nothing is registered and nobody does anything.      *)
LEMMA InitInvariant == Init => IInv
<1> SUFFICES ASSUME Init PROVE IInv
  OBVIOUS
<1>1. engine \in Threads /\ main \in Threads
  BY DEF Threads
<1> QED
  BY <1>1 DEF Init, IInv, ProtocolTypes, FlagProtocol, HalfLinkedByMain, Current,
              Places, InSelect, ThreadPc, FdStates, Messages

(* The threads are told apart, and from the free running_flag. *)
LEMMA ThreadNames ==
  engine \in Threads /\ main \in Threads /\ engine # main /\ None \notin Threads
  BY SelectEngineAssumption DEF Threads, engine, main

(* A step that only moves the program counter of a thread, and neither     *)
(* into nor out of the trying of running_flag, keeps the protocol of the   *)
(* flag.                                                                   *)
LEMMA FlagKept ==
  ASSUME ProtocolTypes, FlagProtocol,
         NEW t \in Threads, t # engine,
         NEW to \in ThreadPc \ {"probing"},
         pc' = [pc EXCEPT ![t] = to],
         UNCHANGED <<at, running_flag>>, pc[t] # "probing"
  PROVE  FlagProtocol'
  BY DEF ProtocolTypes, FlagProtocol

-----------------------------------------------------------------------------
(* Changes: after each of them somebody is about to tell the engine.       *)

(* The calls that add and delete descriptors. *)
LEMMA FdSteps ==
  ASSUME IInv, NEW f \in Fds,
         FdAdd(f, "forever") \/ FdAdd(f, "once") \/ FdDel(f)
  PROVE  IInv'
<1> USE ThreadNames
<1>1. PICK how \in {"forever", "once"} : FdAdd(f, how) \/ FdDel(f)
  OBVIOUS
<1>2. /\ pc[main] = "idle"
      /\ pc' \in {[pc EXCEPT ![main] = "linking"], [pc EXCEPT ![main] = "changed"]}
      /\ UNCHANGED <<at, running_flag, manage_pipe>>
  BY <1>1 DEF FdAdd, FdDel, Go, engineVars
<1>3. ProtocolTypes'
  BY <1>1, <1>2 DEF FdAdd, FdDel, IInv, ProtocolTypes, ThreadPc, FdStates, Go
<1>4. FlagProtocol'
  BY <1>2, FlagKept DEF IInv, ThreadPc
<1>5. HalfLinkedByMain'
  BY <1>1, <1>2 DEF FdAdd, FdDel, IInv, ProtocolTypes, HalfLinkedByMain,
                    Go, Registrations
<1>6. Unannounced'
  BY <1>2, <1>3 DEF Unannounced, ProtocolTypes, IInv
<1> QED BY <1>3, <1>4, <1>5, <1>6 DEF IInv, Current, Announced

(* Setting the value of the entry that was linked. *)
LEMMA FdLinkedStep == ASSUME IInv, FdLinked PROVE IInv'
<1> USE ThreadNames
<1>1. /\ pc[main] = "linking"
      /\ pc' = [pc EXCEPT ![main] = "changed"]
      /\ UNCHANGED <<at, running_flag, manage_pipe>>
  BY DEF FdLinked, Go, engineVars
<1>2. ProtocolTypes'
  BY <1>1 DEF FdLinked, IInv, ProtocolTypes, HalfLinkedByMain, ThreadPc,
              FdStates, Registrations
<1>3. FlagProtocol'
  BY <1>1, FlagKept DEF IInv, ThreadPc
<1>4. HalfLinkedByMain'
  BY <1>1 DEF FdLinked, IInv, ProtocolTypes, HalfLinkedByMain, Registrations
<1>5. Unannounced'
  BY <1>1, <1>2 DEF Unannounced, ProtocolTypes, IInv
<1> QED BY <1>2, <1>3, <1>4, <1>5 DEF IInv, Current, Announced

(* Adding an event: its time is read, it is pushed. *)
LEMMA EventSteps ==
  ASSUME IInv, NEW t \in Threads, t = engine => at = "called",
         select_engine_schedule_add(t)
  PROVE  IInv'
<1> USE ThreadNames
<1>1. CASE \E delay \in Delays : ReadClock(t, delay)
  <2>1. /\ pc[t] = "idle"
        /\ pc' = [pc EXCEPT ![t] = "timed"]
        /\ UNCHANGED <<at, running_flag, manage_pipe, fd_poll, read_fds, event,
                       event_queue>>
        /\ \E e : arg' = [arg EXCEPT ![t] = e]
    BY <1>1 DEF ReadClock, Go, engineVars
  <2>2. ProtocolTypes'
    BY <2>1 DEF IInv, ProtocolTypes, ThreadPc
  <2>3. FlagProtocol'
    BY <2>1 DEF IInv, FlagProtocol, ProtocolTypes, InSelect
  <2>4. HalfLinkedByMain'
    BY <2>1 DEF IInv, ProtocolTypes, HalfLinkedByMain
  <2>5. Unannounced => Unannounced'
    BY <2>1 DEF Unannounced, IInv, ProtocolTypes
  <2>6. FirstEvent' = FirstEvent /\ Watched' = Watched
    BY <2>1 DEF FirstEvent, Watched
  <2> QED BY <2>1, <2>2, <2>3, <2>4, <2>5, <2>6 DEF IInv, Current, Announced
<1>2. CASE PushEvent(t) /\ PushStored(t)
  <2>1. /\ pc[t] = "timed"
        /\ pc' = [pc EXCEPT ![t] = "changed"]
        /\ UNCHANGED <<at, running_flag, manage_pipe, fd_poll>>
        /\ arg' = [arg EXCEPT ![t] = None]
    BY <1>2 DEF PushEvent, PushStored, Go, engineVars
  <2>2. ProtocolTypes'
    BY <2>1 DEF IInv, ProtocolTypes, ThreadPc
  <2>3. FlagProtocol'
    BY <2>1 DEF IInv, FlagProtocol, ProtocolTypes, InSelect
  <2>4. HalfLinkedByMain'
    BY <2>1 DEF IInv, ProtocolTypes, HalfLinkedByMain
  <2>5. Unannounced'
    BY <2>1 DEF Unannounced, IInv, ProtocolTypes
  <2> QED BY <2>2, <2>3, <2>4, <2>5 DEF IInv, Current, Announced
<1>3. CASE PushEvent(t) /\ PushFull(t)
  <2>1. /\ pc[t] = "timed"
        /\ pc' = [pc EXCEPT ![t] = "undefined"]
        /\ UNCHANGED <<at, running_flag, manage_pipe, fd_poll, read_fds, event,
                       event_queue, arg>>
    BY <1>3 DEF PushEvent, PushFull, Go, engineVars
  <2>2. ProtocolTypes'
    BY <2>1 DEF IInv, ProtocolTypes, ThreadPc
  <2>3. FlagProtocol'
    BY <2>1 DEF IInv, FlagProtocol, ProtocolTypes, InSelect
  <2>4. HalfLinkedByMain'
    BY <2>1 DEF IInv, ProtocolTypes, HalfLinkedByMain
  <2>5. Unannounced => Unannounced'
    BY <2>1 DEF Unannounced, IInv, ProtocolTypes
  <2>6. FirstEvent' = FirstEvent /\ Watched' = Watched
    BY <2>1 DEF FirstEvent, Watched
  <2> QED BY <2>1, <2>2, <2>3, <2>4, <2>5, <2>6 DEF IInv, Current, Announced
<1> QED BY <1>1, <1>2, <1>3 DEF select_engine_schedule_add, PushEvent

(* Announcing a change: while the engine holds running_flag nobody else    *)
(* gets it, and who does not get it writes a message.                      *)
LEMMA ReloadSteps ==
  ASSUME IInv, NEW t \in Threads, Reload(t)
  PROVE  IInv'
<1> USE ThreadNames
<1>1. UNCHANGED <<at, fd_poll, read_fds, event, event_queue, arg>>
  BY DEF Reload, TryLock, Unlock, Tell, engineVars
<1>2. FirstEvent' = FirstEvent /\ Watched' = Watched
  BY <1>1 DEF FirstEvent, Watched
<1>3. HalfLinkedByMain'
  BY <1>1 DEF Reload, TryLock, Unlock, Tell, Go, IInv, ProtocolTypes,
              HalfLinkedByMain
<1>4. CASE TryLock(t)
  <2>1. ProtocolTypes'
    BY <1>1, <1>4 DEF TryLock, Go, IInv, ProtocolTypes, ThreadPc
  <2>2. FlagProtocol'
    <3>1. at' \in InSelect => running_flag' = engine
      BY <1>1, <1>4 DEF TryLock, IInv, FlagProtocol
    <3>2. ASSUME NEW u \in Threads, pc'[u] = "probing" PROVE running_flag' = u
      BY <1>4, <3>2 DEF TryLock, Go, IInv, ProtocolTypes, FlagProtocol
    <3>3. at' # "called" => pc'[engine] = "idle"
      BY <1>1, <1>4 DEF TryLock, Go, IInv, ProtocolTypes, FlagProtocol
    <3> QED BY <3>1, <3>2, <3>3 DEF FlagProtocol
  <2>3. at \in InSelect => (Unannounced => Unannounced')
    <3>1. SUFFICES ASSUME at \in InSelect, Unannounced PROVE Unannounced'
      OBVIOUS
    <3>2. running_flag # None
      BY <3>1 DEF IInv, FlagProtocol
    <3> QED BY <1>4, <3>1, <3>2 DEF TryLock, Go, Unannounced, IInv, ProtocolTypes
  <2>4. UNCHANGED manage_pipe
    BY <1>4 DEF TryLock
  <2> QED BY <1>1, <1>2, <1>3, <2>1, <2>2, <2>3, <2>4
          DEF IInv, Current, Announced, InSelect
<1>5. CASE Unlock(t)
  <2>1. ProtocolTypes'
    BY <1>1, <1>5 DEF Unlock, Go, IInv, ProtocolTypes, ThreadPc
  <2>2. at \notin InSelect
    BY <1>5 DEF Unlock, Go, IInv, FlagProtocol, InSelect
  <2>3. FlagProtocol'
    BY <1>1, <1>5, <2>2 DEF Unlock, Go, IInv, ProtocolTypes, FlagProtocol
  <2> QED BY <1>1, <1>3, <2>1, <2>2, <2>3 DEF IInv, Current, InSelect
<1>6. CASE Tell(t)
  <2>1. ProtocolTypes' /\ manage_pipe' # <<>>
    BY <1>1, <1>6 DEF Tell, Go, IInv, ProtocolTypes, ThreadPc, Messages
  <2>2. FlagProtocol'
    BY <1>1, <1>6 DEF Tell, Go, IInv, ProtocolTypes, FlagProtocol
  <2> QED BY <1>3, <2>1, <2>2 DEF IInv, Current, Announced
<1> QED BY <1>4, <1>5, <1>6 DEF Reload

-----------------------------------------------------------------------------
(* The engine: what it collects under running_flag is current. *)

(* A step of the engine leaves the others where they are. *)
LEMMA EngineAlone == EngineStep => UNCHANGED <<pc, arg>>
BY DEF EngineStep, Lock, Leave, FillFds, PeekEvent, SelectReadable,
       SelectTimeout, SelectInterrupted, EngineUnlock, FireEvent, PopEvent,
       ServeManage, FindReadable, ServeFd, EndRound

(* The descriptors: where no change is under way every entry has a value,  *)
(* and hash_foreach reaches them all.                                      *)
LEMMA FillStep == ASSUME IInv, FillFds PROVE IInv'
<1> USE ThreadNames
<1>1. /\ at = "locked" /\ at' = "filled"
      /\ UNCHANGED <<running_flag, fd_poll, manage_pipe, pc, arg>>
      /\ read_fds' = {manage_fd} \cup {f \in Watched : Reached(f)}
  BY DEF FillFds, At
<1>2. ProtocolTypes' /\ FlagProtocol' /\ HalfLinkedByMain'
  BY <1>1 DEF IInv, ProtocolTypes, FlagProtocol, HalfLinkedByMain, Places,
              InSelect
<1>3. Unannounced' = Unannounced /\ Watched' = Watched
  BY <1>1 DEF Unannounced, Watched
<1>4. ~ Unannounced => \A f \in Fds : Reached(f)
  BY DEF Unannounced, Reached, IInv, HalfLinkedByMain
<1>5. ~ Unannounced => read_fds' = {manage_fd} \cup Watched
  BY <1>1, <1>4 DEF Watched
<1> QED BY <1>1, <1>2, <1>3, <1>5 DEF IInv, Current, Announced

(* The first event: it is looked at last before select. *)
LEMMA PeekStep == ASSUME IInv, PeekEvent PROVE IInv'
<1>1. /\ at = "filled" /\ at' = "selecting"
      /\ UNCHANGED <<running_flag, fd_poll, manage_pipe, event_queue, read_fds,
                     pc, arg>>
      /\ event' = FirstEvent
  BY DEF PeekEvent, At, FirstEvent, Queue!__heap_peek
<1>2. ProtocolTypes' /\ FlagProtocol' /\ HalfLinkedByMain'
  BY <1>1 DEF IInv, ProtocolTypes, FlagProtocol, HalfLinkedByMain, Places,
              InSelect
<1>3. /\ Unannounced' = Unannounced /\ Watched' = Watched
      /\ FirstEvent' = FirstEvent
  BY <1>1 DEF Unannounced, Watched, FirstEvent
<1> QED BY <1>1, <1>2, <1>3 DEF IInv, Current, Announced

(* Everywhere else the engine is not about to select. *)
LEMMA OtherEngineSteps ==
  ASSUME IInv, EngineStep, ~ FillFds, ~ PeekEvent
  PROVE  IInv'
<1> USE ThreadNames
<1>1. UNCHANGED <<pc, arg>>
  BY EngineAlone
<1>2. at' \in Places \ {"filled", "selecting"}
  BY DEF EngineStep, Lock, Leave, SelectReadable, SelectTimeout,
         SelectInterrupted, EngineUnlock, FireEvent, PopEvent, ServeManage,
         FindReadable, ServeFd, EndRound, At, Places, InSelect, IInv,
         ProtocolTypes
<1>3. /\ manage_pipe' \in Seq(Messages)
      /\ fd_poll' \in [Fds -> FdStates]
      /\ \A f \in Fds : fd_poll'[f] = fd_poll[f] \/ fd_poll'[f] = "none"
  <2> USE DEF IInv, ProtocolTypes, FdStates, Messages
  <2>1. CASE ServeManage
    BY <2>1 DEF ServeManage
  <2>2. CASE ServeFd
    BY <2>2 DEF ServeFd
  <2>3. CASE ~ ServeManage /\ ~ ServeFd
    <3>1. UNCHANGED <<manage_pipe, fd_poll>>
      BY <2>3 DEF EngineStep, Lock, Leave, SelectReadable, SelectTimeout,
                  SelectInterrupted, EngineUnlock, FireEvent, PopEvent,
                  FindReadable, EndRound
    <3> QED BY <3>1
  <2> QED BY <2>1, <2>2, <2>3
<1>4. /\ at' \in InSelect => running_flag' = engine
      /\ at' # "called" => pc[engine] = "idle"
  BY DEF EngineStep, Lock, Leave, SelectReadable, SelectTimeout,
         SelectInterrupted, EngineUnlock, FireEvent, PopEvent, ServeManage,
         FindReadable, ServeFd, EndRound, At, InSelect, IInv, FlagProtocol
<1>5. ASSUME NEW t \in Threads, pc[t] = "probing"
      PROVE  running_flag' = t
  <2>1. running_flag = t
    BY <1>5 DEF IInv, FlagProtocol
  <2>2. ~ Lock
    BY <2>1 DEF Lock, IInv
  <2>3. ~ EngineUnlock
    BY <2>1, <1>5 DEF EngineUnlock, At, IInv, FlagProtocol, InSelect
  <2> QED BY <2>1, <2>2, <2>3
          DEF EngineStep, Leave, SelectReadable, SelectTimeout,
              SelectInterrupted, FireEvent, PopEvent, ServeManage,
              FindReadable, ServeFd, EndRound
<1> QED BY <1>1, <1>2, <1>3, <1>4, <1>5
        DEF IInv, ProtocolTypes, FlagProtocol, HalfLinkedByMain, Current

-----------------------------------------------------------------------------
(* Every step keeps the invariant. *)
LEMMA NextInvariant == IInv /\ [Next]_vars => IInv'
<1> USE ThreadNames
<1> SUFFICES ASSUME IInv, [Next]_vars PROVE IInv'
  OBVIOUS
<1>1. CASE \E f \in Fds : FdAdd(f, "forever") \/ FdAdd(f, "once") \/ FdDel(f)
  BY <1>1, FdSteps
<1>2. CASE FdLinked
  BY <1>2, FdLinkedStep
<1>3. CASE \E t \in Callers : select_engine_schedule_add(t)
  BY <1>3, EventSteps, SelectEngineAssumption DEF Threads
<1>4. CASE MainSchedules
  BY <1>4, EventSteps, ThreadNames DEF MainSchedules
<1>5. CASE EngineSchedules
  BY <1>5, EventSteps DEF EngineSchedules
<1>6. CASE \E t \in Threads : Reload(t)
  BY <1>6, ReloadSteps
<1>7. CASE EngineStep
  BY <1>7, FillStep, PeekStep, OtherEngineSteps
<1>8. CASE select_engine_stop
  <2>1. /\ manage_pipe' \in Seq(Messages) /\ manage_pipe' # <<>>
        /\ UNCHANGED <<at, running_flag, fd_poll, pc, arg>>
    BY <1>8 DEF select_engine_stop, IInv, ProtocolTypes, Messages, engineVars
  <2> QED BY <2>1 DEF IInv, ProtocolTypes, FlagProtocol, HalfLinkedByMain,
                      Current, Announced
<1>9. CASE select_engine_destroy \/ Tick \/ (\E f \in Fds : Arrive(f))
           \/ UNCHANGED vars
  <2>1. UNCHANGED <<at, running_flag, fd_poll, manage_pipe, read_fds, event,
                    event_queue, pc, arg>>
    BY <1>9 DEF select_engine_destroy, Tick, Arrive, engineVars, vars
  <2>2. /\ Unannounced' = Unannounced /\ Watched' = Watched
        /\ FirstEvent' = FirstEvent
    BY <2>1 DEF Unannounced, Watched, FirstEvent
  <2> QED BY <2>1, <2>2 DEF IInv, ProtocolTypes, FlagProtocol,
                            HalfLinkedByMain, Current, Announced
<1> QED BY <1>1, <1>2, <1>3, <1>4, <1>5, <1>6, <1>7, <1>8, <1>9,
           SelectEngineAssumption
        DEF Next, Running

(* The invariant holds in every reachable state. *)
LEMMA Invariant == Spec => []IInv
BY InitInvariant, NextInvariant, PTL DEF Spec

(* The engine never sleeps through a change of its descriptors or of its   *)
(* first event (select.c:217-221, 320-333).                                *)
THEOREM NoWakeupIsLost == Spec => []NoLostWakeup
<1>1. IInv => NoLostWakeup
  BY DEF IInv, Current, Announced, NoLostWakeup
<1> QED BY <1>1, Invariant, PTL

-----------------------------------------------------------------------------
(* The heap. *)
LEMMA HeapPush ==
  ASSUME NEW S, NEW h \in Seq(S), NEW data \in S
  PROVE  /\ Queue!__heap_push(h, data) \in Seq(S)
         /\ Len(Queue!__heap_push(h, data)) = Len(h) + 1
         /\ HeapFacts!Distinct(h) /\ data \notin HeapFacts!Elems(h) =>
              /\ HeapFacts!Distinct(Queue!__heap_push(h, data))
              /\ \A x : x \in HeapFacts!Elems(Queue!__heap_push(h, data))
                         <=> x \in HeapFacts!Elems(h) \/ x = data
<1>1. Queue!__heap_push(h, data) = HeapFacts!__heap_push(h, data)
  BY DEF Queue!__heap_push, HeapFacts!__heap_push, Queue!__heap_sort,
         HeapFacts!__heap_sort, Queue!Max, HeapFacts!Max, Queue!Ancestors,
         HeapFacts!Ancestors, Queue!Halved, HeapFacts!Halved, Queue!Settles, HeapFacts!Settles
<1>2. /\ HeapFacts!__heap_push(h, data) \in Seq(S)
      /\ Len(HeapFacts!__heap_push(h, data)) = Len(h) + 1
  BY HeapFacts!PushKeeps
<1>3. ASSUME HeapFacts!Distinct(h), data \notin HeapFacts!Elems(h)
      PROVE  /\ HeapFacts!Distinct(HeapFacts!__heap_push(h, data))
             /\ \A x : x \in HeapFacts!Elems(HeapFacts!__heap_push(h, data))
                        <=> x \in HeapFacts!Elems(h) \/ x = data
  <2>1. HeapFacts!Distinct(HeapFacts!__heap_push(h, data))
    BY <1>3, HeapFacts!PushHolds
  <2>2. HeapFacts!Elems(HeapFacts!__heap_push(h, data)) = HeapFacts!Elems(h) \cup {data}
    BY <1>3, HeapFacts!PushHolds, SMTT(30)
  <2> QED BY <2>1, <2>2
<1> QED BY <1>1, <1>2, <1>3

LEMMA HeapPop ==
  ASSUME NEW S, NEW h \in Seq(S), h # <<>>
  PROVE  /\ Queue!__heap_pop(h) \in Seq(S)
         /\ Len(Queue!__heap_pop(h)) = Len(h) - 1
         /\ HeapFacts!Distinct(h) =>
              /\ HeapFacts!Distinct(Queue!__heap_pop(h))
              /\ HeapFacts!Elems(Queue!__heap_pop(h)) = HeapFacts!Elems(h) \ {h[1]}
<1>1. Queue!__heap_pop(h) = HeapFacts!__heap_remove(h, 1)
  BY DEF Queue!__heap_pop, Queue!__heap_remove, HeapFacts!__heap_remove,
         Queue!__heap_sort, HeapFacts!__heap_sort, Queue!Max, HeapFacts!Max,
         Queue!Ancestors, HeapFacts!Ancestors, Queue!Halved, HeapFacts!Halved, Queue!Settles,
         HeapFacts!Settles, Queue!SinkPath, HeapFacts!SinkPath,
         Queue!Winner, HeapFacts!Winner
<1>2. 1 \in 1..Len(h)
  OBVIOUS
<1> QED BY <1>1, <1>2, HeapFacts!RemoveKeeps, HeapFacts!RemoveHolds

-----------------------------------------------------------------------------
(* The time.  The microseconds of an event's time may be those of almost   *)
(* two seconds, and not more.                                              *)
Timed == {e \in Events : e.time.usec <= 2 * UsecPerSec - 2}

Kept(e, t) == \/ Due(e) <= t
              \/ ~ Carried(e) /\ Due(e) < t + UsecPerSec

LEMMA ClockParts ==
  ASSUME NEW t \in Nat
  PROVE  /\ Clock(t).sec \in Nat /\ Clock(t).usec \in 0..(UsecPerSec - 1)
         /\ t = Clock(t).sec * UsecPerSec + Clock(t).usec
BY SelectEngineAssumption DEF Clock

LEMMA ScheduledIsTimed ==
  ASSUME NEW t \in Nat, NEW delay \in Nat, NEW i \in 1..MaxEvents
  PROVE  [id |-> i, time |-> TimeAfter(t, delay)] \in Timed
<1> DEFINE c == Clock(t)
           d == Clock(delay)
<1>1. /\ c.sec \in Nat /\ c.usec \in 0..(UsecPerSec - 1)
      /\ d.sec \in Nat /\ d.usec \in 0..(UsecPerSec - 1)
  BY ClockParts
<1>2. TimeAfter(t, delay) = [sec |-> c.sec + d.sec, usec |-> c.usec + d.usec]
  BY DEF TimeAfter
<1> HIDE DEF c, d
<1> QED BY <1>1, <1>2, SelectEngineAssumption DEF Timed, Events, Time

LEMMA Product ==
  ASSUME NEW a \in Int, NEW b \in Int, NEW u \in Nat, a <= b
  PROVE  a * u \in Int /\ b * u \in Int /\ a * u <= b * u
<1>1. (b - a) * u \in Nat
  OBVIOUS
<1>2. b * u = a * u + (b - a) * u
  OBVIOUS
<1> QED BY <1>1, <1>2

(* The wait reaches the time of the event, unless its microseconds needed  *)
(* a carry; and then it misses it by less than a second.                   *)
LEMMA WaitKeeps ==
  ASSUME NEW e \in Timed, NEW t \in Nat
  PROVE  Wait(e, t) \in Nat /\ Kept(e, t + Wait(e, t))
<1> DEFINE U == UsecPerSec
           q == Clock(t).sec
           r == Clock(t).usec
           es == e.time.sec
           eu == e.time.usec
           u == eu - r
           sec == IF u < 0 THEN (es - q) - 1 ELSE es - q
           usec == IF u < 0 THEN u + U ELSE u
<1>1. /\ U \in Nat /\ U > 0 /\ q \in Nat /\ r \in 0..(U - 1) /\ t = q * U + r
      /\ es \in Nat /\ eu \in Nat /\ eu <= 2 * U - 2 /\ Due(e) = es * U + eu
  BY ClockParts, SelectEngineAssumption DEF Timed, Events, Time, Due
<1>2. Wait(e, t) = IF sec < 0 THEN 0 ELSE sec * U + usec
  BY DEF Wait
<1>3. Carried(e) <=> eu < U
  BY DEF Carried
<1> HIDE DEF U, q, r, es, eu
<1>4. sec \in Int /\ usec \in Nat
  BY <1>1
<1>5. CASE sec >= 0
  <2>1. sec * U \in Nat
    BY <1>1, <1>4, <1>5, Product
  <2>2. Wait(e, t) = sec * U + usec
    BY <1>2, <1>4, <1>5
  <2>3. sec * U + usec = (es * U + eu) - (q * U + r)
    <3>1. CASE u < 0
      <4>1. ((es - q) - 1) * U = es * U - q * U - U
        BY <1>1
      <4> QED BY <1>1, <3>1, <4>1
    <3>2. CASE ~ (u < 0)
      <4>1. (es - q) * U = es * U - q * U
        BY <1>1
      <4> QED BY <1>1, <3>2, <4>1
    <3> QED BY <3>1, <3>2
  <2>4. es * U \in Nat /\ q * U \in Nat
    BY <1>1
  <2> QED BY <1>1, <1>4, <2>1, <2>2, <2>3, <2>4 DEF Kept
<1>6. CASE sec < 0
  <2>1. Wait(e, t) = 0
    BY <1>2, <1>6
  <2>2. es * U \in Nat /\ q * U \in Nat
    BY <1>1
  <2>3. CASE u < 0
    <3>1. es <= q
      BY <1>1, <1>6, <2>3
    <3>2. es * U <= q * U
      BY <1>1, <3>1, Product
    <3> QED BY <1>1, <2>1, <2>2, <2>3, <3>2 DEF Kept
  <2>4. CASE ~ (u < 0)
    <3>1. es + 1 <= q
      BY <1>1, <1>6, <2>4
    <3>2. (es + 1) * U <= q * U /\ (es + 1) * U = es * U + U
      BY <1>1, <3>1, Product
    <3>3. eu < U => Due(e) <= t
      BY <1>1, <2>2, <3>2
    <3>4. Due(e) < t + U
      BY <1>1, <2>2, <3>2
    <3> QED BY <1>1, <1>3, <2>1, <3>3, <3>4 DEF Kept, U
  <2> QED BY <2>3, <2>4
<1> QED BY <1>4, <1>5, <1>6

-----------------------------------------------------------------------------
(* The invariant.  What is pushed, and what the engine waits for, is an    *)
(* event; ...                                                              *)
EventTypes ==
  /\ event_queue \in Seq(Timed) /\ Len(event_queue) <= PRI_QUEUE_SIZE
  /\ arg \in [Threads -> Timed \cup Registrations \cup {None}]
  /\ \A t \in Threads : pc[t] = "timed" => arg[t] \in Timed
  /\ event \in Timed \cup {None}
  /\ timeout \in Nat \cup {None}
  /\ now \in Nat
  /\ scheduled \in 0..MaxEvents
  /\ fired \in [1..MaxEvents -> Nat]

(* ... its wait ends when the time of the event has come, but for the      *)
(* carry, and the queue is not empty by then; ...                          *)
Awaits(t) == event \in Timed /\ event_queue # <<>> /\ Kept(event, t)

Awaited ==
  /\ at = "selecting" /\ timeout # None => Awaits(timeout)
  /\ (at = "woken" /\ read_fds = {}) \/ at \in {"timer", "called"} => Awaits(now)

(* ... there are data to read where select has found some; ...             *)
Readables ==
  /\ read_fds \subseteq Fds \cup {manage_fd}
  /\ pending \in [Fds -> Nat]
  /\ serving \in Registrations \cup {None}
  /\ at \in {"woken", "dispatch", "serving"} =>
       \A f \in read_fds \ {manage_fd} : pending[f] > 0
  /\ at = "serving" => /\ serving \in Registrations
                       /\ serving.fd \notin read_fds
                       /\ pending[serving.fd] > 0

(* ... and the rest. *)
Ranges ==
  /\ running_flag \in Threads \cup {None}
  /\ need_continue \in BOOLEAN
  /\ Len(manage_pipe) <= PipeSize
  /\ changes \in Nat
  /\ arrivals \in Nat
  /\ shutdown \in {"no", "stopped", "destroyed", "refused"}

TimerInv == EventTypes /\ Awaited /\ Readables /\ Ranges

LEMMA TimerInvInit == Init => TimerInv
<1> SUFFICES ASSUME Init PROVE TimerInv
  OBVIOUS
<1> USE SelectEngineAssumption DEF Init
<1>1. EventTypes
  BY DEF EventTypes
<1>2. Awaited
  BY DEF Awaited
<1>3. Readables
  BY DEF Readables
<1>4. Ranges
  BY DEF Ranges
<1> QED BY <1>1, <1>2, <1>3, <1>4 DEF TimerInv

(* Time that passes breaks no promise. *)
LEMMA KeptLater ==
  ASSUME NEW e \in Timed, NEW t \in Nat, NEW u \in Nat, t <= u, Kept(e, t)
  PROVE  Kept(e, u)
<1>1. Due(e) \in Nat
  BY SelectEngineAssumption DEF Timed, Events, Time, Due
<1> QED BY <1>1, SelectEngineAssumption DEF Kept

-----------------------------------------------------------------------------
(* The steps of the threads and of the world: none of them moves the       *)
(* engine.                                                                 *)
OthersStep ==
  \/ \E f \in Fds : FdAdd(f, "forever") \/ FdAdd(f, "once") \/ FdDel(f)
  \/ FdLinked
  \/ \E t \in Threads : select_engine_schedule_add(t) \/ Reload(t)
  \/ select_engine_stop \/ select_engine_destroy
  \/ Tick \/ \E f \in Fds : Arrive(f)

LEMMA Steps ==
  ASSUME [Next]_vars
  PROVE  OthersStep \/ EngineStep \/ UNCHANGED vars
BY ThreadNames, SelectEngineAssumption
   DEF Next, Running, OthersStep, MainSchedules, EngineSchedules, Threads

(* The events: those that are pushed were made from a clock and a delay.   *)
LEMMA OthersEvents ==
  ASSUME IInv, TimerInv, OthersStep
  PROVE  /\ EventTypes'
         /\ now <= now' /\ UNCHANGED <<event, timeout>>
         /\ event_queue # <<>> => event_queue' # <<>>
<1> USE ThreadNames DEF TimerInv, EventTypes
<1>0. pc \in [Threads -> ThreadPc]
  BY DEF IInv, ProtocolTypes
<1>1. CASE \E f \in Fds : FdAdd(f, "forever") \/ FdAdd(f, "once") \/ FdDel(f)
  BY <1>0, <1>1 DEF FdAdd, FdDel, Go, engineVars, Registrations
<1>2. CASE FdLinked
  BY <1>0, <1>2 DEF FdLinked, Go, engineVars, history
<1>3. ASSUME NEW t \in Threads, NEW delay \in Delays, ReadClock(t, delay)
      PROVE  EventTypes' /\ now <= now' /\ UNCHANGED <<event, timeout, event_queue>>
  <2> DEFINE e == [id |-> scheduled + 1, time |-> TimeAfter(now, delay)]
  <2>1. e \in Timed /\ scheduled + 1 \in 0..MaxEvents
    <3>1. delay \in Nat /\ scheduled + 1 \in 1..MaxEvents
      BY <1>3, SelectEngineAssumption DEF ReadClock
    <3> QED BY <3>1, ScheduledIsTimed
  <2>2. /\ pc' = [pc EXCEPT ![t] = "timed"] /\ arg' = [arg EXCEPT ![t] = e]
        /\ scheduled' = scheduled + 1
        /\ UNCHANGED <<event_queue, event, timeout, now, fired>>
    BY <1>3 DEF ReadClock, Go, engineVars
  <2> HIDE DEF e
  <2>3. arg' \in [Threads -> Timed \cup Registrations \cup {None}]
    BY <2>1, <2>2
  <2>4. \A u \in Threads : pc'[u] = "timed" => arg'[u] \in Timed
    BY <1>0, <2>1, <2>2
  <2>5. now <= now
    OBVIOUS
  <2> QED BY <2>1, <2>2, <2>3, <2>4, <2>5
<1>4. ASSUME NEW t \in Threads, PushEvent(t)
      PROVE  /\ EventTypes' /\ now <= now' /\ UNCHANGED <<event, timeout>>
             /\ event_queue # <<>> => event_queue' # <<>>
  <2>1. arg[t] \in Timed /\ event_queue \in Seq(Timed) /\ Len(event_queue) \in Nat
    BY <1>4, LenProperties DEF PushEvent, PushStored, PushFull, Go
  <2>2. /\ event_queue' \in Seq(Timed) /\ Len(event_queue') <= PRI_QUEUE_SIZE
        /\ event_queue # <<>> => event_queue' # <<>>
    <3>1. CASE PushStored(t)
      <4>1. /\ event_queue' = Queue!__heap_push(event_queue, arg[t])
            /\ Len(event_queue) < PRI_QUEUE_SIZE
        BY <3>1 DEF PushStored
      <4>2. /\ event_queue' \in Seq(Timed)
            /\ Len(event_queue') = Len(event_queue) + 1
        BY <2>1, <4>1, HeapPush
      <4> QED BY <2>1, <4>1, <4>2, SelectEngineAssumption
    <3>2. CASE PushFull(t)
      BY <2>1, <3>2 DEF PushFull, EventTypes
    <3> QED BY <1>4, <3>1, <3>2 DEF PushEvent
  <2>3. /\ \A u \in Threads : pc'[u] = "timed" => pc[u] = "timed" /\ arg'[u] = arg[u]
        /\ arg' = arg \/ arg' = [arg EXCEPT ![t] = None]
    BY <1>0, <1>4 DEF PushEvent, PushStored, PushFull, Go
  <2> QED BY <1>0, <1>4, <2>2, <2>3 DEF PushEvent, engineVars, history
<1>5. ASSUME NEW t \in Threads, Reload(t)
      PROVE  EventTypes' /\ now <= now' /\ UNCHANGED <<event, timeout, event_queue>>
  BY <1>0, <1>5 DEF Reload, TryLock, Unlock, Tell, Go, engineVars, history
<1>6. CASE select_engine_stop \/ select_engine_destroy
  BY <1>6 DEF select_engine_stop, select_engine_destroy, engineVars, history
<1>7. CASE Tick \/ \E f \in Fds : Arrive(f)
  BY <1>7 DEF Tick, Arrive, engineVars, history
<1> QED BY <1>1, <1>2, <1>3, <1>4, <1>5, <1>6, <1>7
        DEF OthersStep, select_engine_schedule_add

(* The data: they only get more. *)
LEMMA OthersReadables ==
  ASSUME TimerInv, OthersStep
  PROVE  /\ Readables' /\ UNCHANGED <<at, read_fds, serving>>
<1>1. CASE \E f \in Fds : Arrive(f)
  BY <1>1 DEF Arrive, engineVars, TimerInv, Readables
<1>2. CASE ~ \E f \in Fds : Arrive(f)
  <2>1. UNCHANGED <<at, read_fds, serving, pending>>
    BY <1>2 DEF OthersStep, FdAdd, FdDel, FdLinked, select_engine_schedule_add,
                ReadClock, PushEvent, Reload, TryLock, Unlock, Tell,
                select_engine_stop, select_engine_destroy, Tick, engineVars
  <2> QED BY <2>1 DEF TimerInv, Readables
<1> QED BY <1>1, <1>2

LEMMA OthersRanges ==
  ASSUME IInv, TimerInv, OthersStep
  PROVE  Ranges'
<1> USE ThreadNames, SelectEngineAssumption DEF TimerInv, Ranges
<1>1. CASE \E t \in Threads : Tell(t)
  BY <1>1 DEF Tell, engineVars, history, IInv, ProtocolTypes, Messages
<1>2. CASE select_engine_stop
  BY <1>2 DEF select_engine_stop, engineVars, history, IInv, ProtocolTypes, Messages
<1>3. CASE \E t \in Threads : TryLock(t) \/ Unlock(t)
  BY <1>3 DEF TryLock, Unlock, engineVars, history
<1>4. CASE \E t \in Threads : select_engine_schedule_add(t)
  BY <1>4 DEF select_engine_schedule_add, ReadClock, PushEvent, engineVars, history
<1>5. CASE (\E f \in Fds : FdAdd(f, "forever") \/ FdAdd(f, "once") \/ FdDel(f))
            \/ FdLinked
  BY <1>5 DEF FdAdd, FdDel, FdLinked, engineVars, history
<1>6. CASE select_engine_destroy \/ Tick \/ \E f \in Fds : Arrive(f)
  BY <1>6 DEF select_engine_destroy, Tick, Arrive, engineVars, history
<1> QED BY <1>1, <1>2, <1>3, <1>4, <1>5, <1>6 DEF OthersStep, Reload

LEMMA OthersTimerInv ==
  ASSUME IInv, TimerInv, OthersStep
  PROVE  TimerInv'
<1>1. /\ EventTypes' /\ Readables' /\ Ranges'
      /\ now <= now'
      /\ UNCHANGED <<at, read_fds, event, timeout>>
      /\ event_queue # <<>> => event_queue' # <<>>
  BY OthersEvents, OthersReadables, OthersRanges
<1>2. now \in Nat /\ now' \in Nat
  BY <1>1 DEF TimerInv, EventTypes
<1>3. Awaited'
  BY <1>1, <1>2, KeptLater DEF TimerInv, Awaited, Awaits
<1> QED BY <1>1, <1>3 DEF TimerInv

-----------------------------------------------------------------------------
(* The steps of the engine. *)
LEMMA EngineEvents ==
  ASSUME TimerInv, EngineStep
  PROVE  EventTypes' /\ UNCHANGED now
<1> USE DEF TimerInv, EventTypes
<1>0. UNCHANGED <<now, arg, pc, scheduled>>
  BY DEF EngineStep, Lock, Leave, FillFds, PeekEvent, SelectReadable,
         SelectTimeout, SelectInterrupted, EngineUnlock, FireEvent, PopEvent,
         ServeManage, FindReadable, ServeFd, EndRound, history
<1>1. CASE PeekEvent
  <2>1. CASE event_queue = <<>>
    BY <1>0, <1>1, <2>1 DEF PeekEvent, history
  <2>2. CASE event_queue # <<>>
    <3>1. event_queue[1] \in Timed
      BY <2>2
    <3>2. /\ event' = event_queue[1]
          /\ timeout' = now + Wait(event_queue[1], now)
          /\ UNCHANGED <<event_queue, fired>>
      BY <1>1, <2>2 DEF PeekEvent, Queue!__heap_peek, history
    <3>3. now \in Nat
      OBVIOUS
    <3>4. Wait(event_queue[1], now) \in Nat
      BY ONLY <3>1, <3>3, WaitKeeps, SelectEngineAssumption
    <3>5. timeout' \in Nat
      BY ONLY <3>2, <3>3, <3>4
    <3> QED BY <1>0, <3>1, <3>2, <3>5
  <2> QED BY <2>1, <2>2
<1>2. CASE PopEvent
  <2>1. event_queue # <<>>
    BY <1>2 DEF PopEvent, At, Awaited, Awaits
  <2>2. event_queue[1] \in Timed /\ Len(event_queue) \in Nat
    BY <2>1, LenProperties
  <2>3. /\ event' = event_queue[1]
        /\ event_queue' = Queue!__heap_pop(event_queue)
        /\ UNCHANGED <<timeout, fired>>
    BY <1>2 DEF PopEvent, Queue!__heap_peek, history
  <2>4. /\ event_queue' \in Seq(Timed)
        /\ Len(event_queue') = Len(event_queue) - 1
    BY <2>1, <2>3, HeapPop
  <2>5. Len(event_queue') <= PRI_QUEUE_SIZE
    BY <2>2, <2>4, SelectEngineAssumption
  <2> QED BY <1>0, <2>2, <2>3, <2>4, <2>5
<1>3. CASE FireEvent
  <2>1. event.id \in 1..MaxEvents
    BY <1>3 DEF FireEvent, At, Awaited, Awaits, Timed, Events
  <2> QED BY <1>0, <1>3, <2>1 DEF FireEvent
<1>4. CASE ~ PeekEvent /\ ~ PopEvent /\ ~ FireEvent
  BY <1>0, <1>4
     DEF EngineStep, Lock, Leave, FillFds, SelectReadable, SelectTimeout,
         SelectInterrupted, EngineUnlock, ServeManage, FindReadable, ServeFd,
         EndRound, history
<1> QED BY <1>0, <1>1, <1>2, <1>3, <1>4

(* What the engine waits for, and when it stops to. *)
LEMMA EngineAwaited ==
  ASSUME IInv, TimerInv, EngineStep
  PROVE  Awaited'
<1>1. UNCHANGED now
  BY EngineEvents
<1>2. CASE PeekEvent
  <2>1. at' = "selecting"
    BY <1>2 DEF PeekEvent, At
  <2>2. CASE event_queue = <<>>
    BY <1>2, <2>1, <2>2 DEF PeekEvent, Awaited
  <2>3. CASE event_queue # <<>>
    <3>1. event_queue[1] \in Timed /\ now \in Nat
      BY <2>3 DEF TimerInv, EventTypes
    <3>2. /\ event' = event_queue[1]
          /\ timeout' = now + Wait(event_queue[1], now)
          /\ UNCHANGED event_queue
      BY <1>2, <2>3 DEF PeekEvent, Queue!__heap_peek
    <3>3. Kept(event', timeout')
      BY <3>1, <3>2, WaitKeeps
    <3> QED BY <2>1, <2>3, <3>1, <3>2, <3>3 DEF Awaited, Awaits
  <2> QED BY <2>2, <2>3
<1>3. CASE SelectTimeout
  <2>1. Awaits(timeout) /\ timeout \in Nat /\ now \in Nat /\ timeout <= now
    BY <1>3 DEF SelectTimeout, At, TimerInv, EventTypes, Awaited
  <2>2. Awaits(now)
    BY <2>1, KeptLater DEF Awaits
  <2>3. at' = "woken" /\ UNCHANGED <<event, event_queue, now>>
    BY <1>3 DEF SelectTimeout, At
  <2> QED BY <2>2, <2>3 DEF Awaited, Awaits
<1>4. CASE SelectReadable
  BY <1>4 DEF SelectReadable, At, Awaited
<1>5. CASE EngineUnlock \/ FireEvent
  BY <1>5 DEF EngineUnlock, FireEvent, At, TimerInv, Awaited, Awaits
<1>6. CASE PopEvent \/ ServeFd
  BY <1>6 DEF PopEvent, ServeFd, At, Awaited
<1>7. CASE Lock \/ Leave \/ FillFds \/ SelectInterrupted \/ ServeManage
           \/ (\E f \in Fds : FindReadable(f)) \/ EndRound
  BY <1>7 DEF Lock, Leave, FillFds, SelectInterrupted, ServeManage,
              FindReadable, EndRound, At, Awaited
<1> QED BY <1>2, <1>3, <1>4, <1>5, <1>6, <1>7 DEF EngineStep

(* What select has found is there to be read. *)
LEMMA EngineReadables ==
  ASSUME IInv, TimerInv, EngineStep
  PROVE  Readables'
<1> USE DEF TimerInv, Readables
<1>1. CASE FillFds
  BY <1>1 DEF FillFds, At, Watched
<1>2. CASE SelectReadable
  BY <1>2 DEF SelectReadable, At, Readable
<1>3. CASE SelectTimeout
  BY <1>3 DEF SelectTimeout, At
<1>4. CASE ServeFd
  <2>1. /\ serving.fd \in Fds /\ pending[serving.fd] > 0
        /\ serving.fd \notin read_fds
    BY <1>4 DEF ServeFd, At, Registrations
  <2>2. /\ pending' = [pending EXCEPT ![serving.fd] = @ - 1]
        /\ at' = "dispatch" /\ at = "serving"
        /\ UNCHANGED <<read_fds, serving>>
    BY <1>4 DEF ServeFd, At
  <2>3. pending' \in [Fds -> Nat]
    BY <2>1, <2>2
  <2>4. \A f \in read_fds \ {manage_fd} : pending'[f] = pending[f]
    BY <2>1, <2>2
  <2> QED BY <2>2, <2>3, <2>4
<1>5. ASSUME NEW f \in Fds, FindReadable(f) PROVE Readables'
  <2>1. f \in read_fds \ {manage_fd} /\ at = "dispatch" /\ UNCHANGED pending
    BY <1>5 DEF FindReadable, NextReadable
  <2>2. f \in Watched => [fd |-> f, how |-> fd_poll[f]] \in Registrations
    BY DEF Watched, Registrations
  <2> QED BY <1>5, <2>1, <2>2 DEF FindReadable, At
<1>6. CASE ServeManage
  BY <1>6 DEF ServeManage
<1>7. CASE EndRound
  BY <1>7 DEF EndRound, At
<1>8. CASE Lock \/ Leave \/ PeekEvent \/ SelectInterrupted \/ EngineUnlock
           \/ FireEvent \/ PopEvent
  BY <1>8 DEF Lock, Leave, PeekEvent, SelectInterrupted, EngineUnlock,
              FireEvent, PopEvent, At
<1> QED BY <1>1, <1>2, <1>3, <1>4, <1>5, <1>6, <1>7, <1>8 DEF EngineStep

LEMMA EngineRanges ==
  ASSUME TimerInv, EngineStep
  PROVE  Ranges'
<1> USE ThreadNames, SelectEngineAssumption DEF TimerInv, Ranges
<1>1. CASE ServeManage
  <2>1. manage_pipe' = <<>> /\ need_continue' \in BOOLEAN
    BY <1>1 DEF ServeManage
  <2> QED BY <1>1, <2>1 DEF ServeManage, history
<1>2. CASE Lock \/ Leave
  BY <1>2 DEF Lock, Leave, history
<1>3. CASE FillFds \/ PeekEvent \/ SelectReadable \/ SelectTimeout
           \/ SelectInterrupted \/ EngineUnlock
  BY <1>3 DEF FillFds, PeekEvent, SelectReadable, SelectTimeout,
              SelectInterrupted, EngineUnlock, history
<1>4. CASE FireEvent \/ PopEvent \/ (\E f \in Fds : FindReadable(f)) \/ ServeFd
           \/ EndRound
  BY <1>4 DEF FireEvent, PopEvent, FindReadable, ServeFd, EndRound, history
<1> QED BY <1>1, <1>2, <1>3, <1>4 DEF EngineStep

-----------------------------------------------------------------------------
LEMMA TimerInvNext == IInv /\ TimerInv /\ [Next]_vars => TimerInv'
<1> SUFFICES ASSUME IInv, TimerInv, [Next]_vars PROVE TimerInv'
  OBVIOUS
<1>1. CASE OthersStep
  BY <1>1, OthersTimerInv
<1>2. CASE EngineStep
  BY <1>2, EngineEvents, EngineAwaited, EngineReadables, EngineRanges DEF TimerInv
<1>3. CASE UNCHANGED vars
  BY <1>3 DEF vars, engineVars, history, TimerInv, EventTypes, Awaited, Awaits,
              Readables, Ranges
<1> QED BY <1>1, <1>2, <1>3, Steps

LEMMA TimerInvariant == Spec => []TimerInv
BY TimerInvInit, TimerInvNext, Invariant, PTL DEF Spec

(* A timer's callback is called when its time has come; or, if adding the  *)
(* delay to the clock needed a carry, at most a second early               *)
(* (select.c:185, 241-249): for any number of threads and timers, and      *)
(* whatever wakes the engine in between.                                   *)
THEOREM TimersAreKept == Spec => []EarlyForWantOfCarry
<1>1. TimerInv => EarlyForWantOfCarry
  BY DEF TimerInv, Awaited, Awaits, Kept, EarlyForWantOfCarry
<1> QED BY <1>1, TimerInvariant, PTL

(* The types: nothing is read that is not there, no event is called that   *)
(* was not scheduled, the pipe does not exceed its size, and the queue     *)
(* holds what was scheduled until a push finds it full (select.c:93, 196). *)
(* The program is undefined from there, and nothing is said of it.         *)
THEOREM TypesHold == Spec => []TypeOK
<1>1. IInv /\ TimerInv => TypeOK
  <2> SUFFICES ASSUME IInv, TimerInv PROVE TypeOK
    OBVIOUS
  <2>1. Timed \subseteq Events
    BY DEF Timed
  <2>2. event_queue \in Seq(Events)
    BY <2>1 DEF TimerInv, EventTypes
  <2> QED BY <2>1, <2>2 DEF IInv, ProtocolTypes, TimerInv, EventTypes, Readables,
                           Ranges, TypeOK
<1> QED BY <1>1, Invariant, TimerInvariant, PTL

-----------------------------------------------------------------------------
(* The event that is removed.  The engine waits for the first of the queue,*)
(* calls it, and removes what is the first then.                           *)
WaitsForFirst ==
  \/ at = "selecting" /\ timeout # None
  \/ at = "woken" /\ read_fds = {}
  \/ at \in {"timer", "called"}

FirstInv == WaitsForFirst => event_queue # <<>> /\ event = event_queue[1]

(* What the engine leaves to its users: between its look at the queue and  *)
(* the removal (select.c:200-263) nobody pushes an event that is due       *)
(* earlier than the one it looked at.                                      *)
KeepsFirst ==
  \A t \in Threads :
    PushEvent(t) /\ WaitsForFirst => elem_compare_cb(event, arg[t])

LEMMA TimesOrder == HeapFacts!Orders(Timed)
<1>1. \A e \in Timed : e.time.sec \in Nat /\ e.time.usec \in Nat
  BY DEF Timed, Events, Time
<1>2. ASSUME NEW e \in Timed, NEW f \in Timed
      PROVE  elem_compare_cb(e, f) \/ elem_compare_cb(f, e)
  BY <1>1 DEF elem_compare_cb
<1>3. ASSUME NEW e \in Timed, NEW f \in Timed, NEW g \in Timed,
             elem_compare_cb(e, f), elem_compare_cb(f, g)
      PROVE  elem_compare_cb(e, g)
  BY <1>1, <1>3 DEF elem_compare_cb
<1> QED BY <1>2, <1>3, Zenon DEF HeapFacts!Orders

LEMMA HeapRootStays ==
  ASSUME NEW h \in Seq(Timed), NEW data \in Timed, h # <<>>,
         elem_compare_cb(h[1], data)
  PROVE  Queue!__heap_push(h, data)[1] = h[1]
<1>1. Queue!__heap_push(h, data) = HeapFacts!__heap_push(h, data)
  BY DEF Queue!__heap_push, HeapFacts!__heap_push, Queue!__heap_sort,
         HeapFacts!__heap_sort, Queue!Max, HeapFacts!Max, Queue!Ancestors,
         HeapFacts!Ancestors, Queue!Halved, HeapFacts!Halved, Queue!Settles,
         HeapFacts!Settles
<1>2. HeapFacts!Orders(Timed)
  BY TimesOrder
<1> QED BY <1>1, <1>2, HeapFacts!RootStays

LEMMA FirstInit == Init => FirstInv
BY DEF Init, FirstInv, WaitsForFirst

(* A push behind the first leaves it the first, whatever state the rest of *)
(* the heap is in.                                                         *)
LEMMA FirstOthers ==
  ASSUME IInv, TimerInv, FirstInv, KeepsFirst, OthersStep
  PROVE  FirstInv'
<1> USE ThreadNames
<1>1. UNCHANGED <<event, timeout, at, read_fds>> /\ (WaitsForFirst' <=> WaitsForFirst)
  BY OthersEvents, OthersReadables DEF WaitsForFirst
<1>2. ASSUME NEW t \in Threads, PushEvent(t), WaitsForFirst
      PROVE  event_queue' # <<>> /\ event_queue'[1] = event
  <2>1. /\ event_queue # <<>> /\ event = event_queue[1]
        /\ event_queue \in Seq(Timed) /\ arg[t] \in Timed
    BY <1>2 DEF FirstInv, PushEvent, PushStored, PushFull, Go, TimerInv, EventTypes
  <2>2. event_queue' = event_queue \/ event_queue' = Queue!__heap_push(event_queue, arg[t])
    BY <1>2 DEF PushEvent, PushStored, PushFull
  <2>3. elem_compare_cb(event_queue[1], arg[t])
    BY <1>2, <2>1 DEF KeepsFirst
  <2>4. Queue!__heap_push(event_queue, arg[t])[1] = event_queue[1]
    BY <2>1, <2>3, HeapRootStays
  <2>5. Queue!__heap_push(event_queue, arg[t]) # <<>>
    <3>1. Len(Queue!__heap_push(event_queue, arg[t])) = Len(event_queue) + 1
      <4>1. event_queue \in Seq(Timed) /\ arg[t] \in Timed
        BY <2>1
      <4> QED BY ONLY <4>1, HeapPush, SMTT(30)
    <3>2. Len(event_queue) + 1 # 0
      BY <2>1, LenProperties
    <3> QED BY <3>1, <3>2
  <2> QED BY <2>1, <2>2, <2>4, <2>5
<1>3. CASE \E t \in Threads : PushEvent(t)
  BY <1>1, <1>2, <1>3 DEF FirstInv
<1>4. CASE ~ \E t \in Threads : PushEvent(t)
  <2>1. UNCHANGED event_queue
    BY <1>4 DEF OthersStep, FdAdd, FdDel, FdLinked, select_engine_schedule_add, ReadClock,
                Reload, TryLock, Unlock, Tell, select_engine_stop,
                select_engine_destroy, Tick, Arrive, engineVars, history
  <2> QED BY <1>1, <2>1 DEF FirstInv
<1> QED BY <1>3, <1>4

LEMMA FirstEngine ==
  ASSUME FirstInv, EngineStep
  PROVE  FirstInv'
<1>1. CASE PopEvent
  BY <1>1 DEF PopEvent, At, FirstInv, WaitsForFirst
<1>2. CASE PeekEvent
  <2>1. /\ at' = "selecting" /\ UNCHANGED event_queue
        /\ timeout' # None => event_queue # <<>> /\ event' = event_queue[1]
    BY <1>2 DEF PeekEvent, At, Queue!__heap_peek
  <2> QED BY <2>1 DEF FirstInv, WaitsForFirst
<1>3. CASE ~ PopEvent /\ ~ PeekEvent
  <2>1. /\ UNCHANGED <<event_queue, event>>
        /\ WaitsForFirst' => WaitsForFirst
    BY <1>3 DEF EngineStep, Lock, Leave, FillFds, SelectReadable, SelectTimeout,
                SelectInterrupted, EngineUnlock, FireEvent, ServeManage,
                FindReadable, ServeFd, EndRound, At, WaitsForFirst
  <2> QED BY <2>1 DEF FirstInv
<1> QED BY <1>1, <1>2, <1>3

LEMMA FirstNext ==
  IInv /\ TimerInv /\ FirstInv /\ [Next]_vars /\ [KeepsFirst]_vars => FirstInv'
<1> SUFFICES ASSUME IInv, TimerInv, FirstInv, [Next]_vars, [KeepsFirst]_vars
             PROVE  FirstInv'
  OBVIOUS
<1>1. CASE UNCHANGED vars
  BY <1>1 DEF vars, engineVars, FirstInv, WaitsForFirst
<1> QED BY <1>1, FirstOthers, FirstEngine, Steps

LEMMA FirstInvariant == Spec /\ [][KeepsFirst]_vars => []FirstInv
BY FirstInit, FirstNext, Invariant, TimerInvariant, PTL DEF Spec

LEMMA FirstIsPopped == FirstInv => [PopEvent => event' = event]_vars
<1>1. FirstInv => (PopEvent => event' = event)
  BY DEF FirstInv, WaitsForFirst, PopEvent, At, Queue!__heap_peek
<1> QED BY <1>1

(* The event that is removed is the one whose callback was called          *)
(* (select.c:261-263), whatever else is scheduled while the engine waits   *)
(* or while the callback runs, and however disordered the heap is: unless  *)
(* an event is pushed in between that is due before the one it waits for.  *)
THEOREM FiredIsPoppedUnlessEarlier == Spec /\ [][KeepsFirst]_vars => FiredIsPopped
BY FirstIsPopped, FirstInvariant, PTL DEF FiredIsPopped

-----------------------------------------------------------------------------
(* The ids.  An event is made by one ReadClock, is with the thread that    *)
(* made it until that pushes it, and in the queue until it is removed; it  *)
(* is in one of those places at most, and not called before it is the      *)
(* first.                                                                  *)
Live == HeapFacts!Elems(event_queue)
Calling(e) == at = "called" /\ e = event

IdsApart == \A e, f \in Live : e.id = f.id => e = f

LiveOnes ==
  \A e \in Live : e.id <= scheduled /\ (fired[e.id] = 0 \/ Calling(e))

MadeOnes ==
  \A t \in Threads : pc[t] = "timed" =>
    /\ arg[t].id <= scheduled /\ fired[arg[t].id] = 0
    /\ \A e \in Live : e.id # arg[t].id
    /\ \A u \in Threads : pc[u] = "timed" /\ arg[u].id = arg[t].id => u = t

Counts ==
  \A i \in 1..MaxEvents : fired[i] <= 1 /\ (i > scheduled => fired[i] = 0)

OnceInv == HeapFacts!Distinct(event_queue) /\ IdsApart /\ LiveOnes /\ MadeOnes /\ Counts

LEMMA OnceInit == Init => OnceInv
<1> SUFFICES ASSUME Init PROVE OnceInv
  OBVIOUS
<1>1. Live = {} /\ HeapFacts!Distinct(event_queue)
  BY DEF Init, Live, HeapFacts!Elems, HeapFacts!Distinct
<1> QED BY <1>1 DEF Init, OnceInv, IdsApart, LiveOnes, MadeOnes, Counts

LEMMA LiveTyped == ASSUME EventTypes PROVE Live \subseteq Timed
BY LenProperties DEF EventTypes, Live, HeapFacts!Elems

(* A step that moves no event. *)
LEMMA OnceKept ==
  ASSUME OnceInv, UNCHANGED <<event_queue, fired, scheduled>>,
         \A e \in Live : Calling(e) => Calling(e)',
         \A t \in Threads : pc'[t] = "timed" => pc[t] = "timed" /\ arg'[t] = arg[t]
  PROVE  OnceInv'
<1>1. Live' = Live
  BY DEF Live, HeapFacts!Elems
<1>2. HeapFacts!Distinct(event_queue)'
  BY DEF OnceInv, HeapFacts!Distinct
<1>3. IdsApart'
  BY <1>1 DEF OnceInv, IdsApart
<1>4. LiveOnes'
  BY <1>1 DEF OnceInv, LiveOnes
<1>5. MadeOnes'
  BY <1>1 DEF OnceInv, MadeOnes
<1>6. Counts'
  BY DEF OnceInv, Counts
<1> QED BY <1>2, <1>3, <1>4, <1>5, <1>6 DEF OnceInv

(* The making of an event: its id is new. *)
LEMMA OnceMade ==
  ASSUME IInv, TimerInv, OnceInv, NEW t \in Threads, NEW delay \in Delays,
         ReadClock(t, delay)
  PROVE  OnceInv'
<1> DEFINE e == [id |-> scheduled + 1, time |-> TimeAfter(now, delay)]
<1>1. /\ UNCHANGED <<event_queue, fired, at, event>>
      /\ arg' = [arg EXCEPT ![t] = e] /\ pc' = [pc EXCEPT ![t] = "timed"]
      /\ scheduled' = scheduled + 1 /\ scheduled + 1 \in 1..MaxEvents
      /\ e.id = scheduled + 1
  BY SelectEngineAssumption DEF ReadClock, Go, engineVars, TimerInv, EventTypes
<1> HIDE DEF e
<1>2. /\ pc \in [Threads -> ThreadPc] /\ scheduled \in Nat
      /\ arg = [u \in Threads |-> arg[u]]
      /\ \A f \in Live : f.id \in Nat
      /\ \A u \in Threads : pc[u] = "timed" => arg[u].id \in Nat
  <2>1. \A f \in Timed : f.id \in Nat
    BY SelectEngineAssumption DEF Timed, Events
  <2> QED BY <2>1, LiveTyped, SelectEngineAssumption
          DEF IInv, ProtocolTypes, TimerInv, EventTypes
<1>3. Live' = Live /\ \A f \in Live : Calling(f)' = Calling(f)
  BY <1>1 DEF Live, HeapFacts!Elems, Calling
<1>4. HeapFacts!Distinct(event_queue)' /\ IdsApart'
  BY <1>1, <1>3 DEF OnceInv, HeapFacts!Distinct, IdsApart
<1>5. LiveOnes'
  BY <1>1, <1>2, <1>3 DEF OnceInv, LiveOnes
<1>6. MadeOnes'
  <2>1. ASSUME NEW u \in Threads, pc'[u] = "timed"
        PROVE  /\ u = t => arg'[u].id = scheduled + 1
               /\ u # t => pc[u] = "timed" /\ arg'[u] = arg[u]
    BY <1>1, <1>2, <2>1
  <2>2. ASSUME NEW u \in Threads, pc'[u] = "timed"
        PROVE  /\ arg'[u].id <= scheduled' /\ fired'[arg'[u].id] = 0
               /\ \A f \in Live' : f.id # arg'[u].id
    <3>1. CASE u = t
      <4>1. arg'[u].id = scheduled + 1 /\ fired[scheduled + 1] = 0
        BY <1>1, <1>2, <2>1, <2>2, <3>1 DEF OnceInv, Counts
      <4> QED BY <1>1, <1>2, <1>3, <4>1 DEF OnceInv, LiveOnes
    <3>2. CASE u # t
      BY <1>1, <1>2, <1>3, <2>1, <2>2, <3>2 DEF OnceInv, MadeOnes
    <3> QED BY <3>1, <3>2
  <2>3. ASSUME NEW u \in Threads, NEW v \in Threads,
               pc'[u] = "timed", pc'[v] = "timed", arg'[u].id = arg'[v].id
        PROVE  u = v
    <3>1. CASE u = t /\ v # t
      BY <1>2, <2>1, <2>3, <3>1 DEF OnceInv, MadeOnes
    <3>2. CASE u # t /\ v = t
      BY <1>2, <2>1, <2>3, <3>2 DEF OnceInv, MadeOnes
    <3>3. CASE u # t /\ v # t
      BY <2>1, <2>3, <3>3 DEF OnceInv, MadeOnes
    <3> QED BY <3>1, <3>2, <3>3
  <2> QED BY <2>2, <2>3 DEF MadeOnes
<1>7. Counts'
  BY <1>1, <1>2 DEF OnceInv, Counts
<1> QED BY <1>4, <1>5, <1>6, <1>7 DEF OnceInv

(* The push: the event goes from the thread to the queue, or no further.   *)
LEMMA OncePushed ==
  ASSUME IInv, TimerInv, OnceInv, NEW t \in Threads, PushEvent(t)
  PROVE  OnceInv'
<1> DEFINE e == arg[t]
<1>1. /\ UNCHANGED <<fired, scheduled, at, event>> /\ pc[t] = "timed"
      /\ e \in Timed /\ event_queue \in Seq(Timed)
      /\ pc \in [Threads -> ThreadPc] /\ arg = [u \in Threads |-> arg[u]]
      /\ \A u \in Threads : pc'[u] = "timed" =>
            pc[u] = "timed" /\ arg'[u] = arg[u] /\ u # t
  BY DEF PushEvent, PushStored, PushFull, Go, engineVars, history, TimerInv,
         EventTypes, IInv, ProtocolTypes
<1>2. /\ e.id <= scheduled /\ fired[e.id] = 0 /\ \A f \in Live : f.id # e.id
      /\ \A u \in Threads : pc[u] = "timed" /\ arg[u].id = e.id => u = t
  BY <1>1 DEF OnceInv, MadeOnes
<1>3. CASE event_queue' = event_queue
  <2>1. \A f \in Live : Calling(f) => Calling(f)'
    BY <1>1 DEF Calling
  <2> QED BY <1>1, <1>3, <2>1, OnceKept
<1>4. CASE event_queue' = Queue!__heap_push(event_queue, e)
  <2>1. e \notin Live /\ HeapFacts!Distinct(event_queue)
    BY <1>2 DEF OnceInv
  <2>2. /\ HeapFacts!Distinct(event_queue')
        /\ \A x : x \in HeapFacts!Elems(event_queue') <=> x \in Live \/ x = e
    <3> HIDE DEF e
    <3>1. HeapFacts!Distinct(Queue!__heap_push(event_queue, e))
      BY <1>1, <2>1, HeapPush DEF Live
    <3>2. \A x : x \in HeapFacts!Elems(Queue!__heap_push(event_queue, e))
                 <=> x \in HeapFacts!Elems(event_queue) \/ x = e
      BY <1>1, <2>1, HeapPush DEF Live
    <3> QED BY <1>4, <3>1, <3>2 DEF Live
  <2>3. /\ HeapFacts!Distinct(event_queue)'
        /\ \A x : x \in Live' <=> x \in Live \/ x = e
    BY <2>2 DEF Live, HeapFacts!Elems, HeapFacts!Distinct
  <2> HIDE DEF e
  <2>4. \A f \in Live : Calling(f)' = Calling(f)
    BY <1>1 DEF Calling
  <2>5. IdsApart'
    BY <1>2, <2>3 DEF OnceInv, IdsApart
  <2>6. LiveOnes'
    BY <1>1, <1>2, <2>3, <2>4 DEF OnceInv, LiveOnes
  <2>7. MadeOnes'
    BY <1>1, <1>2, <2>3 DEF OnceInv, MadeOnes
  <2>8. Counts'
    BY <1>1 DEF OnceInv, Counts
  <2> QED BY <2>3, <2>5, <2>6, <2>7, <2>8 DEF OnceInv
<1> QED BY <1>3, <1>4 DEF PushEvent, PushStored, PushFull

LEMMA OnceOthers ==
  ASSUME IInv, TimerInv, OnceInv, OthersStep
  PROVE  OnceInv'
<1> USE ThreadNames
<1>0. /\ pc \in [Threads -> ThreadPc] /\ arg = [t \in Threads |-> arg[t]]
  BY DEF IInv, ProtocolTypes
<1>1. CASE \E t \in Threads : select_engine_schedule_add(t)
  BY <1>1, OnceMade, OncePushed DEF select_engine_schedule_add
<1>2. CASE ~ \E t \in Threads : select_engine_schedule_add(t)
  <2>1. UNCHANGED <<event_queue, fired, scheduled, at, event>>
    BY <1>2 DEF OthersStep, FdAdd, FdDel, FdLinked, Reload, TryLock, Unlock, Tell,
                select_engine_stop, select_engine_destroy, Tick, Arrive,
                engineVars, history
  <2>2. \A e \in Live : Calling(e) => Calling(e)'
    BY <2>1 DEF Calling
  <2>3. \A t \in Threads : pc'[t] = "timed" => pc[t] = "timed" /\ arg'[t] = arg[t]
    <3>1. CASE \E f \in Fds : FdAdd(f, "forever") \/ FdAdd(f, "once") \/ FdDel(f)
      BY <1>0, <3>1 DEF FdAdd, FdDel, Go
    <3>2. CASE FdLinked
      BY <1>0, <3>2 DEF FdLinked, Go
    <3>3. CASE \E t \in Threads : Reload(t)
      BY <1>0, <3>3 DEF Reload, TryLock, Unlock, Tell, Go
    <3>4. CASE \/ select_engine_stop \/ select_engine_destroy \/ Tick
              \/ \E f \in Fds : Arrive(f)
      BY <3>4 DEF select_engine_stop, select_engine_destroy, Tick, Arrive
    <3> QED BY <1>2, <3>1, <3>2, <3>3, <3>4 DEF OthersStep
  <2> QED BY <2>1, <2>2, <2>3, OnceKept
<1> QED BY <1>1, <1>2

(* The call: of the first of the queue, which was not called before.       *)
LEMMA OnceFired ==
  ASSUME TimerInv, FirstInv, OnceInv, FireEvent
  PROVE  OnceInv'
<1>1. /\ at = "timer" /\ at' = "called"
      /\ fired' = [fired EXCEPT ![event.id] = @ + 1]
      /\ UNCHANGED <<event_queue, event, pc, arg, scheduled>>
  BY DEF FireEvent, At
<1>2. /\ event \in Live /\ \A e \in Live : ~ Calling(e)
      /\ fired \in [1..MaxEvents -> Nat]
  <2>1. event_queue # <<>> /\ event = event_queue[1] /\ event_queue \in Seq(Timed)
    BY <1>1 DEF FirstInv, WaitsForFirst, TimerInv, EventTypes
  <2>2. 1 \in 1..Len(event_queue)
    BY <2>1
  <2> QED BY <1>1, <2>1, <2>2
          DEF Live, HeapFacts!Elems, Calling, TimerInv, EventTypes
<1>3. \A e \in Live : e.id \in 1..MaxEvents /\ e.id <= scheduled /\ fired[e.id] = 0
  BY <1>2, LiveTyped DEF TimerInv, OnceInv, LiveOnes, Timed, Events
<1>4. /\ fired'[event.id] = 1
      /\ \A i \in 1..MaxEvents : i # event.id => fired'[i] = fired[i]
  BY <1>1, <1>2, <1>3
<1>5. Live' = Live
  BY <1>1 DEF Live, HeapFacts!Elems
<1>6. HeapFacts!Distinct(event_queue)' /\ IdsApart'
  BY <1>1, <1>5 DEF OnceInv, HeapFacts!Distinct, IdsApart
<1>7. LiveOnes'
  <2>1. ASSUME NEW e \in Live, e # event PROVE fired'[e.id] = 0
    <3>1. e.id # event.id
      BY <1>2, <2>1 DEF OnceInv, IdsApart
    <3> QED BY <1>3, <1>4, <3>1
  <2> QED BY <1>1, <1>3, <1>5, <2>1 DEF LiveOnes, Calling
<1>8. MadeOnes'
  <2>1. ASSUME NEW t \in Threads, pc[t] = "timed"
        PROVE  fired'[arg[t].id] = 0
    <3>1. arg[t].id # event.id /\ fired[arg[t].id] = 0 /\ arg[t].id \in 1..MaxEvents
      BY <1>2, <2>1 DEF OnceInv, MadeOnes, TimerInv, EventTypes, Timed, Events
    <3> QED BY <1>4, <3>1
  <2> QED BY <1>1, <1>5, <2>1 DEF OnceInv, MadeOnes
<1>9. Counts'
  <2>1. ASSUME NEW i \in 1..MaxEvents
        PROVE  fired'[i] <= 1 /\ (i > scheduled => fired'[i] = 0)
    <3>1. CASE i = event.id
      <4>1. i <= scheduled /\ i \in Nat /\ scheduled \in Nat
        BY <1>2, <1>3, <3>1, SelectEngineAssumption DEF TimerInv, EventTypes
      <4> QED BY <1>4, <3>1, <4>1
    <3>2. CASE i # event.id
      BY <1>4, <3>2 DEF OnceInv, Counts
    <3> QED BY <3>1, <3>2
  <2> QED BY <1>1, <2>1 DEF Counts
<1> QED BY <1>6, <1>7, <1>8, <1>9 DEF OnceInv

(* The removal: of the one that was called. *)
LEMMA OncePopped ==
  ASSUME TimerInv, FirstInv, OnceInv, PopEvent
  PROVE  OnceInv'
<1>1. /\ at = "called" /\ at' = "top"
      /\ event_queue' = Queue!__heap_pop(event_queue)
      /\ UNCHANGED <<fired, pc, arg, scheduled>>
  BY DEF PopEvent, At, history
<1>2. /\ event_queue # <<>> /\ event = event_queue[1]
      /\ event_queue \in Seq(Timed) /\ HeapFacts!Distinct(event_queue)
  BY <1>1 DEF FirstInv, WaitsForFirst, TimerInv, EventTypes, OnceInv
<1>3. /\ HeapFacts!Distinct(Queue!__heap_pop(event_queue))
      /\ HeapFacts!Elems(Queue!__heap_pop(event_queue))
           = HeapFacts!Elems(event_queue) \ {event_queue[1]}
  BY <1>2, HeapPop
<1>4. /\ HeapFacts!Distinct(event_queue')
      /\ HeapFacts!Elems(event_queue') = Live \ {event}
  BY <1>1, <1>2, <1>3 DEF Live
<1>5. HeapFacts!Distinct(event_queue)' /\ Live' = Live \ {event}
  BY <1>4 DEF Live, HeapFacts!Elems, HeapFacts!Distinct
<1>6. IdsApart'
  BY <1>5 DEF OnceInv, IdsApart
<1>7. LiveOnes'
  BY <1>1, <1>5 DEF OnceInv, LiveOnes, Calling
<1>8. MadeOnes'
  BY <1>1, <1>5 DEF OnceInv, MadeOnes
<1>9. Counts'
  BY <1>1 DEF OnceInv, Counts
<1> QED BY <1>5, <1>6, <1>7, <1>8, <1>9 DEF OnceInv

LEMMA OnceNext ==
  IInv /\ TimerInv /\ FirstInv /\ OnceInv /\ [Next]_vars => OnceInv'
<1> SUFFICES ASSUME IInv, TimerInv, FirstInv, OnceInv, [Next]_vars PROVE OnceInv'
  OBVIOUS
<1>1. CASE OthersStep
  BY <1>1, OnceOthers
<1>2. CASE EngineStep /\ ~ FireEvent /\ ~ PopEvent
  <2>1. UNCHANGED <<event_queue, fired, scheduled, pc, arg>>
    BY <1>2 DEF EngineStep, Lock, Leave, FillFds, PeekEvent, SelectReadable,
                SelectTimeout, SelectInterrupted, EngineUnlock, ServeManage,
                FindReadable, ServeFd, EndRound, history
  <2>2. at # "called"
    BY <1>2 DEF EngineStep, Lock, Leave, FillFds, PeekEvent, SelectReadable,
                SelectTimeout, SelectInterrupted, EngineUnlock, ServeManage,
                FindReadable, ServeFd, EndRound, At
  <2>3. \A e \in Live : Calling(e) => Calling(e)'
    BY <2>2 DEF Calling
  <2> QED BY <2>1, <2>3, OnceKept
<1>3. CASE UNCHANGED vars
  <2>1. UNCHANGED <<event_queue, fired, scheduled, pc, arg, at, event>>
    BY <1>3 DEF vars, engineVars, history
  <2>2. \A e \in Live : Calling(e) => Calling(e)'
    BY <2>1 DEF Calling
  <2> QED BY <2>1, <2>2, OnceKept
<1> QED BY <1>1, <1>2, <1>3, OnceFired, OncePopped, Steps

LEMMA OnceInvariant == Spec /\ [][KeepsFirst]_vars => []OnceInv
BY OnceInit, OnceNext, FirstInvariant, Invariant, TimerInvariant, PTL DEF Spec

LEMMA OnceIsOnce == OnceInv => FiredOnce
BY DEF OnceInv, Counts, FiredOnce

(* No callback is called twice for one event (select.c:261-263): it is     *)
(* called for the first of the queue, which is removed when it returns,    *)
(* unless an event is pushed in between that is due earlier.               *)
THEOREM FiredOnceUnlessEarlier == Spec /\ [][KeepsFirst]_vars => []FiredOnce
BY OnceIsOnce, OnceInvariant, PTL

-----------------------------------------------------------------------------
(* When that never happens: when all timers have the same delay and no     *)
(* time passes between the reading of the clock and the push, no event     *)
(* that is pushed goes before one that is there.                           *)
SameDelay == ClockWaits /\ \A c, d \in Delays : c = d

NotLater(a, b) ==
  \/ a.sec < b.sec
  \/ a.sec = b.sec /\ a.usec <= b.usec

(* The events that are no later than one scheduled now. *)
Earlier == {e \in Timed : \A d \in Delays : NotLater(e.time, TimeAfter(now, d))}

LEMMA ClockAdvances ==
  ASSUME NEW t \in Nat
  PROVE  NotLater(Clock(t), Clock(t + 1))
<1> DEFINE U == UsecPerSec
           q == Clock(t).sec
           r == Clock(t).usec
           v == Clock(t + 1).sec
           w == Clock(t + 1).usec
<1>1. /\ U \in Nat /\ U > 0 /\ q \in Nat /\ r \in 0..(U - 1) /\ t = q * U + r
      /\ v \in Nat /\ w \in 0..(U - 1) /\ t + 1 = v * U + w
  BY ClockParts, SelectEngineAssumption
<1> HIDE DEF U, q, r, v, w
<1>2. q <= v
  <2>1. SUFFICES ASSUME v + 1 <= q PROVE FALSE
    BY <1>1
  <2>2. (v + 1) * U <= q * U /\ (v + 1) * U = v * U + U
    BY <1>1, <2>1, Product
  <2>3. v * U \in Nat /\ q * U \in Nat
    BY <1>1
  <2> QED BY <1>1, <2>2, <2>3
<1>3. q = v => r <= w
  BY <1>1
<1>4. q < v \/ (q = v /\ r <= w)
  BY <1>1, <1>2, <1>3
<1> QED BY <1>4 DEF NotLater, q, r, v, w

LEMMA TimesAdvance ==
  ASSUME NEW t \in Nat, NEW d \in Nat, NEW a \in Time, NotLater(a, TimeAfter(t, d))
  PROVE  NotLater(a, TimeAfter(t + 1, d))
<1> DEFINE b == TimeAfter(t, d)
           c == TimeAfter(t + 1, d)
<1>1. /\ b.sec = Clock(t).sec + Clock(d).sec /\ b.usec = Clock(t).usec + Clock(d).usec
      /\ c.sec = Clock(t + 1).sec + Clock(d).sec
      /\ c.usec = Clock(t + 1).usec + Clock(d).usec
  BY DEF TimeAfter
<1>2. /\ Clock(t).sec \in Nat /\ Clock(t).usec \in Nat
      /\ Clock(t + 1).sec \in Nat /\ Clock(t + 1).usec \in Nat
      /\ Clock(d).sec \in Nat /\ Clock(d).usec \in Nat
      /\ a.sec \in Nat /\ a.usec \in Nat
  BY ClockParts, SelectEngineAssumption DEF Time
<1>3. NotLater(Clock(t), Clock(t + 1))
  BY ClockAdvances
<1> HIDE DEF b, c
<1>4. NotLater(a, b)
  BY DEF b
<1>5. NotLater(a, c)
  BY <1>1, <1>2, <1>3, <1>4 DEF NotLater
<1> QED BY <1>5 DEF c

OrderInv ==
  /\ event_queue \in Seq(Earlier)
  /\ \A t \in Threads :
       pc[t] = "timed" => \E d \in Delays : arg[t].time = TimeAfter(now, d)

LEMMA OrderInit == Init => OrderInv
BY DEF Init, OrderInv

(* What is pushed is no earlier than what is there. *)
LEMMA PushedLater ==
  ASSUME SameDelay, TimerInv, OrderInv, NEW t \in Threads, PushEvent(t)
  PROVE  /\ arg[t] \in Earlier
         /\ \A e \in Earlier : elem_compare_cb(e, arg[t])
<1>1. pc[t] = "timed" /\ arg[t] \in Timed
  BY DEF PushEvent, PushStored, PushFull, Go, TimerInv, EventTypes
<1>2. PICK d \in Delays : arg[t].time = TimeAfter(now, d)
  BY <1>1 DEF OrderInv
<1>3. \A c \in Delays : c = d
  BY DEF SameDelay
<1>4. arg[t] \in Earlier
  <2>1. arg[t].time.sec \in Nat /\ arg[t].time.usec \in Nat
    BY <1>1 DEF Timed, Events, Time
  <2>2. NotLater(arg[t].time, arg[t].time)
    BY <2>1 DEF NotLater
  <2>3. \A c \in Delays : NotLater(arg[t].time, TimeAfter(now, c))
    BY <1>2, <1>3, <2>2
  <2> QED BY <1>1, <2>3 DEF Earlier
<1>5. ASSUME NEW e \in Earlier PROVE elem_compare_cb(e, arg[t])
  <2>1. NotLater(e.time, arg[t].time)
    BY <1>2 DEF Earlier
  <2> QED BY <2>1 DEF NotLater, elem_compare_cb
<1> QED BY <1>4, <1>5

LEMMA OrderKeepsFirst ==
  SameDelay /\ TimerInv /\ OrderInv /\ FirstInv => KeepsFirst
<1> SUFFICES ASSUME SameDelay, TimerInv, OrderInv, FirstInv,
                    NEW t \in Threads, PushEvent(t), WaitsForFirst
             PROVE  elem_compare_cb(event, arg[t])
  BY DEF KeepsFirst
<1>1. event_queue # <<>> /\ event = event_queue[1] /\ event_queue \in Seq(Earlier)
  BY DEF FirstInv, OrderInv
<1>2. event \in Earlier
  <2>1. 1 \in 1..Len(event_queue)
    BY <1>1
  <2> QED BY <1>1, <2>1
<1> QED BY <1>2, PushedLater

(* The threads and the world. *)
LEMMA OrderOthers ==
  ASSUME SameDelay, IInv, TimerInv, OrderInv, OthersStep
  PROVE  OrderInv'
<1> USE ThreadNames
<1>0. /\ pc \in [Threads -> ThreadPc] /\ now \in Nat /\ Delays \subseteq Nat
      /\ arg = [t \in Threads |-> arg[t]]
  BY SelectEngineAssumption DEF IInv, ProtocolTypes, TimerInv, EventTypes
<1>2. ASSUME UNCHANGED <<event_queue, now>>,
             \A t \in Threads : pc'[t] = "timed" =>
               \E d \in Delays : arg'[t].time = TimeAfter(now, d)
      PROVE  OrderInv'
  <2>1. Earlier' = Earlier
    BY <1>2 DEF Earlier
  <2> QED BY <1>2, <2>1 DEF OrderInv
<1>3. CASE \E f \in Fds : FdAdd(f, "forever") \/ FdAdd(f, "once") \/ FdDel(f)
  <2>1. UNCHANGED <<event_queue, now>>
        /\ \A t \in Threads : pc'[t] = "timed" => pc[t] = "timed" /\ arg'[t] = arg[t]
    BY <1>0, <1>3 DEF FdAdd, FdDel, Go
  <2> QED BY <1>2, <2>1 DEF OrderInv
<1>4. CASE FdLinked
  <2>1. UNCHANGED <<event_queue, now>>
        /\ \A t \in Threads : pc'[t] = "timed" => pc[t] = "timed" /\ arg'[t] = arg[t]
    BY <1>0, <1>4 DEF FdLinked, Go
  <2> QED BY <1>2, <2>1 DEF OrderInv
<1>5. ASSUME NEW t \in Threads, NEW delay \in Delays, ReadClock(t, delay)
      PROVE  OrderInv'
  <2> DEFINE e == [id |-> scheduled + 1, time |-> TimeAfter(now, delay)]
  <2>1. UNCHANGED <<event_queue, now>> /\ arg' = [arg EXCEPT ![t] = e]
        /\ pc' = [pc EXCEPT ![t] = "timed"] /\ e.time = TimeAfter(now, delay)
    BY <1>5 DEF ReadClock, Go
  <2> HIDE DEF e
  <2>2. ASSUME NEW u \in Threads, pc'[u] = "timed"
        PROVE  \E d \in Delays : arg'[u].time = TimeAfter(now, d)
    <3>1. CASE u = t
      BY <1>0, <2>1, <3>1
    <3>2. CASE u # t
      BY <1>0, <2>1, <2>2, <3>2 DEF OrderInv
    <3> QED BY <3>1, <3>2
  <2> QED BY <1>2, <2>1, <2>2
<1>6. ASSUME NEW t \in Threads, PushEvent(t)
      PROVE  OrderInv'
  <2>1. arg[t] \in Earlier /\ event_queue \in Seq(Earlier)
    BY <1>6, PushedLater DEF OrderInv
  <2>2. event_queue' \in Seq(Earlier)
    <3>1. event_queue' = event_queue \/ event_queue' = Queue!__heap_push(event_queue, arg[t])
      BY <1>6 DEF PushEvent, PushStored, PushFull
    <3>2. Queue!__heap_push(event_queue, arg[t]) \in Seq(Earlier)
      BY <2>1, HeapPush
    <3> QED BY <2>1, <3>1, <3>2
  <2>3. UNCHANGED now
        /\ \A u \in Threads : pc'[u] = "timed" => pc[u] = "timed" /\ arg'[u] = arg[u]
    BY <1>0, <1>6 DEF PushEvent, PushStored, PushFull, Go
  <2>4. Earlier' = Earlier
    BY <2>3 DEF Earlier
  <2>5. \A u \in Threads : pc'[u] = "timed" =>
          \E d \in Delays : arg'[u].time = TimeAfter(now', d)
    BY <2>3 DEF OrderInv
  <2> QED BY <2>2, <2>4, <2>5 DEF OrderInv
<1>7. ASSUME NEW t \in Threads, Reload(t)
      PROVE  OrderInv'
  <2>1. UNCHANGED <<event_queue, now>>
        /\ \A u \in Threads : pc'[u] = "timed" => pc[u] = "timed" /\ arg'[u] = arg[u]
    BY <1>0, <1>7 DEF Reload, TryLock, Unlock, Tell, Go
  <2> QED BY <1>2, <2>1 DEF OrderInv
<1>8. CASE select_engine_stop \/ select_engine_destroy \/ \E f \in Fds : Arrive(f)
  <2>1. UNCHANGED <<event_queue, now, pc, arg>>
    BY <1>8 DEF select_engine_stop, select_engine_destroy, Arrive
  <2> QED BY <1>2, <2>1 DEF OrderInv
<1>9. CASE Tick
  <2>1. /\ UNCHANGED <<event_queue, pc, arg>> /\ now' = now + 1
        /\ \A t \in Threads : pc[t] # "timed"
    BY <1>9 DEF Tick, SameDelay
  <2>2. Earlier \subseteq Earlier'
    <3>1. ASSUME NEW e \in Earlier, NEW d \in Delays
          PROVE  NotLater(e.time, TimeAfter(now + 1, d))
      <4>1. NotLater(e.time, TimeAfter(now, d)) /\ e.time \in Time /\ d \in Nat
        BY <1>0 DEF Earlier, Timed, Events
      <4> QED BY <1>0, <4>1, TimesAdvance
    <3>2. \A e \in Earlier : e \in Timed
      BY DEF Earlier
    <3> QED BY <2>1, <3>1, <3>2 DEF Earlier
  <2>3. event_queue' \in Seq(Earlier')
    BY <2>1, <2>2 DEF OrderInv
  <2> QED BY <2>1, <2>3 DEF OrderInv
<1> QED BY <1>3, <1>4, <1>5, <1>6, <1>7, <1>8, <1>9
        DEF OthersStep, select_engine_schedule_add

(* The engine only takes events away. *)
LEMMA OrderEngine ==
  ASSUME IInv, TimerInv, FirstInv, OrderInv, EngineStep
  PROVE  OrderInv'
<1>1. UNCHANGED <<now, pc, arg>>
  BY EngineAlone, EngineEvents
<1>2. Earlier' = Earlier
  BY <1>1 DEF Earlier
<1>3. \A t \in Threads :
        pc'[t] = "timed" => \E d \in Delays : arg'[t].time = TimeAfter(now', d)
  BY <1>1 DEF OrderInv
<1>4. CASE PopEvent
  <2>1. at = "called" /\ event_queue' = Queue!__heap_pop(event_queue)
    BY <1>4 DEF PopEvent, At
  <2>2. event_queue # <<>> /\ event_queue \in Seq(Earlier)
    BY <2>1 DEF OrderInv, FirstInv, WaitsForFirst
  <2>3. event_queue' \in Seq(Earlier)
    BY <2>1, <2>2, HeapPop
  <2> QED BY <1>2, <1>3, <2>3 DEF OrderInv
<1>5. CASE ~ PopEvent
  <2>1. UNCHANGED event_queue
    BY <1>5 DEF EngineStep, Lock, Leave, FillFds, PeekEvent, SelectReadable,
                SelectTimeout, SelectInterrupted, EngineUnlock, FireEvent,
                ServeManage, FindReadable, ServeFd, EndRound
  <2> QED BY <1>2, <1>3, <2>1 DEF OrderInv
<1> QED BY <1>4, <1>5

LEMMA OrderNext ==
  ASSUME SameDelay
  PROVE  IInv /\ TimerInv /\ FirstInv /\ OrderInv /\ [Next]_vars
           => OrderInv' /\ FirstInv'
<1> SUFFICES ASSUME IInv, TimerInv, FirstInv, OrderInv, [Next]_vars
             PROVE  OrderInv' /\ FirstInv'
  OBVIOUS
<1>1. FirstInv'
  BY OrderKeepsFirst, FirstNext
<1>2. CASE UNCHANGED vars
  BY <1>1, <1>2 DEF vars, engineVars, OrderInv, Earlier
<1> QED BY <1>1, <1>2, OrderOthers, OrderEngine, Steps

(* Timers of one delay never overtake each other: under these conditions   *)
(* no event is pushed that is due before the one the engine waits for      *)
(* (select.c:185-196).                                                     *)
THEOREM SameDelayKeepsFirst == ASSUME SameDelay PROVE Spec => [][KeepsFirst]_vars
<1>1. TimerInv /\ OrderInv /\ FirstInv => [KeepsFirst]_vars
  BY OrderKeepsFirst
<1>2. Spec => [](OrderInv /\ FirstInv)
  BY OrderInit, FirstInit, OrderNext, Invariant, TimerInvariant, PTL DEF Spec
<1> QED BY <1>1, <1>2, TimerInvariant, PTL

(* So then the event that is removed is the one whose callback was called  *)
(* (select.c:261-263), ...                                                 *)
THEOREM FiredEventIsPopped == ASSUME SameDelay PROVE Spec => FiredIsPopped
BY SameDelayKeepsFirst, FiredIsPoppedUnlessEarlier, PTL

(* ... and no callback is called twice for one event.                      *)
THEOREM FiredAtMostOnce == ASSUME SameDelay PROVE Spec => []FiredOnce
BY SameDelayKeepsFirst, FiredOnceUnlessEarlier, PTL
=============================================================================
