---------------------------- MODULE InputQueueProofs ----------------------------
(***************************************************************************)
(* Proofs about InputQueue, for any set of keyboards, any number of engine  *)
(* starts and any number of events.  The inductive invariant says, phase by *)
(* phase of start() and stop(), which of the queue, the mutex and the event *)
(* exist, which threads can be alive, and who owns the mutex.  On top of it *)
(* come the account of where each event is, and the proof that the threads  *)
(* together implement KeyStream.                                            *)
(***************************************************************************)
EXTENDS InputQueue, TLAPS, FiniteSetTheorems, SequenceTheorems

\* What exists in each phase of the control thread.
Objects ==
  /\ cpc \in {"stopped", "failed", "installed", "queueMade", "mutexMade", "eventMade"} => current = None
  /\ cpc = "running" => current # None
  /\ cpc \in {"stopped", "failed", "installed"} => ~allocated /\ ~mutex /\ ~hasEvent
  /\ cpc = "queueMade" => allocated /\ ~mutex /\ ~hasEvent
  /\ cpc = "mutexMade" => allocated /\ mutex /\ ~hasEvent
  /\ cpc \in {"eventMade", "running"} => allocated /\ mutex /\ hasEvent
  /\ cpc \in {"uninstall", "delete"} /\ current # None => allocated /\ mutex /\ hasEvent
  /\ cpc \in {"uninstall", "delete"} /\ current = None => ~allocated /\ ~mutex /\ ~hasEvent
  /\ cpc = "joinHandler" => ~allocated /\ (current # None => mutex /\ hasEvent)
  /\ cpc \in Destroying => current = None /\ ~allocated
  /\ cpc \in {"eventNull", "mutexDestroyed"} => ~hasEvent
  /\ ~allocated => queue = <<>>
  /\ ~mutex => owner = None

\* Readers exist from install() to uninstall(); while start() runs they have
\* nothing to push; whoever is past acquireMutex owns the mutex.
Readers ==
  \A r \in Reader :
    /\ cpc \in {"stopped", "failed", "delete", "joinHandler"} \cup Destroying => rpc[r] = "off"
    /\ cpc \in Starting => rpc[r] \in {"reading", "exited"}
    /\ cpc = "uninstall" /\ current = None => rpc[r] = "off"
    /\ rpc[r] \in {"push", "signal", "unlock"} => owner = r
    /\ joining = r => cpc = "uninstall" /\ rpc[r] # "off"

\* Only the current handler is alive, and it owns the mutex where it looks at
\* the queue.
Handlers ==
  /\ \A h \in Handler :
       /\ hpc[h] \in {"lock", "check", "wait", "process", "stuck"} => h = current
       /\ hpc[h] # "stuck"
       /\ hpc[h] = "check" => owner = h
  /\ cpc = "delete" /\ current # None => owner = Control

\* Whoever owns the mutex is between its acquireMutex and its releaseMutex.
Owned ==
  /\ owner \in Reader => rpc[owner] \in {"push", "signal", "unlock"}
  /\ owner \in Handler => hpc[owner] = "check"
  /\ owner = Control => cpc = "delete"

\* Inductive, given TypeOK, when no key is hit during start() and no event takes
\* the handler longer than stop() waits for it.
Inner == Objects /\ Readers /\ Handlers /\ Owned /\ NoLostWakeup
-----------------------------------------------------------------------------

\* A reader that is about to push has taken an event from its device, and a
\* handler that is at work has one from the queue.
HasRead ==
  /\ \A r \in Reader : rpc[r] \in {"lock", "push"} => rev[r] # 0
  /\ \A h \in Handler : hpc[h] = "process" => hev[h] \in Event

\* The engine's bookkeeping keeps its types: whatever the threads do, the queue
\* holds events of its keyboards and each program counter is a known one.
THEOREM TypeCorrect == Spec => []TypeOK
<1>1. Init => TypeOK /\ HasRead
  <2> SUFFICES ASSUME Init PROVE TypeOK /\ HasRead
    OBVIOUS
  <2>1. queue \in Seq(Event) /\ handled \in Seq(Event)
    BY DEF Init
  <2>2. rev \in [Reader -> 0 .. MaxEvents] /\ HasRead
    BY BoundsAssumption DEF Init, HasRead
  <2>3. hev \in [Handler -> Event \cup {None}] /\ discarded \subseteq Event /\ refused \subseteq Event
    BY DEF Init
  <2>. QED
    BY <2>1, <2>2, <2>3 DEF Init, TypeOK, ControlPc, Starting, Destroying
<1>2. TypeOK /\ HasRead /\ [Next]_vars => TypeOK' /\ HasRead'
  <2> SUFFICES ASSUME TypeOK, HasRead, [Next]_vars PROVE TypeOK' /\ HasRead'
    OBVIOUS
  <2>1. ASSUME NEW r \in Reader, ReadEvent(r) PROVE TypeOK' /\ HasRead'
    BY <2>1, BoundsAssumption DEF ReadEvent, TypeOK, HasRead, ControlPc, Starting, Destroying, controlVars, syncVars, handlerVars, history
  <2>2. ASSUME NEW r \in Reader, ReadOther(r) PROVE TypeOK' /\ HasRead'
    BY <2>2 DEF ReadOther, TypeOK, HasRead, ControlPc, Starting, Destroying, controlVars, syncVars, handlerVars, history
  <2>3. ASSUME NEW r \in Reader, Disconnect(r) PROVE TypeOK' /\ HasRead'
    BY <2>3 DEF Disconnect, TypeOK, HasRead, ControlPc, Starting, Destroying, controlVars, syncVars, handlerVars, history
  <2>4. ASSUME NEW r \in Reader, PushLock(r) PROVE TypeOK' /\ HasRead'
    BY <2>4 DEF PushLock, TypeOK, HasRead, ControlPc, Starting, Destroying, controlVars, handlerVars, history, Acquire, MutexUsable
  <2>5. ASSUME NEW r \in Reader, Push(r) PROVE TypeOK' /\ HasRead'
    <3>1. <<r, rev[r]>> \in Event
      BY <2>5, BoundsAssumption DEF Push, Event, TypeOK, HasRead
    <3>2. Append(queue, <<r, rev[r]>>) \in Seq(Event)
      BY <3>1 DEF TypeOK
    <3>3. queue' \in Seq(Event)
      BY <2>5, <3>2 DEF Push, TypeOK
    <3>4. refused' \subseteq Event
      BY <2>5, <3>1 DEF Push, TypeOK
    <3>. QED
      BY <2>5, <3>3, <3>4, ZenonT(40) DEF Push, TypeOK, HasRead, controlVars, syncVars, handlerVars
  <2>6. ASSUME NEW r \in Reader, Signal(r) PROVE TypeOK' /\ HasRead'
    BY <2>6 DEF Signal, TypeOK, HasRead, ControlPc, Starting, Destroying, controlVars, handlerVars, history
  <2>7. ASSUME NEW r \in Reader, PushUnlock(r) PROVE TypeOK' /\ HasRead'
    BY <2>7 DEF PushUnlock, TypeOK, HasRead, ControlPc, Starting, Destroying, controlVars, handlerVars, history, Release
  <2>8. ASSUME NEW r \in Reader, StopReader(r) PROVE TypeOK' /\ HasRead'
    BY <2>8 DEF StopReader, TypeOK, HasRead, ControlPc, Starting, Destroying, syncVars, handlerVars, history
  <2>9. ASSUME NEW r \in Reader, JoinReader(r) PROVE TypeOK' /\ HasRead'
    BY <2>9 DEF JoinReader, TypeOK, HasRead, ControlPc, Starting, Destroying, syncVars, handlerVars, history
  <2>10. ASSUME NEW h \in Handler, HandlerLock(h) PROVE TypeOK' /\ HasRead'
    BY <2>10 DEF HandlerLock, TypeOK, HasRead, ControlPc, Starting, Destroying, controlVars, readerVars, history, Acquire, MutexUsable
  <2>11. ASSUME NEW h \in Handler, HandlerExit(h) PROVE TypeOK' /\ HasRead'
    BY <2>11 DEF HandlerExit, TypeOK, HasRead, ControlPc, Starting, Destroying, controlVars, readerVars, history, Release
  <2>12. ASSUME NEW h \in Handler, HandlerSleep(h) PROVE TypeOK' /\ HasRead'
    BY <2>12 DEF HandlerSleep, TypeOK, HasRead, ControlPc, Starting, Destroying, controlVars, readerVars, history, Release
  <2>13. ASSUME NEW h \in Handler, HandlerWake(h) PROVE TypeOK' /\ HasRead'
    BY <2>13 DEF HandlerWake, TypeOK, HasRead, ControlPc, Starting, Destroying, controlVars, syncVars, readerVars, history
  <2>14. ASSUME NEW h \in Handler, HandlerPop(h) PROVE TypeOK' /\ HasRead'
    <3>1. Head(queue) \in Event /\ Tail(queue) \in Seq(Event)
      BY <2>14 DEF HandlerPop, TypeOK
    <3>2. hev' \in [Handler -> Event \cup {None}] /\ queue' \in Seq(Event) /\ signaled' \in BOOLEAN
      BY <2>14, <3>1 DEF HandlerPop, TypeOK
    <3>. QED
      BY <2>14, <3>2 DEF HandlerPop, Release, TypeOK, HasRead, controlVars, readerVars, history
  <2>15. ASSUME NEW h \in Handler, HandlerProcess(h) PROVE TypeOK' /\ HasRead'
    BY <2>15 DEF HandlerProcess, TypeOK, HasRead, ControlPc, Starting, Destroying, controlVars, syncVars, readerVars
  <2>16. CASE StartInstall
    BY <2>16 DEF StartInstall, TypeOK, HasRead, ControlPc, Starting, Destroying, syncVars, handlerVars, history
  <2>17. CASE StartInstallThrows
    BY <2>17 DEF StartInstallThrows, TypeOK, HasRead, ControlPc, Starting, Destroying, syncVars, readerVars, handlerVars, history
  <2>18. CASE StartQueue
    BY <2>18 DEF StartQueue, TypeOK, HasRead, ControlPc, Starting, Destroying, syncVars, readerVars, handlerVars, history
  <2>19. CASE StartMutex
    BY <2>19 DEF StartMutex, TypeOK, HasRead, ControlPc, Starting, Destroying, readerVars, handlerVars, history
  <2>20. CASE StartEvent
    BY <2>20 DEF StartEvent, TypeOK, HasRead, ControlPc, Starting, Destroying, readerVars, handlerVars, history
  <2>21. CASE StartHandler
    BY <2>21 DEF StartHandler, TypeOK, HasRead, ControlPc, Starting, Destroying, syncVars, readerVars, history
  <2>22. CASE Stop
    BY <2>22 DEF Stop, TypeOK, HasRead, ControlPc, Starting, Destroying, syncVars, readerVars, handlerVars, history
  <2>23. CASE StopLock
    BY <2>23 DEF StopLock, TypeOK, HasRead, ControlPc, Starting, Destroying, readerVars, handlerVars, history, Acquire, MutexUsable
  <2>24. CASE StopDelete
    <3>1. discarded' \subseteq Event /\ queue' \in Seq(Event)
      BY <2>24 DEF StopDelete, TypeOK
    <3>. QED
      BY <2>24, <3>1 DEF StopDelete, Release, TypeOK, HasRead, ControlPc, readerVars, handlerVars
  <2>25. CASE StopJoin \/ DestroyEvent \/ NullEvent \/ DestroyMutex \/ NullMutex
    BY <2>25 DEF StopJoin, DestroyEvent, NullEvent, DestroyMutex, NullMutex, TypeOK, HasRead, ControlPc, Starting, Destroying, syncVars, readerVars, handlerVars, history
  <2>26. ASSUME NEW h \in Handler, HandlerStuck(h) PROVE TypeOK' /\ HasRead'
    BY <2>26 DEF HandlerStuck, TypeOK, HasRead, ControlPc, Starting, Destroying, controlVars, syncVars, readerVars, history
  <2>27. CASE UNCHANGED vars
    BY <2>27 DEF TypeOK, HasRead, ControlPc, Starting, Destroying, vars, controlVars, syncVars, readerVars, handlerVars, history
  <2>. QED
    BY <2>1, <2>2, <2>3, <2>4, <2>5, <2>6, <2>7, <2>8, <2>9, <2>10, <2>11, <2>12, <2>13, <2>14, <2>15, <2>16, <2>17, <2>18, <2>19, <2>20, <2>21, <2>22, <2>23, <2>24, <2>25, <2>26, <2>27 DEF Next, ReaderNext, HandlerNext, StartNext, StopNext
<1>. QED
  BY <1>1, <1>2, PTL DEF Spec
-----------------------------------------------------------------------------

\* Objects, threads and locks are always as each phase of start() and stop() wants
\* them.
LEMMA PhasesKept ==
  ASSUME ~EarlyInput, ~SlowHandler
  PROVE  Spec => []Inner
<1>1. Init => Inner
  BY ThreadsDistinct DEF Init, Inner, Objects, Readers, Handlers, Owned, NoLostWakeup, Starting, Destroying
<1>2. TypeOK /\ Inner /\ [Next]_vars => Inner'
  <2> SUFFICES ASSUME TypeOK, Inner, [Next]_vars PROVE Inner'
    OBVIOUS
  <2>1. ASSUME NEW r \in Reader, ReadEvent(r) PROVE Inner'
    BY <2>1, ThreadsDistinct DEF ReadEvent, TypeOK, Inner, Objects, Readers, Handlers, Owned, NoLostWakeup, Starting, Destroying, controlVars, syncVars, handlerVars, history
  <2>2. ASSUME NEW r \in Reader, ReadOther(r) PROVE Inner'
    BY <2>2, ThreadsDistinct DEF ReadOther, TypeOK, Inner, Objects, Readers, Handlers, Owned, NoLostWakeup, Starting, Destroying, controlVars, syncVars, handlerVars, history
  <2>3. ASSUME NEW r \in Reader, Disconnect(r) PROVE Inner'
    BY <2>3, ThreadsDistinct DEF Disconnect, TypeOK, Inner, Objects, Readers, Handlers, Owned, NoLostWakeup, Starting, Destroying, controlVars, syncVars, handlerVars, history
  <2>4. ASSUME NEW r \in Reader, PushLock(r) PROVE Inner'
    <3>1. Objects' /\ Readers' /\ Owned'
      BY <2>4, ThreadsDistinct DEF PushLock, Acquire, MutexUsable, TypeOK, ControlPc, Inner, Objects, Readers, Handlers, Owned, Starting, Destroying, controlVars, handlerVars, history
    <3>2. Handlers'
      BY <2>4, ThreadsDistinct DEF PushLock, Acquire, MutexUsable, TypeOK, Inner, Objects, Readers, Handlers, controlVars, handlerVars, history
    <3>3. NoLostWakeup'
      BY <2>4 DEF PushLock, Acquire, MutexUsable, TypeOK, ControlPc, Inner, Objects, Readers, Owned, NoLostWakeup, Starting, Destroying, controlVars, handlerVars, history
    <3>. QED
      BY <3>1, <3>2, <3>3 DEF Inner
  <2>5. ASSUME NEW r \in Reader, Push(r) PROVE Inner'
    BY <2>5, ThreadsDistinct DEF Push, TypeOK, Inner, Objects, Readers, Handlers, Owned, NoLostWakeup, Starting, Destroying, controlVars, syncVars, handlerVars
  <2>6. ASSUME NEW r \in Reader, Signal(r) PROVE Inner'
    <3>1. Objects' /\ Readers' /\ Owned'
      BY <2>6, ThreadsDistinct DEF Signal, TypeOK, ControlPc, Inner, Objects, Readers, Handlers, Owned, Starting, Destroying, controlVars, handlerVars, history
    <3>2. Handlers'
      BY <2>6, ThreadsDistinct DEF Signal, TypeOK, Inner, Objects, Readers, Handlers, controlVars, handlerVars, history
    <3>3. NoLostWakeup'
      BY <2>6 DEF Signal, TypeOK, ControlPc, Inner, Objects, Readers, Owned, NoLostWakeup, Starting, Destroying, controlVars, handlerVars, history
    <3>. QED
      BY <3>1, <3>2, <3>3 DEF Inner
  <2>7. ASSUME NEW r \in Reader, PushUnlock(r) PROVE Inner'
    BY <2>7, ThreadsDistinct DEF PushUnlock, Release, TypeOK, Inner, Objects, Readers, Handlers, Owned, NoLostWakeup, Starting, Destroying, controlVars, handlerVars, history
  <2>8. ASSUME NEW r \in Reader, StopReader(r) PROVE Inner'
    BY <2>8, ThreadsDistinct DEF StopReader, TypeOK, Inner, Objects, Readers, Handlers, Owned, NoLostWakeup, Starting, Destroying, syncVars, handlerVars, history
  <2>9. ASSUME NEW r \in Reader, JoinReader(r) PROVE Inner'
    BY <2>9, ThreadsDistinct DEF JoinReader, TypeOK, Inner, Objects, Readers, Handlers, Owned, NoLostWakeup, Starting, Destroying, syncVars, handlerVars, history
  <2>10. ASSUME NEW h \in Handler, HandlerLock(h) PROVE Inner'
    <3>0. h = current /\ (mutex => owner = None /\ owner' = h) /\ (~mutex => owner = None /\ owner' = None)
      BY <2>10, ThreadsDistinct DEF HandlerLock, Acquire, MutexUsable, TypeOK, Inner, Objects, Handlers, Destroying
    <3>1. Objects' /\ Readers'
      BY <2>10, ThreadsDistinct DEF HandlerLock, Acquire, MutexUsable, TypeOK, ControlPc, Inner, Objects, Readers, Handlers, Starting, Destroying, controlVars, readerVars, history
    <3>4. Owned'
      BY <2>10, <3>0, ThreadsDistinct DEF HandlerLock, TypeOK, Inner, Objects, Owned, Destroying, controlVars, readerVars, history
    <3>2. Handlers'
      BY <2>10, <3>0, ThreadsDistinct DEF HandlerLock, TypeOK, ControlPc, Starting, Destroying, Inner, Objects, Handlers, controlVars, readerVars, history
    <3>3. NoLostWakeup'
      BY <2>10 DEF HandlerLock, Acquire, MutexUsable, TypeOK, ControlPc, Inner, Objects, Readers, Owned, NoLostWakeup, Starting, Destroying, controlVars, readerVars, history
    <3>. QED
      BY <3>1, <3>2, <3>3, <3>4 DEF Inner
  <2>11. ASSUME NEW h \in Handler, HandlerExit(h) PROVE Inner'
    BY <2>11, ThreadsDistinct DEF HandlerExit, Release, TypeOK, Inner, Objects, Readers, Handlers, Owned, NoLostWakeup, Starting, Destroying, controlVars, readerVars, history
  <2>12. ASSUME NEW h \in Handler, HandlerSleep(h) PROVE Inner'
    BY <2>12, ThreadsDistinct DEF HandlerSleep, Release, TypeOK, Inner, Objects, Readers, Handlers, Owned, NoLostWakeup, Starting, Destroying, controlVars, readerVars, history
  <2>13. ASSUME NEW h \in Handler, HandlerWake(h) PROVE Inner'
    BY <2>13, ThreadsDistinct DEF HandlerWake, TypeOK, Inner, Objects, Readers, Handlers, Owned, NoLostWakeup, Starting, Destroying, controlVars, syncVars, readerVars, history
  <2>14. ASSUME NEW h \in Handler, HandlerPop(h) PROVE Inner'
    BY <2>14, ThreadsDistinct DEF HandlerPop, Release, TypeOK, Inner, Objects, Readers, Handlers, Owned, NoLostWakeup, Starting, Destroying, controlVars, readerVars, history
  <2>15. ASSUME NEW h \in Handler, HandlerProcess(h) PROVE Inner'
    BY <2>15, ThreadsDistinct DEF HandlerProcess, TypeOK, Inner, Objects, Readers, Handlers, Owned, NoLostWakeup, Starting, Destroying, controlVars, syncVars, readerVars
  <2>16. CASE StartInstall
    BY <2>16, ThreadsDistinct DEF StartInstall, TypeOK, Inner, Objects, Readers, Handlers, Owned, NoLostWakeup, Starting, Destroying, syncVars, handlerVars, history
  <2>17. CASE StartInstallThrows
    BY <2>17, ThreadsDistinct DEF StartInstallThrows, TypeOK, Inner, Objects, Readers, Handlers, Owned, NoLostWakeup, Starting, Destroying, syncVars, readerVars, handlerVars, history
  <2>18. CASE StartQueue
    BY <2>18, ThreadsDistinct DEF StartQueue, TypeOK, Inner, Objects, Readers, Handlers, Owned, NoLostWakeup, Starting, Destroying, syncVars, readerVars, handlerVars, history
  <2>19. CASE StartMutex
    BY <2>19, ThreadsDistinct DEF StartMutex, TypeOK, Inner, Objects, Readers, Handlers, Owned, NoLostWakeup, Starting, Destroying, readerVars, handlerVars, history
  <2>20. CASE StartEvent
    BY <2>20, ThreadsDistinct DEF StartEvent, TypeOK, Inner, Objects, Readers, Handlers, Owned, NoLostWakeup, Starting, Destroying, readerVars, handlerVars, history
  <2>21. CASE StartHandler
    BY <2>21, ThreadsDistinct DEF StartHandler, TypeOK, Inner, Objects, Readers, Handlers, Owned, NoLostWakeup, Starting, Destroying, syncVars, readerVars, history
  <2>22. CASE Stop
    BY <2>22, ThreadsDistinct DEF Stop, TypeOK, Inner, Objects, Readers, Handlers, Owned, NoLostWakeup, Starting, Destroying, syncVars, readerVars, handlerVars, history
  <2>23. CASE StopLock
    BY <2>23, ThreadsDistinct DEF StopLock, Acquire, MutexUsable, TypeOK, Inner, Objects, Readers, Handlers, Owned, NoLostWakeup, Starting, Destroying, readerVars, handlerVars, history
  <2>24. CASE StopDelete
    BY <2>24, ThreadsDistinct DEF StopDelete, Release, TypeOK, Inner, Objects, Readers, Handlers, Owned, NoLostWakeup, Starting, Destroying, readerVars, handlerVars
  <2>25. CASE StopJoin
    BY <2>25, ThreadsDistinct DEF StopJoin, HandlerJoined, TypeOK, Inner, Objects, Readers, Handlers, Owned, NoLostWakeup, Starting, Destroying, syncVars, readerVars, handlerVars, history
  <2>26. CASE DestroyEvent \/ DestroyMutex
    BY <2>26, ThreadsDistinct DEF DestroyEvent, DestroyMutex, TypeOK, Inner, Objects, Readers, Handlers, Owned, NoLostWakeup, Starting, Destroying, syncVars, readerVars, handlerVars, history
  <2>27. CASE NullEvent \/ NullMutex
    BY <2>27, ThreadsDistinct DEF NullEvent, NullMutex, TypeOK, Inner, Objects, Readers, Handlers, Owned, NoLostWakeup, Starting, Destroying, readerVars, handlerVars, history
  <2>28. ASSUME NEW h \in Handler, HandlerStuck(h) PROVE Inner'
    BY <2>28, ThreadsDistinct DEF HandlerStuck, TypeOK, Inner, Objects, Handlers, Destroying
  <2>29. CASE UNCHANGED vars
    BY <2>29, ThreadsDistinct DEF TypeOK, Inner, Objects, Readers, Handlers, Owned, NoLostWakeup, Starting, Destroying, vars, controlVars, syncVars, readerVars, handlerVars, history
  <2>. QED
    BY <2>1, <2>2, <2>3, <2>4, <2>5, <2>6, <2>7, <2>8, <2>9, <2>10, <2>11, <2>12, <2>13, <2>14, <2>15, <2>16, <2>17, <2>18, <2>19, <2>20, <2>21, <2>22, <2>23, <2>24, <2>25, <2>26, <2>27, <2>28, <2>29 DEF Next, ReaderNext, HandlerNext, StartNext, StopNext
<1>. QED
  BY <1>1, <1>2, TypeCorrect, PTL DEF Spec

\* When no key is hit while start() runs and handling an event never outlasts
\* stop()'s wait, the threads share the input queue correctly: they exclude each
\* other from it, no wake-up of the handler is lost, stop() and a later start()
\* never leave two handlers running, and nobody uses what stop() destroyed.
THEOREM QueueSafe ==
  ASSUME ~EarlyInput, ~SlowHandler
  PROVE  Spec => []QueueDiscipline
<1>1. TypeOK /\ Inner => QueueExclusion /\ SingleHandler
  BY ThreadsDistinct, SMTT(30) DEF TypeOK, Inner, Objects, Readers, Handlers, InQueue, QueueExclusion, SingleHandler, Starting, Destroying, ControlPc
<1>2. TypeOK /\ Inner => NoUseAfterDestroy
  BY ThreadsDistinct, SMTT(30) DEF TypeOK, Inner, Objects, Readers, Handlers, Owned, NoUseAfterDestroy, MutexUsable, Starting, Destroying, ControlPc
<1>3. TypeOK /\ Inner => QueueDiscipline
  BY <1>1, <1>2 DEF QueueDiscipline, Inner
<1>. QED
  BY <1>3, PhasesKept, TypeCorrect, PTL

-----------------------------------------------------------------------------

\* The events that the readers have taken from their devices.
Taken == {e \in Event : e[2] <= rev[e[1]]}

\* The five places an event can be in have nothing in common, and each event that
\* was taken is in one of them.
Partition ==
  /\ InFlight \cap (Queued \cup InHand \cup Processed \cup discarded) = {}
  /\ Queued \cap (InHand \cup Processed \cup discarded) = {}
  /\ InHand \cap (Processed \cup discarded) = {}
  /\ Processed \cap discarded = {}
  /\ InFlight \cup Queued \cup InHand \cup Processed \cup discarded = Taken

\* A handler has an event in hand exactly while it processes it.
Hands == \A h \in Handler : hev[h] # None <=> hpc[h] = "process"

\* Inductive, given TypeOK and Inner.
Kept == refused = {} /\ HasRead /\ Hands /\ IsInjective(queue) /\ IsInjective(handled) /\ Partition

\* A sequence without repetitions has as many elements as its length says.
LEMMA InjectiveCount ==
  ASSUME NEW S, NEW s \in Seq(S), IsInjective(s)
  PROVE  Cardinality({s[i] : i \in DOMAIN s}) = Len(s)
<1>. DEFINE T == {s[i] : i \in DOMAIN s}
<1>1. Len(s) \in Nat /\ DOMAIN s = 1 .. Len(s) /\ s \in [1 .. Len(s) -> S]
  BY LenProperties
<1>2. s \in [1 .. Len(s) -> T]
  BY <1>1
<1>3. s \in Injection(1 .. Len(s), T)
  BY <1>1, <1>2 DEF Injection
<1>4. s \in Surjection(1 .. Len(s), T)
  BY <1>1, <1>2 DEF Surjection
<1>. QED
  BY <1>1, <1>3, <1>4, FS_CountingElements DEF Bijection, ExistsBijection

\* An element of one of five disjoint sets is in one of them.
LEMMA OneOfFive ==
  ASSUME NEW A, NEW B, NEW C, NEW D, NEW E, NEW x \in A \cup B \cup C \cup D \cup E,
         A \cap (B \cup C \cup D \cup E) = {}, B \cap (C \cup D \cup E) = {},
         C \cap (D \cup E) = {}, D \cap E = {}
  PROVE  Cardinality({i \in 1 .. 5 : <<x \in A, x \in B, x \in C, x \in D, x \in E>>[i]}) = 1
<1>. DEFINE p == <<x \in A, x \in B, x \in C, x \in D, x \in E>>
<1>1. (p[1] <=> x \in A) /\ (p[2] <=> x \in B) /\ (p[3] <=> x \in C) /\ (p[4] <=> x \in D) /\ (p[5] <=> x \in E)
  OBVIOUS
<1>2. \A i \in 1 .. 5 : i = 1 \/ i = 2 \/ i = 3 \/ i = 4 \/ i = 5
  OBVIOUS
<1>. HIDE DEF p
<1>3. \E k \in 1 .. 5 : \A i \in 1 .. 5 : p[i] <=> i = k
  <2>1. ASSUME x \in A PROVE \A i \in 1 .. 5 : p[i] <=> i = 1
    BY <1>1, <1>2, <2>1
  <2>2. ASSUME x \in B PROVE \A i \in 1 .. 5 : p[i] <=> i = 2
    BY <1>1, <1>2, <2>2
  <2>3. ASSUME x \in C PROVE \A i \in 1 .. 5 : p[i] <=> i = 3
    BY <1>1, <1>2, <2>3
  <2>4. ASSUME x \in D PROVE \A i \in 1 .. 5 : p[i] <=> i = 4
    BY <1>1, <1>2, <2>4
  <2>5. ASSUME x \in E PROVE \A i \in 1 .. 5 : p[i] <=> i = 5
    BY <1>1, <1>2, <2>5
  <2>. QED
    BY <2>1, <2>2, <2>3, <2>4, <2>5
<1>4. PICK k \in 1 .. 5 : \A i \in 1 .. 5 : p[i] <=> i = k
  BY <1>3
<1>5. {i \in 1 .. 5 : p[i]} = {k}
  BY <1>4
<1>. QED
  BY <1>5, FS_Singleton DEF p

\* Kept says of each event what EventConservation asks.
LEMMA KeptConserves == TypeOK /\ Kept => EventConservation
<1>. SUFFICES ASSUME TypeOK, Kept PROVE EventConservation
  OBVIOUS
<1>1. ASSUME NEW r \in Reader, NEW n \in 1 .. rev[r]
      PROVE  LET e == <<r, n>>
                 places == <<e \in InFlight, e \in Queued, e \in InHand, e \in Processed, e \in discarded>>
             IN  Cardinality({i \in 1 .. 5 : places[i]}) = 1
  <2>. DEFINE e == <<r, n>>
  <2>1. e \in Taken
    BY BoundsAssumption DEF Taken, TypeOK, Event
  <2>. HIDE DEF e
  <2>2. Cardinality({i \in 1 .. 5 : <<e \in InFlight, e \in Queued, e \in InHand, e \in Processed, e \in discarded>>[i]}) = 1
    BY <2>1, OneOfFive DEF Kept, Partition
  <2>. QED
    BY <2>2 DEF e
<1>2. Cardinality(Queued) = Len(queue) /\ Cardinality(Processed) = Len(handled)
  BY InjectiveCount DEF TypeOK, Kept, Queued, Processed
<1>. QED
  BY <1>1, <1>2 DEF EventConservation, Kept

\* What a step that moves no event leaves as it is.
LEMMA NothingMoves ==
  ASSUME Kept, UNCHANGED <<queue, rev, hev, handled, discarded, refused>>, InFlight' = InFlight,
         HasRead', Hands'
  PROVE  Kept'
BY DEF Kept, IsInjective, Partition, Taken, Queued, InHand, Processed

\* What stop() does after the handler's end moves no event.
Destroys == StopJoin \/ DestroyEvent \/ NullEvent \/ DestroyMutex \/ NullMutex

\* No event is lost or doubled by any step.
LEMMA StepKeeps ==
  ASSUME ~EarlyInput, ~SlowHandler, TypeOK, TypeOK', Inner, Kept, [Next]_vars
  PROVE  Kept'
<1>1. ASSUME NEW r \in Reader, ReadEvent(r) PROVE Kept'
  <2>. DEFINE e == <<r, rev[r] + 1>>
  <2>1. rev' = [rev EXCEPT ![r] = rev[r] + 1] /\ rev[r] \in Nat /\ rev[r] + 1 \in 1 .. MaxEvents
    BY <1>1, BoundsAssumption DEF ReadEvent, TypeOK
  <2>2. e \in Event /\ e \notin Taken
    BY <2>1 DEF Event, Taken
  <2>3. Taken' = Taken \cup {e}
    BY <2>1, BoundsAssumption DEF Taken, Event, TypeOK
  <2>4. InFlight' = InFlight \cup {e}
    BY <1>1, <2>1 DEF ReadEvent, InFlight, TypeOK
  <2>5. UNCHANGED <<queue, hev, hpc, handled, discarded, refused>>
    BY <1>1 DEF ReadEvent, handlerVars, history
  <2>6. Queued' = Queued /\ InHand' = InHand /\ Processed' = Processed
    BY <2>5 DEF Queued, InHand, Processed
  <2>. HIDE DEF e
  <2>7. Partition'
    BY <2>2, <2>3, <2>4, <2>5, <2>6 DEF Kept, Partition
  <2>8. HasRead'
    BY <1>1, <2>1, <2>5 DEF ReadEvent, Kept, HasRead, TypeOK
  <2>. QED
    BY <2>5, <2>7, <2>8 DEF Kept, Hands
<1>2. ASSUME NEW r \in Reader, ReadOther(r) \/ Disconnect(r) PROVE Kept'
  <2>1. InFlight' = InFlight
    BY <1>2 DEF ReadOther, Disconnect, InFlight, TypeOK
  <2>. QED
    BY <1>2, <2>1, NothingMoves DEF ReadOther, Disconnect, Kept, HasRead, Hands, TypeOK, handlerVars, history
<1>3. ASSUME NEW r \in Reader, PushLock(r) PROVE Kept'
  <2>1. InFlight' = InFlight
    BY <1>3 DEF PushLock, InFlight, TypeOK
  <2>. QED
    BY <1>3, <2>1, NothingMoves DEF PushLock, Kept, HasRead, Hands, TypeOK, handlerVars, history
<1>4. ASSUME NEW r \in Reader, Push(r) PROVE Kept'
  <2>. DEFINE e == <<r, rev[r]>>
  <2>1. allocated
    BY <1>4, ThreadsDistinct DEF Push, TypeOK, Inner, Objects, Readers, Starting, Destroying, ControlPc
  <2>2. /\ queue' = Append(queue, e) /\ rpc' = [rpc EXCEPT ![r] = "signal"]
        /\ UNCHANGED <<rev, hpc, hev, handled, discarded, refused>>
    BY <1>4, <2>1 DEF Push, handlerVars
  <2>3. e \in InFlight /\ InFlight' = InFlight \ {e}
    BY <1>4, <2>2 DEF Push, InFlight, TypeOK
  <2>4. e \in Event /\ queue \in Seq(Event)
    BY <1>4, BoundsAssumption DEF Push, Event, TypeOK, Kept, HasRead
  <2>. HIDE DEF e
  <2>5. Queued' = Queued \cup {e}
    BY <2>2, <2>4, AppendProperties DEF Queued
  <2>6. e \notin Queued
    BY <2>3 DEF Kept, Partition
  <2>7. IsInjective(queue')
    BY <2>2, <2>4, <2>6, AppendProperties DEF Kept, IsInjective, Queued
  <2>8. InHand' = InHand /\ Processed' = Processed /\ Taken' = Taken
    BY <2>2 DEF InHand, Processed, Taken
  <2>9. Partition'
    BY <2>2, <2>3, <2>5, <2>8 DEF Kept, Partition
  <2>10. HasRead' /\ Hands'
    BY <2>2 DEF Kept, HasRead, Hands, TypeOK
  <2>. QED
    BY <2>2, <2>7, <2>9, <2>10 DEF Kept
<1>5. ASSUME NEW r \in Reader, Signal(r) \/ PushUnlock(r) PROVE Kept'
  <2>1. InFlight' = InFlight
    BY <1>5 DEF Signal, PushUnlock, InFlight, TypeOK
  <2>. QED
    BY <1>5, <2>1, NothingMoves DEF Signal, PushUnlock, Kept, HasRead, Hands, TypeOK, handlerVars, history
<1>6. ASSUME NEW r \in Reader, StopReader(r) \/ JoinReader(r) PROVE Kept'
  <2>1. InFlight' = InFlight
    BY <1>6 DEF StopReader, JoinReader, InFlight, TypeOK
  <2>. QED
    BY <1>6, <2>1, NothingMoves DEF StopReader, JoinReader, Kept, HasRead, Hands, TypeOK, handlerVars, history
<1>7. ASSUME NEW h \in Handler, HandlerLock(h) \/ HandlerStuck(h) \/ HandlerExit(h) \/ HandlerSleep(h) \/ HandlerWake(h) PROVE Kept'
  <2>1. InFlight' = InFlight
    BY <1>7 DEF HandlerLock, HandlerStuck, HandlerExit, HandlerSleep, HandlerWake, InFlight, readerVars
  <2>. QED
    BY <1>7, <2>1, NothingMoves DEF HandlerLock, HandlerStuck, HandlerExit, HandlerSleep, HandlerWake, Kept, HasRead, Hands, TypeOK, readerVars, history
<1>8. ASSUME NEW h \in Handler, HandlerPop(h) PROVE Kept'
  <2>. DEFINE e == Head(queue)
  <2>1. /\ queue # <<>> /\ queue' = Tail(queue) /\ hev' = [hev EXCEPT ![h] = e]
        /\ hpc' = [hpc EXCEPT ![h] = "process"]
        /\ UNCHANGED <<rpc, rev, handled, discarded, refused>>
    BY <1>8 DEF HandlerPop, readerVars, history
  <2>2. queue \in Seq(Event) /\ e \in Event /\ e = queue[1] /\ Len(queue) \in Nat \ {0}
    BY <2>1 DEF TypeOK
  <2>3. None \notin Event /\ hev[h] = None
    BY <1>8, NoneAssumption DEF HandlerPop, Kept, Hands, TypeOK
  <2>4. Queued' = Queued \ {e}
    <3>1. \A i \in 2 .. Len(queue) : queue[i] = Tail(queue)[i - 1] /\ i - 1 \in 1 .. Len(Tail(queue)) /\ queue[i] # e
      BY <2>1, <2>2, HeadTailProperties DEF Kept, IsInjective
    <3>2. \A j \in 1 .. Len(Tail(queue)) : Tail(queue)[j] = queue[j + 1] /\ j + 1 \in 2 .. Len(queue)
      BY <2>1, <2>2, HeadTailProperties
    <3>3. Queued = {e} \cup {queue[i] : i \in 2 .. Len(queue)}
      BY <2>2 DEF Queued
    <3>4. Queued' = {Tail(queue)[j] : j \in 1 .. Len(Tail(queue))}
      <4>1. DOMAIN Tail(queue) = 1 .. Len(Tail(queue))
        BY <2>1, <2>2, HeadTailProperties, LenProperties
      <4>. QED
        BY <2>1, <4>1 DEF Queued
    <3>5. {Tail(queue)[j] : j \in 1 .. Len(Tail(queue))} = {queue[i] : i \in 2 .. Len(queue)}
      BY <3>1, <3>2, SMTT(30)
    <3>. QED
      BY <3>1, <3>3, <3>4, <3>5
  <2>5. e \in Queued
    BY <2>2 DEF Queued
  <2>6. InHand' = InHand \cup {e}
    BY <2>1, <2>2, <2>3 DEF InHand, TypeOK
  <2>7. IsInjective(queue')
    BY <2>1, <2>2, HeadTailProperties DEF Kept, IsInjective
  <2>. HIDE DEF e
  <2>8. InFlight' = InFlight /\ Processed' = Processed /\ Taken' = Taken
    BY <2>1 DEF InFlight, Processed, Taken
  <2>9. Partition'
    BY <2>1, <2>4, <2>5, <2>6, <2>8 DEF Kept, Partition
  <2>10. HasRead' /\ Hands'
    BY <2>1, <2>2, <2>3 DEF Kept, HasRead, Hands, TypeOK
  <2>. QED
    BY <2>1, <2>7, <2>9, <2>10 DEF Kept
<1>9. ASSUME NEW h \in Handler, HandlerProcess(h) PROVE Kept'
  <2>. DEFINE e == hev[h]
  <2>1. /\ handled' = Append(handled, e) /\ hev' = [hev EXCEPT ![h] = None]
        /\ hpc' = [hpc EXCEPT ![h] = "lock"]
        /\ UNCHANGED <<queue, rpc, rev, discarded, refused>>
    BY <1>9 DEF HandlerProcess, readerVars
  <2>2. e \in Event /\ handled \in Seq(Event) /\ e # None
    BY <1>9 DEF HandlerProcess, Kept, HasRead, Hands, TypeOK
  <2>3. \A g \in Handler : g # h => hev[g] = None
    BY <1>9 DEF HandlerProcess, Kept, Hands, Inner, Handlers, TypeOK
  <2>4. e \in InHand /\ InHand' = InHand \ {e}
    BY <2>1, <2>2, <2>3 DEF InHand, TypeOK
  <2>. HIDE DEF e
  <2>5. Processed' = Processed \cup {e}
    BY <2>1, <2>2, AppendProperties DEF Processed
  <2>6. e \notin Processed
    BY <2>4 DEF Kept, Partition
  <2>7. IsInjective(handled')
    BY <2>1, <2>2, <2>6, AppendProperties DEF Kept, IsInjective, Processed
  <2>8. InFlight' = InFlight /\ Queued' = Queued /\ Taken' = Taken
    BY <2>1 DEF InFlight, Queued, Taken
  <2>9. Partition'
    BY <2>1, <2>4, <2>5, <2>8 DEF Kept, Partition
  <2>10. HasRead' /\ Hands'
    BY <2>1 DEF Kept, HasRead, Hands, TypeOK
  <2>. QED
    BY <2>1, <2>7, <2>9, <2>10 DEF Kept
<1>10. CASE StartInstall
  <2>1. \A r \in Reader : rpc[r] = "off"
    BY <1>10 DEF StartInstall, Inner, Readers
  <2>2. InFlight' = InFlight
    BY <1>10, <2>1 DEF StartInstall, InFlight
  <2>. QED
    BY <1>10, <2>2, NothingMoves DEF StartInstall, Kept, HasRead, Hands, TypeOK, handlerVars, history
<1>11. CASE StartInstallThrows \/ Stop \/ StopLock \/ StartMutex \/ StartEvent \/ Destroys
  <2>1. InFlight' = InFlight
    BY <1>11 DEF StartInstallThrows, Stop, StopLock, StartMutex, StartEvent, Destroys, StopJoin, DestroyEvent, NullEvent, DestroyMutex, NullMutex, InFlight, readerVars
  <2>. QED
    BY <1>11, <2>1, NothingMoves DEF StartInstallThrows, Stop, StopLock, StartMutex, StartEvent, Destroys, StopJoin, DestroyEvent, NullEvent, DestroyMutex, NullMutex, Kept, HasRead, Hands, TypeOK, readerVars, handlerVars, history
<1>12. CASE StartQueue
  <2>1. queue' = queue
    BY <1>12 DEF StartQueue, Inner, Objects
  <2>2. InFlight' = InFlight
    BY <1>12 DEF StartQueue, InFlight, readerVars
  <2>. QED
    BY <1>12, <2>1, <2>2, NothingMoves DEF StartQueue, Kept, HasRead, Hands, TypeOK, readerVars, handlerVars, history
<1>13. CASE StartHandler
  <2>1. InFlight' = InFlight
    BY <1>13 DEF StartHandler, InFlight, readerVars
  <2>. QED
    BY <1>13, <2>1, NothingMoves DEF StartHandler, Kept, HasRead, Hands, TypeOK, readerVars, history
<1>14. CASE StopDelete
  <2>1. /\ queue' = <<>> /\ discarded' = discarded \cup Queued
        /\ UNCHANGED <<rpc, rev, hpc, hev, handled, refused>>
    BY <1>14 DEF StopDelete, Queued, readerVars, handlerVars
  <2>2. Queued' = {} /\ IsInjective(queue')
    BY <2>1 DEF Queued, IsInjective
  <2>3. InFlight' = InFlight /\ InHand' = InHand /\ Processed' = Processed /\ Taken' = Taken
    BY <2>1 DEF InFlight, InHand, Processed, Taken
  <2>4. Partition'
    BY <2>1, <2>2, <2>3 DEF Kept, Partition
  <2>5. HasRead' /\ Hands'
    BY <2>1 DEF Kept, HasRead, Hands
  <2>. QED
    BY <2>1, <2>2, <2>4, <2>5 DEF Kept
<1>15. CASE UNCHANGED vars
  <2>1. InFlight' = InFlight
    BY <1>15 DEF vars, InFlight, readerVars
  <2>. QED
    BY <1>15, <2>1, NothingMoves DEF vars, Kept, HasRead, Hands, readerVars, handlerVars, history
<1>. QED
  BY <1>1, <1>2, <1>3, <1>4, <1>5, <1>6, <1>7, <1>8, <1>9, <1>10, <1>11, <1>12, <1>13, <1>14, <1>15 DEF Next, ReaderNext, HandlerNext, StartNext, StopNext, Destroys

\* Kept is an invariant: refused, lost or doubled events do not occur.
LEMMA EventsKept ==
  ASSUME ~EarlyInput, ~SlowHandler
  PROVE  Spec => []Kept
<1>1. Init => Kept
  <2>. SUFFICES ASSUME Init PROVE Kept
    OBVIOUS
  <2>1. InFlight = {} /\ Queued = {} /\ Processed = {} /\ discarded = {}
    BY DEF Init, InFlight, Queued, Processed
  <2>2. InHand = {}
    BY DEF Init, InHand
  <2>3. Taken = {}
    BY BoundsAssumption DEF Init, Taken, Event
  <2>4. IsInjective(queue) /\ IsInjective(handled) /\ HasRead /\ Hands /\ refused = {}
    BY DEF Init, IsInjective, HasRead, Hands
  <2>. QED
    BY <2>1, <2>2, <2>3, <2>4 DEF Kept, Partition
<1>2. TypeOK /\ TypeOK' /\ Inner /\ Kept /\ [Next]_vars => Kept'
  BY StepKeeps
<1>. QED
  BY <1>1, <1>2, PhasesKept, TypeCorrect, PTL DEF Spec

\* While no key is hit during start() and no event takes longer than stop() waits,
\* each event that a reader took from its device is in exactly one place, in the
\* queue once and in the history once, and is never refused.
THEOREM EventsConserved ==
  ASSUME ~EarlyInput, ~SlowHandler
  PROVE  Spec => []EventConservation
BY KeptConserves, EventsKept, TypeCorrect, PTL

-----------------------------------------------------------------------------

\* The event a handler has in hand comes first among the pending ones.
InWork(f) == IF \E h \in Handler : f[h] # None
             THEN <<f[CHOOSE h \in Handler : f[h] # None]>> ELSE <<>>
Pending == InWork(hev) \o queue

\* With at most one handler at work, InWork is its event.
LEMMA OneInWork ==
  ASSUME NEW f \in [Handler -> Event \cup {None}], NEW g \in Handler, \A h \in Handler : h # g => f[h] = None
  PROVE  /\ f[g] # None => InWork(f) = <<f[g]>>
         /\ f[g] = None => InWork(f) = <<>>
         /\ InWork(f) \in Seq(Event)
<1>1. f[g] # None => (CHOOSE h \in Handler : f[h] # None) = g
  OBVIOUS
<1>2. f[g] # None => InWork(f) = <<f[g]>> /\ f[g] \in Event
  BY <1>1 DEF InWork
<1>3. f[g] = None => InWork(f) = <<>>
  BY DEF InWork
<1>4. \A e \in Event : <<e>> \in Seq(Event)
  OBVIOUS
<1>. QED
  BY <1>2, <1>3, <1>4, EmptySeq

\* ... and without one there is none.
LEMMA NoneInWork ==
  ASSUME NEW f, \A h \in Handler : f[h] = None
  PROVE  InWork(f) = <<>>
BY DEF InWork

\* The handler that is alive is the only one that can have an event in hand.
LEMMA Single ==
  ASSUME TypeOK, Inner, Kept
  PROVE  /\ \A h \in Handler : h # current => hev[h] = None
         /\ InWork(hev) \in Seq(Event)
<1>1. \A h \in Handler : h # current => hev[h] = None
  BY DEF TypeOK, Inner, Handlers, Kept, Hands
<1>2. CASE current \in Handler
  BY <1>1, <1>2, OneInWork DEF TypeOK
<1>3. CASE current \notin Handler
  <2>1. \A h \in Handler : hev[h] = None
    BY <1>1, <1>3
  <2>. QED
    BY <1>1, <2>1, NoneInWork, EmptySeq
<1>. QED
  BY <1>1, <1>2, <1>3

\* A push accepts an event, processing handles the oldest, stop() discards what no
\* handler has in hand, and every other step leaves the stream alone.
LEMMA StepStreams ==
  ASSUME ~EarlyInput, ~SlowHandler, TypeOK, Inner, Kept, [Next]_vars
  PROVE  [Stream!Next]_(Stream!streamVars)
<1>. DEFINE w == InWork(hev)
<1>0. w \in Seq(Event) /\ queue \in Seq(Event) /\ Len(w) \in Nat
  BY Single DEF TypeOK
<1>1. ASSUME NEW r \in Reader, Push(r) PROVE \E e \in Event : Stream!Accept(e)
  <2>. DEFINE e == <<r, rev[r]>>
  <2>1. allocated
    BY <1>1, ThreadsDistinct DEF Push, TypeOK, Inner, Objects, Readers, Starting, Destroying, ControlPc
  <2>2. queue' = Append(queue, e) /\ UNCHANGED <<hev, handled>>
    BY <1>1, <2>1 DEF Push, handlerVars
  <2>3. e \in Event
    BY <1>1, BoundsAssumption DEF Push, Event, TypeOK, Kept, HasRead
  <2>. HIDE DEF e
  <2>4. w \o Append(queue, e) = Append(w \o queue, e)
    BY <1>0, <2>3, AppendIsConcat, ConcatAssociative, ConcatProperties
  <2>5. Pending' = Append(Pending, e)
    BY <2>2, <2>4 DEF Pending, InWork
  <2>. QED
    BY <2>2, <2>3, <2>5 DEF Stream!Accept, Pending, InWork
<1>2. ASSUME NEW h \in Handler, HandlerPop(h) PROVE UNCHANGED <<Pending, handled>>
  <2>1. /\ queue # <<>> /\ queue' = Tail(queue) /\ hev' = [hev EXCEPT ![h] = Head(queue)]
        /\ UNCHANGED handled
    BY <1>2 DEF HandlerPop, history
  <2>2. h = current /\ hev[h] = None
    BY <1>2 DEF HandlerPop, Inner, Handlers, Kept, Hands
  <2>3. w = <<>>
    BY <2>2, Single, NoneInWork
  <2>4. Head(queue) \in Event /\ Tail(queue) \in Seq(Event) /\ Head(queue) # None
    BY <1>0, <2>1, NoneAssumption
  <2>5. InWork(hev') = <<Head(queue)>>
    <3>1. hev' \in [Handler -> Event \cup {None}] /\ hev'[h] = Head(queue)
      BY <2>1, <2>4 DEF TypeOK
    <3>2. \A g \in Handler : g # h => hev'[g] = None
      BY <2>1, <2>2, Single DEF TypeOK
    <3>. QED
      BY <2>4, <3>1, <3>2, OneInWork
  <2>6. <<Head(queue)>> \o Tail(queue) = queue /\ <<>> \o queue = queue
    BY <1>0, <2>1
  <2>7. InWork(hev)' = InWork(hev')
    BY DEF InWork
  <2>. QED
    BY <2>1, <2>3, <2>5, <2>6, <2>7 DEF Pending
<1>3. ASSUME NEW h \in Handler, HandlerProcess(h) PROVE Stream!Handle
  <2>1. /\ handled' = Append(handled, hev[h]) /\ hev' = [hev EXCEPT ![h] = None]
        /\ UNCHANGED queue
    BY <1>3 DEF HandlerProcess
  <2>2. h = current /\ hev[h] # None /\ hev[h] \in Event
    BY <1>3 DEF HandlerProcess, Inner, Handlers, Kept, Hands, TypeOK
  <2>3. w = <<hev[h]>>
    BY <2>2, Single, OneInWork DEF TypeOK
  <2>4. InWork(hev') = <<>>
    <3>1. \A g \in Handler : hev'[g] = None
      BY <2>1, <2>2, Single DEF TypeOK
    <3>. QED
      BY <3>1, NoneInWork
  <2>5. InWork(hev)' = InWork(hev')
    BY DEF InWork
  <2>6. Pending # <<>> /\ Head(Pending) = hev[h] /\ Tail(Pending) = queue /\ Pending' = queue
    <3>1. Pending = <<hev[h]>> \o queue /\ Pending' = <<>> \o queue
      BY <2>1, <2>3, <2>4, <2>5 DEF Pending
    <3>. QED
      BY <1>0, <2>2, <3>1
  <2>. QED
    BY <2>1, <2>6 DEF Stream!Handle, Pending, InWork
<1>4. CASE StopDelete
  <2>1. queue' = <<>> /\ UNCHANGED <<hev, handled>>
    BY <1>4 DEF StopDelete, handlerVars
  <2>2. Pending' = w
    <3>1. Pending' = w \o <<>>
      BY <2>1 DEF Pending, InWork
    <3>. QED
      BY <1>0, <3>1, ConcatEmptySeq
  <2>3. SubSeq(Pending, 1, Len(w)) = w /\ Len(w) <= Len(Pending)
    BY <1>0, ConcatProperties DEF Pending
  <2>4. Len(w) \in 0 .. 1
    BY DEF InWork
  <2>5. Stream!Discard
    BY <2>1, <2>2, <2>3, <2>4 DEF Stream!Discard, Pending, InWork
  <2>. QED
    BY <2>5 DEF Stream!Next
<1>5. CASE StartQueue
  <2>1. UNCHANGED <<queue, hev, handled>>
    BY <1>5 DEF StartQueue, Inner, Objects, handlerVars, history
  <2>. QED
    BY <2>1 DEF Stream!streamVars
<1>6. CASE UNCHANGED <<queue, hev, handled>>
  BY <1>6 DEF Stream!streamVars
<1>7. ASSUME UNCHANGED <<Pending, handled>> PROVE UNCHANGED Stream!streamVars
  BY <1>7 DEF Stream!streamVars, Pending, InWork
<1>8. ASSUME NEW r \in Reader, ReadEvent(r) \/ ReadOther(r) \/ Disconnect(r) \/ PushLock(r) \/ Signal(r) \/ PushUnlock(r) \/ StopReader(r) \/ JoinReader(r)
      PROVE UNCHANGED <<queue, hev, handled>>
  BY <1>8 DEF ReadEvent, ReadOther, Disconnect, PushLock, Signal, PushUnlock, StopReader, JoinReader, handlerVars, history
<1>9. ASSUME NEW h \in Handler, HandlerLock(h) \/ HandlerStuck(h) \/ HandlerExit(h) \/ HandlerSleep(h) \/ HandlerWake(h)
      PROVE UNCHANGED <<queue, hev, handled>>
  BY <1>9 DEF HandlerLock, HandlerStuck, HandlerExit, HandlerSleep, HandlerWake, history
<1>10. ASSUME StartInstall \/ StartInstallThrows \/ Stop \/ StopLock \/ StartMutex \/ StartEvent \/ StartHandler \/ Destroys
       PROVE UNCHANGED <<queue, hev, handled>>
  BY <1>10 DEF StartInstall, StartInstallThrows, Stop, StopLock, StartMutex, StartEvent, StartHandler, Destroys, StopJoin, DestroyEvent, NullEvent, DestroyMutex, NullMutex, handlerVars, history
<1>11. ASSUME UNCHANGED vars PROVE UNCHANGED <<queue, hev, handled>>
  BY <1>11 DEF vars, handlerVars, history
<1>. QED
  BY <1>1, <1>2, <1>3, <1>4, <1>5, <1>6, <1>7, <1>8, <1>9, <1>10, <1>11 DEF Next, ReaderNext, HandlerNext, StartNext, StopNext, Stream!Next, Destroys

\* Under the same assumptions threads, mutex and event implement KeyStream: every
\* event is handled once, in the order of acceptance, or discarded by stop().
THEOREM StreamImplemented ==
  ASSUME ~EarlyInput, ~SlowHandler
  PROVE  Spec => ImplementsKeyStream
<1>1. Init => Stream!Init
  <2>. SUFFICES ASSUME Init PROVE Stream!Init
    OBVIOUS
  <2>1. InWork(hev) = <<>>
    BY DEF Init, InWork
  <2>. QED
    BY <2>1 DEF Init, Stream!Init, InWork
<1>2. TypeOK /\ Inner /\ Kept /\ [Next]_vars => [Stream!Next]_(Stream!streamVars)
  BY StepStreams
<1>. QED
  BY <1>1, <1>2, PhasesKept, TypeCorrect, EventsKept, PTL DEF Spec, ImplementsKeyStream, Stream!Spec
=============================================================================
