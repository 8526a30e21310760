------------------------------- MODULE InputQueue -------------------------------
(***************************************************************************)
(* The path of a key event from an evdev device to the keyboard handler:   *)
(*                                                                         *)
(*   reader threads   EventReaderThread::run -> hook callback ->           *)
(*                    Engine::pushInputEvent                               *)
(*   handler thread   Engine::keyboardHandler, its dequeue loop            *)
(*   control thread   Engine::start and Engine::stop, reached through      *)
(*                    EngineAdapter::start and EngineAdapter::stop          *)
(*                                                                         *)
(* The three share m_inputQueue, m_queueMutex and m_readEvent.  A step is   *)
(* what a thread does between two points at which another one can run.     *)
(* What the handler does with an event is the subject of other modules.    *)
(***************************************************************************)
EXTENDS Naturals, Sequences, FiniteSets

CONSTANTS
  Reader,        \* the keyboards, each with a reader thread
  Handler,       \* identities for handler threads; each start() uses a new one
  Control, None, \* the control thread; nobody
  MaxEvents,     \* bound: key events one keyboard delivers
  EarlyInput,    \* may a key be hit while start() is still executing?
  SlowHandler    \* may handling one event outlast the 2000 ms that stop() waits?

ASSUME ThreadsDistinct ==
  /\ Reader \cap Handler = {}
  /\ Control \notin Reader \cup Handler
  /\ None \notin Reader \cup Handler \cup {Control}

ASSUME BoundsAssumption ==
  /\ MaxEvents \in Nat
  /\ EarlyInput \in BOOLEAN
  /\ SlowHandler \in BOOLEAN

Event == Reader \X (1 .. MaxEvents)

\* A null pointer is no event.
ASSUME NoneAssumption == None \notin Event

VARIABLES
  state,      \* Engine::m_state
  cpc,        \* where the control thread is in start() or stop()
  current,    \* m_threadHandle: the handler created by the latest start()
  joining,    \* the reader that uninstall() is joining
  allocated,  \* m_inputQueue # nullptr
  queue,      \* the contents of *m_inputQueue
  mutex,      \* m_queueMutex # nullptr
  owner,      \* the thread holding the mutex
  hasEvent,   \* m_readEvent # nullptr
  signaled,   \* m_readEvent is signalled
  rpc,        \* program counter of each reader
  rev,        \* number of events each reader has taken from its device
  stopReq,    \* m_stopRequested of each reader
  hpc,        \* program counter of each handler
  hev,        \* the event each handler is working on
  handled,    \* history: events handled, in order
  discarded,  \* history: events deleted with the queue by stop()
  refused     \* history: events pushed while there was no queue

controlVars == <<state, cpc, current, joining>>
syncVars    == <<mutex, owner, hasEvent, signaled>>
readerVars  == <<rpc, rev, stopReq>>
handlerVars == <<hpc, hev>>
history     == <<handled, discarded, refused>>
vars == <<controlVars, allocated, queue, syncVars, readerVars, handlerVars, history>>

Starting == {"installed", "queueMade", "mutexMade", "eventMade"}
Destroying == {"joined", "eventDestroyed", "eventNull", "mutexDestroyed"}

Init ==
  /\ state = "Stopped" /\ cpc = "stopped" /\ current = None /\ joining = None
  /\ allocated = FALSE /\ queue = <<>>
  /\ mutex = FALSE /\ owner = None
  /\ hasEvent = FALSE /\ signaled = FALSE
  /\ rpc = [r \in Reader |-> "off"]
  /\ rev = [r \in Reader |-> 0]
  /\ stopReq = [r \in Reader |-> FALSE]
  /\ hpc = [h \in Handler |-> "none"]
  /\ hev = [h \in Handler |-> None]
  /\ handled = <<>> /\ discarded = {} /\ refused = {}

(* ----------------------- Synchronisation primitives ---------------------- *)

\* m_queueMutex points to a mutex; between destroyMutex and the assignment of
\* nullptr it points to one that is destroyed and freed.
MutexUsable == mutex /\ cpc # "mutexDestroyed"

\* acquireMutex(m_queueMutex, WAIT_INFINITE).  Its result is never looked at: on
\* a null handle or a destroyed mutex it fails at once and the caller carries on
\* without the lock.
Acquire(t) ==
  \/ MutexUsable /\ owner = None /\ owner' = t
  \/ ~MutexUsable /\ UNCHANGED owner

\* releaseMutex(m_queueMutex).  The default pthread mutex checks no ownership:
\* whoever unlocks it leaves it unlocked.
Release == owner' = None

(* ------------------------------ Reader threads --------------------------- *)

\* read() returns a key event that maps to a scan code; it blocks till then.
ReadEvent(r) ==
  /\ rpc[r] = "reading" /\ rev[r] < MaxEvents
  /\ EarlyInput \/ cpc \notin Starting
  /\ rev' = [rev EXCEPT ![r] = @ + 1]
  /\ rpc' = [rpc EXCEPT ![r] = "lock"]
  /\ UNCHANGED <<controlVars, allocated, queue, syncVars, stopReq, handlerVars, history>>

\* read() returns something else (not a key, an unknown key, a short read): the
\* loop only tests m_stopRequested and reads on.
ReadOther(r) ==
  /\ rpc[r] = "reading" /\ stopReq[r]
  /\ rpc' = [rpc EXCEPT ![r] = "exited"]
  /\ UNCHANGED <<controlVars, allocated, queue, syncVars, rev, stopReq, handlerVars, history>>

\* read() fails (ENODEV: the keyboard was unplugged): the thread leaves its loop.
Disconnect(r) ==
  /\ rpc[r] = "reading"
  /\ rpc' = [rpc EXCEPT ![r] = "exited"]
  /\ UNCHANGED <<controlVars, allocated, queue, syncVars, rev, stopReq, handlerVars, history>>

\* pushInputEvent: acquireMutex.
PushLock(r) ==
  /\ rpc[r] = "lock"
  /\ Acquire(r)
  /\ rpc' = [rpc EXCEPT ![r] = "push"]
  /\ UNCHANGED <<controlVars, allocated, queue, mutex, hasEvent, signaled, rev, stopReq,
                 handlerVars, history>>

\* Mutant: the pusher forgets setEvent.
PushWithoutSignal(r) ==
  /\ rpc[r] = "push"
  /\ queue' = Append(queue, <<r, rev[r]>>)
  /\ rpc' = [rpc EXCEPT ![r] = "unlock"]
  /\ UNCHANGED <<controlVars, allocated, syncVars, rev, stopReq, handlerVars, history>>

\* pushInputEvent: if (m_inputQueue) push_back; without a queue the event is lost.
Push(r) ==
  /\ rpc[r] = "push"
  /\ IF allocated
     THEN /\ queue' = Append(queue, <<r, rev[r]>>)
          /\ rpc' = [rpc EXCEPT ![r] = "signal"]
          /\ UNCHANGED refused
     ELSE /\ refused' = refused \cup {<<r, rev[r]>>}
          /\ rpc' = [rpc EXCEPT ![r] = "unlock"]
          /\ UNCHANGED queue
  /\ UNCHANGED <<controlVars, allocated, syncVars, rev, stopReq, handlerVars, handled, discarded>>

\* pushInputEvent: setEvent(m_readEvent), which does nothing on a null handle.
Signal(r) ==
  /\ rpc[r] = "signal"
  /\ signaled' = hasEvent
  /\ rpc' = [rpc EXCEPT ![r] = "unlock"]
  /\ UNCHANGED <<controlVars, allocated, queue, mutex, owner, hasEvent, rev, stopReq,
                 handlerVars, history>>

\* pushInputEvent: releaseMutex; the reader then tests m_stopRequested and
\* either leaves its loop or blocks in the next read().
PushUnlock(r) ==
  /\ rpc[r] = "unlock"
  /\ Release
  /\ rpc' = [rpc EXCEPT ![r] = IF stopReq[r] THEN "exited" ELSE "reading"]
  /\ UNCHANGED <<controlVars, allocated, queue, mutex, hasEvent, signaled, rev, stopReq,
                 handlerVars, history>>

(* ------------------------------ Handler thread --------------------------- *)

\* acquireMutex at the head of the loop and after a wake-up.
HandlerLock(h) ==
  /\ hpc[h] = "lock"
  /\ Acquire(h)
  /\ hpc' = [hpc EXCEPT ![h] = "check"]
  /\ UNCHANGED <<controlVars, allocated, queue, mutex, hasEvent, signaled, readerVars, hev, history>>

\* acquireMutex on freed memory can as well block for ever.
HandlerStuck(h) ==
  /\ hpc[h] = "lock" /\ mutex /\ cpc = "mutexDestroyed"
  /\ hpc' = [hpc EXCEPT ![h] = "stuck"]
  /\ UNCHANGED <<controlVars, allocated, queue, syncVars, readerVars, hev, history>>

\* m_inputQueue == nullptr: releaseMutex and return.
HandlerExit(h) ==
  /\ hpc[h] = "check" /\ ~allocated
  /\ Release
  /\ hpc' = [hpc EXCEPT ![h] = "exited"]
  /\ UNCHANGED <<controlVars, allocated, queue, mutex, hasEvent, signaled, readerVars, hev, history>>

\* m_inputQueue->empty(): resetEvent, releaseMutex, waitForObject.
HandlerSleep(h) ==
  /\ hpc[h] = "check" /\ allocated /\ queue = <<>>
  /\ signaled' = FALSE
  /\ Release
  /\ hpc' = [hpc EXCEPT ![h] = "wait"]
  /\ UNCHANGED <<controlVars, allocated, queue, mutex, hasEvent, readerVars, hev, history>>

\* waitForObject returns: the event is signalled, or the handle is null.
HandlerWake(h) ==
  /\ hpc[h] = "wait" /\ (signaled \/ ~hasEvent)
  /\ hpc' = [hpc EXCEPT ![h] = "lock"]
  /\ UNCHANGED <<controlVars, allocated, queue, syncVars, readerVars, hev, history>>

\* Mutant: the newest event is taken first.
HandlerPopBack(h) ==
  /\ hpc[h] = "check" /\ allocated /\ queue # <<>>
  /\ hev' = [hev EXCEPT ![h] = queue[Len(queue)]]
  /\ queue' = SubSeq(queue, 1, Len(queue) - 1)
  /\ signaled' = (signaled /\ Len(queue) > 1)
  /\ Release
  /\ hpc' = [hpc EXCEPT ![h] = "process"]
  /\ UNCHANGED <<controlVars, allocated, mutex, hasEvent, readerVars, history>>

\* Take the front event; resetEvent when that emptied the queue; releaseMutex.
HandlerPop(h) ==
  /\ hpc[h] = "check" /\ allocated /\ queue # <<>>
  /\ hev' = [hev EXCEPT ![h] = Head(queue)]
  /\ queue' = Tail(queue)
  /\ signaled' = (signaled /\ Tail(queue) # <<>>)
  /\ Release
  /\ hpc' = [hpc EXCEPT ![h] = "process"]
  /\ UNCHANGED <<controlVars, allocated, mutex, hasEvent, readerVars, history>>

\* Mutant: the event variable is cleared before it is used.
HandlerProcessCleared(h) ==
  /\ hpc[h] = "process"
  /\ hev' = [hev EXCEPT ![h] = None]
  /\ handled' = Append(handled, hev'[h])
  /\ hpc' = [hpc EXCEPT ![h] = "lock"]
  /\ UNCHANGED <<controlVars, allocated, queue, syncVars, readerVars, discarded, refused>>

\* The rest of the loop body: the event has been handled, next iteration.
HandlerProcess(h) ==
  /\ hpc[h] = "process"
  /\ handled' = Append(handled, hev[h])
  /\ hev' = [hev EXCEPT ![h] = None]
  /\ hpc' = [hpc EXCEPT ![h] = "lock"]
  /\ UNCHANGED <<controlVars, allocated, queue, syncVars, readerVars, discarded, refused>>

(* ------------------------- Engine::start on the control thread ----------- *)

\* setState(Loading) and m_inputHook->install(): a reader per keyboard starts.
StartInstall ==
  /\ cpc = "stopped" /\ \E h \in Handler : hpc[h] = "none"
  /\ state' = "Loading" /\ cpc' = "installed"
  /\ rpc' = [r \in Reader |-> "reading"]
  /\ stopReq' = [r \in Reader |-> FALSE]
  /\ UNCHANGED <<current, joining, allocated, queue, syncVars, rev, handlerVars, history>>

\* install() throws (no device, no permission); EngineAdapter::start catches
\* and logs it, and nothing touches the state again before stop().
StartInstallThrows ==
  /\ cpc = "stopped" /\ \E h \in Handler : hpc[h] = "none"
  /\ state' = "Loading" /\ cpc' = "failed"
  /\ UNCHANGED <<current, joining, allocated, queue, syncVars, readerVars, handlerVars, history>>

StartQueue ==
  /\ cpc = "installed"
  /\ allocated' = TRUE /\ queue' = <<>>
  /\ cpc' = "queueMade"
  /\ UNCHANGED <<state, current, joining, syncVars, readerVars, handlerVars, history>>

StartMutex ==
  /\ cpc = "queueMade"
  /\ mutex' = TRUE /\ owner' = None
  /\ cpc' = "mutexMade"
  /\ UNCHANGED <<state, current, joining, allocated, queue, hasEvent, signaled, readerVars,
                 handlerVars, history>>

\* createEvent(true, false): manual reset, not signalled.
StartEvent ==
  /\ cpc = "mutexMade"
  /\ hasEvent' = TRUE /\ signaled' = FALSE
  /\ cpc' = "eventMade"
  /\ UNCHANGED <<state, current, joining, allocated, queue, mutex, owner, readerVars,
                 handlerVars, history>>

\* createThread(keyboardHandler) and setState(Running).
StartHandler ==
  /\ cpc = "eventMade"
  /\ \E h \in Handler :
       /\ hpc[h] = "none"
       /\ hpc' = [hpc EXCEPT ![h] = "lock"]
       /\ current' = h
  /\ state' = "Running" /\ cpc' = "running"
  /\ UNCHANGED <<joining, allocated, queue, syncVars, readerVars, hev, history>>

(* ------------------------- Engine::stop on the control thread ------------ *)

\* stop() is called; m_inputHook->uninstall() comes first.
Stop ==
  /\ cpc \in {"running", "failed"}
  /\ cpc' = "uninstall"
  /\ UNCHANGED <<state, current, joining, allocated, queue, syncVars, readerVars, handlerVars, history>>

\* EventReaderThread::stop: ask the next reader to stop and join it.
StopReader(r) ==
  /\ cpc = "uninstall" /\ joining = None /\ rpc[r] # "off"
  /\ stopReq' = [stopReq EXCEPT ![r] = TRUE]
  /\ joining' = r
  /\ UNCHANGED <<state, cpc, current, allocated, queue, syncVars, rpc, rev, handlerVars, history>>

JoinReader(r) ==
  /\ joining = r /\ rpc[r] = "exited"
  /\ rpc' = [rpc EXCEPT ![r] = "off"]
  /\ joining' = None
  /\ UNCHANGED <<state, cpc, current, allocated, queue, syncVars, rev, stopReq, handlerVars, history>>

\* Mutant: the queue is deleted before the readers are joined.
StopLockEarly ==
  /\ cpc = "uninstall"
  /\ Acquire(Control)
  /\ cpc' = "delete"
  /\ UNCHANGED <<state, current, joining, allocated, queue, mutex, hasEvent, signaled, readerVars,
                 handlerVars, history>>

\* Every reader is joined: acquire the queue mutex.
StopLock ==
  /\ cpc = "uninstall" /\ \A r \in Reader : rpc[r] = "off"
  /\ Acquire(Control)
  /\ cpc' = "delete"
  /\ UNCHANGED <<state, current, joining, allocated, queue, mutex, hasEvent, signaled, readerVars,
                 handlerVars, history>>

\* Mutant: stop() does not wake the handler.
StopDeleteSilently ==
  /\ cpc = "delete"
  /\ discarded' = discarded \cup {queue[i] : i \in DOMAIN queue}
  /\ allocated' = FALSE /\ queue' = <<>>
  /\ Release
  /\ cpc' = "joinHandler"
  /\ UNCHANGED <<state, current, joining, mutex, hasEvent, signaled, readerVars, handlerVars,
                 handled, refused>>

\* delete m_inputQueue, set it to nullptr, setEvent, releaseMutex.
StopDelete ==
  /\ cpc = "delete"
  /\ discarded' = discarded \cup {queue[i] : i \in DOMAIN queue}
  /\ allocated' = FALSE /\ queue' = <<>>
  /\ signaled' = hasEvent
  /\ Release
  /\ cpc' = "joinHandler"
  /\ UNCHANGED <<state, current, joining, mutex, hasEvent, readerVars, handlerVars, handled, refused>>

\* waitForObject(m_threadHandle, 2000) ends because the thread has exited, or
\* the handle is null, or the time is up while the handler is busy with an event
\* or about to notice that the queue is gone; the result is only logged.
HandlerJoined ==
  current # None =>
    hpc[current] = "exited" \/ (SlowHandler /\ hpc[current] \in {"process", "lock", "check"})

\* The wait is over: m_threadHandle = nullptr.
StopJoin ==
  /\ cpc = "joinHandler" /\ HandlerJoined
  /\ current' = None
  /\ cpc' = "joined"
  /\ UNCHANGED <<state, joining, allocated, queue, syncVars, readerVars, handlerVars, history>>

\* destroyEvent frees the event; m_readEvent still points to it.
DestroyEvent ==
  /\ cpc = "joined"
  /\ cpc' = "eventDestroyed"
  /\ UNCHANGED <<state, current, joining, allocated, queue, syncVars, readerVars, handlerVars, history>>

\* m_readEvent = nullptr.
NullEvent ==
  /\ cpc = "eventDestroyed"
  /\ hasEvent' = FALSE /\ signaled' = FALSE
  /\ cpc' = "eventNull"
  /\ UNCHANGED <<state, current, joining, allocated, queue, mutex, owner, readerVars, handlerVars, history>>

\* destroyMutex frees the mutex, locked or not; m_queueMutex still points to it.
DestroyMutex ==
  /\ cpc = "eventNull"
  /\ cpc' = "mutexDestroyed"
  /\ UNCHANGED <<state, current, joining, allocated, queue, syncVars, readerVars, handlerVars, history>>

\* m_queueMutex = nullptr and setState(Stopped).
NullMutex ==
  /\ cpc = "mutexDestroyed"
  /\ mutex' = FALSE
  /\ state' = "Stopped" /\ cpc' = "stopped"
  /\ UNCHANGED <<current, joining, allocated, queue, owner, hasEvent, signaled, readerVars, handlerVars, history>>

(* ------------------------------------------------------------------------- *)

ReaderNext(r) ==
  \/ ReadEvent(r) \/ ReadOther(r) \/ Disconnect(r)
  \/ PushLock(r) \/ Push(r) \/ Signal(r) \/ PushUnlock(r)

HandlerNext(h) ==
  \/ HandlerLock(h) \/ HandlerStuck(h) \/ HandlerExit(h) \/ HandlerSleep(h)
  \/ HandlerWake(h) \/ HandlerPop(h) \/ HandlerProcess(h)

StartNext == StartQueue \/ StartMutex \/ StartEvent \/ StartHandler

StopNext ==
  \/ \E r \in Reader : StopReader(r) \/ JoinReader(r)
  \/ StopLock \/ StopDelete \/ StopJoin
  \/ DestroyEvent \/ NullEvent \/ DestroyMutex \/ NullMutex

Next ==
  \/ \E r \in Reader : ReaderNext(r)
  \/ \E h \in Handler : HandlerNext(h)
  \/ StartInstall \/ StartInstallThrows \/ Stop
  \/ StartNext \/ StopNext

Spec == Init /\ [][Next]_vars

\* Threads that have something to do are eventually scheduled.  Nothing makes a
\* user hit a key, unplug a keyboard, or start and stop the engine.
Fairness ==
  /\ \A r \in Reader : WF_vars(PushLock(r) \/ Push(r) \/ Signal(r) \/ PushUnlock(r))
  /\ \A h \in Handler : WF_vars(HandlerNext(h))
  /\ WF_vars(StartNext) /\ WF_vars(StopNext)

FairSpec == Spec /\ Fairness

\* The assumption under which stop() returns: each keyboard it joins delivers
\* something once more, be it the news that it is gone.
InputGoesOn == \A r \in Reader : WF_vars(ReadEvent(r) \/ ReadOther(r) \/ Disconnect(r))

FairInputSpec == FairSpec /\ InputGoesOn

(* -------------------------------- Properties ----------------------------- *)

ControlPc ==
  {"stopped", "failed", "running", "uninstall", "delete", "joinHandler"} \cup Starting \cup Destroying

TypeOK ==
  /\ state \in {"Stopped", "Loading", "Running"}
  /\ cpc \in ControlPc
  /\ current \in Handler \cup {None}
  /\ joining \in Reader \cup {None}
  /\ allocated \in BOOLEAN
  /\ queue \in Seq(Event)
  /\ mutex \in BOOLEAN
  /\ owner \in Reader \cup Handler \cup {Control, None}
  /\ hasEvent \in BOOLEAN
  /\ signaled \in BOOLEAN
  /\ rpc \in [Reader -> {"off", "reading", "lock", "push", "signal", "unlock", "exited"}]
  /\ rev \in [Reader -> 0 .. MaxEvents]
  /\ stopReq \in [Reader -> BOOLEAN]
  /\ hpc \in [Handler -> {"none", "lock", "check", "wait", "process", "stuck", "exited"}]
  /\ hev \in [Handler -> Event \cup {None}]
  /\ handled \in Seq(Event)
  /\ discarded \subseteq Event
  /\ refused \subseteq Event

\* The threads that are reading or changing *m_inputQueue.
InQueue ==
  {r \in Reader : rpc[r] \in {"push", "signal"}}
    \cup {h \in Handler : hpc[h] = "check"}
    \cup (IF cpc = "delete" /\ current # None THEN {Control} ELSE {})

\* The deque is never touched by two threads at once: whoever is inside
\* pushInputEvent, the dequeue loop or stop()'s delete is alone, because it holds
\* m_queueMutex.
QueueExclusion == \A s, t \in InQueue : s = t

\* No lost wake-up: a handler that sleeps in waitForObject(m_readEvent) while an
\* event is queued, or after stop() took the queue away, has a signal to wake it
\* or a pusher that is about to give it one.
NoLostWakeup ==
  \A h \in Handler : hpc[h] = "wait" /\ (queue # <<>> \/ ~allocated) =>
     signaled \/ \E r \in Reader : rpc[r] = "signal"

\* Between a stop() and the next start() no handler is left behind: two handlers
\* never take events from the queue side by side.
SingleHandler ==
  \A g, h \in Handler : hpc[g] \notin {"none", "exited"} /\ hpc[h] \notin {"none", "exited"} => g = h

\* Nobody uses a synchronisation object that is not there: no handler sleeps on
\* an event, and no thread locks, holds or is about to release a mutex, that
\* stop() has destroyed, be the pointer to it cleared already or not.
NoUseAfterDestroy ==
  /\ ~hasEvent \/ cpc = "eventDestroyed" => \A h \in Handler : hpc[h] # "wait"
  /\ ~MutexUsable =>
       /\ owner = None
       /\ \A h \in Handler : hpc[h] \notin {"lock", "check"}
       /\ \A r \in Reader : rpc[r] \notin {"lock", "push", "signal", "unlock"}

\* engine.h says of Engine::start and Engine::stop that they "start/stop keyboard
\* handler thread", and engine_adapter.h of stop() that it is to "wait for it to
\* complete": when stop() returns, no handler thread is left.  It fails when an
\* event takes its handler longer than stop() waits.
ThreadsJoined == cpc = "stopped" => \A h \in Handler : hpc[h] \in {"none", "exited"}

\* Where an event read from a device can be.
InFlight  == {<<r, rev[r]>> : r \in {q \in Reader : rpc[q] \in {"lock", "push"}}}
InHand    == {hev[h] : h \in Handler} \ {None}
Queued    == {queue[i] : i \in DOMAIN queue}
Processed == {handled[i] : i \in DOMAIN handled}

\* No event is lost or handled twice on its way: each event a reader took from
\* its device is in exactly one place, and only stop() ever throws one away.
EventConservation ==
  /\ refused = {}
  /\ \A r \in Reader : \A n \in 1 .. rev[r] :
       LET e == <<r, n>>
           places == <<e \in InFlight, e \in Queued, e \in InHand, e \in Processed, e \in discarded>>
       IN  Cardinality({i \in 1 .. 5 : places[i]}) = 1
  /\ Cardinality(Queued) = Len(queue) /\ Cardinality(Processed) = Len(handled)

\* The "zero dropped events" of the project's reliability record: no key event is
\* pushed at a moment when there is no queue to take it.
NoEventRefused == refused = {}

\* Every event that entered the queue is eventually handled, unless stop()
\* deletes the queue first.
EventuallyHandled ==
  \A r \in Reader : \A n \in 1 .. MaxEvents :
     (<<r, n>> \in Queued) ~> (<<r, n>> \in Processed \cup discarded)

\* EngineAdapter::stop "Stop the engine thread and wait for it to complete":
\* a stop that has begun comes to its end.
StopCompletes == (cpc = "uninstall") ~> (cpc = "stopped")

\* The state machine of engine_state.h: Stopped to Loading to Running to
\* Stopped, and to Error from anywhere.
StrictStateMachine ==
  [][\/ state' = state
     \/ <<state, state'>> \in {<<"Stopped", "Loading">>, <<"Loading", "Running">>, <<"Running", "Stopped">>}
     \/ state' = "Error"]_state

\* Accepted events are handled in the order of acceptance, each once, across
\* readers, restarts and shut-downs.
Stream == INSTANCE KeyStream WITH
  pending <- (IF \E h \in Handler : hev[h] # None
              THEN <<hev[CHOOSE h \in Handler : hev[h] # None]>> ELSE <<>>) \o queue
ImplementsKeyStream == Stream!Spec

\* The discipline of the queue, proved in InputQueueProofs: one thread at a time in the
\* deque, no wake-up lost, one handler, and no synchronisation object used after stop()
\* destroyed it.
QueueDiscipline == QueueExclusion /\ NoLostWakeup /\ SingleHandler /\ NoUseAfterDestroy

\* Every queued event comes to its end and so does stop(), also when stop() gives up
\* waiting for a slow handler.
QueueProgress == EventuallyHandled /\ StopCompletes
=============================================================================
