--------------------------------- MODULE Detour ---------------------------------
(***************************************************************************)
(* The keyboard filter driver mayud.c.  While the detour device is open,    *)
(* what the keyboards deliver goes into the detour's queue, where mayu      *)
(* reads it; what mayu writes goes into the queue of a filter, where the    *)
(* system's read finds it.  The system has one read outstanding for each    *)
(* keyboard; to wake it up, the driver cancels that read.                   *)
(*                                                                         *)
(* A section under one spin lock is a step.  The detour's lock and the      *)
(* system-wide cancel lock are nested in both orders and are therefore      *)
(* explicit.  mayu writes what it has read, so a key keeps its number from  *)
(* the keyboard to the system.                                              *)
(***************************************************************************)
EXTENDS Naturals, Sequences, FiniteSets

CONSTANTS
  Kbd,       \* keyboards, each with its filter device
  NoKbd,
  QueSize,   \* KeyQueSize, 100 in the code
  MaxKeys,   \* bound: keys that are typed
  MaxForced, \* bound: keys that mayu puts in
  MaxOpens,  \* bound: how often the device is opened
  SMP        \* several processors?  On one, nothing runs beside a spin lock

ASSUME DetourAssumption ==
  /\ NoKbd \notin Kbd /\ QueSize \in Nat \ {0} /\ MaxKeys \in Nat /\ MaxForced \in Nat /\ MaxOpens \in Nat
  /\ SMP \in BOOLEAN /\ Kbd \cap {"free", "mayu", "control"} = {} \* the other holders of a lock

VARIABLES
  typed,    \* keys so far; they are 1, 2, ...
  forced,   \* keys that mayu has put in itself, MaxKeys + 1, ...
  classq,   \* what the keyboard class driver holds for each keyboard
  irp,      \* where the system's read of each keyboard is
  buf,      \* what it carries on its way back
  marked,   \* FilterDeviceExtension::irpq is set
  fq,       \* FilterDeviceExtension::readQue
  received, \* history: what the system got
  isOpen, cleanup, current, dq, \* isOpen, wasCleanupInitiated, filterDevObj, readQue
  irpq,     \* DetourDeviceExtension::irpq is set
  read,     \* mayu's read: "none", "pending", "done"
  routine,  \* is the cancel routine of that read set?
  dlock, clock, \* who holds the detour's lock and the cancel lock
  handler,  \* where mayu's handler thread is, the filter that it writes to and its keys
  control,  \* where mayu's other thread is
  opens     \* how often the device was opened

filterVars  == <<typed, forced, classq, irp, buf, marked, fq, received>>
deviceVars  == <<isOpen, cleanup, current, dq, irpq>>
readVars    == <<read, routine>>
detourVars  == <<filterVars, deviceVars, readVars, dlock, clock, handler, control, opens>>

Free == "free"

DetourInit ==
  /\ typed = 0 /\ forced = 0 /\ classq = [k \in Kbd |-> <<>>] /\ irp = [k \in Kbd |-> "none"]
  /\ buf = [k \in Kbd |-> <<>>] /\ marked = [k \in Kbd |-> FALSE] /\ fq = [k \in Kbd |-> <<>>]
  /\ received = <<>>
  /\ isOpen = FALSE /\ cleanup = FALSE /\ dq = <<>> /\ irpq = FALSE
  /\ current \in Kbd
  /\ read = "none" /\ routine = FALSE /\ dlock = Free /\ clock = Free
  /\ handler = [at |-> "closed", to |-> NoKbd, keys |-> <<>>] /\ control = "idle" /\ opens = 0

\* On a single processor the holder of a spin lock is not interrupted.
MayRun(who) == SMP \/ ({dlock, clock} \subseteq {Free, who})
\* The detour's lock is taken and released within the step.
Locked(who) == MayRun(who) /\ dlock = Free

\* KqEnque: what does not fit is chopped.
Enque(q, keys) == q \o SubSeq(keys, 1, IF QueSize - Len(q) < Len(keys) THEN QueSize - Len(q) ELSE Len(keys))

Detoured == isOpen /\ ~cleanup

(* ------------------------- The system and the filter ----------------------- *)

Type(k) ==
  /\ typed < MaxKeys /\ MayRun(k)
  /\ typed' = typed + 1 /\ UNCHANGED forced /\ classq' = [classq EXCEPT ![k] = Append(@, typed + 1)]
  /\ UNCHANGED <<irp, buf, marked, fq, received, deviceVars, readVars, dlock, clock, handler, control, opens>>

\* filterRead: is the device open?
FilterRead(k) ==
  /\ irp[k] = "none" /\ Locked(k)
  /\ irp' = [irp EXCEPT ![k] = IF Detoured THEN "queue" ELSE "mark"]
  /\ UNCHANGED <<typed, forced, classq, buf, marked, fq, received, deviceVars, readVars, dlock, clock, handler, control, opens>>

\* filterRead: what mayu has written is returned at once.
FilterReadQueue(k) ==
  /\ irp[k] = "queue" /\ MayRun(k)
  /\ received' = received \o fq[k] /\ fq' = [fq EXCEPT ![k] = <<>>]
  /\ irp' = [irp EXCEPT ![k] = IF fq[k] # <<>> THEN "none" ELSE "mark"]
  /\ UNCHANGED <<typed, forced, classq, buf, marked, deviceVars, readVars, dlock, clock, handler, control, opens>>

FilterReadMark(k) ==
  /\ irp[k] = "mark" /\ MayRun(k)
  /\ marked' = [marked EXCEPT ![k] = TRUE] /\ irp' = [irp EXCEPT ![k] = "call"]
  /\ UNCHANGED <<typed, forced, classq, buf, fq, received, deviceVars, readVars, dlock, clock, handler, control, opens>>

\* IoCallDriver: the class driver keeps the read, with a cancel routine.
CallClass(k) ==
  /\ irp[k] = "call" /\ MayRun(k)
  /\ irp' = [irp EXCEPT ![k] = "class"]
  /\ UNCHANGED <<typed, forced, classq, buf, marked, fq, received, deviceVars, readVars, dlock, clock, handler, control, opens>>

\* The class driver completes the read.
ClassCompletes(k) ==
  /\ irp[k] = "class" /\ classq[k] # <<>> /\ MayRun(k)
  /\ buf' = [buf EXCEPT ![k] = classq[k]] /\ classq' = [classq EXCEPT ![k] = <<>>]
  /\ irp' = [irp EXCEPT ![k] = "completed"]
  /\ UNCHANGED <<typed, forced, marked, fq, received, deviceVars, readVars, dlock, clock, handler, control, opens>>

\* filterReadCompletion, up to the test under the detour's lock.
CompletionUnmark(k) ==
  /\ irp[k] = "completed" /\ MayRun(k)
  /\ marked' = [marked EXCEPT ![k] = FALSE] /\ irp' = [irp EXCEPT ![k] = "unmarked"]
  /\ UNCHANGED <<typed, forced, classq, buf, fq, received, deviceVars, readVars, dlock, clock, handler, control, opens>>

\* While the device is open keys are forwarded to it, and this keyboard gets the
\* output from now on.
CompletionDetour(k) ==
  /\ irp[k] = "unmarked" /\ Locked(k)
  /\ IF Detoured
     THEN /\ irp' = [irp EXCEPT ![k] = "serve"] /\ dlock' = k
          /\ dq' = Enque(dq, buf[k]) /\ buf' = [buf EXCEPT ![k] = <<>>]
          /\ current' = IF buf[k] # <<>> THEN k ELSE current
     ELSE irp' = [irp EXCEPT ![k] = "return"] /\ UNCHANGED <<dlock, dq, buf, current>>
  /\ UNCHANGED <<typed, forced, classq, marked, fq, received, isOpen, cleanup, irpq, readVars, clock, handler, control, opens>>

\* A waiting read of mayu is completed with one key, its cancel routine is reset.
\* Both locks are held.
ServeRead ==
  IF irpq /\ dq # <<>>
  THEN /\ handler' = [handler EXCEPT !.keys = Append(@, Head(dq))] /\ dq' = Tail(dq)
       /\ irpq' = FALSE /\ routine' = FALSE /\ read' = "done"
  ELSE UNCHANGED <<handler, dq, irpq, routine, read>>

\* Mutant: a waiting read is left to wait.
CompletionServeLater(k) ==
  /\ irp[k] = "serve" /\ MayRun(k) /\ clock = Free
  /\ dlock' = Free /\ irp' = [irp EXCEPT ![k] = "output"]
  /\ UNCHANGED <<typed, forced, classq, buf, marked, fq, received, deviceVars, readVars, clock, handler, control, opens>>

CompletionServe(k) ==
  /\ irp[k] = "serve" /\ MayRun(k) /\ clock = Free
  /\ ServeRead /\ dlock' = Free /\ irp' = [irp EXCEPT ![k] = "output"]
  /\ UNCHANGED <<typed, forced, classq, buf, marked, fq, received, isOpen, cleanup, current, clock, control, opens>>

\* What mayu has written goes into the read instead.
CompletionOutput(k) ==
  /\ irp[k] = "output" /\ MayRun(k)
  /\ buf' = [buf EXCEPT ![k] = @ \o fq[k]] /\ fq' = [fq EXCEPT ![k] = <<>>] /\ irp' = [irp EXCEPT ![k] = "return"]
  /\ UNCHANGED <<typed, forced, classq, marked, received, deviceVars, readVars, dlock, clock, handler, control, opens>>

CompletionReturn(k) ==
  /\ irp[k] = "return" /\ MayRun(k)
  /\ received' = received \o buf[k] /\ buf' = [buf EXCEPT ![k] = <<>>] /\ irp' = [irp EXCEPT ![k] = "none"]
  /\ UNCHANGED <<typed, forced, classq, marked, fq, deviceVars, readVars, dlock, clock, handler, control, opens>>

\* IoCancelIrp on a read that the class driver may hold.
CancelClassRead(k) == irp' = [irp EXCEPT ![k] = IF @ = "class" THEN "completed" ELSE @]

(* --------------------------- mayu's handler thread ------------------------- *)

At(pc) == handler.at = pc /\ MayRun("mayu")
Go(pc) == handler' = [handler EXCEPT !.at = pc]

\* detourCreate counts first ...
Create ==
  /\ At("closed") /\ opens < MaxOpens /\ ~isOpen
  /\ isOpen' = TRUE /\ opens' = opens + 1 /\ Go("clear")
  /\ UNCHANGED <<filterVars, cleanup, current, dq, irpq, readVars, dlock, clock, control>>

\* ... then clears the queue ...
CreateClear ==
  /\ At("clear") /\ dlock = Free
  /\ cleanup' = FALSE /\ dq' = <<>> /\ Go("wake")
  /\ UNCHANGED <<filterVars, isOpen, current, irpq, readVars, dlock, clock, control, opens>>

\* ... and cancels the read that the class driver holds: it is looked for first.
CreateWake ==
  /\ At("wake")
  /\ handler' = [handler EXCEPT !.at = IF irp[current] = "class" THEN "cancel" ELSE "open", !.to = current]
  /\ UNCHANGED <<filterVars, deviceVars, readVars, dlock, clock, control, opens>>

CreateCancel ==
  /\ At("cancel") /\ CancelClassRead(handler.to) /\ Go("open")
  /\ UNCHANGED <<typed, forced, classq, buf, marked, fq, received, deviceVars, readVars, dlock, clock, control, opens>>

\* detourRead: a key that is there is returned ...
DetourRead ==
  /\ At("open") /\ dlock = Free /\ handler.keys = <<>> /\ read # "pending"
  /\ IF dq # <<>>
     THEN /\ handler' = [handler EXCEPT !.keys = <<Head(dq)>>] /\ dq' = Tail(dq)
          /\ UNCHANGED <<dlock, read>>
     ELSE read' = "pending" /\ dlock' = "mayu" /\ Go("pend") /\ UNCHANGED dq
  /\ UNCHANGED <<filterVars, isOpen, cleanup, current, irpq, routine, clock, control, opens>>

\* ... otherwise the read is kept.
DetourReadPend ==
  /\ At("pend") /\ clock = Free
  /\ irpq' = TRUE /\ routine' = TRUE /\ dlock' = Free /\ Go("open")
  /\ UNCHANGED <<filterVars, isOpen, cleanup, current, dq, read, clock, control, opens>>

\* detourWrite: which filter?
DetourWrite ==
  /\ At("open") /\ dlock = Free /\ handler.keys # <<>>
  /\ handler' = [handler EXCEPT !.at = "enque", !.to = current]
  /\ UNCHANGED <<filterVars, deviceVars, readVars, dlock, clock, control, opens>>

\* detourWrite: its queue, and the read that it holds.
DetourWriteEnque ==
  /\ At("enque")
  /\ LET k == handler.to
     IN /\ fq' = [fq EXCEPT ![k] = Enque(@, handler.keys)] /\ marked' = [marked EXCEPT ![k] = FALSE]
        /\ handler' = [handler EXCEPT !.at = IF marked[k] THEN "look" ELSE "open", !.keys = <<>>]
  /\ UNCHANGED <<typed, forced, classq, irp, buf, received, deviceVars, readVars, dlock, clock, control, opens>>

\* CancelKeyboardClassRead: only a read that the class driver holds is cancelled.
DetourWriteLook ==
  /\ At("look")
  /\ Go(IF irp[handler.to] = "class" THEN "cancel" ELSE "open")
  /\ UNCHANGED <<filterVars, deviceVars, readVars, dlock, clock, control, opens>>

\* Mutant: the pending read is not cancelled before the handle is closed.
CancelIoSkipped ==
  /\ At("open") /\ control = "idle"
  /\ Go("cleanup")
  /\ UNCHANGED <<filterVars, deviceVars, readVars, dlock, clock, control, opens>>

\* InputDriverWin32::close: CancelIo, through mayuDetourReadCancel.
CancelIo ==
  /\ At("open") /\ control = "idle"
  /\ IF routine
     THEN clock = Free /\ clock' = "mayu" /\ routine' = FALSE /\ Go("cancelled")
     ELSE Go("cleanup") /\ UNCHANGED <<clock, routine>>
  /\ UNCHANGED <<filterVars, deviceVars, read, dlock, control, opens>>

CancelIoRoutine ==
  /\ At("cancelled") /\ dlock = Free
  /\ irpq' = FALSE /\ read' = "done" /\ clock' = Free /\ Go("cleanup")
  /\ UNCHANGED <<filterVars, isOpen, cleanup, current, dq, routine, dlock, control, opens>>

\* detourCleanup: irpq is forgotten; CurrentIrp, which it completes, is never set.
Cleanup ==
  /\ At("cleanup") /\ dlock = Free /\ clock = Free
  /\ cleanup' = TRUE /\ irpq' = FALSE
  /\ handler' = [at |-> "closing", to |-> NoKbd, keys |-> <<>>]
  /\ UNCHANGED <<filterVars, isOpen, current, dq, readVars, dlock, clock, control, opens>>

\* detourClose comes when no read is outstanding.
Close ==
  /\ At("closing") /\ dlock = Free /\ read # "pending"
  /\ isOpen' = FALSE /\ read' = "none" /\ Go("closed")
  /\ UNCHANGED <<filterVars, cleanup, current, dq, irpq, routine, dlock, clock, control, opens>>

(* ---------------------------- mayu's other thread --------------------------- *)

\* The handle is in use by two threads only between CreateFile and CloseHandle.
Usable == handler.at \in {"open", "pend", "enque", "look", "cancel"} /\ cleanup = FALSE

\* IOCTL_MAYU_DETOUR_CANCEL.
DetourCancel ==
  /\ control = "idle" /\ Locked("control") /\ Usable /\ isOpen /\ irpq
  /\ control' = "cancel"
  /\ UNCHANGED <<filterVars, deviceVars, readVars, dlock, clock, handler, opens>>

\* IoCancelIrp: by now the read may be completed.
DetourCancelIrp ==
  /\ control = "cancel" /\ MayRun("control") /\ clock = Free
  /\ IF routine THEN clock' = "control" /\ routine' = FALSE /\ control' = "routine"
     ELSE control' = "idle" /\ UNCHANGED <<clock, routine>>
  /\ UNCHANGED <<filterVars, deviceVars, read, dlock, handler, opens>>

\* mayuDetourReadCancel, with the cancel lock held.
DetourReadCancel ==
  /\ control = "routine" /\ MayRun("control") /\ dlock = Free
  /\ irpq' = FALSE /\ read' = "done" /\ clock' = Free /\ control' = "idle"
  /\ UNCHANGED <<filterVars, isOpen, cleanup, current, dq, routine, dlock, handler, opens>>

\* IOCTL_MAYU_FORCE_KEYBOARD_INPUT.
ForceInput ==
  /\ control = "idle" /\ Locked("control") /\ Usable /\ forced < MaxForced
  /\ forced' = forced + 1 /\ dq' = Enque(dq, <<MaxKeys + forced + 1>>)
  /\ dlock' = "control" /\ control' = "force"
  /\ UNCHANGED <<typed, classq, irp, buf, marked, fq, received, isOpen, cleanup, current, irpq, readVars, clock, handler, opens>>

ForceInputServe ==
  /\ control = "force" /\ MayRun("control") /\ clock = Free
  /\ ServeRead /\ dlock' = Free /\ control' = "idle"
  /\ UNCHANGED <<filterVars, isOpen, cleanup, current, clock, opens>>

Filter(k) ==
  \/ FilterRead(k) \/ FilterReadQueue(k) \/ FilterReadMark(k) \/ CallClass(k) \/ ClassCompletes(k)
  \/ CompletionUnmark(k) \/ CompletionDetour(k) \/ CompletionServe(k) \/ CompletionOutput(k) \/ CompletionReturn(k)

Closing == CancelIoRoutine \/ Cleanup \/ Close

Handler ==
  \/ Create \/ CreateClear \/ CreateWake \/ CreateCancel
  \/ DetourRead \/ DetourReadPend \/ DetourWrite \/ DetourWriteEnque \/ DetourWriteLook
  \/ CancelIo \/ Closing

Control == DetourCancel \/ DetourCancelIrp \/ DetourReadCancel \/ ForceInput \/ ForceInputServe

DetourNext == (\E k \in Kbd : Type(k) \/ Filter(k)) \/ Handler \/ Control

DetourSpec == DetourInit /\ [][DetourNext]_detourVars

\* Threads run on; nobody has to type, open or close.
DetourFairness ==
  /\ \A k \in Kbd : SF_detourVars(Filter(k))
  /\ WF_detourVars(Closing) /\ WF_detourVars(CreateClear \/ CreateWake \/ CreateCancel)
  /\ WF_detourVars(DetourRead \/ DetourReadPend \/ DetourWrite \/ DetourWriteEnque \/ DetourWriteLook)
  /\ WF_detourVars(DetourCancelIrp \/ DetourReadCancel \/ ForceInputServe)

DetourFairSpec == DetourSpec /\ DetourFairness

(* -------------------------------- Properties ------------------------------- *)

Pcs == {"closed", "clear", "wake", "cancel", "open", "pend", "enque", "look", "cancelled", "cleanup", "closing"}
Keys(q) == {q[i] : i \in DOMAIN q}

DetourTypeOK ==
  /\ typed \in 0..MaxKeys /\ forced \in 0..MaxForced
  /\ irp \in [Kbd -> {"none", "queue", "mark", "call", "class", "completed", "unmarked", "serve", "output", "return"}]
  /\ {classq[k] : k \in Kbd} \cup {buf[k] : k \in Kbd} \cup {fq[k] : k \in Kbd} \cup {received, dq} \subseteq Seq(1..MaxKeys + MaxForced)
  /\ \A q \in {dq} \cup {fq[k] : k \in Kbd} : Len(q) <= QueSize
  /\ marked \in [Kbd -> BOOLEAN] /\ {isOpen, cleanup, irpq, routine} \subseteq BOOLEAN
  /\ current \in Kbd /\ read \in {"none", "pending", "done"}
  /\ {dlock, clock} \subseteq Kbd \cup {Free, "mayu", "control"}
  /\ handler.at \in Pcs /\ handler.to \in Kbd \cup {NoKbd} /\ handler.keys \in Seq(1..MaxKeys + MaxForced)
  /\ control \in {"idle", "cancel", "routine", "force"} /\ opens \in 0..MaxOpens

\* The system gets the typed keys, and those that mayu put in, each in their order and
\* none twice, also around the moments when the device is opened and closed.
KeysInOrder ==
  \A i, j \in DOMAIN received :
     i < j /\ (received[i] <= MaxKeys <=> received[j] <= MaxKeys) => received[i] < received[j]

Keyed == (1..typed) \cup (MaxKeys + 1 .. MaxKeys + forced)
\* The keys that are somewhere.
Held == Keys(received) \cup Keys(dq) \cup Keys(handler.keys)
        \cup UNION {Keys(classq[k]) \cup Keys(buf[k]) \cup Keys(fq[k]) : k \in Kbd}

\* A key is lost only where a queue is full, or when the device is opened or closed.
LostAtLimits ==
  [][Keyed \ Held # Keyed' \ Held' =>
       \/ Len(dq') = QueSize \/ \E k \in Kbd : Len(fq'[k]) = QueSize
       \/ handler.at \in {"clear", "cleanup"}]_detourVars

\* No key is lost at all.
NothingLost == Held = Keyed

\* mayu's read does not wait while there is a key for it.
ReadNotStarved == irpq /\ dlock = Free => dq = <<>>

\* The driver holds on to a read only as long as it is outstanding, so that it is
\* completed once.
ReadCompletedOnce == (irpq \/ routine) => read = "pending"

\* A processor does not wait for the cancel lock with the detour's lock held, while
\* another waits for the detour's lock with the cancel lock held.
NoSpinDeadlock ==
  ~(dlock # Free /\ clock # Free /\ dlock # clock)

\* Whoever closes the device gets it closed.
CloseCompletes == handler.at \in {"cancelled", "cleanup", "closing"} ~> ~isOpen

\* What mayu writes reaches the system without another key being typed.
OutputDelivered == \A k \in Kbd : fq[k] # <<>> ~> (fq[k] = <<>> \/ ~Detoured)

\* Keys pass the filter in order, are lost only at named limits, and mayu's read is
\* served as soon as there is a key and completed once.
DetourSafe == [](DetourTypeOK /\ KeysInOrder /\ ReadNotStarved /\ ReadCompletedOnce) /\ LostAtLimits
=============================================================================
